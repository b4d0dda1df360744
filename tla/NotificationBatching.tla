------------------------ MODULE NotificationBatching ------------------------
(***************************************************************************)
(* From the events of one aggregation key to their notifications.          *)
(*                                                                         *)
(* _emitEventInTx inserts the event in its caller's transaction and queues *)
(* a CreateEventNotifications task outside of it.  The idempotency key of  *)
(* the task is a window of time, so the events of one window share one     *)
(* task; the conflict with an earlier row is ignored even when that task   *)
(* has already run.  The task waits until the key has been quiet for       *)
(* Debounce, requeueing a copy of itself that counts its ancestors, and    *)
(* then turns every unhandled event into one notification and queues the   *)
(* task that builds the deliveries.  That one has a window as idempotency  *)
(* key too, and there a conflict throws.                                   *)
(*                                                                         *)
(* Nothing looks for unhandled events by itself: an event for which no     *)
(* task is left to run is never notified, unless others follow it.  That   *)
(* happens to events whose transaction stays open for longer than the      *)
(* slack of their window's task, which nothing prevents.  The variable     *)
(* late remembers them, and no action reads it: the properties say what    *)
(* holds of the other events while late ones come in between.              *)
(*                                                                         *)
(* Time is discrete; a tick may be any unit.  A task and its requeued      *)
(* copies are one chain, named by its window.  Core tasks run one at a     *)
(* time (CoreTaskDrain) and as late as they please.  Aggregation keys      *)
(* share nothing but the drain, so one is enough.                          *)
(*                                                                         *)
(* A definition under "Mutant:" is a bug put in place of the next one to   *)
(* see a property fail; it is no part of the specification.                *)
(***************************************************************************)
EXTENDS Integers, FiniteSets

CONSTANTS
  Event,
  Window,           \* the windows of queued tasks (5 s)
  Slack,            \* what dontStartBefore adds to a window (0.5 s)
  Debounce,         \* debounceSeconds (5 s)
  MaxInterval,      \* maxIntervalSeconds (60 s)
  MaxRequeues,      \* maxIntervalSeconds + 10 (70)
  MinDelay,         \* the least delay of a requeued task (1 s)
  DeliveryWindow,   \* the windows of delivery tasks (2 s)
  LastEmit,         \* bound: no event is emitted later
  MaxTime           \* bound: time ends here, or when no task waits for it

ASSUME TimeAssumption ==
  /\ Window \in Nat \ {0}
  /\ Slack \in Nat
  /\ Debounce \in Nat
  /\ MaxInterval \in Nat
  /\ MaxRequeues \in Nat
  /\ MinDelay \in Nat \ {0}
  /\ DeliveryWindow \in Nat \ {0}
  /\ LastEmit \in Nat
  /\ MaxTime \in Nat

\* How the code chose its times: 0.5 s of slack, 5 s of debounce, 2 s of
\* delivery window, and 70 requeues of at least 1 s.
ASSUME SlackAssumption ==
  /\ Slack + DeliveryWindow <= Debounce
  /\ DeliveryWindow <= MaxRequeues * MinDelay

\* getUtcTimestampBucket, of a time one interval ahead.
Bucket(interval, t) == (t + interval) \div interval

Chain == 1 .. Bucket(Window, LastEmit)

VARIABLES
  now,
  state,     \* of each event: its row and what was done about it
  at,        \* of each event: createdAt
  late,      \* history: the events committed later than Slack after createdAt
  phase,     \* of each chain: whether its task waits, runs or is over
  due,       \* of each chain: dontStartBefore of its waiting task
  count,     \* of each chain: requeueCount
  step,      \* what the running task is about to do
  delay,     \* requeueDelayMs of its decision
  notified,  \* of each event: the notifications it is in
  delivery   \* the idempotency keys of the delivery tasks

event == <<state, at, late>>
chain == <<phase, due, count>>
task == <<step, delay>>
flushed == <<notified, delivery>>
vars == <<now, state, at, late, phase, due, count, step, delay, notified, delivery>>

TypeOK ==
  /\ now \in Nat
  /\ state \in [Event -> {"none", "open", "queued", "committed", "handled",
                          "rolledBack"}]
  /\ at \in [Event -> Nat]
  /\ late \subseteq Event
  /\ phase \in [Chain -> {"none", "waiting", "running", "over"}]
  /\ due \in [Chain -> Nat]
  /\ count \in [Chain -> Nat]
  /\ step \in {"idle", "decide", "requeue", "flush"}
  /\ delay \in Nat
  /\ notified \in [Event -> Nat]
  /\ delivery \subseteq Nat

Init ==
  /\ now = 0
  /\ state = [e \in Event |-> "none"]
  /\ at = [e \in Event |-> 0]
  /\ late = {}
  /\ phase = [b \in Chain |-> "none"]
  /\ due = [b \in Chain |-> 0]
  /\ count = [b \in Chain |-> 0]
  /\ step = "idle"
  /\ delay = 0
  /\ notified = [e \in Event |-> 0]
  /\ delivery = {}

-----------------------------------------------------------------------------
(* Events. *)

\* The event's row is inserted in the transaction of the caller.
InsertEvent(e) ==
  /\ state[e] = "none"
  /\ now <= LastEmit
  /\ state' = [state EXCEPT ![e] = "open"]
  /\ at' = [at EXCEPT ![e] = now]
  /\ UNCHANGED <<now, late, chain, task, flushed>>

\* Mutant: no slack is left after the window.
QueueTaskEarly(e) ==
  /\ state[e] = "open"
  /\ state' = [state EXCEPT ![e] = "queued"]
  /\ LET b == Bucket(Window, at[e]) IN
       IF phase[b] = "none"
       THEN /\ phase' = [phase EXCEPT ![b] = "waiting"]
            /\ due' = [due EXCEPT ![b] = at[e] + Window]
       ELSE UNCHANGED <<phase, due>>
  /\ UNCHANGED <<now, at, late, count, task, flushed>>

\* The task of the event's window is inserted, in a transaction of its own,
\* unless the window has one.
QueueTask(e) ==
  /\ state[e] = "open"
  /\ state' = [state EXCEPT ![e] = "queued"]
  /\ LET b == Bucket(Window, at[e]) IN
       IF phase[b] = "none"
       THEN /\ phase' = [phase EXCEPT ![b] = "waiting"]
            /\ due' = [due EXCEPT ![b] = at[e] + Window + Slack]
       ELSE UNCHANGED <<phase, due>>
  /\ UNCHANGED <<now, at, late, count, task, flushed>>

\* The transaction of the caller ends, whenever that is.
CommitEvent(e) ==
  /\ state[e] = "queued"
  /\ state' = [state EXCEPT ![e] = "committed"]
  /\ late' = IF now > at[e] + Slack THEN late \cup {e} ELSE late
  /\ UNCHANGED <<now, at, chain, task, flushed>>

\* The transaction of the caller fails, before or after the task is queued.
RollbackEvent(e) ==
  /\ state[e] \in {"open", "queued"}
  /\ state' = [state EXCEPT ![e] = "rolledBack"]
  /\ UNCHANGED <<now, at, late, chain, task, flushed>>

-----------------------------------------------------------------------------
(* The task. *)

\* getUnhandledEvents
Unhandled == {e \in Event : state[e] = "committed"}

Idle == step' = "idle" /\ delay' = 0

\* The drain starts the task, which ends when there is nothing to notify.
StartTask(b) ==
  /\ step = "idle"
  /\ phase[b] = "waiting"
  /\ due[b] <= now
  /\ IF Unhandled = {}
     THEN phase' = [phase EXCEPT ![b] = "over"] /\ UNCHANGED step
     ELSE phase' = [phase EXCEPT ![b] = "running"] /\ step' = "decide"
  /\ UNCHANGED <<now, event, due, count, delay, flushed>>

IsLast(e) == e \in Unhandled /\ \A d \in Unhandled : at[d] <= at[e]
IsFirst(e) == e \in Unhandled /\ \A d \in Unhandled : at[e] <= at[d]

\* Mutant: the ceiling on requeues is not there.
ShouldFlushNoCeiling(last, n) ==
  \/ Debounce = 0
  \/ last >= now
  \/ now - last >= Debounce

\* shouldFlushEvents, from the last unhandled createdAt and the requeueCount.
\* The test of maxIntervalSeconds comes after the debounce is satisfied, where
\* both of its outcomes are to flush.
ShouldFlush(last, n) ==
  \/ Debounce = 0
  \/ last >= now
  \/ now - last >= Debounce
  \/ n >= MaxRequeues

RequeueDelay(last) ==
  IF Debounce - (now - last) > MinDelay THEN Debounce - (now - last) ELSE MinDelay

\* The task reads the events again, and decides.
Decide(b) ==
  /\ step = "decide"
  /\ phase[b] = "running"
  /\ \E e \in Event :
       /\ IsLast(e)
       /\ IF ShouldFlush(at[e], count[b])
          THEN step' = "flush" /\ UNCHANGED delay
          ELSE step' = "requeue" /\ delay' = RequeueDelay(at[e])
  /\ UNCHANGED <<now, event, chain, flushed>>

\* Mutant: the requeued task has the idempotency key of its window, and the
\* conflict is ignored.
RequeueSameKey(b) ==
  /\ step = "requeue"
  /\ phase[b] = "running"
  /\ phase' = [phase EXCEPT ![b] = "over"]
  /\ Idle
  /\ UNCHANGED <<now, event, due, count, flushed>>

\* The copy of the task is inserted: its idempotency key is a random one.
Requeue(b) ==
  /\ step = "requeue"
  /\ phase[b] = "running"
  /\ phase' = [phase EXCEPT ![b] = "waiting"]
  /\ due' = [due EXCEPT ![b] = now + delay]
  /\ count' = [count EXCEPT ![b] = @ + 1]
  /\ Idle
  /\ UNCHANGED <<now, event, flushed>>

\* Mutant: the notification is inserted outside the transaction, and stays when
\* that is rolled back.
FlushOutsideTx(b) ==
  /\ step = "flush"
  /\ phase[b] = "running"
  /\ phase' = [phase EXCEPT ![b] = "over"]
  /\ notified' = [e \in Event |->
                    IF e \in Unhandled THEN notified[e] + 1 ELSE notified[e]]
  /\ delivery' = delivery \cup {Bucket(DeliveryWindow, now)}
  /\ IF Bucket(DeliveryWindow, now) \in delivery
     THEN UNCHANGED state
     ELSE state' = [e \in Event |->
                      IF e \in Unhandled THEN "handled" ELSE state[e]]
  /\ Idle
  /\ UNCHANGED <<now, at, late, due, count>>

\* Mutant: the task takes the events of its own window only.
FlushOwnWindow(b) ==
  /\ step = "flush"
  /\ phase[b] = "running"
  /\ phase' = [phase EXCEPT ![b] = "over"]
  /\ LET mine == {e \in Unhandled : Bucket(Window, at[e]) = b} IN
     IF Bucket(DeliveryWindow, now) \in delivery
     THEN UNCHANGED <<state, flushed>>
     ELSE /\ state' = [e \in Event |-> IF e \in mine THEN "handled" ELSE state[e]]
          /\ notified' = [e \in Event |->
                IF e \in mine THEN notified[e] + 1 ELSE notified[e]]
          /\ delivery' = delivery \cup {Bucket(DeliveryWindow, now)}
  /\ Idle
  /\ UNCHANGED <<now, at, late, due, count>>

\* The transaction that creates the notification of every event unhandled by
\* now.  It throws, and the task fails, if its delivery task has the key of
\* an earlier one.
Flush(b) ==
  /\ step = "flush"
  /\ phase[b] = "running"
  /\ phase' = [phase EXCEPT ![b] = "over"]
  /\ IF Bucket(DeliveryWindow, now) \in delivery
     THEN UNCHANGED <<state, flushed>>
     ELSE /\ state' = [e \in Event |->
                         IF e \in Unhandled THEN "handled" ELSE state[e]]
          /\ notified' = [e \in Event |->
                IF e \in Unhandled THEN notified[e] + 1 ELSE notified[e]]
          /\ delivery' = delivery \cup {Bucket(DeliveryWindow, now)}
  /\ Idle
  /\ UNCHANGED <<now, at, late, due, count>>

\* Time goes on, also while transactions are open.
Tick ==
  /\ now < MaxTime \/ \E b \in Chain : phase[b] = "waiting" /\ now < due[b]
  /\ now' = now + 1
  /\ UNCHANGED <<event, chain, task, flushed>>

TaskStep(b) == StartTask(b) \/ Decide(b) \/ Requeue(b) \/ Flush(b)

Next ==
  \/ \E e \in Event :
        InsertEvent(e) \/ QueueTask(e) \/ CommitEvent(e) \/ RollbackEvent(e)
  \/ \E b \in Chain : TaskStep(b)
  \/ Tick

Spec == Init /\ [][Next]_vars

\* Time passes, every transaction ends, and the drain runs what is due.
FairSpec ==
  /\ Spec
  /\ WF_vars(Tick)
  /\ WF_vars(\E e \in Event : QueueTask(e) \/ CommitEvent(e))
  /\ WF_vars(\E b \in Chain : TaskStep(b))

-----------------------------------------------------------------------------
(* Properties. *)

\* The unhandled events that were committed within the slack.
Timely == Unhandled \ late

\* While an event committed within the slack is unhandled, a task is left that
\* will see it: although the window's task is queued outside the event's
\* transaction, ignores conflicts with tasks that have run, and fails when its
\* delivery task is a duplicate, and although events committed too late are
\* notified, or make a task wait, in between.
EventHasTask ==
  Timely # {} => \E b \in Chain : phase[b] \in {"waiting", "running"}

\* An event is in one notification once it is handled and in none before, with
\* several chains of tasks that flush, and flushes that are rolled back.
NotifiedOnce ==
  \A e \in Event : notified[e] = IF state[e] = "handled" THEN 1 ELSE 0

\* "flush rather than requeue forever": no chain of requeued tasks is longer
\* than the ceiling.
RequeuesBounded == \A b \in Chain : count[b] <= MaxRequeues

\* Every event committed within the slack ends up in a notification.
EveryEventNotified ==
  \A e \in Event : e \in Timely ~> state[e] = "handled"

\* The refinement of EventDelivery: whatever the windows, requeues, rollbacks and
\* colliding flushes do, an event is committed within the slack only while a task
\* is left that will look at it, the last task goes only when nothing but late
\* events is left to notify, and a notification takes every committed event,
\* late or not, at once and none twice.
Delivery ==
  INSTANCE EventDelivery
    WITH row   <- [e \in Event |-> IF state[e] = "queued" THEN "open" ELSE state[e]],
         notes <- notified,
         armed <- \E b \in Chain : phase[b] \in {"waiting", "running"}
ImplementsDelivery == Delivery!DeliverySpec

\* "Max interval reached, flush regardless of debounce": a task does not put off
\* events the first of which has waited for maxIntervalSeconds.
MaxIntervalFlushes ==
  [][ step = "decide" /\ step' = "requeue"
        => \A e \in Event : IsFirst(e) => now - at[e] < MaxInterval ]_vars

-----------------------------------------------------------------------------
(* The inductive invariant. *)

\* The chain of the event's own window.
Own(e) == Bucket(Window, at[e])
Alive(b) == phase[b] \in {"waiting", "running"}

\* A chain starts after its window and the slack, and goes on in steps of at
\* least MinDelay.
Earliest(b) == Window * b + Slack + count[b] * MinDelay

StartsAfterWindow ==
  \A b \in Chain :
    /\ phase[b] = "none" => count[b] = 0
    /\ phase[b] = "waiting" => due[b] >= Earliest(b)
    /\ phase[b] = "running" => now >= Earliest(b)
    /\ phase[b] = "over" => now >= Window * b + Slack

\* No task runs between two steps of another.
OneRuns ==
  /\ step = "idle" => \A b \in Chain : phase[b] # "running"
  /\ \A b, c \in Chain : phase[b] = "running" /\ phase[c] = "running" => b = c

\* An event that was queued has a chain for its window, and one that is late was
\* not committed when it was created.
OpenHasChain ==
  \A e \in Event :
    /\ state[e] # "none" => at[e] <= now /\ at[e] <= LastEmit
    /\ state[e] = "queued" => phase[Own(e)] # "none"
    /\ e \in late => state[e] \in {"committed", "handled"} /\ at[e] < now

\* The chain of a timely event's window goes on, or that of a later timely
\* event does.
LaterHasChain ==
  \A e \in Timely :
    \E d \in Timely : at[e] <= at[d] /\ Alive(Own(d))

\* Every delivery task was queued before a timely event was committed.
FlushedBefore ==
  \A k \in delivery :
    /\ DeliveryWindow * k <= now + DeliveryWindow
    /\ \A e \in Timely :
          DeliveryWindow * k <= at[e] + Slack + DeliveryWindow

\* A chain about to flush has waited long enough for the timely events of its
\* window, or one of a later window is there.
FlushHasReason ==
  \A b \in Chain :
    step = "flush" /\ phase[b] = "running"
      => \/ count[b] >= MaxRequeues
         \/ \A e \in Timely : Own(e) = b => now >= at[e] + Debounce
         \/ \E d \in Timely : at[d] >= Window * b

\* A chain about to be requeued is below the ceiling.
RequeueHasReason ==
  step = "requeue" =>
    /\ delay >= MinDelay
    /\ \A b \in Chain : phase[b] = "running" => count[b] < MaxRequeues

IInv ==
  /\ TypeOK
  /\ NotifiedOnce
  /\ RequeuesBounded
  /\ StartsAfterWindow
  /\ OneRuns
  /\ OpenHasChain
  /\ LaterHasChain
  /\ FlushedBefore
  /\ FlushHasReason
  /\ RequeueHasReason
=============================================================================
