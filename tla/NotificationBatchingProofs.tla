--------------------- MODULE NotificationBatchingProofs ---------------------
(***************************************************************************)
(* IInv is an invariant of NotificationBatching for every set of events    *)
(* and all times that satisfy its assumptions, and with it the events are  *)
(* delivered as EventDelivery says.                                        *)
(*                                                                         *)
(* Transactions are open for as long as they please.  The argument is      *)
(* about the events committed within the slack, with late ones in between: *)
(* a window's chain starts so late that these find it waiting when they    *)
(* are committed.  A chain that gives up with such an event unhandled did  *)
(* so because its delivery task was a duplicate; that it flushed so soon   *)
(* after another flush is due to an event of a later window committed in   *)
(* time, and the chain of that one, or of one still later, goes on.        *)
(***************************************************************************)
EXTENDS NotificationBatching, TLAPS

-----------------------------------------------------------------------------
(* Windows. *)

\* The quotient of getUtcTimestampBucket is a natural number, and its window
\* holds the time it was computed from.
LEMMA Quotient ==
  ASSUME NEW t \in Nat, NEW w \in Nat \ {0}
  PROVE  /\ t \div w \in Nat
         /\ w * (t \div w) <= t
         /\ t < w * (t \div w) + w
  BY SMT

\* The window of a time one interval ahead ends after the time, at most one
\* interval later.
LEMMA BucketBounds ==
  ASSUME NEW t \in Nat, NEW w \in Nat \ {0}
  PROVE  /\ Bucket(w, t) \in Nat
         /\ w * Bucket(w, t) \in Nat
         /\ t < w * Bucket(w, t)
         /\ w * Bucket(w, t) <= t + w
  <1>1. t + w \in Nat
    OBVIOUS
  <1> DEFINE q == (t + w) \div w
  <1>2. q \in Nat /\ w * q <= t + w /\ t + w < w * q + w
    BY <1>1, Quotient
  <1>3. w * q \in Nat
    BY <1>2
  <1> QED
    BY <1>2, <1>3 DEF Bucket

\* A longer multiple differs by at least one interval.
LEMMA Multiples ==
  ASSUME NEW x \in Nat, NEW y \in Nat, NEW w \in Nat \ {0}, x < y
  PROVE  w * x + w <= w * y
  BY SMT

\* Buckets are ordered as the times they come from are.
LEMMA BucketMonotone ==
  ASSUME NEW s \in Nat, NEW t \in Nat, NEW w \in Nat \ {0}, s <= t
  PROVE  1 <= Bucket(w, s) /\ Bucket(w, s) <= Bucket(w, t)
  <1> DEFINE a == Bucket(w, s)
             b == Bucket(w, t)
             p == w * a
             q == w * b
  <1>1. a \in Nat /\ b \in Nat /\ p \in Nat /\ q \in Nat
        /\ s < p /\ p <= s + w /\ t < q
    BY BucketBounds
  <1>2. 1 <= a
    BY <1>1
  <1>3. ASSUME b < a PROVE FALSE
    <2>1. q + w <= p
      BY <1>1, <1>3, Multiples
    <2> HIDE DEF p, q, a, b
    <2> QED
      BY <1>1, <2>1
  <1> HIDE DEF p, q
  <1> QED
    BY <1>1, <1>2, <1>3

-----------------------------------------------------------------------------
(* The inductive invariant. *)

\* The events that exist have a chain for their window.
LEMMA OwnIsChain ==
  ASSUME TypeOK, OpenHasChain, NEW e \in Event, state[e] # "none"
  PROVE  /\ Own(e) \in Chain
         /\ Own(e) \in Nat
         /\ Window * Own(e) \in Nat
         /\ at[e] < Window * Own(e)
         /\ Window * Own(e) <= at[e] + Window
  <1>1. at[e] \in Nat /\ at[e] <= LastEmit
    BY DEF TypeOK, OpenHasChain
  <1>2. Window \in Nat \ {0} /\ LastEmit \in Nat
    BY TimeAssumption
  <1>3. /\ Own(e) \in Nat
        /\ Window * Own(e) \in Nat
        /\ at[e] < Window * Own(e)
        /\ Window * Own(e) <= at[e] + Window
    BY <1>1, <1>2, BucketBounds DEF Own
  <1>4. Bucket(Window, LastEmit) \in Nat
    BY <1>2, BucketBounds
  <1>5. 1 <= Own(e) /\ Own(e) <= Bucket(Window, LastEmit)
    BY <1>1, <1>2, BucketMonotone DEF Own
  <1> QED
    BY <1>3, <1>4, <1>5 DEF Chain

\* The products of the invariant are numbers.
LEMMA ChainNumbers ==
  ASSUME TypeOK, NEW b \in Chain
  PROVE  /\ b \in Nat
         /\ Window * b \in Nat
         /\ count[b] \in Nat
         /\ count[b] * MinDelay \in Nat
         /\ Earliest(b) \in Nat
         /\ Earliest(b) >= Window * b + Slack
  <1>1. Bucket(Window, LastEmit) \in Nat
    BY TimeAssumption, BucketBounds
  <1>2. b \in Nat
    BY <1>1 DEF Chain
  <1>3. Window * b \in Nat
    BY <1>2, TimeAssumption
  <1>4. count[b] \in Nat
    BY DEF TypeOK
  <1>5. count[b] * MinDelay \in Nat
    BY <1>4, TimeAssumption
  <1>6. Earliest(b) \in Nat /\ Earliest(b) >= Window * b + Slack
    <2> DEFINE p == Window * b
               q == count[b] * MinDelay
    <2>1. p \in Nat /\ q \in Nat /\ Slack \in Nat
      BY <1>3, <1>5, TimeAssumption
    <2>2. Earliest(b) = p + Slack + q
      BY DEF Earliest
    <2> HIDE DEF p, q
    <2>3. Earliest(b) \in Nat /\ Earliest(b) >= p + Slack
      BY <2>1, <2>2
    <2> QED
      BY <2>3 DEF p
  <1> QED
    BY <1>2, <1>3, <1>4, <1>5, <1>6

\* While an event's transaction is open and the slack is not over, the chain of
\* its window waits or is not there.
LEMMA OpenNotStarted ==
  ASSUME IInv, NEW e \in Event, state[e] \in {"open", "queued"},
         now <= at[e] + Slack
  PROVE  phase[Own(e)] \in {"none", "waiting"}
  <1>1. /\ Own(e) \in Chain
        /\ at[e] < Window * Own(e)
    BY OwnIsChain DEF IInv
  <1>2. at[e] \in Nat /\ now \in Nat
    BY DEF IInv, TypeOK
  <1>3. /\ Window * Own(e) \in Nat
        /\ Earliest(Own(e)) \in Nat
        /\ Earliest(Own(e)) >= Window * Own(e) + Slack
    BY <1>1, ChainNumbers DEF IInv
  <1>4. now < Window * Own(e) + Slack
    BY <1>1, <1>2, <1>3, TimeAssumption, SlackAssumption
  <1>5. ~(phase[Own(e)] = "running") /\ ~(phase[Own(e)] = "over")
    BY <1>1, <1>2, <1>3, <1>4, TimeAssumption DEF IInv, StartsAfterWindow
  <1>6. phase[Own(e)] \in {"none", "waiting", "running", "over"}
    BY <1>1 DEF IInv, TypeOK
  <1> QED
    BY <1>5, <1>6

\* No event has been emitted and no task queued: IInv holds at the start.
LEMMA InitHolds == Init => IInv
  BY TimeAssumption
  DEF Init, IInv, TypeOK, NotifiedOnce, RequeuesBounded, StartsAfterWindow,
      OneRuns, OpenHasChain, LaterHasChain, FlushedBefore, FlushHasReason,
      RequeueHasReason, Unhandled, Timely

\* A step that changes nothing keeps IInv.
LEMMA StutterKeeps == IInv /\ UNCHANGED vars => IInv'
  BY DEF IInv, vars, TypeOK, NotifiedOnce, RequeuesBounded, StartsAfterWindow,
      OneRuns, OpenHasChain, LaterHasChain, FlushedBefore, FlushHasReason,
      RequeueHasReason, Unhandled, Timely, Earliest, Own, Alive

\* The insert of an event's row leaves the unhandled events and the tasks alone.
LEMMA InsertKeeps ==
  ASSUME IInv, NEW e \in Event, InsertEvent(e)
  PROVE  IInv'
  <1> USE DEF InsertEvent, chain, task, flushed
  <1>1. now \in Nat /\ at \in [Event -> Nat] /\ at' \in [Event -> Nat]
    BY DEF IInv, TypeOK
  <1>2. TypeOK'
    BY DEF IInv, TypeOK
  <1>3. Unhandled' = Unhandled /\ Timely' = Timely
    BY DEF IInv, TypeOK, Unhandled, Timely
  <1>4. \A d \in Event : d # e => at'[d] = at[d] /\ state'[d] = state[d]
    BY DEF IInv, TypeOK
  <1>5. \A d \in Timely : at'[d] = at[d] /\ Own(d)' = Own(d)
    BY <1>4 DEF Unhandled, Timely, Own
  <1>6. NotifiedOnce'
    BY <1>4 DEF IInv, NotifiedOnce, TypeOK
  <1>7. RequeuesBounded' /\ StartsAfterWindow' /\ OneRuns' /\ RequeueHasReason'
    BY DEF IInv, RequeuesBounded, StartsAfterWindow, OneRuns, RequeueHasReason,
           Earliest
  <1>8. OpenHasChain'
    <2> SUFFICES ASSUME NEW d \in Event
                 PROVE  /\ state'[d] # "none" => at'[d] <= now' /\ at'[d] <= LastEmit
                        /\ state'[d] = "queued" => phase'[Own(d)'] # "none"
                        /\ d \in late => /\ state'[d] \in {"committed", "handled"}
                                          /\ at'[d] < now'
      BY DEF OpenHasChain
    <2>1. CASE d = e
      BY <2>1, <1>1, TimeAssumption DEF IInv, TypeOK, OpenHasChain
    <2>2. CASE d # e
      BY <2>2, <1>4 DEF IInv, OpenHasChain, Own
    <2> QED
      BY <2>1, <2>2
  <1>9. LaterHasChain'
    <2> SUFFICES ASSUME NEW d \in Timely
                 PROVE  \E c \in Timely : at'[d] <= at'[c] /\ Alive(Own(c))'
      BY <1>3 DEF LaterHasChain
    <2>1. PICK c \in Timely : at[d] <= at[c] /\ Alive(Own(c))
      BY DEF IInv, LaterHasChain
    <2> QED
      BY <2>1, <1>5 DEF Alive
  <1>10. FlushedBefore'
    BY <1>3, <1>5 DEF IInv, FlushedBefore
  <1>11. FlushHasReason'
    BY <1>3, <1>5 DEF IInv, FlushHasReason
  <1> QED
    BY <1>2, <1>6, <1>7, <1>8, <1>9, <1>10, <1>11 DEF IInv

\* The task _emitEventInTx queues for a window starts late enough, and no other
\* window's task is touched.
LEMMA QueueKeeps ==
  ASSUME IInv, NEW e \in Event, QueueTask(e)
  PROVE  IInv'
  <1> DEFINE b == Bucket(Window, at[e])
  <1> USE DEF QueueTask, task, flushed
  <1>1. /\ b = Own(e) /\ b \in Chain
        /\ Window * b \in Nat /\ Window * b <= at[e] + Window
        /\ at[e] \in Nat /\ count[b] \in Nat
    BY OwnIsChain DEF IInv, Own, TypeOK
  <1>2. TypeOK'
    BY <1>1, TimeAssumption DEF IInv, TypeOK
  <1>3. Unhandled' = Unhandled /\ Timely' = Timely
    BY DEF IInv, TypeOK, Unhandled, Timely
  <1>4. /\ \A c \in Chain : c # b => phase'[c] = phase[c] /\ due'[c] = due[c]
        /\ phase[b] # "none" => phase' = phase /\ due' = due
        /\ phase'[b] # "none"
        /\ phase[b] = "none" =>
              phase'[b] = "waiting" /\ due'[b] = at[e] + Window + Slack
    BY <1>1 DEF IInv, TypeOK
  <1>5. \A c \in Chain : /\ phase[c] # "none" => phase'[c] = phase[c]
                         /\ phase'[c] = "running" => phase[c] = "running"
    BY <1>4
  <1>6. NotifiedOnce'
    BY DEF IInv, NotifiedOnce, TypeOK
  <1>7. RequeuesBounded' /\ OneRuns' /\ RequeueHasReason'
    BY <1>5 DEF IInv, RequeuesBounded, OneRuns, RequeueHasReason
  <1>8. StartsAfterWindow'
    <2> SUFFICES ASSUME NEW c \in Chain
                 PROVE  /\ phase'[c] = "none" => count[c] = 0
                        /\ phase'[c] = "waiting" => due'[c] >= Earliest(c)
                        /\ phase'[c] = "running" => now >= Earliest(c)
                        /\ phase'[c] = "over" => now >= Window * c + Slack
      BY DEF StartsAfterWindow, Earliest
    <2>1. CASE c = b /\ phase[b] = "none"
      <3>1. count[b] = 0
        BY <1>1, <2>1 DEF IInv, StartsAfterWindow
      <3>2. Earliest(b) = Window * b + Slack
        BY <3>1, <1>1, TimeAssumption DEF Earliest
      <3>3. at[e] + Window + Slack >= Earliest(b)
        BY <3>2, <1>1, TimeAssumption
      <3> QED
        BY <2>1, <1>4, <3>3
    <2>2. CASE ~(c = b /\ phase[b] = "none")
      BY <2>2, <1>4 DEF IInv, StartsAfterWindow
    <2> QED
      BY <2>1, <2>2
  <1>9. OpenHasChain'
    <2> SUFFICES ASSUME NEW d \in Event
                 PROVE  /\ state'[d] # "none" => at[d] <= now /\ at[d] <= LastEmit
                        /\ state'[d] = "queued" => phase'[Own(d)] # "none"
                        /\ d \in late => /\ state'[d] \in {"committed", "handled"}
                                          /\ at[d] < now
      BY DEF OpenHasChain, Own
    <2>1. CASE d = e
      BY <2>1, <1>1, <1>4 DEF IInv, OpenHasChain, TypeOK
    <2>2. CASE d # e
      <3>1. state'[d] = state[d]
        BY <2>2 DEF IInv, TypeOK
      <3>2. state[d] = "queued" => Own(d) \in Chain
        BY OwnIsChain DEF IInv
      <3> QED
        BY <3>1, <3>2, <1>5 DEF IInv, OpenHasChain
    <2> QED
      BY <2>1, <2>2
  <1>10. LaterHasChain'
    <2> SUFFICES ASSUME NEW d \in Timely
                 PROVE  \E c \in Timely : at[d] <= at[c] /\ Alive(Own(c))'
      BY <1>3 DEF LaterHasChain
    <2>1. PICK c \in Timely : at[d] <= at[c] /\ Alive(Own(c))
      BY DEF IInv, LaterHasChain
    <2>2. Own(c) \in Chain
      BY OwnIsChain DEF IInv, Unhandled, Timely
    <2>3. Own(c)' = Own(c)
      BY DEF Own
    <2> QED
      BY <2>1, <2>2, <2>3, <1>5 DEF Alive
  <1>11. FlushedBefore'
    BY <1>3 DEF IInv, FlushedBefore
  <1>12. FlushHasReason'
    BY <1>3, <1>5 DEF IInv, FlushHasReason, Own
  <1> QED
    BY <1>2, <1>6, <1>7, <1>8, <1>9, <1>10, <1>11, <1>12 DEF IInv

\* An event that is committed within the slack finds the chain of its window
\* waiting.
LEMMA TimelyCommitKeeps ==
  ASSUME IInv, NEW e \in Event, CommitEvent(e), ~(now > at[e] + Slack)
  PROVE  IInv'
  <1> USE DEF CommitEvent, chain, task, flushed
  <1>1. TypeOK'
    BY DEF IInv, TypeOK
  <1>2. late' = late /\ Timely' = Timely \cup {e}
    BY DEF IInv, TypeOK, OpenHasChain, Unhandled, Timely
  <1>3. \A d \in Event : Own(d)' = Own(d)
    BY DEF Own
  <1>4. at[e] \in Nat /\ now \in Nat /\ now <= at[e] + Slack
    BY TimeAssumption DEF IInv, TypeOK
  <1>5. Own(e) \in Chain /\ phase[Own(e)] = "waiting"
    <2>1. phase[Own(e)] \in {"none", "waiting"}
      BY <1>4, OpenNotStarted
    <2>2. phase[Own(e)] # "none"
      BY DEF IInv, OpenHasChain
    <2> QED
      BY <2>1, <2>2, OwnIsChain DEF IInv
  <1>6. NotifiedOnce'
    BY DEF IInv, NotifiedOnce, TypeOK
  <1>7. RequeuesBounded' /\ StartsAfterWindow' /\ OneRuns' /\ RequeueHasReason'
    BY DEF IInv, RequeuesBounded, StartsAfterWindow, OneRuns, RequeueHasReason,
           Earliest
  <1>8. OpenHasChain'
    BY <1>2 DEF IInv, OpenHasChain, Own, TypeOK
  <1>9. LaterHasChain'
    <2> SUFFICES ASSUME NEW d \in Timely \cup {e}
                 PROVE  \E c \in Timely \cup {e} : at[d] <= at[c] /\ Alive(Own(c))
      BY <1>2, <1>3 DEF LaterHasChain, Alive, Own
    <2>1. CASE d = e
      BY <2>1, <1>5, <1>4 DEF Alive
    <2>2. CASE d \in Timely
      BY <2>2 DEF IInv, LaterHasChain
    <2> QED
      BY <2>1, <2>2
  <1>10. FlushedBefore'
    <2> SUFFICES ASSUME NEW k \in delivery
                 PROVE  /\ DeliveryWindow * k <= now + DeliveryWindow
                        /\ \A d \in Timely \cup {e} :
                             DeliveryWindow * k <= at[d] + Slack + DeliveryWindow
      BY <1>2 DEF FlushedBefore
    <2> DEFINE p == DeliveryWindow * k
    <2>1. p <= now + DeliveryWindow
      BY DEF IInv, FlushedBefore
    <2>2. k \in Nat /\ p \in Nat /\ DeliveryWindow \in Nat /\ Slack \in Nat
      BY TimeAssumption DEF IInv, TypeOK
    <2>3. p <= at[e] + Slack + DeliveryWindow
      <3> HIDE DEF p
      <3> QED
        BY <2>1, <2>2, <1>4
    <2> QED
      BY <2>1, <2>3 DEF IInv, FlushedBefore
  <1>11. FlushHasReason'
    <2> SUFFICES ASSUME NEW b \in Chain, step = "flush", phase[b] = "running"
                 PROVE  \/ count[b] >= MaxRequeues
                        \/ \A d \in Timely \cup {e} :
                             Own(d) = b => now >= at[d] + Debounce
                        \/ \E d \in Timely \cup {e} : at[d] >= Window * b
      BY <1>2, <1>3 DEF FlushHasReason, Own
    <2>1. Own(e) # b
      BY <1>5
    <2> QED
      BY <2>1 DEF IInv, FlushHasReason
  <1> QED
    BY <1>1, <1>6, <1>7, <1>8, <1>9, <1>10, <1>11 DEF IInv

\* An event that is committed after the slack is not counted on.
LEMMA LateCommitKeeps ==
  ASSUME IInv, NEW e \in Event, CommitEvent(e), now > at[e] + Slack
  PROVE  IInv'
  <1> USE DEF CommitEvent, chain, task, flushed
  <1>1. at[e] \in Nat /\ now \in Nat /\ late' = late \cup {e}
    BY DEF IInv, TypeOK
  <1>2. TypeOK'
    BY <1>1 DEF IInv, TypeOK
  <1>3. Timely' = Timely
    BY <1>1 DEF IInv, TypeOK, Unhandled, Timely
  <1>4. \A d \in Event : Own(d)' = Own(d)
    BY DEF Own
  <1>5. NotifiedOnce'
    BY DEF IInv, NotifiedOnce, TypeOK
  <1>6. RequeuesBounded' /\ StartsAfterWindow' /\ OneRuns' /\ RequeueHasReason'
    BY DEF IInv, RequeuesBounded, StartsAfterWindow, OneRuns, RequeueHasReason,
           Earliest
  <1>7. OpenHasChain'
    <2>1. at[e] < now
      BY <1>1, TimeAssumption
    <2> QED
      BY <1>1, <2>1 DEF IInv, OpenHasChain, Own, TypeOK
  <1>8. LaterHasChain' /\ FlushedBefore' /\ FlushHasReason'
    BY <1>3, <1>4 DEF IInv, LaterHasChain, FlushedBefore, FlushHasReason, Own, Alive
  <1> QED
    BY <1>2, <1>5, <1>6, <1>7, <1>8 DEF IInv

\* A rolled back event leaves its task behind, which does no harm.
LEMMA RollbackKeeps ==
  ASSUME IInv, NEW e \in Event, RollbackEvent(e)
  PROVE  IInv'
  <1> USE DEF RollbackEvent, chain, task, flushed
  <1>1. TypeOK'
    BY DEF IInv, TypeOK
  <1>2. Unhandled' = Unhandled /\ Timely' = Timely
    BY DEF IInv, TypeOK, Unhandled, Timely
  <1>3. NotifiedOnce'
    BY DEF IInv, NotifiedOnce, TypeOK
  <1>4. RequeuesBounded' /\ StartsAfterWindow' /\ OneRuns' /\ RequeueHasReason'
    BY DEF IInv, RequeuesBounded, StartsAfterWindow, OneRuns, RequeueHasReason,
           Earliest
  <1>5. OpenHasChain'
    BY DEF IInv, OpenHasChain, Own, TypeOK
  <1>6. LaterHasChain' /\ FlushedBefore' /\ FlushHasReason'
    BY <1>2 DEF IInv, LaterHasChain, FlushedBefore, FlushHasReason, Own, Alive
  <1> QED
    BY <1>1, <1>3, <1>4, <1>5, <1>6 DEF IInv

\* A task that starts ends at once only if nothing is unhandled.
LEMMA StartKeeps ==
  ASSUME IInv, NEW b \in Chain, StartTask(b)
  PROVE  IInv'
  <1> USE DEF StartTask, event, flushed
  <1>1. TypeOK'
    BY DEF IInv, TypeOK
  <1>2. Timely' = Timely /\ (Timely # {} => phase'[b] = "running")
        /\ phase'[b] \in {"running", "over"}
    BY DEF IInv, TypeOK, Unhandled, Timely
  <1>3. /\ \A c \in Chain : c # b => phase'[c] = phase[c]
        /\ \A c \in Chain : phase[c] # "running"
    BY DEF IInv, TypeOK, OneRuns
  <1>4. NotifiedOnce' /\ RequeuesBounded'
    BY DEF IInv, NotifiedOnce, RequeuesBounded
  <1>5. now >= Earliest(b) /\ now >= Window * b + Slack
    <2>1. /\ Earliest(b) \in Nat /\ Window * b \in Nat
          /\ Earliest(b) >= Window * b + Slack
      BY ChainNumbers DEF IInv
    <2>2. due[b] >= Earliest(b) /\ due[b] \in Nat /\ now \in Nat
      BY DEF IInv, StartsAfterWindow, TypeOK
    <2> QED
      BY <2>1, <2>2, TimeAssumption
  <1>6. StartsAfterWindow'
    <2> SUFFICES ASSUME NEW c \in Chain
                 PROVE  /\ phase'[c] = "none" => count[c] = 0
                        /\ phase'[c] = "waiting" => due[c] >= Earliest(c)
                        /\ phase'[c] = "running" => now >= Earliest(c)
                        /\ phase'[c] = "over" => now >= Window * c + Slack
      BY DEF StartsAfterWindow, Earliest
    <2>1. CASE c = b
      BY <2>1, <1>2, <1>5
    <2>2. CASE c # b
      BY <2>2, <1>3 DEF IInv, StartsAfterWindow
    <2> QED
      BY <2>1, <2>2
  <1>7. OneRuns'
    <2>1. \A c \in Chain : phase'[c] = "running" => c = b
      BY <1>3
    <2>2. step' = "idle" => phase'[b] = "over"
      BY DEF IInv, TypeOK
    <2> QED
      BY <2>1, <2>2 DEF OneRuns
  <1>8. OpenHasChain'
    <2> SUFFICES ASSUME NEW d \in Event, state[d] = "queued"
                 PROVE  phase'[Own(d)] # "none"
      BY DEF IInv, OpenHasChain, Own
    <2>1. Own(d) \in Chain /\ phase[Own(d)] # "none"
      BY OwnIsChain DEF IInv, OpenHasChain
    <2> QED
      BY <2>1, <1>2, <1>3
  <1>9. LaterHasChain'
    <2> SUFFICES ASSUME NEW d \in Timely
                 PROVE  \E c \in Timely : at[d] <= at[c] /\ Alive(Own(c))'
      BY <1>2 DEF LaterHasChain
    <2>1. PICK c \in Timely : at[d] <= at[c] /\ Alive(Own(c))
      BY DEF IInv, LaterHasChain
    <2>2. Own(c) \in Chain /\ Own(c)' = Own(c)
      BY OwnIsChain DEF IInv, Unhandled, Timely, Own
    <2> QED
      BY <2>1, <2>2, <1>2, <1>3 DEF Alive
  <1>10. FlushedBefore'
    BY <1>2 DEF IInv, FlushedBefore
  <1>11. FlushHasReason' /\ RequeueHasReason'
    BY DEF FlushHasReason, RequeueHasReason
  <1> QED
    BY <1>1, <1>4, <1>6, <1>7, <1>8, <1>9, <1>10, <1>11 DEF IInv

\* shouldFlushEvents has a reason for either decision.
LEMMA DecideKeeps ==
  ASSUME IInv, NEW b \in Chain, Decide(b)
  PROVE  IInv'
  <1> USE DEF Decide, event, chain, flushed
  <1>1. PICK e \in Event :
          /\ IsLast(e)
          /\ IF ShouldFlush(at[e], count[b])
             THEN step' = "flush" /\ UNCHANGED delay
             ELSE step' = "requeue" /\ delay' = RequeueDelay(at[e])
    OBVIOUS
  <1>2. at[e] \in Nat /\ now \in Nat /\ count[b] \in Nat /\ at[e] <= now
    BY <1>1 DEF IInv, TypeOK, IsLast, Unhandled, Timely, OpenHasChain
  <1>3. Debounce \in Nat /\ MinDelay \in Nat /\ MaxRequeues \in Nat
        /\ Debounce # 0
    BY TimeAssumption, SlackAssumption
  <1>4. \A c \in Chain : phase[c] = "running" => c = b
    BY DEF IInv, OneRuns
  <1>5. TypeOK'
    <2>1. delay' \in Nat
      BY <1>1, <1>2, <1>3 DEF IInv, TypeOK, RequeueDelay
    <2> QED
      BY <2>1, <1>1 DEF IInv, TypeOK
  <1>6. Unhandled' = Unhandled /\ Timely' = Timely
    BY DEF Unhandled, Timely
  <1>7. NotifiedOnce' /\ RequeuesBounded' /\ StartsAfterWindow' /\ OpenHasChain'
    BY DEF IInv, NotifiedOnce, RequeuesBounded, StartsAfterWindow, OpenHasChain,
           Earliest, Own
  <1>8. OneRuns'
    BY <1>1 DEF IInv, OneRuns
  <1>9. LaterHasChain' /\ FlushedBefore'
    BY <1>6 DEF IInv, LaterHasChain, FlushedBefore, Alive, Own
  <1>10. FlushHasReason'
    <2> SUFFICES ASSUME ShouldFlush(at[e], count[b])
                 PROVE  \/ count[b] >= MaxRequeues
                        \/ \A d \in Timely : Own(d) = b => now >= at[d] + Debounce
                        \/ \E d \in Timely : at[d] >= Window * b
      BY <1>1, <1>4, <1>6 DEF FlushHasReason, Own
    <2>1. CASE at[e] >= now
      <3>1. /\ Earliest(b) \in Nat /\ Window * b \in Nat /\ Slack \in Nat
            /\ Earliest(b) >= Window * b + Slack
        BY ChainNumbers, TimeAssumption DEF IInv
      <3>2. now >= Earliest(b)
        BY DEF IInv, StartsAfterWindow
      <3>3. at[e] >= Window * b
        BY <2>1, <3>1, <3>2, <1>2
      <3>4. e \notin late
        BY <2>1, <1>2 DEF IInv, OpenHasChain
      <3> QED
        BY <3>3, <3>4, <1>1 DEF IsLast, Timely
    <2>2. CASE now - at[e] >= Debounce
      <3>1. \A d \in Timely : at[d] <= at[e] /\ at[d] \in Nat
        BY <1>1 DEF IsLast, Unhandled, Timely, IInv, TypeOK
      <3> QED
        BY <2>2, <3>1, <1>2, <1>3
    <2>3. CASE count[b] >= MaxRequeues
      BY <2>3
    <2> QED
      BY <2>1, <2>2, <2>3, <1>3 DEF ShouldFlush
  <1>11. RequeueHasReason'
    <2> SUFFICES ASSUME ~ShouldFlush(at[e], count[b])
                 PROVE  RequeueDelay(at[e]) >= MinDelay /\ count[b] < MaxRequeues
      BY <1>1, <1>4 DEF RequeueHasReason
    <2> QED
      BY <1>2, <1>3 DEF ShouldFlush, RequeueDelay
  <1> QED
    BY <1>5, <1>7, <1>8, <1>9, <1>10, <1>11 DEF IInv

\* The copy of the processor's task carries the chain on, at least MinDelay later
\* and below the ceiling.
LEMMA RequeueKeeps ==
  ASSUME IInv, NEW b \in Chain, Requeue(b)
  PROVE  IInv'
  <1> USE DEF Requeue, event, flushed, Idle
  <1>1. /\ count[b] \in Nat /\ delay \in Nat /\ now \in Nat
        /\ delay >= MinDelay /\ count[b] < MaxRequeues
    BY DEF IInv, TypeOK, RequeueHasReason
  <1>2. TypeOK'
    BY <1>1 DEF IInv, TypeOK
  <1>3. Unhandled' = Unhandled /\ Timely' = Timely
    BY DEF Unhandled, Timely
  <1>4. /\ \A c \in Chain : c # b => /\ phase'[c] = phase[c] /\ due'[c] = due[c]
                                   /\ count'[c] = count[c]
        /\ phase'[b] = "waiting" /\ due'[b] = now + delay
        /\ count'[b] = count[b] + 1
    BY DEF IInv, TypeOK
  <1>5. \A c \in Chain : phase'[c] # "running"
    BY <1>4 DEF IInv, OneRuns
  <1>6. NotifiedOnce'
    BY DEF IInv, NotifiedOnce
  <1>7. RequeuesBounded'
    <2> SUFFICES ASSUME NEW c \in Chain PROVE count'[c] <= MaxRequeues
      BY DEF RequeuesBounded
    <2> QED
      BY <1>1, <1>4, TimeAssumption DEF IInv, RequeuesBounded
  <1>8. StartsAfterWindow'
    <2> SUFFICES ASSUME NEW c \in Chain
                 PROVE  /\ phase'[c] = "none" => count'[c] = 0
                        /\ phase'[c] = "waiting" => due'[c] >= Earliest(c)'
                        /\ phase'[c] = "running" => now >= Earliest(c)'
                        /\ phase'[c] = "over" => now >= Window * c + Slack
      BY DEF StartsAfterWindow
    <2>1. CASE c = b
      <3> DEFINE p == Window * b
                 q == count[b] * MinDelay
                 r == (count[b] + 1) * MinDelay
      <3>1. p \in Nat /\ q \in Nat /\ Slack \in Nat /\ MinDelay \in Nat
        BY ChainNumbers, TimeAssumption DEF IInv
      <3>2. r = q + MinDelay
        BY <1>1, TimeAssumption
      <3>3. now >= p + Slack + q
        BY DEF IInv, StartsAfterWindow, Earliest
      <3>4. Earliest(b)' = p + Slack + r
        BY <1>4 DEF Earliest
      <3> HIDE DEF p, q, r
      <3>5. now + delay >= p + Slack + r
        BY <1>1, <3>1, <3>2, <3>3
      <3> QED
        BY <2>1, <1>4, <3>4, <3>5
    <2>2. CASE c # b
      BY <2>2, <1>4 DEF IInv, StartsAfterWindow, Earliest
    <2> QED
      BY <2>1, <2>2
  <1>9. OneRuns'
    BY <1>5 DEF OneRuns
  <1>10. OpenHasChain'
    <2> SUFFICES ASSUME NEW d \in Event, state[d] = "queued"
                 PROVE  phase'[Own(d)] # "none"
      BY DEF IInv, OpenHasChain, Own
    <2>1. Own(d) \in Chain /\ phase[Own(d)] # "none"
      BY OwnIsChain DEF IInv, OpenHasChain
    <2> QED
      BY <2>1, <1>4
  <1>11. LaterHasChain'
    <2> SUFFICES ASSUME NEW d \in Timely
                 PROVE  \E c \in Timely : at[d] <= at[c] /\ Alive(Own(c))'
      BY <1>3 DEF LaterHasChain
    <2>1. PICK c \in Timely : at[d] <= at[c] /\ Alive(Own(c))
      BY DEF IInv, LaterHasChain
    <2>2. Own(c) \in Chain /\ Own(c)' = Own(c)
      BY OwnIsChain DEF IInv, Unhandled, Timely, Own
    <2> QED
      BY <2>1, <2>2, <1>4 DEF Alive
  <1>12. FlushedBefore'
    BY <1>3 DEF IInv, FlushedBefore
  <1>13. FlushHasReason' /\ RequeueHasReason'
    BY DEF FlushHasReason, RequeueHasReason
  <1> QED
    BY <1>2, <1>6, <1>7, <1>8, <1>9, <1>10, <1>11, <1>12, <1>13 DEF IInv

\* A flush that throws leaves behind no event without a later chain: the events
\* of its own window were committed after the flush it collides with, and so
\* are too young for it to have waited for them.
LEMMA CollisionHasLater ==
  ASSUME IInv, NEW b \in Chain, step = "flush", phase[b] = "running",
         Bucket(DeliveryWindow, now) \in delivery,
         NEW e \in Timely, Own(e) = b
  PROVE  \E d \in Timely : at[d] >= Window * b
  <1> DEFINE k == Bucket(DeliveryWindow, now)
             p == DeliveryWindow * k
             q == count[b] * MinDelay
             m == MaxRequeues * MinDelay
             w == Window * b
  <1>1. at[e] \in Nat /\ now \in Nat /\ e \in Event /\ state[e] # "none"
    BY DEF IInv, TypeOK, Unhandled, Timely
  <1>2. p \in Nat /\ now < p
    BY <1>1, TimeAssumption, BucketBounds
  <1>3. p <= at[e] + Slack + DeliveryWindow
    BY DEF IInv, FlushedBefore
  <1>4. at[e] < w
    BY <1>1, OwnIsChain DEF IInv
  <1>5. now >= w + Slack + q
    BY DEF IInv, StartsAfterWindow, Earliest
  <1>6. w \in Nat /\ q \in Nat /\ count[b] \in Nat
    BY ChainNumbers DEF IInv
  <1>7. /\ DeliveryWindow \in Nat /\ Slack \in Nat
        /\ Debounce \in Nat /\ MaxRequeues \in Nat /\ MinDelay \in Nat
        /\ m \in Nat
        /\ Slack + DeliveryWindow <= Debounce
        /\ DeliveryWindow <= m
    BY TimeAssumption, SlackAssumption
  <1>8. now < at[e] + Slack + DeliveryWindow
    <2> HIDE DEF p
    <2> QED
      BY <1>1, <1>2, <1>3, <1>7
  <1>9. ~(now >= at[e] + Debounce)
    BY <1>1, <1>7, <1>8
  <1>10. ~(count[b] >= MaxRequeues)
    <2>1. count[b] >= MaxRequeues => q >= m
      BY <1>6, <1>7, SMT
    <2> HIDE DEF q, m, w
    <2> QED
      BY <2>1, <1>1, <1>4, <1>5, <1>6, <1>7, <1>8
  <1> QED
    BY <1>9, <1>10 DEF IInv, FlushHasReason

\* The transaction of CreateEventNotificationsProcessor handles every unhandled
\* event, or fails and leaves them to a later chain.
LEMMA FlushKeeps ==
  ASSUME IInv, NEW b \in Chain, Flush(b)
  PROVE  IInv'
  <1> USE DEF Flush, flushed, Idle
  <1>1. now \in Nat /\ Bucket(DeliveryWindow, now) \in Nat
        /\ DeliveryWindow * Bucket(DeliveryWindow, now) <= now + DeliveryWindow
    BY TimeAssumption, BucketBounds DEF IInv, TypeOK
  <1>2. /\ \A c \in Chain : c # b => phase'[c] = phase[c]
        /\ phase'[b] = "over"
    BY DEF IInv, TypeOK
  <1>3. \A c \in Chain : phase'[c] # "running"
    BY <1>2 DEF IInv, OneRuns
  <1>4. \A d \in Event : Own(d)' = Own(d)
    BY DEF Own
  <1>5. TypeOK'
    <2>1. CASE Bucket(DeliveryWindow, now) \in delivery
      BY <2>1 DEF IInv, TypeOK
    <2>2. CASE Bucket(DeliveryWindow, now) \notin delivery
      <3>1. notified' \in [Event -> Nat] /\ delivery' \subseteq Nat
        <4>1. delivery \subseteq Nat /\ \A e \in Event : notified[e] \in Nat
          BY DEF IInv, TypeOK
        <4>2. delivery' \subseteq Nat
          BY <2>2, <4>1, <1>1
        <4>3. \A e \in Event : notified[e] + 1 \in Nat
          BY <4>1
        <4>4. notified' \in [Event -> Nat]
          BY <2>2, <4>1, <4>3
        <4> QED
          BY <4>2, <4>4
      <3>2. state' \in [Event -> {"none", "open", "queued", "committed",
                                  "handled", "rolledBack"}]
        BY <2>2 DEF IInv, TypeOK
      <3> QED
        BY <3>1, <3>2 DEF IInv, TypeOK
    <2> QED
      BY <2>1, <2>2
  <1>6. RequeuesBounded'
    BY DEF IInv, RequeuesBounded
  <1>7. StartsAfterWindow'
    <2>1. now >= Window * b + Slack
      <3>1. /\ Earliest(b) \in Nat /\ Window * b \in Nat /\ Slack \in Nat
            /\ Earliest(b) >= Window * b + Slack
        BY ChainNumbers, TimeAssumption DEF IInv
      <3>2. now >= Earliest(b)
        BY DEF IInv, StartsAfterWindow
      <3> QED
        BY <1>1, <3>1, <3>2
    <2> SUFFICES ASSUME NEW c \in Chain
                 PROVE  /\ phase'[c] = "none" => count[c] = 0
                        /\ phase'[c] = "waiting" => due[c] >= Earliest(c)
                        /\ phase'[c] = "running" => now >= Earliest(c)
                        /\ phase'[c] = "over" => now >= Window * c + Slack
      BY DEF StartsAfterWindow, Earliest
    <2> QED
      BY <2>1, <1>2 DEF IInv, StartsAfterWindow
  <1>8. OneRuns'
    BY <1>3 DEF OneRuns
  <1>9. OpenHasChain'
    <2> SUFFICES ASSUME NEW d \in Event
                 PROVE  /\ state'[d] # "none" => at[d] <= now /\ at[d] <= LastEmit
                        /\ state'[d] = "queued" => phase'[Own(d)] # "none"
                        /\ d \in late => /\ state'[d] \in {"committed", "handled"}
                                          /\ at[d] < now
      BY <1>4 DEF OpenHasChain
    <2>1. /\ state'[d] # "none" => state[d] # "none"
          /\ state'[d] \in {"open", "queued"} => state'[d] = state[d]
      BY DEF Unhandled, Timely
    <2>2. state[d] = "queued" => Own(d) \in Chain
      BY OwnIsChain DEF IInv
    <2> QED
      BY <2>1, <2>2, <1>2 DEF IInv, OpenHasChain
  <1>10. FlushHasReason' /\ RequeueHasReason'
    BY DEF FlushHasReason, RequeueHasReason
  <1>11. NotifiedOnce' /\ LaterHasChain' /\ FlushedBefore'
    <2>1. CASE Bucket(DeliveryWindow, now) \in delivery
      <3>1. Timely' = Timely /\ UNCHANGED <<state, notified, delivery>>
        BY <2>1 DEF Unhandled, Timely
      <3>2. NotifiedOnce' /\ FlushedBefore'
        BY <3>1 DEF IInv, NotifiedOnce, FlushedBefore
      <3>3. LaterHasChain'
        <4> SUFFICES ASSUME NEW e \in Timely
                     PROVE  \E d \in Timely : at[e] <= at[d] /\ Alive(Own(d))'
          BY <3>1 DEF LaterHasChain
        <4>1. PICK d \in Timely : at[e] <= at[d] /\ Alive(Own(d))
          BY DEF IInv, LaterHasChain
        <4>2. Own(d) \in Chain /\ Own(d)' = Own(d)
          BY OwnIsChain, <1>4 DEF IInv, Unhandled, Timely
        <4>3. CASE Own(d) # b
          BY <4>1, <4>2, <4>3, <1>2 DEF Alive
        <4>4. CASE Own(d) = b
          <5>1. PICK x \in Timely : at[x] >= Window * b
            BY <2>1, <4>4, CollisionHasLater
          <5>2. PICK y \in Timely : at[x] <= at[y] /\ Alive(Own(y))
            BY DEF IInv, LaterHasChain
          <5>3. /\ at[d] < Window * b /\ Window * b \in Nat
                /\ at[y] < Window * Own(y) /\ Own(y) \in Chain
                /\ Own(y)' = Own(y)
            BY <4>4, <1>4, OwnIsChain DEF IInv, Unhandled, Timely
          <5>4. at[e] \in Nat /\ at[d] \in Nat /\ at[x] \in Nat /\ at[y] \in Nat
            BY DEF IInv, TypeOK, Unhandled, Timely
          <5>5. at[e] <= at[y] /\ at[y] >= Window * b
            BY <4>1, <5>1, <5>2, <5>3, <5>4
          <5>6. Own(y) # b
            <6> SUFFICES ASSUME Own(y) = b PROVE FALSE
              OBVIOUS
            <6>1. at[y] < Window * b
              BY <5>3
            <6> QED
              BY <6>1, <5>3, <5>4, <5>5
          <5> QED
            BY <5>2, <5>3, <5>5, <5>6, <1>2 DEF Alive
        <4> QED
          BY <4>3, <4>4
      <3> QED
        BY <3>2, <3>3
    <2>2. CASE Bucket(DeliveryWindow, now) \notin delivery
      <3>1. Timely' = {}
        BY <2>2 DEF Unhandled, Timely
      <3>2. LaterHasChain'
        BY <3>1 DEF LaterHasChain
      <3>3. FlushedBefore'
        BY <2>2, <3>1, <1>1 DEF IInv, FlushedBefore
      <3>4. NotifiedOnce'
        <4> SUFFICES ASSUME NEW e \in Event
                     PROVE  notified'[e] = IF state'[e] = "handled" THEN 1 ELSE 0
          BY DEF NotifiedOnce
        <4>1. notified[e] = IF state[e] = "handled" THEN 1 ELSE 0
          BY DEF IInv, NotifiedOnce
        <4> QED
          BY <2>2, <4>1 DEF Unhandled, Timely
      <3> QED
        BY <3>2, <3>3, <3>4
    <2> QED
      BY <2>1, <2>2
  <1> QED
    BY <1>5, <1>6, <1>7, <1>8, <1>9, <1>10, <1>11 DEF IInv

\* Time passes, and whatever was late enough stays so.
LEMMA TickKeeps ==
  ASSUME IInv, Tick
  PROVE  IInv'
  <1> USE DEF Tick, event, chain, task, flushed
  <1>1. now \in Nat /\ now' = now + 1 /\ Timely' = Timely
    BY DEF IInv, TypeOK, Unhandled, Timely
  <1>2. TypeOK'
    BY DEF IInv, TypeOK
  <1>3. NotifiedOnce' /\ RequeuesBounded' /\ OneRuns' /\ LaterHasChain'
        /\ RequeueHasReason'
    BY <1>1 DEF IInv, NotifiedOnce, RequeuesBounded, OneRuns, LaterHasChain,
           RequeueHasReason, Alive, Own
  <1>4. StartsAfterWindow'
    <2> SUFFICES ASSUME NEW b \in Chain
                 PROVE  /\ phase[b] = "running" => now + 1 >= Earliest(b)
                        /\ phase[b] = "over" => now + 1 >= Window * b + Slack
      BY <1>1 DEF IInv, StartsAfterWindow, Earliest
    <2>1. Earliest(b) \in Nat /\ Window * b \in Nat /\ Slack \in Nat
      BY ChainNumbers, TimeAssumption DEF IInv
    <2> QED
      BY <2>1, <1>1 DEF IInv, StartsAfterWindow
  <1>5. OpenHasChain'
    <2> SUFFICES ASSUME NEW e \in Event
                 PROVE  /\ state[e] # "none" => at[e] <= now + 1 /\ at[e] <= LastEmit
                        /\ state[e] = "queued" => phase[Own(e)] # "none"
                        /\ e \in late => /\ state[e] \in {"committed", "handled"}
                                          /\ at[e] < now + 1
      BY <1>1 DEF OpenHasChain, Own
    <2>1. at[e] \in Nat
      BY DEF IInv, TypeOK
    <2> QED
      BY <2>1, <1>1, TimeAssumption DEF IInv, OpenHasChain
  <1>6. FlushedBefore'
    <2> SUFFICES ASSUME NEW k \in delivery
                 PROVE  /\ DeliveryWindow * k <= now + 1 + DeliveryWindow
                        /\ \A e \in Timely :
                             DeliveryWindow * k <= at[e] + Slack + DeliveryWindow
      BY <1>1 DEF FlushedBefore
    <2> DEFINE p == DeliveryWindow * k
    <2>1. p \in Nat /\ p <= now + DeliveryWindow /\ DeliveryWindow \in Nat
      BY TimeAssumption DEF IInv, TypeOK, FlushedBefore
    <2>2. p <= now + 1 + DeliveryWindow
      <3> HIDE DEF p
      <3> QED
        BY <2>1, <1>1
    <2> QED
      BY <2>2 DEF IInv, FlushedBefore
  <1>7. FlushHasReason'
    <2> SUFFICES ASSUME NEW b \in Chain, step = "flush", phase[b] = "running"
                 PROVE  \/ count[b] >= MaxRequeues
                        \/ \A e \in Timely : Own(e) = b => now + 1 >= at[e] + Debounce
                        \/ \E d \in Timely : at[d] >= Window * b
      BY <1>1 DEF FlushHasReason, Own
    <2>1. \A e \in Timely : at[e] \in Nat
      BY DEF IInv, TypeOK, Unhandled, Timely
    <2>2. \A e \in Timely : now >= at[e] + Debounce => now + 1 >= at[e] + Debounce
      BY <1>1, <2>1, TimeAssumption
    <2> QED
      BY <2>2 DEF IInv, FlushHasReason
  <1> QED
    BY <1>2, <1>3, <1>4, <1>5, <1>6, <1>7 DEF IInv

-----------------------------------------------------------------------------
(* NotificationBatching implements EventDelivery. *)

\* What the mapping of the refinement makes of an event's state.
MappedRow(st) == IF st = "queued" THEN "open" ELSE st

\* While a timely event is unhandled, a task is left: its own window's, or that
\* of a later event.
LEMMA TimelyIsArmed ==
  ASSUME IInv, Timely # {}
  PROVE  \E b \in Chain : phase[b] \in {"waiting", "running"}
  <1>1. PICK e \in Timely : TRUE
    OBVIOUS
  <1>2. PICK d \in Timely : Alive(Own(d))
    BY <1>1 DEF IInv, LaterHasChain
  <1>3. Own(d) \in Chain
    BY OwnIsChain DEF IInv, Unhandled, Timely
  <1> QED
    BY <1>2, <1>3 DEF Alive

\* An event about to be committed within the slack has its window's task waiting.
LEMMA QueuedIsArmed ==
  ASSUME IInv, NEW e \in Event, state[e] = "queued", now <= at[e] + Slack
  PROVE  \E b \in Chain : phase[b] \in {"waiting", "running"}
  <1>1. Own(e) \in Chain
    BY OwnIsChain DEF IInv
  <1>2. phase[Own(e)] # "none" /\ phase[Own(e)] \in {"none", "waiting"}
    BY OpenNotStarted DEF IInv, OpenHasChain
  <1> QED
    BY <1>1, <1>2

\* The events the abstract service has still to notify are the unhandled ones.
LEMMA ToNotifyIsUnhandled == Delivery!ToNotify = Unhandled
  BY DEF Delivery!ToNotify, Unhandled, Timely

\* The steps of an event: its insert, its task, its commit or rollback.
LEMMA EventRefines ==
  ASSUME IInv, NEW e \in Event,
         InsertEvent(e) \/ QueueTask(e) \/ CommitEvent(e) \/ RollbackEvent(e)
  PROVE  [Delivery!DeliveryNext]_(Delivery!deliveryVars)
  <1> DEFINE armed == \E b \in Chain : phase[b] \in {"waiting", "running"}
  <1> USE DEF IInv, TypeOK
  <1>1. CASE InsertEvent(e)
    <2>1. Delivery!Insert(e)
      BY <1>1 DEF InsertEvent, chain, flushed, Delivery!Insert
    <2> QED
      BY <2>1 DEF Delivery!DeliveryNext
  <1>2. CASE QueueTask(e)
    <2>1. /\ state[e] = "open" /\ state' = [state EXCEPT ![e] = "queued"]
          /\ late' = late /\ notified' = notified
      BY <1>2 DEF QueueTask, flushed
    <2>2. \A d \in Event : MappedRow(state'[d]) = MappedRow(state[d])
      BY <2>1 DEF MappedRow
    <2>3. CASE armed' = armed
      BY <2>1, <2>2, <2>3 DEF Delivery!deliveryVars, MappedRow
    <2>4. CASE armed' # armed
      <3>1. armed => armed'
        BY <1>2 DEF QueueTask
      <3>2. Delivery!Arm
        BY <2>1, <2>2, <2>4, <3>1 DEF Delivery!Arm, MappedRow
      <3> QED
        BY <3>2 DEF Delivery!DeliveryNext
    <2> QED
      BY <2>3, <2>4
  <1>3. CASE CommitEvent(e)
    <2>1. CASE now > at[e] + Slack
      <3>1. Delivery!CommitLate(e)
        BY <1>3, <2>1 DEF CommitEvent, chain, flushed, Delivery!CommitLate
      <3> QED
        BY <3>1 DEF Delivery!DeliveryNext
    <2>2. CASE ~(now > at[e] + Slack)
      <3>1. now <= at[e] + Slack
        BY <2>2, TimeAssumption
      <3>2. armed
        BY <1>3, <3>1, QueuedIsArmed DEF CommitEvent
      <3>3. Delivery!Commit(e)
        BY <1>3, <2>2, <3>2 DEF CommitEvent, chain, flushed, Delivery!Commit
      <3> QED
        BY <3>3 DEF Delivery!DeliveryNext
    <2> QED
      BY <2>1, <2>2
  <1>4. CASE RollbackEvent(e)
    <2>1. Delivery!Rollback(e)
      BY <1>4 DEF RollbackEvent, chain, flushed, Delivery!Rollback
    <2> QED
      BY <2>1 DEF Delivery!DeliveryNext
  <1> QED
    BY <1>1, <1>2, <1>3, <1>4

\* A step of a task that notifies nothing keeps the key armed, or the last task
\* ends with nothing but late events to notify.
LEMMA QuietStepRefines ==
  ASSUME EventHasTask', state' = state, late' = late, notified' = notified,
         (\E b \in Chain : phase'[b] \in {"waiting", "running"})
           => \E b \in Chain : phase[b] \in {"waiting", "running"}
  PROVE  [Delivery!DeliveryNext]_(Delivery!deliveryVars)
  <1> DEFINE armed == \E b \in Chain : phase[b] \in {"waiting", "running"}
  <1>1. CASE armed' = armed
    BY <1>1 DEF Delivery!deliveryVars
  <1>2. CASE armed' # armed
    <2>1. armed /\ ~armed'
      BY <1>2
    <2>2. Unhandled \subseteq late
      BY <2>1 DEF EventHasTask, Unhandled, Timely
    <2>3. Delivery!Disarm
      BY <2>1, <2>2, ToNotifyIsUnhandled DEF Delivery!Disarm
    <2> QED
      BY <2>3 DEF Delivery!DeliveryNext
  <1> QED
    BY <1>1, <1>2

\* A flush notifies all there is, or its transaction is rolled back.
LEMMA FlushRefines ==
  ASSUME IInv, EventHasTask', NEW b \in Chain, Flush(b)
  PROVE  [Delivery!DeliveryNext]_(Delivery!deliveryVars)
  <1> DEFINE armed == \E c \in Chain : phase[c] \in {"waiting", "running"}
  <1>1. armed
    BY DEF Flush
  <1>2. CASE state' = state /\ late' = late /\ notified' = notified
    BY <1>1, <1>2, QuietStepRefines
  <1>3. CASE ~(state' = state /\ late' = late /\ notified' = notified)
    <2>1. /\ state' = [e \in Event |->
                        IF e \in Unhandled THEN "handled" ELSE state[e]]
          /\ notified' = [e \in Event |->
                IF e \in Unhandled THEN notified[e] + 1 ELSE notified[e]]
          /\ late' = late
      BY <1>3 DEF Flush, flushed
    <2>2. \A e \in Unhandled : e \in Event /\ state[e] = "committed" /\ notified[e] = 0
      BY DEF Unhandled, IInv, NotifiedOnce
    <2>3. notified' = [e \in Event |-> IF e \in Unhandled THEN 1 ELSE notified[e]]
      BY <2>1, <2>2
    <2>4. Unhandled # {}
      BY <1>3, <2>1 DEF IInv, TypeOK
    <2>5. \A e \in Event : MappedRow(state'[e])
                            = IF e \in Unhandled THEN "handled" ELSE MappedRow(state[e])
      BY <2>1 DEF MappedRow
    <2>6. Delivery!Notify
      BY <1>1, <2>1, <2>3, <2>4, <2>5, ToNotifyIsUnhandled DEF Delivery!Notify, MappedRow
    <2> QED
      BY <2>6 DEF Delivery!DeliveryNext
  <1> QED
    BY <1>2, <1>3

\* Every step of the tasks, and of time.
LEMMA TaskRefines ==
  ASSUME IInv, EventHasTask', (\E b \in Chain : TaskStep(b)) \/ Tick \/ UNCHANGED vars
  PROVE  [Delivery!DeliveryNext]_(Delivery!deliveryVars)
  <1>1. ASSUME NEW b \in Chain, StartTask(b) \/ Decide(b) \/ Requeue(b)
        PROVE  [Delivery!DeliveryNext]_(Delivery!deliveryVars)
    <2>1. state' = state /\ late' = late /\ notified' = notified
      BY <1>1 DEF StartTask, Decide, Requeue, event, flushed
    <2>2. phase[b] \in {"waiting", "running"}
      BY <1>1 DEF StartTask, Decide, Requeue
    <2> QED
      BY <2>1, <2>2, QuietStepRefines
  <1>2. ASSUME NEW b \in Chain, Flush(b)
        PROVE  [Delivery!DeliveryNext]_(Delivery!deliveryVars)
    BY <1>2, FlushRefines
  <1>3. CASE Tick \/ UNCHANGED vars
    <2>1. state' = state /\ late' = late /\ notified' = notified /\ phase' = phase
      BY <1>3 DEF Tick, vars, event, chain, flushed
    <2> QED
      BY <2>1, QuietStepRefines
  <1> QED
    BY <1>1, <1>2, <1>3 DEF TaskStep

-----------------------------------------------------------------------------
(* Theorems. *)

\* IInv holds in every state of the events and tasks of an aggregation key.
THEOREM Inductive == Spec => []IInv
  <1>1. IInv /\ [Next]_vars => IInv'
    BY StutterKeeps, InsertKeeps, QueueKeeps, TimelyCommitKeeps,
       LateCommitKeeps, RollbackKeeps,
       StartKeeps, DecideKeeps, RequeueKeeps, FlushKeeps, TickKeeps
    DEF Next, TaskStep
  <1> QED
    BY InitHolds, <1>1, PTL DEF Spec

\* As long as an event of _emitEventInTx that was committed within the slack is
\* unhandled, a CreateEventNotifications task is left to handle it: whatever the
\* order of its insert, of its commit and of the tasks of other windows, however
\* late other events are committed, and although a flush may fail.  So an event
\* is stranded only if its own transaction outlasts the slack.
THEOREM NoEventStranded == Spec => []EventHasTask
  <1>1. IInv => EventHasTask
    BY TimelyIsArmed DEF EventHasTask
  <1> QED
    BY Inductive, <1>1, PTL

\* CreateEventNotificationsProcessor puts an event in one notification.
THEOREM EventNotifiedOnce == Spec => []NotifiedOnce
  <1>1. IInv => NotifiedOnce
    BY DEF IInv
  <1> QED
    BY Inductive, <1>1, PTL

\* shouldFlushEvents ends every chain of requeued tasks.
THEOREM ChainsAreBounded == Spec => []RequeuesBounded
  <1>1. IInv => RequeuesBounded
    BY DEF IInv
  <1> QED
    BY Inductive, <1>1, PTL

\* The events and tasks of an aggregation key implement EventDelivery, for every
\* set of events, all times that satisfy the assumptions and transactions of any
\* length: no event is committed within the slack without a task left to look at
\* it, the last task ends only when nothing but late events is left to notify,
\* and a flush takes all committed events, late or not, at once.
THEOREM BatchingImplementsDelivery == Spec => ImplementsDelivery
  <1>1. Init => Delivery!DeliveryInit
    BY DEF Init, Delivery!DeliveryInit
  <1>2. IInv /\ EventHasTask' /\ [Next]_vars
          => [Delivery!DeliveryNext]_(Delivery!deliveryVars)
    BY EventRefines, TaskRefines DEF Next
  <1> QED
    BY <1>1, <1>2, Inductive, NoEventStranded, PTL
    DEF Spec, ImplementsDelivery, Delivery!DeliverySpec
=============================================================================
