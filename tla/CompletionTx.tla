---------------------------- MODULE CompletionTx ----------------------------
(***************************************************************************)
(* Inside the completion transactions of one attempt.                      *)
(*                                                                         *)
(* TaskPipeline ends an attempt in one step.  In the server that step is a *)
(* transaction of several statements, and more than one caller may run one *)
(* for the same two rows, the inner task and its runner: the processor     *)
(* whose dispatch failed (inner, then runner), the completion hook of the  *)
(* docker worker (runner, then inner), and the catch of executeCoreTask    *)
(* (runner only).  Progress reports update the inner row beside them.      *)
(*                                                                         *)
(* The database runs at READ COMMITTED: a SELECT sees committed values, an *)
(* UPDATE waits for the row's writer to end and then tests its WHERE again *)
(* on what that writer left, and of two writers that wait for each other   *)
(* one is rolled back.                                                     *)
(*                                                                         *)
(* What the server tells others is not undone by a rollback: the frames of *)
(* TaskUpdateBroadcasterService and the telemetry event.  The attempt is   *)
(* one that is not requeued.                                               *)
(*                                                                         *)
(* A definition under "Mutant:" is a bug put in place of the next one to   *)
(* see a property fail; it is no part of the specification.                *)
(***************************************************************************)
EXTENDS Integers, Sequences, FiniteSets

CONSTANTS
  Processor,      \* completions by the processor
  Hook,           \* calls of the completion hook
  Catch,          \* completions by the catch of executeCoreTask
  Progress,       \* progress reports of a docker worker, in a transaction
  Report,         \* progress reports over the app socket, autocommitted
  None

Completer == Processor \cup Hook \cup Catch
Call == Completer \cup Progress \cup Report

ASSUME CallAssumption ==
  /\ None \notin Call
  /\ Processor \cap (Hook \cup Catch \cup Progress \cup Report) = {}
  /\ Hook \cap (Catch \cup Progress \cup Report) = {}
  /\ Catch \cap (Progress \cup Report) = {}
  /\ Progress \cap Report = {}

Row == {"inner", "runner"}

\* The rows a call updates first and second.
First(x) == IF x \in Hook \cup Catch THEN "runner" ELSE "inner"
Second(x) == IF x \in Hook THEN "inner" ELSE "runner"
HasSecond(x) == x \in Processor \cup Hook

VARIABLES
  ended,   \* of each row: the call whose completion is committed, or None
  lock,    \* of each row: the open transaction that wrote it, or None
  pc,      \* of each call: where it is
  shown,   \* the last frame clients were sent about the inner task
  timer,   \* whether a throttled progress frame is pending
  told     \* of each row: the calls that announced its completion

vars == <<ended, lock, pc, shown, timer, told>>

\* Where a call is: before it, about to update a row, about to announce the
\* update, about to commit, or at one of its three ends: committed, rolled back
\* because of another call (aborted), or by an error of its own handlers (threw).
PC == {"ready", "update1", "tell1", "read2", "update2", "tell2", "commit",
       "committed", "aborted", "threw"}
RolledBack == {"aborted", "threw"}
Over == {"committed"} \cup RolledBack

TypeOK ==
  /\ ended \in [Row -> Completer \cup {None}]
  /\ lock \in [Row -> Call \cup {None}]
  /\ pc \in [Call -> PC]
  /\ shown \in {"none", "progress", "terminal"}
  /\ timer \in BOOLEAN
  /\ told \in [Row -> SUBSET Completer]

Init ==
  /\ ended = [r \in Row |-> None]
  /\ lock = [r \in Row |-> None]
  /\ pc = [x \in Call |-> "ready"]
  /\ shown = "none"
  /\ timer = FALSE
  /\ told = [r \in Row |-> {}]

-----------------------------------------------------------------------------
Goto(x, p) == pc' = [pc EXCEPT ![x] = p]

\* The row x is about to update, and the one whose update it is about to tell.
Target(x) == IF pc[x] \in {"update2", "tell2"} THEN Second(x) ELSE First(x)

\* The transaction is rolled back.
RollBack(x, end) ==
  /\ Goto(x, end)
  /\ lock' = [r \in Row |-> IF lock[r] = x THEN None ELSE lock[r]]

Abort(x) == RollBack(x, "aborted")

\* A call reads the row it is about to complete (the hook reads the runner
\* twice, to the same effect) and throws when the row is completed.  The catch
\* of executeCoreTask runs when the processor's own transaction failed.
Read(x) ==
  /\ x \in Completer
  /\ pc[x] \in {"ready", "read2"}
  /\ x \in Catch => \E p \in Processor : pc[p] \in RolledBack
  /\ LET second == pc[x] = "read2"
         r == IF second THEN Second(x) ELSE First(x)
     IN  IF ended[r] = None
         THEN Goto(x, IF second THEN "update2" ELSE "update1") /\ UNCHANGED lock
         ELSE Abort(x)
  /\ UNCHANGED <<ended, shown, timer, told>>

\* Mutant: the UPDATE does not repeat the conditions of the SELECT.
UpdateByIdOnly(x) ==
  /\ x \in Completer
  /\ pc[x] \in {"update1", "update2"}
  /\ lock[Target(x)] = None
  /\ lock' = [lock EXCEPT ![Target(x)] = x]
  /\ Goto(x, IF pc[x] = "update1" THEN "tell1" ELSE "tell2")
  /\ UNCHANGED <<ended, shown, timer, told>>

\* Mutant: an UPDATE that matched no row is tried again, not reported.
UpdateRetries(x) ==
  /\ x \in Completer
  /\ pc[x] \in {"update1", "update2"}
  /\ lock[Target(x)] = None
  /\ IF ended[Target(x)] = None
     THEN /\ lock' = [lock EXCEPT ![Target(x)] = x]
          /\ Goto(x, IF pc[x] = "update1" THEN "tell1" ELSE "tell2")
     ELSE UNCHANGED <<lock, pc>>
  /\ UNCHANGED <<ended, shown, timer, told>>

\* Mutant: a completion that finds a row being written does not wait for it.
UpdateNoWait(x) ==
  /\ x \in Completer
  /\ pc[x] \in {"update1", "update2"}
  /\ IF lock[Target(x)] = None /\ ended[Target(x)] = None
     THEN /\ lock' = [lock EXCEPT ![Target(x)] = x]
          /\ Goto(x, IF pc[x] = "update1" THEN "tell1" ELSE "tell2")
     ELSE Abort(x)
  /\ UNCHANGED <<ended, shown, timer, told>>

\* The UPDATE of _registerTaskCompletedInTx, once no other transaction has the
\* row: it takes the row, or finds it completed and throws.
Update(x) ==
  /\ x \in Completer
  /\ pc[x] \in {"update1", "update2"}
  /\ lock[Target(x)] = None
  /\ IF ended[Target(x)] = None
     THEN /\ lock' = [lock EXCEPT ![Target(x)] = x]
          /\ Goto(x, IF pc[x] = "update1" THEN "tell1" ELSE "tell2")
     ELSE Abort(x)
  /\ UNCHANGED <<ended, shown, timer, told>>

\* The handlers run between the UPDATE of the inner row and the announcement,
\* in every completion, and may throw.
HandlerThrows(x) ==
  /\ x \in Completer
  /\ pc[x] \in {"tell1", "tell2"}
  /\ Target(x) = "inner"
  /\ RollBack(x, "threw")
  /\ UNCHANGED <<ended, shown, timer, told>>

\* Mutant: the first of two completions is not given the transaction.
AnnounceCommitted(x) ==
  /\ x \in Completer
  /\ pc[x] \in {"tell1", "tell2"}
  /\ told' = [told EXCEPT ![Target(x)] = @ \cup {x}]
  /\ IF Target(x) = "inner"
     THEN shown' = "terminal" /\ timer' = FALSE
     ELSE UNCHANGED <<shown, timer>>
  /\ IF pc[x] = "tell1" /\ HasSecond(x)
     THEN /\ Goto(x, "read2")
          /\ ended' = [ended EXCEPT ![First(x)] = x]
          /\ lock' = [lock EXCEPT ![First(x)] = None]
     ELSE /\ Goto(x, "commit")
          /\ UNCHANGED <<ended, lock>>

\* handleTaskUpdate with a terminal update, then emitTaskCompletionTelemetry:
\* nothing is awaited in between, and the transaction is still open.
Announce(x) ==
  /\ x \in Completer
  /\ pc[x] \in {"tell1", "tell2"}
  /\ told' = [told EXCEPT ![Target(x)] = @ \cup {x}]
  /\ IF Target(x) = "inner"
     THEN shown' = "terminal" /\ timer' = FALSE
     ELSE UNCHANGED <<shown, timer>>
  /\ Goto(x, IF pc[x] = "tell1" /\ HasSecond(x) THEN "read2" ELSE "commit")
  /\ UNCHANGED <<ended, lock>>

Commit(x) ==
  /\ pc[x] = "commit"
  /\ Goto(x, "committed")
  /\ ended' = [r \in Row |->
                 IF lock[r] = x /\ x \in Completer THEN x ELSE ended[r]]
  /\ lock' = [r \in Row |-> IF lock[r] = x THEN None ELSE lock[r]]
  /\ UNCHANGED <<shown, timer, told>>

\* Mutant: the hook's progress update runs outside its transaction.
ProgressWriteUnlocked(x) ==
  /\ x \in Progress \cup Report
  /\ pc[x] = "ready"
  /\ lock["inner"] = None
  /\ Goto(x, IF ended["inner"] = None THEN "tell1" ELSE "aborted")
  /\ UNCHANGED <<ended, lock, shown, timer, told>>

\* The UPDATE of registerTaskProgress.  A report over the app socket passes no
\* transaction: its row is free again as soon as the statement has run.
ProgressWrite(x) ==
  /\ x \in Progress \cup Report
  /\ pc[x] = "ready"
  /\ lock["inner"] = None
  /\ Goto(x, IF ended["inner"] = None THEN "tell1" ELSE "aborted")
  /\ lock' = IF ended["inner"] = None /\ x \in Progress
             THEN [lock EXCEPT !["inner"] = x] ELSE lock
  /\ UNCHANGED <<ended, shown, timer, told>>

\* handleTaskUpdate with a progress report: the throttle's timer is (re)armed.
ProgressTell(x) ==
  /\ x \in Progress \cup Report
  /\ pc[x] = "tell1"
  /\ timer' = TRUE
  /\ Goto(x, IF x \in Progress THEN "commit" ELSE "committed")
  /\ UNCHANGED <<ended, lock, shown, told>>

\* The timer of the throttle fires.
TimerFires ==
  /\ timer
  /\ timer' = FALSE
  /\ shown' = "progress"
  /\ UNCHANGED <<ended, lock, pc, told>>

\* x and y each wait for a row the other one holds.
Waits(x, r) == pc[x] \in {"update1", "update2"} /\ Target(x) = r
Deadlocked(x, y) ==
  \E r, s \in Row : /\ Waits(x, r) /\ lock[r] = y
                    /\ Waits(y, s) /\ lock[s] = x

\* The database breaks a deadlock by an error in one of the two.
DeadlockDetected(x) ==
  /\ x \in Completer
  /\ \E y \in Completer \ {x} : Deadlocked(x, y)
  /\ Abort(x)
  /\ UNCHANGED <<ended, shown, timer, told>>

Step(x) ==
  \/ Read(x)
  \/ Update(x)
  \/ HandlerThrows(x)
  \/ Announce(x)
  \/ Commit(x)
  \/ ProgressWrite(x)
  \/ ProgressTell(x)
  \/ DeadlockDetected(x)

Next == TimerFires \/ \E x \in Call : Step(x)

Spec == Init /\ [][Next]_vars

\* A call that has begun goes on: each of its awaits is a statement that ends
\* or a lock wait that the database ends.  Nothing has to begin.
FairSpec == Spec /\ \A x \in Call : WF_vars(pc[x] # "ready" /\ Step(x))

-----------------------------------------------------------------------------
(* Properties. *)

\* What TaskPipeline takes for granted: an attempt is ended once, and both of
\* its rows by the same call; only the catch ends a runner alone, and then no
\* call ends the inner row.
EndsOnceTogether ==
  [][ended' # ended =>
       /\ ended["runner"] = None
       /\ ended["inner"] = None
       /\ \E x \in Completer :
            /\ ended'["runner"] = x
            /\ ended'["inner"] = IF x \in Catch THEN None ELSE x]_vars

\* The transactions implement, statement by statement, the step by which
\* TaskPipeline ends an attempt: both models implement AttemptEnd.
AttemptEnds == INSTANCE AttemptEnd WITH
  Attempt <- {"attempt"},
  innerEnded <- {a \in {"attempt"} : ended["inner"] # None},
  runnerEnded <- {a \in {"attempt"} : ended["runner"] # None}
ImplementsAttemptEnd == AttemptEnds!EndSpec

\* A completion gives way only to another one: while the attempt is not ended,
\* a call that was rolled back because of others leaves one behind that is still
\* under way, or one that got as far as its own handlers, which threw.  So the
\* processor, the hooks and the catch, which take two rows in opposite orders
\* beside progress reports that hold one, never all give way to each other.
Contends(y) == pc[y] \notin {"ready", "aborted", "committed"}

AbortHasWinner ==
  \A x \in Completer :
    pc[x] = "aborted" /\ ended["runner"] = None
      => \E y \in Completer \ {x} : Contends(y)

\* "... so the terminal frame can't arrive out of order": once the end of the
\* inner task is committed clients see a terminal frame and no progress frame
\* is on its way to them, unless a report over the app socket, which holds no
\* row while it tells, got past its UPDATE.
Reported == \E x \in Report : pc[x] \in {"tell1", "committed"}

TerminalFrameLast ==
  ended["inner"] # None => (shown = "terminal" /\ ~timer) \/ Reported

\* Calls that take the same two rows in opposite orders do not block each other
\* for ever.
EveryCallEnds ==
  \A x \in Call : pc[x] # "ready" ~> pc[x] \in Over

\* The announcements (frame, telemetry) are made before the commit, so a call
\* that is rolled back may have made one.  Apart from those the end of a row is
\* announced once, by the call that ended it.
AnnouncedOnce ==
  \A r \in Row : ended[r] # None =>
    /\ ended[r] \in told[r]
    /\ \A x \in told[r] \ {ended[r]} : pc[x] \in RolledBack

\* The inductive invariant: who holds which row at which point, ...
CompleterLocks ==
  \A x \in Completer :
    /\ lock[First(x)] = x
         <=> pc[x] \in {"tell1", "read2", "update2", "tell2", "commit"}
    /\ HasSecond(x) => (lock[Second(x)] = x <=> pc[x] \in {"tell2", "commit"})
    /\ ~HasSecond(x) => /\ pc[x] \notin {"read2", "update2", "tell2"}
                        /\ lock["inner"] # x

ReporterLocks ==
  \A x \in Progress \cup Report :
    /\ pc[x] \in {"ready", "tell1", "commit", "committed", "aborted"}
    /\ lock["runner"] # x
    /\ lock["inner"] = x <=> pc[x] \in {"tell1", "commit"} /\ x \in Progress

\* ... a row being written is not ended, and an ended row tells who ended it.
RowsEnd ==
  /\ \A r \in Row : lock[r] # None => ended[r] = None
  /\ \A r \in Row : ended[r] # None => pc[ended[r]] = "committed"
  /\ ended["inner"] # None => ended["runner"] = ended["inner"]

IInv ==
  /\ TypeOK
  /\ CompleterLocks
  /\ ReporterLocks
  /\ RowsEnd

\* For TerminalFrameLast: whoever wrote the inner row and has announced it
\* keeps clients at the terminal frame until it commits or is rolled back.
AnnouncedFrame ==
  \A x \in Processor \cup Hook :
    \/ x \in Processor /\ pc[x] \notin {"read2", "update2", "tell2", "commit"}
    \/ x \in Hook /\ pc[x] # "commit"
    \/ shown = "terminal" /\ ~timer
    \/ Reported

\* For AnnouncedOnce: who told of a row writes it, ended it or was rolled back,
\* and a writer has told of its row but right after the UPDATE.
ToldInv ==
  \A r \in Row, x \in Completer :
    /\ x \in told[r] => lock[r] = x \/ ended[r] = x \/ pc[x] \in RolledBack
    /\ \/ x \in told[r]
       \/ lock[r] # x /\ ended[r] # x
       \/ lock[r] = x /\ pc[x] \in {"tell1", "tell2"} /\ Target(x) = r
=============================================================================
