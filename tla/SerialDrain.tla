---------------------------- MODULE SerialDrain ----------------------------
(***************************************************************************)
(* What the drain loop of CoreTaskService is to everything around it: an   *)
(* executor of core tasks, one at a time.  A row is inserted, is started   *)
(* once, while no other is being executed, and is completed once, by its   *)
(* processor or by somebody else; a crash, a drain that throws or a row    *)
(* without a processor end an execution early and never repeat one.        *)
(*                                                                         *)
(* Both models of the loop implement it: CoreTaskDrain, with the calls of  *)
(* startDrainCoreTasks that race at every await, and TaskPipeline, with    *)
(* the processors and hooks and one loop.                                  *)
(***************************************************************************)
CONSTANTS CoreTask, None

VARIABLES
  row,  \* of each core task: startedAt and completedAt
  cur   \* the core task that is being executed, or None

Row == {"absent", "waiting", "started", "done"}

drainVars == <<row, cur>>

DrainInit ==
  /\ row = [t \in CoreTask |-> "absent"]
  /\ cur = None

\* The row is started; without a processor for it nothing is executed.
Start(t) ==
  /\ cur = None
  /\ row[t] = "waiting"
  /\ row' = [row EXCEPT ![t] = "started"]
  /\ cur' \in {t, None}

\* A transaction inserts rows and completes at most one, by the processor that
\* is being executed, which may return with it, or by somebody else; or the
\* execution ends without a word.
Transact ==
  /\ row' \in [CoreTask -> Row]
  /\ \E d \in CoreTask \cup {None} : \A t \in CoreTask :
       \/ row'[t] = row[t]
       \/ row[t] = "absent" /\ row'[t] = "waiting"
       \/ t = d /\ row[t] = "started" /\ row'[t] = "done"
  /\ cur' \in {cur, None}

DrainNext == Transact \/ \E t \in CoreTask : Start(t)

DrainSpec == DrainInit /\ [][DrainNext]_drainVars
=============================================================================
