----------------------------- MODULE AttemptEnd -----------------------------
(***************************************************************************)
(* What it is to end an attempt, for both models of it: TaskPipeline, in   *)
(* which a completion transaction is one step, and CompletionTx, which     *)
(* looks inside the transactions of one attempt.  An attempt's two rows,   *)
(* the inner task's and the runner's, end in one step, or the runner's     *)
(* ends alone, by the catch of executeCoreTask, and the inner row is then  *)
(* never ended for that attempt.                                           *)
(***************************************************************************)
CONSTANT Attempt

VARIABLES
  innerEnded,   \* the attempts that ended for the inner task
  runnerEnded   \* the attempts whose runner is completed

endVars == <<innerEnded, runnerEnded>>

EndInit == innerEnded = {} /\ runnerEnded = {}

EndTogether(a) ==
  /\ a \notin innerEnded \cup runnerEnded
  /\ innerEnded' = innerEnded \cup {a}
  /\ runnerEnded' = runnerEnded \cup {a}

EndRunnerAlone(a) ==
  /\ a \notin innerEnded \cup runnerEnded
  /\ runnerEnded' = runnerEnded \cup {a}
  /\ UNCHANGED innerEnded

EndNext == \E a \in Attempt : EndTogether(a) \/ EndRunnerAlone(a)

EndSpec == EndInit /\ [][EndNext]_endVars
=============================================================================
