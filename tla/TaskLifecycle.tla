--------------------------- MODULE TaskLifecycle ---------------------------
(***************************************************************************)
(* What the task service promises to the owner of a task, with no runner,  *)
(* drain loop, worker or hook in sight: a task is created once, is         *)
(* attempted one attempt at a time, goes back to waiting only while it is  *)
(* below the attempt limit, and its result never changes.  The children    *)
(* of a task are created by the step that ends the attempt.                *)
(***************************************************************************)
EXTENDS Integers

CONSTANTS Task, MaxAttempts

VARIABLES state, tries

lifecycleVars == <<state, tries>>

LifecycleInit ==
  /\ state = [t \in Task |-> "absent"]
  /\ tries = [t \in Task |-> 0]

\* The absent tasks of S become waiting, and t gets state s.
Moved(t, s, S) ==
  [u \in Task |-> IF u = t THEN s ELSE IF u \in S THEN "waiting" ELSE state[u]]

Absent == {t \in Task : state[t] = "absent"}

Create(t) ==
  /\ state[t] = "absent"
  /\ state' = [state EXCEPT ![t] = "waiting"]
  /\ UNCHANGED tries

Start(t) ==
  /\ state[t] = "waiting"
  /\ state' = [state EXCEPT ![t] = "running"]
  /\ UNCHANGED tries

\* The attempt ends: with a result, with a requeue below the limit, or with a
\* requeue refused at the limit, after which the task is never heard of again.
EndAttempt(t) ==
  /\ state[t] = "running"
  /\ tries[t] <= MaxAttempts
  /\ tries' = [tries EXCEPT ![t] = @ + 1]
  /\ \E S \in SUBSET Absent :
       \/ \E s \in {"succeeded", "failed"} : state' = Moved(t, s, S)
       \/ tries[t] < MaxAttempts /\ state' = Moved(t, "waiting", S)
       \/ tries[t] = MaxAttempts /\ state' = Moved(t, "running", S)

LifecycleNext == \E t \in Task : Create(t) \/ Start(t) \/ EndAttempt(t)

LifecycleSpec == LifecycleInit /\ [][LifecycleNext]_lifecycleVars
=============================================================================
