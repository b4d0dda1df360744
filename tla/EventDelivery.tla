---------------------------- MODULE EventDelivery ----------------------------
(***************************************************************************)
(* What the batching of notifications promises about the events of one     *)
(* aggregation key, with no window, idempotency key, requeue or clock.     *)
(*                                                                         *)
(* The key is armed while a task is left that will look at its events.  An *)
(* event is committed in time only while the key is armed, and the key is  *)
(* disarmed only when no such event is left to notify.  A notification     *)
(* takes every event committed so far, in one step, and none twice.        *)
(* Nothing is promised about when an event is notified that was committed  *)
(* too late, but if it is, it is with all the others and once.             *)
(***************************************************************************)
EXTENDS Naturals

CONSTANT Event

VARIABLES
  row,    \* of each event: "none", "open", "committed", "handled", "rolledBack"
  late,   \* the events committed too late
  notes,  \* of each event: the notifications it is in
  armed   \* whether a task is left to run

deliveryVars == <<row, late, notes, armed>>

ToNotify == {e \in Event : row[e] = "committed"}

DeliveryInit ==
  /\ row = [e \in Event |-> "none"]
  /\ late = {}
  /\ notes = [e \in Event |-> 0]
  /\ armed = FALSE

Insert(e) ==
  /\ row[e] = "none"
  /\ row' = [row EXCEPT ![e] = "open"]
  /\ UNCHANGED <<late, notes, armed>>

Rollback(e) ==
  /\ row[e] = "open"
  /\ row' = [row EXCEPT ![e] = "rolledBack"]
  /\ UNCHANGED <<late, notes, armed>>

Commit(e) ==
  /\ row[e] = "open"
  /\ armed
  /\ row' = [row EXCEPT ![e] = "committed"]
  /\ UNCHANGED <<late, notes, armed>>

CommitLate(e) ==
  /\ row[e] = "open"
  /\ row' = [row EXCEPT ![e] = "committed"]
  /\ late' = late \cup {e}
  /\ UNCHANGED <<notes, armed>>

\* A task is queued while an event's transaction is open, also for an event
\* that is rolled back later.
Arm ==
  /\ ~armed
  /\ \E e \in Event : row[e] = "open"
  /\ armed' = TRUE
  /\ UNCHANGED <<row, late, notes>>

\* The last task ends with nothing left to notify but what came too late.
Disarm ==
  /\ armed
  /\ ToNotify \subseteq late
  /\ armed' = FALSE
  /\ UNCHANGED <<row, late, notes>>

\* One notification of all there is; other tasks may be left.
Notify ==
  /\ armed
  /\ ToNotify # {}
  /\ row' = [e \in Event |-> IF e \in ToNotify THEN "handled" ELSE row[e]]
  /\ notes' = [e \in Event |-> IF e \in ToNotify THEN 1 ELSE notes[e]]
  /\ armed' \in BOOLEAN
  /\ UNCHANGED late

DeliveryNext ==
  \/ \E e \in Event : Insert(e) \/ Rollback(e) \/ Commit(e) \/ CommitLate(e)
  \/ Arm
  \/ Disarm
  \/ Notify

DeliverySpec == DeliveryInit /\ [][DeliveryNext]_deliveryVars
=============================================================================
