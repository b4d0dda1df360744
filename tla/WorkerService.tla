---------------------------- MODULE WorkerService ----------------------------
(***************************************************************************)
(* What the callers of CoreWorkerService may rely on, with no socket, boot *)
(* sequence, ready flag or retry timer.                                    *)
(*                                                                         *)
(* There is at most one worker process, each has its own number, and none  *)
(* comes back.  A call is handed to the process there is, or is lost if it *)
(* is handed to one that is gone.  It is settled once: with what its own   *)
(* process answered, before that died, or by its timer.  A call that needs *)
(* an initialised process succeeds on no other.  A call that finds the     *)
(* worker not ready is made again later and leaves no trace here.          *)
(***************************************************************************)
EXTENDS Naturals

CONSTANTS Req, NeedsInit

VARIABLES
  last,      \* the number of the last process
  procs,     \* the processes that are alive
  prepared,  \* the processes that were initialised
  told,      \* of each call: its outcome so far
  by         \* of each call: the process it was handed to

workerVars == <<last, procs, prepared, told, by>>

WorkerInit ==
  /\ last = 0
  /\ procs = {}
  /\ prepared = {}
  /\ told = [r \in Req |-> "idle"]
  /\ by = [r \in Req |-> 0]

NewProcess ==
  /\ procs = {}
  /\ last' = last + 1
  /\ procs' = {last + 1}
  /\ UNCHANGED <<prepared, told, by>>

Prepare(g) ==
  /\ g \in procs
  /\ prepared' = prepared \cup {g}
  /\ UNCHANGED <<last, procs, told, by>>

\* A process dies, and its calls D that it had not answered are lost.
Die(g, D) ==
  /\ g \in procs
  /\ \A r \in D : told[r] = "working" /\ by[r] = g
  /\ procs' = procs \ {g}
  /\ told' = [r \in Req |-> IF r \in D THEN "lost" ELSE told[r]]
  /\ UNCHANGED <<last, prepared, by>>

HandOver(r, g) ==
  /\ told[r] = "idle"
  /\ told' = [told EXCEPT ![r] = IF g \in procs THEN "working" ELSE "lost"]
  /\ by' = [by EXCEPT ![r] = g]
  /\ UNCHANGED <<last, procs, prepared>>

Refuse(r) ==
  /\ told[r] = "idle"
  /\ told' = [told EXCEPT ![r] = "refused"]
  /\ UNCHANGED <<last, procs, prepared, by>>

Settle(r, how) ==
  /\ told[r] \in {"working", "lost"}
  /\ told[r] = "lost" => how = "timeout"
  /\ how = "ok" /\ r \in NeedsInit => by[r] \in prepared
  /\ told' = [told EXCEPT ![r] = how]
  /\ UNCHANGED <<last, procs, prepared, by>>

WorkerNext ==
  \/ NewProcess
  \/ \E g \in procs : Prepare(g) \/ \E D \in SUBSET Req : Die(g, D)
  \/ \E r \in Req : Refuse(r) \/ \E g \in 1 .. last : HandOver(r, g)
  \/ \E r \in Req, how \in {"ok", "error", "timeout"} : Settle(r, how)

WorkerSpec == WorkerInit /\ [][WorkerNext]_workerVars
=============================================================================
