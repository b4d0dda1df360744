--------------------------- MODULE TunnelService ---------------------------
(***************************************************************************)
(* What a framed tunnel session promises to the callers of its requests,   *)
(* with no frame, slot count, client, timer or teardown in sight.          *)
(*                                                                         *)
(* While the session works it takes a request exactly when fewer than      *)
(* MaxConcurrent are under way, and refuses it at once otherwise.  Every   *)
(* request it has taken is ended once, with its response or without, and   *)
(* what its caller has been told never changes.  When the session is gone  *)
(* no caller waits any more and none is taken in.                          *)
(***************************************************************************)
EXTENDS Integers, FiniteSets

CONSTANTS Request, MaxConcurrent

VARIABLES
  phase,  \* "working", "failing" once its stream or its state says so, "gone"
  told    \* of each request: what its caller has been told

serviceVars == <<phase, told>>

UnderWay == {r \in Request : told[r] \in {"waiting", "streaming"}}

ServiceInit ==
  /\ phase = "working"
  /\ told = [r \in Request |-> "idle"]

Admit(r) ==
  /\ told[r] = "idle"
  /\ phase # "gone"
  /\ phase = "working" => Cardinality(UnderWay) < MaxConcurrent
  /\ told' = [told EXCEPT ![r] = "waiting"]
  /\ UNCHANGED phase

Refuse(r) ==
  /\ told[r] = "idle"
  /\ phase = "working" => Cardinality(UnderWay) >= MaxConcurrent
  /\ told' = [told EXCEPT ![r] = "over"]
  /\ UNCHANGED phase

\* The headers of a streaming response.
Headers(r) ==
  /\ told[r] = "waiting"
  /\ phase # "gone"
  /\ told' = [told EXCEPT ![r] = "streaming"]
  /\ UNCHANGED phase

\* A request ends, and the requests D with it: a client that leaves takes along
\* all those whose responses it was to get.
End(r, how, D) ==
  /\ phase # "gone"
  /\ told' = [q \in Request |->
                IF q = r THEN how ELSE IF q \in D THEN "over" ELSE told[q]]
  /\ UNCHANGED phase

Fail ==
  /\ phase = "working"
  /\ phase' = "failing"
  /\ UNCHANGED told

Close ==
  /\ phase = "failing"
  /\ phase' = "gone"
  /\ told' = [q \in Request |-> IF q \in UnderWay THEN "over" ELSE told[q]]

ServiceNext ==
  \/ \E r \in Request : Admit(r) \/ Refuse(r) \/ Headers(r)
  \/ \E r \in UnderWay, how \in {"ok", "over"}, D \in SUBSET UnderWay : End(r, how, D)
  \/ Fail
  \/ Close

ServiceSpec == ServiceInit /\ [][ServiceNext]_serviceVars
=============================================================================
