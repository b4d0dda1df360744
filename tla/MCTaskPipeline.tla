--------------------------- MODULE MCTaskPipeline ---------------------------
(***************************************************************************)
(* Instances of TaskPipeline for TLC.                                      *)
(***************************************************************************)
EXTENDS TaskPipeline

CONSTANTS a, b, c, d, e

\* No task has an onComplete handler.
NoHandlers == [t \in Task |-> {}]

\* Task a starts c whatever its result; b starts d when it succeeds and e when
\* it fails.
Handlers ==
  [t \in Task |->
     CASE t = a -> {[child |-> c, when |-> "always"]}
       [] t = b -> {[child |-> d, when |-> "success"], [child |-> e, when |-> "failure"]}
       [] OTHER -> {}]
=============================================================================
