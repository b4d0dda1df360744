--------------------------- MODULE MCCompletionTx ---------------------------
(***************************************************************************)
(* Instances of CompletionTx for TLC: the calls are model values.          *)
(***************************************************************************)
EXTENDS CompletionTx

CONSTANTS p, h1, h2, c, g1, g2, g3
=============================================================================
