------------------------- MODULE MCProjectWorkflow -------------------------
(* Instances of ProjectWorkflow for TLC. *)
EXTENDS ProjectWorkflow

CONSTANTS c1, c2, k1, k2
=============================================================================
