-------------------------- MODULE MCProjectDeletion --------------------------
(* Instances of ProjectDeletion for TLC. *)
EXTENDS ProjectDeletion

CONSTANTS u1, u2, w1, w2, r1, none
=============================================================================
