-------------------------- MODULE MCOpenCodeBridge --------------------------
(* Instances of OpenCodeBridge for TLC. *)
EXTENDS OpenCodeBridge, TLC

CONSTANTS p1, p2, r1

CallerSymmetry == Permutations(Callers)
=============================================================================
