--------------------------- MODULE MCWorkerGraph ---------------------------
(* Every graph over three jobs, for TLC. *)
EXTENDS WorkerGraph
=============================================================================
