---------------------------- MODULE MCAgentJobs ----------------------------
(* Instances of AgentJobs for TLC. *)
EXTENDS AgentJobs, TLC

CONSTANTS r1, r2, m1, m2, c1
=============================================================================
