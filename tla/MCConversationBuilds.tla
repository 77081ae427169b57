------------------------ MODULE MCConversationBuilds ------------------------
(* Instances of ConversationBuilds for TLC. *)
EXTENDS ConversationBuilds, TLC

CONSTANTS t1, t2, none, nokey

\* The two requests are alike.
Symmetry == Permutations({t1, t2})
=============================================================================
