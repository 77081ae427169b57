-------------------------- MODULE WorkflowMachine --------------------------
(***************************************************************************)
(* What a project workflow promises to its callers, with no mention of the *)
(* reads, transactions and retries that implement it: one atomic state     *)
(* machine over the table of allowed moves, whose revision counts the      *)
(* moves and in which an idempotency key moves the project at most once.   *)
(***************************************************************************)
EXTENDS Integers, WorkflowStates

CONSTANTS Keys,   \* the idempotency keys that callers may present
          NoKey   \* a move that carries no key anyone can repeat

VARIABLES state,     \* the state of the project, or NoState
          revision,  \* how many moves it has made
          spent      \* the keys whose move has been made

vars == <<state, revision, spent>>

Init == state = NoState /\ revision = 0 /\ spent = {}

\* The workflow comes into being.
Open ==
  /\ state = NoState
  /\ state' = "gathering_context"
  /\ revision' = 1
  /\ UNCHANGED spent

\* An allowed move, under a key that has not been spent.
Move(t, k) ==
  /\ state # NoState
  /\ t \in ALLOWED_WORKFLOW_TRANSITIONS[state]
  /\ k \notin spent
  /\ state' = t
  /\ revision' = revision + 1
  /\ spent' = spent \cup ({k} \ {NoKey})

Next == Open \/ \E t \in States, k \in Keys \cup {NoKey} : Move(t, k)

Spec == Init /\ [][Next]_vars
=============================================================================
