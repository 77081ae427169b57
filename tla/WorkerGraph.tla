----------------------------- MODULE WorkerGraph -----------------------------
(***************************************************************************)
(* WorkerOrchestrator._validate_graph: it counts the dependencies of every *)
(* job, takes jobs without dependencies off the graph while there are any, *)
(* and accepts the graph if that takes off every job.  The code keeps the  *)
(* jobs to take off on a stack; here any of them may come next.            *)
(***************************************************************************)
EXTENDS PlanStatuses, FiniteSets

VARIABLES
  edges,     \* the pairs of a job and a dependency that it declares
  indegree,  \* how many dependencies of each job are still on the graph
  ready,     \* the jobs to take off
  visited    \* the jobs taken off; the code counts them

vars == <<edges, indegree, ready, visited>>

Dependents(j) == {c \in Jobs : <<c, j>> \in edges}

Init ==
  /\ edges \in SUBSET (Jobs \X Jobs)
  /\ indegree = [j \in Jobs |-> Cardinality(DependenciesIn(edges, j))]
  /\ ready = {j \in Jobs : indegree[j] = 0}
  /\ visited = {}

\* [Fault] The count is looked at before it is lowered.
VisitLooksFirst(current) ==
  /\ current \in ready
  /\ visited' = visited \cup {current}
  /\ indegree' = [j \in Jobs |->
                    IF j \in Dependents(current) THEN indegree[j] - 1 ELSE indegree[j]]
  /\ ready' = (ready \ {current})
                \cup {j \in Dependents(current) : indegree[j] = 0}
  /\ UNCHANGED edges

Visit(current) ==
  /\ current \in ready
  /\ visited' = visited \cup {current}
  /\ indegree' = [j \in Jobs |->
                    IF j \in Dependents(current) THEN indegree[j] - 1 ELSE indegree[j]]
  /\ ready' = (ready \ {current})
                \cup {j \in Dependents(current) : indegree'[j] = 0}
  /\ UNCHANGED edges

Next == \E current \in Jobs : Visit(current)

Spec == Init /\ [][Next]_vars

-----------------------------------------------------------------------------
(* Properties. *)

Accepted == visited = Jobs

TypeOK ==
  /\ edges \subseteq Jobs \X Jobs
  /\ indegree \in [Jobs -> Nat]
  /\ ready \subseteq Jobs /\ visited \subseteq Jobs

\* When no job is left to take off, the graph is accepted exactly if it has no
\* cycle: no job comes off twice or too early, and none is left on by mistake.
AcceptsTheAcyclic == (ready = {}) => (Accepted <=> Acyclic(edges))
=============================================================================
