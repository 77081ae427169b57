-------------------------- MODULE WorkerGraphProofs --------------------------
(***************************************************************************)
(* _validate_graph accepts exactly the acyclic graphs, however many jobs   *)
(* there are.  The counts are the numbers of dependencies not yet taken    *)
(* off, so a job left at the end has a dependency that is left too, and    *)
(* the jobs taken off never contain a cycle.                               *)
(***************************************************************************)
EXTENDS WorkerGraph, FiniteSetTheorems, TLAPS

Deps(j) == DependenciesIn(edges, j)

\* Each count is that of the dependencies which are still on the graph, and
\* exactly the jobs on the graph that have none are ready.
Counting ==
  /\ \A j \in Jobs : indegree[j] = Cardinality(Deps(j) \ visited)
  /\ ready = {j \in Jobs \ visited : indegree[j] = 0}

\* The jobs taken off contain no cycle and depend on none that is left.
VisitedAcyclic ==
  /\ \A j \in visited : Deps(j) \subseteq visited
  /\ \A S \in SUBSET visited : S # {} => \E j \in S : Deps(j) \cap S = {}

Inv == TypeOK /\ Counting /\ VisitedAcyclic

LEMMA JobsFinite == IsFiniteSet(Jobs)
  BY FS_Interval, NumJobsAssumption DEF Jobs

\* Any set of dependencies can be counted.
LEMMA DepsFinite ==
  ASSUME NEW E, NEW j, NEW V
  PROVE  /\ DependenciesIn(E, j) \subseteq Jobs
         /\ IsFiniteSet(DependenciesIn(E, j) \ V)
         /\ Cardinality(DependenciesIn(E, j) \ V) \in Nat
         /\ Cardinality(DependenciesIn(E, j) \ V) = 0 <=> DependenciesIn(E, j) \subseteq V
<1>1. DependenciesIn(E, j) \subseteq Jobs
  BY DEF DependenciesIn
<1>2. IsFiniteSet(DependenciesIn(E, j) \ V)
  BY <1>1, JobsFinite, FS_Subset
<1>3. Cardinality(DependenciesIn(E, j) \ V) \in Nat
  BY <1>2, FS_CardinalityType
<1>4. Cardinality(DependenciesIn(E, j) \ V) = 0 <=> DependenciesIn(E, j) \ V = {}
  BY <1>2, FS_EmptySet
<1> QED BY <1>1, <1>2, <1>3, <1>4

LEMMA InitInv == Init => Inv
<1> SUFFICES ASSUME Init PROVE Inv
  OBVIOUS
<1>1. \A j \in Jobs : indegree[j] \in Nat /\ indegree[j] = Cardinality(Deps(j) \ visited)
  <2> TAKE j \in Jobs
  <2>1. indegree[j] = Cardinality(Deps(j)) /\ Deps(j) \ visited = Deps(j)
    BY DEF Init, Deps
  <2> QED BY <2>1, DepsFinite DEF Deps
<1>2. TypeOK
  BY <1>1 DEF Init, TypeOK
<1>3. Counting
  BY <1>1 DEF Init, Counting
<1>4. VisitedAcyclic
  BY DEF Init, VisitedAcyclic
<1> QED BY <1>2, <1>3, <1>4 DEF Inv

\* What a visit does to the dependencies that are counted for job j.
LEMMA VisitCounts ==
  ASSUME Inv, NEW current \in Jobs, Visit(current), NEW j \in Jobs
  PROVE  indegree'[j] = Cardinality(Deps(j)' \ visited') /\ indegree'[j] \in Nat
<1> DEFINE D == Deps(j) \ visited
<1>1. current \notin visited /\ edges' = edges /\ Deps(j)' = Deps(j)
  BY DEF Inv, Counting, Visit, Deps
<1>2. Deps(j)' \ visited' = D \ {current}
  BY <1>1 DEF Visit
<1>3. IsFiniteSet(D) /\ Cardinality(D) \in Nat
  BY DepsFinite DEF Deps
<1>4. Cardinality(D \ {current})
        = IF current \in D THEN Cardinality(D) - 1 ELSE Cardinality(D)
  BY <1>3, FS_RemoveElement
<1>5. current \in D <=> j \in Dependents(current)
  BY <1>1 DEF Deps, DependenciesIn, Dependents
<1>6. indegree'[j] = IF current \in D THEN Cardinality(D) - 1 ELSE Cardinality(D)
  BY <1>5 DEF Inv, Counting, Visit
<1>7. Cardinality(D \ {current}) \in Nat
  <2>1. IsFiniteSet(D \ {current})
    BY <1>3, FS_RemoveElement
  <2> QED BY <2>1, FS_CardinalityType
<1> QED BY <1>2, <1>4, <1>6, <1>7

LEMMA NextInv == Inv /\ [Next]_vars => Inv'
<1> SUFFICES ASSUME Inv, [Next]_vars PROVE Inv'
  OBVIOUS
<1>1. ASSUME NEW current \in Jobs, Visit(current) PROVE Inv'
  <2>1. /\ current \in ready /\ current \notin visited /\ indegree[current] = 0
        /\ edges' = edges /\ visited' = visited \cup {current}
    BY <1>1 DEF Visit, Inv, Counting
  <2>2. \A j \in Jobs : indegree'[j] = Cardinality(Deps(j)' \ visited') /\ indegree'[j] \in Nat
    BY <1>1, VisitCounts
  <2>3. indegree' \in [Jobs -> Nat]
    BY <1>1, <2>2 DEF Visit
  <2>4. Dependents(current) \subseteq Jobs
    BY DEF Dependents
  <2>5. TypeOK'
    BY <1>1, <2>1, <2>3, <2>4 DEF Visit, Inv, TypeOK
  <2>6. Deps(current) \subseteq visited
    <3>1. Cardinality(Deps(current) \ visited) = 0
      BY <2>1 DEF Inv, Counting
    <3> QED BY <3>1, DepsFinite DEF Deps
  <2>7. \A j \in Dependents(current) : j \in Jobs \ (visited \cup {current})
    <3> TAKE j \in Dependents(current)
    <3>1. j \in Jobs /\ current \in Deps(j)
      BY <1>1 DEF Dependents, Deps, DependenciesIn
    <3>2. j \notin visited
      BY <3>1, <2>1 DEF Inv, VisitedAcyclic
    <3>3. j # current
      BY <3>1, <2>1, <2>6
    <3> QED BY <3>1, <3>2, <3>3
  <2>8. ready' = {j \in Jobs \ visited' : indegree'[j] = 0}
    <3>1. ASSUME NEW j \in Jobs, j \notin visited', indegree'[j] = 0, j \notin Dependents(current)
          PROVE  j \in ready \ {current}
      BY <3>1, <1>1, <2>1 DEF Visit, Inv, Counting
    <3>2. ASSUME NEW j \in ready \ {current}
          PROVE  j \in Jobs \ visited' /\ indegree'[j] = 0
      <4>1. j \in Jobs /\ j \notin visited' /\ indegree[j] = 0
        BY <3>2, <2>1 DEF Inv, Counting
      <4>2. j \notin Dependents(current)
        <5>1. Deps(j) \subseteq visited
          <6>1. Cardinality(Deps(j) \ visited) = 0
            BY <4>1 DEF Inv, Counting
          <6> QED BY <6>1, DepsFinite DEF Deps
        <5> QED BY <5>1, <2>1 DEF Dependents, Deps, DependenciesIn
      <4> QED BY <4>1, <4>2, <1>1 DEF Visit
    <3>3. ready' = (ready \ {current}) \cup {j \in Dependents(current) : indegree'[j] = 0}
      BY <1>1 DEF Visit
    <3>4. \A j \in Dependents(current) : j \in Jobs \ visited'
      BY <2>1, <2>7
    <3> QED BY <3>1, <3>2, <3>3, <3>4
  <2>9. Counting'
    BY <2>2, <2>8 DEF Counting
  <2>10. \A j : Deps(j)' = Deps(j)
    BY <2>1 DEF Deps
  <2>11. \A j \in visited' : Deps(j) \subseteq visited'
    BY <2>1, <2>6 DEF Inv, VisitedAcyclic
  <2>12. ASSUME NEW S \in SUBSET visited', S # {} PROVE \E j \in S : Deps(j) \cap S = {}
    <3>1. CASE S \subseteq visited
      BY <3>1, <2>12 DEF Inv, VisitedAcyclic
    <3>2. CASE S = {current}
      BY <3>2, <2>1, <2>6
    <3>3. CASE current \in S /\ S \ {current} # {}
      <4>1. S \ {current} \in SUBSET visited
        BY <2>1, <2>12
      <4>2. PICK j \in S \ {current} : Deps(j) \cap (S \ {current}) = {}
        BY <4>1, <3>3 DEF Inv, VisitedAcyclic
      <4>3. current \notin Deps(j)
        BY <4>1, <4>2, <2>1 DEF Inv, VisitedAcyclic
      <4> QED BY <4>2, <4>3
    <3> QED BY <3>1, <3>2, <3>3, <2>1, <2>12
  <2>13. VisitedAcyclic'
    BY <2>10, <2>11, <2>12 DEF VisitedAcyclic
  <2> QED BY <2>5, <2>9, <2>13 DEF Inv
<1>2. CASE UNCHANGED vars
  BY <1>2 DEF vars, Inv, TypeOK, Counting, VisitedAcyclic, Deps
<1> QED BY <1>1, <1>2 DEF Next

\* The counts never become negative and only jobs of the plan are visited.
THEOREM GraphTypeCorrect == Spec => []TypeOK
<1>1. Inv => TypeOK
  BY DEF Inv
<1> QED BY <1>1, InitInv, NextInv, PTL DEF Spec

LEMMA InvAccepts == Inv => AcceptsTheAcyclic
<1> SUFFICES ASSUME Inv, ready = {} PROVE Accepted <=> Acyclic(edges)
  BY DEF AcceptsTheAcyclic
<1>1. ASSUME Accepted PROVE Acyclic(edges)
  BY <1>1 DEF Accepted, Acyclic, Inv, VisitedAcyclic, Deps
<1>2. ASSUME ~Accepted PROVE ~Acyclic(edges)
  <2> DEFINE S == Jobs \ visited
  <2>1. S # {} /\ S \in SUBSET Jobs
    BY <1>2 DEF Accepted, Inv, TypeOK
  <2>2. ASSUME NEW j \in S PROVE Deps(j) \cap S # {}
    <3>1. indegree[j] # 0
      BY <2>2 DEF Inv, Counting
    <3>2. Cardinality(Deps(j) \ visited) # 0
      BY <3>1, <2>2 DEF Inv, Counting
    <3> QED BY <3>2, DepsFinite DEF Deps
  <2> QED BY <2>1, <2>2 DEF Acyclic, Deps
<1> QED BY <1>1, <1>2

\* The validation accepts exactly the acyclic graphs, for any number of jobs.
THEOREM AcceptsCorrect == Spec => []AcceptsTheAcyclic
BY InvAccepts, InitInv, NextInv, PTL DEF Spec
=============================================================================
