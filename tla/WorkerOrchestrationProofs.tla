---------------------- MODULE WorkerOrchestrationProofs ----------------------
(***************************************************************************)
(* What every record of a worker plan, and every copy of it that a call    *)
(* holds, satisfies for any graph, any callers and any placement of them   *)
(* on servers and threads.  Records are only ever overwritten by whole     *)
(* copies, so it is enough that each step of a call keeps its own copy     *)
(* consistent (Fit); which step a call may take on its copy is recorded by *)
(* the facts of its phase (InPhase).  Where one loop handles every call,   *)
(* what a call has read moreover still stands when it writes (CallsFit),   *)
(* and the record behaves as the plan that WorkerPlan promises.            *)
(***************************************************************************)
EXTENDS PlanHistory, TLAPS

\* A copy of the plan that contradicts neither itself nor the graph.
Fit(g, c) ==
  /\ c \in WorkerExecutionPlan /\ c.attempt <= MaxAttempt
  /\ InOrder(g) => RequirementsMet(g, c)
  /\ BlocksExplained(g, c)
  /\ Verdict(c)

\* The requirements of job j have been met for good.
MayStart(g, c, j) ==
  /\ c.jobs[j] = "queued"
  /\ InOrder(g) =>
       \A d \in Jobs : (<<j, d>> \in g.requires) =>
         c.jobs[d] \in {"succeeded", "cancelled"}

\* No queued job is left that a failed one blocks.
AllBlocked(g, c) ==
  \A j, d \in Jobs :
    (<<j, d>> \in g.requires /\ c.jobs[j] = "queued") => c.jobs[d] \notin Failing

NoneRunning(c) == \A j \in Jobs : c.jobs[j] # "running"
AllEnded(c) == \A j \in Jobs : c.jobs[j] \in TERMINAL_JOB_STATUSES

\* A call at phase l, or about to be at phase n once its copy is persisted, is
\* at one of the phases L.
At(l, n, L) == l \in L \/ (l \in {"check", "write"} /\ n \in L)

\* A call at phase l, with n to follow, holds copy c and batch b while the
\* record has status s.
Phase(g, s, l, n, c, b) ==
  /\ (l # "idle") => s # "none"
  /\ (l \in {"idle", "load", "cancel"}) => c = NoPlan
  /\ (l \notin {"idle", "load", "cancel"}) => c.status # "none"
  /\ (l \in {"check", "write"}) => n \in {"idle", "round", "dispatch", "gather", "advance"}
  /\ At(l, n, {"round", "dispatch", "gather", "settle"}) =>
       c.status \in {"running", "cancelled"}
  /\ At(l, n, {"round", "dispatch", "settle"}) => NoneRunning(c)
  /\ ~At(l, n, {"gather"}) => b = {}
  /\ \A j \in b : MayStart(g, c, j)
  /\ (At(l, n, {"dispatch"}) /\ InOrder(g)) => AllBlocked(g, c)
  /\ (l = "settle") => AllEnded(c)

InPhase(p) == Phase(graph, stored.status, pc[p], next[p], plan[p], batch[p])

GraphInv ==
  /\ Acyclic(graph.requires \cup graph.advises)
  /\ graph \in Graphs \cup {NoGraph}
  /\ (stored.status = "none") => stored = NoPlan

Inv ==
  /\ TypeOK /\ GraphInv
  /\ Fit(graph, stored)
  /\ \A p \in Callers : Fit(graph, plan[p]) /\ InPhase(p)

-----------------------------------------------------------------------------
(* What each operation does to a copy. *)

\* With builds the plan it says.
LEMMA WithIsPlan ==
  ASSUME NEW c \in WorkerExecutionPlan, NEW s \in PlanStatuses,
         NEW J \in [Jobs -> JobStatuses]
  PROVE  /\ With(c, s, J) \in WorkerExecutionPlan
         /\ With(c, s, J).status = s
         /\ With(c, s, J).jobs = J
         /\ With(c, s, J).attempt = c.attempt
  BY DEF With, WorkerExecutionPlan

LEMMA PlanFields ==
  ASSUME NEW c \in WorkerExecutionPlan
  PROVE  /\ c.status \in PlanStatuses /\ c.attempt \in Nat
         /\ c.jobs \in [Jobs -> JobStatuses]
         /\ \A j \in Jobs : c.jobs[j] \in JobStatuses
  BY DEF WorkerExecutionPlan

LEMMA NoPlanFits ==
  ASSUME NEW g
  PROVE  Fit(g, NoPlan)
<1>1. NoPlan \in WorkerExecutionPlan /\ NoPlan.attempt <= MaxAttempt
  BY ConstantsAssumption DEF NoPlan, WorkerExecutionPlan, PlanStatuses, JobStatuses
<1>2. \A j \in Jobs : NoPlan.jobs[j] = "queued"
  BY DEF NoPlan
<1>3. NoPlan.status = "none"
  BY DEF NoPlan
<1> QED BY <1>1, <1>2, <1>3 DEF Fit, RequirementsMet, Attempted, BlocksExplained, Verdict

\* A caller that is idle, or has not loaded the record yet, holds nothing.
LEMMA EmptyHanded ==
  ASSUME NEW g, NEW s, NEW n, NEW l \in {"idle", "load", "cancel"},
         (l # "idle") => s # "none"
  PROVE  Phase(g, s, l, n, NoPlan, {})
  BY DEF Phase, At

\* A copy can be persisted as it is, or handed on to the workflow.
LEMMA Passing ==
  ASSUME NEW g, NEW s, NEW n, NEW c, s # "none", c.status # "none",
         NEW l \in Phases, l \in {"advance", "reopen"} \/ (l = "check" /\ n \in {"idle", "advance"})
  PROVE  Phase(g, s, l, n, c, {})
  BY DEF Phase, At

LEMMA ResumedFits ==
  ASSUME NEW g, NEW c, Fit(g, c), NEW s, s # "none"
  PROVE  Fit(g, Resumed(c)) /\ Phase(g, s, "check", "round", Resumed(c), {})
<1> DEFINE J == [j \in Jobs |-> IF c.jobs[j] = "running" THEN "queued" ELSE c.jobs[j]]
           r == With(c, "running", J)
<1>1. c \in WorkerExecutionPlan
  BY DEF Fit
<1>2. J \in [Jobs -> JobStatuses]
  BY <1>1, PlanFields DEF JobStatuses
<1>3. \A j \in Jobs : J[j] = IF c.jobs[j] = "running" THEN "queued" ELSE c.jobs[j]
  OBVIOUS
<1>4. Resumed(c) = r
  BY DEF Resumed
<1> HIDE DEF J
<1>5. r \in WorkerExecutionPlan /\ r.status = "running" /\ r.attempt = c.attempt /\ r.jobs = J
  BY <1>1, <1>2, WithIsPlan DEF PlanStatuses
<1> HIDE DEF r
<1>6. InOrder(g) => RequirementsMet(g, r)
  BY <1>3, <1>5 DEF Fit, RequirementsMet, Attempted
<1>7. BlocksExplained(g, r)
  BY <1>3, <1>5 DEF Fit, BlocksExplained, Failing
<1>8. Fit(g, r)
  BY <1>5, <1>6, <1>7 DEF Fit, Verdict
<1>9. NoneRunning(r)
  BY <1>3, <1>5 DEF NoneRunning
<1>10. Phase(g, s, "check", "round", r, {})
  BY <1>5, <1>9 DEF Phase, At
<1> QED BY <1>4, <1>8, <1>10

\* A job that becomes running, or ends after it was, leaves the copy fit and
\* the other jobs of the batch free to start.
LEMMA StatusFits ==
  ASSUME NEW g, NEW c, NEW w, NEW j \in Jobs, NEW b \in SUBSET Jobs,
         Fit(g, c), w \in WorkerExecutionPlan, w.attempt = c.attempt,
         w.status \in {"running", "cancelled"},
         w.jobs[j] \in Answers \cup {"running"},
         \A k \in Jobs \ {j} : w.jobs[k] = c.jobs[k],
         c.jobs[j] = "running" \/ MayStart(g, c, j),
         \A k \in b : MayStart(g, c, k), j \notin b,
         NEW s, s # "none"
  PROVE  Fit(g, w) /\ Phase(g, s, "check", "gather", w, b)
<1>0. c \in WorkerExecutionPlan /\ \A k \in Jobs : c.jobs[k] \in JobStatuses
  BY PlanFields DEF Fit
<1>1. c.jobs[j] \in {"queued", "running"}
  BY DEF MayStart
<1>2. InOrder(g) => RequirementsMet(g, w)
  <2> SUFFICES ASSUME InOrder(g), NEW k \in Jobs, NEW d \in Jobs, <<k, d>> \in g.requires,
                      w.jobs[k] \in Attempted
               PROVE  w.jobs[d] \in {"succeeded", "cancelled"}
    BY DEF RequirementsMet
  <2>1. RequirementsMet(g, c)
    BY DEF Fit
  <2>2. c.jobs[d] \in {"succeeded", "cancelled"}
    BY <2>1 DEF RequirementsMet, Attempted, MayStart
  <2> QED BY <2>2, <1>1
<1>3. BlocksExplained(g, w)
  <2> SUFFICES ASSUME NEW k \in Jobs, w.jobs[k] = "blocked"
               PROVE  \E d \in Jobs : <<k, d>> \in g.requires /\ w.jobs[d] \in Failing
    BY DEF BlocksExplained
  <2>1. c.jobs[k] = "blocked"
    BY DEF Answers
  <2>2. PICK d \in Jobs : <<k, d>> \in g.requires /\ c.jobs[d] \in Failing
    BY <2>1 DEF Fit, BlocksExplained
  <2>3. d # j
    BY <2>2, <1>1 DEF Failing
  <2> QED BY <2>2, <2>3
<1>4. Fit(g, w)
  BY <1>2, <1>3 DEF Fit, Verdict
<1>5. \A k \in b : MayStart(g, w, k)
  <2> SUFFICES ASSUME NEW k \in b PROVE MayStart(g, w, k)
    OBVIOUS
  <2>1. k # j /\ k \in Jobs /\ MayStart(g, c, k)
    OBVIOUS
  <2> QED BY <2>1, <1>1 DEF MayStart
<1>6. Phase(g, s, "check", "gather", w, b)
  BY <1>5 DEF Phase, At
<1> QED BY <1>4, <1>6

\* One pass blocks exactly the queued jobs that a failed one blocks, once every
\* job comes after those it requires.
LEMMA BlockFits ==
  ASSUME NEW c, NEW B \in SUBSET Jobs, NEW w, NEW s, s # "none",
         Fit(graph, c), NoneRunning(c), IsBlockedPass(B, c.jobs),
         c.status \in {"running", "cancelled"},
         w \in WorkerExecutionPlan, w.attempt = c.attempt, w.status = c.status,
         \A j \in Jobs : w.jobs[j] = IF j \in B THEN "blocked" ELSE c.jobs[j]
  PROVE  /\ Fit(graph, w)
         /\ Phase(graph, s, "check", "dispatch", w, {})
         /\ Phase(graph, s, "dispatch", "dispatch", w, {})
<1>1. \A j \in B : c.jobs[j] = "queued"
  BY DEF IsBlockedPass
<1>2. InOrder(graph) => RequirementsMet(graph, w)
  BY <1>1 DEF Fit, RequirementsMet, Attempted
<1>3. BlocksExplained(graph, w)
  <2> SUFFICES ASSUME NEW j \in Jobs, w.jobs[j] = "blocked"
               PROVE  \E d \in Jobs : <<j, d>> \in graph.requires /\ w.jobs[d] \in Failing
    BY DEF BlocksExplained
  <2>1. PICK d \in Jobs : <<j, d>> \in graph.requires /\ (c.jobs[d] \in Failing \/ d \in B)
    <3>1. CASE j \in B
      BY <3>1 DEF IsBlockedPass
    <3>2. CASE c.jobs[j] = "blocked"
      BY <3>2 DEF Fit, BlocksExplained
    <3> QED BY <3>1, <3>2
  <2>2. w.jobs[d] \in Failing
    BY <2>1, <1>1 DEF Failing
  <2> QED BY <2>1, <2>2
<1>4. Fit(graph, w)
  BY <1>2, <1>3 DEF Fit, Verdict
<1>5. NoneRunning(w)
  BY DEF NoneRunning
<1>6. InOrder(graph) => AllBlocked(graph, w)
  <2> SUFFICES ASSUME InOrder(graph), NEW j \in Jobs, NEW d \in Jobs,
                      <<j, d>> \in graph.requires, w.jobs[j] = "queued"
               PROVE  w.jobs[d] \notin Failing
    BY DEF AllBlocked
  <2>1. d < j
    BY DEF InOrder, Dependencies, DependenciesIn
  <2>2. j \notin B /\ c.jobs[j] = "queued"
    OBVIOUS
  <2>3. c.jobs[d] \notin Failing /\ d \notin B
    BY <2>1, <2>2 DEF IsBlockedPass
  <2> QED BY <2>3
<1> QED BY <1>4, <1>5, <1>6 DEF Phase, At

\* What is ready may start, and if nothing is, every job has ended: of the jobs
\* that have not, one depends on none of the others.
LEMMA ReadyOrEnded ==
  ASSUME NEW c, NEW s, s # "none", Fit(graph, c),
         Acyclic(graph.requires \cup graph.advises),
         Phase(graph, s, "dispatch", "dispatch", c, {}), NEW n
  PROVE  /\ Ready(c.jobs) \subseteq Jobs
         /\ Ready(c.jobs) = {} => Phase(graph, s, "settle", n, c, {})
         /\ Phase(graph, s, "gather", n, c, Ready(c.jobs))
<1>1. NoneRunning(c) /\ (InOrder(graph) => AllBlocked(graph, c))
         /\ c.status \in {"running", "cancelled"}
  BY DEF Phase, At
<1>2. \A j \in Jobs : c.jobs[j] \in JobStatuses
  BY PlanFields DEF Fit
<1>3. \A j \in Ready(c.jobs) : MayStart(graph, c, j)
  <2> SUFFICES ASSUME NEW j \in Ready(c.jobs), InOrder(graph), NEW d \in Jobs,
                      <<j, d>> \in graph.requires
               PROVE  c.jobs[d] \in {"succeeded", "cancelled"}
    BY DEF Ready, MayStart
  <2>1. j \in Jobs /\ c.jobs[j] = "queued" /\ d \in Dependencies(graph, j)
    BY DEF Ready, Dependencies, DependenciesIn
  <2>2. c.jobs[d] \in TERMINAL_JOB_STATUSES /\ c.jobs[d] \notin Failing
    BY <2>1, <1>1 DEF Ready, AllBlocked
  <2> QED BY <2>2, <1>2 DEF TERMINAL_JOB_STATUSES, JobStatuses, Failing
<1>4. Ready(c.jobs) = {} => AllEnded(c)
  <2> DEFINE S == {j \in Jobs : c.jobs[j] \notin TERMINAL_JOB_STATUSES}
  <2> SUFFICES ASSUME S # {} PROVE Ready(c.jobs) # {}
    BY DEF AllEnded
  <2>1. PICK j \in S : DependenciesIn(graph.requires \cup graph.advises, j) \cap S = {}
    <3>1. S \in (SUBSET Jobs) \ {{}}
      OBVIOUS
    <3> QED BY <3>1 DEF Acyclic
  <2>2. c.jobs[j] = "queued"
    BY <1>1, <1>2 DEF NoneRunning, TERMINAL_JOB_STATUSES
  <2>3. \A d \in Dependencies(graph, j) : c.jobs[d] \in TERMINAL_JOB_STATUSES
    BY <2>1 DEF Dependencies, DependenciesIn
  <2> QED BY <2>2, <2>3 DEF Ready
<1>5. Ready(c.jobs) \subseteq Jobs
  BY DEF Ready
<1> QED BY <1>1, <1>3, <1>4, <1>5 DEF Phase, At

\* The verdict agrees with the jobs.  A plan that failed has a job that did: of
\* the jobs that are blocked one depends on none of the others.
LEMMA SettledFits ==
  ASSUME NEW c, NEW s, s # "none", Fit(graph, c), AllEnded(c),
         Acyclic(graph.requires \cup graph.advises), NEW w,
         w = With(c, VerdictOf(c.jobs), c.jobs)
  PROVE  Fit(graph, w) /\ Phase(graph, s, "check", "advance", w, {})
<1>1. c \in WorkerExecutionPlan /\ \A j \in Jobs : c.jobs[j] \in JobStatuses
  BY PlanFields DEF Fit
<1> DEFINE v == VerdictOf(c.jobs)
<1>2. /\ v \in {"cancelled", "succeeded", "partial", "failed"}
      /\ (v = "succeeded") => \A j \in Jobs : c.jobs[j] = "succeeded"
      /\ (v = "partial") => (\E j \in Jobs : c.jobs[j] = "partial")
                              /\ \A j \in Jobs : c.jobs[j] # "cancelled"
      /\ (v = "failed") => /\ \A j \in Jobs : c.jobs[j] \notin {"cancelled", "partial"}
                           /\ \E j \in Jobs : c.jobs[j] # "succeeded"
  BY DEF VerdictOf
<1> HIDE DEF v
<1>3. w \in WorkerExecutionPlan /\ w.status = v /\ w.jobs = c.jobs /\ w.attempt = c.attempt
  <2>1. v \in PlanStatuses /\ c.jobs \in [Jobs -> JobStatuses]
    BY <1>1, <1>2, PlanFields DEF PlanStatuses
  <2> QED BY <1>1, <2>1, WithIsPlan DEF v
<1>4. (v = "failed") => \E j \in Jobs : c.jobs[j] = "failed"
  <2> SUFFICES ASSUME v = "failed" PROVE \E j \in Jobs : c.jobs[j] = "failed"
    OBVIOUS
  <2> DEFINE S == {j \in Jobs : c.jobs[j] = "blocked"}
  <2>1. \A j \in Jobs : c.jobs[j] \in {"succeeded", "failed", "blocked"}
    BY <1>1, <1>2 DEF AllEnded, TERMINAL_JOB_STATUSES, JobStatuses
  <2>2. CASE S = {}
    BY <2>1, <2>2, <1>2
  <2>3. CASE S # {}
    <3>1. S \in (SUBSET Jobs) \ {{}}
      BY <2>3
    <3>2. PICK j \in S : DependenciesIn(graph.requires \cup graph.advises, j) \cap S = {}
      BY <3>1 DEF Acyclic
    <3>3. PICK d \in Jobs : <<j, d>> \in graph.requires /\ c.jobs[d] \in Failing
      BY DEF Fit, BlocksExplained
    <3>4. d \notin S
      BY <3>2, <3>3 DEF DependenciesIn
    <3> QED BY <3>3, <3>4, <2>1 DEF Failing
  <2> QED BY <2>2, <2>3
<1>5. Verdict(w)
  <2>1. \A j \in Jobs : c.jobs[j] \in TERMINAL_JOB_STATUSES
    BY DEF AllEnded
  <2> QED BY <1>1, <1>2, <1>3, <1>4, <2>1 DEF Verdict, TERMINAL_JOB_STATUSES, JobStatuses
<1>6. Fit(graph, w)
  BY <1>3, <1>5 DEF Fit, RequirementsMet, BlocksExplained
<1>7. w.status # "none"
  BY <1>2, <1>3
<1>8. Phase(graph, s, "check", "advance", w, {})
  BY <1>7 DEF Phase, At
<1> QED BY <1>6, <1>8

\* Cancelling ends the jobs that have not ended and no other.
LEMMA CancelledFits ==
  ASSUME NEW c, NEW s, s # "none", Fit(graph, c), NEW w,
         w \in WorkerExecutionPlan, w.attempt = c.attempt, w.status = "cancelled",
         \A j \in Jobs : w.jobs[j] = IF c.jobs[j] \in TERMINAL_JOB_STATUSES
                                     THEN c.jobs[j] ELSE "cancelled"
  PROVE  Fit(graph, w) /\ Phase(graph, s, "check", "advance", w, {})
<1>1. InOrder(graph) => RequirementsMet(graph, w)
  BY DEF Fit, RequirementsMet, Attempted, TERMINAL_JOB_STATUSES, JobStatuses
<1>2. BlocksExplained(graph, w)
  BY DEF Fit, BlocksExplained, Failing, TERMINAL_JOB_STATUSES, JobStatuses
<1>3. Verdict(w)
  BY DEF Verdict
<1> QED BY <1>1, <1>2, <1>3 DEF Fit, Phase, At

\* Queueing jobs again, with all the jobs that depend on them or with all that
\* are blocked, leaves what the others rest on as it was.
LEMMA ReopenedFits ==
  ASSUME NEW c, NEW s, s # "none", Fit(graph, c), NEW w, NEW I \in SUBSET Jobs, NEW n,
         w \in WorkerExecutionPlan, w.attempt <= MaxAttempt, w.status = "planned",
         \A j \in Jobs : w.jobs[j] = IF j \in I THEN "queued" ELSE c.jobs[j],
         \A j, d \in Jobs : (<<j, d>> \in graph.requires /\ d \in I /\ j \notin I) =>
                              /\ c.jobs[j] # "blocked"
                              /\ InOrder(graph) => c.jobs[j] \notin Attempted
  PROVE  Fit(graph, w) /\ Phase(graph, s, "reopen", n, w, {})
<1>1. InOrder(graph) => RequirementsMet(graph, w)
  <2> SUFFICES ASSUME InOrder(graph), NEW j \in Jobs, NEW d \in Jobs,
                      <<j, d>> \in graph.requires, w.jobs[j] \in Attempted
               PROVE  w.jobs[d] \in {"succeeded", "cancelled"}
    BY DEF RequirementsMet
  <2>1. j \notin I /\ c.jobs[j] \in Attempted
    BY DEF Attempted
  <2>2. d \notin I /\ c.jobs[d] \in {"succeeded", "cancelled"}
    BY <2>1 DEF Fit, RequirementsMet
  <2> QED BY <2>2
<1>2. BlocksExplained(graph, w)
  <2> SUFFICES ASSUME NEW j \in Jobs, w.jobs[j] = "blocked"
               PROVE  \E d \in Jobs : <<j, d>> \in graph.requires /\ w.jobs[d] \in Failing
    BY DEF BlocksExplained
  <2>1. j \notin I /\ c.jobs[j] = "blocked"
    OBVIOUS
  <2>2. PICK d \in Jobs : <<j, d>> \in graph.requires /\ c.jobs[d] \in Failing
    BY <2>1 DEF Fit, BlocksExplained
  <2> QED BY <2>1, <2>2
<1>3. Verdict(w)
  BY DEF Verdict
<1> QED BY <1>1, <1>2, <1>3 DEF Fit, Phase, At

-----------------------------------------------------------------------------
(* What a step of one call leaves alone. *)

\* The parts of the state that no copy is made of.
ProjectTyped ==
  /\ workflow \in States /\ moves \in Nat /\ spent \subseteq Keys
  /\ crashes \in 0..MaxCrashes

CallsTyped ==
  /\ call \in [Callers -> {"none", "execute", "cancel", "reset"}]
  /\ key \in [Callers -> Keys \cup {NoKey}]
  /\ registered \subseteq Callers /\ signalled \subseteq Callers

\* h is f, except that it holds v for caller p.
Alters(f, h, p, v) == h = [q \in Callers |-> IF q = p THEN v ELSE f[q]]

LEMMA AltersExcept ==
  ASSUME NEW p \in Callers, NEW S, NEW f \in [Callers -> S], NEW v
  PROVE  Alters(f, [f EXCEPT ![p] = v], p, v) /\ Alters(f, f, p, f[p])
  BY DEF Alters

LEMMA Typed == ASSUME Inv PROVE ProjectTyped /\ CallsTyped
  BY DEF Inv, TypeOK, ProjectTyped, CallsTyped

\* It is enough that the caller which takes a step keeps its own copy fit and
\* in phase, and that the record it may write is fit.
LEMMA StepOf ==
  ASSUME Inv, NEW p \in Callers, graph' = graph, ProjectTyped', CallsTyped',
         NEW l \in Phases, NEW n \in Phases, NEW c, NEW b \in SUBSET Jobs,
         Alters(pc, pc', p, l), Alters(next, next', p, n),
         Alters(plan, plan', p, c), Alters(batch, batch', p, b),
         Fit(graph, stored'),
         (stored.status # "none") => stored'.status # "none",
         (stored'.status = "none") => stored' = NoPlan,
         Fit(graph, c), Phase(graph, stored'.status, l, n, c, b)
  PROVE  Inv'
<1>1. \A q \in Callers : Fit(graph, plan'[q])
  BY DEF Inv, Alters
<1>2. \A q \in Callers : Phase(graph, stored'.status, pc'[q], next'[q], plan'[q], batch'[q])
  <2> SUFFICES ASSUME NEW q \in Callers, q # p
               PROVE  Phase(graph, stored'.status, pc'[q], next'[q], plan'[q], batch'[q])
    BY DEF Alters
  <2>1. pc'[q] = pc[q] /\ next'[q] = next[q] /\ plan'[q] = plan[q] /\ batch'[q] = batch[q]
    BY DEF Alters
  <2>2. Phase(graph, stored.status, pc[q], next[q], plan[q], batch[q])
    BY DEF Inv, InPhase
  <2> QED BY <2>1, <2>2 DEF Phase
<1>3. TypeOK'
  <2>1. pc' \in [Callers -> Phases] /\ next' \in [Callers -> Phases]
          /\ batch' \in [Callers -> SUBSET Jobs]
    BY DEF Inv, TypeOK, Alters
  <2>2. plan' \in [Callers -> WorkerExecutionPlan]
    BY <1>1 DEF Fit, Alters
  <2>3. stored' \in WorkerExecutionPlan /\ graph' \in Graph
    BY DEF Fit, Inv, TypeOK
  <2> QED BY <2>1, <2>2, <2>3 DEF TypeOK, ProjectTyped, CallsTyped
<1>4. GraphInv'
  BY DEF Inv, GraphInv
<1> QED BY <1>1, <1>2, <1>3, <1>4 DEF Inv, InPhase

\* What Inv says of one caller.
LEMMA Holds ==
  ASSUME Inv, NEW p \in Callers
  PROVE  /\ pc[p] \in Phases /\ next[p] \in Phases /\ batch[p] \in SUBSET Jobs
         /\ plan[p] \in WorkerExecutionPlan /\ stored \in WorkerExecutionPlan
         /\ Fit(graph, stored) /\ Fit(graph, plan[p])
         /\ Phase(graph, stored.status, pc[p], next[p], plan[p], batch[p])
         /\ (stored.status = "none") => stored = NoPlan
         /\ Acyclic(graph.requires \cup graph.advises)
  BY DEF Inv, InPhase, GraphInv, TypeOK

\* A call that ends, with the record as it was or rewritten.
LEMMA ReturnStep ==
  ASSUME Inv, NEW p \in Callers, Return(p), graph' = graph, ProjectTyped',
         Fit(graph, stored'),
         (stored.status # "none") => stored'.status # "none",
         (stored'.status = "none") => stored' = NoPlan
  PROVE  Inv'
<1>1. CallsTyped'
  BY Typed DEF Return, Goto, CallsTyped
<1>2. /\ Alters(pc, pc', p, "idle") /\ Alters(next, next', p, "idle")
      /\ Alters(plan, plan', p, NoPlan) /\ Alters(batch, batch', p, {})
  BY AltersExcept DEF Return, Goto, Inv, TypeOK
<1>3. Fit(graph, NoPlan) /\ Phase(graph, stored'.status, "idle", "idle", NoPlan, {})
  BY NoPlanFits, EmptyHanded
<1>4. "idle" \in Phases
  BY DEF Phases
<1>5. {} \in SUBSET Jobs
  OBVIOUS
<1> QED BY <1>1, <1>2, <1>3, <1>4, <1>5, StepOf

\* A call that goes on to phase l with copy c and batch b, to continue at n.
LEMMA GoOn ==
  ASSUME Inv, NEW p \in Callers, UNCHANGED <<stored, graph>>, ProjectTyped', CallsTyped',
         NEW l \in Phases, NEW n \in Phases, NEW c, NEW b \in SUBSET Jobs,
         Goto(p, l, c), Alters(next, next', p, n), Alters(batch, batch', p, b),
         Fit(graph, c), Phase(graph, stored.status, l, n, c, b)
  PROVE  Inv'
<1>1. Alters(pc, pc', p, l) /\ Alters(plan, plan', p, c)
  BY AltersExcept DEF Goto, Inv, TypeOK
<1>2. Fit(graph, stored') /\ (stored'.status = "none" => stored' = NoPlan)
        /\ stored'.status = stored.status
  BY Holds
<1> QED BY <1>1, <1>2, StepOf

\* A call that persists copy c and then continues at n.
LEMMA PersistStep ==
  ASSUME Inv, NEW p \in Callers, UNCHANGED <<stored, graph>>, ProjectTyped', CallsTyped',
         NEW n \in Phases, NEW c, NEW b \in SUBSET Jobs,
         Persisting(p, c, n), Alters(batch, batch', p, b),
         Fit(graph, c), Phase(graph, stored.status, "check", n, c, b)
  PROVE  Inv'
<1>1. Goto(p, "check", c) /\ Alters(next, next', p, n)
  BY AltersExcept DEF Persisting, Inv, TypeOK
<1>2. "check" \in Phases
  BY DEF Phases
<1> QED BY <1>1, <1>2, GoOn

-----------------------------------------------------------------------------
(* The steps. *)

LEMMA MoveTyped ==
  ASSUME ProjectTyped, NEW t \in States, NEW k \in Keys \cup {NoKey},
         TransitionTo(t, k) \/ TransitionRaises(t, k) \/ Workflow!Move(t, k),
         UNCHANGED crashes
  PROVE  ProjectTyped'
<1>1. CASE UNCHANGED workflowVars BY <1>1 DEF ProjectTyped, workflowVars
<1>2. ASSUME NEW u \in States, NEW m \in Keys \cup {NoKey}, Workflow!Move(u, m)
      PROVE  ProjectTyped'
  BY <1>2 DEF ProjectTyped, Workflow!Move
<1> QED BY <1>1, <1>2, ConstantsAssumption DEF TransitionTo, TransitionRaises

LEMMA InitInv == Init => Inv
<1> SUFFICES ASSUME Init PROVE Inv
  OBVIOUS
<1>1. NoPlan \in WorkerExecutionPlan /\ Fit(graph, NoPlan) /\ NoPlan.status = "none"
  BY NoPlanFits DEF Fit, NoPlan
<1>2. \A p \in Callers : Fit(graph, plan[p]) /\ InPhase(p)
  BY <1>1, EmptyHanded DEF Init, InPhase
<1>3. GraphInv
  BY <1>1 DEF Init, GraphInv, NoGraph, Acyclic, DependenciesIn
<1>4. TypeOK
  BY <1>1, ConstantsAssumption DEF Init, TypeOK, Graph, NoGraph, States, Phases, NoKey
<1> QED BY <1>1, <1>2, <1>3, <1>4 DEF Inv, Init

LEMMA CreateStep == ASSUME Inv, NEW g \in Graphs, CreatePlan(g) PROVE Inv'
<1>1. stored' = [status |-> "planned", jobs |-> [j \in Jobs |-> "queued"], attempt |-> 1]
  BY DEF CreatePlan, NoPlan
<1>2. stored' \in WorkerExecutionPlan /\ stored'.status = "planned" /\ stored'.attempt = 1
        /\ \A j \in Jobs : stored'.jobs[j] = "queued"
  BY <1>1 DEF WorkerExecutionPlan, PlanStatuses, JobStatuses
<1>3. Fit(g, stored')
  BY <1>2, ConstantsAssumption DEF Fit, RequirementsMet, Attempted, BlocksExplained, Verdict
<1>4. \A p \in Callers : plan[p] = NoPlan /\ batch[p] = {} /\ pc[p] = "idle"
  BY Holds DEF CreatePlan, Phase, At
<1>5. \A p \in Callers : Fit(g, plan'[p])
  BY <1>4, NoPlanFits DEF CreatePlan, callVars
<1>6. \A p \in Callers : InPhase(p)'
  BY <1>4, EmptyHanded DEF CreatePlan, callVars, InPhase
<1>7. GraphInv'
  BY <1>2 DEF CreatePlan, GraphInv
<1>8. TypeOK'
  BY <1>2, GraphsAssumption DEF CreatePlan, callVars, workflowVars, Inv, TypeOK
<1> QED BY <1>3, <1>5, <1>6, <1>7, <1>8 DEF Inv, CreatePlan

LEMMA CrashStep == ASSUME Inv, NEW S \in Servers, Crash(S) PROVE Inv'
<1>1. \A p \in Callers : \/ /\ pc'[p] = "idle" /\ plan'[p] = NoPlan /\ batch'[p] = {}
                         \/ /\ pc'[p] = pc[p] /\ plan'[p] = plan[p]
                            /\ batch'[p] = batch[p] /\ next'[p] = next[p]
  BY DEF Crash
<1>2. \A p \in Callers : Fit(graph, plan'[p])
  BY <1>1, NoPlanFits, Holds
<1>3. \A p \in Callers : Phase(graph, stored.status, pc'[p], next'[p], plan'[p], batch'[p])
  BY <1>1, EmptyHanded, Holds
<1>4. NoPlan \in WorkerExecutionPlan /\ crashes' \in 0..MaxCrashes
  BY NoPlanFits, ConstantsAssumption DEF Fit, Crash, Inv, TypeOK
<1>5. TypeOK'
  BY <1>4 DEF Crash, workflowVars, Inv, TypeOK, Phases
<1> QED BY <1>2, <1>3, <1>5 DEF Inv, GraphInv, InPhase, Crash

LEMMA CheckStep == ASSUME Inv, NEW p \in Callers, PersistCheck(p) PROVE Inv'
<1> USE DEF PersistCheck
<1>1. ProjectTyped'
  BY Typed DEF ProjectTyped, workflowVars
<1>2. CASE Return(p)
  BY <1>1, <1>2, Holds, ReturnStep
<1>3. CASE ~Return(p)
  <2>1. PICK l \in {"write", next[p]} : Goto(p, l, plan[p]) /\ (l = next[p] => next[p] # "idle")
    BY <1>3
  <2>2. Alters(next, next', p, next[p]) /\ Alters(batch, batch', p, batch[p])
    BY <1>3, AltersExcept DEF Inv, TypeOK
  <2>3. CallsTyped'
    BY <1>3, Typed DEF CallsTyped
  <2>4. Phase(graph, stored.status, l, next[p], plan[p], batch[p]) /\ l \in Phases
    BY <2>1, Holds DEF Phase, At, Phases
  <2> QED BY <1>1, <2>1, <2>2, <2>3, <2>4, Holds, GoOn
<1> QED BY <1>2, <1>3

LEMMA WriteStep == ASSUME Inv, NEW p \in Callers, PersistWrite(p) PROVE Inv'
<1> USE DEF PersistWrite
<1>1. ProjectTyped'
  BY Typed DEF ProjectTyped, workflowVars
<1>2. Fit(graph, stored') /\ stored'.status # "none"
  BY Holds DEF Phase
<1>3. CASE Return(p)
  BY <1>1, <1>2, <1>3, ReturnStep
<1>4. CASE ~Return(p)
  <2>1. /\ Alters(pc, pc', p, next[p]) /\ Alters(next, next', p, next[p])
        /\ Alters(plan, plan', p, plan[p]) /\ Alters(batch, batch', p, batch[p])
    <3>1. /\ pc' = [pc EXCEPT ![p] = next[p]] /\ plan' = [plan EXCEPT ![p] = plan[p]]
          /\ next' = next /\ batch' = batch
      BY <1>4 DEF Goto
    <3>2. /\ pc \in [Callers -> Phases] /\ next \in [Callers -> Phases]
          /\ plan \in [Callers -> WorkerExecutionPlan] /\ batch \in [Callers -> SUBSET Jobs]
      BY DEF Inv, TypeOK
    <3> HIDE DEF PersistWrite
    <3>3. Alters(pc, pc', p, next[p]) /\ Alters(plan, plan', p, plan[p])
      BY <3>1, <3>2, AltersExcept
    <3>4. Alters(next, next', p, next[p]) /\ Alters(batch, batch', p, batch[p])
      BY <3>1, <3>2, AltersExcept
    <3> QED BY <3>3, <3>4
  <2>2. CallsTyped'
    BY <1>4, Typed DEF CallsTyped
  <2>3. Phase(graph, stored'.status, next[p], next[p], plan[p], batch[p])
    BY <1>2, <1>4, Holds DEF Phase, At, Goto
  <2> QED BY <1>1, <1>2, <2>1, <2>2, <2>3, Holds, StepOf
<1> QED BY <1>3, <1>4

LEMMA ExecuteStep == ASSUME Inv, NEW p \in Callers, Execute(p) PROVE Inv'
<1> USE DEF Execute
<1>1. ProjectTyped' /\ CallsTyped' /\ stored.status # "none"
  BY Typed DEF ProjectTyped, CallsTyped, workflowVars, Launch, Attach
<1>2. /\ Alters(pc, pc', p, "load") /\ Alters(next, next', p, next[p])
      /\ Alters(plan, plan', p, plan[p]) /\ Alters(batch, batch', p, batch[p])
  BY AltersExcept DEF Inv, TypeOK
<1>3. Phase(graph, stored'.status, "load", next[p], plan[p], batch[p]) /\ "load" \in Phases
  BY <1>1, Holds DEF Phase, At, Phases
<1> QED BY <1>1, <1>2, <1>3, Holds, StepOf

LEMMA SignalStep == ASSUME Inv, NEW p \in Callers, SignalCancel(p) PROVE Inv'
<1> USE DEF SignalCancel
<1>1. ProjectTyped' /\ CallsTyped' /\ stored.status # "none"
  BY Typed DEF ProjectTyped, CallsTyped, workflowVars
<1>2. /\ Alters(pc, pc', p, "cancel") /\ Alters(next, next', p, next[p])
      /\ Alters(plan, plan', p, plan[p]) /\ Alters(batch, batch', p, batch[p])
  BY AltersExcept DEF Inv, TypeOK
<1>3. Phase(graph, stored'.status, "cancel", next[p], plan[p], batch[p]) /\ "cancel" \in Phases
  BY <1>1, Holds DEF Phase, At, Phases
<1> QED BY <1>1, <1>2, <1>3, Holds, StepOf

LEMMA LoadStep == ASSUME Inv, NEW p \in Callers, Load(p) PROVE Inv'
<1>0. ProjectTyped' /\ CallsTyped' /\ UNCHANGED <<stored, graph>>
  BY Typed DEF Load, ProjectTyped, CallsTyped, workflowVars
<1>1. pc[p] = "load" /\ stored.status # "none" /\ batch[p] = {}
  BY Holds DEF Load, Phase, At
<1>2. Alters(batch, batch', p, {})
  BY <1>1, AltersExcept DEF Load, Inv, TypeOK
<1>3. CASE stored.status \in TERMINAL_PLAN_STATUSES
  <2>1. Goto(p, "advance", stored) /\ Alters(next, next', p, next[p])
    BY <1>3, AltersExcept DEF Load, Inv, TypeOK
  <2>2. Phase(graph, stored.status, "advance", next[p], stored, {}) /\ "advance" \in Phases
    BY <1>1, Passing DEF Phases
  <2> QED BY <1>0, <1>2, <2>1, <2>2, Holds, GoOn
<1>4. CASE stored.status \notin TERMINAL_PLAN_STATUSES
  <2>1. Persisting(p, Resumed(stored), "round")
    BY <1>4 DEF Load
  <2>2. Fit(graph, Resumed(stored))
          /\ Phase(graph, stored.status, "check", "round", Resumed(stored), {})
    BY <1>1, Holds, ResumedFits
  <2>3. "round" \in Phases
    BY DEF Phases
  <2> QED BY <1>0, <1>2, <2>1, <2>2, <2>3, PersistStep
<1> QED BY <1>3, <1>4

LEMMA BlockStep == ASSUME Inv, NEW p \in Callers, Block(p) PROVE Inv'
<1>0. ProjectTyped' /\ CallsTyped' /\ UNCHANGED <<stored, graph>>
  BY Typed DEF Block, ProjectTyped, CallsTyped, workflowVars
<1>1. pc[p] = "round" /\ stored.status # "none" /\ batch[p] = {} /\ NoneRunning(plan[p])
        /\ plan[p].status \in {"running", "cancelled"}
  BY Holds DEF Block, Phase, At
<1>2. Alters(batch, batch', p, {})
  BY <1>1, AltersExcept DEF Block, Inv, TypeOK
<1> DEFINE J(B) == [j \in Jobs |-> IF j \in B THEN "blocked" ELSE plan[p].jobs[j]]
           W(B) == With(plan[p], plan[p].status, J(B))
<1>3. PICK B \in SUBSET Jobs :
        /\ IsBlockedPass(B, plan[p].jobs)
        /\ IF B = {} THEN Goto(p, "dispatch", plan[p]) /\ UNCHANGED next
                     ELSE Persisting(p, W(B), "dispatch")
  BY DEF Block
<1>4. CASE B = {}
  <2>1. Goto(p, "dispatch", plan[p]) /\ Alters(next, next', p, next[p])
    BY <1>3, <1>4, AltersExcept DEF Inv, TypeOK
  <2>2. Phase(graph, stored.status, "dispatch", "dispatch", plan[p], {})
    BY <1>1, <1>3, <1>4, Holds, BlockFits
  <2>3. Phase(graph, stored.status, "dispatch", next[p], plan[p], {}) /\ "dispatch" \in Phases
    BY <2>2 DEF Phase, At, Phases
  <2> QED BY <1>0, <1>2, <2>1, <2>3, Holds, GoOn
<1>5. CASE B # {}
  <2>1. Persisting(p, W(B), "dispatch") /\ "dispatch" \in Phases
    BY <1>3, <1>5 DEF Phases
  <2>2. plan[p] \in WorkerExecutionPlan /\ J(B) \in [Jobs -> JobStatuses]
    BY Holds, PlanFields DEF JobStatuses
  <2>3. /\ W(B) \in WorkerExecutionPlan /\ W(B).attempt = plan[p].attempt
        /\ W(B).status = plan[p].status /\ W(B).jobs = J(B)
    BY <2>2, PlanFields, WithIsPlan
  <2>4. \A j \in Jobs : W(B).jobs[j] = IF j \in B THEN "blocked" ELSE plan[p].jobs[j]
    BY <2>3
  <2> HIDE DEF W, J
  <2>5. Fit(graph, W(B)) /\ Phase(graph, stored.status, "check", "dispatch", W(B), {})
    BY <1>1, <1>3, <2>3, <2>4, Holds, BlockFits
  <2> QED BY <1>0, <1>2, <2>1, <2>5, PersistStep
<1> QED BY <1>4, <1>5

LEMMA DispatchStep == ASSUME Inv, NEW p \in Callers, Dispatch(p) PROVE Inv'
<1>0. ProjectTyped' /\ CallsTyped' /\ UNCHANGED <<stored, graph>>
  BY Typed DEF Dispatch, ProjectTyped, CallsTyped, workflowVars
<1> DEFINE R == Ready(plan[p].jobs)
           l == IF R = {} THEN "settle" ELSE "gather"
<1>1. /\ Phase(graph, stored.status, "dispatch", "dispatch", plan[p], {})
      /\ stored.status # "none"
  BY Holds DEF Dispatch, Phase, At
<1>2. R \subseteq Jobs /\ Phase(graph, stored.status, l, next[p], plan[p], R)
  BY <1>1, Holds, ReadyOrEnded
<1>3. batch' = [batch EXCEPT ![p] = R] /\ pc' = [pc EXCEPT ![p] = l]
  BY DEF Dispatch, Inv, TypeOK
<1>4. Goto(p, l, plan[p])
  <2>1. plan \in [Callers -> WorkerExecutionPlan] /\ plan' = plan
    BY DEF Dispatch, Inv, TypeOK
  <2>2. plan' = [plan EXCEPT ![p] = plan[p]]
    BY <2>1
  <2> QED BY <1>3, <2>2 DEF Goto
<1>5. l \in Phases
  BY DEF Phases
<1> HIDE DEF l, R
<1>6. Alters(batch, batch', p, R)
  <2>1. batch \in [Callers -> SUBSET Jobs]
    BY DEF Inv, TypeOK
  <2> QED BY <1>3, <2>1, AltersExcept
<1>7. Alters(next, next', p, next[p])
  BY AltersExcept DEF Dispatch, Inv, TypeOK
<1> QED BY <1>0, <1>2, <1>4, <1>5, <1>6, <1>7, Holds, GoOn

LEMMA StartStep == ASSUME Inv, NEW p \in Callers, StartJob(p) PROVE Inv'
<1>0. ProjectTyped' /\ CallsTyped' /\ UNCHANGED <<stored, graph>>
  BY Typed DEF StartJob, ProjectTyped, CallsTyped, workflowVars
<1>1. /\ pc[p] = "gather" /\ stored.status # "none"
      /\ plan[p].status \in {"running", "cancelled"}
      /\ batch[p] \subseteq Jobs /\ \A k \in batch[p] : MayStart(graph, plan[p], k)
  BY Holds DEF StartJob, Phase, At
<1> DEFINE w(j) == With(plan[p], plan[p].status, [plan[p].jobs EXCEPT ![j] = "running"])
<1>2. PICK j \in batch[p] : batch' = [batch EXCEPT ![p] = batch[p] \ {j}]
                              /\ Persisting(p, w(j), "gather")
  BY DEF StartJob, Inv, TypeOK
<1>3. plan[p] \in WorkerExecutionPlan /\ [plan[p].jobs EXCEPT ![j] = "running"] \in [Jobs -> JobStatuses]
  BY Holds, PlanFields DEF JobStatuses
<1>4. /\ w(j) \in WorkerExecutionPlan /\ w(j).attempt = plan[p].attempt
      /\ w(j).status = plan[p].status
      /\ w(j).jobs = [plan[p].jobs EXCEPT ![j] = "running"]
  BY <1>3, PlanFields, WithIsPlan
<1>5. /\ w(j).jobs[j] \in Answers \cup {"running"}
      /\ \A k \in Jobs \ {j} : w(j).jobs[k] = plan[p].jobs[k]
  BY <1>1, <1>3, <1>4, PlanFields
<1> HIDE DEF w
<1>6. batch[p] \ {j} \in SUBSET Jobs /\ j \in Jobs /\ j \notin batch[p] \ {j}
        /\ MayStart(graph, plan[p], j)
        /\ \A k \in batch[p] \ {j} : MayStart(graph, plan[p], k)
  BY <1>1, <1>2
<1>7. Fit(graph, w(j))
        /\ Phase(graph, stored.status, "check", "gather", w(j), batch[p] \ {j})
  <2> DEFINE b == batch[p] \ {j}
  <2>1. /\ b \in SUBSET Jobs /\ j \in Jobs /\ j \notin b
        /\ \A k \in b : MayStart(graph, plan[p], k)
    BY <1>6
  <2> HIDE DEF b
  <2>2. Fit(graph, w(j)) /\ Phase(graph, stored.status, "check", "gather", w(j), b)
    BY <1>1, <1>4, <1>5, <1>6, <2>1, Holds, StatusFits
  <2> QED BY <2>2 DEF b
<1>8. Alters(batch, batch', p, batch[p] \ {j}) /\ "gather" \in Phases
  BY <1>2, AltersExcept DEF Inv, TypeOK, Phases
<1> QED BY <1>0, <1>2, <1>6, <1>7, <1>8, PersistStep

LEMMA FinishStep ==
  ASSUME Inv, NEW p \in Callers, NEW j \in Jobs, NEW r \in Answers, FinishJob(p, j, r)
  PROVE  Inv'
<1>0. ProjectTyped' /\ CallsTyped' /\ UNCHANGED <<stored, graph>>
  BY Typed DEF FinishJob, ProjectTyped, CallsTyped, workflowVars
<1>1. /\ pc[p] = "gather" /\ stored.status # "none"
      /\ plan[p].status \in {"running", "cancelled"} /\ plan[p].jobs[j] = "running"
      /\ batch[p] \subseteq Jobs /\ \A k \in batch[p] : MayStart(graph, plan[p], k)
  BY Holds DEF FinishJob, Phase, At, Running
<1> DEFINE s == IF r = "cancelled" THEN "cancelled" ELSE plan[p].status
           w == With(plan[p], s, [plan[p].jobs EXCEPT ![j] = r])
<1>2. Persisting(p, w, "gather")
  BY DEF FinishJob
<1>3. /\ plan[p] \in WorkerExecutionPlan /\ s \in PlanStatuses /\ s \in {"running", "cancelled"}
      /\ [plan[p].jobs EXCEPT ![j] = r] \in [Jobs -> JobStatuses]
      /\ r \in Answers \cup {"running"}
  BY <1>1, Holds, PlanFields DEF JobStatuses, PlanStatuses, Answers
<1> HIDE DEF s
<1>4. /\ w \in WorkerExecutionPlan /\ w.attempt = plan[p].attempt /\ w.status = s
      /\ w.jobs = [plan[p].jobs EXCEPT ![j] = r]
  BY <1>3, WithIsPlan
<1>5. /\ w.jobs[j] \in Answers \cup {"running"}
      /\ \A k \in Jobs \ {j} : w.jobs[k] = plan[p].jobs[k]
  BY <1>3, <1>4, PlanFields
<1> HIDE DEF w
<1>6. j \notin batch[p]
  BY <1>1 DEF MayStart
<1>7. Fit(graph, w) /\ Phase(graph, stored.status, "check", "gather", w, batch[p])
  BY <1>1, <1>3, <1>4, <1>5, <1>6, Holds, StatusFits
<1>8. Alters(batch, batch', p, batch[p]) /\ "gather" \in Phases
  BY AltersExcept DEF FinishJob, Inv, TypeOK, Phases
<1> QED BY <1>0, <1>1, <1>2, <1>7, <1>8, PersistStep

LEMMA ReportStep == ASSUME Inv, NEW p \in Callers, ReportProgress(p) PROVE Inv'
<1>0. ProjectTyped' /\ CallsTyped' /\ UNCHANGED <<stored, graph>>
  BY Typed DEF ReportProgress, ProjectTyped, CallsTyped, workflowVars
<1>1. Persisting(p, plan[p], "gather") /\ Alters(batch, batch', p, batch[p]) /\ "gather" \in Phases
  BY AltersExcept DEF ReportProgress, Inv, TypeOK, Phases
<1>2. Phase(graph, stored.status, "check", "gather", plan[p], batch[p])
  BY Holds DEF ReportProgress, Phase, At
<1> QED BY <1>0, <1>1, <1>2, Holds, PersistStep

LEMMA EndRoundStep == ASSUME Inv, NEW p \in Callers, EndRound(p) PROVE Inv'
<1>0. ProjectTyped' /\ CallsTyped' /\ UNCHANGED <<stored, graph>>
  BY Typed DEF EndRound, ProjectTyped, CallsTyped, workflowVars
<1>1. /\ Goto(p, "round", plan[p]) /\ "round" \in Phases
      /\ Alters(next, next', p, next[p]) /\ Alters(batch, batch', p, batch[p])
  BY AltersExcept DEF EndRound, Inv, TypeOK, Phases
<1>2. Phase(graph, stored.status, "round", next[p], plan[p], batch[p])
  BY Holds DEF EndRound, Phase, At, Running, NoneRunning
<1> QED BY <1>0, <1>1, <1>2, Holds, GoOn

LEMMA SettleStep == ASSUME Inv, NEW p \in Callers, Settle(p) PROVE Inv'
<1>0. UNCHANGED <<stored, graph>> /\ ProjectTyped'
  BY Typed DEF Settle, ProjectTyped, workflowVars
<1>1. AllEnded(plan[p]) /\ stored.status # "none" /\ batch[p] = {}
  BY Holds DEF Settle, Phase, At
<1> DEFINE w == With(plan[p], VerdictOf(plan[p].jobs), plan[p].jobs)
<1>2. Persisting(p, w, "advance") /\ UNCHANGED <<call, batch, key, registered, signalled>>
  BY <1>1 DEF Settle, AllEnded
<1>3. CallsTyped'
  BY <1>2, Typed DEF CallsTyped
<1> HIDE DEF w
<1>4. Fit(graph, w) /\ Phase(graph, stored.status, "check", "advance", w, {})
  BY <1>1, Holds, SettledFits DEF w
<1>5. Alters(batch, batch', p, {}) /\ "advance" \in Phases
  BY <1>1, <1>2, AltersExcept DEF Inv, TypeOK, Phases
<1>6. {} \in SUBSET Jobs
  OBVIOUS
<1> QED BY <1>0, <1>2, <1>3, <1>4, <1>5, <1>6, PersistStep

LEMMA AdvanceStep == ASSUME Inv, NEW p \in Callers, Advance(p) PROVE Inv'
<1>1. plan[p].attempt \in 0..MaxAttempt
  BY Holds, PlanFields, ConstantsAssumption DEF Fit
<1>2. <<"terminal", plan[p].attempt, 0>> \in Keys /\ "awaiting_feedback" \in States
  BY <1>1, NumJobsAssumption DEF Keys, States
<1>3. ProjectTyped'
  BY <1>2, Typed, MoveTyped DEF Advance
<1> QED BY <1>3, Holds, ReturnStep DEF Advance

LEMMA UserStep == ASSUME Inv, NEW t \in UserTargets, UserMoves(t) PROVE Inv'
<1>1. t \in States
  BY ConstantsAssumption
<1>2. ProjectTyped'
  BY <1>1, Typed, MoveTyped DEF UserMoves
<1>3. TypeOK'
  BY <1>2 DEF UserMoves, callVars, Inv, TypeOK, ProjectTyped
<1> QED BY <1>3 DEF UserMoves, callVars, Inv, GraphInv, InPhase

LEMMA CancelStep == ASSUME Inv, NEW p \in Callers, Cancel(p) PROVE Inv'
<1>0. UNCHANGED <<stored, graph>> /\ ProjectTyped'
  BY Typed DEF Cancel, ProjectTyped, workflowVars
<1>1. CASE Return(p)
  BY <1>0, <1>1, Holds, ReturnStep
<1>2. CASE ~Return(p)
  <2>1. stored.status # "none" /\ batch[p] = {}
    BY Holds DEF Cancel, Phase, At
  <2> DEFINE J == [j \in Jobs |-> IF stored.jobs[j] \in TERMINAL_JOB_STATUSES
                                  THEN stored.jobs[j] ELSE "cancelled"]
             w == With(stored, "cancelled", J)
  <2>2. Persisting(p, w, "advance") /\ UNCHANGED <<call, batch, key, registered, signalled>>
    BY <1>2 DEF Cancel
  <2>3. CallsTyped'
    BY <2>2, Typed DEF CallsTyped
  <2>4. J \in [Jobs -> JobStatuses]
    BY Holds, PlanFields DEF JobStatuses
  <2>5. \A j \in Jobs : J[j] = IF stored.jobs[j] \in TERMINAL_JOB_STATUSES
                               THEN stored.jobs[j] ELSE "cancelled"
    OBVIOUS
  <2> HIDE DEF J
  <2>6. /\ w \in WorkerExecutionPlan /\ w.attempt = stored.attempt
        /\ w.status = "cancelled" /\ w.jobs = J
    BY <2>4, Holds, WithIsPlan DEF PlanStatuses
  <2> HIDE DEF w
  <2>7. Fit(graph, w) /\ Phase(graph, stored.status, "check", "advance", w, {})
    BY <2>1, <2>5, <2>6, Holds, CancelledFits
  <2>8. Alters(batch, batch', p, {}) /\ "advance" \in Phases
    BY <2>1, <2>2, AltersExcept DEF Inv, TypeOK, Phases
  <2>9. {} \in SUBSET Jobs
    OBVIOUS
  <2> QED BY <1>0, <2>2, <2>3, <2>7, <2>8, <2>9, PersistStep
<1> QED BY <1>1, <1>2

\* Both resets go on to reopen the workflow with a fit copy.
LEMMA ResetTo ==
  ASSUME Inv, NEW p \in Callers, NEW I \in SUBSET Jobs, NEW J \in [Jobs -> JobStatuses],
         pc[p] = "idle", stored.status # "none", stored.attempt < MaxAttempt,
         Goto(p, "reopen", [status |-> "planned", jobs |-> J, attempt |-> stored.attempt + 1]),
         UNCHANGED <<stored, graph, next, batch>>, ProjectTyped', CallsTyped',
         \A j \in Jobs : J[j] = IF j \in I THEN "queued" ELSE stored.jobs[j],
         \A j, d \in Jobs : (<<j, d>> \in graph.requires /\ d \in I /\ j \notin I) =>
                              /\ stored.jobs[j] # "blocked"
                              /\ InOrder(graph) => stored.jobs[j] \notin Attempted
  PROVE  Inv'
<1> DEFINE w == [status |-> "planned", jobs |-> J, attempt |-> stored.attempt + 1]
<1>1. w.status = "planned" /\ w.jobs = J /\ w.attempt = stored.attempt + 1
  OBVIOUS
<1>2. w \in WorkerExecutionPlan /\ w.attempt <= MaxAttempt
  BY Holds, PlanFields, ConstantsAssumption DEF WorkerExecutionPlan, PlanStatuses
<1>3. Goto(p, "reopen", w)
  OBVIOUS
<1> HIDE DEF w
<1>4. Fit(graph, w) /\ Phase(graph, stored.status, "reopen", next[p], w, {})
  BY <1>1, <1>2, Holds, ReopenedFits
<1>5. batch[p] = {}
  BY Holds DEF Phase, At
<1>6. /\ Alters(next, next', p, next[p]) /\ Alters(batch, batch', p, {})
      /\ "reopen" \in Phases
  <2>1. next \in [Callers -> Phases] /\ batch \in [Callers -> SUBSET Jobs]
    BY DEF Inv, TypeOK
  <2> QED BY <1>5, <2>1, AltersExcept DEF Phases
<1>7. {} \in SUBSET Jobs
  OBVIOUS
<1> QED BY <1>3, <1>4, <1>6, <1>7, Holds, GoOn

LEMMA KeyTyped ==
  ASSUME Inv, stored.attempt < MaxAttempt, NEW j \in Jobs
  PROVE  /\ <<"reset", stored.attempt + 1, 0>> \in Keys
         /\ <<"retry", stored.attempt + 1, j>> \in Keys
<1>1. stored.attempt + 1 \in 0..MaxAttempt
  BY PlanFields, ConstantsAssumption DEF Inv, TypeOK
<1>2. 0 \in 0..NumJobs /\ j \in 0..NumJobs
  BY NumJobsAssumption DEF Jobs
<1> QED BY <1>1, <1>2 DEF Keys

LEMMA ResetStep == ASSUME Inv, NEW p \in Callers, Reset(p) PROVE Inv'
<1> DEFINE I == {j \in Jobs : stored.jobs[j] \in {"partial", "failed", "blocked"}}
           J == Requeued(stored.jobs)
<1>1. <<"reset", stored.attempt + 1, 0>> \in Keys
  <2>1. 1 \in Jobs
    BY NumJobsAssumption DEF Jobs
  <2> QED BY <2>1, KeyTyped DEF Reset
<1>2. ProjectTyped' /\ CallsTyped' /\ UNCHANGED <<stored, graph, next, batch>>
  BY <1>1, Typed DEF Reset, Goto, ProjectTyped, CallsTyped, workflowVars
<1>3. J \in [Jobs -> JobStatuses]
        /\ \A j \in Jobs : J[j] = IF j \in I THEN "queued" ELSE stored.jobs[j]
  BY Holds, PlanFields DEF Requeued, JobStatuses
<1>4. /\ pc[p] = "idle" /\ stored.status # "none" /\ stored.attempt < MaxAttempt
      /\ Goto(p, "reopen", [status |-> "planned", jobs |-> J, attempt |-> stored.attempt + 1])
  BY DEF Reset
<1>5. \A j, d \in Jobs : (<<j, d>> \in graph.requires /\ d \in I /\ j \notin I) =>
                              /\ stored.jobs[j] # "blocked"
                              /\ InOrder(graph) => stored.jobs[j] \notin Attempted
  BY Holds DEF Fit, RequirementsMet
<1>6. I \in SUBSET Jobs
  OBVIOUS
<1> HIDE DEF I, J
<1> QED BY <1>2, <1>3, <1>4, <1>5, <1>6, ResetTo

LEMMA ResetJobStep ==
  ASSUME Inv, NEW p \in Callers, NEW r \in RetryTargets, ResetJob(p, r)
  PROVE  Inv'
<1>1. PICK I \in SUBSET Jobs :
        /\ IsInvalidated(I, r)
        /\ Goto(p, "reopen",
             [status |-> "planned",
              jobs |-> [c \in Jobs |-> IF c \in I THEN "queued" ELSE stored.jobs[c]],
              attempt |-> stored.attempt + 1])
  BY DEF ResetJob
<1> DEFINE J == [c \in Jobs |-> IF c \in I THEN "queued" ELSE stored.jobs[c]]
<1>2. r \in Jobs
  BY ConstantsAssumption
<1>3. <<"retry", stored.attempt + 1, r>> \in Keys
  BY <1>2, KeyTyped DEF ResetJob
<1>4. ProjectTyped' /\ CallsTyped' /\ UNCHANGED <<stored, graph, next, batch>>
  BY <1>3, Typed DEF ResetJob, Goto, ProjectTyped, CallsTyped, workflowVars
<1>5. J \in [Jobs -> JobStatuses]
        /\ \A j \in Jobs : J[j] = IF j \in I THEN "queued" ELSE stored.jobs[j]
  BY Holds, PlanFields DEF JobStatuses
<1>6. /\ pc[p] = "idle" /\ stored.status # "none" /\ stored.attempt < MaxAttempt
      /\ Goto(p, "reopen", [status |-> "planned", jobs |-> J, attempt |-> stored.attempt + 1])
  BY <1>1 DEF ResetJob
<1>7. \A j, d \in Jobs : (<<j, d>> \in graph.requires /\ d \in I) => j \in I
  BY <1>1 DEF IsInvalidated, Dependencies, DependenciesIn
<1> HIDE DEF J
<1> QED BY <1>4, <1>5, <1>6, <1>7, ResetTo

LEMMA ReopenStep == ASSUME Inv, NEW p \in Callers, Reopen(p) PROVE Inv'
<1>0. UNCHANGED <<stored, graph>>
  BY DEF Reopen
<1>1. ProjectTyped'
  <2>1. key[p] \in Keys \cup {NoKey} /\ "building" \in States
    BY DEF Inv, TypeOK, States
  <2> QED BY <2>1, Typed, MoveTyped DEF Reopen
<1>2. CASE Return(p)
  BY <1>0, <1>1, <1>2, Holds, ReturnStep
<1>3. CASE ~Return(p)
  <2>1. Persisting(p, plan[p], "idle") /\ UNCHANGED <<call, batch, key, registered, signalled>>
    BY <1>3 DEF Reopen
  <2>2. CallsTyped'
    BY <2>1, Typed DEF CallsTyped
  <2>3. stored.status # "none" /\ plan[p].status # "none" /\ batch[p] = {}
    BY Holds DEF Reopen, Phase, At
  <2>4. Phase(graph, stored.status, "check", "idle", plan[p], {}) /\ "idle" \in Phases
    BY <2>3, Passing DEF Phases
  <2>5. Alters(batch, batch', p, {})
    BY <2>1, <2>3, AltersExcept DEF Inv, TypeOK
  <2>6. {} \in SUBSET Jobs
    OBVIOUS
  <2> QED BY <1>0, <1>1, <2>1, <2>2, <2>4, <2>5, <2>6, Holds, PersistStep
<1> QED BY <1>2, <1>3

LEMMA StutterStep == ASSUME Inv, UNCHANGED vars PROVE Inv'
<1>1. TypeOK'
  BY DEF Inv, TypeOK, vars, workflowVars, callVars
<1> QED BY <1>1 DEF Inv, GraphInv, InPhase, vars, workflowVars, callVars

LEMMA NextInv == Inv /\ [Next]_vars => Inv'
<1> SUFFICES ASSUME Inv, [Next]_vars PROVE Inv'
  OBVIOUS
<1>1. CASE \E g \in Graphs : CreatePlan(g)
  BY <1>1, CreateStep
<1>2. ASSUME NEW p \in Callers,
             \/ Execute(p) \/ ReportProgress(p) \/ Executor(p) \/ Proceed(p)
             \/ SignalCancel(p) \/ Reset(p)
             \/ \E j \in RetryTargets : ResetJob(p, j)
      PROVE  Inv'
  <2>1. CASE Executor(p)
    BY <2>1, LoadStep, BlockStep, DispatchStep, StartStep, EndRoundStep, SettleStep,
       FinishStep DEF Executor
  <2>2. CASE Proceed(p)
    BY <2>2, CheckStep, WriteStep, AdvanceStep, CancelStep, ReopenStep DEF Proceed
  <2> QED BY <1>2, <2>1, <2>2, ExecuteStep, ReportStep, SignalStep, ResetStep, ResetJobStep
<1>3. CASE \E t \in UserTargets : UserMoves(t)
  BY <1>3, UserStep
<1>4. CASE \E S \in Servers : Crash(S)
  BY <1>4, CrashStep
<1>5. CASE UNCHANGED vars
  BY <1>5, StutterStep
<1> QED BY <1>1, <1>2, <1>3, <1>4, <1>5 DEF Next

THEOREM Invariance == Spec => []Inv
  BY InitInv, NextInv, PTL DEF Spec

-----------------------------------------------------------------------------
(* The properties. *)

\* Every step leaves the record, the workflow and every call of the plan
\* well-formed.
THEOREM PlanTypeCorrect == Spec => []TypeOK
<1>1. Inv => TypeOK
  BY DEF Inv
<1> QED BY <1>1, Invariance, PTL

LEMMA CopiesFit == ASSUME Inv, NEW c \in Copies PROVE Fit(graph, c)
  BY DEF Inv, Copies

\* A blocked job always has a required dependency that failed, whichever
\* executor, cancellation or reset wrote the record last.
THEOREM BlockedCorrect == Spec => []BlockedForCause
<1>1. Inv => BlockedForCause
  BY CopiesFit DEF BlockedForCause, Fit
<1> QED BY <1>1, Invariance, PTL

\* The status of a plan never contradicts the statuses of its jobs.
THEOREM VerdictsCorrect == Spec => []VerdictsAreEarned
<1>1. Inv => VerdictsAreEarned
  BY CopiesFit DEF VerdictsAreEarned, Fit
<1> QED BY <1>1, Invariance, PTL

\* execute never finds a round without a ready job while a job is unfinished:
\* the graph is acyclic and the pass over the jobs leaves none running.
THEOREM NeverStallsCorrect == Spec => []NeverStalls
<1>1. Inv => NeverStalls
  BY Holds DEF NeverStalls, Phase, AllEnded
<1> QED BY <1>1, Invariance, PTL

\* If every graph that is accepted lists a job after those it depends on, no
\* job is started before those it requires have succeeded or were cancelled.
THEOREM RequiredCorrect ==
  ASSUME \A g \in Graphs : Acyclic(g.requires \cup g.advises) => InOrder(g)
  PROVE  Spec => []RequiredSucceedFirst
<1>1. InOrder(NoGraph)
  BY DEF InOrder, NoGraph, Dependencies, DependenciesIn
<1>2. Inv => InOrder(graph)
  BY <1>1 DEF Inv, GraphInv
<1>3. Inv => RequiredSucceedFirst
  BY <1>2, CopiesFit DEF RequiredSucceedFirst, Fit
<1> QED BY <1>3, Invariance, PTL

-----------------------------------------------------------------------------
(* The ends that the record has shown, for any callers, servers and threads. *)

\* A step of caller p.
Acts(p) ==
  \/ Execute(p) \/ ReportProgress(p) \/ Executor(p) \/ Proceed(p)
  \/ SignalCancel(p) \/ Reset(p) \/ \E j \in RetryTargets : ResetJob(p, j)

\* Caller p is at phase l with copy c, to continue at n, and the others are
\* where they were.
Moves(p, l, n, c) ==
  /\ Alters(pc, pc', p, l) /\ Alters(next, next', p, n) /\ Alters(plan, plan', p, c)

\* Where the call of a step is afterwards.
LEMMA GotoIs ==
  ASSUME Inv, NEW p \in Callers, NEW l, NEW c, Goto(p, l, c), NEW n, Alters(next, next', p, n)
  PROVE  Moves(p, l, n, c)
BY AltersExcept DEF Inv, TypeOK, Goto, Moves

LEMMA StaysNext == ASSUME Inv, NEW p \in Callers, UNCHANGED next
                   PROVE  Alters(next, next', p, next[p])
BY AltersExcept DEF Inv, TypeOK

LEMMA PersistingIs ==
  ASSUME Inv, NEW p \in Callers, NEW n, NEW c, Persisting(p, c, n)
  PROVE  Moves(p, "check", n, c)
<1>1. Goto(p, "check", c) /\ Alters(next, next', p, n)
  BY AltersExcept DEF Persisting, Inv, TypeOK
<1> QED BY <1>1, GotoIs

LEMMA ReturnIs ==
  ASSUME Inv, NEW p \in Callers, Return(p)
  PROVE  Moves(p, "idle", "idle", NoPlan)
<1>1. Goto(p, "idle", NoPlan) /\ Alters(next, next', p, "idle")
  BY AltersExcept DEF Return, Inv, TypeOK
<1> QED BY <1>1, GotoIs

\* What the record shows is in the history.
RecordShown == EndedBy(stored) \subseteq ended

\* A call that is about to advance the workflow carries an attempt that the
\* record has shown as ended; one that will be, once it has persisted its copy,
\* carries a copy that is.
CopiesShown ==
  \A p \in Callers :
    /\ (pc[p] = "advance") => plan[p].attempt \in ended
    /\ (pc[p] \in {"check", "write"} /\ next[p] = "advance") =>
         plan[p].status \in TERMINAL_PLAN_STATUSES

\* No call reopens the workflow under the key of a terminal transition.
KeysApart == \A p \in Callers, n \in 0..MaxAttempt : key[p] # <<"terminal", n, 0>>

Shown == EndsAreRecorded /\ RecordShown /\ CopiesShown /\ KeysApart

Extends == ended' = ended \cup EndedBy(stored')

LEMMA EndsOf ==
  ASSUME NEW c, Fit(graph, c)
  PROVE  /\ c.attempt \in 0..MaxAttempt
         /\ (c.status \in TERMINAL_PLAN_STATUSES) => c.attempt \in EndedBy(c)
         /\ (c.status = "cancelled") => EndedBy(c) = 0..MaxAttempt
<1>1. c.attempt \in 0..MaxAttempt
  BY PlanFields, ConstantsAssumption DEF Fit
<1> QED BY <1>1 DEF EndedBy

LEMMA ShownStep ==
  ASSUME CopiesShown, Extends, NEW p \in Callers, NEW l, NEW n, NEW c, Moves(p, l, n, c),
         (l = "advance") => c.attempt \in ended',
         (l \in {"check", "write"} /\ n = "advance") => c.status \in TERMINAL_PLAN_STATUSES
  PROVE  CopiesShown'
BY DEF CopiesShown, Moves, Alters, Extends

LEMMA ActsShown ==
  ASSUME Inv, RecordShown, CopiesShown, Extends, NEW p \in Callers, Acts(p)
  PROVE  CopiesShown'
<1>0. /\ Alters(next, next, p, next[p]) /\ Alters(plan, plan, p, plan[p])
      /\ \A l : Alters(pc, [pc EXCEPT ![p] = l], p, l)
  BY AltersExcept DEF Inv, TypeOK
<1>1. CASE Execute(p) \/ SignalCancel(p) \/ Dispatch(p)
  <2>1. PICK l \in {"load", "cancel", "settle", "gather"} : pc' = [pc EXCEPT ![p] = l]
    BY <1>1 DEF Execute, SignalCancel, Dispatch
  <2>2. plan' = plan /\ next' = next BY <1>1 DEF Execute, SignalCancel, Dispatch
  <2>3. Moves(p, l, next[p], plan[p]) BY <1>0, <2>1, <2>2 DEF Moves
  <2> QED BY <2>1, <2>2, <2>3, ShownStep
<1>2. CASE ReportProgress(p) \/ StartJob(p) \/ \E j \in Jobs, r \in Answers : FinishJob(p, j, r)
  <2>1. PICK c : Persisting(p, c, "gather") BY <1>2 DEF ReportProgress, StartJob, FinishJob
  <2> QED BY <2>1, PersistingIs, ShownStep
<1>3. CASE EndRound(p) \/ Reset(p) \/ \E j \in RetryTargets : ResetJob(p, j)
  <2>0. \E l \in {"round", "reopen"} : \E c : Goto(p, l, c)
    BY <1>3 DEF EndRound, Reset, ResetJob
  <2>1. PICK l, c : l \in {"round", "reopen"} /\ Goto(p, l, c) BY <2>0
  <2>2. next' = next BY <1>3 DEF EndRound, Reset, ResetJob
  <2>3. Moves(p, l, next[p], c) BY <1>0, <2>1, <2>2, GotoIs
  <2> QED BY <2>1, <2>2, <2>3, ShownStep
<1>4. CASE Load(p)
  <2>1. CASE stored.status \in TERMINAL_PLAN_STATUSES
    <3>1. Goto(p, "advance", stored) /\ next' = next /\ stored' = stored
      BY <1>4, <2>1 DEF Load
    <3>2. Moves(p, "advance", next[p], stored) BY <1>0, <3>1, GotoIs
    <3>3. stored.attempt \in ended BY <2>1, Holds, EndsOf DEF RecordShown
    <3> QED BY <3>2, <3>3, ShownStep DEF Extends
  <2>2. CASE stored.status \notin TERMINAL_PLAN_STATUSES
    <3>1. Persisting(p, Resumed(stored), "round") BY <1>4, <2>2 DEF Load
    <3> QED BY <3>1, PersistingIs, ShownStep
  <2> QED BY <2>1, <2>2
<1>5. CASE Block(p)
  <2>1. \/ Goto(p, "dispatch", plan[p]) /\ UNCHANGED next
        \/ \E c : Persisting(p, c, "dispatch")
    BY <1>5 DEF Block
  <2>2. CASE Goto(p, "dispatch", plan[p]) /\ UNCHANGED next
    <3>1. Moves(p, "dispatch", next[p], plan[p]) BY <1>0, <2>2, GotoIs
    <3> QED BY <3>1, ShownStep
  <2>3. ASSUME NEW c, Persisting(p, c, "dispatch") PROVE CopiesShown'
    BY <2>3, PersistingIs, ShownStep
  <2> QED BY <2>1, <2>2, <2>3
<1>6. CASE Settle(p)
  <2> DEFINE w == With(plan[p], VerdictOf(plan[p].jobs), plan[p].jobs)
  <2>1. Return(p) \/ Persisting(p, w, "advance") BY <1>6 DEF Settle
  <2>2. w.status \in TERMINAL_PLAN_STATUSES BY DEF With, VerdictOf, TERMINAL_PLAN_STATUSES
  <2> HIDE DEF w
  <2>3. CASE Return(p) BY <2>3, ReturnIs, ShownStep
  <2>4. CASE Persisting(p, w, "advance") BY <2>2, <2>4, PersistingIs, ShownStep
  <2> QED BY <2>1, <2>3, <2>4
<1>7. CASE Cancel(p)
  <2>1. Return(p) \/ \E J : Persisting(p, With(stored, "cancelled", J), "advance")
    BY <1>7 DEF Cancel
  <2>2. CASE Return(p) BY <2>2, ReturnIs, ShownStep
  <2>3. ASSUME NEW J, Persisting(p, With(stored, "cancelled", J), "advance")
        PROVE  CopiesShown'
    <3>1. With(stored, "cancelled", J).status \in TERMINAL_PLAN_STATUSES
      BY DEF With, TERMINAL_PLAN_STATUSES
    <3> QED BY <2>3, <3>1, PersistingIs, ShownStep
  <2> QED BY <2>1, <2>2, <2>3
<1>8. CASE Advance(p) \/ Reopen(p)
  <2>1. Return(p) \/ Persisting(p, plan[p], "idle") BY <1>8 DEF Advance, Reopen
  <2>2. CASE Return(p) BY <2>2, ReturnIs, ShownStep
  <2>3. CASE Persisting(p, plan[p], "idle") BY <2>3, PersistingIs, ShownStep
  <2> QED BY <2>1, <2>2, <2>3
<1>9. CASE PersistCheck(p) \/ PersistWrite(p)
  <2>0. pc[p] \in {"check", "write"} BY <1>9 DEF PersistCheck, PersistWrite
  <2>1. CASE Return(p) BY <2>0, <2>1, ReturnIs, ShownStep
  <2>2. CASE PersistCheck(p) /\ ~Return(p)
    <3>1. /\ stored' = stored /\ next' = next
          /\ \/ stored.status = "cancelled" /\ Goto(p, next[p], plan[p])
             \/ Goto(p, "write", plan[p])
      BY <2>2 DEF PersistCheck
    <3>2. CASE stored.status = "cancelled" /\ Goto(p, next[p], plan[p])
      <4>1. Moves(p, next[p], next[p], plan[p]) BY <1>0, <3>1, <3>2, GotoIs
      <4>2. plan[p].attempt \in ended
        BY <3>2, Holds, EndsOf DEF RecordShown
      <4>3. next[p] = "advance" => plan[p].status \in TERMINAL_PLAN_STATUSES
        BY <2>0 DEF CopiesShown
      <4> QED BY <2>0, <4>1, <4>2, <4>3, ShownStep DEF Extends
    <3>3. CASE Goto(p, "write", plan[p])
      <4>1. Moves(p, "write", next[p], plan[p]) BY <1>0, <3>1, <3>3, GotoIs
      <4>2. next[p] = "advance" => plan[p].status \in TERMINAL_PLAN_STATUSES
        BY <2>0 DEF CopiesShown
      <4> QED BY <2>0, <4>1, <4>2, ShownStep
    <3> QED BY <3>1, <3>2, <3>3
  <2>3. CASE PersistWrite(p) /\ ~Return(p)
    <3>1. stored' = plan[p] /\ next' = next /\ Goto(p, next[p], plan[p])
      BY <2>3 DEF PersistWrite
    <3>2. Moves(p, next[p], next[p], plan[p]) BY <1>0, <3>1, GotoIs
    <3>3. next[p] = "advance" => plan[p].status \in TERMINAL_PLAN_STATUSES BY <2>0 DEF CopiesShown
    <3>4. (next[p] = "advance") => plan[p].attempt \in ended'
      BY <3>1, <3>3, Holds, EndsOf DEF Extends
    <3> QED BY <2>0, <3>2, <3>3, <3>4, ShownStep
  <2> QED BY <1>9, <2>1, <2>2, <2>3
<1> QED BY <1>1, <1>2, <1>3, <1>4, <1>5, <1>6, <1>7, <1>8, <1>9 DEF Acts, Executor, Proceed

\* A call that reopens the workflow spends a key of its own kind.
LEMMA KeysKept == ASSUME Inv, KeysApart, [Next]_vars PROVE KeysApart'
<1> DEFINE Apart(k) == \A n \in 0..MaxAttempt : k # <<"terminal", n, 0>>
<1>1. Apart(NoKey) /\ \A n, j : Apart(<<"reset", n, j>>) /\ Apart(<<"retry", n, j>>)
  BY DEF NoKey
<1>2. \A p \in Callers : Apart(key[p])
  BY DEF KeysApart
<1>3. key \in [Callers -> Keys \cup {NoKey}]
  BY DEF Inv, TypeOK
<1> HIDE DEF Apart
<1>4. ASSUME NEW p \in Callers, NEW k, key' = [key EXCEPT ![p] = k], Apart(k)
      PROVE  \A q \in Callers : Apart(key'[q])
  BY <1>2, <1>3, <1>4
<1>5. \A q \in Callers : Apart(key'[q])
  <2>1. CASE UNCHANGED key
    BY <1>2, <2>1
  <2>2. ASSUME NEW p \in Callers, Return(p) PROVE \A q \in Callers : Apart(key'[q])
    BY <1>1, <1>4, <2>2 DEF Return
  <2>3. ASSUME NEW p \in Callers, Reset(p) PROVE \A q \in Callers : Apart(key'[q])
    BY <1>1, <1>4, <2>3 DEF Reset
  <2>4. ASSUME NEW p \in Callers, NEW j \in RetryTargets, ResetJob(p, j)
        PROVE  \A q \in Callers : Apart(key'[q])
    BY <1>1, <1>4, <2>4 DEF ResetJob
  <2>5. ASSUME NEW S \in Servers, Crash(S) PROVE \A q \in Callers : Apart(key'[q])
    BY <1>1, <1>2, <2>5 DEF Crash
  <2>6. \/ UNCHANGED key \/ \E p \in Callers : Return(p) \/ Reset(p)
        \/ \E p \in Callers, j \in RetryTargets : ResetJob(p, j)
        \/ \E S \in Servers : Crash(S)
    BY DEF Next, Executor, Proceed, CreatePlan, PersistCheck, PersistWrite, Execute, Load, Block,
       Dispatch, StartJob, ReportProgress, FinishJob, EndRound, Settle, Advance, UserMoves,
       SignalCancel, Cancel, Reopen, vars, callVars
  <2> QED BY <2>1, <2>2, <2>3, <2>4, <2>5, <2>6
<1> QED BY <1>5 DEF KeysApart, Apart

\* Only the end of a call spends the key of a terminal transition.
LEMMA SpentShown ==
  ASSUME Inv, Shown, Extends, [Next]_vars PROVE EndsAreRecorded'
<1> SUFFICES ASSUME NEW n \in 0..MaxAttempt, <<"terminal", n, 0>> \in spent'
             PROVE  n \in ended
  BY DEF EndsAreRecorded, Extends
<1> DEFINE k == <<"terminal", n, 0>>
<1>1. CASE k \in spent
  BY <1>1 DEF Shown, EndsAreRecorded
<1>2. CASE k \notin spent
  <2>1. ASSUME NEW p \in Callers, Advance(p) PROVE n \in ended
    <3>1. spent' \subseteq spent \cup {<<"terminal", plan[p].attempt, 0>>, NoKey}
      BY <2>1 DEF Advance, TransitionTo, TransitionRaises, workflowVars, Workflow!Move
    <3>2. n = plan[p].attempt
      BY <1>2, <3>1 DEF NoKey
    <3> QED BY <2>1, <3>2 DEF Advance, Shown, CopiesShown
  <2>2. ASSUME NEW p \in Callers, Reopen(p) PROVE FALSE
    <3>1. spent' \subseteq spent \cup {key[p], NoKey}
      BY <2>2 DEF Reopen, TransitionTo, TransitionRaises, workflowVars, Workflow!Move
    <3> QED BY <1>2, <3>1 DEF Shown, KeysApart, NoKey
  <2>3. ASSUME NEW t \in UserTargets, UserMoves(t) PROVE FALSE
    BY <1>2, <2>3 DEF UserMoves, Workflow!Move, NoKey
  <2>4. \/ \E p \in Callers : Advance(p) \/ Reopen(p)
        \/ \E t \in UserTargets : UserMoves(t)
        \/ UNCHANGED spent
    BY DEF Next, Executor, Proceed, CreatePlan, PersistCheck, PersistWrite, Execute, Load, Block,
       Dispatch, StartJob, ReportProgress, FinishJob, EndRound, Settle, SignalCancel, Cancel,
       Reset, ResetJob, Crash, vars, workflowVars
  <2> QED BY <1>2, <2>1, <2>2, <2>3, <2>4
<1> QED BY <1>1, <1>2

LEMMA ShownKept == Inv /\ Shown /\ [HistoryNext]_<<vars, ended>> => Shown'
<1> SUFFICES ASSUME Inv, Shown, [HistoryNext]_<<vars, ended>> PROVE Shown'
  OBVIOUS
<1>1. Extends /\ [Next]_vars
  <2>1. CASE HistoryNext BY <2>1 DEF HistoryNext, Extends
  <2>2. CASE UNCHANGED <<vars, ended>>
    <3>1. stored' = stored /\ ended' = ended BY <2>2 DEF vars
    <3>2. EndedBy(stored') \subseteq ended BY <3>1 DEF Shown, RecordShown
    <3> QED BY <2>2, <3>1, <3>2 DEF Extends
  <2> QED BY <2>1, <2>2
<1>2. RecordShown' BY <1>1 DEF Extends, RecordShown
<1>3. CopiesShown'
  <2>1. CASE \E p \in Callers : Acts(p) BY <1>1, <2>1, ActsShown DEF Shown
  <2>2. CASE (\E g \in Graphs : CreatePlan(g)) \/ (\E t \in UserTargets : UserMoves(t))
               \/ UNCHANGED vars
    <3>1. UNCHANGED <<pc, next, plan>> BY <2>2 DEF CreatePlan, UserMoves, vars, callVars
    <3> QED BY <1>1, <3>1 DEF Shown, CopiesShown, Extends
  <2>3. CASE \E S \in Servers : Crash(S)
    <3>1. \A p \in Callers : pc'[p] = "idle" \/
            (pc'[p] = pc[p] /\ next'[p] = next[p] /\ plan'[p] = plan[p])
      BY <2>3 DEF Crash
    <3> QED BY <1>1, <3>1 DEF Shown, CopiesShown, Extends
  <2> QED BY <1>1, <2>1, <2>2, <2>3 DEF Next, Acts
<1>4. KeysApart' BY <1>1, KeysKept DEF Shown
<1>5. EndsAreRecorded' BY <1>1, SpentShown
<1> QED BY <1>2, <1>3, <1>4, <1>5 DEF Shown

\* The workflow never runs ahead of the record, whichever servers, threads and
\* requests write it: a terminal transition is made only for an attempt that a
\* record has shown as ended, or after one has shown the plan cancelled.
THEOREM EndsCorrect == HistorySpec => []EndsAreRecorded
<1>1. HistoryInit => Inv /\ Shown
  <2> SUFFICES ASSUME HistoryInit PROVE Inv /\ Shown OBVIOUS
  <2>1. Inv BY InitInv DEF HistoryInit
  <2>2. EndedBy(stored) = {}
    BY DEF HistoryInit, Init, EndedBy, NoPlan, TERMINAL_PLAN_STATUSES
  <2> QED BY <2>1, <2>2 DEF HistoryInit, Init, Shown, EndsAreRecorded, RecordShown, CopiesShown,
       KeysApart, NoKey
<1>2. [HistoryNext]_<<vars, ended>> => [Next]_vars
  BY DEF HistoryNext
<1>3. Shown => EndsAreRecorded
  BY DEF Shown
<1> QED BY <1>1, <1>2, <1>3, NextInv, ShownKept, PTL DEF HistorySpec

-----------------------------------------------------------------------------
(* One loop.  Where one server handles every call of the plan without a    *)
(* detached thread, the calls interleave only while an executor awaits its *)
(* workers: whatever a call has read of the record since then still stands *)
(* when it writes.                                                         *)

OneLoop == Detached = {} /\ \E S : Servers = {S}

\* At most one call is at neither end nor waiting for workers.
Alone ==
  \A p, q \in Callers : p # q => pc[p] \in {"idle", "gather"} \/ pc[q] \in {"idle", "gather"}

LEMMA LoopIsAll == ASSUME OneLoop, NEW p \in Callers
  PROVE  Server(p) = Callers /\ Loop(p) = Callers
<1>1. PICK S : Servers = {S} BY DEF OneLoop
<1>2. Callers = S BY <1>1 DEF Callers
<1>3. Server(p) = S BY <1>1, <1>2 DEF Server
<1> QED BY <1>2, <1>3 DEF OneLoop, Loop

LEMMA TurnIs ==
  ASSUME OneLoop, NEW p \in Callers, Turn(p)
  PROVE  \A q \in Callers \ {p} : pc[q] \in {"idle", "gather"}
BY LoopIsAll DEF Turn

LEMMA AloneStep ==
  ASSUME OneLoop, NEW p \in Callers, Turn(p), NEW l, Alters(pc, pc', p, l)
  PROVE  Alone'
<1>1. \A q \in Callers \ {p} : pc'[q] \in {"idle", "gather"} BY TurnIs DEF Alters
<1> QED BY <1>1 DEF Alone

\* A step of one call leaves the others where they are, and a crash ends them
\* all.
LEMMA AloneKept == OneLoop /\ Inv /\ Alone /\ [Next]_vars => Alone'
<1> SUFFICES ASSUME OneLoop, Inv, Alone, [Next]_vars PROVE Alone'
  OBVIOUS
<1>1. ASSUME NEW p \in Callers, Acts(p) PROVE Alone'
  <2>1. Turn(p) /\ \E l : pc' = [pc EXCEPT ![p] = l]
    BY <1>1 DEF Acts, Executor, Proceed, Execute, ReportProgress, Load, Block, Dispatch,
       StartJob, EndRound, Settle, FinishJob, PersistCheck, PersistWrite, Advance, Cancel,
       Reopen, SignalCancel, Reset, ResetJob, Persisting, Return, Goto
  <2>2. PICK l : pc' = [pc EXCEPT ![p] = l] BY <2>1
  <2>3. pc \in [Callers -> Phases] BY DEF Inv, TypeOK
  <2>4. Alters(pc, pc', p, l) BY <2>2, <2>3, AltersExcept
  <2> QED BY <2>1, <2>4, AloneStep
<1>2. CASE \E g \in Graphs : CreatePlan(g)
  BY <1>2 DEF CreatePlan, callVars, Alone
<1>3. CASE (\E t \in UserTargets : UserMoves(t)) \/ UNCHANGED vars
  BY <1>3 DEF UserMoves, vars, callVars, Alone
<1>4. CASE \E S \in Servers : Crash(S)
  <2>1. PICK S \in Servers : Crash(S) BY <1>4
  <2>2. S = Callers BY DEF OneLoop, Callers
  <2>3. \A p \in Callers : pc'[p] = "idle" BY <2>1, <2>2 DEF Crash
  <2> QED BY <2>3 DEF Alone
<1> QED BY <1>1, <1>2, <1>3, <1>4 DEF Next, Acts

-----------------------------------------------------------------------------
(* The record of the plan under one loop.                                  *)

\* Copy c keeps what record s shows of the jobs that have finished.
Keeps(c, s) ==
  /\ c.attempt = s.attempt
  /\ \A j \in Jobs : s.jobs[j] \in Plan!Finished => c.jobs[j] = s.jobs[j]

Unended == {"planned", "running"}

\* What an executor that has loaded the record may write next.
MayWrite(s, n, c) ==
  /\ Keeps(c, s)
  /\ n \in {"round", "dispatch", "gather", "advance"}
  /\ (n = "round") => s.status \in Unended /\ c.status = "running"
  /\ (n \in {"dispatch", "gather"}) => s.status \in {"running", "cancelled"}
  /\ (n = "advance") =>
       \/ s.status = "cancelled"
       \/ s.status = "running" /\ c.status = "cancelled"
       \/ /\ s.status = "running" /\ AllEnded(s)
          /\ c = [s EXCEPT !.status = VerdictOf(s.jobs)]

\* The record is the copy of the executor, or was cancelled since.
Matches(s, c) == s = c \/ (s.status = "cancelled" /\ Keeps(c, s))

\* A call of kind k at phase l, with n to follow and copy c, over record s.
CallFits(k, s, l, n, c) ==
  /\ (k = "none") <=> (l = "idle")
  /\ (l = "write" /\ s.status = "cancelled") => c.status = "cancelled"
  /\ (k = "execute") =>
       /\ l \in {"load", "round", "dispatch", "gather", "settle", "advance", "check", "write"}
       /\ (l \in {"round", "dispatch", "gather", "settle"}) => Matches(s, c)
       /\ (l \in {"check", "write"}) => MayWrite(s, n, c)
  /\ (k = "cancel") =>
       /\ l \in {"cancel", "advance", "check", "write"}
       /\ (l \in {"check", "write"}) =>
            /\ n = "advance" /\ s.status \in Unended /\ c.status = "cancelled" /\ Keeps(c, s)
            /\ \A j \in Jobs : c.jobs[j] \in {s.jobs[j], "cancelled"}
  /\ (k = "reset") =>
       /\ l \in {"reopen", "check", "write"}
       /\ (l # "reopen") => n = "idle"
       /\ s.status \in {"failed", "partial"}
       /\ c = [status |-> "planned", jobs |-> Requeued(s.jobs), attempt |-> s.attempt + 1]

CallsFit == \A p \in Callers : CallFits(call[p], stored, pc[p], next[p], plan[p])

OneExecutor ==
  /\ \A p \in Callers : (call[p] = "execute") => p \in registered
  /\ \A p, q \in registered : p = q

LoopInv == Inv /\ Alone /\ CallsFit /\ OneExecutor

\* What the invariant says of caller p.
LEMMA LoopHolds ==
  ASSUME LoopInv, NEW p \in Callers
  PROVE  /\ CallFits(call[p], stored, pc[p], next[p], plan[p])
         /\ call[p] \in {"none", "execute", "cancel", "reset"}
         /\ pc[p] \in {"load", "round", "dispatch", "gather", "settle"} => call[p] = "execute"
         /\ (pc[p] = "cancel") => call[p] = "cancel"
         /\ (pc[p] = "reopen") => call[p] = "reset"
         /\ (pc[p] \in {"check", "write"}) => call[p] \in {"execute", "cancel", "reset"}
<1>1. CallFits(call[p], stored, pc[p], next[p], plan[p]) BY DEF LoopInv, CallsFit
<1>2. call[p] \in {"none", "execute", "cancel", "reset"} BY DEF LoopInv, Inv, TypeOK
<1> QED BY <1>1, <1>2 DEF CallFits

\* A caller that goes on over an unchanged record: the others fit as before.
LEMMA FitsOn ==
  ASSUME LoopInv, NEW p \in Callers, UNCHANGED stored, NEW k, NEW l, NEW n, NEW c,
         Moves(p, l, n, c), Alters(call, call', p, k), CallFits(k, stored, l, n, c)
  PROVE  CallsFit'
BY DEF Moves, Alters, LoopInv, CallsFit

LEMMA SameCall == ASSUME LoopInv, NEW p \in Callers, UNCHANGED call
                  PROVE  Alters(call, call', p, call[p])
BY AltersExcept DEF LoopInv, Inv, TypeOK

LEMMA SameExecutor == ASSUME LoopInv, UNCHANGED <<call, registered>> PROVE OneExecutor'
BY DEF LoopInv, OneExecutor

LEMMA ReturnFits ==
  ASSUME LoopInv, NEW p \in Callers, UNCHANGED stored, Return(p)
  PROVE  CallsFit' /\ OneExecutor'
<1>1. Moves(p, "idle", "idle", NoPlan) BY ReturnIs DEF LoopInv
<1>2. Alters(call, call', p, "none") BY AltersExcept DEF Return, LoopInv, Inv, TypeOK
<1>3. CallFits("none", stored, "idle", "idle", NoPlan) BY DEF CallFits
<1>4. OneExecutor' BY <1>2 DEF Return, Alters, LoopInv, OneExecutor
<1> QED BY <1>1, <1>2, <1>3, <1>4, FitsOn

LEMMA PersistFits ==
  ASSUME LoopInv, NEW p \in Callers, NEW n, NEW c, UNCHANGED <<stored, call, registered>>,
         Persisting(p, c, n), CallFits(call[p], stored, "check", n, c)
  PROVE  CallsFit' /\ OneExecutor'
<1>1. Moves(p, "check", n, c) BY PersistingIs DEF LoopInv
<1> QED BY <1>1, SameCall, SameExecutor, FitsOn

LEMMA GotoFits ==
  ASSUME LoopInv, NEW p \in Callers, NEW l, NEW c, UNCHANGED <<stored, next, call, registered>>,
         Goto(p, l, c), CallFits(call[p], stored, l, next[p], c)
  PROVE  CallsFit' /\ OneExecutor'
<1>1. Moves(p, l, next[p], c) BY GotoIs, StaysNext DEF LoopInv
<1> QED BY <1>1, SameCall, SameExecutor, FitsOn

\* An executor that changes only jobs that have not finished may write them.
LEMMA MayWriteWork ==
  ASSUME NEW s, NEW c, NEW w, NEW n \in {"dispatch", "gather"}, Matches(s, c),
         c.status \in {"running", "cancelled"}, w.attempt = c.attempt,
         \A j \in Jobs : c.jobs[j] \in Plan!Finished => w.jobs[j] = c.jobs[j]
  PROVE  MayWrite(s, n, w)
BY DEF Matches, MayWrite, Keeps

LEMMA ExecutorCheck ==
  ASSUME NEW s, NEW n, NEW c, MayWrite(s, n, c)
  PROVE  CallFits("execute", s, "check", n, c)
BY DEF CallFits

LEMMA ExecutorPhase ==
  ASSUME NEW s, NEW n, NEW c, Matches(s, c), NEW l \in {"round", "dispatch", "gather", "settle"}
  PROVE  CallFits("execute", s, l, n, c)
BY DEF CallFits

-----------------------------------------------------------------------------
(* The steps of an executor. *)

LEMMA LoadFits ==
  ASSUME LoopInv, NEW p \in Callers, Load(p) PROVE CallsFit' /\ OneExecutor'
<1>0. Inv /\ pc[p] = "load" /\ call[p] = "execute" /\ UNCHANGED <<stored, call, registered>>
  BY LoopHolds DEF Load, LoopInv
<1>1. CASE stored.status \in TERMINAL_PLAN_STATUSES
  <2>1. Goto(p, "advance", stored) /\ UNCHANGED next BY <1>1 DEF Load
  <2>2. CallFits("execute", stored, "advance", next[p], stored) BY DEF CallFits
  <2> QED BY <1>0, <2>1, <2>2, GotoFits
<1>2. CASE stored.status \notin TERMINAL_PLAN_STATUSES
  <2> DEFINE r == Resumed(stored)
  <2>1. Persisting(p, r, "round") BY <1>2 DEF Load
  <2>2. stored.status \in Unended
    <3>1. stored.status \in PlanStatuses /\ stored.status # "none"
      BY <1>0, Holds, PlanFields DEF Phase
    <3> QED BY <1>2, <3>1 DEF PlanStatuses, TERMINAL_PLAN_STATUSES, Unended
  <2>3. r.status = "running" /\ Keeps(r, stored)
    BY DEF Resumed, With, Keeps, Plan!Finished
  <2> HIDE DEF r
  <2>4. MayWrite(stored, "round", r) BY <2>2, <2>3 DEF MayWrite
  <2> QED BY <1>0, <2>1, <2>4, ExecutorCheck, PersistFits
<1> QED BY <1>1, <1>2

\* What an executor that has loaded the plan knows of its copy.
LEMMA Executes ==
  ASSUME LoopInv, NEW p \in Callers, pc[p] \in {"round", "dispatch", "gather", "settle"}
  PROVE  /\ Matches(stored, plan[p]) /\ call[p] = "execute"
         /\ plan[p].status \in {"running", "cancelled"}
         /\ plan[p] \in WorkerExecutionPlan
<1>1. Phase(graph, stored.status, pc[p], next[p], plan[p], batch[p])
        /\ plan[p] \in WorkerExecutionPlan
  BY Holds DEF LoopInv
<1>2. plan[p].status \in {"running", "cancelled"} BY <1>1 DEF Phase, At
<1> QED BY <1>1, <1>2, LoopHolds DEF CallFits

LEMMA BlockKeeps ==
  ASSUME LoopInv, NEW p \in Callers, Block(p) PROVE CallsFit' /\ OneExecutor'
<1>0. pc[p] = "round" /\ UNCHANGED <<stored, call, registered>> BY DEF Block
<1> DEFINE W(B) == With(plan[p], plan[p].status,
                        [j \in Jobs |-> IF j \in B THEN "blocked" ELSE plan[p].jobs[j]])
<1>1. PICK B \in SUBSET Jobs :
        /\ IsBlockedPass(B, plan[p].jobs)
        /\ IF B = {} THEN Goto(p, "dispatch", plan[p]) /\ UNCHANGED next
                     ELSE Persisting(p, W(B), "dispatch")
  BY DEF Block
<1>2. Matches(stored, plan[p]) /\ call[p] = "execute"
        /\ plan[p].status \in {"running", "cancelled"}
  BY <1>0, Executes
<1>3. CASE B = {}
  <2>1. Goto(p, "dispatch", plan[p]) /\ UNCHANGED next BY <1>1, <1>3
  <2> QED BY <1>0, <1>2, <2>1, ExecutorPhase, GotoFits
<1>4. CASE B # {}
  <2>1. Persisting(p, W(B), "dispatch") BY <1>1, <1>4
  <2>2. W(B).attempt = plan[p].attempt
          /\ \A j \in Jobs : plan[p].jobs[j] \in Plan!Finished => W(B).jobs[j] = plan[p].jobs[j]
    BY <1>1 DEF With, IsBlockedPass, Plan!Finished
  <2> HIDE DEF W
  <2>3. MayWrite(stored, "dispatch", W(B)) BY <1>2, <2>2, MayWriteWork
  <2> QED BY <1>0, <1>2, <2>1, <2>3, ExecutorCheck, PersistFits
<1> QED BY <1>3, <1>4

LEMMA DispatchFits ==
  ASSUME LoopInv, NEW p \in Callers, Dispatch(p) PROVE CallsFit' /\ OneExecutor'
<1>0. pc[p] = "dispatch" /\ UNCHANGED <<stored, plan, next, call, registered>>
  BY DEF Dispatch
<1>1. PICK l \in {"settle", "gather"} : pc' = [pc EXCEPT ![p] = l] BY DEF Dispatch
<1>2. Matches(stored, plan[p]) /\ call[p] = "execute" BY <1>0, Executes
<1>3. Moves(p, l, next[p], plan[p])
  BY <1>0, <1>1, AltersExcept DEF LoopInv, Inv, TypeOK, Moves
<1>4. CallFits("execute", stored, l, next[p], plan[p]) BY <1>2, ExecutorPhase
<1> QED BY <1>0, <1>2, <1>3, <1>4, SameCall, SameExecutor, FitsOn

\* A worker starts, reports or ends.
LEMMA WorkFits ==
  ASSUME LoopInv, NEW p \in Callers,
         ReportProgress(p) \/ StartJob(p) \/ \E j \in Jobs, r \in Answers : FinishJob(p, j, r)
  PROVE  CallsFit' /\ OneExecutor'
<1>0. pc[p] = "gather" /\ UNCHANGED <<stored, call, registered>>
  BY DEF ReportProgress, StartJob, FinishJob
<1>1. Matches(stored, plan[p]) /\ call[p] = "execute"
        /\ plan[p].status \in {"running", "cancelled"}
        /\ plan[p] \in WorkerExecutionPlan
  BY <1>0, Executes
<1>2. PICK w : /\ Persisting(p, w, "gather") /\ w.attempt = plan[p].attempt
               /\ \A j \in Jobs : plan[p].jobs[j] \in Plan!Finished => w.jobs[j] = plan[p].jobs[j]
  <2>1. CASE ReportProgress(p) BY <2>1 DEF ReportProgress
  <2>2. CASE StartJob(p)
    <3> DEFINE w(j) == With(plan[p], plan[p].status, [plan[p].jobs EXCEPT ![j] = "running"])
    <3>1. PICK j \in batch[p] : Persisting(p, w(j), "gather") BY <2>2 DEF StartJob
    <3>2. plan[p].jobs[j] = "queued"
      <4>1. Phase(graph, stored.status, pc[p], next[p], plan[p], batch[p])
        BY Holds DEF LoopInv
      <4> QED BY <4>1 DEF Phase, MayStart
    <3>3. w(j).attempt = plan[p].attempt
            /\ \A k \in Jobs : plan[p].jobs[k] \in Plan!Finished => w(j).jobs[k] = plan[p].jobs[k]
      BY <1>1, <3>2, PlanFields DEF With, Plan!Finished
    <3> QED BY <3>1, <3>3
  <2>3. CASE \E j \in Jobs, r \in Answers : FinishJob(p, j, r)
    <3> DEFINE w(j, r) == With(plan[p], IF r = "cancelled" THEN "cancelled" ELSE plan[p].status,
                               [plan[p].jobs EXCEPT ![j] = r])
    <3>1. PICK j \in Jobs, r \in Answers :
            Persisting(p, w(j, r), "gather") /\ plan[p].jobs[j] = "running"
      BY <2>3 DEF FinishJob, Running
    <3>2. w(j, r).attempt = plan[p].attempt
            /\ \A k \in Jobs : plan[p].jobs[k] \in Plan!Finished => w(j, r).jobs[k] = plan[p].jobs[k]
      BY <1>1, <3>1, PlanFields DEF With, Plan!Finished
    <3> QED BY <3>1, <3>2
  <2> QED BY <2>1, <2>2, <2>3
<1>3. MayWrite(stored, "gather", w) BY <1>1, <1>2, MayWriteWork
<1> QED BY <1>0, <1>1, <1>2, <1>3, ExecutorCheck, PersistFits

LEMMA EndRoundFits ==
  ASSUME LoopInv, NEW p \in Callers, EndRound(p) PROVE CallsFit' /\ OneExecutor'
<1>0. /\ pc[p] = "gather" /\ UNCHANGED <<stored, next, call, registered>>
      /\ Goto(p, "round", plan[p])
  BY DEF EndRound
<1>1. Matches(stored, plan[p]) /\ call[p] = "execute" BY <1>0, Executes
<1> QED BY <1>0, <1>1, ExecutorPhase, GotoFits

LEMMA SettleKeeps ==
  ASSUME LoopInv, NEW p \in Callers, Settle(p) PROVE CallsFit' /\ OneExecutor'
<1>0. pc[p] = "settle" /\ UNCHANGED stored BY DEF Settle
<1>1. Matches(stored, plan[p]) /\ call[p] = "execute"
        /\ plan[p].status \in {"running", "cancelled"}
        /\ plan[p] \in WorkerExecutionPlan
  BY <1>0, Executes
<1>2. AllEnded(plan[p]) BY <1>0, Holds DEF LoopInv, Phase
<1> DEFINE w == With(plan[p], VerdictOf(plan[p].jobs), plan[p].jobs)
<1>3. Persisting(p, w, "advance") /\ UNCHANGED <<call, registered>>
  BY <1>2 DEF Settle, AllEnded
<1>4. w = [plan[p] EXCEPT !.status = VerdictOf(plan[p].jobs)]
  BY <1>1 DEF With, WorkerExecutionPlan
<1>5. w.attempt = plan[p].attempt /\ w.jobs = plan[p].jobs BY DEF With
<1> HIDE DEF w
<1>6. MayWrite(stored, "advance", w)
  BY <1>1, <1>2, <1>4, <1>5 DEF Matches, MayWrite, Keeps
<1> QED BY <1>0, <1>1, <1>3, <1>6, ExecutorCheck, PersistFits

-----------------------------------------------------------------------------
(* The steps of the other calls, and persisting. *)

LEMMA ExecuteFits ==
  ASSUME OneLoop, LoopInv, NEW p \in Callers, Execute(p) PROVE CallsFit' /\ OneExecutor'
<1>1. /\ UNCHANGED <<stored, plan, next>>
      /\ pc' = [pc EXCEPT ![p] = "load"] /\ call' = [call EXCEPT ![p] = "execute"]
      /\ registered = {} /\ registered' = {p}
  <2>1. p \notin Detached /\ Server(p) = Callers BY LoopIsAll DEF OneLoop
  <2>2. registered \subseteq Callers BY DEF LoopInv, Inv, TypeOK
  <2> QED BY <2>1, <2>2 DEF Execute, Launch, Attach
<1>2. Moves(p, "load", next[p], plan[p]) /\ Alters(call, call', p, "execute")
  BY <1>1, AltersExcept DEF LoopInv, Inv, TypeOK, Moves
<1>3. CallFits("execute", stored, "load", next[p], plan[p]) BY DEF CallFits
<1>4. OneExecutor' BY <1>1, <1>2 DEF LoopInv, OneExecutor, Alters
<1> QED BY <1>1, <1>2, <1>3, <1>4, FitsOn

\* A caller takes up a call of another kind.
LEMMA OtherCall ==
  ASSUME LoopInv, NEW p \in Callers, NEW k \in {"cancel", "reset"},
         call' = [call EXCEPT ![p] = k], UNCHANGED registered
  PROVE  Alters(call, call', p, k) /\ OneExecutor'
<1>1. Alters(call, call', p, k) BY AltersExcept DEF LoopInv, Inv, TypeOK
<1> QED BY <1>1 DEF LoopInv, OneExecutor, Alters

LEMMA SignalFits ==
  ASSUME LoopInv, NEW p \in Callers, SignalCancel(p) PROVE CallsFit' /\ OneExecutor'
<1>1. UNCHANGED <<stored, plan, next, registered>> /\ pc' = [pc EXCEPT ![p] = "cancel"]
        /\ call' = [call EXCEPT ![p] = "cancel"]
  BY DEF SignalCancel
<1>2. Moves(p, "cancel", next[p], plan[p])
  BY <1>1, AltersExcept DEF LoopInv, Inv, TypeOK, Moves
<1>3. CallFits("cancel", stored, "cancel", next[p], plan[p]) BY DEF CallFits
<1> QED BY <1>1, <1>2, <1>3, OtherCall, FitsOn

LEMMA CancelKeeps ==
  ASSUME LoopInv, NEW p \in Callers, Cancel(p) PROVE CallsFit' /\ OneExecutor'
<1>0. Inv /\ pc[p] = "cancel" /\ call[p] = "cancel" /\ UNCHANGED stored
  BY LoopHolds DEF Cancel, LoopInv
<1>1. CASE Return(p) BY <1>0, <1>1, ReturnFits
<1>2. CASE ~Return(p)
  <2> DEFINE w == With(stored, "cancelled",
                    [j \in Jobs |-> IF stored.jobs[j] \in TERMINAL_JOB_STATUSES
                                    THEN stored.jobs[j] ELSE "cancelled"])
  <2>1. stored.status \notin TERMINAL_PLAN_STATUSES /\ Persisting(p, w, "advance")
          /\ UNCHANGED <<call, registered>>
    BY <1>2 DEF Cancel
  <2>2. stored.status \in Unended
    <3>1. stored.status \in PlanStatuses /\ stored.status # "none"
      BY <1>0, Holds, PlanFields DEF Phase
    <3> QED BY <2>1, <3>1 DEF PlanStatuses, TERMINAL_PLAN_STATUSES, Unended
  <2>3. /\ w.status = "cancelled" /\ w.attempt = stored.attempt
        /\ \A j \in Jobs : w.jobs[j] = IF stored.jobs[j] \in TERMINAL_JOB_STATUSES
                                       THEN stored.jobs[j] ELSE "cancelled"
    BY DEF With
  <2> HIDE DEF w
  <2>4. Keeps(w, stored) /\ \A j \in Jobs : w.jobs[j] \in {stored.jobs[j], "cancelled"}
    BY <2>3 DEF Keeps, Plan!Finished, TERMINAL_JOB_STATUSES, JobStatuses
  <2>5. CallFits("cancel", stored, "check", "advance", w) BY <2>2, <2>3, <2>4 DEF CallFits
  <2> QED BY <1>0, <2>1, <2>5, PersistFits
<1> QED BY <1>1, <1>2

LEMMA ResetFits ==
  ASSUME LoopInv, NEW p \in Callers, Reset(p) PROVE CallsFit' /\ OneExecutor'
<1> DEFINE w == [status |-> "planned", jobs |-> Requeued(stored.jobs),
                 attempt |-> stored.attempt + 1]
<1>1. /\ stored.status \in {"failed", "partial"} /\ call' = [call EXCEPT ![p] = "reset"]
      /\ Goto(p, "reopen", w) /\ UNCHANGED <<stored, next, registered>>
  BY DEF Reset
<1>2. Moves(p, "reopen", next[p], w) BY <1>1, GotoIs, StaysNext DEF LoopInv
<1>3. CallFits("reset", stored, "reopen", next[p], w) BY <1>1 DEF CallFits
<1> QED BY <1>1, <1>2, <1>3, OtherCall, FitsOn

LEMMA ReopenFits ==
  ASSUME LoopInv, NEW p \in Callers, Reopen(p) PROVE CallsFit' /\ OneExecutor'
<1>0. pc[p] = "reopen" /\ call[p] = "reset" /\ UNCHANGED stored BY LoopHolds DEF Reopen
<1>1. CASE Return(p) BY <1>0, <1>1, ReturnFits
<1>2. CASE ~Return(p)
  <2>1. Persisting(p, plan[p], "idle") /\ UNCHANGED <<call, registered>>
    BY <1>2 DEF Reopen
  <2>2. CallFits("reset", stored, "check", "idle", plan[p])
    BY <1>0, LoopHolds DEF CallFits
  <2> QED BY <1>0, <2>1, <2>2, PersistFits
<1> QED BY <1>1, <1>2

LEMMA CheckFits ==
  ASSUME LoopInv, NEW p \in Callers, PersistCheck(p) PROVE CallsFit' /\ OneExecutor'
<1>0. pc[p] = "check" /\ UNCHANGED stored BY DEF PersistCheck
<1>1. CASE Return(p) BY <1>0, <1>1, ReturnFits
<1>2. CASE ~Return(p)
  <2>0. UNCHANGED <<next, call, registered>> BY <1>2 DEF PersistCheck
  <2>1. \/ /\ stored.status = "cancelled" /\ plan[p].status # "cancelled"
           /\ Goto(p, next[p], plan[p])
        \/ /\ (stored.status = "cancelled") => plan[p].status = "cancelled"
           /\ Goto(p, "write", plan[p])
    BY <1>2 DEF PersistCheck
  <2>2. CASE /\ stored.status = "cancelled" /\ plan[p].status # "cancelled"
             /\ Goto(p, next[p], plan[p])
    <3>1. call[p] = "execute" /\ MayWrite(stored, next[p], plan[p])
      BY <1>0, <2>2, LoopHolds DEF CallFits, Unended
    <3>2. Keeps(plan[p], stored) /\ next[p] \in {"dispatch", "gather", "advance"}
      BY <2>2, <3>1 DEF MayWrite, Unended
    <3>3. CallFits("execute", stored, next[p], next[p], plan[p])
      BY <2>2, <3>2 DEF CallFits, Matches
    <3> QED BY <1>0, <2>0, <2>2, <3>1, <3>3, GotoFits
  <2>3. CASE /\ (stored.status = "cancelled") => plan[p].status = "cancelled"
             /\ Goto(p, "write", plan[p])
    <3>1. CallFits(call[p], stored, "write", next[p], plan[p])
      BY <1>0, <2>3, LoopHolds DEF CallFits
    <3> QED BY <1>0, <2>0, <2>3, <3>1, GotoFits
  <2> QED BY <2>1, <2>2, <2>3
<1> QED BY <1>1, <1>2

\* A write by a call leaves an executor that awaits its workers in step: the
\* call is not an executor, and a reset finds no plan that is executing.
LEMMA WriteSpares ==
  ASSUME LoopInv, NEW p \in Callers, PersistWrite(p), NEW q \in Callers, q # p,
         pc[q] = "gather"
  PROVE  Matches(plan[p], plan[q])
<1>1. Matches(stored, plan[q]) /\ call[q] = "execute"
        /\ plan[q].status \in {"running", "cancelled"}
  BY Executes
<1>2. pc[p] = "write" /\ CallFits(call[p], stored, pc[p], next[p], plan[p])
  BY LoopHolds DEF PersistWrite
<1>3. call[p] # "execute" BY <1>1 DEF LoopInv, OneExecutor
<1>4. stored.status \in {"running", "cancelled"} BY <1>1 DEF Matches
<1>5. /\ stored.status \in Unended /\ plan[p].status = "cancelled"
      /\ Keeps(plan[p], stored)
      /\ \A j \in Jobs : plan[p].jobs[j] \in {stored.jobs[j], "cancelled"}
  BY <1>2, <1>3, <1>4, LoopHolds DEF CallFits
<1>6. stored = plan[q] BY <1>1, <1>5 DEF Matches, Unended
<1> QED BY <1>5, <1>6 DEF Matches, Keeps, Plan!Finished

LEMMA WriteFits ==
  ASSUME OneLoop, LoopInv, NEW p \in Callers, PersistWrite(p) PROVE CallsFit' /\ OneExecutor'
<1>0. /\ pc[p] = "write" /\ Turn(p) /\ stored' = plan[p] /\ Inv
      /\ CallFits(call[p], stored, pc[p], next[p], plan[p])
  BY LoopHolds DEF PersistWrite, LoopInv
<1>1. PICK k, l, n, c : /\ Moves(p, l, n, c) /\ Alters(call, call', p, k)
                        /\ CallFits(k, stored', l, n, c) /\ OneExecutor'
  <2>1. CASE Return(p)
    <3>1. Moves(p, "idle", "idle", NoPlan) BY <1>0, <2>1, ReturnIs
    <3>2. Alters(call, call', p, "none")
      BY <2>1, AltersExcept DEF Return, LoopInv, Inv, TypeOK
    <3>3. CallFits("none", stored', "idle", "idle", NoPlan) BY DEF CallFits
    <3>4. OneExecutor' BY <2>1, <3>2 DEF Return, Alters, LoopInv, OneExecutor
    <3> QED BY <3>1, <3>2, <3>3, <3>4
  <2>2. CASE ~Return(p)
    <3>1. Goto(p, next[p], plan[p]) /\ UNCHANGED <<next, call, registered>> /\ next[p] # "idle"
      BY <2>2 DEF PersistWrite
    <3>2. Moves(p, next[p], next[p], plan[p]) BY <1>0, <3>1, GotoIs, StaysNext
    <3>3. CallFits(call[p], plan[p], next[p], next[p], plan[p])
      BY <1>0, <3>1, LoopHolds DEF CallFits, MayWrite, Matches
    <3> QED BY <1>0, <3>1, <3>2, <3>3, SameCall, SameExecutor
  <2> QED BY <2>1, <2>2
<1>2. ASSUME NEW q \in Callers, q # p
      PROVE  CallFits(call'[q], stored', pc'[q], next'[q], plan'[q])
  <2>1. /\ call'[q] = call[q] /\ pc'[q] = pc[q] /\ next'[q] = next[q] /\ plan'[q] = plan[q]
        /\ pc[q] \in {"idle", "gather"}
    BY <1>0, <1>1, <1>2, TurnIs DEF Moves, Alters
  <2>2. CASE pc[q] = "idle"
    <3>1. call[q] = "none" BY <2>2, LoopHolds DEF CallFits
    <3> QED BY <2>1, <2>2, <3>1 DEF CallFits
  <2>3. CASE pc[q] = "gather"
    <3>1. Matches(plan[p], plan[q]) BY <1>2, <2>3, WriteSpares
    <3>2. call[q] = "execute" BY <2>3, LoopHolds
    <3> QED BY <1>0, <2>1, <2>3, <3>1, <3>2, ExecutorPhase
  <2> QED BY <2>1, <2>2, <2>3
<1>3. CallFits(call'[p], stored', pc'[p], next'[p], plan'[p])
  BY <1>1 DEF Moves, Alters
<1> QED BY <1>1, <1>2, <1>3 DEF CallsFit

LEMMA ActsFit ==
  ASSUME OneLoop, RetryTargets = {}, LoopInv, NEW p \in Callers, Acts(p)
  PROVE  CallsFit' /\ OneExecutor'
<1>1. CASE Executor(p)

    BY <1>1, LoadFits, BlockKeeps, DispatchFits, WorkFits, EndRoundFits, SettleKeeps DEF Executor
<1>2. CASE Proceed(p)
  <2>1. CASE Advance(p)
    <3>1. Return(p) /\ UNCHANGED stored BY <2>1 DEF Advance
    <3> QED BY <3>1, ReturnFits
  <2> QED BY <1>2, <2>1, CheckFits, WriteFits, CancelKeeps, ReopenFits DEF Proceed
<1>3. CASE Execute(p) \/ ReportProgress(p) \/ SignalCancel(p) \/ Reset(p)
  BY <1>3, ExecuteFits, WorkFits, SignalFits, ResetFits
<1> QED BY <1>1, <1>2, <1>3 DEF Acts

LEMMA InitLoop == Init => LoopInv
<1> SUFFICES ASSUME Init PROVE LoopInv OBVIOUS
<1>1. CallsFit BY DEF Init, CallsFit, CallFits
<1>2. Alone /\ OneExecutor BY DEF Init, Alone, OneExecutor
<1> QED BY <1>1, <1>2, InitInv DEF LoopInv

LEMMA NextLoop == OneLoop /\ RetryTargets = {} /\ LoopInv /\ [Next]_vars => LoopInv'
<1> SUFFICES ASSUME OneLoop, RetryTargets = {}, LoopInv, [Next]_vars PROVE LoopInv'
  OBVIOUS
<1>1. Inv' /\ Alone' BY NextInv, AloneKept DEF LoopInv
<1>2. CallsFit' /\ OneExecutor'
  <2>1. CASE \E p \in Callers : Acts(p) BY <2>1, ActsFit
  <2>2. CASE \E g \in Graphs : CreatePlan(g)
    <3>1. \A p \in Callers : pc[p] = "idle"
      <4>1. stored.status = "none" BY <2>2 DEF CreatePlan
      <4> QED BY <4>1, Holds DEF LoopInv, Phase
    <3>2. \A p \in Callers : call[p] = "none" BY <3>1, LoopHolds DEF CallFits
    <3>3. UNCHANGED callVars BY <2>2 DEF CreatePlan
    <3> QED BY <3>1, <3>2, <3>3 DEF callVars, CallsFit, CallFits, LoopInv, OneExecutor
  <2>3. CASE (\E t \in UserTargets : UserMoves(t)) \/ UNCHANGED vars
    BY <2>3 DEF UserMoves, vars, callVars, LoopInv, CallsFit, OneExecutor
  <2>4. CASE \E S \in Servers : Crash(S)
    <3>1. PICK S \in Servers : Crash(S) BY <2>4
    <3>2. S = Callers BY DEF OneLoop, Callers
    <3>3. \A p \in Callers : pc'[p] = "idle" /\ call'[p] = "none" BY <3>1, <3>2 DEF Crash
    <3>4. registered' = {}
      BY <3>1, <3>2 DEF Crash, LoopInv, Inv, TypeOK
    <3> QED BY <3>3, <3>4 DEF CallsFit, CallFits, OneExecutor
  <2> QED BY <2>1, <2>2, <2>3, <2>4 DEF Next, Acts
<1> QED BY <1>1, <1>2 DEF LoopInv

\* The plan that the record promises is made of the same jobs and statuses.
LEMMA PlanNames ==
  /\ Plan!Jobs = Jobs /\ Plan!NoPlan = NoPlan
  /\ Plan!TERMINAL_JOB_STATUSES = TERMINAL_JOB_STATUSES
  /\ \A f : Plan!VerdictOf(f) = VerdictOf(f) /\ Plan!Requeued(f) = Requeued(f)
<1>1. Plan!Jobs = Jobs BY DEF Jobs, Plan!Jobs
<1>2. Plan!NoPlan = NoPlan BY <1>1 DEF NoPlan, Plan!NoPlan
<1>3. Plan!TERMINAL_JOB_STATUSES = TERMINAL_JOB_STATUSES
  BY DEF TERMINAL_JOB_STATUSES, Plan!TERMINAL_JOB_STATUSES, JobStatuses, Plan!JobStatuses
<1>4. \A f : Plan!VerdictOf(f) = VerdictOf(f) BY <1>1 DEF VerdictOf, Plan!VerdictOf
<1>5. \A f : Plan!Requeued(f) = Requeued(f) BY <1>1 DEF Requeued, Plan!Requeued
<1> QED BY <1>1, <1>2, <1>3, <1>4, <1>5

\* Each write is a step of the plan that the record promises.
LEMMA WriteImplements == ASSUME LoopInv, NEW p \in Callers, PersistWrite(p) PROVE Plan!Next
<1> DEFINE s == stored
           c == plan[p]
<1>1. /\ stored' = c /\ pc[p] = "write"
      /\ call[p] \in {"execute", "cancel", "reset"}
      /\ CallFits(call[p], s, "write", next[p], c)
      /\ Phase(graph, s.status, "write", next[p], c, batch[p])
  BY LoopHolds, Holds DEF PersistWrite, LoopInv
<1> HIDE DEF s, c
<1>2. ASSUME Keeps(c, s), s.status \in Unended \cup {"cancelled"}, c.status = "cancelled"
      PROVE  Plan!Cancel

    BY <1>1, <1>2, PlanNames DEF s, Keeps, Unended, Plan!Cancel, Plan!SameAttempt, Plan!Retained
<1>3. ASSUME Keeps(c, s), s.status \in Unended, c.status = "running"
      PROVE  Plan!Work
  BY <1>1, <1>3, PlanNames DEF s, Keeps, Unended, Plan!Work, Plan!SameAttempt, Plan!Retained
<1>4. CASE call[p] = "execute"
  <2>1. MayWrite(s, next[p], c) /\ ((s.status = "cancelled") => c.status = "cancelled")
    BY <1>1, <1>4 DEF CallFits
  <2>2. CASE next[p] \in {"round", "dispatch", "gather"}
    <3>1. c.status \in {"running", "cancelled"} BY <1>1, <2>2 DEF Phase, At
    <3> QED BY <1>2, <1>3, <2>1, <2>2, <3>1 DEF MayWrite, Unended, Plan!Next
  <2>3. CASE next[p] = "advance"
    <3>1. CASE c.status = "cancelled" /\ s.status \in {"running", "cancelled"}
      BY <1>2, <2>1, <3>1 DEF MayWrite, Unended, Plan!Next
    <3>2. CASE s.status = "running" /\ AllEnded(s) /\ c = [s EXCEPT !.status = VerdictOf(s.jobs)]
      BY <1>1, <3>2, PlanNames DEF s, AllEnded, Plan!Settle, Plan!Next
    <3> QED BY <2>1, <2>3, <3>1, <3>2 DEF MayWrite
  <2> QED BY <2>1, <2>2, <2>3 DEF MayWrite
<1>5. CASE call[p] = "cancel"
  BY <1>1, <1>2, <1>5 DEF CallFits, Plan!Next
<1>6. CASE call[p] = "reset"
  BY <1>1, <1>6, PlanNames DEF s, CallFits, Plan!Reset, Plan!Next
<1> QED BY <1>1, <1>4, <1>5, <1>6

\* No other step changes the record, but the creation of the plan.
LEMMA LoopStepIsPlan == LoopInv /\ [Next]_vars => [Plan!Next]_stored
<1> SUFFICES ASSUME LoopInv, [Next]_vars, stored' # stored PROVE Plan!Next
  OBVIOUS
<1>1. \/ \E p \in Callers : PersistWrite(p)
      \/ \E g \in Graphs : CreatePlan(g)
  BY DEF Next, Executor, Proceed, PersistCheck, Execute, Load, Block, Advance, Reopen,
     Dispatch, StartJob, ReportProgress, FinishJob, EndRound, Settle, SignalCancel, Cancel,
     Reset, ResetJob, UserMoves, Crash, vars
<1>2. ASSUME NEW g \in Graphs, CreatePlan(g) PROVE Plan!Next
  BY <1>2, PlanNames DEF CreatePlan, Plan!Create, Plan!Next
<1> QED BY <1>1, <1>2, WriteImplements

\* Where one loop handles the calls and no single job is reset, the record that
\* every call overwrites whole behaves as the atomic plan: results are kept, a
\* cancellation is final and only a reset begins another attempt.
THEOREM PlanRefined ==
  ASSUME OneLoop, RetryTargets = {}
  PROVE  Spec => ImplementsWorkerPlan
<1>1. Init => Plan!Init BY PlanNames DEF Init, Plan!Init
<1> QED BY <1>1, InitLoop, NextLoop, LoopStepIsPlan, PTL
        DEF Spec, ImplementsWorkerPlan, Plan!Spec

\* Under the same conditions no executor overwrites a cancellation: losing one
\* takes a thread, or a second server, that writes between the two transactions
\* of another call.
THEOREM CancellationCorrect ==
  ASSUME OneLoop, RetryTargets = {}
  PROVE  Spec => CancellationIsFinal
<1>1. [Plan!Next]_stored => ((stored.status = "cancelled") => stored'.status = "cancelled")
  BY DEF Plan!Next, Plan!Create, Plan!Work, Plan!Settle, Plan!Cancel, Plan!Reset
<1>2. LoopInv /\ [Next]_vars =>
        [(stored.status = "cancelled") => stored'.status = "cancelled"]_vars
  BY <1>1, LoopStepIsPlan
<1> QED BY <1>2, InitLoop, NextLoop, PTL DEF Spec, CancellationIsFinal
=============================================================================
