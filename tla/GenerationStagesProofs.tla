----------------------- MODULE GenerationStagesProofs -----------------------
(***************************************************************************)
(* Theorems about staged generations and the revisions they append, for    *)
(* any stages, any number of requests and any attempts of the plan.        *)
(*                                                                         *)
(* First the log of revisions: the inductive invariant IInv says that a    *)
(* process about to insert a revision has read the log up to its parent    *)
(* and found none of its own (Unwritten) and that the revision the worker  *)
(* has in hand is its own (Outcome).                                       *)
(*                                                                         *)
(* Then what the runs hold.  The run of a request is a recursive function  *)
(* of the records it begins with: RunUnfolds shows that it is what its     *)
(* equation says, and RunFromIs, by induction over its places, what it     *)
(* keeps.  StrongInv adds to IInv the types (TypeInv), the place of the    *)
(* worker (PlanInv, StageInv), the package (PackageInv), and that all that *)
(* shows results of the plan shows the same ones (ResultsInv).             *)
(***************************************************************************)
EXTENDS GenerationStages, SequenceTheorems, FiniteSetTheorems, WellFoundedInduction, TLAPS

\* The sequence of revisions and who may append to it.
LogTypes ==
  /\ \E T : revisions \in Seq(T)
  /\ job \in [Requests -> Jobs] /\ attempt \in 1..MaxAttempts
  /\ DOMAIN pc = Procs /\ DOMAIN parent = Procs /\ DOMAIN outcome = Procs

\* The plan is running while its worker is at work.
WorkerBusy == pc[Worker] # "idle" => planStatus = "running"

Unwritten ==
  \A p \in Procs : pc[p] = "append" =>
    /\ parent[p] \in 0..Len(revisions)
    /\ \A i \in 1..parent[p] : revisions[i].source # Source(p)

Outcome ==
  /\ outcome[Worker] # 0 => outcome[Worker] \in BySource(Source(Worker))
  /\ pc[Worker] # "result" => outcome[Worker] = 0

IInv == LogTypes /\ WorkerBusy /\ Unwritten /\ Outcome /\ PlanAgreesWithRevision

-----------------------------------------------------------------------------
(* A revision is only added at the end. *)

LEMMA Appended ==
  ASSUME NEW T, NEW s \in Seq(T), NEW e
  PROVE  /\ Append(s, e) \in Seq(T \cup {e}) /\ Len(Append(s, e)) = Len(s) + 1
         /\ \A i \in 1..Len(s) : Append(s, e)[i] = s[i]
         /\ Append(s, e)[Len(s) + 1] = e
         /\ DOMAIN s = 1..Len(s) /\ DOMAIN Append(s, e) = 1..(Len(s) + 1) /\ Len(s) \in Nat
<1>1. s \in Seq(T \cup {e}) /\ e \in T \cup {e} OBVIOUS
<1> QED BY <1>1

LEMMA AppendedIs ==
  ASSUME NEW n \in Nat, NEW s, NEW t, NEW x,
         s = [i \in 1..n |-> s[i]], t = [i \in 1..(n + 1) |-> t[i]],
         t[n + 1] = x, \A i \in 1..n : t[i] = s[i]
  PROVE  t = Append(s, x)
<1> DEFINE T == {s[i] : i \in 1..n}
<1>1. s \in [1..n -> T] BY SMT
<1>2. s \in Seq(T) BY <1>1, SeqDef
<1>3. Len(s) = n BY <1>1, <1>2, LenProperties
<1> DEFINE u == Append(s, x)
<1>4. /\ u \in Seq(T \cup {x}) /\ Len(u) = n + 1 /\ u[n + 1] = x
      /\ \A i \in 1..n : u[i] = s[i]
  BY <1>2, <1>3, Appended
<1>5. DOMAIN u = 1..(n + 1) /\ u = [i \in 1..(n + 1) |-> u[i]]
  BY <1>4, LenProperties
<1> HIDE DEF u, T
<1>6. ASSUME NEW i \in 1..(n + 1) PROVE t[i] = u[i]
  <2>1. i \in 1..n \/ i = n + 1 OBVIOUS
  <2> QED BY <1>4, <2>1
<1>7. t = u BY <1>5, <1>6
<1> QED BY <1>7 DEF u

\* What the steps of the model do to the revisions and the plan.
Quiet(p) ==
  /\ UNCHANGED <<revisions, job, attempt>>
  /\ DOMAIN pc' = Procs /\ DOMAIN parent' = Procs /\ DOMAIN outcome' = Procs
  /\ \A q \in Procs \ {p} : /\ pc'[q] = pc[q] /\ parent'[q] = parent[q]
                            /\ outcome'[q] = outcome[q]

LEMMA QuietSource ==
  ASSUME NEW p, Quiet(p)
  PROVE  /\ \A q : Source(q)' = Source(q)
         /\ \A x : BySource(x)' = BySource(x)
BY DEF Quiet, Source, BySource

Ready(p) ==
  pc[p] = "append" => /\ parent[p] \in 0..Len(revisions)
                      /\ \A i \in 1..parent[p] : revisions[i].source # Source(p)

\* A step of one process that leaves the revisions alone keeps the invariant,
\* if that process keeps its own part of it.
LEMMA QuietKeeps ==
  ASSUME NEW p \in Procs, IInv, Quiet(p), Ready(p)',
         p = Worker => WorkerBusy' /\ Outcome' /\ PlanAgreesWithRevision',
         p # Worker => planStatus' = planStatus
  PROVE  IInv'
<1> USE DEF IInv
<1>1. LogTypes' BY DEF LogTypes, Quiet
<1>2. Unwritten'
  <2> SUFFICES ASSUME NEW q \in Procs PROVE Ready(q)' BY DEF Unwritten, Ready
  <2>1. CASE q # p BY <2>1, QuietSource DEF Quiet, Unwritten, Ready
  <2> QED BY <2>1
<1>3. WorkerBusy' /\ Outcome' /\ PlanAgreesWithRevision'
  <2>1. CASE p # Worker
    <3>1. Worker \in Procs BY DEF Procs
    <3> QED BY <2>1, <3>1, QuietSource
       DEF Quiet, WorkerBusy, Outcome, PlanAgreesWithRevision
  <2> QED BY <2>1
<1> QED BY <1>1, <1>2, <1>3

LEMMA WorkerQuiet ==
  ASSUME IInv,
         \/ Execute \/ WorkerBlocks \/ WorkerStarts \/ WorkerEndsStage
         \/ ReportRaises \/ PublishRaises \/ Finish \/ Crash
  PROVE  Quiet(Worker)
<1> USE DEF IInv, LogTypes, Quiet, Goto, memory, plan
<1>1. CASE Execute BY <1>1 DEF Execute, Enter
<1>2. CASE WorkerBlocks \/ WorkerStarts \/ WorkerEndsStage
  BY <1>2 DEF WorkerBlocks, WorkerStarts, WorkerEndsStage, Report, Pass
<1>3. CASE ReportRaises \/ PublishRaises BY <1>3 DEF ReportRaises, PublishRaises
<1>4. CASE Finish \/ Crash BY <1>4 DEF Finish, Crash, Forget
<1> QED BY <1>1, <1>2, <1>3, <1>4

LEMMA WorkerKeeps ==
  ASSUME IInv,
         \/ Execute \/ WorkerBlocks \/ WorkerStarts \/ WorkerEndsStage
         \/ ReportRaises \/ PublishRaises \/ Finish \/ Crash
  PROVE  IInv'
<1>1. Quiet(Worker) /\ Worker \in Procs BY WorkerQuiet DEF Procs
<1>2. /\ Source(Worker)' = Source(Worker)
      /\ BySource(Source(Worker))' = BySource(Source(Worker))
  BY <1>1, QuietSource
<1>3. /\ DOMAIN pc = Procs /\ DOMAIN outcome = Procs
  BY DEF IInv, LogTypes
<1> USE DEF Goto, At, Ready, WorkerBusy, Outcome, plan, memory
<1>4. CASE Execute
  <2>1. planStatus' = "running" /\ pc'[Worker] \in {"result", "stages"}
    BY <1>1, <1>3, <1>4 DEF Execute, Enter
  <2>2. \/ outcome'[Worker] \in BySource(Source(Worker)) /\ pc'[Worker] = "result"
        \/ outcome'[Worker] = outcome[Worker]
    BY <1>1, <1>3, <1>4 DEF Execute, Enter
  <2>3. outcome[Worker] = 0 BY <1>4 DEF Execute, IInv
  <2> QED BY <1>1, <1>2, <2>1, <2>2, <2>3, QuietKeeps DEF PlanAgreesWithRevision
<1>5. CASE WorkerBlocks \/ WorkerStarts \/ WorkerEndsStage
  <2>1. /\ UNCHANGED <<planStatus, outcome>> /\ pc'[Worker] \in {"stages", "producing"}
        /\ pc[Worker] \in {"stages", "producing"}
    BY <1>1, <1>3, <1>5 DEF WorkerBlocks, WorkerStarts, WorkerEndsStage, AtStage
  <2> QED BY <1>1, <1>2, <2>1, QuietKeeps DEF IInv, PlanAgreesWithRevision
<1>6. CASE ReportRaises \/ PublishRaises
  <2>1. /\ planStatus' = planStatus /\ pc'[Worker] = "result" /\ pc[Worker] # "idle"
        /\ outcome'[Worker] \in {0, outcome[Worker]}
    BY <1>1, <1>3, <1>6 DEF ReportRaises, PublishRaises, AtStage
  <2> QED BY <1>1, <1>2, <2>1, QuietKeeps DEF IInv, PlanAgreesWithRevision
<1>7. CASE Finish
  <2>1. pc'[Worker] = "idle" /\ outcome'[Worker] = 0
    BY <1>1, <1>3, <1>7 DEF Finish, Forget
  <2>2. PlanAgreesWithRevision'
    <3>1. CASE outcome[Worker] = 0 BY <1>7, <3>1 DEF Finish, PlanAgreesWithRevision
    <3>2. CASE outcome[Worker] # 0
      <4>1. outcome[Worker] \in BySource(Source(Worker)) BY <3>2 DEF IInv
      <4>2. planStatus' = RunStatus(revisions[outcome[Worker]].rec)
        BY <1>7, <3>2 DEF Finish
      <4>3. revisions' = revisions /\ attempt' = attempt BY <1>7 DEF Finish
      <4> QED BY <4>1, <4>2, <4>3 DEF PlanAgreesWithRevision, BySource, Source
    <3> QED BY <3>1, <3>2
  <2> QED BY <1>1, <1>2, <2>1, <2>2, QuietKeeps
<1>8. CASE Crash
  <2>1. pc'[Worker] = "idle" /\ outcome'[Worker] = 0 /\ planStatus' = planStatus
    BY <1>1, <1>3, <1>8 DEF Crash, Forget
  <2>2. PlanAgreesWithRevision'
    BY <1>8 DEF Crash, IInv, PlanAgreesWithRevision
  <2> QED BY <1>1, <1>2, <2>1, <2>2, QuietKeeps
<1> QED BY <1>4, <1>5, <1>6, <1>7, <1>8

LEMMA ResetKeeps == IInv /\ Reset => IInv'
<1> SUFFICES ASSUME IInv, Reset PROVE IInv' OBVIOUS
<1>1. /\ UNCHANGED <<revisions, job, pc, parent, outcome>> /\ planStatus' = "planned"
      /\ attempt' = attempt + 1 /\ attempt < MaxAttempts /\ pc[Worker] = "idle"
  BY DEF Reset, memory, IInv, WorkerBusy
<1>2. LogTypes'
  <2>1. attempt' \in 1..MaxAttempts BY <1>1, StagesAssumption DEF IInv, LogTypes
  <2> QED BY <1>1, <2>1 DEF IInv, LogTypes
<1>3. Unwritten'
  BY <1>1 DEF IInv, Unwritten, Source
<1> QED BY <1>1, <1>2, <1>3 DEF IInv, WorkerBusy, Outcome, PlanAgreesWithRevision

LEMMA RequestKeeps == ASSUME NEW q \in Requests, IInv, RequestStep(q) PROVE IInv'
<1>1. q \in Procs /\ q # Worker BY StagesAssumption DEF Procs
<1>2. Quiet(q) /\ pc'[q] = "stages" /\ planStatus' = planStatus
  BY <1>1 DEF RequestStep, Generate, Retry, Generation, Enter, Goto, Quiet, IInv, LogTypes,
     plan
<1> QED BY <1>1, <1>2, QuietKeeps DEF Ready

LEMMA ReviseKeeps == ASSUME NEW p \in Procs, IInv, Revise(p) PROVE IInv'
<1> USE DEF IInv, LogTypes
<1>0. UNCHANGED <<job, planStatus, attempt>>
  BY DEF Revise, ReadParent, Insert, Conflict, plan
<1>1. pc[p] # "idle" /\ pc[p] # "result"
  BY DEF Revise, ReadParent, Insert, Conflict, At
<1>2. ASSUME NEW i, EndWith(p, i), p = Worker => i = 0 \/ i \in BySource(Source(p))',
             UNCHANGED <<job, attempt>>
      PROVE  /\ pc'[p] # "append" /\ (p = Worker => Outcome' /\ pc'[p] = "result")
             /\ DOMAIN pc' = Procs /\ DOMAIN parent' = Procs /\ DOMAIN outcome' = Procs
             /\ \A q \in Procs \ {p} : /\ pc'[q] = pc[q] /\ parent'[q] = parent[q]
                                       /\ outcome'[q] = outcome[q]
  BY <1>2 DEF EndWith, Forget, Goto, Outcome
<1>3. ASSUME ReadParent(p) \/ Conflict(p), UNCHANGED revisions PROVE IInv'
  <2>1. ASSUME NEW i, EndWith(p, i), i = 0 \/ i \in BySource(Source(p)) PROVE IInv'
    <3>1. BySource(Source(p))' = BySource(Source(p))
      BY <1>0, <1>3 DEF BySource, Source
    <3>2. Quiet(p) /\ Ready(p)' BY <1>0, <1>2, <1>3, <2>1, <3>1 DEF Quiet, Ready
    <3>3. p = Worker => Outcome' /\ WorkerBusy' /\ PlanAgreesWithRevision'
      BY <1>0, <1>1, <1>2, <1>3, <2>1, <3>1 DEF WorkerBusy, PlanAgreesWithRevision
    <3> QED BY <1>0, <3>2, <3>3, QuietKeeps
  <2>2. ASSUME BySource(Source(p)) = {}, Goto(p, "append"), UNCHANGED outcome,
               parent' = [parent EXCEPT ![p] = Len(revisions)]
        PROVE  IInv'
    <3>1. Quiet(p) BY <1>0, <1>3, <2>2 DEF Quiet, Goto
    <3>2. Ready(p)'
      <4>1. PICK T : revisions \in Seq(T) OBVIOUS
      <4>2. DOMAIN revisions = 1..Len(revisions) /\ Len(revisions) \in Nat BY <4>1
      <4>3. \A i \in 1..Len(revisions) : revisions[i].source # Source(p)
        BY <2>2, <4>2 DEF BySource
      <4>4. Source(p)' = Source(p) BY <3>1, QuietSource
      <4> QED BY <1>3, <2>2, <4>2, <4>3, <4>4 DEF Ready
    <3>3. p = Worker => Outcome' /\ WorkerBusy' /\ PlanAgreesWithRevision'
      BY <1>0, <1>1, <1>3, <2>2, <3>1, QuietSource
      DEF WorkerBusy, PlanAgreesWithRevision, Outcome, Goto
    <3> QED BY <1>0, <3>1, <3>2, <3>3, QuietKeeps
  <2> QED BY <1>3, <2>1, <2>2 DEF ReadParent, Conflict
<1>4. ASSUME Insert(p) PROVE IInv'
  <2>1. PICK T : revisions \in Seq(T) OBVIOUS
  <2> DEFINE n == Len(revisions)
  <2> DEFINE e == NewRevision(p)
  <2>2. /\ revisions' = Append(revisions, e) /\ EndWith(p, n + 1)
        /\ e.source = Source(p)
    BY <1>4 DEF Insert, NewRevision
  <2>3. /\ n \in Nat /\ DOMAIN revisions = 1..n /\ DOMAIN revisions' = 1..(n + 1)
        /\ revisions' \in Seq(T \cup {e}) /\ revisions'[n + 1] = e /\ Len(revisions') = n + 1
        /\ \A i \in 1..n : revisions'[i] = revisions[i]
    BY <2>1, <2>2, Appended
  <2>4. \A q : Source(q)' = Source(q) BY <1>0 DEF Source
  <2>5. \A x : BySource(x) \subseteq BySource(x)' BY <2>3 DEF BySource
  <2>6. n + 1 \in BySource(Source(p))' BY <2>2, <2>3, <2>4 DEF BySource
  <2> HIDE DEF n, e
  <2>7. /\ pc'[p] # "append" /\ (p = Worker => Outcome' /\ pc'[p] = "result")
        /\ DOMAIN pc' = Procs /\ DOMAIN parent' = Procs /\ DOMAIN outcome' = Procs
        /\ \A q \in Procs \ {p} : /\ pc'[q] = pc[q] /\ parent'[q] = parent[q]
                                  /\ outcome'[q] = outcome[q]
    BY <1>0, <1>2, <2>2, <2>6
  <2>8. LogTypes' BY <1>0, <2>3, <2>7
  <2>9. Unwritten'
    <3> SUFFICES ASSUME NEW q \in Procs, pc'[q] = "append"
                 PROVE  /\ parent'[q] \in 0..Len(revisions')
                        /\ \A i \in 1..parent'[q] : revisions'[i].source # Source(q)'
      BY DEF Unwritten
    <3>1. q # p /\ pc[q] = "append" /\ parent'[q] = parent[q] BY <2>7
    <3>2. parent[q] \in 0..n /\ \A i \in 1..parent[q] : revisions[i].source # Source(q)
      BY <3>1 DEF Unwritten, n
    <3> QED BY <2>3, <2>4, <3>1, <3>2
  <2>10. WorkerBusy' /\ Outcome'
    <3>1. CASE p = Worker BY <1>0, <1>1, <2>7, <3>1 DEF WorkerBusy
    <3>2. CASE p # Worker
      <4>1. pc'[Worker] = pc[Worker] /\ outcome'[Worker] = outcome[Worker]
        BY <2>7, <3>2 DEF Procs
      <4> QED BY <1>0, <2>4, <2>5, <4>1 DEF WorkerBusy, Outcome
    <3> QED BY <3>1, <3>2
  <2>11. PlanAgreesWithRevision' BY <1>0, <2>3 DEF PlanAgreesWithRevision
  <2> QED BY <2>8, <2>9, <2>10, <2>11
<1> QED BY <1>3, <1>4 DEF Revise, ReadParent, Conflict

-----------------------------------------------------------------------------
(* The inductive invariant, and what follows from it. *)

LEMMA InitIInv == Init => IInv
<1> SUFFICES ASSUME Init PROVE IInv OBVIOUS
<1>1. revisions \in Seq({}) /\ Len(revisions) = 0 BY DEF Init
<1>2. LogTypes BY <1>1, StagesAssumption DEF Init, LogTypes
<1>3. Worker \in Procs BY DEF Procs
<1> QED BY <1>1, <1>2, <1>3
   DEF Init, IInv, WorkerBusy, Unwritten, Outcome, PlanAgreesWithRevision

LEMMA NextIInv == IInv /\ [Next]_vars => IInv'
<1> SUFFICES ASSUME IInv, [Next]_vars PROVE IInv' OBVIOUS
<1>1. CASE UNCHANGED vars
  BY <1>1 DEF vars, plan, memory, IInv, LogTypes, WorkerBusy, Unwritten, Outcome,
     PlanAgreesWithRevision, Source, BySource
<1> QED BY <1>1, WorkerKeeps, ResetKeeps, RequestKeeps, ReviseKeeps DEF Next, WorkerStep

\* Every behaviour satisfies the inductive invariant.
THEOREM StagesInvariant == Spec => []IInv
BY InitIInv, NextIInv, PTL DEF Spec

\* A plan that has ended well or partly has a revision of its last attempt
\* with its status, however often its worker died between storing the one and
\* recording the other.
THEOREM PlansAgreeWithRevisions == Spec => []PlanAgreesWithRevision
<1>1. IInv => PlanAgreesWithRevision BY DEF IInv
<1> QED BY <1>1, StagesInvariant, PTL

\* The revisions of a project implement RevisionLog: nothing is changed or
\* lost, and no job, request or attempt adds a second revision, however its
\* insertion is raced, repeated or interrupted.
THEOREM RevisionsImplementLog == Spec => ImplementsLog
<1> DEFINE log == [i \in DOMAIN revisions |-> revisions[i].source]
<1>1. Init => Log!Init
  BY DEF Init, Log!Init
<1>2. IInv /\ [Next]_vars => [Log!Next]_log
  <2> SUFFICES ASSUME IInv, [Next]_vars, log' # log PROVE Log!Next OBVIOUS
  <2>1. revisions' # revisions OBVIOUS
  <2>2. PICK p \in Procs : Insert(p)
    <3>1. ~UNCHANGED vars BY <2>1 DEF vars
    <3>2. ~(\/ Execute \/ WorkerBlocks \/ WorkerStarts \/ WorkerEndsStage
            \/ ReportRaises \/ PublishRaises \/ Finish \/ Crash)
      BY <2>1, WorkerQuiet DEF Quiet
    <3>3. ~Reset BY <2>1 DEF Reset
    <3>4. \A q \in Requests : ~RequestStep(q) BY <2>1 DEF RequestStep, Generate, Retry
    <3>5. \A q \in Procs : ~ReadParent(q) /\ ~Conflict(q) BY <2>1 DEF ReadParent, Conflict
    <3> QED BY <3>1, <3>2, <3>3, <3>4, <3>5 DEF Next, WorkerStep, Revise
  <2>3. PICK T : revisions \in Seq(T) BY DEF IInv, LogTypes
  <2> DEFINE n == Len(revisions)
  <2> DEFINE e == NewRevision(p)
  <2>4. /\ n \in Nat /\ DOMAIN revisions = 1..n /\ DOMAIN revisions' = 1..(n + 1)
        /\ revisions'[n + 1] = e /\ e.source = Source(p)
        /\ \A i \in 1..n : revisions'[i] = revisions[i]
    <3>1. revisions' = Append(revisions, e) BY <2>2 DEF Insert
    <3> QED BY <2>3, <3>1, Appended DEF NewRevision
  <2>5. Source(p) \in Sources
    BY DEF Source, Sources, IInv, LogTypes, Procs
  <2>6. \A i \in DOMAIN log : log[i] # Source(p)
    <3>1. parent[p] = n /\ pc[p] = "append" BY <2>2 DEF Insert, Insertable, At
    <3>2. \A i \in 1..n : revisions[i].source # Source(p) BY <3>1 DEF IInv, Unwritten
    <3> QED BY <2>4, <3>2
  <2>7. log' = Append(log, Source(p))
    <3>1. log = [i \in 1..n |-> revisions[i].source] BY <2>4
    <3>2. log' = [i \in 1..(n + 1) |-> revisions'[i].source] BY <2>4
    <3> HIDE DEF log, n
    <3>3. log = [i \in 1..n |-> log[i]] /\ log' = [i \in 1..(n + 1) |-> log'[i]]
      BY <3>1, <3>2
    <3>4. n + 1 \in 1..(n + 1) /\ \A i \in 1..n : i \in 1..(n + 1) BY <2>4
    <3>5. log'[n + 1] = Source(p) /\ \A i \in 1..n : log'[i] = log[i]
      BY <2>4, <3>1, <3>2, <3>4
    <3> QED BY <2>4, <3>3, <3>5, AppendedIs
  <2> QED BY <2>5, <2>6, <2>7 DEF Log!Next
<1> QED BY <1>1, <1>2, StagesInvariant, PTL DEF Spec, ImplementsLog, Log!Spec

-----------------------------------------------------------------------------
(* Induction over the places of a run. *)

LEMMA Least ==
  ASSUME NEW T, T \subseteq Nat, T # {}
  PROVE  \E x \in T : \A y \in T : x <= y
<1> DEFINE Less == OpToRel(<, Nat)
<1>1. IsWellFoundedOn(Less, Nat) BY NatLessThanWellFounded
<1>2. \A x, y \in Nat : <<y, x>> \in Less <=> y < x BY DEF OpToRel
<1> HIDE DEF Less
<1>3. PICK x \in T : \A y \in T : ~(<<y, x>> \in Less) BY <1>1, WFMin
<1>4. x \in Nat /\ \A y \in T : y \in Nat OBVIOUS
<1>5. \A y \in T : ~(y < x) BY <1>2, <1>3, <1>4
<1> QED BY <1>4, <1>5

LEMMA SetInduction ==
  ASSUME NEW S, 0 \in S, \A n \in Nat : n \in S => n + 1 \in S
  PROVE  Nat \subseteq S
<1> DEFINE T == {n \in Nat : n \notin S}
<1>1. CASE T = {} BY <1>1
<1>2. CASE T # {}
  <2>1. T \subseteq Nat OBVIOUS
  <2>2. PICK x \in T : \A y \in T : x <= y
    <3> HIDE DEF T
    <3> QED BY <1>2, <2>1, Least
  <2>3. x # 0 /\ x \in Nat OBVIOUS
  <2>4. x - 1 \in Nat /\ x - 1 \notin T BY <2>2, <2>3
  <2>5. x - 1 \in S BY <2>4
  <2> QED BY <2>3, <2>5
<1> QED BY <1>1, <1>2

\* The run of a request does one stage after the other.
LEMMA RunUnfolds ==
  ASSUME NEW R, NEW ok, NEW token, Len(Order) \in Nat
  PROVE  \E run : /\ run[0] = R /\ RunFrom(R, ok, token) = run[Len(Order)]
                  /\ \A i \in 1..Len(Order) :
                       run[i] = RunStage(run[i - 1], Order[i], ok, token)
<1> DEFINE Step(Q, i) == RunStage(Q, Order[i], ok, token)
<1> DEFINE N == Len(Order)
<1> DEFINE F(g, n) == [i \in 0..n |-> IF i = 0 THEN R ELSE Step(g[i - 1], i)]
<1> DEFINE S == {n \in Nat : \E g : g = F(g, n)}
<1> HIDE DEF Step, N
<1>1. 0 \in S
  <2> DEFINE g == [i \in 0..0 |-> R]
  <2>1. F(g, 0) = g OBVIOUS
  <2> QED BY <2>1
<1>2. ASSUME NEW n \in Nat, n \in S PROVE n + 1 \in S
  <2>1. PICK g : g = F(g, n) BY <1>2
  <2> DEFINE h == [i \in 0..(n + 1) |-> IF i = n + 1 THEN Step(g[n], n + 1) ELSE g[i]]
  <2>2. \A i \in 0..n : h[i] = g[i] OBVIOUS
  <2>3. ASSUME NEW i \in 0..(n + 1)
        PROVE  h[i] = IF i = 0 THEN R ELSE Step(h[i - 1], i)
    <3>1. CASE i = n + 1
      <4>1. h[i] = Step(g[n], n + 1) /\ i - 1 = n /\ h[n] = g[n] BY <3>1, <2>2
      <4> QED BY <4>1, <3>1
    <3>2. CASE i \in 0..n
      <4>1. h[i] = g[i] /\ g[i] = IF i = 0 THEN R ELSE Step(g[i - 1], i)
        BY <2>1, <2>2, <3>2
      <4>2. i # 0 => h[i - 1] = g[i - 1] BY <2>2, <3>2
      <4> QED BY <4>1, <4>2
    <3> QED BY <3>1, <3>2
  <2>4. h = F(h, n + 1) BY <2>3
  <2> HIDE DEF h
  <2> QED BY <2>4
<1>3. N \in S
  <2> HIDE DEF S
  <2>1. Nat \subseteq S BY <1>1, <1>2, SetInduction
  <2> QED BY <2>1 DEF N
<1>4. PICK f : f = F(f, N) BY <1>3
<1> DEFINE run == CHOOSE g : g = F(g, N)
<1>5. run = F(run, N) BY <1>4
<1>6. RunFrom(R, ok, token) = run[N] BY DEF RunFrom, Step, N
<1> HIDE DEF run
<1>7. run[0] = R /\ \A i \in 1..N : run[i] = Step(run[i - 1], i)
  BY <1>5 DEF N
<1> QED BY <1>6, <1>7 DEF Step, N

-----------------------------------------------------------------------------
(* The records of the stages. *)

\* What has succeeded has an output.
WholeRuns == {R \in Runs : \A s \in Stages : Succeeded(R, s) => R[s].output # None}

\* A run in which stage s has the record r, and the others what they had.
LEMMA WithIs ==
  ASSUME NEW R \in Runs, NEW s \in Stages, NEW r
  PROVE  /\ With(R, s, r)[s] = r
         /\ \A t \in Stages \ {s} : With(R, s, r)[t] = R[t]
         /\ r \in Records => With(R, s, r) \in Runs
BY DEF With, Runs

LEMMA WithWhole ==
  ASSUME NEW R \in WholeRuns, NEW s \in Stages, NEW r \in Records,
         r.status = "succeeded" => r.output # None
  PROVE  With(R, s, r) \in WholeRuns
<1>1. R \in Runs BY DEF WholeRuns
<1> QED BY <1>1, WithIs DEF WholeRuns, Succeeded

LEMMA BlockedIs ==
  ASSUME NEW R \in Runs, NEW s \in Stages
  PROVE  Blocked(R, s) \in Records /\ Blocked(R, s).status = "blocked"
<1>1. R[s] \in Records BY DEF Runs
<1> QED BY <1>1 DEF Blocked, Records, Statuses

LEMMA StartedIs ==
  ASSUME NEW R \in Runs, NEW s \in Stages
  PROVE  /\ Started(R, s) \in Records /\ Started(R, s).status = "running"
         /\ Started(R, s).inputs =
              {<<d, R[d].attempt>> : d \in {e \in Deps[s] : R[e].output # None}}
<1> DEFINE I == {<<d, R[d].attempt>> : d \in {e \in Deps[s] : R[e].output # None}}
<1>1. R[s] \in Records BY DEF Runs
<1>2. Deps[s] \subseteq Stages BY StagesAssumption
<1>3. \A d \in Stages : R[d].attempt \in Nat BY DEF Runs, Records
<1>4. I \in SUBSET (Stages \X Nat) BY <1>2, <1>3
<1>5. Started(R, s) = [R[s] EXCEPT !.status = "running", !.attempt = @ + 1,
                                   !.from = {}, !.inputs = I]
  BY DEF Started
<1> HIDE DEF I
<1>6. Started(R, s) \in Records
  <2>1. Started(R, s) = [status |-> "running", attempt |-> R[s].attempt + 1, inputs |-> I,
                         output |-> R[s].output, from |-> {}]
    BY <1>1, <1>5 DEF Records
  <2>2. R[s].attempt + 1 \in Nat /\ R[s].output \in Tokens BY <1>1 DEF Records
  <2>3. {} \in SUBSET (Stages \X Tokens) OBVIOUS
  <2> QED BY <1>4, <2>1, <2>2, <2>3 DEF Records, Statuses
<1>7. Started(R, s).status = "running" /\ Started(R, s).inputs = I
  BY <1>1, <1>5 DEF Records
<1> QED BY <1>6, <1>7 DEF I

LEMMA ProducedIs ==
  ASSUME NEW R \in Runs, NEW s \in Stages, NEW token \in Procs \X (0..MaxRuns \cup {1})
  PROVE  /\ Produced(R, s, token) \in Records /\ Produced(R, s, token).status = "succeeded"
         /\ Produced(R, s, token).output # None
         /\ Produced(R, s, token).inputs = R[s].inputs
         /\ Produced(R, s, token).from = {<<d, R[d].output>> : d \in Reads[s]}
<1> DEFINE F == {<<d, R[d].output>> : d \in Reads[s]}
<1>1. R[s] \in Records BY DEF Runs
<1>2. Reads[s] \subseteq Stages BY StagesAssumption
<1>3. \A d \in Stages : R[d].output \in Tokens BY DEF Runs, Records
<1>4. F \in SUBSET (Stages \X Tokens) BY <1>2, <1>3
<1>5. Produced(R, s, token) =
        [R[s] EXCEPT !.status = "succeeded", !.output = token, !.from = F]
  BY DEF Produced
<1>6. token \in Tokens BY DEF Tokens
<1>7. token # None
  <2>1. MaxRuns \in Nat BY StagesAssumption
  <2>2. 0..MaxRuns \cup {1} \subseteq Nat BY <2>1
  <2>3. token \in Procs \X Nat BY <2>2
  <2> QED BY <2>3, NoneAssumption
<1> HIDE DEF F
<1>8. Produced(R, s, token) \in Records BY <1>1, <1>4, <1>5, <1>6 DEF Records, Statuses
<1>9. /\ Produced(R, s, token).status = "succeeded"
      /\ Produced(R, s, token).output = token
      /\ Produced(R, s, token).inputs = R[s].inputs
      /\ Produced(R, s, token).from = F
  BY <1>1, <1>5 DEF Records
<1> QED BY <1>7, <1>8, <1>9 DEF F

LEMMA FailingIs ==
  ASSUME NEW R \in Runs, NEW s \in Stages
  PROVE  Failing(R, s) \in Records /\ Failing(R, s).status = "failed"
<1>1. R[s] \in Records BY DEF Runs
<1>2. None \in Tokens BY DEF Tokens
<1>3. Failing(R, s).status = "failed" BY <1>1 DEF Failing, Records
<1> QED BY <1>1, <1>2, <1>3 DEF Failing, Records, Statuses

LEMMA FreshIs == Fresh \in WholeRuns /\ \A s \in Stages : ~Succeeded(Fresh, s)
<1>1. None \in Tokens BY DEF Tokens
<1>2. NotStarted \in Records /\ NotStarted.status = "not_started"
  BY <1>1 DEF NotStarted, Records, Statuses
<1> QED BY <1>2 DEF Fresh, WholeRuns, Runs, Succeeded

\* What a run that begins over that of an earlier one keeps of it.
LEMMA ResumedIs ==
  ASSUME NEW R \in WholeRuns, NEW s
  PROVE  /\ Resumed(R, s) \in WholeRuns
         /\ \A t \in Stages :
              IF t \in Closure(s, Stages) THEN ~Succeeded(Resumed(R, s), t)
              ELSE /\ Succeeded(Resumed(R, s), t) <=> Succeeded(R, t)
                   /\ Succeeded(R, t) => Resumed(R, s)[t] = R[t]
<1> DEFINE Q == Resumed(R, s)
<1>1. R \in Runs BY DEF WholeRuns
<1>2. ASSUME NEW t \in Stages
      PROVE  /\ Interrupted(R[t]) \in Records
             /\ Interrupted(R[t]).status = "succeeded" <=> Succeeded(R, t)
             /\ Succeeded(R, t) => Interrupted(R[t]) = R[t]
  <2>1. R[t] \in Records BY <1>1 DEF Runs
  <2> QED BY <2>1 DEF Interrupted, Records, Statuses, Succeeded
<1>3. ASSUME NEW r \in Records
      PROVE  Invalidated(r) \in Records /\ Invalidated(r).status = "not_started"
  <2>1. None \in Tokens BY DEF Tokens
  <2>2. Invalidated(r).status = "not_started" BY DEF Invalidated, Records
  <2> QED BY <2>1, <2>2 DEF Invalidated, Records, Statuses
<1>4. \A t \in Stages :
        Q[t] = IF t \in Closure(s, Stages) THEN Invalidated(Interrupted(R[t]))
               ELSE Interrupted(R[t])
  BY DEF Resumed
<1>5. Q \in Runs
  <2>1. \A t \in Stages : Q[t] \in Records BY <1>2, <1>3, <1>4
  <2>2. Q = [t \in Stages |-> Q[t]] BY DEF Resumed
  <2> HIDE DEF Q
  <2> QED BY <2>1, <2>2 DEF Runs
<1>6. ASSUME NEW t \in Stages
      PROVE  IF t \in Closure(s, Stages) THEN ~Succeeded(Q, t)
             ELSE /\ Succeeded(Q, t) <=> Succeeded(R, t)
                  /\ Succeeded(R, t) => Q[t] = R[t]
  <2> HIDE DEF Q
  <2>1. CASE t \in Closure(s, Stages)
    <3>1. Q[t].status = "not_started" BY <1>2, <1>3, <1>4, <2>1
    <3> QED BY <3>1, <2>1 DEF Succeeded
  <2>2. CASE t \notin Closure(s, Stages)
    <3>1. Q[t] = Interrupted(R[t]) BY <1>4, <2>2
    <3> QED BY <1>2, <3>1, <2>2 DEF Succeeded
  <2> QED BY <2>1, <2>2
<1>7. Q \in WholeRuns
  <2> HIDE DEF Q
  <2> QED BY <1>5, <1>6 DEF WholeRuns
<1> QED BY <1>6, <1>7

\* If one stage that had not succeeded is replaced, and what it holds if it
\* succeeds was made from its dependencies, a consistent run stays consistent.
LEMMA ConsistentStep ==
  ASSUME NEW R, NEW Q, NEW s \in Stages, Consistent(R), ~Succeeded(R, s),
         \A t \in Stages \ {s} : Q[t] = R[t],
         Succeeded(Q, s) => \A d \in Deps[s] :
           /\ Succeeded(R, d) /\ <<d, R[d].attempt>> \in Q[s].inputs
           /\ <<d, R[d].output>> \in Q[s].from
  PROVE  Consistent(Q)
<1> SUFFICES ASSUME NEW t \in Stages, Succeeded(Q, t), NEW d \in Deps[t]
             PROVE  /\ Succeeded(Q, d) /\ <<d, Q[d].attempt>> \in Q[t].inputs
                    /\ <<d, Q[d].output>> \in Q[t].from
  BY DEF Consistent
<1>1. d \in Stages BY StagesAssumption
<1>2. Succeeded(R, d) /\ <<d, R[d].attempt>> \in Q[t].inputs /\ <<d, R[d].output>> \in Q[t].from
  <2>1. CASE t = s BY <2>1
  <2>2. CASE t # s
    <3>1. Q[t] = R[t] /\ Succeeded(R, t) BY <2>2 DEF Succeeded
    <3> QED BY <3>1 DEF Consistent
  <2> QED BY <2>1, <2>2
<1>3. Q[d] = R[d] BY <1>1, <1>2
<1> QED BY <1>2, <1>3 DEF Succeeded

LEMMA RunStageIs ==
  ASSUME NEW Q \in WholeRuns, NEW s \in Stages, NEW ok,
         NEW token \in Procs \X (0..MaxRuns \cup {1})
  PROVE  LET P == RunStage(Q, s, ok, token)
         IN /\ P \in WholeRuns /\ \A t \in Stages \ {s} : P[t] = Q[t]
            /\ Succeeded(Q, s) => P = Q
            /\ ~Succeeded(Q, s) /\ Succeeded(P, s) =>
                 /\ \A d \in Deps[s] :
                      Succeeded(Q, d) /\ <<d, Q[d].attempt>> \in P[s].inputs
                 /\ P[s].from = {<<d, Q[d].output>> : d \in Reads[s]}
<1> DEFINE S == With(Q, s, Started(Q, s))
<1> DEFINE P == RunStage(Q, s, ok, token)
<1>0. Q \in Runs BY DEF WholeRuns
<1>1. /\ S \in Runs /\ S[s] = Started(Q, s) /\ \A t \in Stages \ {s} : S[t] = Q[t]
  BY <1>0, StartedIs, WithIs
<1> SUFFICES /\ P \in WholeRuns /\ \A t \in Stages \ {s} : P[t] = Q[t]
             /\ Succeeded(Q, s) => P = Q
             /\ ~Succeeded(Q, s) /\ Succeeded(P, s) =>
                  /\ \A d \in Deps[s] :
                       Succeeded(Q, d) /\ <<d, Q[d].attempt>> \in P[s].inputs
                  /\ P[s].from = {<<d, Q[d].output>> : d \in Reads[s]}
  OBVIOUS
<1>2. CASE Succeeded(Q, s) BY <1>2 DEF RunStage
<1>3. CASE ~Succeeded(Q, s) /\ Unsatisfied(Q, s) # {}
  <2>1. P = With(Q, s, Blocked(Q, s)) BY <1>3 DEF RunStage
  <2> HIDE DEF P
  <2>2. P \in WholeRuns BY <1>0, <2>1, BlockedIs, WithWhole
  <2>3. P[s] = Blocked(Q, s) /\ \A t \in Stages \ {s} : P[t] = Q[t]
    BY <1>0, <2>1, WithIs
  <2>4. ~Succeeded(P, s) BY <1>0, <2>3, BlockedIs DEF Succeeded
  <2> QED BY <1>3, <2>2, <2>3, <2>4
<1>4. CASE ~Succeeded(Q, s) /\ Unsatisfied(Q, s) = {} /\ s \notin ok
  <2>1. P = With(Q, s, Failing(S, s)) BY <1>4 DEF RunStage
  <2> HIDE DEF P, S
  <2>2. P \in WholeRuns BY <1>1, <2>1, FailingIs, WithWhole
  <2>3. P[s] = Failing(S, s) /\ \A t \in Stages \ {s} : P[t] = Q[t]
    BY <1>0, <2>1, WithIs
  <2>4. ~Succeeded(P, s) BY <1>1, <2>3, FailingIs DEF Succeeded
  <2> QED BY <1>4, <2>2, <2>3, <2>4
<1>5. CASE ~Succeeded(Q, s) /\ Unsatisfied(Q, s) = {} /\ s \in ok
  <2> DEFINE r == Produced(S, s, token)
  <2>1. P = With(Q, s, r) BY <1>5 DEF RunStage
  <2>2. /\ r \in Records /\ r.output # None /\ r.inputs = S[s].inputs
        /\ r.from = {<<d, S[d].output>> : d \in Reads[s]}
    BY <1>1, ProducedIs
  <2>3. s \notin Reads[s] /\ Reads[s] \subseteq Stages /\ Deps[s] \subseteq Stages
    BY StagesAssumption
  <2>4. r.from = {<<d, Q[d].output>> : d \in Reads[s]}
    <3>1. \A d \in Reads[s] : S[d].output = Q[d].output BY <1>1, <2>3
    <3> HIDE DEF S, r
    <3> QED BY <2>2, <3>1
  <2>5. r.inputs = {<<d, Q[d].attempt>> : d \in {e \in Deps[s] : Q[e].output # None}}
    BY <1>0, <1>1, <2>2, StartedIs
  <2> HIDE DEF r, S, P
  <2>6. P \in WholeRuns /\ P[s] = r /\ \A t \in Stages \ {s} : P[t] = Q[t]
    BY <1>0, <2>1, <2>2, WithWhole, WithIs
  <2>7. ASSUME NEW d \in Deps[s]
        PROVE  Succeeded(Q, d) /\ <<d, Q[d].attempt>> \in r.inputs
    <3>1. Succeeded(Q, d) BY <1>5 DEF Unsatisfied
    <3>2. Q[d].output # None BY <2>3, <3>1 DEF WholeRuns
    <3> QED BY <2>5, <3>1, <3>2
  <2> QED BY <1>5, <2>4, <2>6, <2>7
<1> QED BY <1>2, <1>3, <1>4, <1>5

\* The package was made from what the other stages of the run hold.
Packaged(R) ==
  Succeeded(R, Package) => R[Package].from = {<<d, R[d].output>> : d \in Reads[Package]}

LEMMA OrderIs ==
  /\ Len(Order) \in Nat /\ DOMAIN Order = 1..Len(Order)
  /\ \A i \in 1..Len(Order) : Order[i] \in Stages
BY StagesAssumption

\* A run keeps what had succeeded, stays consistent, and packages last.
LEMMA RunFromIs ==
  ASSUME NEW R \in WholeRuns, NEW ok, NEW token \in Procs \X (0..MaxRuns \cup {1})
  PROVE  LET Q == RunFrom(R, ok, token)
         IN /\ Q \in WholeRuns /\ \A s \in Stages : Succeeded(R, s) => Q[s] = R[s]
            /\ Consistent(R) => Consistent(Q)
            /\ ~Succeeded(R, Package) => Packaged(Q)
<1> DEFINE N == Len(Order)
<1>1. N \in Nat /\ DOMAIN Order = 1..N /\ \A i \in 1..N : Order[i] \in Stages
  BY OrderIs
<1>2. PICK run : /\ run[0] = R /\ RunFrom(R, ok, token) = run[N]
                 /\ \A i \in 1..N : run[i] = RunStage(run[i - 1], Order[i], ok, token)
  BY <1>1, RunUnfolds
<1> HIDE DEF N
<1> DEFINE Keeps(Q) == Q \in WholeRuns /\ \A s \in Stages : Succeeded(R, s) => Q[s] = R[s]
<1> DEFINE Agree(Q) == Consistent(R) => Consistent(Q)
<1> DEFINE Last(Q, n) == ~Succeeded(R, Package) /\ Succeeded(Q, Package) =>
                           Packaged(Q) /\ \E i \in 1..n : Order[i] = Package
<1> DEFINE S == {n \in Nat : n <= N => Keeps(run[n]) /\ Agree(run[n]) /\ Last(run[n], n)}
<1>3. 0 \in S BY <1>2
<1>4. ASSUME NEW n \in Nat, n \in S PROVE n + 1 \in S
  <2> SUFFICES ASSUME n + 1 <= N
               PROVE  Keeps(run[n + 1]) /\ Agree(run[n + 1]) /\ Last(run[n + 1], n + 1)
    OBVIOUS
  <2> DEFINE Q == run[n]
  <2> DEFINE P == run[n + 1]
  <2> DEFINE s == Order[n + 1]
  <2>1. n + 1 \in 1..N /\ n <= N /\ (n + 1) - 1 = n BY <1>1
  <2>2. Keeps(Q) /\ Agree(Q) /\ Last(Q, n) BY <1>4, <2>1
  <2>3. s \in Stages /\ P = RunStage(Q, s, ok, token) BY <1>1, <1>2, <2>1
  <2>4. Q \in WholeRuns BY <2>2
  <2> HIDE DEF Q, P, s, S
  <2>5. /\ P \in WholeRuns /\ \A t \in Stages \ {s} : P[t] = Q[t]
        /\ Succeeded(Q, s) => P = Q
        /\ ~Succeeded(Q, s) /\ Succeeded(P, s) =>
             /\ \A d \in Deps[s] : Succeeded(Q, d) /\ <<d, Q[d].attempt>> \in P[s].inputs
             /\ P[s].from = {<<d, Q[d].output>> : d \in Reads[s]}
    BY <2>3, <2>4, RunStageIs
  <2>6. Keeps(P)
    <3> SUFFICES ASSUME NEW t \in Stages, Succeeded(R, t) PROVE P[t] = R[t] BY <2>5
    <3>1. Q[t] = R[t] /\ Succeeded(Q, t) BY <2>2 DEF Succeeded
    <3> QED BY <2>5, <3>1
  <2>7. Agree(P)
    <3>1. CASE Succeeded(Q, s) BY <2>2, <2>5, <3>1
    <3>2. CASE ~Succeeded(Q, s) /\ Consistent(R)
      <4>1. Deps[s] \subseteq Reads[s] BY <2>3, StagesAssumption
      <4>2. Succeeded(P, s) => \A d \in Deps[s] : <<d, Q[d].output>> \in P[s].from
        BY <2>5, <3>2, <4>1
      <4> QED BY <2>2, <2>3, <2>5, <3>2, <4>2, ConsistentStep
    <3> QED BY <3>1, <3>2
  <2>8. Last(P, n + 1)
    <3> SUFFICES ASSUME ~Succeeded(R, Package), Succeeded(P, Package)
                 PROVE  Packaged(P) /\ \E i \in 1..(n + 1) : Order[i] = Package
      OBVIOUS
    <3>1. /\ Package \in Stages /\ Reads[Package] \subseteq Stages
          /\ Package \notin Reads[Package]
      BY StagesAssumption
    <3>2. CASE Succeeded(Q, Package)
      <4>1. PICK i \in 1..n : Order[i] = Package BY <2>2, <3>2
      <4>2. i \in 1..(n + 1) OBVIOUS
      <4>3. Packaged(Q) BY <2>2, <3>2
      <4>4. CASE Succeeded(Q, s) BY <2>5, <4>1, <4>2, <4>3, <4>4
      <4>5. CASE ~Succeeded(Q, s)
        <5>1. s \notin Reads[Package]
          <6>1. i \in DOMAIN Order /\ n + 1 \in DOMAIN Order /\ i < n + 1
            BY <1>1, <2>1
          <6> QED BY <4>1, <6>1, StagesAssumption DEF s
        <5>2. s # Package BY <3>2, <4>5
        <5>3. P[Package] = Q[Package] /\ \A d \in Reads[Package] : P[d] = Q[d]
          BY <2>5, <3>1, <5>1, <5>2
        <5>4. Packaged(P) BY <3>2, <4>3, <5>3 DEF Packaged
        <5> QED BY <4>1, <4>2, <5>4
      <4> QED BY <4>4, <4>5
    <3>3. CASE ~Succeeded(Q, Package)
      <4>1. s = Package BY <2>5, <3>1, <3>3 DEF Succeeded
      <4>2. P[Package].from = {<<d, Q[d].output>> : d \in Reads[Package]}
        BY <2>5, <3>3, <4>1
      <4>3. \A d \in Reads[Package] : P[d].output = Q[d].output BY <2>5, <3>1, <4>1
      <4>4. Packaged(P) BY <4>2, <4>3 DEF Packaged
      <4>5. n + 1 \in 1..(n + 1) /\ Order[n + 1] = Package BY <4>1 DEF s
      <4> QED BY <4>4, <4>5
    <3> QED BY <3>2, <3>3
  <2> QED BY <2>6, <2>7, <2>8 DEF P
<1>5. N \in S
  <2> HIDE DEF S
  <2>1. Nat \subseteq S BY <1>3, <1>4, SetInduction
  <2> QED BY <1>1, <2>1
<1>6. Keeps(run[N]) /\ Agree(run[N]) /\ Last(run[N], N) BY <1>1, <1>5
<1> QED BY <1>2, <1>6 DEF Packaged

\* Stages that have succeeded are passed over, and no other.
LEMMA NextAtIs ==
  ASSUME NEW R, NEW i \in 1..(Len(Order) + 1)
  PROVE  /\ NextAt(R, i) \in 1..(Len(Order) + 1)
         /\ NextAt(R, i) <= Len(Order) => ~Succeeded(R, Order[NextAt(R, i)])
<1> DEFINE N == Len(Order)
<1> DEFINE T == {j \in i..(N + 1) : j <= N => ~Succeeded(R, Order[j])}
<1>1. N \in Nat BY OrderIs
<1>2. N + 1 \in T /\ T \subseteq Nat BY <1>1
<1>3. PICK j \in T : \A k \in T : j <= k
  <2> HIDE DEF T
  <2> QED BY <1>2, Least
<1>4. \A k \in i..(j - 1) : Succeeded(R, Order[k])
  <2> SUFFICES ASSUME NEW k \in i..(j - 1), ~Succeeded(R, Order[k]) PROVE FALSE OBVIOUS
  <2>1. j \in i..(N + 1) BY <1>3
  <2>2. k \in i..(N + 1) /\ k < j BY <1>1, <2>1
  <2>3. k \in T BY <2>2
  <2> QED BY <1>1, <1>3, <2>1, <2>2, <2>3
<1>5. NextAt(R, i) \in i..(N + 1) /\ (NextAt(R, i) <= N => ~Succeeded(R, Order[NextAt(R, i)]))
  BY <1>3, <1>4 DEF NextAt
<1> QED BY <1>1, <1>5

\* With a stage, the closure has its dependents, but for those of the package.
LEMMA ClosureUp ==
  ASSUME NEW s, NEW present \in SUBSET Stages, NEW u \in present,
         NEW d \in Deps[u], d \in Closure(s, present)
  PROVE  u \in Closure(s, present)
<1>1. u \in Stages /\ d # Package
  BY StagesAssumption
<1>2. s # None BY DEF Closure
<1>3. \A C \in SUBSET Stages :
        (s \in C /\ \A v \in present : Deps[v] \cap C # {} => v \in C) => d \in C
  BY <1>1, <1>2 DEF Closure
<1>4. ASSUME NEW C \in SUBSET Stages,
             s \in C /\ \A v \in present : Deps[v] \cap C # {} => v \in C
      PROVE  u \in C
  BY <1>3, <1>4
<1> QED BY <1>1, <1>2, <1>4 DEF Closure

LEMMA ClosureWithin ==
  ASSUME NEW s, NEW present, NEW C \in SUBSET Stages, s \in C,
         \A u \in present : Deps[u] \cap C # {} => u \in C
  PROVE  Closure(s, present) \subseteq C \cup {Package}
BY DEF Closure

LEMMA ResumedConsistent ==
  ASSUME NEW R \in WholeRuns, Consistent(R), NEW s
  PROVE  Consistent(Resumed(R, s))
<1> DEFINE Q == Resumed(R, s)
<1>1. \A t \in Stages :
        IF t \in Closure(s, Stages) THEN ~Succeeded(Q, t)
        ELSE /\ Succeeded(Q, t) <=> Succeeded(R, t)
             /\ Succeeded(R, t) => Q[t] = R[t]
  BY ResumedIs
<1> HIDE DEF Q
<1> SUFFICES ASSUME NEW t \in Stages, Succeeded(Q, t), NEW d \in Deps[t]
             PROVE  /\ Succeeded(Q, d) /\ <<d, Q[d].attempt>> \in Q[t].inputs
                    /\ <<d, Q[d].output>> \in Q[t].from
  BY DEF Consistent, Q
<1>2. d \in Stages BY StagesAssumption
<1>3. t \notin Closure(s, Stages) /\ Succeeded(R, t) /\ Q[t] = R[t] BY <1>1
<1>4. d \notin Closure(s, Stages) BY <1>3, ClosureUp
<1>5. /\ Succeeded(R, d) /\ <<d, R[d].attempt>> \in R[t].inputs
      /\ <<d, R[d].output>> \in R[t].from
  BY <1>3 DEF Consistent
<1>6. Succeeded(Q, d) /\ Q[d] = R[d] BY <1>1, <1>2, <1>4, <1>5
<1> QED BY <1>3, <1>5, <1>6

\* Nothing that has succeeded depends on a stage that has not.
LEMMA ResumedKeeps ==
  ASSUME NEW R \in WholeRuns, NEW s \in Stages \cup {None},
         s # None => Consistent(R) /\ ~Succeeded(R, s)
  PROVE  \A t \in Stages \ {Package} : Succeeded(R, t) => Resumed(R, s)[t] = R[t]
<1> SUFFICES ASSUME NEW t \in Stages \ {Package}, Succeeded(R, t)
             PROVE  t \notin Closure(s, Stages)
  BY ResumedIs
<1>1. CASE s = None BY <1>1 DEF Closure
<1>2. CASE s # None
  <2> DEFINE C == {u \in Stages : ~Succeeded(R, u)}
  <2>1. s \in C /\ C \in SUBSET Stages BY <1>2
  <2>2. \A u \in Stages : Deps[u] \cap C # {} => u \in C BY <1>2 DEF Consistent
  <2>3. Closure(s, Stages) \subseteq C \cup {Package}
    <3> HIDE DEF C
    <3> QED BY <2>1, <2>2, ClosureWithin
  <2> QED BY <2>3
<1> QED BY <1>1, <1>2

LEMMA AgreesConsistent ==
  ASSUME NEW R, Agrees(R), Consistent(checkpoints)
  PROVE  Consistent(R)
<1> SUFFICES ASSUME NEW t \in Stages, Succeeded(R, t), NEW d \in Deps[t]
             PROVE  /\ Succeeded(R, d) /\ <<d, R[d].attempt>> \in R[t].inputs
                    /\ <<d, R[d].output>> \in R[t].from
  BY DEF Consistent
<1>1. d \in Stages BY StagesAssumption
<1>2. Succeeded(checkpoints, t) /\ R[t] = checkpoints[t] BY DEF Agrees
<1>3. /\ Succeeded(checkpoints, d) /\ <<d, checkpoints[d].attempt>> \in R[t].inputs
      /\ <<d, checkpoints[d].output>> \in R[t].from
  BY <1>2 DEF Consistent
<1>4. Succeeded(R, d) /\ R[d] = checkpoints[d] BY <1>1, <1>3 DEF Agrees
<1> QED BY <1>3, <1>4

-----------------------------------------------------------------------------
(* Types: with TypeOK, every stage that has succeeded has an output, a stage *)
(* in production has its place, and finitely many requests have begun.       *)

Revisions == [source : Sources, rec : WholeRuns, retry : Stages \cup {None}]

LogTyped ==
  /\ revisions \in Seq(Revisions) /\ job \in [Requests -> Jobs]
  /\ parent \in [Procs -> 0..Len(revisions)] /\ outcome \in [Procs -> 0..Len(revisions)]

PlanTyped ==
  /\ planStatus \in {"planned", "running", "succeeded", "partial", "failed"}
  /\ attempt \in 1..MaxAttempts /\ checkpoints \in WholeRuns
  /\ prior \in WholeRuns \cup {None} /\ result \in WholeRuns \cup {None}
  /\ retryStage \in Stages \cup {None}
  /\ executions \in 0..MaxRuns /\ faults \in 0..MaxFaults /\ drifted \in BOOLEAN

MemoryTyped ==
  /\ pc \in [Procs -> {"idle", "stages", "producing", "append", "result", "done"}]
  /\ rec \in [Procs -> WholeRuns] /\ base \in [Procs -> WholeRuns]
  /\ at \in [Procs -> 1..(Len(Order) + 1)] /\ retrying \in [Procs -> Stages \cup {None}]
  /\ pc[Worker] = "producing" => at[Worker] <= Len(Order)

FewBegun == IsFiniteSet({q \in Requests : pc[q] # "idle"})

TypeInv == LogTyped /\ PlanTyped /\ MemoryTyped /\ FewBegun

LEMMA TypeInvTypes == TypeInv => TypeOK
<1> SUFFICES ASSUME TypeInv PROVE TypeOK OBVIOUS
<1> USE DEF TypeInv, LogTyped, PlanTyped, MemoryTyped
<1>1. WholeRuns \subseteq Runs BY DEF WholeRuns
<1>2. revisions \in Seq([source : Sources, rec : Runs, retry : Stages \cup {None}])
  <2> DEFINE T == [source : Sources, rec : Runs, retry : Stages \cup {None}]
  <2>1. Revisions \subseteq T BY <1>1 DEF Revisions
  <2> HIDE DEF T
  <2>2. revisions \in Seq(T) BY <2>1
  <2> QED BY <2>2 DEF T
<1>3. /\ checkpoints \in Runs /\ prior \in Runs \cup {None} /\ result \in Runs \cup {None}
      /\ rec \in [Procs -> Runs] /\ base \in [Procs -> Runs]
  BY <1>1
<1> QED BY <1>2, <1>3 DEF TypeOK

LEMMA LogIs ==
  ASSUME LogTyped
  PROVE  /\ Len(revisions) \in Nat /\ DOMAIN revisions = 1..Len(revisions)
         /\ \A i \in 1..Len(revisions) : revisions[i] \in Revisions
         /\ \A x : BySource(x) \subseteq 1..Len(revisions)
BY DEF LogTyped, BySource

LEMMA InitTyped == Init => TypeInv
<1> SUFFICES ASSUME Init PROVE TypeInv OBVIOUS
<1>1. revisions \in Seq(Revisions) /\ Len(revisions) = 0 BY DEF Init
<1>2. LogTyped BY <1>1 DEF Init, LogTyped
<1>3. PlanTyped
  <2>1. MaxAttempts \in Nat \ {0} /\ MaxRuns \in Nat /\ MaxFaults \in Nat
    BY StagesAssumption
  <2>2. Fresh \in WholeRuns BY FreshIs
  <2>3. /\ planStatus = "planned" /\ attempt = 1 /\ checkpoints = Fresh /\ prior = None
        /\ retryStage = None /\ result = None /\ executions = 0 /\ faults = 0
    BY DEF Init
  <2>4. drifted \in BOOLEAN BY DEF Init
  <2> QED BY <2>1, <2>2, <2>3, <2>4 DEF PlanTyped
<1>4. MemoryTyped
  <2>1. 1 \in 1..(Len(Order) + 1) /\ Worker \in Procs BY OrderIs DEF Procs
  <2> QED BY <2>1, FreshIs DEF Init, MemoryTyped
<1>5. FewBegun
  <2>1. {q \in Requests : pc[q] # "idle"} = {} BY DEF Init, Procs
  <2> QED BY <2>1, FS_EmptySet DEF FewBegun
<1> QED BY <1>2, <1>3, <1>4, <1>5 DEF TypeInv

LEMMA GotoFew ==
  ASSUME NEW p \in Procs, NEW l, MemoryTyped, FewBegun, Goto(p, l)
  PROVE  FewBegun'
<1> DEFINE B == {q \in Requests : pc[q] # "idle"}
<1> DEFINE C == {q \in Requests : pc'[q] # "idle"}
<1>1. C \subseteq B \cup {p} BY DEF Goto, MemoryTyped, Procs
<1>2. IsFiniteSet(B \cup {p}) BY FS_AddElement DEF FewBegun
<1> HIDE DEF B
<1>3. IsFiniteSet(C) BY <1>1, <1>2, FS_Subset
<1> QED BY <1>3 DEF FewBegun

\* The steps into a run and out of it.
LEMMA EnterTyped ==
  ASSUME NEW p \in Procs, NEW B \in WholeRuns, NEW R \in WholeRuns,
         NEW s \in Stages \cup {None}, NEW i \in 1..(Len(Order) + 1),
         MemoryTyped, FewBegun, Enter(p, B, R, s, i)
  PROVE  MemoryTyped' /\ FewBegun' /\ UNCHANGED <<parent, outcome>>
<1>1. Goto(p, "stages") /\ UNCHANGED <<parent, outcome>> BY DEF Enter
<1>2. FewBegun' BY <1>1, GotoFew
<1>3. MemoryTyped' BY DEF Enter, MemoryTyped, Goto
<1> QED BY <1>1, <1>2, <1>3

LEMMA ForgetTyped ==
  ASSUME NEW p \in Procs, NEW l \in {"idle", "done"}, LogTyped, MemoryTyped, FewBegun,
         Forget(p), Goto(p, l), Len(revisions') >= Len(revisions), Len(revisions') \in Nat
  PROVE  /\ MemoryTyped' /\ FewBegun'
         /\ parent' \in [Procs -> 0..Len(revisions')]
         /\ outcome' \in [Procs -> 0..Len(revisions')]
<1>1. Fresh \in WholeRuns BY FreshIs
<1>2. 1 \in 1..(Len(Order) + 1) BY OrderIs
<1>3. FewBegun' BY GotoFew
<1>4. MemoryTyped' BY <1>1, <1>2 DEF Forget, Goto, MemoryTyped
<1>5. Len(revisions) \in Nat BY LogIs
<1>6. parent' = [parent EXCEPT ![p] = 0] /\ outcome' = [outcome EXCEPT ![p] = 0]
  BY DEF Forget
<1>7. 0..Len(revisions) \subseteq 0..Len(revisions') BY <1>5
<1>8. /\ parent' \in [Procs -> 0..Len(revisions')]
      /\ outcome' \in [Procs -> 0..Len(revisions')]
  BY <1>5, <1>6, <1>7 DEF LogTyped
<1> QED BY <1>3, <1>4, <1>8

LEMMA PriorRunIs == TypeInv => PriorRun \in WholeRuns
<1> SUFFICES ASSUME TypeInv PROVE PriorRun \in WholeRuns OBVIOUS
<1>1. revisions # << >> => revisions[Len(revisions)].rec \in WholeRuns
  <2>1. revisions \in Seq(Revisions) BY DEF TypeInv, LogTyped
  <2>2. revisions # << >> => revisions[Len(revisions)] \in Revisions BY <2>1
  <2> QED BY <2>2 DEF Revisions
<1> QED BY <1>1, FreshIs DEF PriorRun, TypeInv, PlanTyped

LEMMA TokenIs == ASSUME TypeInv, NEW p \in Procs
                 PROVE  Token(p) \in Procs \X (0..MaxRuns \cup {1})
BY DEF Token, TypeInv, PlanTyped

LEMMA AnotherRunIs == TypeInv /\ AnotherRun => executions + 1 \in 0..MaxRuns
<1> SUFFICES ASSUME TypeInv, AnotherRun PROVE executions + 1 \in 0..MaxRuns OBVIOUS
<1> DEFINE B == {q \in Requests : pc[q] # "idle"}
<1>1. Cardinality(B) \in Nat BY FS_CardinalityType DEF TypeInv, FewBegun
<1>2. executions + Cardinality(B) < MaxRuns BY DEF AnotherRun, RunsBegun
<1> HIDE DEF B
<1>3. executions \in Nat /\ MaxRuns \in Nat BY StagesAssumption DEF TypeInv, PlanTyped
<1> QED BY <1>1, <1>2, <1>3

LEMMA ExecuteTyped == TypeInv /\ Execute => TypeInv'
<1> SUFFICES ASSUME TypeInv, Execute PROVE TypeInv' OBVIOUS
<1>0. Worker \in Procs BY DEF Procs
<1>1. /\ UNCHANGED <<revisions, job, attempt, checkpoints, prior, retryStage, result, faults>>
      /\ planStatus' = "running" /\ executions' \in 0..MaxRuns
  BY AnotherRunIs DEF Execute
<1>2. CASE /\ BySource(Source(Worker)) # {}
           /\ outcome' = [outcome EXCEPT ![Worker] =
                            CHOOSE i \in BySource(Source(Worker)) : TRUE]
           /\ Goto(Worker, "result")
           /\ UNCHANGED <<rec, at, base, retrying, parent, drifted>>
  <2>1. (CHOOSE i \in BySource(Source(Worker)) : TRUE) \in 0..Len(revisions)
    BY <1>2, LogIs DEF TypeInv
  <2>2. LogTyped' BY <1>1, <1>2, <2>1 DEF TypeInv, LogTyped
  <2>3. PlanTyped' BY <1>1, <1>2 DEF TypeInv, PlanTyped
  <2>4. MemoryTyped' BY <1>0, <1>2 DEF TypeInv, MemoryTyped, Goto
  <2>5. FewBegun' BY <1>0, <1>2, GotoFew DEF TypeInv
  <2> QED BY <2>2, <2>3, <2>4, <2>5 DEF TypeInv
<1>3. CASE LET R == Resumed(PriorRun, retryStage)
           IN Enter(Worker, PriorRun, R, retryStage, NextAt(R, 1))
              /\ drifted' = (drifted \/ ~Agrees(R))
  <2> DEFINE R == Resumed(PriorRun, retryStage)
  <2>1. PriorRun \in WholeRuns BY PriorRunIs
  <2>2. R \in WholeRuns BY <2>1, ResumedIs
  <2>3. NextAt(R, 1) \in 1..(Len(Order) + 1)
    <3>1. 1 \in 1..(Len(Order) + 1) BY OrderIs
    <3> QED BY <3>1, NextAtIs
  <2>4. retryStage \in Stages \cup {None} BY DEF TypeInv, PlanTyped
  <2>5. Enter(Worker, PriorRun, R, retryStage, NextAt(R, 1)) /\ drifted' \in BOOLEAN
    BY <1>3
  <2> HIDE DEF R
  <2>6. MemoryTyped' /\ FewBegun' /\ UNCHANGED <<parent, outcome>>
    BY <1>0, <2>1, <2>2, <2>3, <2>4, <2>5, EnterTyped DEF TypeInv
  <2>7. LogTyped' BY <1>1, <2>6 DEF TypeInv, LogTyped
  <2>8. PlanTyped' BY <1>1, <2>5 DEF TypeInv, PlanTyped
  <2> QED BY <2>6, <2>7, <2>8 DEF TypeInv
<1> QED BY <1>2, <1>3 DEF Execute

\* What the worker makes of a stage.
LEMMA StageStep ==
  ASSUME TypeInv, NEW s \in Stages, NEW r,
         r \in {Blocked(rec[Worker], s), Started(rec[Worker], s),
                Produced(rec[Worker], s, Token(Worker)), Failing(rec[Worker], s)},
         Report(s, r)
  PROVE  /\ With(rec[Worker], s, r) \in WholeRuns /\ checkpoints' \in WholeRuns
         /\ rec' = [rec EXCEPT ![Worker] = With(rec[Worker], s, r)]
         /\ rec' \in [Procs -> WholeRuns]
<1>0. Worker \in Procs /\ Token(Worker) \in Procs \X (0..MaxRuns \cup {1})
  BY TokenIs DEF Procs
<1>1. rec[Worker] \in WholeRuns /\ rec[Worker] \in Runs
  BY <1>0 DEF TypeInv, MemoryTyped, WholeRuns
<1>2. r \in Records /\ (r.status = "succeeded" => r.output # None)
  <2>1. CASE r = Blocked(rec[Worker], s) BY <1>1, <2>1, BlockedIs
  <2>2. CASE r = Started(rec[Worker], s) BY <1>1, <2>2, StartedIs
  <2>3. CASE r = Produced(rec[Worker], s, Token(Worker)) BY <1>0, <1>1, <2>3, ProducedIs
  <2>4. CASE r = Failing(rec[Worker], s) BY <1>1, <2>4, FailingIs
  <2> QED BY <2>1, <2>2, <2>3, <2>4
<1>3. With(rec[Worker], s, r) \in WholeRuns BY <1>1, <1>2, WithWhole
<1>4. checkpoints' \in WholeRuns
  <2>1. checkpoints' = With(checkpoints, s, r) BY DEF Report
  <2> QED BY <1>2, <2>1, WithWhole DEF TypeInv, PlanTyped
<1>5. rec' = [rec EXCEPT ![Worker] = With(rec[Worker], s, r)] BY DEF Report
<1> QED BY <1>0, <1>3, <1>4, <1>5 DEF TypeInv, MemoryTyped

LEMMA StageTyped ==
  ASSUME TypeInv, WorkerBlocks \/ WorkerStarts \/ WorkerEndsStage
  PROVE  TypeInv' /\ UNCHANGED <<parent, outcome>>
<1> DEFINE s == Order[at[Worker]]
<1>0. Worker \in Procs BY DEF Procs
<1>1. at[Worker] \in 1..Len(Order) /\ s \in Stages
  <2>1. at[Worker] \in 1..(Len(Order) + 1) BY <1>0 DEF TypeInv, MemoryTyped
  <2>2. at[Worker] <= Len(Order)
    BY DEF WorkerBlocks, WorkerStarts, WorkerEndsStage, AtStage, At, TypeInv, MemoryTyped
  <2> QED BY <2>1, <2>2, OrderIs
<1>2. UNCHANGED <<revisions, job, planStatus, attempt, prior, retryStage, result,
                  executions, faults, base, retrying, parent, outcome, drifted>>
  BY DEF WorkerBlocks, WorkerStarts, WorkerEndsStage
<1>3. PICK r : /\ r \in {Blocked(rec[Worker], s), Started(rec[Worker], s),
                         Produced(rec[Worker], s, Token(Worker)), Failing(rec[Worker], s)}
               /\ Report(s, r)
               /\ \/ Pass(s, r) /\ (UNCHANGED pc \/ Goto(Worker, "stages"))
                  \/ UNCHANGED at /\ Goto(Worker, "producing")
  <2>1. CASE WorkerBlocks BY <2>1 DEF WorkerBlocks, Stage
  <2>2. CASE WorkerStarts BY <2>2 DEF WorkerStarts, Stage
  <2>3. CASE WorkerEndsStage BY <2>3 DEF WorkerEndsStage, Stage
  <2> QED BY <2>1, <2>2, <2>3
<1> HIDE DEF s
<1>4. rec' \in [Procs -> WholeRuns] /\ checkpoints' \in WholeRuns BY <1>1, <1>3, StageStep
<1>5. at' \in [Procs -> 1..(Len(Order) + 1)]
  <2>1. at[Worker] + 1 \in 1..(Len(Order) + 1) BY <1>1, OrderIs
  <2>2. Pass(s, r) => at' = [at EXCEPT ![Worker] =
                               NextAt(With(rec[Worker], s, r), at[Worker] + 1)]
    BY DEF Pass
  <2>3. NextAt(With(rec[Worker], s, r), at[Worker] + 1) \in 1..(Len(Order) + 1)
    BY <2>1, NextAtIs
  <2> QED BY <1>3, <2>2, <2>3 DEF TypeInv, MemoryTyped
<1>6. pc' \in [Procs -> {"idle", "stages", "producing", "append", "result", "done"}]
  BY <1>3 DEF Goto, TypeInv, MemoryTyped
<1>7. pc'[Worker] = "producing" => at'[Worker] <= Len(Order)
  <2>1. CASE Pass(s, r) /\ UNCHANGED pc
    <3>1. pc[Worker] # "producing" \/ WorkerEndsStage
      BY DEF WorkerBlocks, WorkerStarts, AtStage
    <3>2. WorkerEndsStage => pc'[Worker] = "stages"
      BY <1>0 DEF WorkerEndsStage, Goto, TypeInv, MemoryTyped
    <3> QED BY <2>1, <3>1, <3>2
  <2>2. CASE Goto(Worker, "stages") BY <1>0, <2>2 DEF Goto, TypeInv, MemoryTyped
  <2>3. CASE UNCHANGED at BY <1>1, <2>3
  <2> QED BY <1>3, <2>1, <2>2, <2>3
<1>8. MemoryTyped' BY <1>2, <1>4, <1>5, <1>6, <1>7 DEF TypeInv, MemoryTyped
<1>9. FewBegun'
  <2>1. CASE UNCHANGED pc BY <2>1 DEF TypeInv, FewBegun
  <2>2. CASE \E l : Goto(Worker, l) BY <1>0, <2>2, GotoFew DEF TypeInv
  <2> QED BY <1>3, <2>1, <2>2
<1>10. LogTyped' BY <1>2 DEF TypeInv, LogTyped
<1>11. PlanTyped' BY <1>2, <1>4 DEF TypeInv, PlanTyped
<1> QED BY <1>2, <1>8, <1>9, <1>10, <1>11 DEF TypeInv

LEMMA RaiseTyped == TypeInv /\ (ReportRaises \/ PublishRaises) => TypeInv'
<1> SUFFICES ASSUME TypeInv, ReportRaises \/ PublishRaises PROVE TypeInv' OBVIOUS
<1>0. Worker \in Procs BY DEF Procs
<1>1. /\ UNCHANGED <<revisions, job, plan, executions, rec, at, base, retrying, parent, drifted>>
      /\ faults' = faults + 1 /\ faults < MaxFaults
      /\ UNCHANGED pc \/ Goto(Worker, "result")
      /\ UNCHANGED outcome \/ outcome' = [outcome EXCEPT ![Worker] = 0]
  BY DEF ReportRaises, PublishRaises, Fault, memory
<1>2. LogTyped'
  <2>1. 0 \in 0..Len(revisions) BY LogIs DEF TypeInv
  <2> QED BY <1>0, <1>1, <2>1 DEF TypeInv, LogTyped
<1>3. PlanTyped'
  <2>1. faults' \in 0..MaxFaults BY <1>1, StagesAssumption DEF TypeInv, PlanTyped
  <2> QED BY <1>1, <2>1 DEF TypeInv, PlanTyped, plan
<1>4. MemoryTyped' BY <1>0, <1>1 DEF TypeInv, MemoryTyped, Goto
<1>5. FewBegun'
  <2>1. CASE UNCHANGED pc BY <2>1 DEF TypeInv, FewBegun
  <2>2. CASE Goto(Worker, "result") BY <1>0, <2>2, GotoFew DEF TypeInv
  <2> QED BY <1>1, <2>1, <2>2
<1> QED BY <1>2, <1>3, <1>4, <1>5 DEF TypeInv

LEMMA LeaveTyped == TypeInv /\ (Finish \/ Crash) => TypeInv'
<1> SUFFICES ASSUME TypeInv, Finish \/ Crash PROVE TypeInv' OBVIOUS
<1>0. Worker \in Procs /\ Len(revisions) \in Nat BY LogIs DEF Procs, TypeInv
<1>1. /\ UNCHANGED <<revisions, job, attempt, checkpoints, prior, retryStage,
                     executions, drifted>>
      /\ Goto(Worker, "idle") /\ Forget(Worker)
  BY DEF Finish, Crash, plan
<1>2. /\ MemoryTyped' /\ FewBegun'
      /\ parent' \in [Procs -> 0..Len(revisions')]
      /\ outcome' \in [Procs -> 0..Len(revisions')]
  BY <1>0, <1>1, ForgetTyped DEF TypeInv
<1>3. LogTyped' BY <1>1, <1>2 DEF TypeInv, LogTyped
<1>4. /\ planStatus' \in {"planned", "running", "succeeded", "partial", "failed"}
      /\ result' \in WholeRuns \cup {None} /\ faults' \in 0..MaxFaults
  <2>1. CASE Crash
    <3>1. faults' \in 0..MaxFaults
      BY <2>1, StagesAssumption DEF Crash, Fault, TypeInv, PlanTyped
    <3> QED BY <2>1, <3>1 DEF Crash, plan, TypeInv, PlanTyped
  <2>2. CASE Finish
    <3>1. faults' = faults BY <2>2 DEF Finish
    <3>2. CASE outcome[Worker] = 0
      BY <2>2, <3>1, <3>2 DEF Finish, TypeInv, PlanTyped
    <3>3. CASE outcome[Worker] # 0
      <4> DEFINE R == revisions[outcome[Worker]].rec
      <4>1. outcome[Worker] \in 1..Len(revisions) BY <1>0, <3>3 DEF TypeInv, LogTyped
      <4>2. R \in WholeRuns BY <4>1, LogIs DEF TypeInv, Revisions
      <4>3. planStatus' = RunStatus(R) /\ result' \in {None, R}
        BY <2>2, <3>3 DEF Finish
      <4>4. RunStatus(R) \in {"failed", "succeeded", "partial"} BY DEF RunStatus
      <4> QED BY <3>1, <4>2, <4>3, <4>4 DEF TypeInv, PlanTyped
    <3> QED BY <3>2, <3>3
  <2> QED BY <2>1, <2>2
<1>5. PlanTyped' BY <1>1, <1>4 DEF TypeInv, PlanTyped
<1> QED BY <1>2, <1>3, <1>5 DEF TypeInv

\* The progress of a plan once the job of stage s has been reset.
Dropped(s, R) ==
  [t \in Stages |-> IF t \in Closure(s, Present(R)) THEN NotStarted ELSE checkpoints[t]]

LEMMA ResetIs ==
  ASSUME TypeInv, Reset
  PROVE  /\ planStatus \in {"failed", "partial"} /\ planStatus' = "planned"
         /\ attempt' = attempt + 1 /\ attempt' \in 1..MaxAttempts /\ result' = None
         /\ UNCHANGED <<revisions, job, executions, faults, pc, memory, drifted>>
         /\ \/ UNCHANGED <<checkpoints, prior, retryStage>>
            \/ \E R \in {result, checkpoints} \cap WholeRuns :
                 /\ R = result => result # None
                 /\ prior' = R /\ prior' # None
                 /\ retryStage' \in FailedIn(R) \cup {None}
                 /\ checkpoints' = Dropped(retryStage', R)
<1> DEFINE R == IF result # None THEN result ELSE checkpoints
<1>1. /\ planStatus \in {"failed", "partial"} /\ planStatus' = "planned"
      /\ attempt' = attempt + 1 /\ attempt < MaxAttempts /\ result' = None
      /\ UNCHANGED <<revisions, job, executions, faults, pc, memory, drifted>>
      /\ \/ UNCHANGED <<checkpoints, prior, retryStage>>
         \/ /\ prior' = R
            /\ \E s \in (IF FailedIn(R) = {} THEN {None} ELSE FailedIn(R)) :
                 retryStage' = s /\ checkpoints' = Dropped(s, R)
  BY DEF Reset, Dropped
<1>2. attempt' \in 1..MaxAttempts BY <1>1, StagesAssumption DEF TypeInv, PlanTyped
<1>3. R \in WholeRuns BY DEF TypeInv, PlanTyped
<1>4. R # None BY <1>3, NoneAssumption DEF WholeRuns
<1>5. R = result => result # None BY <1>4
<1>6. R \in {result, checkpoints} OBVIOUS
<1> HIDE DEF R
<1> QED BY <1>1, <1>2, <1>3, <1>4, <1>5, <1>6

\* What a reset leaves of the checkpoints.
LEMMA DroppedIs ==
  ASSUME TypeInv, NEW s, NEW R
  PROVE  /\ Dropped(s, R) \in WholeRuns
         /\ \A t \in Stages :
              IF t \in Closure(s, Present(R)) THEN ~Succeeded(Dropped(s, R), t)
              ELSE Dropped(s, R)[t] = checkpoints[t]
<1> DEFINE D == Dropped(s, R)
<1> DEFINE C == Closure(s, Present(R))
<1>1. checkpoints \in WholeRuns /\ checkpoints \in Runs
  BY DEF TypeInv, PlanTyped, WholeRuns
<1>2. Fresh \in Runs /\ \A t \in Stages : Fresh[t] = NotStarted
  BY FreshIs DEF WholeRuns, Fresh
<1>3. NotStarted.status = "not_started" BY DEF NotStarted
<1>4. D = [t \in Stages |-> D[t]]
      /\ \A t \in Stages : D[t] = IF t \in C THEN NotStarted ELSE checkpoints[t]
  BY DEF Dropped
<1> HIDE DEF D, C
<1>5. D \in Runs BY <1>1, <1>2, <1>4 DEF Runs
<1>6. \A t \in Stages : IF t \in C THEN ~Succeeded(D, t) ELSE D[t] = checkpoints[t]
  BY <1>3, <1>4 DEF Succeeded
<1>7. D \in WholeRuns BY <1>1, <1>5, <1>6 DEF WholeRuns, Succeeded
<1> QED BY <1>6, <1>7 DEF C, D

LEMMA ResetTyped == TypeInv /\ Reset => TypeInv'
<1> SUFFICES ASSUME TypeInv, Reset PROVE TypeInv' OBVIOUS
<1>1. /\ planStatus' = "planned" /\ attempt' \in 1..MaxAttempts /\ result' = None
      /\ UNCHANGED <<revisions, job, executions, faults, pc, memory, drifted>>
  BY ResetIs
<1>2. LogTyped' /\ MemoryTyped' /\ FewBegun'
  BY <1>1 DEF TypeInv, LogTyped, MemoryTyped, FewBegun, memory
<1>3. /\ checkpoints' \in WholeRuns /\ prior' \in WholeRuns \cup {None}
      /\ retryStage' \in Stages \cup {None}
  <2>1. CASE UNCHANGED <<checkpoints, prior, retryStage>>
    BY <2>1 DEF TypeInv, PlanTyped
  <2>2. ASSUME NEW R \in WholeRuns, prior' = R,
               retryStage' \in FailedIn(R) \cup {None}, checkpoints' = Dropped(retryStage', R)
        PROVE  /\ checkpoints' \in WholeRuns /\ prior' \in WholeRuns \cup {None}
               /\ retryStage' \in Stages \cup {None}
    BY <2>2, DroppedIs DEF FailedIn
  <2> QED BY <2>1, <2>2, ResetIs
<1>4. PlanTyped' BY <1>1, <1>3 DEF TypeInv, PlanTyped
<1> QED BY <1>2, <1>4 DEF TypeInv

\* What a request begins with and what it has when its stages are done.
LEMMA RequestIs ==
  ASSUME TypeInv, NEW q \in Requests, RequestStep(q)
  PROVE  /\ pc[q] = "idle"
         /\ UNCHANGED <<revisions, job, plan, executions, faults, drifted>>
         /\ \E B \in WholeRuns, s, r \in Stages \cup {None}, ok \in SUBSET Stages :
              /\ Enter(q, B, RunFrom(Resumed(B, r), ok, Token(q)), s, Len(Order) + 1)
              /\ \/ B = Fresh
                 \/ /\ revisions # << >> /\ B = revisions[Len(revisions)].rec
                    /\ \/ r = None /\ revisions[Len(revisions)].source = Source(q)
                       \/ r \in Stages /\ ~Succeeded(B, r)
<1>0. revisions # << >> => revisions[Len(revisions)].rec \in WholeRuns
  <2>1. revisions \in Seq(Revisions) BY DEF TypeInv, LogTyped
  <2>2. revisions # << >> => revisions[Len(revisions)] \in Revisions BY <2>1
  <2> QED BY <2>2 DEF Revisions
<1>1. CASE Generate(q)
  <2>1. Resumed(Fresh, None) = Fresh
    <3>1. \A t \in Stages : Interrupted(NotStarted) = NotStarted
      BY DEF Interrupted, NotStarted
    <3> QED BY <3>1 DEF Resumed, Closure, Fresh
  <2>2. Generation(q, Fresh, Fresh, None) BY <1>1 DEF Generate
  <2>3. PICK failing \in SUBSET Stages :
          Enter(q, Fresh, RunFrom(Fresh, Stages \ failing, Token(q)), None, Len(Order) + 1)
    BY <2>2 DEF Generation
  <2>4. Fresh \in WholeRuns BY FreshIs
  <2>5. Enter(q, Fresh, RunFrom(Resumed(Fresh, None), Stages \ failing, Token(q)),
              None, Len(Order) + 1)
    BY <2>1, <2>3
  <2>6. /\ pc[q] = "idle"
        /\ UNCHANGED <<revisions, job, plan, executions, faults, drifted>>
    BY <1>1 DEF Generate, At
  <2> QED BY <2>4, <2>5, <2>6
<1>2. ASSUME NEW s \in Stages, Retry(q, s)
      PROVE  /\ pc[q] = "idle"
             /\ UNCHANGED <<revisions, job, plan, executions, faults, drifted>>
             /\ \E B \in WholeRuns, r \in Stages \cup {None}, ok \in SUBSET Stages :
                  /\ Enter(q, B, RunFrom(Resumed(B, r), ok, Token(q)), s, Len(Order) + 1)
                  /\ revisions # << >> /\ B = revisions[Len(revisions)].rec
                  /\ \/ r = None /\ revisions[Len(revisions)].source = Source(q)
                     \/ r \in Stages /\ ~Succeeded(B, r)
  <2> DEFINE last == revisions[Len(revisions)]
  <2>1. /\ pc[q] = "idle" /\ revisions # << >>
        /\ UNCHANGED <<revisions, job, plan, executions, faults, drifted>>
        /\ \/ last.rec[s].status = "failed" /\ Generation(q, last.rec, Resumed(last.rec, s), s)
           \/ last.source = Source(q) /\ Generation(q, last.rec, Resumed(last.rec, None), s)
    BY <1>2 DEF Retry, At
  <2>2. last.rec[s].status = "failed" => ~Succeeded(last.rec, s) BY DEF Succeeded
  <2>3. last.rec \in WholeRuns BY <1>0, <2>1
  <2> HIDE DEF last
  <2>4. PICK r \in Stages \cup {None} :
          /\ Generation(q, last.rec, Resumed(last.rec, r), s)
          /\ \/ r = None /\ last.source = Source(q)
             \/ r \in Stages /\ ~Succeeded(last.rec, r)
    BY <2>1, <2>2
  <2>5. PICK failing \in SUBSET Stages :
          Enter(q, last.rec, RunFrom(Resumed(last.rec, r), Stages \ failing, Token(q)), s,
                Len(Order) + 1)
    BY <2>4 DEF Generation
  <2> QED BY <2>1, <2>3, <2>4, <2>5 DEF last
<1> QED BY <1>1, <1>2 DEF RequestStep

LEMMA RequestTyped == ASSUME TypeInv, NEW q \in Requests, RequestStep(q) PROVE TypeInv'
<1>1. PICK B \in WholeRuns, s, r \in Stages \cup {None}, ok \in SUBSET Stages :
        Enter(q, B, RunFrom(Resumed(B, r), ok, Token(q)), s, Len(Order) + 1)
  BY RequestIs
<1>2. q \in Procs /\ Len(Order) + 1 \in 1..(Len(Order) + 1) BY OrderIs DEF Procs
<1>3. Resumed(B, r) \in WholeRuns BY ResumedIs
<1>4. Token(q) \in Procs \X (0..MaxRuns \cup {1}) BY <1>2, TokenIs
<1>5. RunFrom(Resumed(B, r), ok, Token(q)) \in WholeRuns BY <1>3, <1>4, RunFromIs
<1>6. MemoryTyped' /\ FewBegun' /\ UNCHANGED <<parent, outcome>>
  BY <1>1, <1>2, <1>5, EnterTyped DEF TypeInv
<1>7. UNCHANGED <<revisions, job, plan, executions, faults, drifted>> BY RequestIs
<1>8. LogTyped' BY <1>6, <1>7 DEF TypeInv, LogTyped
<1>9. PlanTyped' BY <1>7 DEF TypeInv, PlanTyped, plan
<1> QED BY <1>6, <1>8, <1>9 DEF TypeInv

LEMMA EndTyped ==
  ASSUME TypeInv, NEW p \in Procs, NEW i \in 0..Len(revisions'), EndWith(p, i),
         Len(revisions') \in Nat, Len(revisions') >= Len(revisions)
  PROVE  /\ MemoryTyped' /\ FewBegun'
         /\ parent' \in [Procs -> 0..Len(revisions')]
         /\ outcome' \in [Procs -> 0..Len(revisions')]
<1>1. CASE p = Worker
  <2>1. /\ outcome' = [outcome EXCEPT ![p] = i] /\ Goto(p, "result")
        /\ UNCHANGED <<rec, at, base, retrying, parent>>
    BY <1>1 DEF EndWith
  <2>2. MemoryTyped' BY <2>1 DEF TypeInv, MemoryTyped, Goto
  <2>3. FewBegun' BY <2>1, GotoFew DEF TypeInv
  <2>4. Len(revisions) \in Nat BY LogIs DEF TypeInv
  <2>5. 0..Len(revisions) \subseteq 0..Len(revisions') BY <2>4
  <2>6. /\ parent' \in [Procs -> 0..Len(revisions')]
        /\ outcome' \in [Procs -> 0..Len(revisions')]
    BY <2>1, <2>5 DEF TypeInv, LogTyped
  <2> QED BY <2>2, <2>3, <2>6
<1>2. CASE p # Worker
  <2>1. Forget(p) /\ Goto(p, "done") BY <1>2 DEF EndWith
  <2> QED BY <2>1, ForgetTyped DEF TypeInv
<1> QED BY <1>1, <1>2

LEMMA ReviseTyped == ASSUME TypeInv, NEW p \in Procs, Revise(p) PROVE TypeInv'
<1> DEFINE n == Len(revisions)
<1>0. n \in Nat /\ \A x : BySource(x) \subseteq 1..n BY LogIs DEF TypeInv
<1>1. UNCHANGED <<job, plan, executions, faults, drifted>>
  BY DEF Revise, ReadParent, Insert, Conflict
<1>2. PlanTyped' BY <1>1 DEF TypeInv, PlanTyped, plan
<1>3. ASSUME UNCHANGED revisions, NEW i \in 0..n, EndWith(p, i) PROVE TypeInv'
  <2>1. /\ MemoryTyped' /\ FewBegun'
        /\ parent' \in [Procs -> 0..Len(revisions')]
        /\ outcome' \in [Procs -> 0..Len(revisions')]
    BY <1>0, <1>3, EndTyped
  <2>2. LogTyped' BY <1>1, <1>3, <2>1 DEF TypeInv, LogTyped
  <2> QED BY <1>2, <2>1, <2>2 DEF TypeInv
<1>4. CASE ReadParent(p)
  <2>1. UNCHANGED revisions BY <1>4 DEF ReadParent
  <2>2. CASE BySource(Source(p)) # {}
    <3>1. PICK i \in BySource(Source(p)) : EndWith(p, i) BY <1>4, <2>2 DEF ReadParent
    <3>2. i \in 0..n BY <1>0, <3>1
    <3> QED BY <1>3, <2>1, <3>1, <3>2
  <2>3. CASE BySource(Source(p)) = {}
    <3>1. /\ parent' = [parent EXCEPT ![p] = n]
          /\ Goto(p, "append") /\ UNCHANGED <<rec, at, base, retrying, outcome>>
      BY <1>4, <2>3 DEF ReadParent
    <3>2. MemoryTyped' BY <3>1 DEF TypeInv, MemoryTyped, Goto
    <3>3. FewBegun' BY <3>1, GotoFew DEF TypeInv
    <3>4. LogTyped' BY <1>0, <1>1, <2>1, <3>1 DEF TypeInv, LogTyped
    <3> QED BY <1>2, <3>2, <3>3, <3>4 DEF TypeInv
  <2> QED BY <2>2, <2>3
<1>5. CASE Conflict(p)
  <2>1. PICK i \in IF BySource(Source(p)) = {} THEN {0}
                   ELSE BySource(Source(p)) \cup (IF parent[p] = 0 THEN {0} ELSE {}) :
          EndWith(p, i) /\ UNCHANGED revisions
    BY <1>5 DEF Conflict
  <2>2. i \in 0..n BY <1>0, <2>1
  <2> QED BY <1>3, <2>1, <2>2
<1>6. CASE Insert(p)
  <2> DEFINE e == NewRevision(p)
  <2>1. revisions' = Append(revisions, e) /\ EndWith(p, n + 1) BY <1>6 DEF Insert
  <2>2. e \in Revisions
    <3>1. Source(p) \in Sources BY DEF Source, Sources, TypeInv, LogTyped, PlanTyped, Procs
    <3>2. rec[p] \in WholeRuns /\ retrying[p] \in Stages \cup {None}
      BY DEF TypeInv, MemoryTyped
    <3> QED BY <3>1, <3>2 DEF NewRevision, Revisions
  <2>3. revisions \in Seq(Revisions) BY DEF TypeInv, LogTyped
  <2> HIDE DEF e
  <2>4. revisions' \in Seq(Revisions) /\ Len(revisions') = n + 1 BY <2>1, <2>2, <2>3
  <2>5. n + 1 \in 0..Len(revisions') /\ Len(revisions') >= n /\ Len(revisions') \in Nat
    BY <1>0, <2>4
  <2> HIDE DEF n
  <2>6. /\ MemoryTyped' /\ FewBegun'
        /\ parent' \in [Procs -> 0..Len(revisions')]
        /\ outcome' \in [Procs -> 0..Len(revisions')]
    BY <2>1, <2>5, EndTyped DEF n
  <2>7. LogTyped' BY <1>1, <2>4, <2>6 DEF TypeInv, LogTyped
  <2> QED BY <1>2, <2>6, <2>7 DEF TypeInv
<1> QED BY <1>4, <1>5, <1>6 DEF Revise

LEMMA NextTyped == TypeInv /\ [Next]_vars => TypeInv'
<1> SUFFICES ASSUME TypeInv, [Next]_vars PROVE TypeInv' OBVIOUS
<1>1. CASE UNCHANGED vars
  BY <1>1 DEF vars, plan, memory, TypeInv, LogTyped, PlanTyped, MemoryTyped, FewBegun
<1> QED BY <1>1, ExecuteTyped, StageTyped, RaiseTyped, LeaveTyped, ResetTyped, RequestTyped,
       ReviseTyped DEF Next, WorkerStep

\* Every variable keeps its type: in particular the runs that the requests make
\* in one step, stage after stage, hold nothing but records of stages.
THEOREM StagesTypes == Spec => []TypeOK
<1>1. Spec => []TypeInv BY InitTyped, NextTyped, PTL DEF Spec
<1> QED BY <1>1, TypeInvTypes, PTL

-----------------------------------------------------------------------------
(* What a step leaves alone. *)

AtWork(p) == pc[p] \in {"stages", "producing", "append"}

WorkerActs ==
  \/ Execute \/ WorkerBlocks \/ WorkerStarts \/ WorkerEndsStage
  \/ ReportRaises \/ PublishRaises \/ Finish \/ Crash

LEMMA WorkerFrame ==
  ASSUME TypeInv, WorkerActs \/ Reset
  PROVE  /\ UNCHANGED <<revisions, job>> /\ \A x : BySource(x)' = BySource(x)
         /\ \A q \in Requests : /\ pc'[q] = pc[q] /\ rec'[q] = rec[q] /\ base'[q] = base[q]
                                /\ Source(q)' = Source(q)
<1>0. \A q \in Requests : q \in Procs /\ q # Worker BY StagesAssumption DEF Procs
<1>1. UNCHANGED <<revisions, job>>
  BY DEF WorkerActs, Execute, WorkerBlocks, WorkerStarts, WorkerEndsStage, ReportRaises,
     PublishRaises, Finish, Crash, Reset
<1>2. \A q \in Requests : pc'[q] = pc[q] /\ rec'[q] = rec[q] /\ base'[q] = base[q]
  <2> USE <1>0 DEF TypeInv, MemoryTyped, Goto
  <2>1. CASE Execute BY <2>1 DEF Execute, Enter
  <2>2. CASE WorkerBlocks \/ WorkerStarts \/ WorkerEndsStage
    BY <2>2 DEF WorkerBlocks, WorkerStarts, WorkerEndsStage, Report
  <2>3. CASE ReportRaises \/ PublishRaises BY <2>3 DEF ReportRaises, PublishRaises, memory
  <2>4. CASE Finish \/ Crash BY <2>4 DEF Finish, Crash, Forget
  <2>5. CASE Reset BY <2>5 DEF Reset, memory
  <2> QED BY <2>1, <2>2, <2>3, <2>4, <2>5 DEF WorkerActs
<1> QED BY <1>0, <1>1, <1>2 DEF BySource, Source

LEMMA RequestFrame ==
  ASSUME TypeInv, NEW q \in Requests, RequestStep(q)
  PROVE  /\ q \in Procs /\ q # Worker
         /\ UNCHANGED <<revisions, job, plan, executions, faults, drifted>>
         /\ \A p \in Procs \ {q} : pc'[p] = pc[p] /\ rec'[p] = rec[p] /\ at'[p] = at[p]
                                   /\ base'[p] = base[p]
         /\ \A x : BySource(x)' = BySource(x) /\ Source(x)' = Source(x)
         /\ \E B \in WholeRuns, r \in Stages \cup {None}, ok \in SUBSET Stages :
              /\ rec'[q] = RunFrom(Resumed(B, r), ok, Token(q)) /\ base'[q] = B
              /\ \/ B = Fresh
                 \/ /\ revisions # << >> /\ B = revisions[Len(revisions)].rec
                    /\ \/ r = None /\ revisions[Len(revisions)].source = Source(q)
                       \/ r \in Stages /\ ~Succeeded(B, r)
<1>1. q \in Procs /\ q # Worker BY StagesAssumption DEF Procs
<1>2. PICK B \in WholeRuns, s, r \in Stages \cup {None}, ok \in SUBSET Stages :
              /\ Enter(q, B, RunFrom(Resumed(B, r), ok, Token(q)), s, Len(Order) + 1)
              /\ \/ B = Fresh
                 \/ /\ revisions # << >> /\ B = revisions[Len(revisions)].rec
                    /\ \/ r = None /\ revisions[Len(revisions)].source = Source(q)
                       \/ r \in Stages /\ ~Succeeded(B, r)
  BY RequestIs
<1>3. /\ rec'[q] = RunFrom(Resumed(B, r), ok, Token(q)) /\ base'[q] = B
      /\ \A p \in Procs \ {q} : pc'[p] = pc[p] /\ rec'[p] = rec[p] /\ at'[p] = at[p]
                                /\ base'[p] = base[p]
  BY <1>1, <1>2 DEF Enter, Goto, TypeInv, MemoryTyped
<1>4. UNCHANGED <<revisions, job, plan, executions, faults, drifted>> BY RequestIs
<1>5. \A x : BySource(x)' = BySource(x) /\ Source(x)' = Source(x)
  BY <1>4 DEF BySource, Source, plan
<1> QED BY <1>1, <1>2, <1>3, <1>4, <1>5

\* A process that looks for its revision and finds none goes on to append it;
\* one that appends it has none yet; and either way it is the only one to move.
LEMMA ReviseFrame ==
  ASSUME TypeInv, IInv, NEW p \in Procs, Revise(p)
  PROVE  /\ UNCHANGED <<job, plan, executions, faults, drifted>> /\ AtWork(p)
         /\ pc'[p] # "stages" /\ pc'[p] # "producing"
         /\ \A q \in Procs \ {p} : pc'[q] = pc[q] /\ rec'[q] = rec[q] /\ at'[q] = at[q]
                                   /\ base'[q] = base[q]
         /\ \A x : Source(x)' = Source(x)
         /\ \/ /\ UNCHANGED revisions /\ \A x : BySource(x)' = BySource(x)
               /\ AtWork(p)' => rec'[p] = rec[p] /\ base'[p] = base[p]
            \/ /\ ~AtWork(p)' /\ BySource(Source(p)) = {}
               /\ DOMAIN revisions' = DOMAIN revisions \cup {Len(revisions) + 1}
               /\ revisions'[Len(revisions) + 1] = NewRevision(p)
               /\ \A i \in DOMAIN revisions : revisions'[i] = revisions[i]
               /\ \A x : BySource(x)' =
                    BySource(x) \cup (IF x = Source(p) THEN {Len(revisions) + 1} ELSE {})
<1>1. UNCHANGED <<job, plan, executions, faults, drifted>> /\ AtWork(p)
  BY DEF Revise, ReadParent, Insert, Conflict, At, AtWork
<1>2. ASSUME NEW i, EndWith(p, i)
      PROVE  /\ ~AtWork(p)'
             /\ \A q \in Procs \ {p} : pc'[q] = pc[q] /\ rec'[q] = rec[q] /\ at'[q] = at[q]
                                       /\ base'[q] = base[q]
  BY <1>2 DEF EndWith, Forget, Goto, TypeInv, MemoryTyped, AtWork
<1>3. \A x : Source(x)' = Source(x) BY <1>1 DEF Source, plan
<1>4. CASE ReadParent(p)
  <2>1. UNCHANGED revisions /\ \A x : BySource(x)' = BySource(x)
    BY <1>4 DEF ReadParent, BySource
  <2>2. CASE \E i : EndWith(p, i) BY <1>1, <1>2, <1>3, <2>1, <2>2 DEF AtWork
  <2>3. CASE Goto(p, "append") /\ UNCHANGED <<rec, at, base, retrying, outcome>>
    BY <1>1, <1>3, <2>1, <2>3 DEF Goto, TypeInv, MemoryTyped, AtWork
  <2> QED BY <1>4, <2>2, <2>3 DEF ReadParent
<1>5. CASE Conflict(p)
  <2>1. UNCHANGED revisions /\ \A x : BySource(x)' = BySource(x)
    BY <1>5 DEF Conflict, BySource
  <2>2. \E i : EndWith(p, i) BY <1>5 DEF Conflict
  <2> QED BY <1>1, <1>2, <1>3, <2>1, <2>2 DEF AtWork
<1>6. CASE Insert(p)
  <2> DEFINE n == Len(revisions)
  <2> DEFINE e == NewRevision(p)
  <2>1. /\ revisions' = Append(revisions, e) /\ EndWith(p, n + 1) /\ e.source = Source(p)
        /\ pc[p] = "append" /\ parent[p] = n
    BY <1>6 DEF Insert, Insertable, NewRevision, At
  <2>2. revisions \in Seq(Revisions) BY DEF TypeInv, LogTyped
  <2> HIDE DEF e
  <2>3. /\ n \in Nat /\ DOMAIN revisions = 1..n /\ DOMAIN revisions' = 1..(n + 1)
        /\ revisions'[n + 1] = e /\ \A i \in 1..n : revisions'[i] = revisions[i]
    BY <2>1, <2>2, Appended
  <2>4. BySource(Source(p)) = {}
    <3>1. \A i \in 1..n : revisions[i].source # Source(p) BY <2>1 DEF IInv, Unwritten
    <3> QED BY <2>3, <3>1 DEF BySource
  <2>5. DOMAIN revisions' = DOMAIN revisions \cup {n + 1} BY <2>3
  <2>6. ASSUME NEW x
        PROVE  BySource(x)' = BySource(x) \cup (IF x = Source(p) THEN {n + 1} ELSE {})
    <3>1. BySource(x)' = {i \in DOMAIN revisions \cup {n + 1} : revisions'[i].source = x}
      BY <2>5 DEF BySource
    <3>2. \A i \in DOMAIN revisions : revisions'[i].source = revisions[i].source
      BY <2>3
    <3>3. revisions'[n + 1].source = Source(p) BY <2>1, <2>3
    <3> QED BY <3>1, <3>2, <3>3 DEF BySource
  <2>7. ~AtWork(p)' BY <1>2, <2>1
  <2>8. revisions'[n + 1] = NewRevision(p) BY <2>3 DEF e
  <2> QED BY <1>1, <1>2, <1>3, <2>1, <2>3, <2>4, <2>5, <2>6, <2>7, <2>8 DEF AtWork
<1> QED BY <1>4, <1>5, <1>6 DEF Revise

-----------------------------------------------------------------------------
(* The attempts of the plan, the stage at hand and the package. *)

\* No revision is that of an attempt to come, or of one that is at work; a
\* result is kept until the reset, and a stage to retry with the run it is of.
PlanInv ==
  /\ \A n \in Nat : n > attempt => BySource(<<"plan", n>>) = {}
  /\ AtWork(Worker) => BySource(Source(Worker)) = {}
  /\ result # None => planStatus \in {"failed", "partial"}
  /\ prior = None => retryStage = None

LEMMA SourceIs ==
  /\ Source(Worker) = <<"plan", attempt>>
  /\ \A q \in Requests : \A n : Source(q) # <<"plan", n>> /\ Source(q)[1] = "generation"
BY StagesAssumption DEF Source

LEMMA InitPlan == Init => PlanInv
<1> SUFFICES ASSUME Init PROVE PlanInv OBVIOUS
<1>1. \A x : BySource(x) = {} BY DEF Init, BySource
<1>2. ~AtWork(Worker) BY DEF Init, AtWork, Procs
<1> QED BY <1>1, <1>2 DEF Init, PlanInv

LEMMA WorkerPlanInv == TypeInv /\ IInv /\ PlanInv /\ WorkerActs => PlanInv'
<1> SUFFICES ASSUME TypeInv, IInv, PlanInv, WorkerActs PROVE PlanInv' OBVIOUS
<1>0. Worker \in Procs /\ DOMAIN pc = Procs BY DEF Procs, TypeInv, MemoryTyped
<1>1. UNCHANGED <<attempt, prior, retryStage>>
  BY DEF WorkerActs, Execute, WorkerBlocks, WorkerStarts, WorkerEndsStage, ReportRaises,
     PublishRaises, Finish, Crash, plan
<1>2. \A x : BySource(x)' = BySource(x) BY WorkerFrame
<1>3. Source(Worker)' = Source(Worker) BY <1>1, SourceIs DEF Source
<1>4. AtWork(Worker)' => BySource(Source(Worker)) = {}
  <2>1. CASE Execute
    <3>1. Goto(Worker, "result") \/ BySource(Source(Worker)) = {} BY <2>1 DEF Execute
    <3> QED BY <1>0, <3>1 DEF Goto, AtWork
  <2>2. CASE WorkerBlocks \/ WorkerStarts \/ WorkerEndsStage
    <3>1. AtWork(Worker)
      BY <2>2 DEF WorkerBlocks, WorkerStarts, WorkerEndsStage, AtStage, At, AtWork
    <3> QED BY <3>1 DEF PlanInv
  <2>3. CASE ReportRaises \/ PublishRaises
    <3>1. pc'[Worker] = "result"
      BY <1>0, <2>3 DEF ReportRaises, PublishRaises, Goto, At
    <3> QED BY <3>1 DEF AtWork
  <2>4. CASE Finish \/ Crash
    <3>1. pc'[Worker] = "idle" BY <1>0, <2>4 DEF Finish, Crash, Goto
    <3> QED BY <3>1 DEF AtWork
  <2> QED BY <2>1, <2>2, <2>3, <2>4 DEF WorkerActs
<1>5. result' # None => planStatus' \in {"failed", "partial"}
  <2>1. CASE Execute
    <3>1. planStatus \in {"planned", "running"} /\ result' = result BY <2>1 DEF Execute
    <3> QED BY <3>1 DEF PlanInv
  <2>2. CASE Finish
    <3>1. CASE outcome[Worker] = 0 BY <2>2, <3>1 DEF Finish
    <3>2. CASE outcome[Worker] # 0
      <4> DEFINE R == revisions[outcome[Worker]].rec
      <4>1. planStatus' = RunStatus(R) /\ (planStatus' = "succeeded" => result' = None)
        BY <2>2, <3>2 DEF Finish
      <4>2. RunStatus(R) \in {"failed", "succeeded", "partial"} BY DEF RunStatus
      <4> QED BY <4>1, <4>2
    <3> QED BY <3>1, <3>2
  <2>3. CASE ~Execute /\ ~Finish
    <3>1. UNCHANGED <<result, planStatus>>
      BY <2>3 DEF WorkerActs, WorkerBlocks, WorkerStarts, WorkerEndsStage, ReportRaises,
         PublishRaises, Crash, plan
    <3> QED BY <3>1 DEF PlanInv
  <2> QED BY <2>1, <2>2, <2>3
<1> QED BY <1>1, <1>2, <1>3, <1>4, <1>5 DEF PlanInv

LEMMA NextPlan == TypeInv /\ IInv /\ PlanInv /\ [Next]_vars => PlanInv'
<1> SUFFICES ASSUME TypeInv, IInv, PlanInv, [Next]_vars PROVE PlanInv' OBVIOUS
<1>0. Worker \in Procs /\ attempt \in Nat BY DEF Procs, TypeInv, PlanTyped
<1>1. CASE UNCHANGED vars
  BY <1>1 DEF vars, plan, memory, PlanInv, AtWork, BySource, Source
<1>2. CASE Reset
  <2>1. /\ planStatus \in {"failed", "partial"} /\ attempt' = attempt + 1 /\ result' = None
        /\ UNCHANGED <<revisions, pc>>
        /\ prior' # None \/ UNCHANGED <<prior, retryStage>>
    BY <1>2, ResetIs
  <2>2. \A x : BySource(x)' = BySource(x) BY <2>1 DEF BySource
  <2>3. ~AtWork(Worker)' BY <2>1 DEF AtWork, IInv, WorkerBusy
  <2>4. \A n \in Nat : n > attempt' => n > attempt BY <1>0, <2>1
  <2> QED BY <2>1, <2>2, <2>3, <2>4 DEF PlanInv
<1>3. ASSUME NEW q \in Requests, RequestStep(q) PROVE PlanInv'
  <2>1. /\ q # Worker /\ UNCHANGED <<revisions, job, plan>>
        /\ \A p \in Procs \ {q} : pc'[p] = pc[p]
        /\ \A x : BySource(x)' = BySource(x) /\ Source(x)' = Source(x)
    BY <1>3, RequestFrame
  <2>2. pc'[Worker] = pc[Worker] BY <1>0, <2>1
  <2> QED BY <2>1, <2>2 DEF PlanInv, plan, AtWork
<1>4. ASSUME NEW p \in Procs, Revise(p) PROVE PlanInv'
  <2>1. UNCHANGED plan /\ \A x : Source(x)' = Source(x) BY <1>4, ReviseFrame
  <2>2. p = Worker => AtWork(Worker) BY <1>4, ReviseFrame
  <2>3. p # Worker => pc'[Worker] = pc[Worker] BY <1>0, <1>4, ReviseFrame
  <2>4. AtWork(Worker)' => AtWork(Worker) BY <2>2, <2>3 DEF AtWork
  <2>5. CASE \A x : BySource(x)' = BySource(x) BY <2>1, <2>4, <2>5 DEF PlanInv, plan
  <2>6. CASE /\ ~AtWork(p)'
             /\ \A x : x # Source(p) => BySource(x)' = BySource(x)
    <3>1. \A n \in Nat : n > attempt => <<"plan", n>> # Source(p)
      BY <1>0, SourceIs DEF Procs
    <3>2. AtWork(Worker)' => Source(Worker) # Source(p) BY <2>6, SourceIs DEF Procs
    <3> QED BY <2>1, <2>4, <2>6, <3>1, <3>2 DEF PlanInv, plan
  <2>7. CASE /\ ~AtWork(p)'
             /\ \A x : BySource(x)' =
                  BySource(x) \cup (IF x = Source(p) THEN {Len(revisions) + 1} ELSE {})
    <3>1. ASSUME NEW x, x # Source(p) PROVE BySource(x)' = BySource(x) BY <2>7, <3>1
    <3> QED BY <2>6, <2>7, <3>1
  <2> QED BY <1>4, <2>5, <2>7, ReviseFrame
<1> QED BY <1>1, <1>2, <1>3, <1>4, WorkerPlanInv DEF Next, WorkerStep, WorkerActs

\* The stage at hand has not succeeded; while it is being produced, all that it
\* depends on has, and it was started from that.
StageInv ==
  /\ AtStage(Worker) => ~Succeeded(rec[Worker], Stage(Worker))
  /\ At(Worker, "producing") =>
       /\ ~Succeeded(rec[Worker], Stage(Worker))
       /\ \A d \in Deps[Stage(Worker)] :
            /\ Succeeded(rec[Worker], d)
            /\ <<d, rec[Worker][d].attempt>> \in rec[Worker][Stage(Worker)].inputs

LEMMA InitStage == Init => StageInv
BY DEF Init, StageInv, AtStage, At, Procs

\* The place of a stage that the worker is about to run or running.
LEMMA PlaceIs ==
  ASSUME TypeInv, AtStage(Worker) \/ At(Worker, "producing")
  PROVE  at[Worker] \in 1..Len(Order) /\ Stage(Worker) \in Stages /\ Worker \in Procs
<1>0. Worker \in Procs BY DEF Procs
<1>1. at[Worker] \in 1..(Len(Order) + 1) BY <1>0 DEF TypeInv, MemoryTyped
<1>2. at[Worker] <= Len(Order) BY DEF AtStage, At, TypeInv, MemoryTyped
<1> QED BY <1>0, <1>1, <1>2, OrderIs DEF Stage

LEMMA PassStage ==
  ASSUME TypeInv, NEW s, NEW r, AtStage(Worker) \/ At(Worker, "producing"),
         Report(s, r), Pass(s, r)
  PROVE  at'[Worker] <= Len(Order) => ~Succeeded(rec'[Worker], Order[at'[Worker]])
<1>1. Worker \in Procs /\ at[Worker] \in 1..Len(Order) BY PlaceIs
<1>2. rec'[Worker] = With(rec[Worker], s, r)
  BY <1>1 DEF Report, TypeInv, MemoryTyped
<1>3. at'[Worker] = NextAt(With(rec[Worker], s, r), at[Worker] + 1)
  BY <1>1 DEF Pass, TypeInv, MemoryTyped
<1>4. at[Worker] + 1 \in 1..(Len(Order) + 1) BY <1>1, OrderIs
<1> QED BY <1>2, <1>3, <1>4, NextAtIs

LEMMA WorkerStage == TypeInv /\ StageInv /\ WorkerActs => StageInv'
<1> SUFFICES ASSUME TypeInv, StageInv, WorkerActs PROVE StageInv' OBVIOUS
<1>0. Worker \in Procs BY DEF Procs
<1> USE DEF AtStage, At, Stage
<1>1. CASE Execute
  <2>1. CASE Goto(Worker, "result")
    <3>1. pc'[Worker] = "result" BY <1>0, <2>1 DEF Goto, TypeInv, MemoryTyped
    <3> QED BY <3>1 DEF StageInv
  <2>2. CASE LET R == Resumed(PriorRun, retryStage)
             IN Enter(Worker, PriorRun, R, retryStage, NextAt(R, 1))
    <3> DEFINE R == Resumed(PriorRun, retryStage)
    <3>1. pc'[Worker] = "stages" /\ rec'[Worker] = R /\ at'[Worker] = NextAt(R, 1)
      BY <1>0, <2>2 DEF Enter, Goto, TypeInv, MemoryTyped
    <3> HIDE DEF R
    <3>2. 1 \in 1..(Len(Order) + 1) BY OrderIs
    <3> QED BY <3>1, <3>2, NextAtIs DEF StageInv
  <2> QED BY <1>1, <2>1, <2>2 DEF Execute
<1>2. CASE WorkerBlocks
  <2>1. PICK s, r : Report(s, r) /\ Pass(s, r) BY <1>2 DEF WorkerBlocks
  <2>2. pc[Worker] = "stages" /\ pc' = pc BY <1>2 DEF WorkerBlocks
  <2>3. AtStage(Worker) BY <1>2 DEF WorkerBlocks
  <2> QED BY <2>1, <2>2, <2>3, PassStage DEF StageInv
<1>3. CASE WorkerStarts
  <2> DEFINE s == Order[at[Worker]]
  <2> DEFINE R == rec[Worker]
  <2>0. s \in Stages BY <1>3, PlaceIs DEF WorkerStarts
  <2>1. /\ Unsatisfied(R, s) = {} /\ rec' = [rec EXCEPT ![Worker] = With(R, s, Started(R, s))]
        /\ Goto(Worker, "producing") /\ at' = at
    BY <1>3 DEF WorkerStarts, Report
  <2>2. R \in WholeRuns /\ R \in Runs BY <1>0 DEF TypeInv, MemoryTyped, WholeRuns
  <2>3. rec'[Worker] = With(R, s, Started(R, s)) /\ pc'[Worker] = "producing"
    BY <1>0, <2>1 DEF Goto, TypeInv, MemoryTyped
  <2> DEFINE Q == With(R, s, Started(R, s))
  <2>4. /\ Q[s].status = "running" /\ \A t \in Stages \ {s} : Q[t] = R[t]
        /\ Q[s].inputs = {<<d, R[d].attempt>> : d \in {e \in Deps[s] : R[e].output # None}}
    <3> HIDE DEF R, s
    <3>1. Q[s] = Started(R, s) /\ \A t \in Stages \ {s} : Q[t] = R[t]
      BY <2>0, <2>2, WithIs
    <3> QED BY <2>0, <2>2, <3>1, StartedIs
  <2> HIDE DEF Q, R, s
  <2>5. ASSUME NEW d \in Deps[s]
        PROVE  Succeeded(Q, d) /\ <<d, Q[d].attempt>> \in Q[s].inputs
    <3>1. d \in Stages \ {s} BY <2>0, StagesAssumption
    <3>2. Succeeded(R, d) BY <2>1 DEF Unsatisfied
    <3>3. R[d].output # None BY <2>2, <3>1, <3>2 DEF WholeRuns
    <3>4. Q[d] = R[d] BY <2>4, <3>1
    <3> QED BY <2>4, <3>2, <3>3, <3>4 DEF Succeeded
  <2>6. ~Succeeded(Q, s) BY <2>4 DEF Succeeded
  <2>7. rec'[Worker] = Q /\ Order[at'[Worker]] = s BY <2>1, <2>3 DEF Q, s
  <2> QED BY <2>3, <2>5, <2>6, <2>7 DEF StageInv
<1>4. CASE WorkerEndsStage
  <2>1. PICK s, r : Report(s, r) /\ Pass(s, r) BY <1>4 DEF WorkerEndsStage
  <2>2. pc'[Worker] = "stages" /\ At(Worker, "producing")
    BY <1>0, <1>4 DEF WorkerEndsStage, Goto, TypeInv, MemoryTyped
  <2> QED BY <2>1, <2>2, PassStage DEF StageInv
<1>5. CASE ReportRaises \/ PublishRaises
  <2>1. pc'[Worker] = "result"
    BY <1>0, <1>5 DEF ReportRaises, PublishRaises, Goto, TypeInv, MemoryTyped
  <2> QED BY <2>1 DEF StageInv
<1>6. CASE Finish \/ Crash
  <2>1. pc'[Worker] = "idle"
    BY <1>0, <1>6 DEF Finish, Crash, Goto, TypeInv, MemoryTyped
  <2> QED BY <2>1 DEF StageInv
<1> QED BY <1>1, <1>2, <1>3, <1>4, <1>5, <1>6 DEF WorkerActs

LEMMA NextStage == TypeInv /\ IInv /\ StageInv /\ [Next]_vars => StageInv'
<1> SUFFICES ASSUME TypeInv, IInv, StageInv, [Next]_vars PROVE StageInv' OBVIOUS
<1>0. Worker \in Procs BY DEF Procs
<1>1. CASE UNCHANGED vars \/ Reset
  <2>1. UNCHANGED <<pc, at, rec>> BY <1>1, ResetIs DEF vars, memory
  <2> QED BY <2>1 DEF StageInv, AtStage, At, Stage
<1>2. ASSUME NEW q \in Requests, RequestStep(q) PROVE StageInv'
  <2>1. /\ pc'[Worker] = pc[Worker] /\ rec'[Worker] = rec[Worker]
        /\ at'[Worker] = at[Worker]
    BY <1>0, <1>2, RequestFrame
  <2> QED BY <2>1 DEF StageInv, AtStage, At, Stage
<1>3. ASSUME NEW p \in Procs, Revise(p) PROVE StageInv'
  <2>1. CASE p = Worker
    <3>1. pc'[Worker] # "stages" /\ pc'[Worker] # "producing" BY <1>3, <2>1, ReviseFrame
    <3> QED BY <3>1 DEF StageInv, AtStage, At
  <2>2. CASE p # Worker
    <3>1. /\ pc'[Worker] = pc[Worker] /\ rec'[Worker] = rec[Worker]
          /\ at'[Worker] = at[Worker]
      BY <1>0, <1>3, <2>2, ReviseFrame
    <3> QED BY <3>1 DEF StageInv, AtStage, At, Stage
  <2> QED BY <2>1, <2>2
<1> QED BY <1>1, <1>2, <1>3, WorkerStage DEF Next, WorkerStep, WorkerActs

\* A request that has no revision yet has made a package of its own.
PackageInv ==
  /\ PackageIsCurrent
  /\ \A q \in Requests : AtWork(q) => BySource(Source(q)) # {} \/ Packaged(rec[q])

LEMMA InitPackage == Init => PackageInv
<1> SUFFICES ASSUME Init PROVE PackageInv OBVIOUS
<1>1. DOMAIN revisions = {} BY DEF Init
<1>2. \A q \in Requests : ~AtWork(q) BY DEF Init, AtWork, Procs
<1> QED BY <1>1, <1>2 DEF PackageInv, PackageIsCurrent

LEMMA RequestPackage ==
  ASSUME TypeInv, NEW q \in Requests, RequestStep(q)
  PROVE  BySource(Source(q)) # {} \/ Packaged(rec'[q])
<1>1. PICK B \in WholeRuns, r \in Stages \cup {None}, ok \in SUBSET Stages :
        /\ rec'[q] = RunFrom(Resumed(B, r), ok, Token(q))
        /\ \/ B = Fresh
           \/ /\ revisions # << >>
              /\ \/ r = None /\ revisions[Len(revisions)].source = Source(q)
                 \/ r \in Stages
  BY RequestFrame
<1>2. Package \in Stages /\ None \notin Stages BY StagesAssumption
<1>3. ~Succeeded(Resumed(B, r), Package) => Packaged(rec'[q])
  <2>1. Resumed(B, r) \in WholeRuns BY ResumedIs
  <2>2. Token(q) \in Procs \X (0..MaxRuns \cup {1}) BY TokenIs DEF Procs
  <2> QED BY <1>1, <2>1, <2>2, RunFromIs
<1>4. CASE B = Fresh
  <2>1. ~Succeeded(B, Package) BY <1>2, <1>4, FreshIs
  <2>2. ~Succeeded(Resumed(B, r), Package) BY <1>2, <2>1, ResumedIs
  <2> QED BY <1>3, <2>2
<1>5. CASE r \in Stages
  <2>1. Package \in Closure(r, Stages) BY <1>2, <1>5 DEF Closure
  <2>2. ~Succeeded(Resumed(B, r), Package) BY <1>2, <2>1, ResumedIs
  <2> QED BY <1>3, <2>2
<1>6. CASE revisions # << >> /\ revisions[Len(revisions)].source = Source(q)
  <2>1. revisions \in Seq(Revisions) BY DEF TypeInv, LogTyped
  <2>2. Len(revisions) \in DOMAIN revisions BY <1>6, <2>1
  <2> QED BY <1>6, <2>2 DEF BySource
<1> QED BY <1>1, <1>4, <1>5, <1>6

LEMMA NextPackage == TypeInv /\ IInv /\ PackageInv /\ [Next]_vars => PackageInv'
<1> SUFFICES ASSUME TypeInv, IInv, PackageInv, [Next]_vars PROVE PackageInv' OBVIOUS
<1>1. CASE UNCHANGED vars
  BY <1>1 DEF vars, plan, memory, PackageInv, PackageIsCurrent, AtWork, BySource, Source
<1>2. CASE WorkerActs \/ Reset
  <2>1. PackageIsCurrent' BY <1>2, WorkerFrame DEF PackageInv, PackageIsCurrent
  <2>2. ASSUME NEW q \in Requests, AtWork(q)'
        PROVE  BySource(Source(q))' # {} \/ Packaged(rec[q])'
    <3>1. /\ pc'[q] = pc[q] /\ rec'[q] = rec[q] /\ Source(q)' = Source(q)
          /\ \A x : BySource(x)' = BySource(x)
      BY <1>2, WorkerFrame
    <3>2. BySource(Source(q)) # {} \/ Packaged(rec[q])
      BY <2>2, <3>1 DEF PackageInv, AtWork
    <3> QED BY <3>1, <3>2 DEF Packaged
  <2> QED BY <2>1, <2>2 DEF PackageInv
<1>3. ASSUME NEW p \in Requests, RequestStep(p) PROVE PackageInv'
  <2>1. UNCHANGED revisions BY <1>3, RequestFrame
  <2>2. PackageIsCurrent' BY <2>1 DEF PackageInv, PackageIsCurrent
  <2>3. ASSUME NEW q \in Requests, AtWork(q)'
        PROVE  BySource(Source(q))' # {} \/ Packaged(rec[q])'
    <3>1. Source(q)' = Source(q) /\ \A x : BySource(x)' = BySource(x)
      BY <1>3, RequestFrame
    <3>2. CASE q = p
      <4>1. BySource(Source(q)) # {} \/ Packaged(rec'[q]) BY <1>3, <3>2, RequestPackage
      <4> QED BY <3>1, <4>1 DEF Packaged
    <3>3. CASE q # p
      <4>1. pc'[q] = pc[q] /\ rec'[q] = rec[q] BY <1>3, <3>3, RequestFrame DEF Procs
      <4>2. BySource(Source(q)) # {} \/ Packaged(rec[q])
        BY <2>3, <4>1 DEF PackageInv, AtWork
      <4> QED BY <3>1, <4>1, <4>2 DEF Packaged
    <3> QED BY <3>2, <3>3
  <2> QED BY <2>2, <2>3 DEF PackageInv
<1>4. ASSUME NEW p \in Procs, Revise(p) PROVE PackageInv'
  <2>1. \A x : Source(x)' = Source(x) /\ BySource(x) \subseteq BySource(x)'
    BY <1>4, ReviseFrame
  <2>2. ASSUME NEW q \in Requests, AtWork(q)'
        PROVE  BySource(Source(q))' # {} \/ Packaged(rec[q])'
    <3>1. AtWork(q) /\ rec'[q] = rec[q]
      <4>1. CASE q = p BY <1>4, <2>2, <4>1, ReviseFrame
      <4>2. CASE q # p
        <5>1. pc'[q] = pc[q] /\ rec'[q] = rec[q] BY <1>4, <4>2, ReviseFrame DEF Procs
        <5> QED BY <2>2, <5>1 DEF AtWork
      <4> QED BY <4>1, <4>2
    <3>2. BySource(Source(q)) # {} \/ Packaged(rec[q]) BY <3>1 DEF PackageInv
    <3> QED BY <2>1, <3>1, <3>2 DEF Packaged
  <2>3. PackageIsCurrent'
    <3>1. CASE UNCHANGED revisions BY <3>1 DEF PackageInv, PackageIsCurrent
    <3>2. CASE /\ BySource(Source(p)) = {}
               /\ DOMAIN revisions' = DOMAIN revisions \cup {Len(revisions) + 1}
               /\ revisions'[Len(revisions) + 1] = NewRevision(p)
               /\ \A i \in DOMAIN revisions : revisions'[i] = revisions[i]
      <4> SUFFICES ASSUME NEW i \in DOMAIN revisions', revisions'[i].source[1] = "generation"
                   PROVE  Packaged(revisions'[i].rec)
        BY DEF PackageIsCurrent, Packaged
      <4>1. CASE i \in DOMAIN revisions
        BY <3>2, <4>1 DEF PackageInv, PackageIsCurrent, Packaged
      <4>2. CASE i = Len(revisions) + 1
        <5>1. revisions'[i].source = Source(p) /\ revisions'[i].rec = rec[p]
          BY <3>2, <4>2 DEF NewRevision
        <5>2. p \in Requests BY <5>1, SourceIs DEF Procs
        <5>3. AtWork(p) BY <1>4, ReviseFrame
        <5> QED BY <3>2, <5>1, <5>2, <5>3 DEF PackageInv
      <4> QED BY <3>2, <4>1, <4>2
    <3> QED BY <1>4, <3>1, <3>2, ReviseFrame
  <2> QED BY <2>2, <2>3 DEF PackageInv
<1> QED BY <1>1, <1>2, <1>3, <1>4 DEF Next, WorkerStep, WorkerActs

-----------------------------------------------------------------------------
(* The results of a plan whose executions began where its checkpoints ended. *)

KeepsResults(B, R) == \A s \in Stages \ {Package} : Succeeded(B, s) => R[s] = B[s]

\* What the worker holds is what the checkpoints show, and so is what it has
\* stored for this attempt and what its job's result holds.
PlanResults ==
  /\ Consistent(checkpoints)
  /\ AtWork(Worker) => Agrees(rec[Worker])
  /\ \A i \in BySource(<<"plan", attempt>>) : Agrees(revisions[i].rec)
  /\ result # None => Agrees(result)
  /\ prior # None => /\ Consistent(prior)
                     /\ retryStage # None => ~Succeeded(prior, retryStage)

RunResults ==
  /\ \A i \in DOMAIN revisions : Consistent(revisions[i].rec)
  /\ \A q \in Requests : AtWork(q) => Consistent(rec[q])
  /\ \A p \in Procs : AtWork(p) => KeepsResults(base[p], rec[p])

ResultsInv == ~drifted => PlanResults /\ RunResults

LEMMA FreshConsistent == Consistent(Fresh)
BY FreshIs DEF Consistent

LEMMA InitResults == Init => ResultsInv
<1> SUFFICES ASSUME Init PROVE PlanResults /\ RunResults BY DEF ResultsInv
<1>1. DOMAIN revisions = {} /\ \A x : BySource(x) = {} BY DEF Init, BySource
<1>2. \A p \in Procs : ~AtWork(p) BY DEF Init, AtWork
<1>3. Worker \in Procs /\ Requests \subseteq Procs BY DEF Procs
<1>4. Consistent(checkpoints) /\ result = None /\ prior = None
  BY FreshConsistent DEF Init
<1> QED BY <1>1, <1>2, <1>3, <1>4 DEF PlanResults, RunResults

\* The part of the requests is untouched by what the worker does.
LEMMA WorkerRunResults ==
  ASSUME TypeInv, RunResults, WorkerActs \/ Reset,
         AtWork(Worker)' => KeepsResults(base'[Worker], rec'[Worker])
  PROVE  RunResults'
<1>1. /\ UNCHANGED revisions
      /\ \A q \in Requests : pc'[q] = pc[q] /\ rec'[q] = rec[q] /\ base'[q] = base[q]
  BY WorkerFrame
<1>2. \A i \in DOMAIN revisions' : Consistent(revisions[i].rec)'
  BY <1>1 DEF RunResults, Consistent, Succeeded
<1>3. \A q \in Requests : AtWork(q)' => Consistent(rec[q])'
  BY <1>1 DEF RunResults, AtWork, Consistent, Succeeded
<1>4. ASSUME NEW p \in Procs, AtWork(p)' PROVE KeepsResults(base[p], rec[p])'
  <2>1. CASE p = Worker BY <1>4, <2>1 DEF KeepsResults, Succeeded
  <2>2. CASE p # Worker
    <3>1. p \in Requests BY <2>2 DEF Procs
    <3> QED BY <1>1, <1>4, <3>1 DEF RunResults, AtWork, KeepsResults, Succeeded
  <2> QED BY <2>1, <2>2
<1> QED BY <1>2, <1>3, <1>4 DEF RunResults

LEMMA ExecuteResults ==
  ASSUME TypeInv, PlanInv, PlanResults, RunResults, Execute, ~drifted'
  PROVE  PlanResults' /\ RunResults'
<1>0. Worker \in Procs BY DEF Procs
<1>1. /\ UNCHANGED <<revisions, attempt, checkpoints, prior, retryStage, result>>
      /\ WorkerActs
  BY DEF Execute, WorkerActs
<1>2. AtWork(Worker)' =>
        Agrees(rec[Worker])' /\ KeepsResults(base'[Worker], rec'[Worker])
  <2>1. CASE Goto(Worker, "result")
    <3>1. pc'[Worker] = "result" BY <1>0, <2>1 DEF Goto, TypeInv, MemoryTyped
    <3> QED BY <3>1 DEF AtWork
  <2>2. CASE LET R == Resumed(PriorRun, retryStage)
             IN /\ Enter(Worker, PriorRun, R, retryStage, NextAt(R, 1))
                /\ drifted' = (drifted \/ ~Agrees(R))
    <3> DEFINE R == Resumed(PriorRun, retryStage)
    <3>1. rec'[Worker] = R /\ base'[Worker] = PriorRun /\ Agrees(R)
      BY <1>0, <2>2 DEF Enter, TypeInv, MemoryTyped
    <3>2. Agrees(rec[Worker])' BY <1>1, <3>1 DEF Agrees, Succeeded
    <3>3. PriorRun \in WholeRuns BY PriorRunIs
    <3>4. retryStage # None => Consistent(PriorRun) /\ ~Succeeded(PriorRun, retryStage)
      BY DEF PlanInv, PlanResults, PriorRun
    <3>5. retryStage \in Stages \cup {None} BY DEF TypeInv, PlanTyped
    <3>6. KeepsResults(PriorRun, R) BY <3>3, <3>4, <3>5, ResumedKeeps DEF KeepsResults
    <3> QED BY <3>1, <3>2, <3>6
  <2> QED BY <2>1, <2>2 DEF Execute
<1>3. RunResults' BY <1>1, <1>2, WorkerRunResults
<1>4. PlanResults'
  <2>1. \A x : BySource(x)' = BySource(x) BY <1>1 DEF BySource
  <2> QED BY <1>1, <1>2, <2>1 DEF PlanResults, Agrees, Succeeded, Consistent
<1> QED BY <1>3, <1>4

\* A stage that the worker reports is the same in its run and the checkpoints.
LEMMA StageResults ==
  ASSUME TypeInv, IInv, PlanInv, StageInv, PlanResults, RunResults,
         WorkerBlocks \/ WorkerStarts \/ WorkerEndsStage
  PROVE  PlanResults' /\ RunResults'
<1> DEFINE s == Stage(Worker)
<1> DEFINE R == rec[Worker]
<1>0. /\ Worker \in Procs /\ s \in Stages
      /\ AtStage(Worker) \/ At(Worker, "producing")
  BY PlaceIs DEF WorkerBlocks, WorkerStarts, WorkerEndsStage
<1>1. UNCHANGED <<revisions, planStatus, attempt, prior, retryStage, result, base>>
  BY DEF WorkerBlocks, WorkerStarts, WorkerEndsStage
<1>2. R \in Runs /\ checkpoints \in Runs
  BY <1>0 DEF TypeInv, MemoryTyped, PlanTyped, WholeRuns
<1>3. AtWork(Worker) /\ ~Succeeded(R, s) BY <1>0 DEF AtStage, At, AtWork, StageInv
<1>4. Agrees(R) /\ KeepsResults(base[Worker], R)
  BY <1>0, <1>3 DEF PlanResults, RunResults
<1>5. PICK r :
        /\ Report(s, r)
        /\ r.status = "succeeded" => \A d \in Deps[s] :
             /\ Succeeded(R, d) /\ <<d, R[d].attempt>> \in r.inputs
             /\ <<d, R[d].output>> \in r.from
  <2>1. CASE WorkerBlocks BY <1>0, <1>2, <2>1, BlockedIs DEF WorkerBlocks
  <2>2. CASE WorkerStarts BY <1>0, <1>2, <2>2, StartedIs DEF WorkerStarts
  <2>3. CASE WorkerEndsStage
    <3>1. At(Worker, "producing") BY <2>3 DEF WorkerEndsStage
    <3>2. \A d \in Deps[s] : Succeeded(R, d) /\ <<d, R[d].attempt>> \in R[s].inputs
      BY <3>1 DEF StageInv
    <3>3. PICK r \in {Produced(R, s, Token(Worker)), Failing(R, s)} : Report(s, r)
      BY <2>3 DEF WorkerEndsStage
    <3>4. CASE r = Failing(R, s) BY <1>0, <1>2, <3>3, <3>4, FailingIs
    <3>5. CASE r = Produced(R, s, Token(Worker))
      <4>1. Token(Worker) \in Procs \X (0..MaxRuns \cup {1}) BY <1>0, TokenIs
      <4> HIDE DEF R, s
      <4>2. r.inputs = R[s].inputs /\ r.from = {<<d, R[d].output>> : d \in Reads[s]}
        BY <1>0, <1>2, <3>5, <4>1, ProducedIs
      <4>3. Deps[s] \subseteq Reads[s] BY <1>0, StagesAssumption
      <4>4. \A d \in Deps[s] : <<d, R[d].output>> \in r.from BY <4>2, <4>3
      <4> QED BY <3>2, <3>3, <4>2, <4>4
    <3> QED BY <3>3, <3>4, <3>5
  <2> QED BY <2>1, <2>2, <2>3
<1> DEFINE Q == With(R, s, r)
<1> DEFINE D == With(checkpoints, s, r)
<1>6. rec'[Worker] = Q /\ checkpoints' = D
  BY <1>0, <1>5 DEF Report, TypeInv, MemoryTyped
<1>7. /\ Q[s] = r /\ \A t \in Stages \ {s} : Q[t] = R[t]
      /\ D[s] = r /\ \A t \in Stages \ {s} : D[t] = checkpoints[t]
  <2> HIDE DEF R, s
  <2> QED BY <1>0, <1>2, WithIs
<1> HIDE DEF s, R, Q, D
<1>8. Agrees(rec[Worker])'
  <2> SUFFICES ASSUME NEW t \in Stages
               PROVE  /\ Succeeded(Q, t) <=> Succeeded(D, t)
                      /\ Succeeded(Q, t) => Q[t] = D[t]
    BY <1>6 DEF Agrees, Succeeded
  <2>1. CASE t = s BY <1>7, <2>1 DEF Succeeded
  <2>2. CASE t # s BY <1>4, <1>7, <2>2 DEF Agrees, Succeeded
  <2> QED BY <2>1, <2>2
<1>9. Consistent(D)
  <2>1. ~Succeeded(checkpoints, s) BY <1>0, <1>3, <1>4 DEF Agrees
  <2>2. ASSUME Succeeded(D, s), NEW d \in Deps[s]
        PROVE  /\ Succeeded(checkpoints, d) /\ <<d, checkpoints[d].attempt>> \in D[s].inputs
               /\ <<d, checkpoints[d].output>> \in D[s].from
    <3>1. r.status = "succeeded" BY <1>7, <2>2 DEF Succeeded
    <3>2. d \in Stages BY <1>0, StagesAssumption
    <3>3. Succeeded(R, d) BY <1>5, <3>1
    <3>4. Succeeded(checkpoints, d) /\ R[d] = checkpoints[d]
      BY <1>4, <3>2, <3>3 DEF Agrees
    <3>5. <<d, R[d].attempt>> \in r.inputs /\ <<d, R[d].output>> \in r.from
      BY <1>5, <3>1
    <3> QED BY <1>7, <3>4, <3>5
  <2> QED BY <1>0, <1>7, <2>1, <2>2, ConsistentStep DEF PlanResults
<1>10. KeepsResults(base'[Worker], rec'[Worker])
  <2> SUFFICES ASSUME NEW t \in Stages \ {Package}, Succeeded(base[Worker], t)
               PROVE  Q[t] = base[Worker][t]
    BY <1>1, <1>6 DEF KeepsResults
  <2>1. R[t] = base[Worker][t] BY <1>4 DEF KeepsResults
  <2>2. Succeeded(R, t) BY <2>1 DEF Succeeded
  <2>3. t # s BY <1>3, <2>2 DEF R, s
  <2> QED BY <1>7, <2>1, <2>3
<1>11. RunResults' BY <1>10, WorkerRunResults DEF WorkerActs
<1>12. result' = None
  <2>1. planStatus = "running" BY <1>3 DEF IInv, WorkerBusy, AtWork
  <2> QED BY <1>1, <2>1 DEF PlanInv
<1>13. BySource(<<"plan", attempt>>)' = {}
  <2>1. BySource(<<"plan", attempt>>) = {} BY <1>3, SourceIs DEF PlanInv, R
  <2> QED BY <1>1, <2>1 DEF BySource
<1>14. PlanResults'
  <2>1. Consistent(checkpoints)' BY <1>6, <1>9 DEF Consistent, Succeeded
  <2>2. prior' # None => /\ Consistent(prior)'
                         /\ retryStage' # None => ~Succeeded(prior, retryStage)'
    BY <1>1 DEF PlanResults, Consistent, Succeeded
  <2> QED BY <1>8, <1>12, <1>13, <2>1, <2>2 DEF PlanResults
<1> QED BY <1>11, <1>14

LEMMA EndingResults ==
  ASSUME TypeInv, IInv, PlanResults, RunResults,
         ReportRaises \/ PublishRaises \/ Finish \/ Crash
  PROVE  PlanResults' /\ RunResults'
<1>0. Worker \in Procs BY DEF Procs
<1>1. UNCHANGED <<revisions, attempt, checkpoints, prior, retryStage>>
  BY DEF ReportRaises, PublishRaises, Finish, Crash, plan
<1>2. ~AtWork(Worker)'
  <2>1. pc'[Worker] \in {"result", "idle"}
    BY <1>0 DEF ReportRaises, PublishRaises, Finish, Crash, Goto, At, TypeInv, MemoryTyped
  <2> QED BY <2>1 DEF AtWork
<1>3. RunResults' BY <1>2, WorkerRunResults DEF WorkerActs
<1>4. result' # None => Agrees(result')
  <2>1. CASE Finish
    <3>1. CASE outcome[Worker] = 0 BY <2>1, <3>1 DEF Finish
    <3>2. CASE outcome[Worker] # 0
      <4>1. result' \in {None, revisions[outcome[Worker]].rec} BY <2>1, <3>2 DEF Finish
      <4>2. outcome[Worker] \in BySource(<<"plan", attempt>>)
        BY <3>2, SourceIs DEF IInv, Outcome
      <4>3. Agrees(revisions[outcome[Worker]].rec) BY <4>2 DEF PlanResults
      <4> QED BY <4>1, <4>3
    <3> QED BY <3>1, <3>2
  <2>2. CASE ~Finish
    <3>1. result' = result BY <2>2 DEF ReportRaises, PublishRaises, Crash, plan
    <3> QED BY <3>1 DEF PlanResults
  <2> QED BY <2>1, <2>2
<1>5. PlanResults'
  <2>1. \A x : BySource(x)' = BySource(x) BY <1>1 DEF BySource
  <2>2. result' # None => Agrees(result)' BY <1>1, <1>4 DEF Agrees, Succeeded
  <2> QED BY <1>1, <1>2, <2>1, <2>2 DEF PlanResults, Agrees, Succeeded, Consistent
<1> QED BY <1>3, <1>5

\* A reset drops a failed stage with all that could have been made from it.
LEMMA DroppedConsistent ==
  ASSUME TypeInv, NEW R, NEW s, Agrees(R), Consistent(checkpoints)
  PROVE  Consistent(Dropped(s, R))
<1> DEFINE D == Dropped(s, R)
<1>1. \A t \in Stages : IF t \in Closure(s, Present(R)) THEN ~Succeeded(D, t)
                        ELSE D[t] = checkpoints[t]
  BY DroppedIs
<1> SUFFICES ASSUME NEW t \in Stages, Succeeded(D, t), NEW d \in Deps[t]
             PROVE  /\ Succeeded(D, d) /\ <<d, D[d].attempt>> \in D[t].inputs
                    /\ <<d, D[d].output>> \in D[t].from
  BY DEF Consistent
<1> HIDE DEF D
<1>2. d \in Stages BY StagesAssumption
<1>3. t \notin Closure(s, Present(R)) /\ D[t] = checkpoints[t] /\ Succeeded(checkpoints, t)
  BY <1>1 DEF Succeeded
<1>4. t \in Present(R)
  <2>1. R[t].status = "succeeded" BY <1>3 DEF Agrees, Succeeded
  <2> QED BY <2>1 DEF Present
<1>5. d \notin Closure(s, Present(R))
  <2>1. Present(R) \in SUBSET Stages BY DEF Present
  <2> QED BY <1>3, <1>4, <2>1, ClosureUp
<1>6. /\ Succeeded(checkpoints, d) /\ <<d, checkpoints[d].attempt>> \in D[t].inputs
      /\ <<d, checkpoints[d].output>> \in D[t].from
  BY <1>3 DEF Consistent
<1>7. D[d] = checkpoints[d] BY <1>1, <1>2, <1>5
<1> QED BY <1>6, <1>7 DEF Succeeded

LEMMA ResetResults ==
  ASSUME TypeInv, IInv, PlanInv, PlanResults, RunResults, Reset
  PROVE  PlanResults' /\ RunResults'
<1>1. /\ planStatus \in {"failed", "partial"} /\ attempt' = attempt + 1 /\ result' = None
      /\ UNCHANGED <<revisions, pc, memory>>
      /\ \/ UNCHANGED <<checkpoints, prior, retryStage>>
         \/ \E R \in {result, checkpoints} \cap WholeRuns :
              /\ R = result => result # None
              /\ prior' = R /\ prior' # None
              /\ retryStage' \in FailedIn(R) \cup {None}
              /\ checkpoints' = Dropped(retryStage', R)
  BY ResetIs
<1>2. ~AtWork(Worker)' BY <1>1 DEF IInv, WorkerBusy, AtWork
<1>3. RunResults' BY <1>2, WorkerRunResults
<1>4. BySource(<<"plan", attempt>>)' = {}
  <2>1. attempt \in Nat BY DEF TypeInv, PlanTyped
  <2>2. BySource(<<"plan", attempt + 1>>) = {} BY <2>1 DEF PlanInv
  <2> QED BY <1>1, <2>2 DEF BySource
<1>5. CASE UNCHANGED <<checkpoints, prior, retryStage>>
  BY <1>1, <1>2, <1>3, <1>4, <1>5 DEF PlanResults, Consistent, Succeeded
<1>6. ASSUME NEW R \in {result, checkpoints}, R = result => result # None,
             prior' = R, retryStage' \in FailedIn(R) \cup {None},
             checkpoints' = Dropped(retryStage', R)
      PROVE  PlanResults'
  <2>1. Agrees(R)
    <3>1. CASE R = result BY <1>6, <3>1 DEF PlanResults
    <3>2. CASE R = checkpoints BY <3>2 DEF Agrees
    <3> QED BY <1>6, <3>1, <3>2
  <2>2. Consistent(checkpoints) BY DEF PlanResults
  <2>3. Consistent(checkpoints)'
    <3>1. Consistent(Dropped(retryStage', R)) BY <2>1, <2>2, DroppedConsistent
    <3> QED BY <1>6, <3>1 DEF Consistent, Succeeded
  <2>4. Consistent(prior)'
    <3>1. Consistent(R) BY <2>1, <2>2, AgreesConsistent
    <3> QED BY <1>6, <3>1 DEF Consistent, Succeeded
  <2>5. retryStage' # None => ~Succeeded(prior, retryStage)'
    BY <1>6 DEF FailedIn, Succeeded
  <2> QED BY <1>1, <1>2, <1>4, <2>3, <2>4, <2>5 DEF PlanResults
<1> QED BY <1>1, <1>3, <1>5, <1>6

LEMMA RequestResults ==
  ASSUME TypeInv, PlanResults, RunResults, NEW q \in Requests, RequestStep(q)
  PROVE  PlanResults' /\ RunResults'
<1>1. /\ q \in Procs /\ q # Worker
      /\ UNCHANGED <<revisions, attempt, checkpoints, prior, retryStage, result>>
      /\ \A p \in Procs \ {q} : pc'[p] = pc[p] /\ rec'[p] = rec[p] /\ base'[p] = base[p]
      /\ \A x : BySource(x)' = BySource(x)
  BY RequestFrame DEF plan
<1>2. PICK B \in WholeRuns, r \in Stages \cup {None}, ok \in SUBSET Stages :
        /\ rec'[q] = RunFrom(Resumed(B, r), ok, Token(q)) /\ base'[q] = B
        /\ \/ B = Fresh
           \/ /\ revisions # << >> /\ B = revisions[Len(revisions)].rec
              /\ \/ r = None
                 \/ r \in Stages /\ ~Succeeded(B, r)
  BY RequestFrame
<1>3. Consistent(B)
  <2>1. CASE B = Fresh BY <2>1, FreshConsistent
  <2>2. CASE revisions # << >> /\ B = revisions[Len(revisions)].rec
    <3>1. revisions \in Seq(Revisions) BY DEF TypeInv, LogTyped
    <3>2. Len(revisions) \in DOMAIN revisions BY <2>2, <3>1
    <3> QED BY <2>2, <3>2 DEF RunResults
  <2> QED BY <1>2, <2>1, <2>2
<1> DEFINE S == Resumed(B, r)
<1>4. Consistent(S) BY <1>3, ResumedConsistent
<1>5. S \in WholeRuns /\ Token(q) \in Procs \X (0..MaxRuns \cup {1})
  BY <1>1, ResumedIs, TokenIs
<1>6. KeepsResults(B, S)
  <2>1. CASE B = Fresh BY <2>1, FreshIs DEF KeepsResults
  <2>2. CASE r = None BY <2>2, ResumedKeeps DEF KeepsResults
  <2>3. CASE ~Succeeded(B, r) BY <1>3, <2>3, ResumedKeeps DEF KeepsResults
  <2> QED BY <1>2, <2>1, <2>2, <2>3
<1>7. Consistent(rec'[q]) /\ \A s \in Stages : Succeeded(S, s) => rec'[q][s] = S[s]
  <2> HIDE DEF S
  <2> QED BY <1>2, <1>4, <1>5, RunFromIs DEF S
<1> HIDE DEF S
<1>8. KeepsResults(base'[q], rec'[q])
  <2> SUFFICES ASSUME NEW s \in Stages \ {Package}, Succeeded(B, s) PROVE rec'[q][s] = B[s]
    BY <1>2 DEF KeepsResults
  <2>1. S[s] = B[s] BY <1>6 DEF KeepsResults
  <2>2. Succeeded(S, s) BY <2>1 DEF Succeeded
  <2> QED BY <1>7, <2>1, <2>2
<1>9. PlanResults'
  <2>1. pc'[Worker] = pc[Worker] /\ rec'[Worker] = rec[Worker] BY <1>1 DEF Procs
  <2> QED BY <1>1, <2>1 DEF PlanResults, AtWork, Agrees, Succeeded, Consistent
<1>10. \A i \in DOMAIN revisions' : Consistent(revisions[i].rec)'
  BY <1>1 DEF RunResults, Consistent, Succeeded
<1>11. ASSUME NEW p \in Requests, AtWork(p)' PROVE Consistent(rec[p])'
  <2>1. CASE p = q BY <1>7, <2>1 DEF Consistent, Succeeded
  <2>2. CASE p # q
    <3>1. pc'[p] = pc[p] /\ rec'[p] = rec[p] BY <1>1, <2>2 DEF Procs
    <3> QED BY <1>11, <3>1 DEF RunResults, AtWork, Consistent, Succeeded
  <2> QED BY <2>1, <2>2
<1>12. ASSUME NEW p \in Procs, AtWork(p)' PROVE KeepsResults(base[p], rec[p])'
  <2>1. CASE p = q BY <1>8, <2>1 DEF KeepsResults, Succeeded
  <2>2. CASE p # q
    <3>1. pc'[p] = pc[p] /\ rec'[p] = rec[p] /\ base'[p] = base[p] BY <1>1, <2>2
    <3> QED BY <1>12, <3>1 DEF RunResults, AtWork, KeepsResults, Succeeded
  <2> QED BY <2>1, <2>2
<1> QED BY <1>9, <1>10, <1>11, <1>12 DEF RunResults

LEMMA ReviseResults ==
  ASSUME TypeInv, IInv, PlanResults, RunResults, NEW p \in Procs, Revise(p)
  PROVE  PlanResults' /\ RunResults'
<1>0. Worker \in Procs BY DEF Procs
<1>1. /\ UNCHANGED <<attempt, checkpoints, prior, retryStage, result>> /\ AtWork(p)
      /\ \A q \in Procs \ {p} : pc'[q] = pc[q] /\ rec'[q] = rec[q] /\ base'[q] = base[q]
  BY ReviseFrame DEF plan
<1>2. ASSUME NEW q \in Procs, AtWork(q)'
      PROVE  AtWork(q) /\ rec'[q] = rec[q] /\ base'[q] = base[q]
  <2>1. CASE q = p BY <1>1, <1>2, <2>1, ReviseFrame
  <2>2. CASE q # p BY <1>1, <1>2, <2>2 DEF AtWork
  <2> QED BY <2>1, <2>2
<1>3. Consistent(rec[p]) /\ (p = Worker => Agrees(rec[p]))
  <2>1. CASE p = Worker BY <1>1, <2>1, AgreesConsistent DEF PlanResults
  <2>2. CASE p # Worker BY <1>1, <2>2 DEF RunResults, Procs
  <2> QED BY <2>1, <2>2
<1>4. /\ \A i \in DOMAIN revisions' : Consistent(revisions[i].rec)'
      /\ \A i \in BySource(<<"plan", attempt>>)' : Agrees(revisions[i].rec)'
  <2>1. CASE UNCHANGED revisions
    BY <1>1, <2>1 DEF PlanResults, RunResults, BySource, Consistent, Agrees, Succeeded
  <2>2. CASE /\ DOMAIN revisions' = DOMAIN revisions \cup {Len(revisions) + 1}
             /\ revisions'[Len(revisions) + 1] = NewRevision(p)
             /\ \A i \in DOMAIN revisions : revisions'[i] = revisions[i]
    <3> DEFINE n == Len(revisions) + 1
    <3>1. revisions'[n].rec = rec[p] /\ revisions'[n].source = Source(p)
      BY <2>2 DEF NewRevision
    <3>2. Source(p) = <<"plan", attempt>> => p = Worker BY SourceIs DEF Procs
    <3>3. ASSUME NEW i \in DOMAIN revisions'
          PROVE  /\ Consistent(revisions'[i].rec)
                 /\ revisions'[i].source = <<"plan", attempt>> => Agrees(revisions'[i].rec)
      <4>1. CASE i \in DOMAIN revisions
        <5>1. revisions'[i] = revisions[i] BY <2>2, <4>1
        <5> QED BY <4>1, <5>1 DEF PlanResults, RunResults, BySource
      <4>2. CASE i = n BY <1>3, <3>1, <3>2, <4>2
      <4> QED BY <2>2, <4>1, <4>2
    <3>4. \A i \in DOMAIN revisions' : Consistent(revisions[i].rec)'
      BY <3>3 DEF Consistent, Succeeded
    <3>5. \A i \in BySource(<<"plan", attempt>>)' : Agrees(revisions[i].rec)'
      BY <1>1, <3>3 DEF BySource, Agrees, Succeeded
    <3> QED BY <3>4, <3>5
  <2> QED BY <2>1, <2>2, ReviseFrame
<1>5. AtWork(Worker)' => Agrees(rec[Worker])'
  <2> SUFFICES ASSUME AtWork(Worker)' PROVE Agrees(rec[Worker])' OBVIOUS
  <2>1. AtWork(Worker) /\ rec'[Worker] = rec[Worker] BY <1>0, <1>2
  <2> QED BY <1>1, <2>1 DEF PlanResults, Agrees, Succeeded
<1>6. PlanResults'
  BY <1>1, <1>4, <1>5 DEF PlanResults, Consistent, Agrees, Succeeded
<1>7. ASSUME NEW q \in Requests, AtWork(q)' PROVE Consistent(rec[q])'
  <2>1. AtWork(q) /\ rec'[q] = rec[q] BY <1>2, <1>7 DEF Procs
  <2> QED BY <2>1 DEF RunResults, Consistent, Succeeded
<1>8. ASSUME NEW q \in Procs, AtWork(q)' PROVE KeepsResults(base[q], rec[q])'
  <2>1. AtWork(q) /\ rec'[q] = rec[q] /\ base'[q] = base[q] BY <1>2, <1>8
  <2> QED BY <2>1 DEF RunResults, KeepsResults, Succeeded
<1> QED BY <1>4, <1>6, <1>7, <1>8 DEF RunResults

LEMMA NextResults ==
  TypeInv /\ IInv /\ PlanInv /\ StageInv /\ ResultsInv /\ [Next]_vars => ResultsInv'
<1> SUFFICES ASSUME TypeInv, IInv, PlanInv, StageInv, ResultsInv, [Next]_vars, ~drifted'
             PROVE  PlanResults' /\ RunResults'
  BY DEF ResultsInv
<1>1. ~drifted
  <2>1. UNCHANGED drifted \/ Execute
    BY DEF Next, WorkerStep, WorkerBlocks, WorkerStarts, WorkerEndsStage, ReportRaises,
       PublishRaises, Finish, Crash, Reset, RequestStep, Generate, Retry, Revise,
       ReadParent, Insert, Conflict, vars
  <2>2. Execute => UNCHANGED drifted \/ drifted' = (drifted \/ ~Agrees(Resumed(PriorRun, retryStage)))
    BY DEF Execute
  <2> QED BY <2>1, <2>2
<1>2. PlanResults /\ RunResults BY <1>1 DEF ResultsInv
<1>3. CASE UNCHANGED vars
  BY <1>2, <1>3 DEF vars, plan, memory, PlanResults, RunResults, AtWork, BySource, Agrees,
     Consistent, KeepsResults, Succeeded
<1> QED BY <1>2, <1>3, ExecuteResults, StageResults, EndingResults, ResetResults,
       RequestResults, ReviseResults DEF Next, WorkerStep

\* The stronger invariants together.
StrongInv == TypeInv /\ IInv /\ PlanInv /\ StageInv /\ PackageInv /\ ResultsInv

\* Every behaviour satisfies the inductive invariant, that of the contents of
\* the runs included.
THEOREM ContentsInvariant == Spec => []StrongInv
<1>1. Init => StrongInv
  BY InitTyped, InitIInv, InitPlan, InitStage, InitPackage, InitResults DEF StrongInv
<1>2. StrongInv /\ [Next]_vars => StrongInv'
  BY NextTyped, NextIInv, NextPlan, NextStage, NextPackage, NextResults DEF StrongInv
<1> QED BY <1>1, <1>2, PTL DEF Spec

\* As long as executions begin where the checkpoints ended, no stored design
\* mixes the results of two runs, however often the worker died, was reset or
\* failed to report, and whatever requests were made beside it.
THEOREM DesignsAreOfOneRun == Spec => []InputsAreCurrent
<1>1. StrongInv => InputsAreCurrent
  BY DEF StrongInv, ResultsInv, RunResults, InputsAreCurrent
<1> QED BY <1>1, ContentsInvariant, PTL

\* Under the same proviso, a retry or a resumption keeps every result that it
\* begins with, but for the package.
THEOREM ResultsAreKept == Spec => []RetryKeepsResults
<1>1. StrongInv => RetryKeepsResults
  BY DEF StrongInv, ResultsInv, RunResults, RetryKeepsResults, KeepsResults, AtWork
<1> QED BY <1>1, ContentsInvariant, PTL

\* What a request stores was packaged from what is stored with it, though it
\* began with the results of an earlier run.
THEOREM PackagesAreCurrent == Spec => []PackageIsCurrent
<1>1. StrongInv => PackageIsCurrent BY DEF StrongInv, PackageInv
<1> QED BY <1>1, ContentsInvariant, PTL
=============================================================================
