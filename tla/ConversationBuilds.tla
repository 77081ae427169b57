------------------------- MODULE ConversationBuilds -------------------------
(***************************************************************************)
(* The turns of one conversation about one project, and the build that a   *)
(* turn dispatches.  A turn reads the chat, the design brief and the       *)
(* workflow, lets an agent decide, and then tells (it adds context to the  *)
(* brief) or builds (it moves the project on, freezes a brief, creates the *)
(* plan of the build and launches its execution).  Turns overlap: the      *)
(* agent is slow and nothing holds a lock.  Every step is one session.     *)
(*                                                                         *)
(* The workflow service appears as the machine that ProjectWorkflow        *)
(* implements, and the execution of a plan (WorkerOrchestration) as a      *)
(* thread that ends and then advances the workflow.                        *)
(***************************************************************************)
EXTENDS Naturals, Sequences, FiniteSets, WorkflowStates

CONSTANTS
  Requests,   \* the requests that may be in progress at once
  None, NoKey,
  Targets,    \* the states that the owner asks for directly
  Specified,  \* the turns that name the outputs and the criteria of the build
  MaxTurns, MaxEvents  \* bounds on turns, and on failures, crashes and moves
                       \* of the owner together

ASSUME ConversationAssumption ==
  /\ Targets \subseteq States /\ NoKey \notin {"conversation-proceed", "conversation-build",
       "conversation-build-dispatch-failed", "worker-plan-terminal"}
  /\ MaxTurns \in Nat /\ MaxEvents \in Nat

VARIABLES
  state, revision, spent,  \* of the project's workflow
  briefs,    \* the versions of the brief: the turns it tells of, open questions
  build,     \* the build of the conversation: version and the turn that began it
  plan,      \* its plan: none, planned or over
  threads,   \* how many executions of it are in progress
  chat,      \* the turns whose messages the chat record holds
  turn,      \* what each request is doing and has read
  begun, events,
  told, met  \* history: the turns that were answered; that overlapped another
             \* turn or a move of the owner

machine == <<state, revision, spent>>
execution == <<plan, threads>>
bounds == <<begun, events>>
vars == <<machine, briefs, build, execution, chat, turn, bounds, told, met>>

Keys == {"conversation-proceed", "conversation-build",
         "conversation-build-dispatch-failed", "worker-plan-terminal"}

Workflow == INSTANCE WorkflowMachine

Nothing == [pc |-> "idle", n |-> 0, kind |-> "tell", says |-> FALSE, chat |-> {},
            brief |-> 0, seen |-> NoState, version |-> 0, anyway |-> FALSE,
            base |-> 0, asked |-> 0, raised |-> FALSE]

Init ==
  /\ Workflow!Init
  /\ briefs = <<>> /\ build = None /\ plan = "none" /\ threads = 0 /\ chat = {}
  /\ turn = [t \in Requests |-> Nothing]
  /\ begun = 0 /\ events = 0 /\ told = {} /\ met = {}

At(t, pc) == turn[t].pc = pc
Become(t, r) == turn' = [turn EXCEPT ![t] = r]
\* The turn goes on and needs no more of what it has read than the chat.
Leave(t, pc) ==
  Become(t, [Nothing EXCEPT !.pc = pc, !.n = turn[t].n, !.chat = turn[t].chat,
                            !.asked = IF pc = "failed" THEN revision ELSE 0,
                            !.raised = turn[t].raised])
Raise(t) == Become(t, Nothing)   \* an error response: nothing is stored
Event == events < MaxEvents /\ events' = events + 1

\* [Fault] The number of the next version, not of the latest.
NextNumber == Len(briefs) + 1

\* get_latest_design_brief: the number of the latest version, 0 without one.
Latest == Len(briefs)

\* What transition promises: a spent key and the present state are answered
\* without a move, and a move outside the table raises.
Permitted(to, k) == k \in spent \/ state = to \/ to \in ALLOWED_WORKFLOW_TRANSITIONS[state]

Transit(to, k) ==
  IF k \notin spent /\ state # to /\ Permitted(to, k)
  THEN Workflow!Move(to, k) ELSE UNCHANGED machine

\* transition reads and commits in two transactions.  A project that moves in
\* between, so after the turn came to the transition, makes the commit raise;
\* a key that this move has spent is answered all the same.
Overtaken(t) == revision # turn[t].asked

-----------------------------------------------------------------------------
(* A turn begins, reads and is routed. *)

Active == {t \in Requests : ~At(t, "idle")}

Begin(t, kind, says) ==
  /\ At(t, "idle") /\ begun < MaxTurns /\ begun' = begun + 1
  /\ Become(t, [Nothing EXCEPT !.pc = "chat", !.n = begun', !.kind = kind, !.says = says])
  /\ met' = IF Active = {} THEN met ELSE met \cup {begun'} \cup {turn[u].n : u \in Active}
  /\ UNCHANGED <<machine, briefs, build, execution, chat, events, told>>

\* [Fault] A chat that cannot be read counts as a new one.
ReadNoChat(t) ==
  /\ At(t, "chat")
  /\ Become(t, [turn[t] EXCEPT !.pc = "brief", !.chat = {}])
  /\ UNCHANGED <<machine, briefs, build, execution, chat, bounds, told, met>>

ReadChat(t) ==
  /\ At(t, "chat")
  /\ Become(t, [turn[t] EXCEPT !.pc = "brief", !.chat = chat])
  /\ UNCHANGED <<machine, briefs, build, execution, chat, bounds, told, met>>

\* What a building turn says matters only while there is no brief.
ReadBrief(t) ==
  /\ At(t, "brief")
  /\ Become(t, [turn[t] EXCEPT !.pc = "workflow", !.brief = Latest,
                               !.says = turn[t].says /\ Latest = 0])
  /\ UNCHANGED <<machine, briefs, build, execution, chat, bounds, told, met>>

\* What a building turn does next, once it has what it needs of the brief.
Built(r) ==
  IF r.seen = "gathering_context" THEN "proceed"
  ELSE IF r.seen # NoState /\ r.brief > 0 THEN "readiness" ELSE "store"

\* The same for any turn whose workflow has been initialized or needs not be.
Decided(r) ==
  IF r.kind = "tell" THEN IF r.seen = "gathering_context" THEN "append" ELSE "reject"
  ELSE IF r.brief = 0 /\ r.says THEN "append" ELSE Built(r)

Routed(r) ==
  IF r.seen = NoState /\ (r.says \/ r.brief > 0) THEN "initialize"
  ELSE IF r.kind = "tell" /\ r.seen = "ready_to_build" THEN "reopen"
  ELSE Decided(r)

\* What the turn still needs of what it has read, and the revision of the project
\* when it comes to a transition.
Onward(r, pc) ==
  [r EXCEPT !.pc = pc, !.says = r.says /\ pc = "initialize",
            !.kind = IF pc \in {"initialize", "append"} THEN r.kind ELSE "tell",
            !.brief = IF pc \in {"readiness", "store"} THEN 0 ELSE r.brief,
            !.seen = IF pc = "append" /\ r.kind = "build" THEN r.seen ELSE NoState,
            !.asked = IF pc \in {"reopen", "proceed"} THEN revision' ELSE 0]

Follow(t, r, pc) == IF pc = "reject" THEN Raise(t) ELSE Become(t, Onward(r, pc))

ReadWorkflow(t) ==
  /\ At(t, "workflow") /\ UNCHANGED machine
  /\ LET r == [turn[t] EXCEPT !.seen = state]
     IN Follow(t, r, Routed(r))
  /\ UNCHANGED <<briefs, build, execution, chat, bounds, told, met>>

\* An existing workflow is the answer, whatever its state.
Initialize(t) ==
  /\ At(t, "initialize")
  /\ IF state = NoState THEN Workflow!Open ELSE UNCHANGED machine
  /\ LET r == [turn[t] EXCEPT !.seen = state']
     IN Follow(t, r, Decided(r))
  /\ UNCHANGED <<briefs, build, execution, chat, bounds, told, met>>

-----------------------------------------------------------------------------
(* Telling: the context of the turn is merged into the brief it has read. *)

Reopen(t) ==
  /\ At(t, "reopen")
  /\ \/ /\ Permitted("gathering_context", NoKey) /\ Transit("gathering_context", NoKey)
        /\ Become(t, Onward(turn[t], "append"))
     \/ ~Permitted("gathering_context", NoKey) /\ UNCHANGED machine /\ Raise(t)
     \/ Overtaken(t) /\ UNCHANGED machine /\ Raise(t)
  /\ UNCHANGED <<briefs, build, execution, chat, bounds, told, met>>

\* create_design_brief_version: the number of the latest version ...
Number(t) ==
  /\ At(t, "append")
  /\ Become(t, [turn[t] EXCEPT !.pc = "insert", !.base = Latest])
  /\ UNCHANGED <<machine, briefs, build, execution, chat, bounds, told, met>>

\* ... and the insertion of the next, under a unique constraint.
Insertable(t) == Len(briefs) = turn[t].base

Context(v) == IF v = 0 THEN {} ELSE briefs[v].context

\* A brief that names no outputs or criteria is not ready, whatever is assumed.
Lacking(context) == context \cap Specified = {}

Insert(t) ==
  /\ At(t, "insert") /\ UNCHANGED machine
  /\ IF Insertable(t)
     THEN \E open \in BOOLEAN :
            /\ LET c == Context(turn[t].brief) \cup {turn[t].n}
               IN briefs' = Append(briefs, [context |-> c, open |-> open \/ Lacking(c)])
            /\ LET r == [turn[t] EXCEPT !.brief = Len(briefs'), !.base = 0]
               IN IF r.kind = "tell" THEN Leave(t, "store")
                  ELSE Become(t, Onward(r, Built(r)))
     ELSE UNCHANGED briefs /\ Raise(t)
  /\ UNCHANGED <<build, execution, chat, bounds, told, met>>

-----------------------------------------------------------------------------
(* Building: ContextBuildDispatcher.start. *)

Proceed(t) ==
  /\ At(t, "proceed")
  /\ \/ /\ Permitted("ready_to_build", "conversation-proceed")
        /\ Transit("ready_to_build", "conversation-proceed")
        /\ Become(t, Onward(turn[t], IF turn[t].brief > 0 THEN "readiness" ELSE "store"))
     \/ ~Permitted("ready_to_build", "conversation-proceed") /\ UNCHANGED machine /\ Raise(t)
     \/ /\ Overtaken(t) /\ "conversation-proceed" \notin spent
        /\ UNCHANGED machine /\ Raise(t)
  /\ UNCHANGED <<briefs, build, execution, chat, bounds, told, met>>

\* evaluate_project_readiness decides on Build or Build Anyway.
Readiness(t) ==
  /\ At(t, "readiness")
  /\ Become(t, [Nothing EXCEPT !.pc = "freeze", !.n = turn[t].n, !.chat = turn[t].chat,
                               !.anyway = briefs[Latest].open])
  /\ UNCHANGED <<machine, briefs, build, execution, chat, bounds, told, met>>

\* initiate_project_build: what a build of this key was begun with is replayed;
\* otherwise Build Anyway first appends its assumptions to the brief.
Freeze(t) ==
  /\ At(t, "freeze")
  /\ IF state \in Buildable \/ "conversation-build" \in spent
     THEN Become(t, [turn[t] EXCEPT !.version = Latest, !.anyway = FALSE,
            !.pc = IF turn[t].anyway /\ "conversation-build" \notin spent
                   THEN "assume" ELSE "initiate"])
     ELSE Leave(t, "store")
  /\ UNCHANGED <<machine, briefs, build, execution, chat, bounds, told, met>>

NumberAssumed(t) ==
  /\ At(t, "assume")
  /\ Become(t, [turn[t] EXCEPT !.pc = "insert_assumed", !.base = Latest])
  /\ UNCHANGED <<machine, briefs, build, execution, chat, bounds, told, met>>

\* The assumptions resolve the questions, but supply no outputs or criteria that
\* the brief lacks.  A conflict is no ReadinessError, so it ends as a failed
\* dispatch.
InsertAssumed(t) ==
  /\ At(t, "insert_assumed")
  /\ IF Insertable(t)
     THEN /\ LET c == Context(turn[t].version)
             IN briefs' = Append(briefs, [context |-> c, open |-> Lacking(c)])
          /\ Become(t, [turn[t] EXCEPT !.pc = "initiate", !.version = Len(briefs'),
                                 !.anyway = TRUE, !.base = 0])
     ELSE UNCHANGED briefs /\ Leave(t, "failed")
  /\ UNCHANGED <<machine, build, execution, chat, bounds, told, met>>

\* Build takes a brief without open questions, Build Anyway any whose questions
\* were resolved by assumptions.
Startable(t) == state \in Buildable /\ (turn[t].anyway \/ ~briefs[turn[t].version].open)

\* [Fault] The build is begun under a key of its own.
InitiateUnkeyed(t) ==
  /\ At(t, "initiate")
  /\ IF Startable(t)
     THEN /\ Workflow!Move("building", NoKey)
          /\ build' = [version |-> turn[t].version, by |-> turn[t].n]
          /\ Leave(t, "plan")
     ELSE UNCHANGED <<machine, build>> /\ Leave(t, IF build = None THEN "store" ELSE "plan")
  /\ UNCHANGED <<briefs, execution, chat, bounds, told, met>>

\* ProjectBuildService.initiate; a refusal is a ReadinessError.
Initiate(t) ==
  /\ At(t, "initiate")
  /\ IF "conversation-build" \in spent
     THEN UNCHANGED <<machine, build>> /\ Leave(t, "plan")
     ELSE IF Startable(t)
     THEN /\ Workflow!Move("building", "conversation-build")
          /\ build' = [version |-> turn[t].version, by |-> turn[t].n]
          /\ Leave(t, "plan")
     ELSE UNCHANGED <<machine, build>> /\ Leave(t, "store")
  /\ UNCHANGED <<briefs, execution, chat, bounds, told, met>>

\* [Fault] A plan that exists is not looked for.
FindNoPlan(t) ==
  /\ At(t, "plan") /\ Leave(t, "insert_plan")
  /\ UNCHANGED <<machine, briefs, build, execution, chat, bounds, told, met>>

\* create_project_generation_plan: a plan that exists is the answer, and is
\* launched if its execution has not begun.
FindPlan(t) ==
  /\ At(t, "plan")
  /\ Leave(t, CASE plan = "none" -> "insert_plan" [] plan = "planned" -> "launch"
               [] OTHER -> "store")
  /\ UNCHANGED <<machine, briefs, build, execution, chat, bounds, told, met>>

\* The name of the plan is unique; who comes second has failed to dispatch.
InsertPlan(t) ==
  /\ At(t, "insert_plan")
  /\ IF plan = "none" THEN plan' = "planned" /\ Leave(t, "launch")
                      ELSE UNCHANGED plan /\ Leave(t, "failed")
  /\ UNCHANGED <<machine, briefs, build, threads, chat, bounds, told, met>>

\* On a serverless host nothing is launched and the client executes the plan.
Launch(t) ==
  /\ At(t, "launch") /\ Leave(t, "store")
  /\ threads' \in {threads, threads + 1}
  /\ UNCHANGED <<machine, briefs, build, plan, chat, bounds, told, met>>

Dispatching == {"readiness", "freeze", "assume", "insert_assumed", "initiate",
                "plan", "insert_plan", "launch"}

\* The store, or the host, fails.
DispatchRaises(t) ==
  /\ turn[t].pc \in Dispatching /\ Event
  /\ Become(t, [Nothing EXCEPT !.pc = "failed", !.n = turn[t].n, !.chat = turn[t].chat,
                               !.asked = revision, !.raised = TRUE])
  /\ UNCHANGED <<machine, briefs, build, execution, chat, begun, told, met>>

\* A project that may not fail, or moves before the commit, stays where it is.
DispatchFailed(t) ==
  /\ At(t, "failed") /\ Leave(t, "store")
  /\ \/ Transit("failed", "conversation-build-dispatch-failed")
     \/ Overtaken(t) /\ UNCHANGED machine
  /\ UNCHANGED <<briefs, build, execution, chat, bounds, told, met>>

-----------------------------------------------------------------------------
\* The chat is written back whole, with the messages of the turn.
Store(t) ==
  /\ At(t, "store")
  /\ chat' = turn[t].chat \cup {turn[t].n}
  /\ told' = told \cup {turn[t].n}
  /\ Become(t, Nothing)
  /\ UNCHANGED <<machine, briefs, build, execution, bounds, met>>

Crash(t) ==
  /\ ~At(t, "idle") /\ Event /\ Become(t, Nothing)
  /\ UNCHANGED <<machine, briefs, build, execution, chat, begun, told, met>>

-----------------------------------------------------------------------------
(* The execution of the plan, and what a client does itself. *)

\* The plan is written as running.
Execute ==
  /\ threads > 0 /\ plan = "planned" /\ plan' = "running"
  /\ UNCHANGED <<machine, briefs, build, threads, chat, turn, bounds, told, met>>

\* The plan is written as over and the workflow is told; it may refuse.  Only a
\* building project awaits feedback, so one that moves before the commit stays.
Finish ==
  /\ threads > 0 /\ plan \in {"running", "over"}
  /\ plan' = "over" /\ threads' = threads - 1
  /\ Transit("awaiting_feedback", "worker-plan-terminal")
  /\ UNCHANGED <<briefs, build, chat, turn, bounds, told, met>>

ExecutionDies ==
  /\ threads > 0 /\ Event /\ threads' = threads - 1
  /\ UNCHANGED <<machine, briefs, build, plan, chat, turn, begun, told, met>>

\* A client that finds the plan unfinished executes it.
Resume ==
  /\ plan \in {"planned", "running"} /\ threads = 0 /\ threads' = 1
  /\ UNCHANGED <<machine, briefs, build, plan, chat, turn, bounds, told, met>>

\* The route of the workflow moves the project where its owner asks.
ClientMove(to) ==
  /\ Event /\ Workflow!Move(to, NoKey)
  /\ met' = met \cup {turn[u].n : u \in Active}
  /\ UNCHANGED <<briefs, build, execution, chat, turn, begun, told>>

-----------------------------------------------------------------------------
TurnStep(t) ==
  \/ ReadChat(t) \/ ReadBrief(t) \/ ReadWorkflow(t) \/ Initialize(t)
  \/ Reopen(t) \/ Number(t) \/ Insert(t) \/ Proceed(t) \/ Readiness(t) \/ Freeze(t)
  \/ NumberAssumed(t) \/ InsertAssumed(t) \/ Initiate(t) \/ FindPlan(t)
  \/ InsertPlan(t) \/ Launch(t) \/ DispatchRaises(t) \/ DispatchFailed(t) \/ Store(t)
  \/ Crash(t)

Next ==
  \/ \E t \in Requests :
       TurnStep(t) \/ Begin(t, "tell", TRUE) \/ \E says \in BOOLEAN : Begin(t, "build", says)
  \/ Execute \/ Finish \/ ExecutionDies \/ Resume
  \/ \E to \in Targets : ClientMove(to)

Spec == Init /\ [][Next]_vars

-----------------------------------------------------------------------------
(* Properties. *)

Numbers == 0..MaxTurns
Locations == Dispatching \cup
  {"idle", "chat", "brief", "workflow", "initialize", "reopen", "append",
   "insert", "proceed", "failed", "store"}

TypeOK ==
  /\ state \in States \cup {NoState} /\ revision \in Nat /\ spent \subseteq Keys
  /\ briefs \in Seq([context : SUBSET Numbers, open : BOOLEAN])
  /\ build \in {None} \cup [version : DOMAIN briefs, by : Numbers]
  /\ plan \in {"none", "planned", "running", "over"} /\ threads \in Nat
  /\ chat \subseteq Numbers /\ told \subseteq Numbers /\ met \subseteq Numbers
  /\ \A t \in Requests :
       /\ turn[t].pc \in Locations /\ turn[t].kind \in {"tell", "build"}
       /\ turn[t].chat \subseteq Numbers /\ turn[t].seen \in States \cup {NoState}
       /\ turn[t].brief \in 0..Len(briefs) /\ turn[t].version \in 0..Len(briefs)
       /\ turn[t].base \in 0..Len(briefs) /\ turn[t].asked \in Nat
       /\ turn[t].n \in Numbers /\ turn[t].says \in BOOLEAN
       /\ turn[t].anyway \in BOOLEAN /\ turn[t].raised \in BOOLEAN
  /\ begun \in Numbers /\ events \in 0..MaxEvents

\* What a turn said that met no other is not lost: its messages stay in the
\* chat, its context is in every later version of the brief, also in those that
\* turns which overlap write, and in what a later turn builds.
\* (context_gathering_api.py:118, 237, 379.)
Alone == told \ met

WhatIsToldIsKept ==
  \A n \in Alone :
    /\ n \in chat
    /\ \A v, u \in DOMAIN briefs :
         v < u /\ n \in briefs[v].context => n \in briefs[u].context
    /\ build # None => \A v \in DOMAIN briefs :
         n < build.by /\ n \in briefs[v].context => n \in briefs[build.version].context

\* The dispatch of a turn that meets no other fails only if the store does: a
\* repeated request to build finds its build and its plan.  (context_builds.py:49.)
FailsForCause ==
  \A t \in Requests : At(t, "failed") => turn[t].raised \/ turn[t].n \in met

\* Not kept by the code, and checked by no run: two turns that build do not
\* record the failure of each other's build.  (docs/generation-worker.md:37.)
NobodyFailsABuild ==
  \A t \in Requests : At(t, "failed") => turn[t].raised \/ build = None

\* A conversation has one build, with the brief frozen when it began, whatever
\* is repeated, raced or lost on the way.  (context_builds.py:55.)
OneBuild == [][build # None => build' = build]_vars

=============================================================================
