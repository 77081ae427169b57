-------------------------- MODULE ProjectWorkflow --------------------------
(***************************************************************************)
(* The workflow of one project, as concurrent requests see it.             *)
(*                                                                         *)
(* ProjectWorkflowService (initialize, transition) and ProjectBuildService *)
(* (initiate) run in any number of request threads and processes.  A call  *)
(* reads the tables in short sessions of its own, decides on what it read, *)
(* and commits in one transaction of the repository.  That transaction     *)
(* first SELECTs the row and compares it with what the call saw, and then  *)
(* UPDATEs it and INSERTs the transition: SQLite opens its write           *)
(* transaction at the UPDATE, so another commit may fall between the two,  *)
(* and the unique constraints of the transition table decide.              *)
(*                                                                         *)
(* Each action below is one such session of a call c.                      *)
(***************************************************************************)
EXTENDS Integers, FiniteSets, WorkflowStates

CONSTANTS Callers,      \* the requests that may be in progress at once
          CommandKeys,  \* idempotency keys presented to transition
          BuildKeys,    \* idempotency keys presented to initiate
          NoKey,        \* no key, or a key made of a fresh uuid
          InitKey,      \* the key of the initial transition
          Targets,      \* the states that callers ask transition for
          MaxRevision   \* bound: calls begin only while revisions remain

ASSUME KeysAssumption ==
  /\ NoKey \notin CommandKeys \cup BuildKeys \cup {InitKey}
  /\ InitKey \notin CommandKeys \cup BuildKeys
ASSUME TargetsAssumption == Targets \subseteq States
ASSUME MaxRevisionAssumption == MaxRevision \in Nat

VARIABLES state,        \* project_workflows.state, NoState without a row
          revision,     \* project_workflows.revision
          transitions,  \* the rows of project_workflow_transitions
          builds,       \* the rows of project_builds
          call,         \* what each caller is doing and has read
          acked         \* history: the keyed answers that callers were given

vars == <<state, revision, transitions, builds, call, acked>>

Keys == CommandKeys \cup BuildKeys
AnyKey == Keys \cup {NoKey, InitKey}

Transition == [revision : Nat, from : States \cup {NoState}, to : States, key : AnyKey]
Build == [revision : Nat, key : Keys \cup {NoKey}]

\* A call that is not in progress.
Idle == [pc |-> "idle", op |-> "none", to |-> "gathering_context",
         key |-> NoKey, state |-> NoState, revision |-> 0]

Call == [pc : {"idle", "lookup", "read", "select", "write", "recover"},
         op : {"none", "initialize", "transition", "initiate"},
         to : States, key : Keys \cup {NoKey},
         state : States \cup {NoState}, revision : Nat]

\* An answer that promises the move of a key: revision 0 means that the
\* project already was in the requested state.
Ack == [key : Keys, to : States, revision : Nat]

TypeOK ==
  /\ state \in States \cup {NoState}
  /\ revision \in Nat
  /\ transitions \in SUBSET Transition
  /\ builds \in SUBSET Build
  /\ call \in [Callers -> Call]
  /\ acked \in SUBSET Ack

Init ==
  /\ state = NoState
  /\ revision = 0
  /\ transitions = {}
  /\ builds = {}
  /\ call = [c \in Callers |-> Idle]
  /\ acked = {}

-----------------------------------------------------------------------------
(* Helpers *)

\* get_project_workflow_transition_by_idempotency and
\* get_project_build_by_idempotency.
TransitionsOfKey(k) == {t \in transitions : t.key = k}
BuildsOfKey(k) == {b \in builds : b.key = k}

Tables == <<state, revision, transitions, builds>>

Goto(c, pc) == call' = [call EXCEPT ![c].pc = pc]

\* The call returns or raises; nobody waits for it any longer.
Return(c) == call' = [call EXCEPT ![c] = Idle]

\* The call goes on to commit, knowing the state and revision of this moment.
See(c) == call' = [call EXCEPT ![c] =
  [pc |-> "select", op |-> call[c].op, to |-> call[c].to, key |-> call[c].key,
   state |-> state, revision |-> revision]]

\* A keyed call is answered with the move made at revision r.
Acknowledge(c, r) ==
  acked' = acked \cup
    (IF call[c].key = NoKey THEN {} ELSE {[key |-> call[c].key, to |-> call[c].to, revision |-> r]})

\* Every call in progress may still append one revision.
InProgress == {c \in Callers : call[c].pc # "idle"}
Budget == revision + Cardinality(InProgress) < MaxRevision

\* Build needs a ready brief; Build Anyway cannot bypass a critical blocker
\* and otherwise needs the assumptions it relies on.
Admissible(mode, readiness, assumed) ==
  \/ mode = "build" /\ readiness = "ready"
  \/ mode = "build_anyway" /\ readiness # "blocked"
                           /\ (readiness = "not_ready" => assumed)

-----------------------------------------------------------------------------
(* Calls begin *)

BeginInitialize(c) ==
  /\ call[c].pc = "idle"
  /\ Budget
  /\ call' = [call EXCEPT ![c] = [Idle EXCEPT !.pc = "read", !.op = "initialize"]]
  /\ UNCHANGED <<Tables, acked>>

BeginTransition(c, t, k) ==
  /\ call[c].pc = "idle"
  /\ Budget
  /\ call' = [call EXCEPT ![c] =
       [Idle EXCEPT !.pc = IF k = NoKey THEN "read" ELSE "lookup",
                    !.op = "transition", !.to = t, !.key = k]]
  /\ UNCHANGED <<Tables, acked>>

BeginInitiate(c, k) ==
  /\ call[c].pc = "idle"
  /\ Budget
  /\ call' = [call EXCEPT ![c] =
       [Idle EXCEPT !.pc = IF k = NoKey THEN "read" ELSE "lookup",
                    !.op = "initiate", !.to = "building", !.key = k]]
  /\ UNCHANGED <<Tables, acked>>

-----------------------------------------------------------------------------
(* initialize *)

\* An existing row is the answer.
InitializeRead(c) ==
  /\ call[c].pc = "read" /\ call[c].op = "initialize"
  /\ IF state # NoState THEN Return(c) ELSE Goto(c, "select")
  /\ UNCHANGED <<Tables, acked>>

\* The transaction's SELECT.
InitializeSelect(c) ==
  /\ call[c].pc = "select" /\ call[c].op = "initialize"
  /\ Goto(c, IF state # NoState THEN "recover" ELSE "write")
  /\ UNCHANGED <<Tables, acked>>

\* INSERT of both rows; the primary key of the workflow row, or a unique
\* constraint of the transition, turns the loser of a race away.
InitializeWrite(c) ==
  /\ call[c].pc = "write" /\ call[c].op = "initialize"
  /\ IF state = NoState /\ \A t \in transitions : t.revision # 1 /\ t.key # InitKey
     THEN /\ state' = "gathering_context"
          /\ revision' = 1
          /\ transitions' = transitions \cup
               {[revision |-> 1, from |-> NoState, to |-> "gathering_context", key |-> InitKey]}
          /\ Return(c)
          /\ UNCHANGED builds
     ELSE Goto(c, "recover") /\ UNCHANGED Tables
  /\ UNCHANGED acked

\* After a conflict the row of the winner is the answer.
InitializeRecover(c) ==
  /\ call[c].pc = "recover" /\ call[c].op = "initialize"
  /\ Return(c)
  /\ UNCHANGED <<Tables, acked>>

-----------------------------------------------------------------------------
(* transition *)

\* A key that has moved the project is answered with that transition.
TransitionLookup(c) ==
  /\ call[c].pc = "lookup" /\ call[c].op = "transition"
  /\ \/ \E t \in TransitionsOfKey(call[c].key) :
          Acknowledge(c, t.revision) /\ Return(c)
     \/ /\ TransitionsOfKey(call[c].key) = {}
        /\ Goto(c, "read")
        /\ UNCHANGED acked
  /\ UNCHANGED Tables

\* self.get: no row raises, the requested state is a no-op whose key is not
\* recorded, a move outside the table raises.
TransitionRead(c) ==
  /\ call[c].pc = "read" /\ call[c].op = "transition"
  /\ \/ /\ state = NoState
        /\ Return(c)
        /\ UNCHANGED acked
     \/ /\ state = call[c].to
        /\ Acknowledge(c, 0)
        /\ Return(c)
     \/ /\ state \notin {NoState, call[c].to}
        /\ IF call[c].to \in ALLOWED_WORKFLOW_TRANSITIONS[state]
           THEN See(c)
           ELSE Return(c)
        /\ UNCHANGED acked
  /\ UNCHANGED Tables

\* The transaction's SELECT and the comparison with what the call read.
Unchanged(c) == state = call[c].state /\ revision = call[c].revision

TransitionSelect(c) ==
  /\ call[c].pc = "select" /\ call[c].op = "transition"
  /\ Goto(c, IF Unchanged(c) THEN "write" ELSE "recover")
  /\ UNCHANGED <<Tables, acked>>

\* [Fault] no unique constraint on (project_id, revision).
UniqueKeyOnly(c) ==
  call[c].key # NoKey => \A t \in transitions : t.key # call[c].key

\* [Fault] no unique constraint on (project_id, idempotency_key).
UniqueRevisionOnly(c) ==
  \A t \in transitions : t.revision # call[c].revision + 1

\* The unique constraints (project_id, revision) and (project_id,
\* idempotency_key) of the transition table.
Unique(c) ==
  \A t \in transitions :
    /\ t.revision # call[c].revision + 1
    /\ call[c].key # NoKey => t.key # call[c].key

\* [Fault] the transition is stored without its idempotency key.
AppendUnkeyed(c) ==
  /\ state' = call[c].to
  /\ revision' = call[c].revision + 1
  /\ transitions' = transitions \cup
       {[revision |-> call[c].revision + 1, from |-> call[c].state,
         to |-> call[c].to, key |-> NoKey]}

\* UPDATE of the row and INSERT of the transition: both or none.
AppendTransition(c) ==
  /\ state' = call[c].to
  /\ revision' = call[c].revision + 1
  /\ transitions' = transitions \cup
       {[revision |-> call[c].revision + 1, from |-> call[c].state,
         to |-> call[c].to, key |-> call[c].key]}

TransitionWrite(c) ==
  /\ call[c].pc = "write" /\ call[c].op = "transition"
  /\ IF Unique(c)
     THEN /\ AppendTransition(c)
          /\ Acknowledge(c, call[c].revision + 1)
          /\ Return(c)
          /\ UNCHANGED builds
     ELSE Goto(c, "recover") /\ UNCHANGED <<Tables, acked>>

\* The commit was refused: a transition of the same key sends the call back
\* to the lookup, anything else is a conflict error.
TransitionRecover(c) ==
  /\ call[c].pc = "recover" /\ call[c].op = "transition"
  /\ IF call[c].key # NoKey /\ TransitionsOfKey(call[c].key) # {}
     THEN Goto(c, "lookup")
     ELSE Return(c)
  /\ UNCHANGED <<Tables, acked>>

-----------------------------------------------------------------------------
(* initiate *)

\* A replay needs both the build and the transition of the key.
InitiateLookup(c) ==
  /\ call[c].pc = "lookup" /\ call[c].op = "initiate"
  /\ IF BuildsOfKey(call[c].key) # {} /\ TransitionsOfKey(call[c].key) # {}
     THEN /\ \E b \in BuildsOfKey(call[c].key) : Acknowledge(c, b.revision)
          /\ Return(c)
     ELSE Goto(c, "read") /\ UNCHANGED acked
  /\ UNCHANGED Tables

\* The state, and then the readiness of the brief, are checked on one read.
InitiateRead(c) ==
  /\ call[c].pc = "read" /\ call[c].op = "initiate"
  /\ \/ /\ state \in Buildable
        /\ \E mode \in {"build", "build_anyway"},
              readiness \in {"ready", "not_ready", "blocked"},
              assumed \in BOOLEAN :
             IF Admissible(mode, readiness, assumed)
             THEN See(c)
             ELSE Return(c)
     \/ /\ state \notin Buildable
        /\ Return(c)
  /\ UNCHANGED <<Tables, acked>>

InitiateSelect(c) ==
  /\ call[c].pc = "select" /\ call[c].op = "initiate"
  /\ Goto(c, IF Unchanged(c) THEN "write" ELSE "recover")
  /\ UNCHANGED <<Tables, acked>>

\* [Fault] the build row is committed in a transaction of its own, before the
\* transition.
InitiateWriteApart(c) ==
  /\ call[c].pc = "write" /\ call[c].op = "initiate"
  /\ IF call[c].key # NoKey => BuildsOfKey(call[c].key) = {}
     THEN /\ builds' = builds \cup
               {[revision |-> call[c].revision + 1, key |-> call[c].key]}
          /\ IF Unique(c)
             THEN AppendTransition(c) /\ Acknowledge(c, call[c].revision + 1) /\ Return(c)
             ELSE Goto(c, "recover") /\ UNCHANGED <<state, revision, transitions, acked>>
     ELSE Goto(c, "recover") /\ UNCHANGED <<Tables, acked>>

\* The build row is inserted with the transition, under constraints of its own.
InitiateWrite(c) ==
  /\ call[c].pc = "write" /\ call[c].op = "initiate"
  /\ IF Unique(c) /\ (call[c].key # NoKey => BuildsOfKey(call[c].key) = {})
     THEN /\ AppendTransition(c)
          /\ builds' = builds \cup
               {[revision |-> call[c].revision + 1, key |-> call[c].key]}
          /\ Acknowledge(c, call[c].revision + 1)
          /\ Return(c)
     ELSE Goto(c, "recover") /\ UNCHANGED <<Tables, acked>>

\* [Fault] a conflict is retried on what the call read before it.
InitiateRecoverStale(c) ==
  /\ call[c].pc = "recover" /\ call[c].op = "initiate"
  /\ IF call[c].key # NoKey THEN Goto(c, "select") ELSE Return(c)
  /\ UNCHANGED <<Tables, acked>>

\* A keyed call starts over; without a key the conflict is the answer.
InitiateRecover(c) ==
  /\ call[c].pc = "recover" /\ call[c].op = "initiate"
  /\ IF call[c].key # NoKey THEN Goto(c, "lookup") ELSE Return(c)
  /\ UNCHANGED <<Tables, acked>>

-----------------------------------------------------------------------------
\* The process that runs the call dies between two of its sessions.
Crash(c) ==
  /\ call[c].pc # "idle"
  /\ Return(c)
  /\ UNCHANGED <<Tables, acked>>

Begin(c) ==
  \/ BeginInitialize(c)
  \/ \E t \in Targets, k \in CommandKeys \cup {NoKey} : BeginTransition(c, t, k)
  \/ \E k \in BuildKeys \cup {NoKey} : BeginInitiate(c, k)

Initialize(c) ==
  InitializeRead(c) \/ InitializeSelect(c) \/ InitializeWrite(c) \/ InitializeRecover(c)
Transit(c) ==
  \/ TransitionLookup(c) \/ TransitionRead(c) \/ TransitionSelect(c)
  \/ TransitionWrite(c) \/ TransitionRecover(c)
Initiate(c) ==
  \/ InitiateLookup(c) \/ InitiateRead(c) \/ InitiateSelect(c)
  \/ InitiateWrite(c) \/ InitiateRecover(c)

\* One session of a call in progress.
Proceed(c) == Initialize(c) \/ Transit(c) \/ Initiate(c)

Next == \E c \in Callers : Begin(c) \/ Proceed(c) \/ Crash(c)

Spec == Init /\ [][Next]_vars

\* A thread that is not killed is scheduled again: its next session happens.
FairSpec == Spec /\ \A c \in Callers : WF_vars(Proceed(c))

-----------------------------------------------------------------------------
(* Properties *)

\* The transitions are one unbroken chain of allowed moves, numbered from 1,
\* whose last link is the state and revision of the workflow row, whatever
\* calls raced for a revision.
HistoryIsChain ==
  /\ \A t \in transitions : t.revision \in 1..revision
  /\ \A r \in 1..revision : \E t \in transitions : t.revision = r
  /\ \A t, u \in transitions : t.revision = u.revision => t = u
  /\ \A t \in transitions : t.revision = revision => t.to = state
  /\ \A t, u \in transitions : u.revision = t.revision + 1 =>
       u.from = t.to /\ u.to \in ALLOWED_WORKFLOW_TRANSITIONS[t.to]
  /\ (state = NoState) <=> (revision = 0)

\* A key moves the project at most once, also when calls that carry it race,
\* are retried after a crash, or are presented with another target.
KeyAppliedOnce ==
  \A t, u \in transitions : t.key = u.key /\ t.key # NoKey => t = u

\* An answer that names a revision is durable: the transition of that key is
\* in the history at that revision, and every repeat of the key is told the
\* same one.
AnswersAreDurable ==
  \A a \in acked : a.revision # 0 =>
    \E t \in transitions : t.key = a.key /\ t.revision = a.revision

\* No build is stored without the transition that started it, also when the call
\* loses the race for its revision after it has passed the comparison, or when its
\* key was spent meanwhile: three rows are written or none.
BuildsAreTransitions ==
  \A b \in builds : \E t \in transitions :
    /\ t.revision = b.revision /\ t.key = b.key
    /\ t.to = "building" /\ t.from \in Buildable

\* What a call on its way to a commit knows of the project was true once, at
\* the revision it read, and the move it asks for is allowed from there.  This
\* is what makes the optimistic commit sound however late it comes.
Sighted(c) ==
  /\ call[c].pc \in {"select", "write"}
  /\ call[c].op \in {"transition", "initiate"}

Sight ==
  \A c \in Callers : Sighted(c) =>
    /\ call[c].revision \in 1..revision
    /\ call[c].state \in States
    /\ call[c].to \in ALLOWED_WORKFLOW_TRANSITIONS[call[c].state]
    /\ \A t \in transitions : t.revision = call[c].revision => t.to = call[c].state
    /\ call[c].op = "initiate" => call[c].to = "building" /\ call[c].state \in Buildable

\* Completed and cancelled projects never move again, whatever a call read
\* before the project got there.
FinalStatesAreFinal ==
  [][(state \in Final) => state' = state /\ transitions' = transitions]_vars

\* The workflow implements the atomic state machine of WorkflowMachine.
Spent == {t.key : t \in transitions} \ {NoKey, InitKey}
Abstract == INSTANCE WorkflowMachine WITH spent <- Spent
ImplementsMachine == Abstract!Spec

\* Every call returns: the retries of a conflict end.
EveryCallReturns == \A c \in Callers : call[c].pc # "idle" ~> call[c].pc = "idle"
=============================================================================
