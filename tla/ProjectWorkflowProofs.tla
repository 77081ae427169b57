----------------------- MODULE ProjectWorkflowProofs -----------------------
(***************************************************************************)
(* Theorems about ProjectWorkflow, for any set of callers and keys.        *)
(*                                                                         *)
(* The argument: a call on its way to a commit holds a revision that the   *)
(* project really had, and the state it had there (Sight).  If the unique  *)
(* constraints let its commit through, no later revision exists, so the    *)
(* project is still where the call saw it.                                 *)
(***************************************************************************)
EXTENDS ProjectWorkflow, TLAPS

\* Calls of initiate ask for nothing but building.
Purpose == \A c \in Callers : call[c].op = "initiate" => call[c].to = "building"

IInv == /\ TypeOK /\ HistoryIsChain /\ Purpose /\ Sight
        /\ KeyAppliedOnce /\ BuildsAreTransitions /\ AnswersAreDurable

-----------------------------------------------------------------------------
(* Type correctness. *)

USE DEF Transition, Build, Call, Ack, Idle, Keys, AnyKey

LEMMA TypeInit == Init => TypeOK
BY DEF Init, TypeOK, States, NoState

LEMMA TypeBegin ==
  ASSUME TypeOK, NEW c \in Callers, Begin(c) PROVE TypeOK'
<1>1. CASE BeginInitialize(c)
  BY <1>1 DEF TypeOK, BeginInitialize, Tables, States, NoState
<1>2. ASSUME NEW t \in Targets, NEW k \in CommandKeys \cup {NoKey}, BeginTransition(c, t, k)
      PROVE  TypeOK'
  BY <1>2, TargetsAssumption DEF TypeOK, BeginTransition, Tables, States, NoState
<1>3. ASSUME NEW k \in BuildKeys \cup {NoKey}, BeginInitiate(c, k)
      PROVE  TypeOK'
  BY <1>3 DEF TypeOK, BeginInitiate, Tables, States, NoState
<1>. QED BY <1>1, <1>2, <1>3 DEF Begin

LEMMA TypeInitialize ==
  ASSUME TypeOK, NEW c \in Callers, Initialize(c) PROVE TypeOK'
<1>1. CASE InitializeRead(c)
  BY <1>1 DEF TypeOK, InitializeRead, Return, Goto, Tables, States, NoState
<1>2. CASE InitializeSelect(c)
  BY <1>2 DEF TypeOK, InitializeSelect, Return, Goto, Tables, States, NoState
<1>3. CASE InitializeWrite(c)
  BY <1>3 DEF TypeOK, InitializeWrite, Return, Goto, Tables, States, NoState
<1>4. CASE InitializeRecover(c)
  BY <1>4 DEF TypeOK, InitializeRecover, Return, Goto, Tables, States, NoState
<1>. QED BY <1>1, <1>2, <1>3, <1>4 DEF Initialize

\* The bookkeeping every commit shares.
LEMMA TypeAppend ==
  ASSUME TypeOK, NEW c \in Callers, AppendTransition(c),
         call[c].key \in Keys \cup {NoKey}, call[c].state \in States \cup {NoState}
  PROVE  state' \in States /\ revision' \in Nat /\ transitions' \in SUBSET Transition
BY DEF TypeOK, AppendTransition

LEMMA TypeAcknowledge ==
  ASSUME TypeOK, NEW c \in Callers, NEW r \in Nat, Acknowledge(c, r)
  PROVE  acked' \in SUBSET Ack
<1>1. call[c].key = NoKey \/ call[c].key \in Keys
  BY DEF TypeOK
<1>. QED BY <1>1 DEF TypeOK, Acknowledge

LEMMA TypeReturn ==
  ASSUME TypeOK, NEW c \in Callers, Return(c) PROVE call' \in [Callers -> Call]
BY DEF TypeOK, Return, States, NoState

LEMMA TypeTransit ==
  ASSUME TypeOK, NEW c \in Callers, Transit(c) PROVE TypeOK'
<1>1. CASE TransitionLookup(c)
  <2>1. CASE TransitionsOfKey(call[c].key) = {} /\ Goto(c, "read") /\ UNCHANGED acked
    BY <1>1, <2>1 DEF TypeOK, TransitionLookup, Goto, Tables
  <2>2. ASSUME NEW t \in TransitionsOfKey(call[c].key), Acknowledge(c, t.revision), Return(c)
        PROVE  TypeOK'
    <3>1. t.revision \in Nat
      BY DEF TypeOK, TransitionsOfKey
    <3>. QED BY <1>1, <2>2, <3>1, TypeAcknowledge, TypeReturn DEF TypeOK, TransitionLookup, Tables
  <2>. QED BY <1>1, <2>1, <2>2 DEF TransitionLookup
<1>2. CASE TransitionRead(c)
  <2>1. CASE Return(c) /\ UNCHANGED acked
    BY <1>2, <2>1, TypeReturn DEF TypeOK, TransitionRead, Tables
  <2>2. CASE Acknowledge(c, 0) /\ Return(c)
    BY <1>2, <2>2, TypeReturn, TypeAcknowledge DEF TypeOK, TransitionRead, Tables
  <2>3. CASE See(c) /\ UNCHANGED acked
    BY <1>2, <2>3 DEF TypeOK, TransitionRead, See, Tables
  <2>. QED BY <1>2, <2>1, <2>2, <2>3 DEF TransitionRead
<1>3. CASE TransitionSelect(c)
  BY <1>3 DEF TypeOK, TransitionSelect, Goto, Tables
<1>4. CASE TransitionWrite(c)
  <2>1. CASE Unique(c)
    <3>1. call[c].revision + 1 \in Nat
      BY DEF TypeOK
    <3>2. call[c].key \in Keys \cup {NoKey} /\ call[c].state \in States \cup {NoState}
      BY DEF TypeOK
    <3>3. AppendTransition(c) /\ Acknowledge(c, call[c].revision + 1) /\ Return(c) /\ UNCHANGED builds
      BY <1>4, <2>1 DEF TransitionWrite
    <3>4. state' \in States /\ revision' \in Nat /\ transitions' \in SUBSET Transition
      BY <3>2, <3>3, TypeAppend
    <3>5. acked' \in SUBSET Ack
      BY <3>1, <3>3, TypeAcknowledge
    <3>6. call' \in [Callers -> Call]
      BY <3>3, TypeReturn
    <3>7. builds' \in SUBSET Build
      BY <3>1, <3>2, <3>3 DEF TypeOK
    <3>. QED BY <3>4, <3>5, <3>6, <3>7 DEF TypeOK
  <2>2. CASE ~Unique(c)
    <3>1. Goto(c, "recover") /\ UNCHANGED <<Tables, acked>>
      BY <1>4, <2>2 DEF TransitionWrite
    <3>. QED BY <3>1 DEF TypeOK, Goto, Tables
  <2>. QED BY <2>1, <2>2
<1>5. CASE TransitionRecover(c)
  BY <1>5, TypeReturn DEF TypeOK, TransitionRecover, Goto, Tables
<1>. QED BY <1>1, <1>2, <1>3, <1>4, <1>5 DEF Transit

LEMMA TypeInitiate ==
  ASSUME TypeOK, NEW c \in Callers, Initiate(c) PROVE TypeOK'
<1>1. CASE InitiateLookup(c)
  <2>1. CASE Goto(c, "read") /\ UNCHANGED acked
    BY <1>1, <2>1 DEF TypeOK, InitiateLookup, Goto, Tables
  <2>2. ASSUME NEW b \in BuildsOfKey(call[c].key), Acknowledge(c, b.revision), Return(c)
        PROVE  TypeOK'
    <3>1. b.revision \in Nat
      BY DEF TypeOK, BuildsOfKey
    <3>. QED BY <1>1, <2>2, <3>1, TypeAcknowledge, TypeReturn DEF TypeOK, InitiateLookup, Tables
  <2>. QED BY <1>1, <2>1, <2>2 DEF InitiateLookup
<1>2. CASE InitiateRead(c)
  <2>1. CASE Return(c)
    BY <1>2, <2>1, TypeReturn DEF TypeOK, InitiateRead, Tables
  <2>2. CASE See(c)
    BY <1>2, <2>2 DEF TypeOK, InitiateRead, See, Tables
  <2>. QED BY <1>2, <2>1, <2>2 DEF InitiateRead
<1>3. CASE InitiateSelect(c)
  BY <1>3 DEF TypeOK, InitiateSelect, Goto, Tables
<1>4. CASE InitiateWrite(c)
  <2>1. CASE Unique(c) /\ (call[c].key # NoKey => BuildsOfKey(call[c].key) = {})
    <3>1. call[c].revision + 1 \in Nat
      BY DEF TypeOK
    <3>2. call[c].key \in Keys \cup {NoKey} /\ call[c].state \in States \cup {NoState}
      BY DEF TypeOK
    <3>3. /\ AppendTransition(c) /\ Acknowledge(c, call[c].revision + 1) /\ Return(c)
          /\ builds' = builds \cup {[revision |-> call[c].revision + 1, key |-> call[c].key]}
      BY <1>4, <2>1 DEF InitiateWrite
    <3>4. state' \in States /\ revision' \in Nat /\ transitions' \in SUBSET Transition
      BY <3>2, <3>3, TypeAppend
    <3>5. acked' \in SUBSET Ack
      BY <3>1, <3>3, TypeAcknowledge
    <3>6. call' \in [Callers -> Call]
      BY <3>3, TypeReturn
    <3>7. builds' \in SUBSET Build
      BY <3>1, <3>2, <3>3 DEF TypeOK
    <3>. QED BY <3>4, <3>5, <3>6, <3>7 DEF TypeOK
  <2>2. CASE ~(Unique(c) /\ (call[c].key # NoKey => BuildsOfKey(call[c].key) = {}))
    <3>1. Goto(c, "recover") /\ UNCHANGED <<Tables, acked>>
      BY <1>4, <2>2 DEF InitiateWrite
    <3>. QED BY <3>1 DEF TypeOK, Goto, Tables
  <2>. QED BY <2>1, <2>2
<1>5. CASE InitiateRecover(c)
  BY <1>5 DEF TypeOK, InitiateRecover, Return, Goto, Tables, States, NoState
<1>. QED BY <1>1, <1>2, <1>3, <1>4, <1>5 DEF Initiate

LEMMA TypeNext == TypeOK /\ [Next]_vars => TypeOK'
<1>. SUFFICES ASSUME TypeOK, [Next]_vars PROVE TypeOK'
  OBVIOUS
<1>1. ASSUME NEW c \in Callers, Crash(c) PROVE TypeOK'
  BY <1>1, TypeReturn DEF TypeOK, Crash, Tables
<1>2. CASE UNCHANGED vars
  BY <1>2 DEF TypeOK, vars
<1>. QED
  BY <1>1, <1>2, TypeBegin, TypeInitialize, TypeTransit, TypeInitiate DEF Next, Proceed

\* Every variable keeps its type, for any callers and keys.
THEOREM TypeCorrect == Spec => []TypeOK
BY TypeInit, TypeNext, PTL DEF Spec

-----------------------------------------------------------------------------
(* The chain of transitions and what it carries. *)

USE DEF IInv

\* The only state a commit that passes the unique constraints can find is the
\* one its call saw.
LEMMA CommitIsCurrent ==
  ASSUME IInv, NEW c \in Callers, Sighted(c), Unique(c)
  PROVE  /\ call[c].revision = revision /\ call[c].state = state
         /\ state \in States /\ revision \in Nat \ {0}
         /\ call[c].to \in ALLOWED_WORKFLOW_TRANSITIONS[state]
<1>1. /\ call[c].revision \in 1..revision /\ call[c].state \in States
      /\ call[c].to \in ALLOWED_WORKFLOW_TRANSITIONS[call[c].state]
      /\ \A t \in transitions : t.revision = call[c].revision => t.to = call[c].state
  BY DEF Sight
<1>2. revision \in Nat
  BY DEF TypeOK
<1>3. ASSUME call[c].revision < revision PROVE FALSE
  <2>1. call[c].revision + 1 \in 1..revision
    BY <1>1, <1>2, <1>3
  <2>2. PICK t \in transitions : t.revision = call[c].revision + 1
    BY <2>1 DEF HistoryIsChain
  <2>. QED BY <2>2 DEF Unique
<1>4. call[c].revision = revision
  BY <1>1, <1>2, <1>3
<1>5. PICK t \in transitions : t.revision = revision
  BY <1>1, <1>4 DEF HistoryIsChain
<1>6. t.to = state /\ t.to = call[c].state
  BY <1>1, <1>4, <1>5 DEF HistoryIsChain
<1>. QED BY <1>1, <1>2, <1>4, <1>6

\* A commit extends the chain by one link, under a key of its own.
LEMMA AppendKeeps ==
  ASSUME IInv, NEW c \in Callers, Sighted(c), Unique(c), AppendTransition(c)
  PROVE  /\ HistoryIsChain' /\ KeyAppliedOnce'
         /\ revision' = revision + 1 /\ transitions \subseteq transitions'
         /\ \A t \in transitions' \ transitions : t.revision = revision + 1
<1>. DEFINE new == [revision |-> revision + 1, from |-> state,
                    to |-> call[c].to, key |-> call[c].key]
<1>1. /\ call[c].revision = revision /\ call[c].state = state
      /\ state \in States /\ revision \in Nat \ {0}
      /\ call[c].to \in ALLOWED_WORKFLOW_TRANSITIONS[state]
  BY CommitIsCurrent
<1>2. /\ state' = call[c].to /\ revision' = revision + 1
      /\ transitions' = transitions \cup {new}
  BY <1>1 DEF AppendTransition
<1>3. \A t \in transitions : t.revision \in 1..revision
  BY DEF HistoryIsChain
<1>4. new.revision = revision + 1 /\ new.from = state /\ new.to = call[c].to /\ new.key = call[c].key
  OBVIOUS
<1>. HIDE DEF new
<1>5. HistoryIsChain'
  <2>1. \A t \in transitions' : t.revision \in 1..revision'
    BY <1>1, <1>2, <1>3, <1>4
  <2>2. \A r \in 1..revision' : \E t \in transitions' : t.revision = r
    <3>. SUFFICES ASSUME NEW r \in 1..revision' PROVE \E t \in transitions' : t.revision = r
      OBVIOUS
    <3>1. CASE r = revision + 1
      BY <1>2, <1>4, <3>1
    <3>2. CASE r # revision + 1
      <4>1. r \in 1..revision
        BY <1>1, <1>2, <3>2
      <4>. QED BY <1>2, <4>1 DEF HistoryIsChain
    <3>. QED BY <3>1, <3>2
  <2>3. \A t, u \in transitions' : t.revision = u.revision => t = u
    <3>1. \A t \in transitions : t.revision # new.revision
      BY <1>1, <1>3, <1>4
    <3>. QED BY <1>2, <3>1 DEF HistoryIsChain
  <2>4. \A t \in transitions' : t.revision = revision' => t.to = state'
    BY <1>1, <1>2, <1>3, <1>4
  <2>5. \A t, u \in transitions' : u.revision = t.revision + 1 =>
          u.from = t.to /\ u.to \in ALLOWED_WORKFLOW_TRANSITIONS[t.to]
    <3>. SUFFICES ASSUME NEW t \in transitions', NEW u \in transitions',
                         u.revision = t.revision + 1
                  PROVE  u.from = t.to /\ u.to \in ALLOWED_WORKFLOW_TRANSITIONS[t.to]
      OBVIOUS
    <3>1. CASE u = new
      <4>1. t # new
        BY <1>1, <1>4, <3>1
      <4>2. t \in transitions /\ t.revision = revision
        BY <1>1, <1>2, <1>3, <1>4, <3>1, <4>1
      <4>3. t.to = state
        BY <4>2 DEF HistoryIsChain
      <4>. QED BY <1>1, <1>4, <3>1, <4>3
    <3>2. CASE u # new
      <4>1. u \in transitions
        BY <1>2, <3>2
      <4>2. t \in transitions
        BY <1>1, <1>2, <1>3, <1>4, <4>1
      <4>. QED BY <4>1, <4>2 DEF HistoryIsChain
    <3>. QED BY <3>1, <3>2
  <2>6. ((state = NoState) <=> (revision = 0))'
    <3>1. call[c].to \in States
      BY DEF TypeOK
    <3>. QED BY <1>1, <1>2, <3>1 DEF States, NoState
  <2>. QED BY <2>1, <2>2, <2>3, <2>4, <2>5, <2>6 DEF HistoryIsChain
<1>6. KeyAppliedOnce'
  BY <1>2, <1>4 DEF KeyAppliedOnce, Unique
<1>7. \A t \in transitions' \ transitions : t.revision = revision + 1
  BY <1>2, <1>4
<1>. QED BY <1>2, <1>5, <1>6, <1>7

\* What other calls saw stays true when the project moves past it.
LEMMA SightKept ==
  ASSUME IInv, NEW c \in Callers, revision' \in Nat, revision' >= revision,
         \A t \in transitions' \ transitions : t.revision > revision,
         Return(c)
  PROVE  Sight' /\ Purpose'
<1>1. \A d \in Callers : call'[d] = IF d = c THEN Idle ELSE call[d]
  BY DEF Return, TypeOK
<1>2. Purpose'
  BY <1>1 DEF Purpose
<1>. SUFFICES ASSUME NEW d \in Callers, Sighted(d)'
              PROVE  /\ call'[d].revision \in 1..revision'
                     /\ call'[d].state \in States
                     /\ call'[d].to \in ALLOWED_WORKFLOW_TRANSITIONS[call'[d].state]
                     /\ \A t \in transitions' : t.revision = call'[d].revision => t.to = call'[d].state
                     /\ call'[d].op = "initiate" =>
                          call'[d].to = "building" /\ call'[d].state \in Buildable
  BY <1>2 DEF Sight
<1>3. d # c
  BY <1>1 DEF Sighted
<1>4. call'[d] = call[d] /\ Sighted(d)
  BY <1>1, <1>3 DEF Sighted
<1>5. /\ call[d].revision \in 1..revision
      /\ call[d].state \in States
      /\ call[d].to \in ALLOWED_WORKFLOW_TRANSITIONS[call[d].state]
      /\ \A t \in transitions : t.revision = call[d].revision => t.to = call[d].state
      /\ call[d].op = "initiate" => call[d].to = "building" /\ call[d].state \in Buildable
  BY <1>4 DEF Sight
<1>6. revision \in Nat
  BY DEF TypeOK
<1>7. call[d].revision \in 1..revision'
  BY <1>5, <1>6
<1>8. ASSUME NEW t \in transitions', t.revision = call[d].revision PROVE t.to = call[d].state
  BY <1>5, <1>6, <1>8
<1>. QED BY <1>4, <1>5, <1>7, <1>8

\* A step that leaves the tables alone keeps every call's sight, if the call
\* it moves either stays out of the commit, was in it already, or has just
\* read the project.
LEMMA QuietSight ==
  ASSUME IInv, UNCHANGED Tables, NEW c \in Callers,
         \/ Return(c)
         \/ \E pc \in {"lookup", "read", "recover"} : Goto(c, pc)
         \/ \E pc \in {"select", "write"} : Goto(c, pc) /\ (Sighted(c) \/ call[c].op = "initialize")
         \/ /\ See(c)
            /\ state \in States
            /\ call[c].to \in ALLOWED_WORKFLOW_TRANSITIONS[state]
            /\ call[c].op = "initiate" => state \in Buildable
  PROVE  Sight' /\ Purpose'
<1>. state' = state /\ revision' = revision /\ transitions' = transitions
  BY DEF Tables
<1>1. CASE Return(c)
  <2>1. revision' \in Nat /\ revision' >= revision
    BY DEF TypeOK
  <2>. QED BY <1>1, <2>1, SightKept
<1>2. ASSUME NEW pc \in {"lookup", "read", "recover"}, Goto(c, pc) PROVE Sight' /\ Purpose'
  <2>1. \A d \in Callers : call'[d] = IF d = c THEN [call[c] EXCEPT !.pc = pc] ELSE call[d]
    BY <1>2 DEF Goto, TypeOK
  <2>2. /\ \A d \in Callers : call'[d].op = call[d].op /\ call'[d].to = call[d].to
        /\ \A d \in Callers : d # c => call'[d] = call[d]
        /\ call'[c].pc = pc
    BY <2>1 DEF TypeOK
  <2>. QED BY <2>2 DEF Sight, Purpose, Sighted
<1>3. ASSUME NEW pc \in {"select", "write"}, Goto(c, pc), Sighted(c) \/ call[c].op = "initialize"
      PROVE  Sight' /\ Purpose'
  <2>1. \A d \in Callers : call'[d] = IF d = c THEN [call[c] EXCEPT !.pc = pc] ELSE call[d]
    BY <1>3 DEF Goto, TypeOK
  <2>2. \A d \in Callers : /\ call'[d].op = call[d].op /\ call'[d].to = call[d].to
                           /\ call'[d].state = call[d].state /\ call'[d].revision = call[d].revision
                           /\ d # c => call'[d] = call[d]
    BY <2>1 DEF TypeOK
  <2>3. \A d \in Callers : Sighted(d)' => Sighted(d)
    <3>. SUFFICES ASSUME NEW d \in Callers, Sighted(d)' PROVE Sighted(d)
      OBVIOUS
    <3>1. CASE d = c
      BY <1>3, <2>2, <3>1 DEF Sighted
    <3>2. CASE d # c
      BY <2>2, <3>2 DEF Sighted
    <3>. QED BY <3>1, <3>2
  <2>4. Purpose'
    BY <2>2 DEF Purpose
  <2>5. ASSUME NEW d \in Callers, Sighted(d)'
        PROVE  /\ call'[d].revision \in 1..revision
               /\ call'[d].state \in States
               /\ call'[d].to \in ALLOWED_WORKFLOW_TRANSITIONS[call'[d].state]
               /\ \A t \in transitions : t.revision = call'[d].revision => t.to = call'[d].state
               /\ call'[d].op = "initiate" => call'[d].to = "building" /\ call'[d].state \in Buildable
    <3>1. Sighted(d)
      BY <2>3, <2>5
    <3>2. /\ call[d].revision \in 1..revision
          /\ call[d].state \in States
          /\ call[d].to \in ALLOWED_WORKFLOW_TRANSITIONS[call[d].state]
          /\ \A t \in transitions : t.revision = call[d].revision => t.to = call[d].state
          /\ call[d].op = "initiate" => call[d].to = "building" /\ call[d].state \in Buildable
      BY <3>1 DEF Sight
    <3>. QED BY <2>2, <3>2
  <2>. QED BY <2>4, <2>5 DEF Sight
<1>4. CASE /\ See(c) /\ state \in States
           /\ call[c].to \in ALLOWED_WORKFLOW_TRANSITIONS[state]
           /\ call[c].op = "initiate" => state \in Buildable
  <2>1. \A d \in Callers : d # c => call'[d] = call[d]
    BY <1>4 DEF See, TypeOK
  <2>2. /\ call'[c].op = call[c].op /\ call'[c].to = call[c].to
        /\ call'[c].state = state /\ call'[c].revision = revision
    BY <1>4 DEF See, TypeOK
  <2>3. revision \in 1..revision
    BY <1>4 DEF TypeOK, HistoryIsChain, States, NoState
  <2>4. \A t \in transitions : t.revision = revision => t.to = state
    BY DEF HistoryIsChain
  <2>5. call[c].op = "initiate" => call[c].to = "building"
    BY DEF Purpose
  <2>6. Purpose'
    BY <2>1, <2>2 DEF Purpose
  <2>7. Sight'
    BY <1>4, <2>1, <2>2, <2>3, <2>4, <2>5 DEF Sight, Sighted
  <2>. QED BY <2>6, <2>7
<1>. QED BY <1>1, <1>2, <1>3, <1>4

\* The tables' own invariants survive a step that does not touch them.
LEMMA QuietTables ==
  ASSUME IInv, UNCHANGED Tables
  PROVE  HistoryIsChain' /\ KeyAppliedOnce' /\ BuildsAreTransitions'
BY DEF Tables, HistoryIsChain, KeyAppliedOnce, BuildsAreTransitions

\* Answers given stay durable while the history only grows; a new answer is
\* durable if it names no revision or a transition of its key.
LEMMA DurableKept ==
  ASSUME IInv, transitions \subseteq transitions',
         \/ acked' = acked
         \/ \E c \in Callers, r \in Nat :
              /\ Acknowledge(c, r)
              /\ call[c].key # NoKey /\ r # 0 =>
                   \E t \in transitions' : t.key = call[c].key /\ t.revision = r
  PROVE  AnswersAreDurable'
<1>1. CASE acked' = acked
  BY <1>1 DEF AnswersAreDurable
<1>2. ASSUME NEW c \in Callers, NEW r \in Nat, Acknowledge(c, r),
             call[c].key # NoKey /\ r # 0 =>
               \E t \in transitions' : t.key = call[c].key /\ t.revision = r
      PROVE  AnswersAreDurable'
  <2>. SUFFICES ASSUME NEW a \in acked', a.revision # 0
                PROVE  \E t \in transitions' : t.key = a.key /\ t.revision = a.revision
    BY DEF AnswersAreDurable
  <2>1. CASE a \in acked
    BY <2>1 DEF AnswersAreDurable
  <2>2. CASE a \notin acked
    <3>1. call[c].key # NoKey /\ a = [key |-> call[c].key, to |-> call[c].to, revision |-> r]
      BY <1>2, <2>2 DEF Acknowledge
    <3>. QED BY <1>2, <3>1
  <2>. QED BY <2>1, <2>2
<1>. QED BY <1>1, <1>2

LEMMA InitInv == Init => IInv
<1>1. Init => HistoryIsChain
  BY DEF Init, HistoryIsChain
<1>2. Init => Purpose /\ Sight
  BY DEF Init, Purpose, Sight, Sighted
<1>3. Init => KeyAppliedOnce /\ BuildsAreTransitions /\ AnswersAreDurable
  BY DEF Init, KeyAppliedOnce, BuildsAreTransitions, AnswersAreDurable
<1>. QED BY <1>1, <1>2, <1>3, TypeInit

\* A step that only moves a call.
LEMMA QuietInv ==
  ASSUME IInv, TypeOK', UNCHANGED <<Tables, acked>>, NEW c \in Callers,
         \/ Return(c)
         \/ \E pc \in {"lookup", "read", "recover"} : Goto(c, pc)
         \/ \E pc \in {"select", "write"} : Goto(c, pc) /\ (Sighted(c) \/ call[c].op = "initialize")
         \/ /\ See(c)
            /\ state \in States
            /\ call[c].to \in ALLOWED_WORKFLOW_TRANSITIONS[state]
            /\ call[c].op = "initiate" => state \in Buildable
  PROVE  IInv'
<1>1. Sight' /\ Purpose'
  BY QuietSight
<1>2. HistoryIsChain' /\ KeyAppliedOnce' /\ BuildsAreTransitions'
  BY QuietTables
<1>3. AnswersAreDurable'
  BY DEF Tables, AnswersAreDurable
<1>. QED BY <1>1, <1>2, <1>3

LEMMA BeginInv == ASSUME IInv, TypeOK', NEW c \in Callers, Begin(c) PROVE IInv'
<1>1. UNCHANGED <<Tables, acked>> /\ \A d \in Callers : d # c => call'[d] = call[d]
  BY DEF Begin, BeginInitialize, BeginTransition, BeginInitiate, TypeOK
<1>2. call'[c].pc \in {"read", "lookup"} /\ (call'[c].op = "initiate" => call'[c].to = "building")
  <2>1. CASE BeginInitialize(c)
    BY <2>1 DEF BeginInitialize, TypeOK
  <2>2. ASSUME NEW t \in Targets, NEW k \in CommandKeys \cup {NoKey}, BeginTransition(c, t, k)
        PROVE  call'[c].pc \in {"read", "lookup"} /\ call'[c].op # "initiate"
    BY <2>2 DEF BeginTransition, TypeOK
  <2>3. ASSUME NEW k \in BuildKeys \cup {NoKey}, BeginInitiate(c, k)
        PROVE  call'[c].pc \in {"read", "lookup"} /\ call'[c].to = "building"
    BY <2>3 DEF BeginInitiate, TypeOK
  <2>. QED BY <2>1, <2>2, <2>3 DEF Begin
<1>3. Purpose'
  BY <1>1, <1>2 DEF Purpose
<1>4. Sight'
  BY <1>1, <1>2 DEF Sight, Sighted, Tables
<1>5. HistoryIsChain' /\ KeyAppliedOnce' /\ BuildsAreTransitions'
  BY <1>1, QuietTables
<1>6. AnswersAreDurable'
  BY <1>1 DEF Tables, AnswersAreDurable
<1>. QED BY <1>3, <1>4, <1>5, <1>6

LEMMA InitializeInv == ASSUME IInv, TypeOK', NEW c \in Callers, Initialize(c) PROVE IInv'
<1>1. CASE InitializeRead(c)
  BY <1>1, QuietInv DEF InitializeRead
<1>2. CASE InitializeSelect(c)
  BY <1>2, QuietInv DEF InitializeSelect
<1>3. CASE InitializeWrite(c)
  <2>1. CASE Goto(c, "recover") /\ UNCHANGED <<Tables, acked>>
    BY <2>1, QuietInv
  <2>2. CASE ~(Goto(c, "recover") /\ UNCHANGED <<Tables, acked>>)
    <3>. DEFINE first == [revision |-> 1, from |-> NoState, to |-> "gathering_context", key |-> InitKey]
    <3>1. /\ state = NoState /\ \A t \in transitions : t.revision # 1 /\ t.key # InitKey
          /\ state' = "gathering_context" /\ revision' = 1
          /\ transitions' = transitions \cup {first}
          /\ Return(c) /\ builds' = builds /\ acked' = acked
      BY <1>3, <2>2 DEF InitializeWrite
    <3>2. revision = 0 /\ transitions = {}
      BY <3>1 DEF HistoryIsChain, TypeOK
    <3>3. transitions' = {first} /\ first.revision = 1 /\ first.to = "gathering_context"
      BY <3>1, <3>2
    <3>. HIDE DEF first
    <3>4. HistoryIsChain'
      BY <3>1, <3>3 DEF HistoryIsChain, NoState
    <3>5. KeyAppliedOnce'
      BY <3>3 DEF KeyAppliedOnce
    <3>6. BuildsAreTransitions'
      BY <3>1, <3>2 DEF BuildsAreTransitions
    <3>7. AnswersAreDurable'
      BY <3>1, <3>2 DEF AnswersAreDurable
    <3>8. Sight' /\ Purpose'
      BY <3>1, <3>2, <3>3, SightKept
    <3>. QED BY <3>4, <3>5, <3>6, <3>7, <3>8
  <2>. QED BY <2>1, <2>2
<1>4. CASE InitializeRecover(c)
  BY <1>4, QuietInv DEF InitializeRecover
<1>. QED BY <1>1, <1>2, <1>3, <1>4 DEF Initialize

\* What the commits of transition and initiate have in common.
LEMMA CommitInv ==
  ASSUME IInv, TypeOK', NEW c \in Callers, Sighted(c), Unique(c), AppendTransition(c),
         Acknowledge(c, call[c].revision + 1), Return(c)
  PROVE  /\ HistoryIsChain' /\ KeyAppliedOnce' /\ AnswersAreDurable' /\ Sight' /\ Purpose'
         /\ transitions \subseteq transitions'
<1>1. /\ HistoryIsChain' /\ KeyAppliedOnce'
      /\ revision' = revision + 1 /\ transitions \subseteq transitions'
      /\ \A t \in transitions' \ transitions : t.revision = revision + 1
  BY AppendKeeps
<1>2. revision \in Nat /\ call[c].revision + 1 \in Nat
  BY DEF TypeOK
<1>3. Sight' /\ Purpose'
  BY <1>1, <1>2, SightKept
<1>4. \E t \in transitions' : t.key = call[c].key /\ t.revision = call[c].revision + 1
  <2>. DEFINE new == [revision |-> call[c].revision + 1, from |-> call[c].state,
                      to |-> call[c].to, key |-> call[c].key]
  <2>1. new \in transitions' /\ new.key = call[c].key /\ new.revision = call[c].revision + 1
    BY DEF AppendTransition
  <2>. QED BY <2>1
<1>5. AnswersAreDurable'
  BY <1>1, <1>2, <1>4, DurableKept
<1>. QED BY <1>1, <1>3, <1>5

LEMMA TransitInv == ASSUME IInv, TypeOK', NEW c \in Callers, Transit(c) PROVE IInv'
<1>1. CASE TransitionLookup(c)
  <2>1. CASE Goto(c, "read") /\ UNCHANGED acked
    BY <1>1, <2>1, QuietInv DEF TransitionLookup
  <2>2. ASSUME NEW t \in TransitionsOfKey(call[c].key), Acknowledge(c, t.revision), Return(c)
        PROVE  IInv'
    <3>1. UNCHANGED Tables /\ t \in transitions /\ t.key = call[c].key /\ t.revision \in Nat
      BY <1>1 DEF TransitionLookup, TransitionsOfKey, TypeOK
    <3>2. AnswersAreDurable'
      <4>1. transitions' = transitions
        BY <3>1 DEF Tables
      <4>. QED BY <2>2, <3>1, <4>1, DurableKept
    <3>. QED BY <2>2, <3>1, <3>2, QuietSight, QuietTables
  <2>. QED BY <1>1, <2>1, <2>2 DEF TransitionLookup
<1>2. CASE TransitionRead(c)
  <2>1. CASE Return(c) /\ UNCHANGED acked
    BY <1>2, <2>1, QuietInv DEF TransitionRead
  <2>2. CASE Acknowledge(c, 0) /\ Return(c)
    <3>1. UNCHANGED Tables
      BY <1>2 DEF TransitionRead
    <3>2. AnswersAreDurable'
      BY <2>2, <3>1, DurableKept DEF Tables
    <3>. QED BY <2>2, <3>1, <3>2, QuietSight, QuietTables
  <2>3. CASE /\ See(c) /\ UNCHANGED acked /\ state \notin {NoState, call[c].to}
             /\ call[c].to \in ALLOWED_WORKFLOW_TRANSITIONS[state]
    <3>1. state \in States /\ call[c].op # "initiate"
      BY <1>2, <2>3 DEF TypeOK, TransitionRead
    <3>. QED BY <1>2, <2>3, <3>1, QuietInv DEF TransitionRead
  <2>. QED BY <1>2, <2>1, <2>2, <2>3 DEF TransitionRead
<1>3. CASE TransitionSelect(c)
  <2>1. Sighted(c)
    BY <1>3 DEF TransitionSelect, Sighted
  <2>. QED BY <1>3, <2>1, QuietInv DEF TransitionSelect
<1>4. CASE TransitionWrite(c)
  <2>1. CASE Unique(c)
    <3>1. Sighted(c)
      BY <1>4 DEF TransitionWrite, Sighted
    <3>2. /\ AppendTransition(c) /\ Acknowledge(c, call[c].revision + 1)
          /\ Return(c) /\ builds' = builds
      BY <1>4, <2>1 DEF TransitionWrite
    <3>3. /\ HistoryIsChain' /\ KeyAppliedOnce' /\ AnswersAreDurable' /\ Sight' /\ Purpose'
          /\ transitions \subseteq transitions'
      BY <2>1, <3>1, <3>2, CommitInv
    <3>4. BuildsAreTransitions'
      BY <3>2, <3>3 DEF BuildsAreTransitions
    <3>. QED BY <3>3, <3>4
  <2>2. CASE ~Unique(c)
    BY <1>4, <2>2, QuietInv DEF TransitionWrite
  <2>. QED BY <2>1, <2>2
<1>5. CASE TransitionRecover(c)
  BY <1>5, QuietInv DEF TransitionRecover
<1>. QED BY <1>1, <1>2, <1>3, <1>4, <1>5 DEF Transit

LEMMA InitiateInv == ASSUME IInv, TypeOK', NEW c \in Callers, Initiate(c) PROVE IInv'
<1>1. CASE InitiateLookup(c)
  <2>1. CASE Goto(c, "read") /\ UNCHANGED acked
    BY <1>1, <2>1, QuietInv DEF InitiateLookup
  <2>2. ASSUME NEW b \in BuildsOfKey(call[c].key), Acknowledge(c, b.revision), Return(c)
        PROVE  IInv'
    <3>1. UNCHANGED Tables /\ b \in builds /\ b.key = call[c].key /\ b.revision \in Nat
      BY <1>1 DEF InitiateLookup, BuildsOfKey, TypeOK
    <3>2. \E t \in transitions : t.key = call[c].key /\ t.revision = b.revision
      BY <3>1 DEF BuildsAreTransitions
    <3>3. AnswersAreDurable'
      <4>1. transitions' = transitions
        BY <3>1 DEF Tables
      <4>. QED BY <2>2, <3>1, <3>2, <4>1, DurableKept
    <3>. QED BY <2>2, <3>1, <3>3, QuietSight, QuietTables
  <2>. QED BY <1>1, <2>1, <2>2 DEF InitiateLookup
<1>2. CASE InitiateRead(c)
  <2>1. CASE Return(c)
    BY <1>2, <2>1, QuietInv DEF InitiateRead
  <2>2. CASE See(c) /\ state \in Buildable
    <3>1. state \in States /\ call[c].to \in ALLOWED_WORKFLOW_TRANSITIONS[state]
      BY <1>2, <2>2 DEF InitiateRead, Purpose, Buildable, States, ALLOWED_WORKFLOW_TRANSITIONS
    <3>. QED BY <1>2, <2>2, <3>1, QuietInv DEF InitiateRead
  <2>. QED BY <1>2, <2>1, <2>2 DEF InitiateRead
<1>3. CASE InitiateSelect(c)
  <2>1. Sighted(c)
    BY <1>3 DEF InitiateSelect, Sighted
  <2>. QED BY <1>3, <2>1, QuietInv DEF InitiateSelect
<1>4. CASE InitiateWrite(c)
  <2>1. CASE Unique(c) /\ (call[c].key # NoKey => BuildsOfKey(call[c].key) = {})
    <3>1. Sighted(c)
      BY <1>4 DEF InitiateWrite, Sighted
    <3>2. /\ AppendTransition(c) /\ Acknowledge(c, call[c].revision + 1) /\ Return(c)
          /\ builds' = builds \cup {[revision |-> call[c].revision + 1, key |-> call[c].key]}
      BY <1>4, <2>1 DEF InitiateWrite
    <3>3. /\ HistoryIsChain' /\ KeyAppliedOnce' /\ AnswersAreDurable' /\ Sight' /\ Purpose'
          /\ transitions \subseteq transitions'
      BY <2>1, <3>1, <3>2, CommitInv
    <3>4. call[c].to = "building" /\ call[c].state \in Buildable
      BY <1>4, <3>1 DEF InitiateWrite, Sight
    <3>5. BuildsAreTransitions'
      <4>. DEFINE new == [revision |-> call[c].revision + 1, from |-> call[c].state,
                          to |-> call[c].to, key |-> call[c].key]
      <4>1. /\ new \in transitions' /\ new.key = call[c].key
            /\ new.revision = call[c].revision + 1
            /\ new.from \in Buildable /\ new.to = "building"
        BY <3>2, <3>4 DEF AppendTransition
      <4>. HIDE DEF new
      <4>2. ASSUME NEW b \in builds', b \notin builds
            PROVE  b.revision = call[c].revision + 1 /\ b.key = call[c].key
        BY <3>2, <4>2
      <4>3. ASSUME NEW b \in builds
            PROVE  \E t \in transitions' : /\ t.revision = b.revision /\ t.key = b.key
                                           /\ t.to = "building" /\ t.from \in Buildable
        BY <3>3, <4>3 DEF BuildsAreTransitions
      <4>. QED BY <4>1, <4>2, <4>3 DEF BuildsAreTransitions
    <3>. QED BY <3>3, <3>5
  <2>2. CASE ~(Unique(c) /\ (call[c].key # NoKey => BuildsOfKey(call[c].key) = {}))
    BY <1>4, <2>2, QuietInv DEF InitiateWrite
  <2>. QED BY <2>1, <2>2
<1>5. CASE InitiateRecover(c)
  BY <1>5, QuietInv DEF InitiateRecover
<1>. QED BY <1>1, <1>2, <1>3, <1>4, <1>5 DEF Initiate

LEMMA NextInv == IInv /\ [Next]_vars => IInv'
<1>. SUFFICES ASSUME IInv, [Next]_vars PROVE IInv'
  OBVIOUS
<1>1. TypeOK'
  BY TypeNext
<1>2. ASSUME NEW c \in Callers, Crash(c) PROVE IInv'
  BY <1>1, <1>2, QuietInv DEF Crash
<1>3. CASE UNCHANGED vars
  BY <1>1, <1>3 DEF vars, HistoryIsChain, Purpose, Sight, Sighted, KeyAppliedOnce,
                    BuildsAreTransitions, AnswersAreDurable
<1>. QED BY <1>1, <1>2, <1>3, BeginInv, InitializeInv, TransitInv, InitiateInv DEF Next, Proceed

LEMMA Invariance == Spec => []IInv
BY InitInv, NextInv, PTL DEF Spec

-----------------------------------------------------------------------------
(* Theorems. *)

\* The history is one chain of allowed moves that ends where the project is.
THEOREM ChainCorrect == Spec => []HistoryIsChain
BY Invariance, PTL

\* What a call is about to commit on was true at the revision it read.
THEOREM SightCorrect == Spec => []Sight
BY Invariance, PTL

\* No idempotency key moves the project twice.
THEOREM KeyAppliedOnceCorrect == Spec => []KeyAppliedOnce
BY Invariance, PTL

\* A keyed answer names a transition that is in the history.
THEOREM AnswersCorrect == Spec => []AnswersAreDurable
BY Invariance, PTL

\* A completed or cancelled project never moves again.
THEOREM FinalCorrect == Spec => FinalStatesAreFinal
<1>1. ASSUME IInv, [Next]_vars, state \in Final
      PROVE  state' = state /\ transitions' = transitions
  <2>1. state \in States /\ ALLOWED_WORKFLOW_TRANSITIONS[state] = {}
    BY <1>1 DEF Final, States, ALLOWED_WORKFLOW_TRANSITIONS
  <2>2. ASSUME NEW c \in Callers, Sighted(c), Unique(c) PROVE FALSE
    BY <1>1, <2>1, <2>2, CommitIsCurrent
  <2>3. ASSUME NEW c \in Callers, TransitionWrite(c) PROVE UNCHANGED Tables
    BY <2>2, <2>3 DEF TransitionWrite, Sighted
  <2>4. ASSUME NEW c \in Callers, InitiateWrite(c) PROVE UNCHANGED Tables
    BY <2>2, <2>4 DEF InitiateWrite, Sighted
  <2>5. ASSUME NEW c \in Callers, InitializeWrite(c) PROVE UNCHANGED Tables
    BY <2>1, <2>5 DEF InitializeWrite, States, NoState
  <2>6. ASSUME NEW c \in Callers, Begin(c) PROVE UNCHANGED Tables
    BY <2>6 DEF Begin, BeginInitialize, BeginTransition, BeginInitiate
  <2>7. ASSUME NEW c \in Callers, Proceed(c) PROVE UNCHANGED Tables
    BY <2>3, <2>4, <2>5, <2>7
       DEF Proceed, Initialize, Transit, Initiate, InitializeRead, InitializeSelect, InitializeRecover,
           TransitionLookup, TransitionRead, TransitionSelect, TransitionRecover,
           InitiateLookup, InitiateRead, InitiateSelect, InitiateRecover
  <2>8. UNCHANGED Tables
    BY <1>1, <2>6, <2>7 DEF Next, Crash, vars, Tables
  <2>. QED BY <2>8 DEF Tables
<1>2. IInv /\ [Next]_vars => [(state \in Final) => state' = state /\ transitions' = transitions]_vars
  BY <1>1
<1>. QED BY <1>2, Invariance, PTL DEF Spec, FinalStatesAreFinal

\* The concurrent service implements the atomic machine of WorkflowMachine:
\* every commit is one of its moves and every other session is invisible.
THEOREM Refinement == Spec => ImplementsMachine
<1>1. Init => Abstract!Init
  BY DEF Init, Abstract!Init, Spent, Abstract!NoState, NoState
<1>2. ASSUME IInv, [Next]_vars PROVE [Abstract!Next]_(Abstract!vars)
  <2>1. CASE UNCHANGED Tables
    BY <2>1 DEF Tables, Abstract!vars, Spent
  <2>2. ASSUME NEW c \in Callers, Sighted(c), Unique(c), AppendTransition(c)
        PROVE  Abstract!Next
    <3>1. /\ call[c].revision = revision /\ call[c].state = state
          /\ state \in States /\ revision \in Nat \ {0}
          /\ call[c].to \in ALLOWED_WORKFLOW_TRANSITIONS[state]
      BY <1>2, <2>2, CommitIsCurrent
    <3>2. call[c].to \in States /\ call[c].key \in Keys \cup {NoKey}
      BY <1>2 DEF TypeOK
    <3>. DEFINE new == [revision |-> revision + 1, from |-> state,
                        to |-> call[c].to, key |-> call[c].key]
    <3>3. /\ state' = call[c].to /\ revision' = revision + 1
          /\ transitions' = transitions \cup {new} /\ new.key = call[c].key
      BY <2>2, <3>1 DEF AppendTransition
    <3>. HIDE DEF new
    <3>4. call[c].key \notin Spent
      BY <2>2 DEF Unique, Spent
    <3>5. Spent' = Spent \cup ({call[c].key} \ {NoKey})
      <4>1. call[c].key # InitKey
        BY <3>2, KeysAssumption
      <4>. QED BY <3>3, <4>1 DEF Spent
    <3>6. Abstract!Move(call[c].to, call[c].key)
      BY <3>1, <3>3, <3>4, <3>5 DEF Abstract!Move, States, NoState,
         Abstract!NoState, Abstract!States, ALLOWED_WORKFLOW_TRANSITIONS, Abstract!ALLOWED_WORKFLOW_TRANSITIONS
    <3>. QED BY <3>2, <3>6 DEF Abstract!Next, Abstract!States, States
  <2>3. ASSUME NEW c \in Callers, InitializeWrite(c), ~UNCHANGED Tables
        PROVE  Abstract!Next
    <3>. DEFINE first == [revision |-> 1, from |-> NoState, to |-> "gathering_context", key |-> InitKey]
    <3>1. /\ state = NoState /\ state' = "gathering_context" /\ revision' = 1
          /\ transitions' = transitions \cup {first} /\ first.key = InitKey
      BY <2>3 DEF InitializeWrite
    <3>. HIDE DEF first
    <3>2. Spent' = Spent
      BY <3>1 DEF Spent
    <3>. QED BY <3>1, <3>2 DEF Abstract!Next, Abstract!Open, NoState, Abstract!NoState
  <2>4. ASSUME NEW c \in Callers, Proceed(c), ~UNCHANGED Tables
        PROVE  Abstract!Next
    <3>1. CASE TransitionWrite(c)
      BY <2>2, <2>4, <3>1 DEF TransitionWrite, Sighted
    <3>2. CASE InitiateWrite(c)
      BY <2>2, <2>4, <3>2 DEF InitiateWrite, Sighted
    <3>3. CASE InitializeWrite(c)
      BY <2>3, <2>4, <3>3
    <3>. QED
      BY <2>4, <3>1, <3>2, <3>3
         DEF Proceed, Initialize, Transit, Initiate, InitializeRead, InitializeSelect, InitializeRecover,
             TransitionLookup, TransitionRead, TransitionSelect, TransitionRecover,
             InitiateLookup, InitiateRead, InitiateSelect, InitiateRecover
  <2>5. ASSUME NEW c \in Callers, Begin(c) PROVE UNCHANGED Tables
    BY <2>5 DEF Begin, BeginInitialize, BeginTransition, BeginInitiate
  <2>. QED BY <1>2, <2>1, <2>4, <2>5 DEF Next, Crash, vars, Tables
<1>. QED BY <1>1, <1>2, Invariance, PTL DEF Spec, ImplementsMachine, Abstract!Spec

\* No build exists without the transition that started it.
THEOREM BuildsCorrect == Spec => []BuildsAreTransitions
BY Invariance, PTL
=============================================================================
