---------------------- MODULE ConversationBuildsProofs ----------------------
(***************************************************************************)
(* Theorems about the turns of a conversation, for any number of requests, *)
(* turns, failures and moves of the owner.                                 *)
(*                                                                         *)
(* The inductive invariant follows the turns that have met no other (Calm):*)
(* what one of them has said is in every later brief (Kept), in the brief  *)
(* that a turn has read and will extend (ReadFits) or freeze (FreezeFits), *)
(* in the brief of the build (BuildFits) and in the chat that a turn will  *)
(* write back (ChatFits).                                                  *)
(***************************************************************************)
EXTENDS ConversationBuilds, TLAPS

Brief == [context : SUBSET Numbers, open : BOOLEAN]

Turn == [pc : Locations, n : Numbers, kind : {"tell", "build"}, says : BOOLEAN,
         chat : SUBSET Numbers, brief : Nat, seen : States \cup {NoState}, version : Nat,
         anyway : BOOLEAN, base : Nat, asked : Nat, raised : BOOLEAN]

MachineTypes == state \in States \cup {NoState} /\ revision \in Nat /\ spent \subseteq Keys

TurnTypes ==
  /\ turn \in [Requests -> Turn] /\ begun \in Numbers
  /\ chat \subseteq Numbers /\ told \subseteq Numbers /\ met \subseteq Numbers

BriefTypes ==
  /\ briefs \in Seq(Brief)
  /\ build \in {None} \cup [version : DOMAIN briefs, by : Numbers]
  /\ \A t \in Requests :
       /\ turn[t].brief \in 0..Len(briefs) /\ turn[t].version \in 0..Len(briefs)
       /\ turn[t].base \in 0..Len(briefs)
       /\ turn[t].pc \in {"readiness", "freeze"} => Len(briefs) > 0
       /\ turn[t].pc \in {"assume", "insert_assumed", "initiate"} => turn[t].version > 0

OtherTypes ==
  /\ plan \in {"none", "planned", "running", "over"} /\ threads \in Nat
  /\ events \in 0..MaxEvents

Types == MachineTypes /\ TurnTypes /\ BriefTypes /\ OtherTypes

LEMMA TypesAreTypeOK == Types => TypeOK
<1> SUFFICES ASSUME Types PROVE TypeOK OBVIOUS
<1> USE DEF Types, MachineTypes, TurnTypes, BriefTypes, OtherTypes, Brief
<1>1. \A t \in Requests : turn[t] \in Turn OBVIOUS
<1>2. \A t \in Requests :
       /\ turn[t].pc \in Locations /\ turn[t].kind \in {"tell", "build"}
       /\ turn[t].chat \subseteq Numbers /\ turn[t].seen \in States \cup {NoState}
       /\ turn[t].n \in Numbers /\ turn[t].says \in BOOLEAN
       /\ turn[t].anyway \in BOOLEAN /\ turn[t].raised \in BOOLEAN
       /\ turn[t].asked \in Nat
  BY <1>1 DEF Turn
<1> QED BY <1>2 DEF TypeOK

-----------------------------------------------------------------------------
(* The inductive invariant. *)

\* Two turns that are in progress have met.
Overlap == \A t, u \in Active : t # u => turn[t].n \in met

\* The key of the build is spent before there is a build.
Keyed == build # None => "conversation-build" \in spent

\* The turns that have met no other, in progress or over.
Calm == (told \cup {turn[t].n : t \in Active}) \ met

Said(m) == \E v \in DOMAIN briefs : m \in briefs[v].context

\* The number of the next turn is new.
Counted ==
  /\ \A m \in told : m <= begun
  /\ \A v \in DOMAIN briefs : \A m \in briefs[v].context : m <= begun
  /\ \A t \in Active : turn[t].n <= begun
  /\ build # None => build.by <= begun

Kept ==
  \A m \in Calm : \A v, u \in DOMAIN briefs :
    v < u /\ m \in briefs[v].context => m \in briefs[u].context

Reading == {"workflow", "initialize", "reopen", "append", "insert"}
Freezing == {"assume", "insert_assumed", "initiate"}

ReadFits ==
  \A t \in Requests : turn[t].pc \in Reading =>
    \A m \in Calm \ {turn[t].n} : Said(m) => m \in Context(turn[t].brief)

FreezeFits ==
  \A t \in Requests : turn[t].pc \in Freezing =>
    \A m \in Calm : Said(m) => m \in Context(turn[t].version)

\* A turn older than the build can add nothing that counts any more.
BuildFits ==
  build # None =>
    /\ \A m \in Calm : m < build.by /\ Said(m) => m \in briefs[build.version].context
    /\ \A t \in Active : turn[t].n < build.by => turn[t].n \in met

ChatFits ==
  /\ Alone \subseteq chat
  /\ \A t \in Requests : turn[t].pc \notin {"idle", "chat"} => Alone \subseteq turn[t].chat

\* A calm turn that is about to insert finds what it has read unchanged.
CauseFits ==
  \A t \in Requests : turn[t].n \notin met =>
    /\ At(t, "insert_assumed") => turn[t].base = Len(briefs)
    /\ At(t, "insert_plan") => plan = "none"

IInv ==
  /\ Types /\ Overlap /\ Keyed /\ Counted /\ Kept /\ ReadFits /\ FreezeFits
  /\ BuildFits /\ ChatFits /\ CauseFits /\ FailsForCause

-----------------------------------------------------------------------------
(* What a step does to the project's workflow. *)

LEMMA MoveTypes ==
  ASSUME MachineTypes, NEW to, NEW k \in Keys \cup {NoKey}, Workflow!Move(to, k)
  PROVE  MachineTypes' /\ spent \subseteq spent'
<1>1. state \in States /\ to \in Workflow!ALLOWED_WORKFLOW_TRANSITIONS[state]
  BY DEF MachineTypes, Workflow!Move, Workflow!NoState, NoState
<1>2. \A s \in States : Workflow!ALLOWED_WORKFLOW_TRANSITIONS[s] \subseteq States
  BY DEF Workflow!ALLOWED_WORKFLOW_TRANSITIONS, Workflow!States, States
<1>3. to \in States BY <1>1, <1>2
<1> QED BY <1>3 DEF MachineTypes, Workflow!Move

LEMMA TransitTypes ==
  ASSUME MachineTypes, NEW to, NEW k \in Keys \cup {NoKey}, Transit(to, k)
  PROVE  MachineTypes' /\ spent \subseteq spent'
BY MoveTypes DEF Transit, machine, MachineTypes

LEMMA OpenTypes ==
  ASSUME MachineTypes, Workflow!Open
  PROVE  MachineTypes' /\ spent \subseteq spent'
BY DEF MachineTypes, Workflow!Open, States

LEMMA MachineSteps ==
  ASSUME MachineTypes, [Next]_vars
  PROVE  MachineTypes' /\ spent \subseteq spent'
<1>1. CASE UNCHANGED machine BY <1>1 DEF machine, MachineTypes
<1>2. ASSUME NEW t \in Requests, TurnStep(t) PROVE MachineTypes' /\ spent \subseteq spent'
  <2>1. CASE Initialize(t) BY <1>1, <2>1, OpenTypes DEF Initialize
  <2>2. CASE Reopen(t) BY <1>1, <2>2, TransitTypes DEF Reopen
  <2>3. CASE Proceed(t) BY <1>1, <2>3, TransitTypes DEF Proceed, Keys
  <2>4. CASE Initiate(t) BY <1>1, <2>4, MoveTypes DEF Initiate, Keys, machine
  <2>5. CASE DispatchFailed(t) BY <1>1, <2>5, TransitTypes DEF DispatchFailed, Keys
  <2>6. CASE ReadChat(t) \/ ReadBrief(t) \/ ReadWorkflow(t) \/ Number(t) \/ Insert(t)
             \/ Readiness(t) \/ Freeze(t) \/ NumberAssumed(t) \/ InsertAssumed(t)
    BY <1>1, <2>6 DEF ReadChat, ReadBrief, ReadWorkflow, Number, Insert, Readiness, Freeze,
                      NumberAssumed, InsertAssumed
  <2>7. CASE FindPlan(t) \/ InsertPlan(t) \/ Launch(t) \/ DispatchRaises(t) \/ Store(t)
             \/ Crash(t)
    BY <1>1, <2>7 DEF FindPlan, InsertPlan, Launch, DispatchRaises, Store, Crash
  <2> QED BY <1>2, <2>1, <2>2, <2>3, <2>4, <2>5, <2>6, <2>7 DEF TurnStep
<1>3. ASSUME NEW t \in Requests, NEW k, NEW s, Begin(t, k, s)
      PROVE  MachineTypes' /\ spent \subseteq spent'
  BY <1>1, <1>3 DEF Begin
<1>4. CASE Finish BY <1>4, TransitTypes DEF Finish, Keys
<1>5. ASSUME NEW to \in Targets, ClientMove(to) PROVE MachineTypes' /\ spent \subseteq spent'
  BY <1>5, MoveTypes DEF ClientMove
<1>6. CASE Execute \/ ExecutionDies \/ Resume
  BY <1>1, <1>6 DEF Execute, ExecutionDies, Resume
<1>7. CASE UNCHANGED vars BY <1>1, <1>7 DEF vars
<1> QED BY <1>2, <1>3, <1>4, <1>5, <1>6, <1>7 DEF Next

-----------------------------------------------------------------------------
(* What a step of a turn does to the turns. *)

\* The turn goes on with its number and the chat that it has read.
Same(t, r) == r.n = turn[t].n /\ r.chat = IF turn[t].pc = "chat" THEN chat ELSE turn[t].chat

\* A turn that ends leaves nothing.
Follows(t, r) ==
  /\ r \in Turn /\ Become(t, r)
  /\ Same(t, r) \/ r = Nothing
  /\ UNCHANGED <<begun, met>>
  /\ turn[t].pc # "idle"

LEMMA NothingType == Nothing \in Turn
<1>1. 0 \in Numbers /\ MaxTurns \in Nat BY ConversationAssumption DEF Numbers
<1> QED BY <1>1 DEF Nothing, Turn, Locations

LEMMA FieldsType ==
  ASSUME NEW r \in Turn, NEW l \in Locations, NEW k \in Nat, NEW b \in BOOLEAN
  PROVE  /\ [r EXCEPT !.pc = l] \in Turn
         /\ [r EXCEPT !.pc = l, !.base = k] \in Turn
         /\ [r EXCEPT !.pc = l, !.brief = k, !.says = b] \in Turn
         /\ [r EXCEPT !.pc = l, !.version = k, !.anyway = TRUE, !.base = 0] \in Turn
         /\ [r EXCEPT !.version = k, !.anyway = FALSE, !.pc = l] \in Turn
         /\ \A C \in SUBSET Numbers : [r EXCEPT !.pc = l, !.chat = C] \in Turn
BY DEF Turn

LEMMA LeavingType ==
  ASSUME NEW r \in Turn, NEW l \in Locations, NEW b \in BOOLEAN, NEW k \in Nat
  PROVE  /\ [Nothing EXCEPT !.pc = l, !.n = r.n, !.chat = r.chat, !.asked = k,
                             !.raised = b] \in Turn
         /\ [Nothing EXCEPT !.pc = l, !.n = r.n, !.chat = r.chat, !.anyway = b] \in Turn
BY NothingType DEF Turn, Nothing

\* A turn that goes on keeps its number, its chat and its versions.
LEMMA OnwardType ==
  ASSUME NEW r \in Turn, NEW l \in Locations, revision' \in Nat
  PROVE  /\ Onward(r, l) \in Turn /\ Onward(r, l).pc = l
         /\ Onward(r, l).n = r.n /\ Onward(r, l).chat = r.chat
         /\ Onward(r, l).brief \in {0, r.brief}
         /\ l \notin {"readiness", "store"} => Onward(r, l).brief = r.brief
         /\ Onward(r, l).version = r.version /\ Onward(r, l).base = r.base
<1>1. /\ (r.says /\ l = "initialize") \in BOOLEAN /\ r.kind \in {"tell", "build"}
      /\ r.brief \in Nat /\ r.seen \in States \cup {NoState}
  BY DEF Turn
<1>2. Onward(r, l) \in Turn BY <1>1 DEF Onward, Turn
<1> QED BY <1>2 DEF Onward, Turn

LEMMA TurnFollows ==
  ASSUME Types, NEW t \in Requests, TurnStep(t)
  PROVE  \E r : Follows(t, r)
<1> USE DEF Follows, Same
<1>r. revision \in Nat /\ revision' \in Nat
  BY MachineSteps DEF Types, MachineTypes, Next
<1>0. turn[t] \in Turn /\ Nothing \in Turn BY NothingType DEF Types, TurnTypes
<1>2. ASSUME Raise(t), UNCHANGED <<begun, met>>, turn[t].pc \notin {"idle", "chat"}
      PROVE  \E r : Follows(t, r)
  BY <1>0, <1>2 DEF Raise
<1>3. ASSUME NEW l \in Locations, Leave(t, l),
             UNCHANGED <<begun, met>>, turn[t].pc \notin {"idle", "chat"}
      PROVE  \E r : Follows(t, r)
  <2> DEFINE r == [Nothing EXCEPT !.pc = l, !.n = turn[t].n, !.chat = turn[t].chat,
                                  !.asked = IF l = "failed" THEN revision ELSE 0,
                                  !.raised = turn[t].raised]
  <2>1. turn[t].raised \in BOOLEAN /\ (IF l = "failed" THEN revision ELSE 0) \in Nat
    BY <1>0, <1>r DEF Turn
  <2>2. r \in Turn BY <1>0, <2>1, LeavingType
  <2>3. Same(t, r) BY <1>3 DEF Nothing
  <2>4. Become(t, r) BY <1>3 DEF Leave
  <2> QED BY <1>3, <2>2, <2>3, <2>4
<1> USE DEF Types, MachineTypes, TurnTypes, BriefTypes, At, bounds
<1>4. CASE ReadChat(t)
  <2> DEFINE r == [turn[t] EXCEPT !.pc = "brief", !.chat = chat]
  <2>1. r \in Turn
    <3>1. chat \in SUBSET Numbers /\ "brief" \in Locations BY DEF Locations
    <3> QED BY <1>0, <3>1, FieldsType
  <2>2. Same(t, r) BY <1>0, <1>4 DEF ReadChat, Turn
  <2> QED BY <1>4, <2>1, <2>2 DEF ReadChat
<1>5. CASE ReadBrief(t)
  <2>1. Latest \in Nat BY DEF Latest
  <2>2. (turn[t].says /\ Latest = 0) \in BOOLEAN OBVIOUS
  <2> DEFINE r == [turn[t] EXCEPT !.pc = "workflow", !.brief = Latest,
                                  !.says = turn[t].says /\ Latest = 0]
  <2>3. "workflow" \in Locations BY DEF Locations
  <2>4. r \in Turn BY <1>0, <2>1, <2>2, <2>3, FieldsType
  <2>5. Same(t, r) BY <1>0, <1>5 DEF ReadBrief, Turn
  <2> QED BY <1>5, <2>4, <2>5 DEF ReadBrief
<1>6. ASSUME NEW r \in Turn, NEW l \in Locations \cup {"reject"}, Follow(t, r, l),
             Same(t, r), UNCHANGED <<begun, met>>, turn[t].pc \notin {"idle", "chat"}
      PROVE  \E q : Follows(t, q)
  <2>1. CASE l = "reject" BY <1>2, <1>6, <2>1 DEF Follow
  <2>2. CASE l # "reject"
    <3>1. Onward(r, l) \in Turn /\ Same(t, Onward(r, l))
      BY <1>r, <1>6, <2>2, OnwardType
    <3> QED BY <1>6, <2>2, <3>1 DEF Follow
  <2> QED BY <2>1, <2>2
<1>7. \A r \in Turn : /\ Built(r) \in Locations /\ Decided(r) \in Locations \cup {"reject"}
                      /\ Routed(r) \in Locations \cup {"reject"}
  BY DEF Built, Decided, Routed, Locations, Dispatching
<1>8. CASE ReadWorkflow(t)
  <2> DEFINE r == [turn[t] EXCEPT !.seen = state]
  <2>1. r \in Turn /\ Same(t, r)
    <3>1. r \in Turn BY <1>0 DEF Turn
    <3>2. turn[t].pc # "chat" BY <1>8 DEF ReadWorkflow
    <3> QED BY <1>0, <3>1, <3>2 DEF Turn
  <2>2. Follow(t, r, Routed(r)) BY <1>8 DEF ReadWorkflow
  <2>3. Routed(r) \in Locations \cup {"reject"} BY <1>7, <2>1
  <2> QED BY <1>6, <1>8, <2>1, <2>2, <2>3 DEF ReadWorkflow
<1>9. CASE Initialize(t)
  <2> DEFINE r == [turn[t] EXCEPT !.seen = state']
  <2>0. state' \in States \cup {NoState}
    BY <1>9 DEF Initialize, Workflow!Open, States, machine
  <2>1. r \in Turn /\ Same(t, r)
    <3>1. r \in Turn BY <1>0, <2>0 DEF Turn
    <3>2. turn[t].pc # "chat" BY <1>9 DEF Initialize
    <3> QED BY <1>0, <3>1, <3>2 DEF Turn
  <2>2. Follow(t, r, Decided(r)) BY <1>9 DEF Initialize
  <2>3. Decided(r) \in Locations \cup {"reject"} BY <1>7, <2>1
  <2> QED BY <1>6, <1>9, <2>1, <2>2, <2>3 DEF Initialize
<1>10. CASE Reopen(t)
  <2>1. "append" \in Locations BY DEF Locations
  <2>2. Onward(turn[t], "append") \in Turn /\ Same(t, Onward(turn[t], "append"))
    BY <1>0, <1>r, <1>10, <2>1, OnwardType DEF Reopen
  <2>3. Raise(t) \/ Become(t, Onward(turn[t], "append")) BY <1>10 DEF Reopen
  <2> QED BY <1>2, <1>10, <2>2, <2>3 DEF Reopen
<1>11. CASE Number(t)
  <2> DEFINE r == [turn[t] EXCEPT !.pc = "insert", !.base = Latest]
  <2>1. "insert" \in Locations /\ Latest \in Nat BY DEF Locations, Latest
  <2>2. r \in Turn BY <1>0, <2>1, FieldsType
  <2>3. Same(t, r) BY <1>0, <1>11 DEF Number, Turn
  <2> QED BY <1>11, <2>2, <2>3 DEF Number
<1>12. CASE Insert(t)
  <2>1. CASE ~Insertable(t) BY <1>2, <1>12, <2>1 DEF Insert
  <2>2. CASE Insertable(t)
    <3>1. \E b : briefs' = Append(briefs, b) BY <1>12, <2>2 DEF Insert
    <3>2. Len(briefs') \in Nat BY <3>1
    <3> DEFINE r == [turn[t] EXCEPT !.brief = Len(briefs'), !.base = 0]
    <3>3. r \in Turn /\ Same(t, r)
      <4>1. r \in Turn BY <1>0, <3>2 DEF Turn
      <4>2. turn[t].pc # "chat" BY <1>12 DEF Insert
      <4> QED BY <1>0, <4>1, <4>2 DEF Turn
    <3>4. Onward(r, Built(r)) \in Turn /\ Same(t, Onward(r, Built(r)))
      <4>1. Built(r) \in Locations BY <1>7, <3>3
      <4> QED BY <1>r, <3>3, <4>1, OnwardType
    <3>5. Leave(t, "store") \/ Become(t, Onward(r, Built(r)))
      BY <1>12, <2>2 DEF Insert
    <3> QED BY <1>3, <1>12, <3>4, <3>5 DEF Insert, Locations
  <2> QED BY <2>1, <2>2
<1>13. CASE Proceed(t)
  <2>1. {"readiness", "store"} \subseteq Locations BY DEF Locations, Dispatching
  <2>2. ASSUME NEW l \in {"readiness", "store"}
        PROVE  Onward(turn[t], l) \in Turn /\ Same(t, Onward(turn[t], l))
    BY <1>0, <1>r, <1>13, <2>1, <2>2, OnwardType DEF Proceed
  <2>3. \/ Raise(t)
        \/ \E l \in {"readiness", "store"} : Become(t, Onward(turn[t], l))
    BY <1>13 DEF Proceed
  <2> QED BY <1>2, <1>13, <2>2, <2>3 DEF Proceed
<1>14. CASE Readiness(t)
  <2>1. briefs[Latest].open \in BOOLEAN
    <3>1. Latest \in 1..Len(briefs) BY <1>14 DEF Readiness, Latest
    <3>2. briefs[Latest] \in Brief BY <3>1
    <3> QED BY <3>2 DEF Brief
  <2> DEFINE r == [Nothing EXCEPT !.pc = "freeze", !.n = turn[t].n, !.chat = turn[t].chat,
                                  !.anyway = briefs[Latest].open]
  <2>2. r \in Turn BY <1>0, <2>1, LeavingType DEF Locations, Dispatching
  <2>3. Same(t, r) BY <1>14 DEF Readiness, Nothing
  <2> QED BY <1>14, <2>2, <2>3 DEF Readiness
<1>15. CASE Freeze(t)
  <2>1. Latest \in Nat BY DEF Latest
  <2>2. \A l \in {"assume", "initiate"} :
          [turn[t] EXCEPT !.version = Latest, !.anyway = FALSE, !.pc = l] \in Turn
    BY <1>0, <2>1, FieldsType DEF Locations, Dispatching
  <2>3. \A l : Same(t, [turn[t] EXCEPT !.version = Latest, !.anyway = FALSE, !.pc = l])
    BY <1>0, <1>15 DEF Freeze, Turn
  <2>4. \/ Leave(t, "store")
        \/ \E l \in {"assume", "initiate"} :
             Become(t, [turn[t] EXCEPT !.version = Latest, !.anyway = FALSE, !.pc = l])
    BY <1>15 DEF Freeze
  <2> QED BY <1>3, <1>15, <2>2, <2>3, <2>4 DEF Freeze, Locations
<1>16. CASE NumberAssumed(t)
  <2> DEFINE r == [turn[t] EXCEPT !.pc = "insert_assumed", !.base = Latest]
  <2>1. "insert_assumed" \in Locations /\ Latest \in Nat
    BY DEF Locations, Dispatching, Latest
  <2>2. r \in Turn BY <1>0, <2>1, FieldsType
  <2>3. Same(t, r) BY <1>0, <1>16 DEF NumberAssumed, Turn
  <2> QED BY <1>16, <2>2, <2>3 DEF NumberAssumed
<1>17. CASE InsertAssumed(t)
  <2>1. CASE ~Insertable(t) BY <1>3, <1>17, <2>1 DEF InsertAssumed, Locations
  <2>2. CASE Insertable(t)
    <3>1. \E b : briefs' = Append(briefs, b) BY <1>17, <2>2 DEF InsertAssumed
    <3>2. Len(briefs') \in Nat BY <3>1
    <3> DEFINE r == [turn[t] EXCEPT !.pc = "initiate", !.version = Len(briefs'),
                                    !.anyway = TRUE, !.base = 0]
    <3>3. "initiate" \in Locations BY DEF Locations, Dispatching
    <3>4. r \in Turn BY <1>0, <3>2, <3>3, FieldsType
    <3>5. Same(t, r) BY <1>0, <1>17 DEF InsertAssumed, Turn
    <3> QED BY <1>17, <2>2, <3>4, <3>5 DEF InsertAssumed
  <2> QED BY <2>1, <2>2
<1>18. CASE Initiate(t) \/ FindPlan(t) \/ InsertPlan(t) \/ Launch(t) \/ DispatchFailed(t)
  <2>1. \E l \in Locations : Leave(t, l)
    BY <1>18 DEF Initiate, FindPlan, InsertPlan, Launch, DispatchFailed, Locations,
       Dispatching
  <2>2. UNCHANGED <<begun, met>> /\ turn[t].pc \notin {"idle", "chat"}
    BY <1>18 DEF Initiate, FindPlan, InsertPlan, Launch, DispatchFailed
  <2> QED BY <1>3, <2>1, <2>2
<1>19. CASE DispatchRaises(t)
  <2> DEFINE r == [Nothing EXCEPT !.pc = "failed", !.n = turn[t].n, !.chat = turn[t].chat,
                                  !.asked = revision, !.raised = TRUE]
  <2>1. r \in Turn BY <1>0, <1>r, LeavingType DEF Locations
  <2>2. Same(t, r) BY <1>19 DEF DispatchRaises, Dispatching, Nothing
  <2> QED BY <1>19, <2>1, <2>2 DEF DispatchRaises, Dispatching
<1>20. CASE Store(t) \/ Crash(t)
  BY <1>0, <1>20 DEF Store, Crash
<1> QED BY <1>4, <1>5, <1>8, <1>9, <1>10, <1>11, <1>12, <1>13, <1>14, <1>15, <1>16, <1>17,
           <1>18, <1>19, <1>20 DEF TurnStep

-----------------------------------------------------------------------------
(* What a step of a turn does to the briefs, and what it has then read. *)

Grows(t) ==
  \/ UNCHANGED briefs
  \/ \E c \in SUBSET Numbers, o \in BOOLEAN :
       /\ briefs' = Append(briefs, [context |-> c, open |-> o])
       /\ \/ At(t, "insert") /\ c = Context(turn[t].brief) \cup {turn[t].n}
          \/ At(t, "insert_assumed") /\ c = Context(turn[t].version)

Reads(t) ==
  turn'[t].pc \in Reading =>
    /\ UNCHANGED briefs
    /\ \/ turn'[t].brief = Len(briefs)
       \/ turn[t].pc \in Reading /\ turn'[t].brief = turn[t].brief

Freezes(t) ==
  turn'[t].pc \in Freezing =>
    /\ turn'[t].version > 0
    /\ \/ turn'[t].version = Len(briefs')
       \/ UNCHANGED briefs /\ turn[t].pc \in Freezing /\ turn'[t].version = turn[t].version

Within(t) ==
  /\ turn'[t].brief \in {0, turn[t].brief, Len(briefs')}
  /\ turn'[t].version \in {0, turn[t].version, Len(briefs')}
  /\ turn'[t].base \in {0, turn[t].base, Len(briefs)}
  /\ turn'[t].pc \in {"readiness", "freeze"} => Len(briefs') > 0

Causes(t) ==
  /\ turn'[t].pc = "failed" =>
       \/ turn'[t].raised
       \/ At(t, "insert_assumed") /\ turn[t].base # Len(briefs)
       \/ At(t, "insert_plan") /\ plan # "none"
  /\ turn'[t].pc = "insert_assumed" => UNCHANGED briefs /\ turn'[t].base = Len(briefs)
  /\ turn'[t].pc = "insert_plan" => UNCHANGED plan /\ plan = "none"

Changes(t) == Grows(t) /\ Reads(t) /\ Freezes(t) /\ Within(t) /\ Causes(t)

LEMMA ContextType ==
  ASSUME Types, NEW v \in 0..Len(briefs)
  PROVE  Context(v) \in SUBSET Numbers
<1>1. CASE v = 0 BY <1>1 DEF Context
<1>2. CASE v # 0
  <2>1. v \in DOMAIN briefs BY <1>2 DEF Types, BriefTypes
  <2>2. briefs[v] \in Brief BY <2>1 DEF Types, BriefTypes
  <2> QED BY <1>2, <2>2 DEF Context, Brief
<1> QED BY <1>1, <1>2

LEMMA LeavesNothing ==
  ASSUME Types, NEW t \in Requests
  PROVE  /\ \A l : Leave(t, l) => /\ turn'[t].pc = l /\ turn'[t].raised = turn[t].raised
                                 /\ turn'[t].brief = 0 /\ turn'[t].version = 0
                                 /\ turn'[t].base = 0
         /\ Raise(t) => /\ turn'[t].pc = "idle" /\ turn'[t].brief = 0
                        /\ turn'[t].version = 0 /\ turn'[t].base = 0
<1>1. turn \in [Requests -> Turn] BY DEF Types, TurnTypes
<1>2. ASSUME NEW l, Leave(t, l)
      PROVE  /\ turn'[t].pc = l /\ turn'[t].raised = turn[t].raised /\ turn'[t].brief = 0
             /\ turn'[t].version = 0 /\ turn'[t].base = 0
  <2>1. turn'[t] = [Nothing EXCEPT !.pc = l, !.n = turn[t].n, !.chat = turn[t].chat,
                                   !.asked = IF l = "failed" THEN revision ELSE 0,
                                   !.raised = turn[t].raised]
    BY <1>1, <1>2 DEF Leave, Become
  <2> QED BY <2>1 DEF Nothing
<1>3. ASSUME Raise(t)
      PROVE  /\ turn'[t].pc = "idle" /\ turn'[t].brief = 0 /\ turn'[t].version = 0
             /\ turn'[t].base = 0
  <2>1. turn'[t] = Nothing BY <1>1, <1>3 DEF Raise, Become
  <2> QED BY <2>1 DEF Nothing
<1> QED BY <1>2, <1>3

LEMMA TurnChanges ==
  ASSUME Types, NEW t \in Requests, TurnStep(t)
  PROVE  Changes(t)
<1> USE DEF Changes, Reads, Freezes, Within, Causes, At
<1>r. revision' \in Nat BY MachineSteps DEF Types, MachineTypes, Next
<1>0. /\ turn \in [Requests -> Turn] /\ turn[t] \in Turn /\ Len(briefs) \in Nat
      /\ turn[t].brief \in 0..Len(briefs) /\ turn[t].version \in 0..Len(briefs)
      /\ turn[t].base \in 0..Len(briefs)
      /\ turn[t].pc \in {"readiness", "freeze"} => Len(briefs) > 0
      /\ turn[t].pc \in {"assume", "insert_assumed", "initiate"} => turn[t].version > 0
  BY DEF Types, TurnTypes, BriefTypes
<1>a. ASSUME NEW r \in Turn, NEW l \in {"initialize", "reopen", "append", "proceed",
                                         "readiness", "store", "reject"},
             Follow(t, r, l), UNCHANGED briefs, l = "readiness" => r.brief > 0,
             l \in Reading => turn[t].pc \in Reading,
             r.brief = turn[t].brief, r.version = turn[t].version, r.base = turn[t].base
      PROVE  Changes(t)
  <2>1. CASE l = "reject"
    BY <1>0, <1>a, <2>1, LeavesNothing DEF Follow, Grows, Reading, Freezing
  <2>2. CASE l # "reject"
    <3>1. turn'[t] = Onward(r, l)
      BY <1>0, <1>a, <2>2 DEF Follow, Become
    <3>2. /\ turn'[t].pc = l /\ turn'[t].brief \in {0, turn[t].brief}
          /\ l \in Reading => turn'[t].brief = turn[t].brief
          /\ turn'[t].version = turn[t].version /\ turn'[t].base = turn[t].base
      <4>1. l \in Locations BY <2>2 DEF Locations, Dispatching
      <4> QED BY <1>r, <1>a, <3>1, <4>1, OnwardType DEF Reading
    <3> QED BY <1>0, <1>a, <3>2 DEF Grows, Reading, Freezing
  <2> QED BY <2>1, <2>2
<1>1. CASE ReadChat(t)
  BY <1>0, <1>1 DEF ReadChat, Grows, Become, Leave, Raise, Nothing, Turn, Reading,
     Freezing
<1>2. CASE ReadBrief(t)
  BY <1>0, <1>2 DEF ReadBrief, Grows, Become, Leave, Raise, Nothing, Turn, Reading,
     Freezing, Latest
<1>3. CASE ReadWorkflow(t)
  <2> DEFINE r == [turn[t] EXCEPT !.seen = state]
  <2>1. /\ r \in Turn /\ r.brief = turn[t].brief /\ r.version = turn[t].version
        /\ r.base = turn[t].base
    <3>1. state \in States \cup {NoState} BY DEF Types, MachineTypes
    <3>2. r \in Turn BY <1>0, <3>1 DEF Turn
    <3> QED BY <1>0, <3>2 DEF Turn
  <2>2. Follow(t, r, Routed(r)) /\ UNCHANGED briefs /\ turn[t].pc \in Reading
    BY <1>3 DEF ReadWorkflow, Reading
  <2>3. /\ Routed(r) \in {"initialize", "reopen", "append", "proceed", "readiness", "store",
                          "reject"}
        /\ Routed(r) = "readiness" => r.brief > 0
    BY <1>0, <2>1 DEF Routed, Decided, Built
  <2> QED BY <1>a, <2>1, <2>2, <2>3
<1>4. CASE Initialize(t)
  <2> DEFINE r == [turn[t] EXCEPT !.seen = state']
  <2>1. state' \in States \cup {NoState}
    BY <1>4 DEF Types, MachineTypes, Initialize, Workflow!Open, States, machine
  <2>2. /\ r \in Turn /\ r.brief = turn[t].brief /\ r.version = turn[t].version
        /\ r.base = turn[t].base
    <3>1. r \in Turn BY <1>0, <2>1 DEF Turn
    <3> QED BY <1>0, <3>1 DEF Turn
  <2>3. Follow(t, r, Decided(r)) /\ UNCHANGED briefs /\ turn[t].pc \in Reading
    BY <1>4 DEF Initialize, Reading
  <2>4. /\ Decided(r) \in {"initialize", "reopen", "append", "proceed", "readiness", "store",
                          "reject"}
        /\ Decided(r) = "readiness" => r.brief > 0
    BY <1>0, <2>2 DEF Decided, Built
  <2> QED BY <1>a, <2>2, <2>3, <2>4
<1>5. CASE Reopen(t)
  <2>1. CASE Raise(t)
    BY <1>0, <1>5, <2>1, LeavesNothing DEF Reopen, Grows, Reading, Freezing
  <2>2. CASE Become(t, Onward(turn[t], "append"))
    <3>1. turn'[t] = Onward(turn[t], "append") BY <1>0, <2>2 DEF Become
    <3>2. "append" \in Locations BY DEF Locations
    <3>3. /\ turn'[t].pc = "append" /\ turn'[t].brief = turn[t].brief
          /\ turn'[t].version = turn[t].version /\ turn'[t].base = turn[t].base
      BY <1>0, <1>r, <3>1, <3>2, OnwardType
    <3>4. UNCHANGED briefs /\ turn[t].pc \in Reading BY <1>5 DEF Reopen, Reading
    <3> QED BY <1>0, <3>3, <3>4 DEF Grows, Reading, Freezing
  <2> QED BY <1>5, <2>1, <2>2 DEF Reopen
<1>6. CASE Number(t)
  BY <1>0, <1>6 DEF Number, Grows, Become, Leave, Raise, Nothing, Turn, Reading,
     Freezing, Latest
<1>7. CASE Insert(t)
  <2>1. CASE ~Insertable(t)
    BY <1>0, <1>7, <2>1, LeavesNothing DEF Insert, Grows, Reading, Freezing
  <2>2. CASE Insertable(t)
    <3> DEFINE c == Context(turn[t].brief) \cup {turn[t].n}
    <3>1. PICK o \in BOOLEAN : briefs' = Append(briefs, [context |-> c, open |-> o])
      <4>1. \E o \in BOOLEAN :
              briefs' = Append(briefs, [context |-> c, open |-> o \/ Lacking(c)])
        BY <1>7, <2>2 DEF Insert
      <4>2. \A o \in BOOLEAN : (o \/ Lacking(c)) \in BOOLEAN OBVIOUS
      <4> QED BY <4>1, <4>2
    <3>2. Len(briefs') = Len(briefs) + 1 BY <3>1 DEF Types, BriefTypes
    <3>3. Grows(t)
      <4>1. Context(turn[t].brief) \cup {turn[t].n} \in SUBSET Numbers
        BY <1>0, ContextType DEF Turn
      <4> QED BY <1>7, <3>1, <4>1 DEF Insert, Grows
    <3> DEFINE r == [turn[t] EXCEPT !.brief = Len(briefs'), !.base = 0]
    <3>4. r \in Turn /\ r.brief = Len(briefs') /\ r.version = turn[t].version /\ r.base = 0
      <4>0. Len(briefs') \in Nat BY <1>0, <3>2
      <4>1. r \in Turn BY <1>0, <4>0 DEF Turn
      <4> QED BY <1>0, <4>1 DEF Turn
    <3>5. Leave(t, "store") \/ Become(t, Onward(r, Built(r)))
      BY <1>7, <2>2 DEF Insert
    <3>6. CASE Leave(t, "store")
      BY <1>0, <3>3, <3>6, LeavesNothing DEF Reading, Freezing
    <3>7. CASE Become(t, Onward(r, Built(r)))
      <4>1. turn'[t] = Onward(r, Built(r)) BY <1>0, <3>7 DEF Become
      <4>2. Built(r) \in {"proceed", "readiness", "store"} BY DEF Built
      <4>3. Built(r) \in Locations BY <4>2 DEF Locations, Dispatching
      <4> HIDE DEF r
      <4>4. /\ turn'[t].pc = Built(r) /\ turn'[t].brief \in {0, Len(briefs')}
            /\ turn'[t].version = turn[t].version /\ turn'[t].base = 0
        BY <1>r, <3>4, <4>1, <4>3, OnwardType
      <4> QED BY <1>0, <3>2, <3>3, <4>2, <4>4 DEF Reading, Freezing
    <3> QED BY <3>5, <3>6, <3>7
  <2> QED BY <2>1, <2>2
<1>8. CASE Proceed(t)
  <2>1. CASE Raise(t)
    BY <1>0, <1>8, <2>1, LeavesNothing DEF Proceed, Grows, Reading, Freezing
  <2> DEFINE l == IF turn[t].brief > 0 THEN "readiness" ELSE "store"
  <2>2. CASE Become(t, Onward(turn[t], l))
    <3>1. turn'[t] = Onward(turn[t], l) BY <1>0, <2>2 DEF Become
    <3>2. l \in Locations BY DEF Locations, Dispatching
    <3>3. /\ turn'[t].pc = l /\ turn'[t].brief \in {0, turn[t].brief}
          /\ turn'[t].version = turn[t].version /\ turn'[t].base = turn[t].base
      BY <1>0, <1>r, <3>1, <3>2, OnwardType
    <3>4. UNCHANGED briefs BY <1>8 DEF Proceed
    <3> QED BY <1>0, <3>3, <3>4 DEF Grows, Reading, Freezing
  <2> QED BY <1>8, <2>1, <2>2 DEF Proceed
<1>9. CASE Readiness(t)
  BY <1>0, <1>9 DEF Readiness, Grows, Become, Leave, Raise, Nothing, Turn, Reading,
     Freezing, Latest
<1>10. CASE Freeze(t)
  <2>1. CASE Leave(t, "store")
    BY <1>0, <1>10, <2>1, LeavesNothing DEF Freeze, Grows, Reading, Freezing
  <2>2. ASSUME NEW l \in {"assume", "initiate"},
               Become(t, [turn[t] EXCEPT !.version = Latest, !.anyway = FALSE, !.pc = l])
        PROVE  Changes(t)
    <3>1. /\ turn'[t].pc = l /\ turn'[t].brief = turn[t].brief
          /\ turn'[t].version = Len(briefs) /\ turn'[t].base = turn[t].base
      BY <1>0, <2>2 DEF Become, Latest, Turn
    <3>2. UNCHANGED briefs /\ Len(briefs) > 0 BY <1>0, <1>10 DEF Freeze
    <3> QED BY <1>0, <3>1, <3>2 DEF Grows, Reading, Freezing
  <2>3. \/ Leave(t, "store")
        \/ \E l \in {"assume", "initiate"} :
             Become(t, [turn[t] EXCEPT !.version = Latest, !.anyway = FALSE, !.pc = l])
    BY <1>10 DEF Freeze
  <2> QED BY <2>1, <2>2, <2>3
<1>11. CASE NumberAssumed(t)
  BY <1>0, <1>11 DEF NumberAssumed, Grows, Become, Leave, Raise, Nothing, Turn,
     Reading, Freezing, Latest
<1>12. CASE InsertAssumed(t)
  <2>1. CASE ~Insertable(t)
    BY <1>0, <1>12, <2>1, LeavesNothing
       DEF InsertAssumed, Grows, Insertable, Reading, Freezing
  <2>2. CASE Insertable(t)
    <3> DEFINE c == Context(turn[t].version)
    <3>1. /\ briefs' = Append(briefs, [context |-> c, open |-> Lacking(c)])
          /\ Become(t, [turn[t] EXCEPT !.pc = "initiate", !.version = Len(briefs'),
                                       !.anyway = TRUE, !.base = 0])
      BY <1>12, <2>2 DEF InsertAssumed
    <3>2. Len(briefs') = Len(briefs) + 1 BY <3>1 DEF Types, BriefTypes
    <3>3. Grows(t)
      <4>1. c \in SUBSET Numbers BY <1>0, ContextType
      <4>2. Lacking(c) \in BOOLEAN BY DEF Lacking
      <4> QED BY <1>12, <3>1, <4>1, <4>2 DEF InsertAssumed, Grows
    <3>4. /\ turn'[t].pc = "initiate" /\ turn'[t].brief = turn[t].brief
          /\ turn'[t].version = Len(briefs') /\ turn'[t].base = 0
      BY <1>0, <3>1 DEF Become, Turn
    <3> QED BY <1>0, <3>2, <3>3, <3>4 DEF Reading, Freezing
  <2> QED BY <2>1, <2>2
<1>13. CASE Initiate(t)
  BY <1>0, <1>13, LeavesNothing DEF Initiate, Grows, Reading, Freezing
<1>14. CASE FindPlan(t)
  BY <1>0, <1>14, LeavesNothing DEF FindPlan, execution, Grows, Reading, Freezing
<1>15. CASE InsertPlan(t)
  BY <1>0, <1>15, LeavesNothing DEF InsertPlan, Grows, Reading, Freezing
<1>16. CASE Launch(t)
  BY <1>0, <1>16 DEF Launch, Grows, Become, Leave, Raise, Nothing, Turn, Reading,
     Freezing
<1>17. CASE DispatchRaises(t)
  BY <1>0, <1>17 DEF DispatchRaises, Grows, Become, Leave, Raise, Nothing, Turn,
     Reading, Freezing, Dispatching
<1>18. CASE DispatchFailed(t)
  BY <1>0, <1>18 DEF DispatchFailed, Grows, Become, Leave, Raise, Nothing, Turn,
     Reading, Freezing
<1>19. CASE Store(t)
  BY <1>0, <1>19 DEF Store, Grows, Become, Leave, Raise, Nothing, Turn, Reading, Freezing
<1>20. CASE Crash(t)
  BY <1>0, <1>20 DEF Crash, Grows, Become, Leave, Raise, Nothing, Turn, Reading, Freezing
<1> QED BY <1>1, <1>2, <1>3, <1>4, <1>5, <1>6, <1>7, <1>8, <1>9, <1>10, <1>11, <1>12, <1>13,
           <1>14, <1>15, <1>16, <1>17, <1>18, <1>19, <1>20 DEF TurnStep
-----------------------------------------------------------------------------
(* What a step does to the rest of the state. *)

Builds(t) ==
  \/ UNCHANGED build
  \/ /\ At(t, "initiate") /\ turn'[t].pc = "plan" /\ UNCHANGED briefs
     /\ "conversation-build" \notin spent /\ "conversation-build" \in spent'
     /\ build' = [version |-> turn[t].version, by |-> turn[t].n]

Tells(t) ==
  \/ UNCHANGED <<chat, told>>
  \/ /\ At(t, "store") /\ turn'[t] = Nothing /\ UNCHANGED <<briefs, build>>
     /\ chat' = turn[t].chat \cup {turn[t].n} /\ told' = told \cup {turn[t].n}

Plans(t) == UNCHANGED plan \/ At(t, "insert_plan")

LEMMA TurnEffects ==
  ASSUME Types, NEW t \in Requests, TurnStep(t)
  PROVE  Builds(t) /\ Tells(t) /\ Plans(t) /\ OtherTypes'
<1> USE DEF Builds, Tells, Plans, At, execution, bounds, OtherTypes
<1>0. turn \in [Requests -> Turn] /\ OtherTypes /\ MaxEvents \in Nat
  BY ConversationAssumption DEF Types, TurnTypes
<1>1. CASE Initiate(t)
  <2>1. CASE UNCHANGED build BY <1>0, <1>1, <2>1 DEF Initiate
  <2>2. CASE ~UNCHANGED build
    <3>1. /\ Workflow!Move("building", "conversation-build") /\ Leave(t, "plan")
          /\ build' = [version |-> turn[t].version, by |-> turn[t].n]
          /\ "conversation-build" \notin spent
      BY <1>1, <2>2 DEF Initiate
    <3>2. "conversation-build" \in spent'
      BY <3>1, ConversationAssumption DEF Workflow!Move
    <3> QED BY <1>0, <1>1, <3>1, <3>2, LeavesNothing DEF Initiate
  <2> QED BY <2>1, <2>2
<1>2. CASE Store(t) BY <1>0, <1>2 DEF Store, Become
<1>3. CASE InsertPlan(t) BY <1>0, <1>3 DEF InsertPlan
<1>4. CASE Launch(t) BY <1>0, <1>4 DEF Launch
<1>5. CASE DispatchRaises(t) \/ Crash(t) BY <1>0, <1>5 DEF DispatchRaises, Crash, Event
<1>6. CASE ReadChat(t) \/ ReadBrief(t) \/ ReadWorkflow(t) \/ Initialize(t) \/ Reopen(t)
           \/ Number(t) \/ Insert(t)
  BY <1>0, <1>6 DEF ReadChat, ReadBrief, ReadWorkflow, Initialize, Reopen, Number, Insert
<1>7. CASE Proceed(t) \/ Readiness(t) \/ Freeze(t) \/ NumberAssumed(t) \/ InsertAssumed(t)
           \/ FindPlan(t) \/ DispatchFailed(t)
  BY <1>0, <1>7 DEF Proceed, Readiness, Freeze, NumberAssumed, InsertAssumed, FindPlan,
                    DispatchFailed
<1> QED BY <1>1, <1>2, <1>3, <1>4, <1>5, <1>6, <1>7 DEF TurnStep

-----------------------------------------------------------------------------
(* The three kinds of steps: of a turn, the beginning of one, and others.   *)

Moves(t) ==
  /\ turn[t].pc # "idle"
  /\ turn' \in [Requests -> Turn] /\ \A u \in Requests \ {t} : turn'[u] = turn[u]
  /\ turn'[t] = Nothing \/ Same(t, turn'[t])
  /\ UNCHANGED <<begun, met>>
  /\ Changes(t) /\ Builds(t) /\ Tells(t) /\ Plans(t) /\ OtherTypes'

Starts(t) ==
  /\ turn[t].pc = "idle" /\ begun' = begun + 1 /\ begun' \in Numbers
  /\ turn' \in [Requests -> Turn] /\ \A u \in Requests \ {t} : turn'[u] = turn[u]
  /\ turn'[t].pc = "chat" /\ turn'[t].n = begun'
  /\ turn'[t].brief = 0 /\ turn'[t].version = 0 /\ turn'[t].base = 0
  /\ met' = IF Active = {} THEN met ELSE met \cup {begun'} \cup {turn[u].n : u \in Active}
  /\ UNCHANGED <<briefs, build, chat, told, plan>> /\ OtherTypes'

Outer ==
  /\ UNCHANGED <<briefs, build, chat, turn, begun, told>>
  /\ met \subseteq met' /\ met' \subseteq Numbers
  /\ plan = "none" => UNCHANGED plan
  /\ OtherTypes'

LEMMA TurnMoves ==
  ASSUME Types, NEW t \in Requests, TurnStep(t)
  PROVE  Moves(t)
<1>1. PICK r : Follows(t, r) BY TurnFollows
<1>2. turn \in [Requests -> Turn] BY DEF Types, TurnTypes
<1>3. /\ turn' \in [Requests -> Turn] /\ turn'[t] = r
      /\ \A u \in Requests \ {t} : turn'[u] = turn[u]
  BY <1>1, <1>2 DEF Follows, Become
<1> QED BY <1>1, <1>3, TurnChanges, TurnEffects DEF Follows, Moves

LEMMA BeginStarts ==
  ASSUME Types, NEW t \in Requests, NEW k \in {"tell", "build"}, NEW s \in BOOLEAN,
         Begin(t, k, s)
  PROVE  Starts(t)
<1>1. begun \in Nat /\ MaxTurns \in Nat /\ turn \in [Requests -> Turn]
  BY ConversationAssumption DEF Types, TurnTypes, Numbers
<1>2. begun' = begun + 1 /\ begun' \in Numbers BY <1>1 DEF Begin, Numbers
<1> DEFINE r == [Nothing EXCEPT !.pc = "chat", !.n = begun', !.kind = k, !.says = s]
<1>3. Become(t, r) BY DEF Begin
<1>4. r \in Turn BY <1>2, NothingType DEF Turn, Locations
<1>5. turn' = [turn EXCEPT ![t] = r] BY <1>3 DEF Become
<1>6. /\ turn' \in [Requests -> Turn] /\ turn'[t] = r
      /\ \A u \in Requests \ {t} : turn'[u] = turn[u]
  BY <1>1, <1>4, <1>5
<1>7. r.pc = "chat" /\ r.n = begun' /\ r.brief = 0 /\ r.version = 0 /\ r.base = 0
  BY DEF Nothing
<1>8. OtherTypes' BY DEF Begin, Types, OtherTypes, execution
<1> QED BY <1>2, <1>6, <1>7, <1>8 DEF Begin, Starts, At, execution

LEMMA OtherSteps ==
  ASSUME Types, Execute \/ Finish \/ ExecutionDies \/ Resume \/ UNCHANGED vars
                \/ \E to \in Targets : ClientMove(to)
  PROVE  Outer
<1>1. /\ OtherTypes /\ MaxEvents \in Nat /\ met \subseteq Numbers
      /\ \A u \in Requests : turn[u].n \in Numbers
  BY ConversationAssumption DEF Types, TurnTypes, Turn
<1> USE <1>1 DEF Outer, OtherTypes, execution, bounds
<1>2. CASE Execute BY <1>2 DEF Execute
<1>3. CASE Finish BY <1>3 DEF Finish
<1>4. CASE ExecutionDies BY <1>4 DEF ExecutionDies, Event
<1>5. CASE Resume BY <1>5 DEF Resume
<1>6. CASE UNCHANGED vars BY <1>6 DEF vars
<1>7. ASSUME NEW to \in Targets, ClientMove(to) PROVE Outer
  BY <1>7 DEF ClientMove, Event, Active
<1> QED BY <1>2, <1>3, <1>4, <1>5, <1>6, <1>7

LEMMA StepKinds ==
  ASSUME Types, [Next]_vars
  PROVE  (\E t \in Requests : Moves(t)) \/ (\E t \in Requests : Starts(t)) \/ Outer
BY TurnMoves, BeginStarts, OtherSteps DEF Next

-----------------------------------------------------------------------------
(* The types. *)

LEMMA TypesKept ==
  ASSUME Types, [Next]_vars
  PROVE  Types'
<1>1. MachineTypes' BY MachineSteps DEF Types
<1>2. /\ turn \in [Requests -> Turn] /\ begun \in Nat /\ Len(briefs) \in Nat
      /\ \A u \in Requests : turn[u].n \in Numbers /\ turn[u].chat \subseteq Numbers
      /\ \A u \in Requests :
           turn[u].brief \in Nat /\ turn[u].version \in Nat /\ turn[u].base \in Nat
  BY ConversationAssumption DEF Types, TurnTypes, BriefTypes, Numbers, Turn
<1> USE DEF Types, TurnTypes, BriefTypes
<1>3. ASSUME NEW t \in Requests, Moves(t) PROVE TurnTypes' /\ BriefTypes' /\ OtherTypes'
  <2>1. TurnTypes' BY <1>2, <1>3 DEF Moves, Tells
  <2>2. /\ briefs' \in Seq(Brief) /\ Len(briefs') \in Nat /\ Len(briefs) <= Len(briefs')
        /\ DOMAIN briefs \subseteq DOMAIN briefs'
    <3>1. CASE UNCHANGED briefs BY <1>2, <3>1
    <3>2. ASSUME NEW c \in SUBSET Numbers, NEW o \in BOOLEAN,
                 briefs' = Append(briefs, [context |-> c, open |-> o])
          PROVE  /\ briefs' \in Seq(Brief) /\ Len(briefs') = Len(briefs) + 1
                 /\ DOMAIN briefs \subseteq DOMAIN briefs'
      <4>1. [context |-> c, open |-> o] \in Brief BY DEF Brief
      <4> QED BY <3>2, <4>1
    <3>3. \/ UNCHANGED briefs
          \/ \E c \in SUBSET Numbers, o \in BOOLEAN :
               briefs' = Append(briefs, [context |-> c, open |-> o])
      BY <1>3 DEF Moves, Changes, Grows
    <3>4. CASE ~UNCHANGED briefs
      <4>1. /\ briefs' \in Seq(Brief) /\ Len(briefs') = Len(briefs) + 1
            /\ DOMAIN briefs \subseteq DOMAIN briefs'
        BY <3>2, <3>3, <3>4
      <4> QED BY <1>2, <4>1
    <3> QED BY <3>1, <3>4
  <2>3. build' \in {None} \cup [version : DOMAIN briefs', by : Numbers]
    <3>1. CASE UNCHANGED build BY <2>2, <3>1
    <3>2. CASE At(t, "initiate") /\ UNCHANGED briefs
               /\ build' = [version |-> turn[t].version, by |-> turn[t].n]
      BY <1>2, <3>2 DEF At
    <3> QED BY <1>3, <3>1, <3>2 DEF Moves, Builds
  <2>4. ASSUME NEW u \in Requests
        PROVE  /\ turn'[u].brief \in 0..Len(briefs') /\ turn'[u].version \in 0..Len(briefs')
               /\ turn'[u].base \in 0..Len(briefs')
               /\ turn'[u].pc \in {"readiness", "freeze"} => Len(briefs') > 0
               /\ turn'[u].pc \in {"assume", "insert_assumed", "initiate"} =>
                    turn'[u].version > 0
    <3>1. CASE u = t
      BY <1>2, <1>3, <2>2, <3>1 DEF Moves, Changes, Within, Freezes, Freezing
    <3>2. CASE u # t BY <1>2, <1>3, <2>2, <3>2 DEF Moves
    <3> QED BY <3>1, <3>2
  <2> QED BY <1>3, <2>1, <2>2, <2>3, <2>4 DEF Moves
<1>4. ASSUME NEW t \in Requests, Starts(t) PROVE TurnTypes' /\ BriefTypes' /\ OtherTypes'
  <2>1. TurnTypes' BY <1>2, <1>4 DEF Starts, Active
  <2>2. UNCHANGED <<briefs, build>> /\ OtherTypes' BY <1>4 DEF Starts
  <2>3. ASSUME NEW u \in Requests
        PROVE  /\ turn'[u].brief \in 0..Len(briefs) /\ turn'[u].version \in 0..Len(briefs)
               /\ turn'[u].base \in 0..Len(briefs)
               /\ turn'[u].pc \in {"readiness", "freeze"} => Len(briefs) > 0
               /\ turn'[u].pc \in {"assume", "insert_assumed", "initiate"} =>
                    turn'[u].version > 0
    BY <1>2, <1>4 DEF Starts
  <2> QED BY <2>1, <2>2, <2>3
<1>5. ASSUME Outer PROVE TurnTypes' /\ BriefTypes' /\ OtherTypes'
  <2>1. TurnTypes' /\ OtherTypes' BY <1>5 DEF Outer
  <2>2. BriefTypes' BY <1>5 DEF Outer
  <2> QED BY <2>1, <2>2
<1> QED BY <1>1, <1>3, <1>4, <1>5, StepKinds
-----------------------------------------------------------------------------
(* What the steps do to the turns that have met no other. *)

LEMMA ActiveStays ==
  ASSUME NEW t \in Requests, Moves(t), NEW u \in Active'
  PROVE  u \in Active /\ turn'[u].n = turn[u].n
<1>1. CASE u = t
  <2>1. Nothing.pc = "idle" BY DEF Nothing
  <2>2. turn'[t] # Nothing BY <1>1, <2>1 DEF Active, At
  <2> QED BY <1>1, <2>2 DEF Moves, Same, Active, At
<1>2. CASE u # t BY <1>2 DEF Moves, Active, At
<1> QED BY <1>1, <1>2

LEMMA CalmShrinks ==
  ASSUME Types
  PROVE  /\ \A t \in Requests : Moves(t) => Calm' \subseteq Calm
         /\ \A t \in Requests : Starts(t) => Calm' \subseteq Calm \cup {begun'}
         /\ Outer => Calm' \subseteq Calm
<1>1. ASSUME NEW t \in Requests, Moves(t) PROVE Calm' \subseteq Calm
  <2>1. told' \subseteq told \cup {turn[t].n} /\ t \in Active /\ met' = met
    BY <1>1 DEF Moves, Tells, Active, At
  <2>2. \A u \in Active' : u \in Active /\ turn'[u].n = turn[u].n BY <1>1, ActiveStays
  <2>3. {turn'[u].n : u \in Active'} \subseteq {turn[u].n : u \in Active} BY <2>2
  <2>4. Calm' = (told' \cup {turn'[u].n : u \in Active'}) \ met' BY DEF Calm
  <2> QED BY <2>1, <2>3, <2>4 DEF Calm
<1>2. ASSUME NEW t \in Requests, Starts(t) PROVE Calm' \subseteq Calm \cup {begun'}
  <2>1. told' = told /\ met \subseteq met' BY <1>2 DEF Starts
  <2>2. ASSUME NEW u \in Active' PROVE turn'[u].n \in {turn[x].n : x \in Active} \cup {begun'}
    <3>1. CASE u = t BY <1>2, <3>1 DEF Starts
    <3>2. CASE u # t
      <4>1. u \in Active /\ turn'[u] = turn[u] BY <1>2, <2>2, <3>2 DEF Starts, Active, At
      <4> QED BY <4>1
    <3> QED BY <3>1, <3>2
  <2>3. Calm' = (told' \cup {turn'[u].n : u \in Active'}) \ met' BY DEF Calm
  <2> QED BY <2>1, <2>2, <2>3 DEF Calm
<1>3. ASSUME Outer PROVE Calm' \subseteq Calm
  <2>1. told' = told /\ met \subseteq met' /\ Active' = Active /\ turn' = turn
    BY <1>3 DEF Outer, Active, At
  <2> QED BY <2>1 DEF Calm
<1> QED BY <1>1, <1>2, <1>3

\* The briefs change only at the end.
Grown(t) ==
  \E c \in SUBSET Numbers :
    /\ Len(briefs') = Len(briefs) + 1 /\ DOMAIN briefs' = DOMAIN briefs \cup {Len(briefs')}
    /\ \A v \in DOMAIN briefs : briefs'[v] = briefs[v]
    /\ briefs'[Len(briefs')].context = c
    /\ \/ At(t, "insert") /\ c = Context(turn[t].brief) \cup {turn[t].n}
       \/ At(t, "insert_assumed") /\ c = Context(turn[t].version)

LEMMA BriefsGrow ==
  ASSUME Types, NEW t \in Requests, Moves(t)
  PROVE  UNCHANGED briefs \/ Grown(t)
<1>1. CASE ~UNCHANGED briefs
  <2>1. PICK c \in SUBSET Numbers, o \in BOOLEAN :
          /\ briefs' = Append(briefs, [context |-> c, open |-> o])
          /\ \/ At(t, "insert") /\ c = Context(turn[t].brief) \cup {turn[t].n}
             \/ At(t, "insert_assumed") /\ c = Context(turn[t].version)
    BY <1>1 DEF Moves, Changes, Grows
  <2>2. briefs \in Seq(Brief) /\ [context |-> c, open |-> o] \in Brief
    BY DEF Types, BriefTypes, Brief
  <2>3. /\ Len(briefs') = Len(briefs) + 1
        /\ DOMAIN briefs' = DOMAIN briefs \cup {Len(briefs')}
        /\ \A v \in DOMAIN briefs : briefs'[v] = briefs[v]
        /\ briefs'[Len(briefs')] = [context |-> c, open |-> o]
    BY <2>1, <2>2
  <2> QED BY <2>1, <2>3 DEF Grown
<1> QED BY <1>1

\* What is said of a calm turn in a new version was said of it before, or the
\* turn says it now.
LEMMA SaidBefore ==
  ASSUME Types, NEW t \in Requests, Moves(t), ReadFits, FreezeFits, NEW m \in Calm, Said(m)'
  PROVE  Said(m) \/ m = turn[t].n
<1>1. CASE UNCHANGED briefs BY <1>1 DEF Said
<1>2. CASE Grown(t)
  <2>1. PICK v \in DOMAIN briefs' : m \in briefs'[v].context BY DEF Said
  <2>2. CASE v \in DOMAIN briefs BY <1>2, <2>1, <2>2 DEF Grown, Said
  <2>3. CASE v = Len(briefs')
    <3>1. \/ m \in Context(turn[t].brief) \cup {turn[t].n}
          \/ m \in Context(turn[t].version)
      BY <1>2, <2>1, <2>3 DEF Grown
    <3>2. \A w \in 0..Len(briefs) : m \in Context(w) => Said(m)
      BY DEF Context, Said, Types, BriefTypes
    <3> QED BY <3>1, <3>2 DEF Types, BriefTypes
  <2> QED BY <1>2, <2>1, <2>2, <2>3 DEF Grown
<1> QED BY <1>1, <1>2, BriefsGrow

LEMMA OverlapKept ==
  ASSUME Types, Overlap, [Next]_vars
  PROVE  Overlap'
<1>2. ASSUME NEW t \in Requests, Moves(t) PROVE Overlap'
  BY <1>2, ActiveStays DEF Overlap, Moves
<1>3. ASSUME NEW t \in Requests, Starts(t) PROVE Overlap'
  <2>1. ASSUME NEW u \in Active', u # t PROVE u \in Active /\ turn'[u] = turn[u]
    BY <1>3, <2>1 DEF Starts, Active, At
  <2>2. CASE Active = {} BY <2>1, <2>2 DEF Overlap
  <2>3. CASE Active # {}
    <3>1. met' = met \cup {begun'} \cup {turn[u].n : u \in Active} /\ turn'[t].n = begun'
      BY <1>3, <2>3 DEF Starts
    <3> QED BY <2>1, <3>1 DEF Overlap
  <2> QED BY <2>2, <2>3
<1>4. ASSUME Outer PROVE Overlap'
  BY <1>4 DEF Outer, Overlap, Active, At
<1> QED BY <1>2, <1>3, <1>4, StepKinds
-----------------------------------------------------------------------------
(* The numbers, and the build. *)

LEMMA CountedKept ==
  ASSUME Types, Counted, [Next]_vars
  PROVE  Counted'
<1>0. /\ begun \in Nat /\ \A m \in Numbers : m \in Nat
      /\ turn \in [Requests -> Turn] /\ \A u \in Requests : turn[u].n \in Nat
      /\ \A m \in told : m \in Nat
      /\ \A v \in DOMAIN briefs : \A m \in briefs[v].context : m \in Nat
      /\ build # None => build.by \in Nat
  <2>1. \A m \in Numbers : m \in Nat BY ConversationAssumption DEF Numbers
  <2>2. begun \in Nat /\ \A m \in told : m \in Nat BY <2>1 DEF Types, TurnTypes
  <2>3. turn \in [Requests -> Turn] /\ \A u \in Requests : turn[u].n \in Nat
    BY <2>1 DEF Types, TurnTypes, Turn
  <2>4. \A v \in DOMAIN briefs : \A m \in briefs[v].context : m \in Nat
    <3>1. \A v \in DOMAIN briefs : briefs[v] \in Brief BY DEF Types, BriefTypes
    <3> QED BY <2>1, <3>1 DEF Brief
  <2>5. build # None => build.by \in Nat BY <2>1 DEF Types, BriefTypes
  <2> QED BY <2>1, <2>2, <2>3, <2>4, <2>5
<1>1. ASSUME NEW t \in Requests, Moves(t) PROVE Counted'
  <2>1. t \in Active /\ begun' = begun BY <1>1 DEF Moves, Active, At
  <2>2. ASSUME NEW m \in told' PROVE m <= begun
    BY <1>1, <2>1, <2>2 DEF Moves, Tells, Counted
  <2>3. ASSUME NEW v \in DOMAIN briefs', NEW m \in briefs'[v].context PROVE m <= begun
    <3>1. CASE UNCHANGED briefs BY <2>3, <3>1 DEF Counted
    <3>2. CASE Grown(t) /\ v \in DOMAIN briefs BY <2>3, <3>2 DEF Grown, Counted
    <3>3. CASE Grown(t) /\ v \notin DOMAIN briefs
      <4>1. m \in Context(turn[t].brief) \cup {turn[t].n} \cup Context(turn[t].version)
        BY <2>3, <3>3 DEF Grown
      <4>2. \A w \in 0..Len(briefs) : \A x \in Context(w) : x <= begun
        BY DEF Context, Counted, Types, BriefTypes
      <4>3. turn[t].n <= begun BY <2>1 DEF Counted
      <4> QED BY <4>1, <4>2, <4>3 DEF Types, BriefTypes
    <3> QED BY <1>1, <3>1, <3>2, <3>3, BriefsGrow
  <2>4. ASSUME NEW u \in Active' PROVE turn'[u].n <= begun
    BY <1>1, <2>4, ActiveStays DEF Counted
  <2>5. build' # None => build'.by <= begun
    <3>1. CASE UNCHANGED build BY <3>1 DEF Counted
    <3>2. CASE build' = [version |-> turn[t].version, by |-> turn[t].n]
      BY <2>1, <3>2 DEF Counted
    <3> QED BY <1>1, <3>1, <3>2 DEF Moves, Builds
  <2> QED BY <2>1, <2>2, <2>3, <2>4, <2>5 DEF Counted
<1>2. ASSUME NEW t \in Requests, Starts(t) PROVE Counted'
  <2>1. /\ begun' = begun + 1 /\ turn'[t].n = begun' /\ UNCHANGED <<briefs, build, told>>
        /\ \A u \in Requests \ {t} : turn'[u] = turn[u]
    BY <1>2 DEF Starts
  <2>2. \A u \in Active' : turn'[u].n <= begun'
    BY <1>0, <2>1 DEF Active, At, Counted
  <2> QED BY <1>0, <2>1, <2>2 DEF Counted
<1>3. ASSUME Outer PROVE Counted'
  <2>1. UNCHANGED <<briefs, build, turn, begun, told>> BY <1>3 DEF Outer
  <2>2. Active' = Active BY <2>1 DEF Active, At
  <2> QED BY <2>1, <2>2 DEF Counted
<1> QED BY <1>1, <1>2, <1>3, StepKinds

LEMMA KeyedKept ==
  ASSUME Types, Keyed, [Next]_vars
  PROVE  Keyed' /\ (build # None => build' = build)
<1>1. spent \subseteq spent' BY MachineSteps DEF Types
<1>2. ASSUME NEW t \in Requests, Moves(t) PROVE Keyed' /\ (build # None => build' = build)
  BY <1>1, <1>2 DEF Moves, Builds, Keyed
<1>3. ASSUME NEW t \in Requests, Starts(t) PROVE Keyed' /\ (build # None => build' = build)
  BY <1>1, <1>3 DEF Starts, Keyed
<1>4. ASSUME Outer PROVE Keyed' /\ (build # None => build' = build)
  BY <1>1, <1>4 DEF Outer, Keyed
<1> QED BY <1>2, <1>3, <1>4, StepKinds

-----------------------------------------------------------------------------
(* What is said stays in the briefs. *)

LEMMA KeptKept ==
  ASSUME IInv, [Next]_vars
  PROVE  Kept'
<1> USE DEF IInv
<1>1. ASSUME NEW t \in Requests, Moves(t) PROVE Kept'
  <2>1. CASE UNCHANGED briefs BY <1>1, <2>1, CalmShrinks DEF Kept
  <2>2. CASE Grown(t)
    <3> SUFFICES ASSUME NEW m \in Calm', NEW v \in DOMAIN briefs', NEW u \in DOMAIN briefs',
                        v < u, m \in briefs'[v].context
                 PROVE  m \in briefs'[u].context
      BY DEF Kept
    <3>1. m \in Calm BY <1>1, CalmShrinks
    <3>2. /\ DOMAIN briefs' = DOMAIN briefs \cup {Len(briefs) + 1}
          /\ \A w \in DOMAIN briefs : briefs'[w] = briefs[w]
      BY <2>2 DEF Grown
    <3>3. DOMAIN briefs = 1..Len(briefs) /\ Len(briefs) \in Nat BY DEF Types, BriefTypes
    <3>4. v \in DOMAIN briefs BY <3>2, <3>3
    <3>5. m \in briefs[v].context /\ Said(m) BY <3>2, <3>4 DEF Said
    <3>6. CASE u \in DOMAIN briefs BY <3>1, <3>2, <3>4, <3>5, <3>6 DEF Kept
    <3>7. CASE u = Len(briefs')
      <4>1. CASE At(t, "insert")
        <5>1. briefs'[u].context = Context(turn[t].brief) \cup {turn[t].n}
          BY <2>2, <3>7, <4>1 DEF Grown, At
        <5> QED BY <3>1, <3>5, <4>1, <5>1 DEF ReadFits, Reading, At
      <4>2. CASE At(t, "insert_assumed")
        <5>1. briefs'[u].context = Context(turn[t].version)
          BY <2>2, <3>7, <4>2 DEF Grown, At
        <5> QED BY <3>1, <3>5, <4>2, <5>1 DEF FreezeFits, Freezing, At
      <4> QED BY <2>2, <4>1, <4>2 DEF Grown
    <3> QED BY <2>2, <3>6, <3>7 DEF Grown
  <2> QED BY <1>1, <2>1, <2>2, BriefsGrow
<1>2. ASSUME NEW t \in Requests, Starts(t) PROVE Kept'
  <2>1. UNCHANGED briefs /\ begun' = begun + 1 BY <1>2 DEF Starts
  <2>2. \A v \in DOMAIN briefs : begun' \notin briefs[v].context
    BY <2>1, ConversationAssumption DEF Counted, Types, TurnTypes, Numbers
  <2> QED BY <1>2, <2>1, <2>2, CalmShrinks DEF Kept
<1>3. ASSUME Outer PROVE Kept'
  <2>1. UNCHANGED briefs BY <1>3 DEF Outer
  <2> QED BY <1>3, <2>1, CalmShrinks DEF Kept
<1> QED BY <1>1, <1>2, <1>3, StepKinds DEF IInv
\* What every later version keeps is in the latest.
LEMMA LatestKeeps ==
  ASSUME NEW bs \in Seq(Brief), NEW m,
         \A v, u \in DOMAIN bs : v < u /\ m \in bs[v].context => m \in bs[u].context,
         NEW w \in DOMAIN bs, m \in bs[w].context
  PROVE  Len(bs) > 0 /\ m \in bs[Len(bs)].context
<1>1. DOMAIN bs = 1..Len(bs) /\ Len(bs) \in Nat OBVIOUS
<1>2. CASE w = Len(bs) BY <1>1, <1>2
<1>3. CASE w # Len(bs)
  <2>1. w < Len(bs) /\ Len(bs) \in DOMAIN bs BY <1>1, <1>3
  <2> QED BY <1>1, <2>1
<1> QED BY <1>2, <1>3

LEMMA ReadFitsKept ==
  ASSUME IInv, [Next]_vars
  PROVE  ReadFits'
<1> USE DEF IInv
<1>1. ASSUME NEW t \in Requests, Moves(t) PROVE ReadFits'
  <2> SUFFICES ASSUME NEW u \in Requests, turn'[u].pc \in Reading,
                      NEW m \in Calm' \ {turn'[u].n}, Said(m)'
               PROVE  turn'[u].brief # 0 /\ m \in briefs'[turn'[u].brief].context
    BY DEF ReadFits, Context
  <2>0. m \in Calm BY <1>1, CalmShrinks
  <2>1. CASE u = t
    <3>1. UNCHANGED briefs BY <1>1, <2>1 DEF Moves, Changes, Reads
    <3>2. Said(m) BY <3>1 DEF Said
    <3>3. CASE turn'[t].brief = Len(briefs)
      <4>1. Len(briefs) > 0 /\ m \in briefs[Len(briefs)].context
        BY <2>0, <3>2, LatestKeeps DEF Types, BriefTypes, Kept, Said
      <4> QED BY <2>1, <3>1, <3>3, <4>1 DEF Context
    <3>4. CASE turn[t].pc \in Reading /\ turn'[t].brief = turn[t].brief
      <4>1. turn'[t].n = turn[t].n
        <5>1. Nothing.pc \notin Reading BY DEF Nothing, Reading
        <5> QED BY <1>1, <2>1, <5>1 DEF Moves, Same
      <4>2. m \in Context(turn[t].brief) BY <2>0, <2>1, <3>2, <3>4, <4>1 DEF ReadFits
      <4> QED BY <2>1, <3>1, <3>4, <4>2 DEF Context
    <3> QED BY <1>1, <2>1, <3>3, <3>4 DEF Moves, Changes, Reads
  <2>2. CASE u # t
    <3>1. turn'[u] = turn[u] /\ met' = met BY <1>1, <2>2 DEF Moves
    <3>2. u \in Active /\ t \in Active BY <1>1, <3>1 DEF Moves, Active, At, Reading
    <3>3. m # turn[t].n BY <2>0, <2>2, <3>2 DEF Overlap, Calm
    <3>4. Said(m) BY <1>1, <2>0, <3>3, SaidBefore
    <3>5. m \in Context(turn[u].brief) BY <2>0, <3>1, <3>4 DEF ReadFits
    <3>6. turn[u].brief \in DOMAIN briefs => briefs'[turn[u].brief] = briefs[turn[u].brief]
      BY <1>1, BriefsGrow DEF Grown
    <3> QED BY <3>1, <3>5, <3>6 DEF Context, Types, BriefTypes
  <2> QED BY <2>1, <2>2
<1>2. ASSUME NEW t \in Requests, Starts(t) PROVE ReadFits'
  <2> SUFFICES ASSUME NEW u \in Requests, turn'[u].pc \in Reading,
                      NEW m \in Calm' \ {turn'[u].n}, Said(m)'
               PROVE  turn'[u].brief # 0 /\ m \in briefs'[turn'[u].brief].context
    BY DEF ReadFits, Context
  <2>1. UNCHANGED briefs /\ begun' = begun + 1 BY <1>2 DEF Starts
  <2>2. Said(m) BY <2>1 DEF Said
  <2>3. m \in Calm
    <3>1. m # begun'
      BY <2>1, <2>2, ConversationAssumption DEF Said, Counted, Types, TurnTypes, Numbers
    <3> QED BY <1>2, <3>1, CalmShrinks
  <2>4. turn'[u] = turn[u] BY <1>2 DEF Starts, Reading
  <2>5. m \in Context(turn[u].brief) BY <2>2, <2>3, <2>4 DEF ReadFits
  <2> QED BY <2>1, <2>4, <2>5 DEF Context
<1>3. ASSUME Outer PROVE ReadFits'
  <2>1. UNCHANGED <<briefs, turn>> BY <1>3 DEF Outer
  <2> QED BY <1>3, <2>1, CalmShrinks DEF ReadFits, Said, Context
<1> QED BY <1>1, <1>2, <1>3, StepKinds DEF IInv

LEMMA FreezeFitsKept ==
  ASSUME IInv, Kept', BriefTypes', [Next]_vars
  PROVE  FreezeFits'
<1> USE DEF IInv
<1>1. ASSUME NEW t \in Requests, Moves(t) PROVE FreezeFits'
  <2> SUFFICES ASSUME NEW u \in Requests, turn'[u].pc \in Freezing, NEW m \in Calm', Said(m)'
               PROVE  turn'[u].version # 0 /\ m \in briefs'[turn'[u].version].context
    BY DEF FreezeFits, Context
  <2>0. m \in Calm BY <1>1, CalmShrinks
  <2>1. CASE u = t
    <3>1. CASE turn'[t].version = Len(briefs')
      <4>1. m \in briefs'[Len(briefs')].context /\ Len(briefs') > 0
        BY LatestKeeps DEF BriefTypes, Kept, Said
      <4> QED BY <2>1, <3>1, <4>1 DEF Context
    <3>2. CASE /\ UNCHANGED briefs /\ turn[t].pc \in Freezing
               /\ turn'[t].version = turn[t].version
      <4>1. Said(m) BY <3>2 DEF Said
      <4>2. m \in Context(turn[t].version) BY <2>0, <3>2, <4>1 DEF FreezeFits
      <4> QED BY <2>1, <3>2, <4>2 DEF Context
    <3> QED BY <1>1, <2>1, <3>1, <3>2 DEF Moves, Changes, Freezes
  <2>2. CASE u # t
    <3>1. turn'[u] = turn[u] /\ met' = met BY <1>1, <2>2 DEF Moves
    <3>2. u \in Active /\ t \in Active BY <1>1, <3>1 DEF Moves, Active, At, Freezing
    <3>3. m # turn[t].n BY <2>0, <2>2, <3>2 DEF Overlap, Calm
    <3>4. Said(m) BY <1>1, <2>0, <3>3, SaidBefore
    <3>5. m \in Context(turn[u].version) BY <2>0, <3>1, <3>4 DEF FreezeFits
    <3>6. turn[u].version \in DOMAIN briefs =>
          briefs'[turn[u].version] = briefs[turn[u].version]
      BY <1>1, BriefsGrow DEF Grown
    <3> QED BY <3>1, <3>5, <3>6 DEF Context, Types, BriefTypes
  <2> QED BY <2>1, <2>2
<1>2. ASSUME NEW t \in Requests, Starts(t) PROVE FreezeFits'
  <2> SUFFICES ASSUME NEW u \in Requests, turn'[u].pc \in Freezing, NEW m \in Calm', Said(m)'
               PROVE  turn'[u].version # 0 /\ m \in briefs'[turn'[u].version].context
    BY DEF FreezeFits, Context
  <2>1. UNCHANGED briefs /\ begun' = begun + 1 BY <1>2 DEF Starts
  <2>2. Said(m) BY <2>1 DEF Said
  <2>3. m \in Calm
    <3>1. m # begun'
      BY <2>1, <2>2, ConversationAssumption DEF Said, Counted, Types, TurnTypes, Numbers
    <3> QED BY <1>2, <3>1, CalmShrinks
  <2>4. turn'[u] = turn[u] BY <1>2 DEF Starts, Freezing
  <2>5. m \in Context(turn[u].version) BY <2>2, <2>3, <2>4 DEF FreezeFits
  <2> QED BY <2>1, <2>4, <2>5 DEF Context
<1>3. ASSUME Outer PROVE FreezeFits'
  <2>1. UNCHANGED <<briefs, turn>> BY <1>3 DEF Outer
  <2> QED BY <1>3, <2>1, CalmShrinks DEF FreezeFits, Said, Context
<1> QED BY <1>1, <1>2, <1>3, StepKinds DEF IInv
LEMMA BuildFitsKept ==
  ASSUME IInv, [Next]_vars
  PROVE  BuildFits'
<1> USE DEF IInv
<1>1. ASSUME NEW t \in Requests, Moves(t) PROVE BuildFits'
  <2>1. CASE UNCHANGED build /\ build # None
    <3>1. build.version \in DOMAIN briefs BY <2>1 DEF Types, BriefTypes
    <3>2. ASSUME NEW m \in Calm', m < build.by, Said(m)'
          PROVE  m \in briefs'[build.version].context
      <4>1. m \in Calm /\ t \in Active BY <1>1, <3>2, CalmShrinks DEF Moves, Active, At
      <4>2. m # turn[t].n BY <2>1, <3>2, <4>1 DEF BuildFits, Calm
      <4>3. Said(m) BY <1>1, <3>2, <4>1, <4>2, SaidBefore
      <4>4. m \in briefs[build.version].context BY <2>1, <3>2, <4>1, <4>3 DEF BuildFits
      <4>5. briefs'[build.version] = briefs[build.version]
        BY <1>1, <3>1, BriefsGrow DEF Grown
      <4> QED BY <4>4, <4>5
    <3>3. ASSUME NEW u \in Active', turn'[u].n < build.by PROVE turn'[u].n \in met'
      BY <1>1, <2>1, <3>3, ActiveStays DEF BuildFits, Moves
    <3> QED BY <2>1, <3>2, <3>3 DEF BuildFits
  <2>2. CASE ~UNCHANGED build
    <3>1. /\ At(t, "initiate") /\ UNCHANGED briefs
          /\ build' = [version |-> turn[t].version, by |-> turn[t].n]
      BY <1>1, <2>2 DEF Moves, Builds
    <3>2. ASSUME NEW m \in Calm', Said(m)' PROVE m \in briefs'[build'.version].context
      <4>1. m \in Calm /\ Said(m) BY <1>1, <3>1, <3>2, CalmShrinks DEF Said
      <4>2. m \in Context(turn[t].version) BY <3>1, <4>1 DEF FreezeFits, Freezing, At
      <4> QED BY <3>1, <4>2 DEF Context
    <3>3. ASSUME NEW u \in Active', turn'[u].n < build'.by PROVE turn'[u].n \in met'
      <4>1. u \in Active /\ turn'[u].n = turn[u].n /\ t \in Active /\ met' = met
        BY <1>1, <3>3, ActiveStays DEF Moves, Active, At
      <4>2. turn[t].n \in Nat
        BY ConversationAssumption DEF Types, TurnTypes, Turn, Numbers
      <4>3. u # t BY <3>1, <3>3, <4>1, <4>2
      <4> QED BY <4>1, <4>3 DEF Overlap
    <3> QED BY <3>2, <3>3 DEF BuildFits
  <2>3. CASE UNCHANGED build /\ build = None BY <2>3 DEF BuildFits
  <2> QED BY <2>1, <2>2, <2>3
<1>2. ASSUME NEW t \in Requests, Starts(t) PROVE BuildFits'
  <2>1. /\ UNCHANGED <<briefs, build>> /\ begun' = begun + 1 /\ turn'[t].n = begun'
        /\ met \subseteq met' /\ \A u \in Requests \ {t} : turn'[u] = turn[u]
    BY <1>2 DEF Starts
  <2>2. build # None => ~(begun' < build.by)
    BY <2>1, ConversationAssumption DEF Counted, Types, TurnTypes, BriefTypes, Numbers
  <2>3. \A m : Said(m)' <=> Said(m) BY <2>1 DEF Said
  <2>4. ASSUME NEW u \in Active', build # None, turn'[u].n < build.by
        PROVE  turn'[u].n \in met'
    <3>1. u # t BY <2>1, <2>2, <2>4
    <3>2. u \in Active /\ turn'[u] = turn[u] BY <2>1, <2>4, <3>1 DEF Active, At
    <3> QED BY <2>1, <2>4, <3>2 DEF BuildFits
  <2> QED BY <1>2, <2>1, <2>2, <2>3, <2>4, CalmShrinks DEF BuildFits
<1>3. ASSUME Outer PROVE BuildFits'
  <2>1. UNCHANGED <<briefs, build, turn>> /\ met \subseteq met' BY <1>3 DEF Outer
  <2>2. Active' = Active /\ \A m : Said(m)' <=> Said(m) BY <2>1 DEF Active, At, Said
  <2> QED BY <1>3, <2>1, <2>2, CalmShrinks DEF BuildFits
<1> QED BY <1>1, <1>2, <1>3, StepKinds DEF IInv

-----------------------------------------------------------------------------
(* The chat, and the failures. *)

LEMMA ChatFitsKept ==
  ASSUME Types, Overlap, ChatFits, [Next]_vars
  PROVE  ChatFits'
<1>1. ASSUME NEW t \in Requests, Moves(t) PROVE ChatFits'
  <2>0. t \in Active /\ met' = met BY <1>1 DEF Moves, Active, At
  <2>1. CASE UNCHANGED <<chat, told>>
    <3>1. Alone' = Alone BY <2>0, <2>1 DEF Alone
    <3>2. ASSUME NEW u \in Requests, turn'[u].pc \notin {"idle", "chat"}
          PROVE  Alone \subseteq turn'[u].chat
      <4>1. CASE u = t
        <5>1. Nothing.pc = "idle" BY DEF Nothing
        <5>2. Same(t, turn'[t]) BY <1>1, <3>2, <4>1, <5>1 DEF Moves
        <5> QED BY <1>1, <4>1, <5>2 DEF Moves, Same, ChatFits
      <4>2. CASE u # t BY <1>1, <3>2, <4>2 DEF Moves, ChatFits
      <4> QED BY <4>1, <4>2
    <3> QED BY <2>1, <3>1, <3>2 DEF ChatFits
  <2>2. CASE ~UNCHANGED <<chat, told>>
    <3>1. /\ At(t, "store") /\ turn'[t] = Nothing /\ chat' = turn[t].chat \cup {turn[t].n}
          /\ told' = told \cup {turn[t].n}
      BY <1>1, <2>2 DEF Moves, Tells
    <3>2. Alone \subseteq turn[t].chat BY <3>1 DEF ChatFits, At
    <3>3. Alone' \subseteq chat' BY <2>0, <3>1, <3>2 DEF Alone
    <3>4. ASSUME NEW u \in Requests, turn'[u].pc \notin {"idle", "chat"}
          PROVE  Alone' \subseteq turn'[u].chat
      <4>1. u # t BY <3>1, <3>4 DEF Nothing
      <4>2. u \in Active /\ turn'[u] = turn[u] BY <1>1, <3>4, <4>1 DEF Moves, Active, At
      <4>3. turn[t].n \in met BY <2>0, <4>1, <4>2 DEF Overlap
      <4>4. Alone' = Alone BY <2>0, <3>1, <4>3 DEF Alone
      <4> QED BY <3>4, <4>2, <4>4 DEF ChatFits
    <3> QED BY <3>3, <3>4 DEF ChatFits
  <2> QED BY <2>1, <2>2
<1>2. ASSUME NEW t \in Requests, Starts(t) PROVE ChatFits'
  <2>1. /\ Alone' \subseteq Alone /\ chat' = chat
        /\ \A u \in Requests : turn'[u].pc # "chat" => turn'[u] = turn[u]
    BY <1>2 DEF Starts, Alone
  <2> QED BY <2>1 DEF ChatFits
<1>3. ASSUME Outer PROVE ChatFits'
  <2>1. Alone' \subseteq Alone /\ UNCHANGED <<chat, turn>> BY <1>3 DEF Outer, Alone
  <2> QED BY <2>1 DEF ChatFits
<1> QED BY <1>1, <1>2, <1>3, StepKinds

LEMMA CauseKept ==
  ASSUME Types, Overlap, CauseFits, FailsForCause, [Next]_vars
  PROVE  CauseFits' /\ FailsForCause'
<1> USE DEF At
<1>1. ASSUME NEW t \in Requests, Moves(t) PROVE CauseFits' /\ FailsForCause'
  <2>1. ASSUME NEW u \in Requests, u # t, turn'[u].pc # "idle"
        PROVE  turn'[u] = turn[u] /\ turn[u].n \in met'
    <3>1. turn'[u] = turn[u] /\ met' = met BY <1>1, <2>1 DEF Moves
    <3> QED BY <1>1, <2>1, <3>1 DEF Moves, Active, Overlap
  <2>2. turn'[t].pc # "idle" => turn'[t].n = turn[t].n
    <3>1. Nothing.pc = "idle" BY DEF Nothing
    <3> QED BY <1>1, <3>1 DEF Moves, Same
  <2>3. met' = met BY <1>1 DEF Moves
  <2>4. CauseFits' BY <1>1, <2>1 DEF CauseFits, Moves, Changes, Causes
  <2>5. FailsForCause'
    <3>1. turn'[t].pc = "failed" => turn'[t].raised \/ turn'[t].n \in met'
      BY <1>1, <2>2, <2>3 DEF Moves, Changes, Causes, CauseFits
    <3> QED BY <2>1, <3>1 DEF FailsForCause
  <2> QED BY <2>4, <2>5
<1>2. ASSUME NEW t \in Requests, Starts(t) PROVE CauseFits' /\ FailsForCause'
  <2>1. /\ UNCHANGED <<briefs, plan>> /\ met \subseteq met'
        /\ \A u \in Requests : turn'[u].pc # "chat" => turn'[u] = turn[u]
    BY <1>2 DEF Starts
  <2> QED BY <2>1 DEF CauseFits, FailsForCause
<1>3. ASSUME Outer PROVE CauseFits' /\ FailsForCause'
  <2>1. UNCHANGED <<briefs, turn>> /\ met \subseteq met' /\ (plan = "none" => plan' = plan)
    BY <1>3 DEF Outer
  <2> QED BY <2>1 DEF CauseFits, FailsForCause
<1> QED BY <1>1, <1>2, <1>3, StepKinds

-----------------------------------------------------------------------------
(* The theorems. *)

LEMMA InitIInv == Init => IInv
<1> SUFFICES ASSUME Init PROVE IInv OBVIOUS
<1> USE ConversationAssumption DEF Init
<1>1. \A t \in Requests : turn[t] = Nothing OBVIOUS
<1>2. Nothing \in Turn /\ Nothing.pc = "idle" /\ Nothing.brief = 0 /\ Nothing.version = 0
      /\ Nothing.base = 0
  BY NothingType DEF Nothing
<1>3. MachineTypes BY DEF MachineTypes, Workflow!Init, Workflow!NoState, NoState
<1>4. TurnTypes BY <1>1, <1>2 DEF TurnTypes, Numbers
<1>5. BriefTypes BY <1>1, <1>2 DEF BriefTypes
<1>6. OtherTypes BY DEF OtherTypes
<1>7. Active = {} BY <1>1, <1>2 DEF Active, At
<1>8. Calm = {} BY <1>7 DEF Calm
<1>9. Overlap /\ Keyed /\ Counted /\ Kept BY <1>7, <1>8 DEF Overlap, Keyed, Counted, Kept
<1>10. ReadFits /\ FreezeFits /\ BuildFits
  BY <1>1, <1>2 DEF ReadFits, FreezeFits, BuildFits, Reading, Freezing
<1>11. ChatFits /\ CauseFits /\ FailsForCause
  BY <1>1, <1>2 DEF ChatFits, Alone, CauseFits, FailsForCause, At
<1> QED BY <1>3, <1>4, <1>5, <1>6, <1>9, <1>10, <1>11 DEF IInv, Types

\* In every reachable state the types, and what the calm turns have said, are as
\* the inductive invariant has them.  (context_gathering_api.py:101.)
THEOREM ConversationInvariant == Spec => []IInv
<1>1. IInv /\ [Next]_vars => IInv'
  <2> SUFFICES ASSUME IInv, [Next]_vars PROVE IInv' OBVIOUS
  <2>1. Types' BY TypesKept DEF IInv
  <2>2. Overlap' /\ Keyed' /\ Counted' BY OverlapKept, KeyedKept, CountedKept DEF IInv
  <2>3. Kept' /\ ReadFits' BY KeptKept, ReadFitsKept
  <2>4. FreezeFits' BY <2>1, <2>3, FreezeFitsKept DEF Types
  <2>5. BuildFits' BY BuildFitsKept
  <2>6. ChatFits' /\ CauseFits' /\ FailsForCause' BY ChatFitsKept, CauseKept DEF IInv
  <2> QED BY <2>1, <2>2, <2>3, <2>4, <2>5, <2>6 DEF IInv
<1> QED BY InitIInv, <1>1, PTL DEF Spec

\* Every variable keeps its type, for any number of turns and requests.
\* (context_gathering_api.py:101.)
THEOREM ConversationTypes == Spec => []TypeOK
<1>1. IInv => TypeOK BY TypesAreTypeOK DEF IInv
<1> QED BY ConversationInvariant, <1>1, PTL

\* What a turn that met no other has said is in the chat, in every later brief
\* and in the brief of every later build.  (context_gathering_api.py:237.)
THEOREM WhatIsToldIsAlwaysKept == Spec => []WhatIsToldIsKept
<1>1. IInv => WhatIsToldIsKept
  <2> SUFFICES ASSUME IInv PROVE WhatIsToldIsKept OBVIOUS
  <2>1. Alone \subseteq Calm BY DEF Alone, Calm
  <2>2. ASSUME NEW m \in Alone PROVE m \in chat BY DEF IInv, ChatFits
  <2>3. ASSUME NEW m \in Alone, build # None, NEW v \in DOMAIN briefs, m < build.by,
               m \in briefs[v].context
        PROVE  m \in briefs[build.version].context
    BY <2>1, <2>3 DEF IInv, BuildFits, Said
  <2> QED BY <2>1, <2>2, <2>3 DEF IInv, Kept, WhatIsToldIsKept
<1> QED BY ConversationInvariant, <1>1, PTL

\* The dispatch of a turn that meets no other fails only if the store does.
\* (context_builds.py:49.)
THEOREM FailuresHaveCauses == Spec => []FailsForCause
<1>1. IInv => FailsForCause BY DEF IInv
<1> QED BY ConversationInvariant, <1>1, PTL

\* A conversation has one build, and it never changes.  (context_builds.py:55.)
THEOREM ThereIsOneBuild == Spec => OneBuild
<1>1. IInv /\ [Next]_vars => [build # None => build' = build]_vars
  BY KeyedKept DEF IInv
<1> QED BY ConversationInvariant, <1>1, PTL DEF Spec, OneBuild
=============================================================================
