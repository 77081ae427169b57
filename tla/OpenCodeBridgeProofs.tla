------------------------ MODULE OpenCodeBridgeProofs ------------------------
(***************************************************************************)
(* Theorems about the OpenCode bridge, for any number of commands and      *)
(* requests and on both stores: the types, that a reader with a cursor     *)
(* misses no event, and that without cancellation a finished command keeps *)
(* its status.                                                             *)
(*                                                                         *)
(* The inductive invariant says that the log is numbered 1..k without a    *)
(* gap and without a repetition (Log), and what each request in progress   *)
(* knows of it (InCall): it carries a number of at most k + 1, so that the *)
(* only number it can still add is k + 1, which lies after the cursor.     *)
(***************************************************************************)
EXTENDS OpenCodeBridge, FiniteSetTheorems, WellFoundedInduction, TLAPS

Active == {"queued", "leased", "running"}
Statuses == OpenCodeCommandStatus \cup {"absent"}
Labels == {"idle", "number", "append", "lookup", "allocate", "insert event", "bump", "find",
           "insert", "list", "close", "sweep", "take", "overwrite", "claim", "try", "answer",
           "renew", "finish"}
Operations == {"none", "submit", "list", "cancel", "poll", "heartbeat", "ingest", "complete"}
Cancelling == {"close", "sweep", "take", "overwrite"}

CallRecord ==
  [pc : Labels, op : Operations, cmd : Commands \cup {0}, token : Nat, status : Statuses,
   event : [id : EventIds \cup {<<"none", 0>>}, kind : Kinds \cup {"none"}],
   sequence : Nat, tries : 0..3, todo : SUBSET (Commands \cup (Commands \X Active))]

\* What a request c knows when k events are stored and the leases g granted.
InCall(c, k, g) ==
  /\ c \in CallRecord
  /\ (c.pc \in {"number", "append", "lookup", "allocate", "insert event"}) =>
       c.event.id \in EventIds /\ c.event.kind \in Kinds
  /\ (c.pc \in {"append", "insert event"}) => c.sequence \in 1..(k + 1)
  /\ (c.pc = "bump") => c.sequence \in 1..k
  /\ (c.pc \in {"allocate", "insert event"}) => c.tries \in 0..2
  /\ (c.pc \in {"find", "insert", "overwrite", "renew", "finish", "answer"}) =>
       c.cmd \in Commands
  /\ (c.pc \in {"renew", "finish"}) => c.token # 0
  /\ (c.pc = "finish") => c.status \in TERMINAL
  /\ (c.pc \in {"take", "overwrite"}) => c.todo \subseteq Commands
  /\ (c.pc = "try") => c.todo \subseteq Commands \X Active
  /\ (c.pc = "answer") => <<c.cmd, c.token>> \in g
  /\ (c.pc \in Cancelling) => Cancellable

Calls(k) ==
  /\ call \in [Callers -> CallRecord]
  /\ \A p \in Callers : InCall(call[p], k, granted)

Log(k) ==
  /\ events \subseteq [sequence : 1..k, id : EventIds, kind : Kinds]
  /\ \A n \in 1..k : \E e \in events : e.sequence = n
  /\ \A d, e \in events : (d.sequence = e.sequence) => d = e
  /\ nextSequence \in 1..(k + 1)
  /\ cursor \in 0..k /\ seen \subseteq events
  /\ \A e \in events : (e.sequence <= cursor) => e \in seen

\* A finished row bears no lease.
Rows ==
  /\ session \in {"active", "cancelled"}
  /\ row \in [Commands -> StoredCommand]
  /\ \A c \in Commands : (row[c].status \in TERMINAL) => row[c].token = 0 /\ row[c].live = FALSE

Leases ==
  /\ IsFiniteSet(granted) /\ granted \subseteq Commands \X (Nat \ {0})
  /\ held \subseteq granted
  /\ crashes \in 0..MaxCrashes

Good(k) == Rows /\ Leases /\ Log(k) /\ Calls(k)
IInv == \E k \in Nat : Good(k)

\* Request p goes on as a request that InCall describes.
Moves(p, k) == \E c : InCall(c, k, granted') /\ Set(p, c)

-----------------------------------------------------------------------------
(* The requests. *)

LEMMA IdleOK == ASSUME NEW k \in Nat, NEW g PROVE InCall(Idle, k, g)
<1>1. Idle \in CallRecord
  BY DEF Idle, NoEvent, CallRecord, Labels, Operations, Statuses
<1> QED BY <1>1 DEF Idle, InCall, Cancelling

LEMMA ReturnMoves ==
  ASSUME NEW p \in Callers, NEW k \in Nat, Return(p)
  PROVE  Moves(p, k)
BY IdleOK DEF Return, Moves

LEMMA ListMoves ==
  ASSUME NEW p \in Callers, NEW k \in Nat, call[p] \in CallRecord, Goto(p, "list")
  PROVE  Moves(p, k)
<1> DEFINE c == [call[p] EXCEPT !.pc = "list"]
<1>1. InCall(c, k, granted') BY DEF InCall, CallRecord, Labels, Cancelling
<1> QED BY <1>1 DEF Goto, Moves

LEMMA RecordedMoves ==
  ASSUME NEW p \in Callers, NEW k \in Nat, call[p] \in CallRecord, Recorded(p)
  PROVE  Moves(p, k)
BY ReturnMoves, ListMoves DEF Recorded

LEMMA RecordMoves ==
  ASSUME NEW p \in Callers, NEW k \in Nat, call[p] \in CallRecord,
         NEW id \in EventIds, NEW kind \in Kinds, Record(p, id, kind)
  PROVE  Moves(p, k)
<1> DEFINE c == [call[p] EXCEPT !.pc = "number", !.event = [id |-> id, kind |-> kind]]
<1>1. InCall(c, k, granted') BY DEF InCall, CallRecord, Labels, Cancelling
<1> QED BY <1>1 DEF Record, Moves

LEMMA BeginRecordMoves ==
  ASSUME NEW p \in Callers, NEW k \in Nat, NEW op \in Operations,
         NEW id \in EventIds, NEW kind \in Kinds, BeginRecord(p, op, id, kind)
  PROVE  Moves(p, k)
<1> DEFINE c == [Idle EXCEPT !.pc = "number", !.op = op,
                             !.event = [id |-> id, kind |-> kind]]
<1>1. Idle \in CallRecord BY IdleOK DEF InCall
<1>2. InCall(c, k, granted')
  BY <1>1 DEF InCall, CallRecord, Labels, Cancelling
<1> QED BY <1>2 DEF BeginRecord, Moves

LEMMA BeginMoves ==
  ASSUME NEW p \in Callers, NEW k \in Nat, NEW l \in Labels, NEW op \in Operations,
         NEW c \in Commands \cup {0}, NEW t \in Nat, NEW s \in Statuses,
         l \in {"find", "list", "close", "claim", "renew", "finish"},
         l \in {"find", "renew", "finish"} => c \in Commands,
         l \in {"renew", "finish"} => t # 0,
         l = "finish" => s \in TERMINAL, l = "close" => Cancellable,
         Begin(p, l, op, c, t, s)
  PROVE  Moves(p, k)
<1> DEFINE d == [Idle EXCEPT !.pc = l, !.op = op, !.cmd = c, !.token = t, !.status = s]
<1>1. InCall(Idle, k, granted') BY IdleOK
<1>2. InCall(d, k, granted')
  BY <1>1 DEF InCall, CallRecord, Cancelling
<1> QED BY <1>2 DEF Begin, Moves

LEMMA InCallGrows ==
  ASSUME NEW k \in Nat, NEW m \in Nat, k <= m, NEW g, NEW h, g \subseteq h,
         NEW c, InCall(c, k, g)
  PROVE  InCall(c, m, h)
<1>1. (c.pc \in {"append", "insert event"}) => c.sequence \in 1..(m + 1)
  <2>1. (c.pc \in {"append", "insert event"}) => c.sequence \in 1..(k + 1) BY DEF InCall
  <2>2. 1..(k + 1) \subseteq 1..(m + 1) OBVIOUS
  <2> QED BY <2>1, <2>2
<1>2. (c.pc = "bump") => c.sequence \in 1..m BY DEF InCall, CallRecord
<1>3. (c.pc = "answer") => <<c.cmd, c.token>> \in h BY DEF InCall
<1> QED BY <1>1, <1>2, <1>3 DEF InCall

\* A request that moves keeps what the others know, as the log grows.
LEMMA MovesKeep ==
  ASSUME NEW p \in Callers, NEW k \in Nat, NEW m \in Nat, k <= m, Calls(k),
         granted \subseteq granted', Moves(p, m)
  PROVE  Calls(m)'
<1>1. PICK c : InCall(c, m, granted') /\ Set(p, c) BY DEF Moves
<1>2. ASSUME NEW q \in Callers PROVE InCall(call[q], m, granted')
  BY <1>2, InCallGrows DEF Calls
<1>3. call' = [call EXCEPT ![p] = c] BY <1>1 DEF Set
<1>4. c \in CallRecord BY <1>1 DEF InCall
<1>5. call' \in [Callers -> CallRecord] BY <1>3, <1>4 DEF Calls
<1>6. ASSUME NEW q \in Callers PROVE InCall(call'[q], m, granted')
  <2>1. call'[q] = IF q = p THEN c ELSE call[q] BY <1>3 DEF Calls
  <2> QED BY <2>1, <1>1, <1>2
<1> QED BY <1>5, <1>6 DEF Calls

-----------------------------------------------------------------------------
(* The log. *)

\* A bounded set of natural numbers that is not empty has a greatest one.
LEMMA Greatest ==
  ASSUME NEW k \in Nat, NEW T, T \subseteq 0..k, T # {}
  PROVE  \E n \in T : \A m \in T : m <= n
<1> DEFINE U == {k - n : n \in T}
<1>1. U \subseteq Nat /\ U # {}
  <2>1. \A n \in T : n \in 0..k /\ k - n \in Nat OBVIOUS
  <2>2. PICK n \in T : TRUE OBVIOUS
  <2>3. k - n \in U BY <2>2
  <2> QED BY <2>1, <2>3
<1>2. PICK x \in U : \A y \in U : ~(<<y, x>> \in OpToRel(<, Nat))
  BY <1>1, WFMin, NatLessThanWellFounded
<1>3. \A y \in U : ~(y < x) BY <1>1, <1>2 DEF OpToRel
<1>4. PICK n \in T : x = k - n OBVIOUS
<1>5. ASSUME NEW m \in T PROVE m <= n
  <2>1. k - m \in U OBVIOUS
  <2>2. ~(k - m < k - n) BY <2>1, <1>3, <1>4
  <2>3. m \in 0..k /\ n \in 0..k BY <1>4
  <2> HIDE DEF U
  <2> QED BY <2>2, <2>3
<1> QED BY <1>5

LEMMA LatestIs ==
  ASSUME NEW k \in Nat, Log(k) PROVE Latest = k
<1>1. \A e \in events : e.sequence \in 1..k BY DEF Log
<1>2. CASE events = {}
  <2>1. k = 0
    <3>1. SUFFICES ASSUME k # 0 PROVE FALSE OBVIOUS
    <3>2. k \in 1..k BY <3>1
    <3> QED BY <3>2, <1>2 DEF Log
  <2> QED BY <2>1, <1>2 DEF Latest
<1>3. CASE events # {}
  <2> DEFINE T == {e.sequence : e \in events}
  <2>1. k \in 1..k BY <1>1, <1>3
  <2>2. PICK d \in events : d.sequence = k BY <2>1 DEF Log
  <2>3. k \in T /\ \A e \in events : e.sequence <= k BY <2>2, <1>1
  <2>4. \A n \in T : (\A e \in events : e.sequence <= n) => n = k
    BY <2>2, <1>1
  <2>5. (CHOOSE n \in T : \A e \in events : e.sequence <= n) = k BY <2>3, <2>4
  <2> QED BY <2>5, <1>3 DEF Latest
<1> QED BY <1>2, <1>3

\* The only free number that a request can carry is the next one.
LEMMA LogGrows ==
  ASSUME NEW k \in Nat, NEW p \in Callers, Log(k),
         call[p].sequence \in 1..(k + 1),
         call[p].event.id \in EventIds, call[p].event.kind \in Kinds,
         \A e \in events : e.sequence # call[p].sequence,
         events' = events \cup {EventRow(p, call[p].sequence)},
         \/ nextSequence' = nextSequence
         \/ nextSequence' = AtLeast(nextSequence, call[p].sequence + 1),
         UNCHANGED <<cursor, seen>>
  PROVE  call[p].sequence = k + 1 /\ Log(k + 1)'
<1> DEFINE new == EventRow(p, call[p].sequence)
<1>1. call[p].sequence = k + 1
  <2>1. ASSUME call[p].sequence \in 1..k PROVE FALSE BY <2>1 DEF Log
  <2> QED BY <2>1
<1>2. new.sequence = k + 1 /\ new \in [sequence : 1..(k + 1), id : EventIds, kind : Kinds]
  BY <1>1 DEF EventRow
<1>3. \A e \in events : e.sequence \in 1..k BY DEF Log
<1>4. (events \subseteq [sequence : 1..(k + 1), id : EventIds, kind : Kinds])'
  <2>1. \A e \in events : e \in [sequence : 1..(k + 1), id : EventIds, kind : Kinds]
    BY DEF Log
  <2> QED BY <2>1, <1>2
<1>5. \A n \in 1..(k + 1) : \E e \in events' : e.sequence = n
  <2> TAKE n \in 1..(k + 1)
  <2>1. CASE n = k + 1 BY <2>1, <1>2
  <2>2. CASE n \in 1..k BY <2>2 DEF Log
  <2> QED BY <2>1, <2>2
<1>6. \A d, e \in events' : (d.sequence = e.sequence) => d = e
  <2> HIDE DEF new
  <2> QED BY <1>2, <1>3 DEF Log, new
<1>7. nextSequence' \in 1..(k + 2) BY <1>1 DEF AtLeast, Log
<1>8. cursor' \in 0..(k + 1) /\ seen' \subseteq events' BY DEF Log
<1>9. \A e \in events' : (e.sequence <= cursor') => e \in seen'
  <2>1. cursor' \in 0..k /\ seen' = seen BY DEF Log
  <2> QED BY <2>1, <1>2 DEF Log
<1> QED BY <1>1, <1>4, <1>5, <1>6, <1>7, <1>8, <1>9 DEF Log

LEMMA PageKeeps ==
  ASSUME NEW k \in Nat, Log(k), NEW p \in Callers, Page(p)
  PROVE  Log(k)'
<1>1. PICK P \in SUBSET {e \in events : e.sequence > cursor} :
        /\ \A e \in P, d \in events \ P : d.sequence > cursor => e.sequence <= d.sequence
        /\ seen' = seen \cup P
        /\ cursor' = IF P = {} THEN cursor
                     ELSE CHOOSE n \in {e.sequence : e \in P} : \A e \in P : e.sequence <= n
  BY DEF Page
<1>2. UNCHANGED <<events, nextSequence>> BY DEF Page, store
<1>3. \A e \in events : e.sequence \in 1..k BY DEF Log
<1>4. CASE P = {} BY <1>1, <1>2, <1>4 DEF Log
<1>5. CASE P # {}
  <2> DEFINE T == {e.sequence : e \in P}
  <2>1. T \subseteq 0..k /\ T # {} BY <1>1, <1>3, <1>5
  <2>2. \E n \in T : \A m \in T : m <= n BY <2>1, Greatest
  <2>3. \E n \in T : \A e \in P : e.sequence <= n BY <2>2
  <2>4. cursor' \in T /\ \A e \in P : e.sequence <= cursor' BY <1>1, <1>5, <2>3
  <2>5. PICK x \in P : x.sequence = cursor' BY <2>4
  <2>6. cursor' \in 0..k BY <2>1, <2>4
  <2>7. seen' \subseteq events' BY <1>1, <1>2 DEF Log
  <2>8. ASSUME NEW e \in events, e.sequence <= cursor', e \notin P PROVE e \in seen
    <3>1. CASE e.sequence <= cursor BY <3>1 DEF Log
    <3>2. CASE e.sequence > cursor
      <4>1. x.sequence <= e.sequence BY <3>2, <2>8, <1>1
      <4>2. x.sequence = e.sequence /\ x \in events BY <4>1, <2>5, <2>8, <1>3, <1>1
      <4>3. x = e BY <4>2 DEF Log
      <4> QED BY <4>3, <2>8
    <3> QED BY <3>1, <3>2, <1>3 DEF Log
  <2>9. \A e \in events' : (e.sequence <= cursor') => e \in seen' BY <2>8, <1>1, <1>2
  <2> QED BY <2>6, <2>7, <2>9, <1>2 DEF Log
<1> QED BY <1>4, <1>5

-----------------------------------------------------------------------------
(* The steps that change only what one request knows. *)

LEMMA CallStep ==
  ASSUME NEW k \in Nat, Good(k), NEW p \in Callers,
         UNCHANGED <<store, clients>>, Moves(p, k)
  PROVE  IInv'
<1>1. Calls(k)' BY MovesKeep DEF Good, clients
<1>2. Log(k)' BY DEF Good, Log, store, clients
<1>3. Rows' BY DEF Good, Rows, store
<1>4. Leases' BY DEF Good, Leases, clients
<1> QED BY <1>1, <1>2, <1>3, <1>4 DEF IInv, Good

LEMMA NumberStep ==
  ASSUME NEW k \in Nat, Good(k), NEW p \in Callers, Number(p) PROVE IInv'
<1> DEFINE l == IF Backend = "sqlite" THEN "append" ELSE "lookup"
           c == [call[p] EXCEPT !.sequence = nextSequence, !.pc = l]
<1>1. call[p] \in CallRecord /\ InCall(call[p], k, granted) /\ call[p].pc = "number"
  BY DEF Number, At, Good, Calls
<1>2. nextSequence \in 1..(k + 1) /\ nextSequence \in Nat BY DEF Good, Log
<1>3. l \in {"append", "lookup"} OBVIOUS
<1> HIDE DEF l
<1>4. c \in CallRecord BY <1>1, <1>2, <1>3 DEF CallRecord, Labels
<1>5. c.pc = l /\ c.sequence = nextSequence /\ c.event = call[p].event
  BY <1>1 DEF CallRecord
<1>6. InCall(c, k, granted')
  <2> HIDE DEF c
  <2> QED BY <1>1, <1>2, <1>3, <1>4, <1>5 DEF InCall, Cancelling
<1>7. Moves(p, k) BY <1>6 DEF Moves, Number, l
<1> QED BY <1>7, CallStep DEF Number

LEMMA LookupStep ==
  ASSUME NEW k \in Nat, Good(k), NEW p \in Callers, Lookup(p) PROVE IInv'
<1>1. call[p] \in CallRecord /\ InCall(call[p], k, granted) /\ call[p].pc = "lookup"
  BY DEF Lookup, At, Good, Calls
<1>2. ASSUME call[p].tries # 3, Goto(p, "allocate") PROVE Moves(p, k)
  <2> DEFINE c == [call[p] EXCEPT !.pc = "allocate"]
  <2>1. c \in CallRecord BY <1>1 DEF CallRecord, Labels
  <2>2. c.pc = "allocate" /\ c.event = call[p].event /\ c.tries = call[p].tries
    BY <1>1 DEF CallRecord
  <2>3. call[p].tries \in 0..2 BY <1>1, <1>2 DEF CallRecord
  <2>4. InCall(c, k, granted')
    <3> HIDE DEF c
    <3> QED BY <1>1, <2>1, <2>2, <2>3 DEF InCall, Cancelling
  <2> QED BY <1>2, <2>4 DEF Moves, Goto
<1>3. Moves(p, k) BY <1>1, <1>2, RecordedMoves, ReturnMoves DEF Lookup
<1> QED BY <1>3, CallStep DEF Lookup

LEMMA AllocateStep ==
  ASSUME NEW k \in Nat, Good(k), NEW p \in Callers, Allocate(p) PROVE IInv'
<1> DEFINE n == AtLeast(nextSequence, Latest + 1)
           c == [call[p] EXCEPT !.pc = "insert event", !.sequence = n]
<1>1. call[p] \in CallRecord /\ InCall(call[p], k, granted) /\ call[p].pc = "allocate"
  BY DEF Allocate, At, Good, Calls
<1>2. n = k + 1
  <2>1. Latest = k BY LatestIs DEF Good
  <2>2. nextSequence \in 1..(k + 1) BY DEF Good, Log
  <2> QED BY <2>1, <2>2 DEF AtLeast
<1> HIDE DEF n
<1>3. n \in Nat /\ n \in 1..(k + 1) BY <1>2
<1>4. c \in CallRecord /\ c.pc = "insert event" /\ c.sequence = n
        /\ c.event = call[p].event /\ c.tries = call[p].tries
  BY <1>1, <1>3 DEF CallRecord, Labels
<1>5. InCall(c, k, granted')
  <2> HIDE DEF c
  <2> QED BY <1>1, <1>3, <1>4 DEF InCall, Cancelling
<1>6. Moves(p, k) BY <1>5 DEF Moves, Allocate, n
<1> QED BY <1>6, CallStep DEF Allocate

LEMMA FindCommandStep ==
  ASSUME NEW k \in Nat, Good(k), NEW p \in Callers, FindCommand(p) PROVE IInv'
<1>1. call[p] \in CallRecord /\ InCall(call[p], k, granted) /\ call[p].pc = "find"
  BY DEF FindCommand, At, Good, Calls
<1>2. call[p].cmd \in Commands BY <1>1 DEF InCall
<1>3. ASSUME Goto(p, "insert") PROVE Moves(p, k)
  <2> DEFINE c == [call[p] EXCEPT !.pc = "insert"]
  <2>1. c \in CallRecord BY <1>1 DEF CallRecord, Labels
  <2>2. c.pc = "insert" /\ c.cmd = call[p].cmd BY <1>1 DEF CallRecord
  <2>3. InCall(c, k, granted')
    <3> HIDE DEF c
    <3> QED BY <1>2, <2>1, <2>2 DEF InCall, Cancelling
  <2> QED BY <1>3, <2>3 DEF Moves, Goto
<1>4. <<"queued", call[p].cmd>> \in EventIds /\ "queued" \in Kinds
  BY <1>2 DEF EventIds, Kinds
<1>5. Moves(p, k) BY <1>1, <1>3, <1>4, RecordMoves DEF FindCommand
<1> QED BY <1>5, CallStep DEF FindCommand

LEMMA BeginSteps ==
  ASSUME NEW k \in Nat, Good(k), NEW p \in Callers,
         \/ \E c \in Commands : Submit(p, c) \/ CompleteHeld(p, c)
         \/ List(p) \/ CancelSession(p) \/ Poll(p) \/ Connect(p)
  PROVE  IInv'
<1> DEFINE Same == UNCHANGED <<store, clients>>
<1>0. "absent" \in Statuses /\ {"find", "list", "close", "claim", "renew", "finish"} \subseteq Labels
  BY DEF Statuses, Labels
<1>1. held \subseteq Commands \X (Nat \ {0}) BY DEF Good, Leases
<1>2. ASSUME NEW c \in Commands, Submit(p, c) PROVE Moves(p, k) /\ Same
  BY <1>0, <1>2, BeginMoves DEF Submit, Operations
<1>3. ASSUME List(p) PROVE Moves(p, k) /\ Same
  <2>1. <<"unavailable", 0>> \in EventIds /\ "unavailable" \in Kinds BY DEF EventIds, Kinds
  <2>2. "list" \in Operations BY DEF Operations
  <2> QED BY <1>0, <1>3, <2>1, <2>2, BeginMoves, BeginRecordMoves DEF List
<1>4. ASSUME CancelSession(p) PROVE Moves(p, k) /\ Same
  BY <1>0, <1>4, BeginMoves DEF CancelSession, Operations
<1>5. ASSUME Poll(p) PROVE Moves(p, k) /\ Same
  BY <1>0, <1>5, BeginMoves DEF Poll, Operations
<1>6. ASSUME Connect(p) PROVE Moves(p, k) /\ Same
  <2>1. PICK l \in held : \/ Heartbeat(p, l[1], l[2])
                          \/ \E e \in Reports : IngestEvent(p, l[1], l[2], e)
    BY <1>6 DEF Connect
  <2>2. l[1] \in Commands /\ l[2] \in Nat \ {0} BY <1>1
  <2>3. ASSUME Heartbeat(p, l[1], l[2]) PROVE Moves(p, k) /\ Same
    BY <1>0, <2>2, <2>3, BeginMoves DEF Heartbeat, Operations
  <2>4. ASSUME NEW e \in Reports, IngestEvent(p, l[1], l[2], e) PROVE Moves(p, k) /\ Same
    <3>1. <<"report", e>> \in EventIds /\ "progress" \in Kinds BY DEF EventIds, Kinds
    <3>2. "ingest" \in Operations BY DEF Operations
    <3> QED BY <2>4, <3>1, <3>2, BeginRecordMoves DEF IngestEvent
  <2> QED BY <2>1, <2>3, <2>4
<1>7. ASSUME NEW c \in Commands, CompleteHeld(p, c) PROVE Moves(p, k) /\ Same
  <2>1. PICK l \in held, s \in Outcomes : Complete(p, c, l[2], s)
    BY <1>7 DEF CompleteHeld
  <2>2. l[2] \in Nat \ {0} BY <1>1
  <2>3. s \in TERMINAL /\ s \in Kinds /\ s \in Statuses
    BY BridgeAssumption DEF TERMINAL, Kinds, Statuses, OpenCodeCommandStatus
  <2>4. <<"terminal", c>> \in EventIds BY DEF EventIds
  <2>5. "complete" \in Operations BY DEF Operations
  <2> QED BY <1>0, <2>1, <2>2, <2>3, <2>4, <2>5, BeginMoves, BeginRecordMoves DEF Complete
<1>8. Moves(p, k) /\ Same BY <1>2, <1>3, <1>4, <1>5, <1>6, <1>7
<1> QED BY <1>8, CallStep

LEMMA SweepSteps ==
  ASSUME NEW k \in Nat, Good(k), NEW p \in Callers, Sweep(p) \/ TakeCommand(p) PROVE IInv'
<1>1. call[p] \in CallRecord /\ InCall(call[p], k, granted)
  BY DEF Good, Calls
<1>2. ASSUME Sweep(p) PROVE Moves(p, k)
  <2> DEFINE t == {c \in Commands : row[c].status \notin TERMINAL \cup {"absent"}}
             d == [call[p] EXCEPT !.pc = "take", !.todo = t]
  <2>1. t \subseteq Commands OBVIOUS
  <2> HIDE DEF t
  <2>2. d \in CallRecord BY <1>1, <2>1 DEF CallRecord, Labels
  <2>3. d.pc = "take" /\ d.todo = t BY <1>1 DEF CallRecord
  <2>4. Cancellable BY <1>1, <1>2 DEF Sweep, At, InCall, Cancelling
  <2>5. InCall(d, k, granted')
    <3> HIDE DEF d
    <3> QED BY <2>1, <2>2, <2>3, <2>4 DEF InCall
  <2>6. Set(p, d) BY <1>2 DEF Sweep, t
  <2> QED BY <2>5, <2>6 DEF Moves
<1>3. ASSUME TakeCommand(p) PROVE Moves(p, k)
  <2>1. Cancellable /\ call[p].todo \subseteq Commands
    BY <1>1, <1>3 DEF TakeCommand, At, InCall, Cancelling
  <2>2. <<"session", 0>> \in EventIds /\ "cancelled" \in Kinds
    BY DEF EventIds, Kinds, TERMINAL
  <2>3. ASSUME NEW c \in call[p].todo,
               Set(p, [call[p] EXCEPT !.todo = call[p].todo \ {c}, !.cmd = c,
                         !.pc = IF row[c].status \in TERMINAL THEN "take" ELSE "overwrite"])
        PROVE  Moves(p, k)
    <3> DEFINE l == IF row[c].status \in TERMINAL THEN "take" ELSE "overwrite"
               d == [call[p] EXCEPT !.todo = call[p].todo \ {c}, !.cmd = c, !.pc = l]
    <3>1. l \in {"take", "overwrite"} /\ c \in Commands BY <2>1
    <3> HIDE DEF l
    <3>2. d \in CallRecord BY <1>1, <2>1, <3>1 DEF CallRecord, Labels
    <3>3. d.pc = l /\ d.cmd = c /\ d.todo \subseteq Commands BY <1>1, <2>1 DEF CallRecord
    <3>4. InCall(d, k, granted')
      <4> HIDE DEF d
      <4> QED BY <2>1, <3>1, <3>2, <3>3 DEF InCall
    <3>5. Set(p, d) BY <2>3 DEF l
    <3> QED BY <3>4, <3>5 DEF Moves
  <2> QED BY <1>1, <1>3, <2>2, <2>3, RecordMoves DEF TakeCommand
<1> QED BY <1>2, <1>3, CallStep DEF Sweep, TakeCommand

LEMMA SelectRowsStep ==
  ASSUME NEW k \in Nat, Good(k), NEW p \in Callers, SelectRows(p) PROVE IInv'
<1> DEFINE t == {<<c, row[c].status>> : c \in {d \in Commands : Eligible(row[d])}}
           e == [call[p] EXCEPT !.pc = "try", !.todo = t]
<1>1. call[p] \in CallRecord BY DEF Good, Calls
<1>2. t \subseteq Commands \X Active BY DEF Eligible, Active
<1> HIDE DEF t
<1>3. e \in CallRecord BY <1>1, <1>2 DEF CallRecord, Labels
<1>4. e.pc = "try" /\ e.todo = t BY <1>1 DEF CallRecord
<1>5. InCall(e, k, granted')
  <2> HIDE DEF e
  <2> QED BY <1>2, <1>3, <1>4 DEF InCall, Cancelling
<1>6. Moves(p, k) BY <1>5 DEF Moves, SelectRows, t
<1> QED BY <1>6, CallStep DEF SelectRows

-----------------------------------------------------------------------------
(* The steps that change the log. *)

\* What a step has to establish of the parts that it changes.
LEMMA LogStep ==
  ASSUME NEW k \in Nat, Good(k), NEW p \in Callers, NEW m \in Nat, k <= m,
         UNCHANGED <<session, row, granted, held, crashes>>, Moves(p, m), Log(m)'
  PROVE  IInv'
<1>1. Calls(m)' BY MovesKeep DEF Good
<1>2. Rows' BY DEF Good, Rows
<1>3. Leases' BY DEF Good, Leases
<1> QED BY <1>1, <1>2, <1>3 DEF IInv, Good

LEMMA AppendStep ==
  ASSUME NEW k \in Nat, Good(k), NEW p \in Callers, Append(p) PROVE IInv'
<1>1. call[p] \in CallRecord /\ InCall(call[p], k, granted) /\ call[p].pc = "append"
  BY DEF Append, At, Good, Calls
<1>2. CASE UNCHANGED <<events, nextSequence>>
  <2>1. Moves(p, k) BY <1>1, RecordedMoves, ReturnMoves DEF Append
  <2>2. Log(k)' BY <1>2 DEF Append, clients, Good, Log
  <2> QED BY <2>1, <2>2, LogStep DEF Append, clients
<1>3. CASE /\ \A e \in events : e.sequence # call[p].sequence
           /\ events' = events \cup {EventRow(p, call[p].sequence)}
           /\ nextSequence' = AtLeast(nextSequence, call[p].sequence + 1)
           /\ Recorded(p)
  <2>1. call[p].sequence \in 1..(k + 1) /\ call[p].event.id \in EventIds
          /\ call[p].event.kind \in Kinds
    BY <1>1 DEF InCall
  <2>2. Log(k + 1)' BY <1>3, <2>1, LogGrows DEF Append, clients, Good
  <2>3. Moves(p, k + 1) BY <1>1, <1>3, RecordedMoves
  <2> QED BY <2>2, <2>3, LogStep DEF Append, clients
<1> QED BY <1>2, <1>3 DEF Append

LEMMA InsertEventStep ==
  ASSUME NEW k \in Nat, Good(k), NEW p \in Callers, InsertEvent(p) PROVE IInv'
<1>1. call[p] \in CallRecord /\ InCall(call[p], k, granted) /\ call[p].pc = "insert event"
  BY DEF InsertEvent, At, Good, Calls
<1>2. /\ call[p].sequence \in 1..(k + 1) /\ call[p].event.id \in EventIds
      /\ call[p].event.kind \in Kinds /\ call[p].tries \in 0..2
  BY <1>1 DEF InCall
<1>0. UNCHANGED <<session, row, nextSequence, granted, held, cursor, seen, crashes>>
  BY DEF InsertEvent, clients
<1>3. CASE \E e \in events : e.id = call[p].event.id \/ e.sequence = call[p].sequence
  <2> DEFINE n == call[p].tries + 1
             c == [call[p] EXCEPT !.pc = "lookup", !.tries = n]
  <2>1. n \in 0..3 BY <1>2
  <2>2. Set(p, c) /\ UNCHANGED events BY <1>3 DEF InsertEvent
  <2> HIDE DEF n
  <2>3. c \in CallRecord BY <1>1, <2>1 DEF CallRecord, Labels
  <2>4. c.pc = "lookup" /\ c.event = call[p].event BY <1>1 DEF CallRecord
  <2>5. InCall(c, k, granted')
    <3> HIDE DEF c
    <3> QED BY <1>2, <2>3, <2>4 DEF InCall, Cancelling
  <2>6. Moves(p, k) BY <2>2, <2>5 DEF Moves
  <2>7. Log(k)' BY <1>0, <2>2 DEF Good, Log
  <2> QED BY <1>0, <2>6, <2>7, LogStep
<1>4. CASE ~ \E e \in events : e.id = call[p].event.id \/ e.sequence = call[p].sequence
  <2> DEFINE c == [call[p] EXCEPT !.pc = "bump"]
  <2>1. events' = events \cup {EventRow(p, call[p].sequence)} /\ Goto(p, "bump")
    BY <1>4 DEF InsertEvent
  <2>2. Set(p, c) BY <2>1 DEF Goto
  <2>3. Log(k + 1)' BY <1>0, <1>2, <1>4, <2>1, LogGrows DEF Good
  <2>4. c \in CallRecord BY <1>1 DEF CallRecord, Labels
  <2>5. c.pc = "bump" /\ c.sequence = call[p].sequence BY <1>1 DEF CallRecord
  <2>6. InCall(c, k + 1, granted')
    <3> HIDE DEF c
    <3> QED BY <1>2, <2>4, <2>5 DEF InCall, Cancelling
  <2>7. Moves(p, k + 1) BY <2>2, <2>6 DEF Moves
  <2> QED BY <1>0, <2>3, <2>7, LogStep
<1> QED BY <1>3, <1>4

LEMMA BumpStep ==
  ASSUME NEW k \in Nat, Good(k), NEW p \in Callers, Bump(p) PROVE IInv'
<1>1. call[p] \in CallRecord /\ InCall(call[p], k, granted) /\ call[p].pc = "bump"
  BY DEF Bump, At, Good, Calls
<1>2. call[p].sequence \in 1..k BY <1>1 DEF InCall
<1>3. nextSequence \in 1..(k + 1) BY DEF Good, Log
<1>4. nextSequence' \in 1..(k + 1) BY <1>2, <1>3 DEF Bump, AtLeast
<1>5. Log(k)' BY <1>4 DEF Bump, clients, Good, Log
<1>6. Moves(p, k) BY <1>1, RecordedMoves DEF Bump
<1> QED BY <1>5, <1>6, LogStep DEF Bump, clients

LEMMA PageStep ==
  ASSUME NEW k \in Nat, Good(k), NEW p \in Callers, Page(p) PROVE IInv'
<1>1. Log(k)' BY PageKeeps DEF Good
<1>2. Moves(p, k) BY ReturnMoves DEF Page
<1> QED BY <1>1, <1>2, LogStep DEF Page, store

-----------------------------------------------------------------------------
(* The steps that change a row or a lease. *)

LEMMA RowStep ==
  ASSUME NEW k \in Nat, Good(k), NEW p \in Callers,
         UNCHANGED <<events, nextSequence, cursor, seen>>,
         granted \subseteq granted', Rows', Leases', Moves(p, k)
  PROVE  IInv'
<1>1. Calls(k)' BY MovesKeep DEF Good
<1>2. Log(k)' BY DEF Good, Log
<1> QED BY <1>1, <1>2 DEF IInv, Good

LEMMA RowChanges ==
  ASSUME Rows, NEW c \in Commands, NEW r \in StoredCommand,
         (r.status \in TERMINAL) => r.token = 0 /\ r.live = FALSE,
         row' = [row EXCEPT ![c] = r], session' = session
  PROVE  Rows'
BY DEF Rows

LEMMA InsertCommandStep ==
  ASSUME NEW k \in Nat, Good(k), NEW p \in Callers, InsertCommand(p) PROVE IInv'
<1> DEFINE c == call[p].cmd
<1>1. call[p] \in CallRecord /\ InCall(call[p], k, granted) /\ call[p].pc = "insert"
  BY DEF InsertCommand, At, Good, Calls
<1>2. c \in Commands BY <1>1 DEF InCall
<1>3. <<"queued", c>> \in EventIds /\ "queued" \in Kinds BY <1>2 DEF EventIds, Kinds
<1>4. Moves(p, k) BY <1>1, <1>3, RecordMoves, ReturnMoves DEF InsertCommand
<1>5. ASSUME row[c].status = "absent" PROVE Rows'
  <2>1. row' = [row EXCEPT ![c] = Row("queued", 0, FALSE)] /\ session' = session
    BY <1>5 DEF InsertCommand
  <2>2. Row("queued", 0, FALSE) \in StoredCommand
    BY DEF Row, StoredCommand, OpenCodeCommandStatus
  <2>3. Row("queued", 0, FALSE).status \notin TERMINAL BY DEF Row, TERMINAL
  <2> HIDE DEF c
  <2> QED BY <1>2, <2>1, <2>2, <2>3, RowChanges DEF Good
<1>6. ASSUME row[c].status # "absent" PROVE Rows'
  <2>1. row' = row /\ session' = session BY <1>6 DEF InsertCommand
  <2> QED BY <2>1 DEF Good, Rows
<1>7. Leases' BY DEF InsertCommand, clients, Good, Leases
<1> QED BY <1>4, <1>5, <1>6, <1>7, RowStep DEF InsertCommand, clients

LEMMA CloseStep ==
  ASSUME NEW k \in Nat, Good(k), NEW p \in Callers, Close(p) PROVE IInv'
<1> DEFINE c == [call[p] EXCEPT !.pc = "sweep"]
<1>1. call[p] \in CallRecord /\ InCall(call[p], k, granted) /\ call[p].pc = "close"
  BY DEF Close, At, Good, Calls
<1>2. Cancellable BY <1>1 DEF InCall, Cancelling
<1>3. c \in CallRecord BY <1>1 DEF CallRecord, Labels
<1>4. c.pc = "sweep" BY <1>1 DEF CallRecord
<1>5. InCall(c, k, granted')
  <2> HIDE DEF c
  <2> QED BY <1>2, <1>3, <1>4 DEF InCall
<1>6. Moves(p, k) BY <1>5 DEF Moves, Close, Goto
<1>7. Rows' BY DEF Close, Good, Rows
<1>8. Leases' BY DEF Close, clients, Good, Leases
<1> QED BY <1>6, <1>7, <1>8, RowStep DEF Close, clients

LEMMA CancelCommandStep ==
  ASSUME NEW k \in Nat, Good(k), NEW p \in Callers, CancelCommand(p) PROVE IInv'
<1> DEFINE c == call[p].cmd
           d == [call[p] EXCEPT !.pc = "take"]
<1>1. call[p] \in CallRecord /\ InCall(call[p], k, granted) /\ call[p].pc = "overwrite"
  BY DEF CancelCommand, At, Good, Calls
<1>2. Cancellable /\ c \in Commands BY <1>1 DEF InCall, Cancelling
<1>3. d \in CallRecord BY <1>1 DEF CallRecord, Labels
<1>4. d.pc = "take" /\ d.todo = call[p].todo BY <1>1 DEF CallRecord
<1>5. Moves(p, k)
  <2>1. c = call[p].cmd /\ call[p].todo \subseteq Commands BY <1>1 DEF InCall
  <2>2. InCall(d, k, granted')
    <3> HIDE DEF d
    <3> QED BY <1>2, <1>3, <1>4, <2>1 DEF InCall
  <2> QED BY <2>2 DEF Moves, CancelCommand, Goto
<1>6. Row("cancelled", 0, FALSE) \in StoredCommand
  BY DEF Row, StoredCommand, OpenCodeCommandStatus, TERMINAL
<1>7. Leases' BY DEF CancelCommand, clients, Good, Leases
<1>8. Rows' BY <1>2, <1>6, RowChanges DEF CancelCommand, Good, Row
<1> QED BY <1>5, <1>7, <1>8, RowStep DEF CancelCommand, clients

LEMMA GrantStep ==
  ASSUME NEW k \in Nat, Good(k), NEW p \in Callers, NEW c \in Commands, Grant(p, c)
  PROVE  IInv'
<1> DEFINE n == NewToken
           d == [call[p] EXCEPT !.pc = "answer", !.cmd = c, !.token = n]
<1>1. call[p] \in CallRecord BY DEF Good, Calls
<1>2. n \in Nat \ {0}
  <2>1. Cardinality(granted) \in Nat BY FS_CardinalityType DEF Good, Leases
  <2> QED BY <2>1 DEF NewToken
<1>3. /\ row' = [row EXCEPT ![c] = Row("leased", n, TRUE)]
      /\ granted' = granted \cup {<<c, n>>} /\ Set(p, d)
      /\ UNCHANGED <<session, events, nextSequence, held, cursor, seen, crashes>>
  BY DEF Grant
<1> HIDE DEF n
<1>4. d \in CallRecord BY <1>1, <1>2 DEF CallRecord, Labels
<1>5. d.pc = "answer" /\ d.cmd = c /\ d.token = n BY <1>1 DEF CallRecord
<1>6. InCall(d, k, granted')
  <2>1. <<c, n>> \in granted' BY <1>3
  <2> HIDE DEF d
  <2> QED BY <1>4, <1>5, <2>1 DEF InCall, Cancelling
<1>7. Moves(p, k) BY <1>3, <1>6 DEF Moves
<1>8. Rows'
  <2>1. Row("leased", n, TRUE) \in StoredCommand
    BY <1>2 DEF Row, StoredCommand, OpenCodeCommandStatus
  <2>2. Row("leased", n, TRUE).status \notin TERMINAL BY DEF Row, TERMINAL
  <2> QED BY <1>3, <2>1, <2>2, RowChanges DEF Good
<1>9. Leases'
  <2>1. IsFiniteSet(granted') BY <1>3, FS_AddElement DEF Good, Leases
  <2> QED BY <1>2, <1>3, <2>1 DEF Good, Leases
<1> QED BY <1>3, <1>7, <1>8, <1>9, RowStep

LEMMA ClaimSteps ==
  ASSUME NEW k \in Nat, Good(k), NEW p \in Callers, ClaimNext(p) \/ TryRow(p)
  PROVE  IInv'
<1>1. call[p] \in CallRecord /\ InCall(call[p], k, granted) BY DEF Good, Calls
<1>2. CASE ClaimNext(p)
  BY <1>2, GrantStep, ReturnMoves, CallStep DEF ClaimNext
<1>3. CASE TryRow(p)
  <2>1. call[p].todo \subseteq Commands \X Active BY <1>1, <1>3 DEF TryRow, At, InCall
  <2>2. CASE Return(p) /\ UNCHANGED <<store, clients>> BY <2>2, ReturnMoves, CallStep
  <2>3. CASE \E r \in call[p].todo : Grant(p, r[1]) BY <2>1, <2>3, GrantStep
  <2>4. ASSUME NEW r \in call[p].todo, UNCHANGED <<store, clients>>,
               Set(p, [call[p] EXCEPT !.todo = call[p].todo \ {r}])
        PROVE  IInv'
    <3> DEFINE c == [call[p] EXCEPT !.todo = call[p].todo \ {r}]
    <3>1. call[p].pc = "try" BY <1>3 DEF TryRow, At
    <3>2. c \in CallRecord BY <1>1, <2>1 DEF CallRecord
    <3>3. c.pc = "try" /\ c.todo \subseteq Commands \X Active
      BY <1>1, <2>1, <3>1 DEF CallRecord
    <3>4. InCall(c, k, granted')
      <4> HIDE DEF c
      <4> QED BY <3>2, <3>3 DEF InCall, Cancelling
    <3>5. Moves(p, k) BY <2>4, <3>4 DEF Moves
    <3> QED BY <2>4, <3>5, CallStep
  <2> QED BY <1>3, <2>2, <2>3, <2>4 DEF TryRow
<1> QED BY <1>2, <1>3

LEMMA AnswerStep ==
  ASSUME NEW k \in Nat, Good(k), NEW p \in Callers, Answer(p) PROVE IInv'
<1>1. <<call[p].cmd, call[p].token>> \in granted BY DEF Answer, At, Good, Calls, InCall
<1>2. Leases' BY <1>1 DEF Answer, Good, Leases
<1>3. Rows' BY DEF Answer, store, Good, Rows
<1>4. Moves(p, k) BY ReturnMoves DEF Answer
<1> QED BY <1>2, <1>3, <1>4, RowStep DEF Answer, store

LEMMA RenewStep ==
  ASSUME NEW k \in Nat, Good(k), NEW p \in Callers, Renew(p) PROVE IInv'
<1> DEFINE c == call[p].cmd
           r == IF row[c].token = call[p].token THEN Row("running", row[c].token, TRUE)
                ELSE row[c]
<1>1. call[p] \in CallRecord /\ InCall(call[p], k, granted) /\ call[p].pc = "renew"
  BY DEF Renew, At, Good, Calls
<1>2. c \in Commands BY <1>1 DEF InCall
<1>3. row' = [row EXCEPT ![c] = r] /\ session' = session BY DEF Renew
<1>4. row[c] \in StoredCommand
        /\ ((row[c].status \in TERMINAL) => row[c].token = 0 /\ row[c].live = FALSE)
  BY <1>2 DEF Good, Rows
<1>5. r \in StoredCommand
  BY <1>4 DEF Row, StoredCommand, OpenCodeCommandStatus
<1>6. (r.status \in TERMINAL) => r.token = 0 /\ r.live = FALSE
  BY <1>4 DEF Row, TERMINAL
<1>7. Rows'
  <2> HIDE DEF r
  <2> QED BY <1>2, <1>3, <1>5, <1>6, RowChanges DEF Good
<1>8. Leases' BY DEF Renew, clients, Good, Leases
<1>9. Moves(p, k) BY ReturnMoves DEF Renew
<1> QED BY <1>7, <1>8, <1>9, RowStep DEF Renew, clients

LEMMA FinishStep ==
  ASSUME NEW k \in Nat, Good(k), NEW p \in Callers, Finish(p) PROVE IInv'
<1> DEFINE c == call[p].cmd
           s == call[p].status
           r == IF row[c].token = call[p].token THEN Row(s, 0, FALSE) ELSE row[c]
<1>1. call[p] \in CallRecord /\ InCall(call[p], k, granted) /\ call[p].pc = "finish"
  BY DEF Finish, At, Good, Calls
<1>2. c \in Commands /\ s \in TERMINAL BY <1>1 DEF InCall
<1>3. row' = [row EXCEPT ![c] = r] /\ session' = session BY DEF Finish
<1>4. row[c] \in StoredCommand
        /\ ((row[c].status \in TERMINAL) => row[c].token = 0 /\ row[c].live = FALSE)
  BY <1>2 DEF Good, Rows
<1>5. r \in StoredCommand
  BY <1>2, <1>4 DEF Row, StoredCommand, OpenCodeCommandStatus
<1>6. (r.status \in TERMINAL) => r.token = 0 /\ r.live = FALSE
  BY <1>4 DEF Row
<1>7. Rows'
  <2> HIDE DEF r
  <2> QED BY <1>2, <1>3, <1>5, <1>6, RowChanges DEF Good
<1>8. Leases' BY DEF Finish, clients, Good, Leases
<1>9. <<"terminal", c>> \in EventIds /\ s \in Kinds BY <1>2 DEF EventIds, Kinds
<1>10. Moves(p, k) BY <1>1, <1>9, RecordMoves DEF Finish
<1> QED BY <1>7, <1>8, <1>10, RowStep DEF Finish, clients

LEMMA CrashStep ==
  ASSUME NEW k \in Nat, Good(k), NEW p \in Callers, Crash(p) PROVE IInv'
<1>1. Leases' BY BridgeAssumption DEF Crash, Good, Leases
<1>2. Rows' BY DEF Crash, store, Good, Rows
<1>3. Moves(p, k) BY ReturnMoves DEF Crash
<1> QED BY <1>1, <1>2, <1>3, RowStep DEF Crash, store

LEMMA ExpireStep ==
  ASSUME NEW k \in Nat, Good(k), NEW c \in Commands, Expire(c) PROVE IInv'
<1> DEFINE r == [row[c] EXCEPT !.live = FALSE]
<1>1. row' = [row EXCEPT ![c] = r] /\ session' = session BY DEF Expire
<1>2. row[c] \in StoredCommand /\ ((row[c].status \in TERMINAL) => row[c].token = 0)
  BY DEF Good, Rows
<1>3. r \in StoredCommand /\ r.status = row[c].status /\ r.token = row[c].token
        /\ r.live = FALSE
  BY <1>2 DEF StoredCommand
<1>4. Rows'
  <2> HIDE DEF r
  <2> QED BY <1>1, <1>2, <1>3, RowChanges DEF Good
<1>5. Leases' BY DEF Expire, clients, Good, Leases
<1>6. Log(k)' BY DEF Expire, clients, Good, Log
<1>7. Calls(k)' BY DEF Expire, clients, Good, Calls
<1> QED BY <1>4, <1>5, <1>6, <1>7 DEF IInv, Good

-----------------------------------------------------------------------------
(* The invariant. *)

LEMMA Initial == Init => IInv
<1> SUFFICES ASSUME Init PROVE Good(0) BY DEF IInv
<1>1. Rows BY DEF Init, Rows, Row, StoredCommand, TERMINAL
<1>2. Leases BY BridgeAssumption, FS_EmptySet DEF Init, Leases
<1>3. Log(0) BY DEF Init, Log
<1>4. Calls(0)
  <2>1. InCall(Idle, 0, granted) /\ Idle \in CallRecord BY IdleOK DEF InCall
  <2>2. call = [p \in Callers |-> Idle] BY DEF Init
  <2> QED BY <2>1, <2>2 DEF Calls
<1> QED BY <1>1, <1>2, <1>3, <1>4 DEF Good

LEMMA Inductive == IInv /\ [Next]_vars => IInv'
<1> SUFFICES ASSUME IInv, [Next]_vars PROVE IInv' OBVIOUS
<1>1. PICK k \in Nat : Good(k) BY DEF IInv
<1>2. CASE UNCHANGED vars
  <2>1. UNCHANGED <<session, row, events, nextSequence, granted, held, cursor, seen,
                    crashes, call>>
    BY <1>2 DEF vars, store, clients
  <2>2. Rows' BY <1>1, <2>1 DEF Good, Rows
  <2>3. Leases' BY <1>1, <2>1 DEF Good, Leases
  <2>4. Log(k)' BY <1>1, <2>1 DEF Good, Log
  <2>5. Calls(k)' BY <1>1, <2>1 DEF Good, Calls
  <2> QED BY <2>2, <2>3, <2>4, <2>5 DEF Good, IInv
<1>3. ASSUME NEW p \in Callers, Proceed(p) PROVE IInv'
  <2>1. CASE Number(p) \/ Lookup(p) \/ Allocate(p) \/ FindCommand(p) \/ SelectRows(p)
    BY <1>1, <2>1, NumberStep, LookupStep, AllocateStep, FindCommandStep, SelectRowsStep
  <2>2. CASE Append(p) \/ InsertEvent(p) \/ Bump(p) \/ Page(p)
    BY <1>1, <2>2, AppendStep, InsertEventStep, BumpStep, PageStep
  <2>3. CASE Close(p) \/ Sweep(p) \/ TakeCommand(p) \/ CancelCommand(p)
    BY <1>1, <2>3, CloseStep, SweepSteps, CancelCommandStep
  <2>4. CASE InsertCommand(p) \/ ClaimNext(p) \/ TryRow(p) \/ Answer(p) \/ Renew(p) \/ Finish(p)
    BY <1>1, <2>4, InsertCommandStep, ClaimSteps, AnswerStep, RenewStep, FinishStep
  <2> QED BY <1>3, <2>1, <2>2, <2>3, <2>4 DEF Proceed
<1>4. ASSUME NEW p \in Callers, Crash(p) PROVE IInv' BY <1>1, <1>4, CrashStep
<1>5. ASSUME NEW c \in Commands, Expire(c) PROVE IInv' BY <1>1, <1>5, ExpireStep
<1>6. ASSUME NEW p \in Callers,
             \/ \E c \in Commands : Submit(p, c) \/ CompleteHeld(p, c)
             \/ List(p) \/ CancelSession(p) \/ Poll(p) \/ Connect(p)
      PROVE  IInv'
  BY <1>1, <1>6, BeginSteps
<1> QED BY <1>2, <1>3, <1>4, <1>5, <1>6 DEF Next

LEMMA Invariance == Spec => []IInv
BY Initial, Inductive, PTL DEF Spec

\* The state of the bridge is always of its types, whatever the requests do.
THEOREM BridgeTypes == Spec => []TypeOK
<1>1. IInv => TypeOK
  <2> SUFFICES ASSUME NEW k \in Nat, Good(k) PROVE TypeOK BY DEF IInv
  <2>1. events \subseteq [sequence : Nat \ {0}, id : EventIds, kind : Kinds]
    <3>1. 1..k \subseteq Nat \ {0} OBVIOUS
    <3> QED BY <3>1 DEF Good, Log
  <2>2. nextSequence \in Nat \ {0} /\ cursor \in Nat /\ seen \subseteq events
    BY DEF Good, Log
  <2>3. \A p \in Callers : call[p] \in CallRecord BY DEF Good, Calls
  <2>4. \A p \in Callers : /\ call[p].cmd \in Commands \cup {0}
                           /\ call[p].token \in Nat
                           /\ call[p].tries \in 0..3
    BY <2>3 DEF CallRecord
  <2> QED BY <2>1, <2>2, <2>4 DEF TypeOK, Good, Rows, Leases
<1> QED BY <1>1, Invariance, PTL

\* A browser that asks for the events after its cursor is shown every event, for
\* any number of requests that number and store events at once, on both stores.
THEOREM ReaderMissesNothingHolds == Spec => []ReaderMissesNothing
<1>1. IInv => ReaderMissesNothing
  <2> SUFFICES ASSUME NEW k \in Nat, Good(k) PROVE ReaderMissesNothing BY DEF IInv
  <2>1. \A e \in events : (e.sequence <= cursor) => e \in seen BY DEF Good, Log
  <2>2. ASSUME NEW e \in events, NEW n \in 1..e.sequence
        PROVE  \E d \in events : d.sequence = n
    <3>1. e.sequence \in 1..k BY DEF Good, Log
    <3>2. n \in 1..k BY <3>1
    <3> QED BY <3>2 DEF Good, Log
  <2> QED BY <2>1, <2>2 DEF ReaderMissesNothing
<1> QED BY <1>1, Invariance, PTL

-----------------------------------------------------------------------------
(* Finished commands. *)

LEMMA FinalStep ==
  ASSUME ~Cancellable, IInv, [Next]_vars, NEW c \in Commands, row[c].status \in TERMINAL
  PROVE  row'[c].status = row[c].status
<1>1. PICK k \in Nat : Good(k) BY DEF IInv
<1>2. row \in [Commands -> StoredCommand] /\ row[c].token = 0 /\ row[c].live = FALSE
  BY <1>1 DEF Good, Rows
<1>3. row[c].status \notin Active \cup {"absent"} BY DEF TERMINAL, Active
<1>4. ASSUME NEW p \in Callers PROVE InCall(call[p], k, granted)
  BY <1>1, <1>4 DEF Good, Calls
<1>5. ASSUME row' = row PROVE row'[c].status = row[c].status BY <1>5
<1>6. ASSUME NEW p \in Callers, NEW d \in Commands, Grant(p, d), row[d].status \in Active
      PROVE  row'[c].status = row[c].status
  BY <1>2, <1>3, <1>6 DEF Grant
<1>7. ASSUME NEW p \in Callers, ClaimNext(p) PROVE row'[c].status = row[c].status
  <2>1. \A d \in Commands : Eligible(row[d]) => row[d].status \in Active
    BY DEF Eligible, Active
  <2> QED BY <1>5, <1>6, <1>7, <2>1 DEF ClaimNext, store
<1>8. ASSUME NEW p \in Callers, TryRow(p) PROVE row'[c].status = row[c].status
  <2>1. call[p].todo \subseteq Commands \X Active BY <1>4, <1>8 DEF TryRow, At, InCall
  <2>2. \A r \in call[p].todo : r[1] \in Commands /\ r[2] \in Active BY <2>1
  <2> QED BY <1>5, <1>6, <1>8, <2>2 DEF TryRow, store
<1>9. ASSUME NEW p \in Callers, Renew(p) PROVE row'[c].status = row[c].status
  <2>1. call[p].token # 0 BY <1>4, <1>9 DEF Renew, At, InCall
  <2> QED BY <1>2, <1>9, <2>1 DEF Renew
<1>10. ASSUME NEW p \in Callers, Finish(p) PROVE row'[c].status = row[c].status
  <2>1. call[p].token # 0 BY <1>4, <1>10 DEF Finish, At, InCall
  <2> QED BY <1>2, <1>10, <2>1 DEF Finish
<1>11. ASSUME NEW p \in Callers, InsertCommand(p) PROVE row'[c].status = row[c].status
  BY <1>2, <1>3, <1>11 DEF InsertCommand
<1>12. ASSUME NEW p \in Callers, CancelCommand(p) PROVE row'[c].status = row[c].status
  BY <1>4, <1>12 DEF CancelCommand, At, InCall, Cancelling
<1>13. ASSUME NEW d \in Commands, Expire(d) PROVE row'[c].status = row[c].status
  BY <1>2, <1>13 DEF Expire, StoredCommand
<1>14. ASSUME NEW p \in Callers,
              \/ Number(p) \/ Append(p) \/ Lookup(p) \/ Allocate(p) \/ InsertEvent(p)
              \/ Bump(p) \/ FindCommand(p) \/ Page(p) \/ Close(p) \/ Sweep(p)
              \/ TakeCommand(p) \/ SelectRows(p) \/ Answer(p) \/ Crash(p)
       PROVE  row' = row
  BY <1>14 DEF Number, Append, Lookup, Allocate, InsertEvent, Bump, FindCommand, Page,
               Close, Sweep, TakeCommand, SelectRows, Answer, Crash, store
<1>15. ASSUME NEW p \in Callers,
              \/ \E d \in Commands : Submit(p, d) \/ CompleteHeld(p, d)
              \/ List(p) \/ CancelSession(p) \/ Poll(p) \/ Connect(p)
       PROVE  row' = row
  BY <1>15 DEF Submit, CompleteHeld, Complete, List, CancelSession, Poll, Connect, Heartbeat,
               IngestEvent, store
<1>16. ASSUME NEW p \in Callers, Proceed(p) PROVE row'[c].status = row[c].status
  BY <1>5, <1>7, <1>8, <1>9, <1>10, <1>11, <1>12, <1>14, <1>16 DEF Proceed
<1>17. CASE UNCHANGED vars BY <1>5, <1>17 DEF vars, store
<1> QED BY <1>5, <1>13, <1>14, <1>15, <1>16, <1>17 DEF Next

\* As long as sessions are not cancelled, a command that has ended keeps its status:
\* no late claim, renewal or completion reaches it.
THEOREM TerminalIsFinalHolds == ASSUME ~Cancellable PROVE Spec => TerminalIsFinal
<1>1. IInv /\ [Next]_vars =>
        [\A c \in Commands : (row[c].status \in TERMINAL) => row'[c].status = row[c].status]_vars
  BY FinalStep
<1> QED BY <1>1, Invariance, PTL DEF Spec, TerminalIsFinal
=============================================================================
