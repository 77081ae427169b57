--------------------------- MODULE OpenCodeBridge ---------------------------
(***************************************************************************)
(* One session of the OpenCode bridge: the browser submits commands, lists *)
(* the events after its cursor and cancels the session; the connector      *)
(* polls for a command, which it holds under a lease, renews the lease,    *)
(* reports events and completes the command.  Every request is a thread of *)
(* its own, and each statement of the store is a transaction of its own.   *)
(* On SQLite, which serves one process, a claim is an immediate            *)
(* transaction and the store's lock makes the insertion of an event one    *)
(* step; on Supabase both are several calls, retried on a conflict.        *)
(* Rows without a stored message, which create_command never writes, and   *)
(* the capabilities that admit the connector are left out.                 *)
(***************************************************************************)
EXTENDS Integers, FiniteSets

CONSTANTS
  NumCommands,  \* the commands, in the order of their created_at
  Callers,      \* the requests that run at once
  Reports,      \* identifiers of the events that the connector reports
  Outcomes,     \* the terminal statuses with which the connector completes
  PageLimit,    \* the limit of list_events
  Backend,      \* "sqlite" or "supabase"
  Cancellable,  \* whether the session may be cancelled
  MaxLeases,    \* a bound on the leases that are granted
  MaxCrashes    \* a bound on the requests that die

Commands == 1..NumCommands

ASSUME BridgeAssumption ==
  /\ NumCommands \in Nat \ {0} /\ PageLimit \in Nat \ {0}
  /\ Backend \in {"sqlite", "supabase"} /\ Cancellable \in BOOLEAN
  /\ MaxLeases \in Nat /\ MaxCrashes \in Nat
  /\ Outcomes \subseteq {"succeeded", "failed", "cancelled"}

VARIABLES
  session,       \* the status of the session
  row,           \* the row of each command
  events,        \* the rows of the event table
  nextSequence,  \* the session's next_event_sequence
  granted,       \* the leases that were granted: command and token
  held,          \* those that reached the connector
  cursor, seen,  \* the browser's cursor, and the events it was shown
  call,          \* the requests in progress
  crashes        \* how many requests have died

store == <<session, row, events, nextSequence>>
clients == <<granted, held, cursor, seen, crashes>>
vars == <<store, clients, call>>

TERMINAL == {"succeeded", "failed", "cancelled"}
OpenCodeCommandStatus == {"queued", "leased", "running"} \cup TERMINAL

\* A row whose lease has not expired is live; token 0 is no lease.
StoredCommand ==
  [status : OpenCodeCommandStatus \cup {"absent"}, token : Nat, live : BOOLEAN]
Row(s, t, l) == [status |-> s, token |-> t, live |-> l]

\* The identity of an event is its first component and what it is about.
EventIds == ({"queued", "terminal"} \X Commands) \cup ({"report"} \X Reports)
              \cup {<<"session", 0>>, <<"unavailable", 0>>}
NoEvent == [id |-> <<"none", 0>>, kind |-> "none"]
Kinds == {"queued", "progress", "unavailable"} \cup TERMINAL

Idle == [pc |-> "idle", op |-> "none", cmd |-> 0, token |-> 0, status |-> "absent",
         event |-> NoEvent, sequence |-> 0, tries |-> 0, todo |-> {}]

Init ==
  /\ session = "active"
  /\ row = [c \in Commands |-> Row("absent", 0, FALSE)]
  /\ events = {} /\ nextSequence = 1
  /\ granted = {} /\ held = {}
  /\ cursor = 0 /\ seen = {}
  /\ call = [p \in Callers |-> Idle] /\ crashes = 0

-----------------------------------------------------------------------------
(* Requests. *)

At(p, l) == call[p].pc = l
Set(p, c) == call' = [call EXCEPT ![p] = c]
Begin(p, l, op, c, t, s) ==
  Set(p, [Idle EXCEPT !.pc = l, !.op = op, !.cmd = c, !.token = t, !.status = s])
Goto(p, l) == Set(p, [call[p] EXCEPT !.pc = l])
Return(p) == Set(p, Idle)

\* _store_event: the event that request p records before it is answered.
Record(p, id, kind) ==
  Set(p, [call[p] EXCEPT !.pc = "number", !.event = [id |-> id, kind |-> kind]])

\* The same for a request that begins with it.
BeginRecord(p, op, id, kind) ==
  Set(p, [Idle EXCEPT !.pc = "number", !.op = op, !.event = [id |-> id, kind |-> kind]])

\* After the event is stored, or was found stored, the request is answered.
Recorded(p) == IF call[p].op = "list" THEN Goto(p, "list") ELSE Return(p)

Stored(id) == \E e \in events : e.id = id
Latest == IF events = {} THEN 0 ELSE CHOOSE n \in {e.sequence : e \in events} :
                                       \A e \in events : e.sequence <= n
EventRow(p, n) == [sequence |-> n, id |-> call[p].event.id, kind |-> call[p].event.kind]
AtLeast(n, m) == IF n < m THEN m ELSE n

-----------------------------------------------------------------------------
(* Storing an event. *)

\* next_event_sequence, read before the event is built.
Number(p) ==
  /\ At(p, "number")
  /\ Set(p, [call[p] EXCEPT !.sequence = nextSequence,
                            !.pc = IF Backend = "sqlite" THEN "append" ELSE "lookup"])
  /\ UNCHANGED <<store, clients>>

\* [Fault] An event that is delivered again replaces the one that was stored.
AppendReplacing(p) ==
  /\ At(p, "append")
  /\ \A e \in events : (e.id # call[p].event.id) => e.sequence # call[p].sequence
  /\ events' = {e \in events : e.id # call[p].event.id} \cup {EventRow(p, call[p].sequence)}
  /\ nextSequence' = AtLeast(nextSequence, call[p].sequence + 1)
  /\ Recorded(p)
  /\ UNCHANGED <<session, row, clients>>

\* SQLite: an event with that id is the answer; a sequence number that was
\* taken meanwhile violates the unique constraint, and the request fails.
Append(p) ==
  /\ At(p, "append")
  /\ \/ Stored(call[p].event.id) /\ Recorded(p) /\ UNCHANGED <<events, nextSequence>>
     \/ /\ ~Stored(call[p].event.id)
        /\ \E e \in events : e.sequence = call[p].sequence
        /\ Return(p) /\ UNCHANGED <<events, nextSequence>>
     \/ /\ ~Stored(call[p].event.id)
        /\ \A e \in events : e.sequence # call[p].sequence
        /\ events' = events \cup {EventRow(p, call[p].sequence)}
        /\ nextSequence' = AtLeast(nextSequence, call[p].sequence + 1)
        /\ Recorded(p)
  /\ UNCHANGED <<session, row, clients>>

\* Supabase: look for the id, at first and after every conflict; the third
\* conflict is an error.
Lookup(p) ==
  /\ At(p, "lookup")
  /\ IF Stored(call[p].event.id) THEN Recorded(p)
     ELSE IF call[p].tries = 3 THEN Return(p) ELSE Goto(p, "allocate")
  /\ UNCHANGED <<store, clients>>

Allocate(p) ==
  /\ At(p, "allocate")
  /\ Set(p, [call[p] EXCEPT !.pc = "insert event",
                            !.sequence = AtLeast(nextSequence, Latest + 1)])
  /\ UNCHANGED <<store, clients>>

\* [Fault] No constraint stops an event from taking a number already taken.
InsertEventUnconstrained(p) ==
  /\ At(p, "insert event")
  /\ events' = events \cup {EventRow(p, call[p].sequence)}
  /\ Goto(p, "bump")
  /\ UNCHANGED <<session, row, nextSequence, clients>>

InsertEvent(p) ==
  /\ At(p, "insert event")
  /\ IF \E e \in events : e.id = call[p].event.id \/ e.sequence = call[p].sequence
       THEN /\ Set(p, [call[p] EXCEPT !.pc = "lookup", !.tries = @ + 1])
            /\ UNCHANGED events
       ELSE /\ events' = events \cup {EventRow(p, call[p].sequence)}
            /\ Goto(p, "bump")
  /\ UNCHANGED <<session, row, nextSequence, clients>>

Bump(p) ==
  /\ At(p, "bump")
  /\ nextSequence' = AtLeast(nextSequence, call[p].sequence + 1)
  /\ Recorded(p)
  /\ UNCHANGED <<session, row, events, clients>>

-----------------------------------------------------------------------------
(* The browser: submit, list, cancel. *)

Submit(p, c) ==
  /\ At(p, "idle") /\ session = "active"
  /\ Begin(p, "find", "submit", c, 0, "absent")
  /\ UNCHANGED <<store, clients>>

\* create_command looks for the idempotency key, then inserts.
FindCommand(p) ==
  /\ At(p, "find")
  /\ IF row[call[p].cmd].status = "absent"
       THEN Goto(p, "insert")
       ELSE Record(p, <<"queued", call[p].cmd>>, "queued")
  /\ UNCHANGED <<store, clients>>

\* The unique idempotency key makes a second insertion fail.
InsertCommand(p) ==
  /\ At(p, "insert")
  /\ LET c == call[p].cmd
     IN  IF row[c].status = "absent"
           THEN /\ row' = [row EXCEPT ![c] = Row("queued", 0, FALSE)]
                /\ Record(p, <<"queued", c>>, "queued")
           ELSE Return(p) /\ UNCHANGED row
  /\ UNCHANGED <<session, events, nextSequence, clients>>

\* list_opencode_events; a session whose connector was not heard of for two
\* minutes has that recorded first.  The browser waits for each answer.
List(p) ==
  /\ At(p, "idle") /\ \A q \in Callers : call[q].op # "list"
  /\ \/ Begin(p, "list", "list", 0, 0, "absent")
     \/ /\ session = "active"
        /\ BeginRecord(p, "list", <<"unavailable", 0>>, "unavailable")
  /\ UNCHANGED <<store, clients>>

\* The first events after the cursor; the last of them is the next cursor.
Page(p) ==
  /\ At(p, "list")
  /\ \E P \in SUBSET {e \in events : e.sequence > cursor} :
       /\ Cardinality(P) <= PageLimit
       /\ \A e \in P, d \in events \ P : d.sequence > cursor => e.sequence <= d.sequence
       /\ Cardinality(P) < PageLimit => P = {e \in events : e.sequence > cursor}
       /\ seen' = seen \cup P
       /\ cursor' = IF P = {} THEN cursor
                    ELSE CHOOSE n \in {e.sequence : e \in P} : \A e \in P : e.sequence <= n
  /\ Return(p)
  /\ UNCHANGED <<store, granted, held, crashes>>

\* cancel_opencode_session closes the session, then cancels the commands it
\* finds unfinished one by one, each by a read and an unconditional update.
CancelSession(p) ==
  /\ Cancellable /\ At(p, "idle") /\ session = "active"
  /\ Begin(p, "close", "cancel", 0, 0, "absent")
  /\ UNCHANGED <<store, clients>>

Close(p) ==
  /\ At(p, "close")
  /\ session' = "cancelled"
  /\ Goto(p, "sweep")
  /\ UNCHANGED <<row, events, nextSequence, clients>>

Sweep(p) ==
  /\ At(p, "sweep")
  /\ Set(p, [call[p] EXCEPT !.pc = "take",
               !.todo = {c \in Commands : row[c].status \notin TERMINAL \cup {"absent"}}])
  /\ UNCHANGED <<store, clients>>

TakeCommand(p) ==
  /\ At(p, "take")
  /\ \/ /\ call[p].todo = {}
        /\ Record(p, <<"session", 0>>, "cancelled")
     \/ \E c \in call[p].todo :
          Set(p, [call[p] EXCEPT !.todo = @ \ {c}, !.cmd = c,
                    !.pc = IF row[c].status \in TERMINAL THEN "take" ELSE "overwrite"])
  /\ UNCHANGED <<store, clients>>

CancelCommand(p) ==
  /\ At(p, "overwrite")
  /\ row' = [row EXCEPT ![call[p].cmd] = Row("cancelled", 0, FALSE)]
  /\ Goto(p, "take")
  /\ UNCHANGED <<session, events, nextSequence, clients>>

-----------------------------------------------------------------------------
(* The connector: poll, heartbeat, events, complete. *)

\* Every poll in progress may still be granted a lease.
Polling == {q \in Callers : call[q].pc \in {"claim", "try"}}

Poll(p) ==
  /\ At(p, "idle") /\ session = "active"
  /\ Cardinality(granted) + Cardinality(Polling) < MaxLeases
  /\ Begin(p, "claim", "poll", 0, 0, "absent")
  /\ UNCHANGED <<store, clients>>

\* [Fault] Only commands that nobody has claimed yet are handed out.
EligibleQueued(r) == r.status = "queued"

\* A command that is queued, or whose lease has expired.
Eligible(r) == r.status = "queued" \/ (r.status \in {"leased", "running"} /\ ~r.live)

NewToken == Cardinality(granted) + 1

\* Command c is leased to request p under a token of its own.
Grant(p, c) ==
  /\ row' = [row EXCEPT ![c] = Row("leased", NewToken, TRUE)]
  /\ granted' = granted \cup {<<c, NewToken>>}
  /\ Set(p, [call[p] EXCEPT !.pc = "answer", !.cmd = c, !.token = NewToken])
  /\ UNCHANGED <<session, events, nextSequence, held, cursor, seen, crashes>>

\* SQLite: the oldest eligible command, in an immediate transaction.
ClaimNext(p) ==
  /\ At(p, "claim") /\ Backend = "sqlite"
  /\ \/ /\ \A c \in Commands : ~Eligible(row[c])
        /\ Return(p) /\ UNCHANGED <<store, clients>>
     \/ \E c \in Commands :
          /\ Eligible(row[c]) /\ \A d \in Commands : Eligible(row[d]) => c <= d
          /\ Grant(p, c)

\* Supabase: the eligible rows are read, each with its status, and the first
\* whose status is still the same is updated.
SelectRows(p) ==
  /\ At(p, "claim") /\ Backend = "supabase"
  /\ Set(p, [call[p] EXCEPT !.pc = "try",
        !.todo = {<<c, row[c].status>> : c \in {d \in Commands : Eligible(row[d])}}])
  /\ UNCHANGED <<store, clients>>

TryRow(p) ==
  /\ At(p, "try")
  /\ \/ call[p].todo = {} /\ Return(p) /\ UNCHANGED <<store, clients>>
     \/ \E r \in call[p].todo :
          /\ \A q \in call[p].todo : r[1] <= q[1]
          /\ IF row[r[1]].status = r[2]
               THEN Grant(p, r[1])
               ELSE /\ Set(p, [call[p] EXCEPT !.todo = @ \ {r}])
                    /\ UNCHANGED <<store, clients>>

\* The leased command reaches the connector.
Answer(p) ==
  /\ At(p, "answer")
  /\ held' = held \cup {<<call[p].cmd, call[p].token>>}
  /\ Return(p)
  /\ UNCHANGED <<store, granted, cursor, seen, crashes>>

\* _require_lease, of a row as it was read.
RequireLease(c, t) == row[c].token = t /\ row[c].live

Heartbeat(p, c, t) ==
  /\ At(p, "idle") /\ RequireLease(c, t)
  /\ Begin(p, "renew", "heartbeat", c, t, "absent")
  /\ UNCHANGED <<store, clients>>

Renew(p) ==
  /\ At(p, "renew")
  /\ LET c == call[p].cmd
     IN  row' = [row EXCEPT ![c] = IF @.token = call[p].token
                                   THEN Row("running", @.token, TRUE) ELSE @]
  /\ Return(p)
  /\ UNCHANGED <<session, events, nextSequence, clients>>

IngestEvent(p, c, t, e) ==
  /\ At(p, "idle") /\ RequireLease(c, t)
  /\ BeginRecord(p, "ingest", <<"report", e>>, "progress")
  /\ UNCHANGED <<store, clients>>

\* complete accepts the status a finished command has already, without a lease.
Complete(p, c, t, s) ==
  /\ At(p, "idle")
  /\ \/ /\ row[c].status = s
        /\ BeginRecord(p, "complete", <<"terminal", c>>, s)
     \/ /\ row[c].status \notin TERMINAL /\ RequireLease(c, t)
        /\ Begin(p, "finish", "complete", c, t, s)
  /\ UNCHANGED <<store, clients>>

\* [Fault] The update does not ask whose lease it is.
FinishUnleased(p) ==
  /\ At(p, "finish")
  /\ row' = [row EXCEPT ![call[p].cmd] = Row(call[p].status, 0, FALSE)]
  /\ Record(p, <<"terminal", call[p].cmd>>, call[p].status)
  /\ UNCHANGED <<session, events, nextSequence, clients>>

\* A lease that was lost meanwhile updates no row, and the event is recorded
\* nevertheless.
Finish(p) ==
  /\ At(p, "finish")
  /\ LET c == call[p].cmd
     IN  row' = [row EXCEPT ![c] = IF @.token = call[p].token
                                   THEN Row(call[p].status, 0, FALSE) ELSE @]
  /\ Record(p, <<"terminal", call[p].cmd>>, call[p].status)
  /\ UNCHANGED <<session, events, nextSequence, clients>>

-----------------------------------------------------------------------------
\* Time passes; the last lease that the bound allows does not expire.
Expire(c) ==
  /\ row[c].live /\ Cardinality(granted) < MaxLeases
  /\ row' = [row EXCEPT ![c].live = FALSE]
  /\ UNCHANGED <<session, events, nextSequence, clients, call>>

\* A request dies, unless it carries the last lease that the bound allows.
Crash(p) ==
  /\ ~At(p, "idle") /\ crashes < MaxCrashes
  /\ At(p, "answer") => Cardinality(granted) < MaxLeases
  /\ crashes' = crashes + 1
  /\ Return(p)
  /\ UNCHANGED <<store, granted, held, cursor, seen>>

Proceed(p) ==
  \/ Number(p) \/ Append(p) \/ Lookup(p) \/ Allocate(p) \/ InsertEvent(p) \/ Bump(p)
  \/ FindCommand(p) \/ InsertCommand(p) \/ Page(p)
  \/ Close(p) \/ Sweep(p) \/ TakeCommand(p) \/ CancelCommand(p)
  \/ ClaimNext(p) \/ SelectRows(p) \/ TryRow(p) \/ Answer(p) \/ Renew(p) \/ Finish(p)

\* The connector presents a lease that it holds.
Connect(p) ==
  \E l \in held :
    \/ Heartbeat(p, l[1], l[2])
    \/ \E e \in Reports : IngestEvent(p, l[1], l[2], e)

CompleteHeld(p, c) ==
  \E l \in held, s \in Outcomes : l[1] = c /\ Complete(p, c, l[2], s)

Next ==
  \/ \E p \in Callers :
       \/ \E c \in Commands : Submit(p, c) \/ CompleteHeld(p, c)
       \/ List(p) \/ CancelSession(p) \/ Poll(p) \/ Connect(p)
       \/ Proceed(p) \/ Crash(p)
  \/ \E c \in Commands : Expire(c)

Spec == Init /\ [][Next]_vars

\* Requests run on, time passes, and the connector polls and completes what it
\* holds whenever the server takes its requests.
Fairness ==
  /\ \A p \in Callers : WF_vars(Proceed(p)) /\ SF_vars(Poll(p))
  /\ \A c \in Commands :
       /\ WF_vars(Expire(c))
       /\ SF_vars(\E p \in Callers : CompleteHeld(p, c))

FairSpec == Spec /\ Fairness

-----------------------------------------------------------------------------
(* Properties. *)

TypeOK ==
  /\ session \in {"active", "cancelled"}
  /\ row \in [Commands -> StoredCommand]
  /\ events \subseteq [sequence : Nat \ {0}, id : EventIds, kind : Kinds]
  /\ nextSequence \in Nat \ {0}
  /\ granted \subseteq Commands \X (Nat \ {0}) /\ held \subseteq granted
  /\ cursor \in Nat /\ seen \subseteq events
  /\ crashes \in 0..MaxCrashes
  /\ \A p \in Callers : /\ call[p].cmd \in Commands \cup {0}
                        /\ call[p].token \in Nat
                        /\ call[p].tries \in 0..3

\* A browser that always asks for the events after its cursor is shown every
\* event up to it: no event appears late under a number already passed, and
\* the numbers leave no gap, although requests number and store their events
\* in separate transactions, collide, retry and die.
ReaderMissesNothing ==
  /\ \A e \in events : (e.sequence <= cursor) => e \in seen
  /\ \A e \in events : \A n \in 1..e.sequence : \E d \in events : d.sequence = n

\* "The command has already reached another terminal status": a command that
\* has ended keeps its status.
TerminalIsFinal ==
  [][\A c \in Commands : (row[c].status \in TERMINAL) => row'[c].status = row[c].status]_vars

\* A command of an open session ends, although polls and completions are lost
\* and leases expire, as long as the connector goes on polling.
CommandsEnd ==
  \A c \in Commands :
    (row[c].status # "absent") ~> (row[c].status \in TERMINAL \/ session = "cancelled")
=============================================================================
