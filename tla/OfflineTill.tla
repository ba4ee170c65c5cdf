---------------------------- MODULE OfflineTill ----------------------------
(***************************************************************************)
(* What a seller does without network: cash sales and cash movements wait  *)
(* in the outbox of the device, are sent one by one when the server is     *)
(* back, as often as it takes, and end in a session of the cash register   *)
(* that its manager opens, counts and closes meanwhile.                    *)
(*                                                                         *)
(* A window is an open copy of the application; windows share the storage  *)
(* of the device and its session.  A request stays on the wire until the   *)
(* server takes it, even when its window no longer waits for the answer.   *)
(*                                                                         *)
(* Sources: linkpay-web lib/outbox.ts, lib/outbox-handlers.ts,             *)
(* hooks/useOutboxRunner.ts; linkpay-api pos.service.ts                    *)
(* (recordOfflineSale), cash-register.service.ts, migrations 033, 074, 075.*)
(***************************************************************************)
EXTENDS Integers, Sequences, FiniteSets, SequencesExt

CONSTANTS
  Accounts,    \* people who sign in on the device
  OfflineSales, \* operations "pos.offline-sale"
  Moves,       \* operations "cash.movement"
  Author,      \* who makes an operation
  Windows,     \* open copies of the application
  Maker,       \* the window an operation is made in
  Room,        \* how many operations the storage of the device holds
  MaxSent,     \* bound: requests on their way at once
  Managers,    \* requests that open or close the till
  MaxSessions, \* bound: sessions of the cash register
  Nobody       \* null

Ops      == OfflineSales \cup Moves
Sessions == 1..MaxSessions
States   == {"none", "pending", "sending", "error"}
Answers  == {"ok", "busy", "refused"}
NoOps    == [o \in Ops |-> "none"]
Tries    == 1..MaxSent
Messages == [op: Ops, from: Windows, as: Accounts \cup {Nobody}, try: Tries]
Looks    == [msg: Messages, session: 0..MaxSessions, open: BOOLEAN]

ASSUME OutboxAssumption ==
  /\ IsFiniteSet(Ops) /\ OfflineSales \cap Moves = {}
  /\ Author \in [Ops -> Accounts]
  /\ Maker \in [Ops -> Windows]
  /\ Nobody \notin Accounts \cup Ops
  /\ Room \in Nat /\ MaxSent \in Nat
  /\ MaxSessions \in Nat \ {0}

VARIABLES
  user,    \* the account signed in on the device
  made,    \* the operations made, in order (createdAt)
  disk,    \* localStorage: what an account has waiting
  owner,   \* useOutbox.userId of a window
  ops,     \* useOutbox.ops of a window
  flush,   \* a run of flushOutbox: what is due, the request it waits for, its answer
  dropped, \* operations a person gave up
  unsafe,  \* history: operations the storage had no room for, or that another
           \* window wrote its list over
  wire,    \* requests on their way to the server
  checked, \* requests that have looked for their session, and what they found
  copies,  \* rows written for an operation
  home,    \* the session an operation was made in (0: none)
  booked,  \* the session its row is in
  noted,   \* sales reported as arrived after the close
  late,    \* history: rows that found their session open and came after its count
  till,    \* cash_register_sessions.status
  counted, \* operations in the amount a closed session expected
  manager  \* what a request of a manager has read

device == <<user, made, disk, owner, ops, flush, dropped, unsafe>>
server == <<copies, home, booked, noted, late>>
books  == <<till, counted, manager>>
tillVars == <<device, wire, checked, server, books>>

Quiet    == [due |-> {}, op |-> Nobody, try |-> 0]
FreeHand == [pc |-> "idle", session |-> 0, seen |-> {}]

TillInit ==
  /\ user = Nobody
  /\ made = <<>>
  /\ disk = [u \in Accounts |-> NoOps]
  /\ owner = [t \in Windows |-> Nobody]
  /\ ops = [t \in Windows |-> NoOps]
  /\ flush = [t \in Windows |-> Quiet]
  /\ dropped = {} /\ unsafe = {} /\ wire = {} /\ checked = {}
  /\ copies = [o \in Ops |-> 0]
  /\ home = [o \in Ops |-> 0]
  /\ booked = [o \in Ops |-> 0]
  /\ noted = {} /\ late = {}
  /\ till = [s \in Sessions |-> "none"]
  /\ counted = [s \in Sessions |-> {}]
  /\ manager = [m \in Managers |-> FreeHand]

-----------------------------------------------------------------------------
(* The outbox of a window.                                                 *)

\* The whole list of the window replaces what the account had on the device;
\* what another window has added since is not in it.
Stored(t, list) ==
  /\ disk' = IF owner[t] = Nobody THEN disk ELSE [disk EXCEPT ![owner[t]] = list]
  /\ unsafe' = unsafe \cup {o \in Ops : /\ Maker[o] # t /\ ops[t][o] = "none" /\ list[o] = "none"
                                     /\ owner[t] = Author[o] /\ disk[Author[o]][o] # "none"}

\* "storage full: kept in memory for this session": the storage keeps what it had.
KeptInMemory(t, list) ==
  /\ UNCHANGED disk
  /\ unsafe' = unsafe \cup {o \in Ops : list[o] # "none" /\ disk[owner[t]][o] = "none"}

Full(list) == Cardinality({o \in Ops : list[o] # "none"}) > Room

save(t, list) ==
  /\ ops' = [ops EXCEPT ![t] = list]
  /\ IF owner[t] # Nobody /\ Full(list) THEN KeptInMemory(t, list) ELSE Stored(t, list)

\* An operation that is not in a list is left out of it.
Patched(list, o, state) == IF list[o] = "none" THEN list ELSE [list EXCEPT ![o] = state]
Without(list, o)        == [list EXCEPT ![o] = "none"]

patch(t, o, state) == save(t, Patched(ops[t], o, state))
discardOp(t, o)    == save(t, Without(ops[t], o))

\* Mutant: what was being sent is taken for sent.
load_Sent(u) ==
  IF u = Nobody THEN NoOps
  ELSE [o \in Ops |-> IF disk[u][o] = "sending" THEN "none" ELSE disk[u][o]]

\* Mutant: what was being sent stays so.
load_AsIs(u) == IF u = Nobody THEN NoOps ELSE disk[u]

\* What was being sent when the application was closed waits again.
load(u) ==
  IF u = Nobody THEN NoOps
  ELSE [o \in Ops |-> IF disk[u][o] = "sending" THEN "pending" ELSE disk[u][o]]

\* Signing in or out on the device: each window takes the list of the account,
\* and a run of flushOutbox goes on.
useAccount(u) ==
  /\ u # user
  /\ user' = u
  /\ owner' = [t \in Windows |-> u]
  /\ ops' = [t \in Windows |-> load(u)]
  /\ UNCHANGED <<made, disk, flush, dropped, unsafe, wire, checked, server, books>>

\* The application is closed and opened again.
Reopen(t) ==
  /\ ops' = [ops EXCEPT ![t] = load(owner[t])]
  /\ flush' = [flush EXCEPT ![t] = Quiet]
  /\ UNCHANGED <<user, made, disk, owner, dropped, unsafe, wire, checked, server, books>>

\* A movement names the session the till shows, the last that was opened; the
\* hour of a sale (sold_at, within 7 days) points to that one too.
Opened == {s \in Sessions : till[s] # "none"}

enqueue(t, o) ==
  /\ t = Maker[o] /\ user = Author[o] /\ o \notin ToSet(made)
  /\ Opened # {}
  /\ made' = Append(made, o)
  /\ save(t, [ops[t] EXCEPT ![o] = "pending"])
  /\ home' = [home EXCEPT ![o] = Cardinality(Opened)]
  /\ UNCHANGED <<user, owner, flush, dropped, wire, checked, copies, booked, noted, late, books>>

retryOp(t, o) ==
  /\ ops[t][o] = "error"
  /\ patch(t, o, "pending")
  /\ UNCHANGED <<user, made, owner, flush, dropped, wire, checked, server, books>>

\* Only what the server refused can be given up (Sync.tsx:80).
GiveUp(t, o) ==
  /\ ops[t][o] = "error"
  /\ discardOp(t, o)
  /\ dropped' = dropped \cup {o}
  /\ UNCHANGED <<user, made, owner, flush, wire, checked, server, books>>

-----------------------------------------------------------------------------
(* flushOutbox: one run at a time in a window.  Between two answers nothing  *)
(* else happens in the window, so what an answer changes and the sending of *)
(* the next operation are one step.                                         *)

Idle(t)    == flush[t].op = Nobody
Handled    == {look.msg : look \in checked}
Oldest(os) == made[CHOOSE i \in DOMAIN made :
                     made[i] \in os /\ \A j \in 1..i - 1 : made[j] \notin os]

WaitsFor(t, msg) == msg.from = t /\ flush[t].op = msg.op /\ flush[t].try = msg.try

\* The request carries the session of the moment, whoever made the operation;
\* others, for the same operation too, may still be on their way.
Send(t, list, due, sent) ==
  LET o == Oldest(due)
      free == Tries \ {msg.try : msg \in {m \in sent \cup Handled : ~ WaitsFor(t, m)}}
  IN
  /\ free # {}
  /\ save(t, Patched(list, o, "sending"))
  /\ wire' = sent \cup {[op |-> o, from |-> t, as |-> user, try |-> Min(free)]}
  /\ flush' = [flush EXCEPT ![t] = [due |-> due \ {o}, op |-> o, try |-> Min(free)]]

Stop(t, list, sent) ==
  /\ save(t, list)
  /\ wire' = sent
  /\ flush' = [flush EXCEPT ![t] = Quiet]

\* What waits for its delay after a busy answer (nextTryAt) is not due.
flushOutbox(t, due) ==
  /\ Idle(t) /\ owner[t] # Nobody /\ due # {}
  /\ Send(t, ops[t], due, wire)
  /\ UNCHANGED <<user, made, owner, dropped, checked, server, books>>

\* After an answer the run goes on with the next operation ...
After(list, o, answer) ==
  CASE answer = "ok"      -> Without(list, o)
    [] answer = "busy"    -> Patched(list, o, "pending")
    [] answer = "refused" -> Patched(list, o, "error")

Answered(t, answer, sent) ==
  LET list == After(ops[t], flush[t].op, answer) IN
  IF flush[t].due = {} THEN Stop(t, list, sent) ELSE Send(t, list, flush[t].due, sent)

\* ... without one, the operation waits and the run ends.
NoAnswer(t) ==
  /\ ~ Idle(t)
  /\ Stop(t, Patched(ops[t], flush[t].op, "pending"), wire)
  /\ UNCHANGED <<user, made, owner, dropped, checked, server, books>>

-----------------------------------------------------------------------------
(* The server.                                                             *)

OpenNow == {s \in Sessions : till[s] = "open"}
Kept    == <<user, made, owner, dropped, books>>
Window  == <<ops, disk, unsafe, flush>>

\* The answer reaches the window that still waits for it, or is lost.
Answer(msg, answer) ==
  \/ WaitsFor(msg.from, msg) /\ Answered(msg.from, answer, wire \ {msg})
  \/ wire' = wire \ {msg} /\ UNCHANGED Window

\* Refused at the door, or too busy: nothing is written.
TurnAway(msg) ==
  /\ msg \in wire
  /\ \/ Answer(msg, "refused")
     \/ msg.as # Nobody /\ Answer(msg, "busy")
  /\ UNCHANGED <<Kept, checked, server>>

\* A failure after the write is an error for the window.
Recorded(msg) == Answer(msg, "ok") \/ Answer(msg, "busy")

AlreadyThere(msg) ==
  /\ msg \in wire /\ msg.as # Nobody
  /\ copies[msg.op] > 0
  /\ Recorded(msg)
  /\ UNCHANGED <<Kept, checked, server>>

Look(msg, s, open) ==
  checked' = checked \cup {[msg |-> msg, session |-> s, open |-> open]}

\* The session open now, or else the one of its hour; the transaction writes
\* the row afterwards (InsertRow).
record_offline_pos_sale(msg) ==
  /\ msg \in wire /\ msg.as # Nobody /\ msg.op \in OfflineSales
  /\ copies[msg.op] = 0 /\ Opened # {}
  /\ wire' = wire \ {msg}
  /\ IF OpenNow # {} THEN Look(msg, Max(OpenNow), TRUE) ELSE Look(msg, home[msg.op], FALSE)
  /\ UNCHANGED <<Window, Kept, server>>

\* Mutant: a movement is taken whatever became of its session.
addMovement_AnySession(msg) ==
  /\ msg \in wire /\ msg.as # Nobody /\ msg.op \in Moves
  /\ copies[msg.op] = 0
  /\ wire' = wire \ {msg}
  /\ Look(msg, home[msg.op], till[home[msg.op]] = "open")
  /\ UNCHANGED <<Window, Kept, server>>

\* The session of a movement is read, then the movement is written.
addMovement(msg) ==
  /\ msg \in wire /\ msg.as # Nobody /\ msg.op \in Moves
  /\ copies[msg.op] = 0
  /\ IF till[home[msg.op]] = "open"
     THEN Look(msg, home[msg.op], TRUE) /\ wire' = wire \ {msg} /\ UNCHANGED Window
     ELSE Answer(msg, "refused") /\ UNCHANGED checked
  /\ UNCHANGED <<Kept, server>>

\* A request that closes session s has already counted what is like o.
AfterCount(s, o) ==
  \/ till[s] = "closed"
  \/ \E m \in Managers :
       manager[m].session = s /\ (manager[m].pc = "close" \/ (manager[m].pc = "sales" /\ o \in Moves))

\* The index on client_ref keeps the first of two; a sale that found no open
\* session is reported.
InsertRow(look) ==
  LET o == look.msg.op IN
  /\ look \in checked /\ checked' = checked \ {look}
  /\ IF copies[o] = 0
     THEN /\ copies' = [copies EXCEPT ![o] = @ + 1]
          /\ booked' = [booked EXCEPT ![o] = look.session]
          /\ noted' = IF o \in OfflineSales /\ ~look.open THEN noted \cup {o} ELSE noted
          /\ late' = IF look.open /\ AfterCount(look.session, o) THEN late \cup {o} ELSE late
     ELSE UNCHANGED <<copies, booked, noted, late>>
  /\ Recorded(look.msg)
  /\ UNCHANGED <<Kept, home>>

-----------------------------------------------------------------------------
(* The manager of the till.                                                *)

Hold(m, pc, s, seen) == manager' = [manager EXCEPT ![m] = [pc |-> pc, session |-> s, seen |-> seen]]
Aside == <<device, wire, checked, server>>

openSession(m) ==
  /\ manager[m].pc = "idle" /\ OpenNow = {}
  /\ Hold(m, "open", 0, {})
  /\ UNCHANGED <<Aside, till, counted>>

InsertSession(m) ==
  /\ manager[m].pc = "open" /\ Cardinality(Opened) < MaxSessions
  /\ till' = [till EXCEPT ![Cardinality(Opened) + 1] = "open"]
  /\ Hold(m, "idle", 0, {})
  /\ UNCHANGED <<Aside, counted>>

Written(s) == {o \in Ops : copies[o] > 0 /\ booked[o] = s}

closeSession(m) ==
  /\ manager[m].pc = "idle"
  /\ \E s \in OpenNow : Hold(m, "sales", s, Written(s) \cap Moves)
  /\ UNCHANGED <<Aside, till, counted>>

sessionCashSales(m) ==
  /\ manager[m].pc = "sales"
  /\ LET s == manager[m].session IN Hold(m, "close", s, manager[m].seen \cup (Written(s) \cap OfflineSales))
  /\ UNCHANGED <<Aside, till, counted>>

CloseNow(m) ==
  /\ manager[m].pc = "close"
  /\ LET s == manager[m].session IN
       IF till[s] = "open"
       THEN till' = [till EXCEPT ![s] = "closed"] /\ counted' = [counted EXCEPT ![s] = manager[m].seen]
       ELSE UNCHANGED <<till, counted>>
  /\ Hold(m, "idle", 0, {})
  /\ UNCHANGED Aside

-----------------------------------------------------------------------------
\* The request a window waits for is on its way or with the server.
Expected(t) == \E msg \in wire \cup Handled : WaitsFor(t, msg)

Pending(t) == {o \in Ops : ops[t][o] = "pending"}
Go(t) == flushOutbox(t, Pending(t)) \/ (NoAnswer(t) /\ ~ Expected(t))
Timeout(t) == NoAnswer(t) /\ Expected(t)
Receive(msg) == AlreadyThere(msg) \/ record_offline_pos_sale(msg) \/ addMovement(msg)
Heard(msg) == WaitsFor(msg.from, msg) => flush' # flush
Serve ==
  \/ \E msg \in wire :
       \/ TurnAway(msg) /\ msg.as = Nobody
       \/ Receive(msg) /\ (checked' = checked => Heard(msg))
  \/ \E look \in checked : InsertRow(look) /\ Heard(look.msg)
Use(t, o) == enqueue(t, o) \/ retryOp(t, o) \/ GiveUp(t, o)
Manage(m) == openSession(m) \/ InsertSession(m) \/ closeSession(m) \/ sessionCashSales(m) \/ CloseNow(m)

\* A step while the application stays open on its account and the server answers.
Calm ==
  \/ \E t \in Windows : Go(t) \/ \E o \in Ops : Use(t, o)
  \/ Serve
  \/ \E m \in Managers : Manage(m)

TillNext ==
  \/ Calm
  \/ \E u \in Accounts \cup {Nobody} : useAccount(u)
  \/ \E t \in Windows : \/ Reopen(t) \/ Timeout(t)
                         \/ \E due \in SUBSET Pending(t) : flushOutbox(t, due)
  \/ \E msg \in wire : TurnAway(msg) \/ Receive(msg)
  \/ \E look \in checked : InsertRow(look)

TillSpec == TillInit /\ [][TillNext]_tillVars

\* The application comes back every 20 s while something waits
\* (useOutboxRunner.ts:34); at last it stays open and the server answers.
TillFairness ==
  /\ \A t \in Windows : WF_tillVars(Go(t))
  /\ WF_tillVars(Serve)
  /\ \A m \in Managers : WF_tillVars(sessionCashSales(m) \/ CloseNow(m))
  /\ <>[][Calm]_tillVars

-----------------------------------------------------------------------------
(* Properties.                                                             *)

TillTypeOK ==
  /\ user \in Accounts \cup {Nobody}
  /\ made \in Seq(Ops) /\ IsInjective(made)
  /\ disk \in [Accounts -> [Ops -> States]]
  /\ owner \in [Windows -> Accounts \cup {Nobody}]
  /\ ops \in [Windows -> [Ops -> States]]
  /\ flush \in [Windows -> [due: SUBSET Ops, op: Ops \cup {Nobody}, try: 0..MaxSent]]
  /\ dropped \subseteq Ops /\ unsafe \subseteq Ops
  /\ wire \subseteq Messages /\ checked \subseteq Looks
  /\ copies \in [Ops -> 0..1]
  /\ home \in [Ops -> 0..MaxSessions] /\ booked \in [Ops -> 0..MaxSessions]
  /\ noted \subseteq OfflineSales /\ late \subseteq Ops
  /\ till \in [Sessions -> {"none", "open", "closed"}]
  /\ counted \in [Sessions -> SUBSET Ops]
  /\ manager \in [Managers -> [pc: {"idle", "open", "sales", "close"}, session: 0..MaxSessions, seen: SUBSET Ops]]

Waiting == States \ {"none"}

\* "sending it twice (lost answer, app killed mid-send) never applies it twice"
\* (outbox.ts:9): TillTypeOK's 0..1 of copies.

\* What was made offline is written at the server, or waits on the device of its
\* author, or was given up: a stop or a change of account loses nothing but what
\* was only in memory, or what another window wrote over.
NothingIsLost ==
  \A i \in DOMAIN made : LET o == made[i] IN
    copies[o] > 0 \/ disk[Author[o]][o] \in Waiting \/ o \in dropped \/ o \in unsafe

\* Both: written once, and never lost.
WrittenOnce == TillTypeOK /\ NothingIsLost

\* What a closed till expected counts every row of its session, but for the sales
\* reported as arrived too late (migration 074) and the rows that came between
\* its count and its close.
ClosedTillCounts ==
  \A s \in Sessions : till[s] = "closed" => Written(s) \subseteq counted[s] \cup noted \cup late

\* A row is in the session it was made in; only a sale is in another, when its own
\* was closed or a later one opened.
InItsSession ==
  \A o \in Ops : copies[o] > 0 /\ booked[o] # home[o] =>
    o \in OfflineSales /\ (till[home[o]] = "closed" \/ booked[o] > home[o])

\* Both: every sale and movement made offline is in the count of one till.
DrawerAddsUp == ClosedTillCounts /\ InItsSession

\* Once the network holds, all that the account of the device made ends up written
\* or refused, whatever was interrupted before: nothing waits for ever.
Arrived(o) ==
  \/ copies[o] > 0 \/ o \in dropped \/ o \in unsafe
  \/ \E t \in Windows : ops[t][o] = "error"
  \/ user # Author[o]

Delivered == []<>(\A o \in ToSet(made) : Arrived(o))

=============================================================================
