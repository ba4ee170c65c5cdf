----------------------------- MODULE PosTicket -----------------------------
(***************************************************************************)
(* One ticket of a till: its lines, its parts paid in cash or by a         *)
(* ScanLinkPay QR, its settlement, and the exit of its articles from the   *)
(* shelf.  Several devices may hold the same ticket, so requests overlap.  *)
(*                                                                         *)
(* A worker is a request under way.  A step is one statement; the reads    *)
(* that open a handler are taken together.  A worker stops before a step   *)
(* of Fatal when its process dies, and the answer of a payment of Lossy    *)
(* may be lost.  All the lines are of one article, sold at the price 1;    *)
(* the cash rows, which nothing removes, are one amount.                   *)
(*                                                                         *)
(* Sources: pos/pos.service.ts, stock/stock.service.ts (createMovement),   *)
(* migrations 033, 034 and 046 (add_pos_payment).                          *)
(***************************************************************************)
EXTENDS Integers, FiniteSets, FiniteSetsExt

CONSTANTS
  Lines,   \* rows the ticket may get in pos_ticket_items
  Codes,   \* QR parts it may get, each with its row and its payment request
  Workers, \* requests under way
  None,    \* null
  MaxQty,  \* bound: quantity of a line
  Shelf,   \* stock_items.quantity before the ticket
  Lossy,   \* methods whose add_pos_payment may go through unanswered
  Fatal    \* steps before which a process may stop

Requests == {"none", "CREATED", "PROCESSING", "PAID", "EXPIRED", "CANCELLED"}
Steps    == {"idle", "line", "void", "sum", "total", "syncCash", "cash", "syncQr", "mint",
             "qr", "unmint", "mirror", "close", "delete", "unmirror", "cancel", "pending",
             "ask", "reread", "settle", "legacy", "items", "deduct"}

ASSUME PosAssumption ==
  /\ IsFiniteSet(Lines) /\ IsFiniteSet(Codes) /\ Lines \cap Codes = {}
  /\ IsFiniteSet(Workers)
  /\ None \notin Lines \cup Codes
  /\ MaxQty \in Nat \ {0} /\ Shelf \in Nat
  /\ Lossy \subseteq {"cash", "qr"}
  /\ Fatal \subseteq Steps \ {"idle"}

VARIABLES
  status,  \* pos_tickets.status
  total,   \* pos_tickets.total_cents
  mirror,  \* pos_tickets.payment_request_id
  line,    \* pos_ticket_items: quantity (0: no row), active or voided
  cash,    \* sum of the cash rows of pos_ticket_payments
  code,    \* its ScanLinkPay rows: amount (0: no row), confirmed or pending
  request, \* payment_requests.status of a QR part
  left,    \* stock_items.quantity
  exits,   \* 'sale' movements written for a line
  peak,    \* history: the highest total the ticket has had
  worker   \* what a request has in hand

vars    == <<status, total, mirror, line, cash, code, request, left, exits, peak, worker>>
ticket  == <<status, total, mirror, peak>>
money   == <<cash, code, request>>
goods   == <<left, exits>>

Most  == 0..MaxQty * Cardinality(Lines)
Hands == [pc: Steps, total: Most, amount: Most, sure: Most,
          row: Lines \cup Codes \cup {None}, todo: SUBSET Codes, take: [Lines -> 0..MaxQty]]
Free  == [pc |-> "idle", total |-> 0, amount |-> 0, sure |-> 0, row |-> None, todo |-> {},
          take |-> [l \in Lines |-> 0]]

At(k, step)   == worker[k].pc = step
Idle(k)       == At(k, "idle")
Hold(k, hand) == worker' = [worker EXCEPT ![k] = hand]
Goto(k, step) == Hold(k, [worker[k] EXCEPT !.pc = step])
Finish(k)     == Hold(k, Free)
Only(k, step, row) == Hold(k, [Free EXCEPT !.pc = step, !.row = row])

Init ==
  /\ status = "open" /\ total = 0 /\ mirror = None
  /\ line = [l \in Lines |-> [qty |-> 0, active |-> FALSE]]
  /\ cash = 0
  /\ code = [p \in Codes |-> [amount |-> 0, sure |-> FALSE]]
  /\ request = [p \in Codes |-> "none"]
  /\ left = Shelf
  /\ exits = [l \in Lines |-> 0]
  /\ peak = 0
  /\ worker = [k \in Workers |-> Free]

-----------------------------------------------------------------------------
(* What the handlers compute from the rows they read.                      *)

Active       == {l \in Lines : line[l].active}
computeTotals == MapThenSumSet(LAMBDA l : line[l].qty, Active)
Rows         == {p \in Codes : code[p].amount > 0}
Confirmed    == {p \in Rows : code[p].sure}
Pending      == Rows \ Confirmed
Sum(ps)      == MapThenSumSet(LAMBDA p : code[p].amount, ps)
SpokenFor    == cash + Sum(Rows)
PaidSum      == cash + Sum(Confirmed)

SetTotal(n) ==
  /\ total' = n
  /\ peak' = IF n > peak THEN n ELSE peak

-----------------------------------------------------------------------------
(* The lines.  Each handler writes one, then stores the total of the lines *)
(* as they are after its write.                                            *)

Unused   == {l \in Lines : line[l].qty = 0}
Inserts  == {k \in Workers : At(k, "line") /\ worker[k].row = None}

\* A product already on the ticket grows its line, another gets a new one.
addItem(k) ==
  /\ Idle(k) /\ status = "open"
  /\ IF Active = {}
     THEN /\ left > 0 /\ Cardinality(Inserts) < Cardinality(Unused)
          /\ Hold(k, [Free EXCEPT !.pc = "line", !.amount = 1])
     ELSE \E l \in Active :
            /\ line[l].qty < MaxQty /\ line[l].qty < left
            /\ Hold(k, [Free EXCEPT !.pc = "line", !.row = l, !.amount = line[l].qty + 1])
  /\ UNCHANGED <<ticket, line, money, goods>>

updateItemQuantity(k) ==
  /\ Idle(k) /\ status = "open"
  /\ \E l \in Active, n \in 1..MaxQty :
       /\ n <= left
       /\ Hold(k, [Free EXCEPT !.pc = "line", !.row = l, !.amount = n])
  /\ UNCHANGED <<ticket, line, money, goods>>

\* An insert has a row of its own, whoever else inserts; an update leaves a
\* line voided meanwhile as it is.
WriteLine(k) ==
  /\ At(k, "line")
  /\ \/ /\ worker[k].row # None
        /\ line' = [line EXCEPT ![worker[k].row].qty = worker[k].amount]
     \/ /\ worker[k].row = None
        /\ \E l \in Unused : line' = [line EXCEPT ![l] = [qty |-> worker[k].amount, active |-> TRUE]]
  /\ Only(k, "sum", None)
  /\ UNCHANGED <<ticket, money, goods>>

voidItem(k) ==
  /\ Idle(k) /\ status = "open"
  /\ \E l \in Active : Hold(k, [Free EXCEPT !.pc = "void", !.row = l])
  /\ UNCHANGED <<ticket, line, money, goods>>

VoidLine(k) ==
  /\ At(k, "void")
  /\ line' = [line EXCEPT ![worker[k].row].active = FALSE]
  /\ Only(k, "sum", None)
  /\ UNCHANGED <<ticket, money, goods>>

\* saveTotals reads the lines again, whatever its caller knew of them ...
ReadLines(k) ==
  /\ At(k, "sum")
  /\ Hold(k, [Free EXCEPT !.pc = "total", !.total = computeTotals])
  /\ UNCHANGED <<ticket, line, money, goods>>

\* ... and writes their total without asking whether the ticket is open.
saveTotals(k) ==
  /\ At(k, "total")
  /\ SetTotal(worker[k].total)
  /\ Finish(k)
  /\ UNCHANGED <<status, mirror, line, money, goods>>

-----------------------------------------------------------------------------
(* Cash.                                                                   *)

\* An amount of what is left, once the stored total agrees with the lines; the
\* total is corrected even when the amount is refused.
Offer(k, sync, pay) ==
  \/ /\ total # computeTotals
     /\ Hold(k, [Free EXCEPT !.pc = sync, !.total = computeTotals])
  \/ \E n \in Most \ {0} :
       /\ n <= computeTotals - SpokenFor
       /\ Hold(k, [Free EXCEPT !.pc = IF total = computeTotals THEN pay ELSE sync,
                               !.total = computeTotals, !.amount = n, !.sure = PaidSum])

payCash(k) ==
  /\ Idle(k) /\ status = "open"
  /\ Offer(k, "syncCash", "cash")
  /\ UNCHANGED <<ticket, line, money, goods>>

syncTotals(k) ==
  /\ worker[k].pc \in {"syncCash", "syncQr"}
  /\ IF worker[k].amount = 0 THEN Finish(k)
     ELSE Goto(k, IF At(k, "syncCash") THEN "cash" ELSE "mint")
  /\ SetTotal(worker[k].total)
  /\ UNCHANGED <<status, mirror, line, money, goods>>

\* Mutant: the remainder is the one computed when the call began.
MayAdd_AsRead(k) ==
  /\ status = "open"
  /\ worker[k].amount <= worker[k].total - worker[k].sure

\* Under the lock of the ticket: open, and no more than is left of it.
MayAdd(k) ==
  /\ status = "open"
  /\ worker[k].amount <= total - SpokenFor

\* The call goes on with the payments it read when it began, and its own.
AddCash(k) ==
  /\ At(k, "cash")
  /\ \/ /\ MayAdd(k)
        /\ cash' = cash + worker[k].amount
        /\ LET known == worker[k].sure + worker[k].amount IN
             \/ IF known >= worker[k].total THEN Only(k, "settle", None) ELSE Finish(k)
             \/ "cash" \in Lossy /\ Finish(k)
     \/ /\ ~MayAdd(k)
        /\ Finish(k) /\ UNCHANGED cash
  /\ UNCHANGED <<ticket, line, code, request, goods>>

-----------------------------------------------------------------------------
(* ScanLinkPay.                                                            *)

\* A pending part is shown again rather than doubled.
payScanlinkpay(k) ==
  /\ Idle(k) /\ status = "open" /\ Pending = {}
  /\ Offer(k, "syncQr", "mint")
  /\ UNCHANGED <<ticket, line, money, goods>>

createPaymentRequest(k) ==
  /\ At(k, "mint")
  /\ \/ \E p \in Codes :
          /\ request[p] = "none"
          /\ request' = [request EXCEPT ![p] = "CREATED"]
          /\ Hold(k, [worker[k] EXCEPT !.pc = "qr", !.row = p])
     \/ Finish(k) /\ UNCHANGED request
  /\ UNCHANGED <<ticket, line, cash, code, goods>>

AddCode(k) ==
  /\ At(k, "qr")
  /\ \/ /\ MayAdd(k)
        /\ code' = [code EXCEPT ![worker[k].row] = [amount |-> worker[k].amount, sure |-> FALSE]]
        /\ \/ Only(k, "mirror", worker[k].row)
           \/ "qr" \in Lossy /\ Only(k, "unmint", worker[k].row)
     \/ /\ ~MayAdd(k)
        /\ Only(k, "unmint", worker[k].row) /\ UNCHANGED code
  /\ UNCHANGED <<ticket, line, cash, request, goods>>

\* Refused: the QR just made is closed, if nobody has confirmed it.
Unmint(k) ==
  /\ At(k, "unmint")
  /\ request' = IF request[worker[k].row] = "CREATED"
                THEN [request EXCEPT ![worker[k].row] = "CANCELLED"] ELSE request
  /\ Finish(k)
  /\ UNCHANGED <<ticket, line, cash, code, goods>>

Mirror(k) ==
  /\ At(k, "mirror")
  /\ mirror' = worker[k].row
  /\ Finish(k)
  /\ UNCHANGED <<status, total, peak, line, money, goods>>

\* Mutant: the row goes and its QR is left to expire.
VoidPayment_LeavesQr(k) ==
  /\ Idle(k) /\ status = "open"
  /\ \E p \in Pending :
       Hold(k, [Free EXCEPT !.pc = "delete", !.row = p,
                            !.todo = IF mirror = p THEN {p} ELSE {}])
  /\ UNCHANGED <<ticket, line, money, goods>>

voidPayment(k) ==
  /\ Idle(k) /\ status = "open"
  /\ \E p \in Pending :
       Hold(k, [Free EXCEPT !.pc = "close", !.row = p,
                            !.todo = IF mirror = p THEN {p} ELSE {}])
  /\ UNCHANGED <<ticket, line, money, goods>>

\* Only while nobody is paying it.
CloseCode(k) ==
  /\ At(k, "close")
  /\ IF request[worker[k].row] \in {"CREATED", "EXPIRED"}
     THEN /\ request' = [request EXCEPT ![worker[k].row] = "CANCELLED"]
          /\ Goto(k, "delete")
     ELSE Finish(k) /\ UNCHANGED request
  /\ UNCHANGED <<ticket, line, cash, code, goods>>

\* The row goes, and with it the mirror that showed its QR, in any order.
DeleteCode(k) ==
  /\ At(k, "delete")
  /\ code' = [code EXCEPT ![worker[k].row] = [amount |-> 0, sure |-> FALSE]]
  /\ IF worker[k].todo = {} THEN Finish(k) ELSE Goto(k, "unmirror")
  /\ UNCHANGED <<ticket, line, cash, request, goods>>

Unmirror(k) ==
  /\ mirror' = None
  /\ \/ At(k, "unmirror") /\ Finish(k)
     \/ At(k, "delete") /\ worker[k].todo # {} /\ Hold(k, [worker[k] EXCEPT !.todo = {}])
  /\ UNCHANGED <<status, total, peak, line, money, goods>>

-----------------------------------------------------------------------------
(* Reading the ticket, which also settles it.                              *)

getTicket(k) ==
  /\ Idle(k) /\ status = "open"
  /\ Hold(k, [Free EXCEPT !.pc = "pending", !.total = total, !.row = mirror])
  /\ UNCHANGED <<ticket, line, money, goods>>

\* Mutant: only the QR shown on the ticket is asked about.
TrySettle_MirrorOnly(k) ==
  /\ At(k, "pending")
  /\ IF Pending \cap {worker[k].row} # {}
     THEN Hold(k, [worker[k] EXCEPT !.pc = "ask", !.row = None, !.todo = {worker[k].row}])
     ELSE Finish(k)
  /\ UNCHANGED <<ticket, line, money, goods>>

\* With no pending part, the ticket's own QR decides.
trySettleScanlinkpayTicket(k) ==
  /\ At(k, "pending")
  /\ CASE Pending # {} -> Hold(k, [worker[k] EXCEPT !.pc = "ask", !.row = None, !.todo = Pending])
       [] Pending = {} /\ worker[k].row # None -> Only(k, "legacy", worker[k].row)
       [] OTHER -> Finish(k)
  /\ UNCHANGED <<ticket, line, money, goods>>

AskCode(k) ==
  /\ At(k, "ask")
  /\ \E p \in worker[k].todo :
       /\ code' = IF request[p] = "PAID" /\ p \in Pending
                  THEN [code EXCEPT ![p].sure = TRUE] ELSE code
       /\ Hold(k, [worker[k] EXCEPT !.todo = @ \ {p},
                                    !.pc = IF worker[k].todo = {p} THEN "reread" ELSE "ask"])
  /\ UNCHANGED <<ticket, line, cash, request, goods>>

\* The total is the one of the ticket as it was read; the payments are not.
settleIfFullyPaid(k) ==
  /\ At(k, "reread")
  /\ IF worker[k].total > 0 /\ PaidSum >= worker[k].total THEN Only(k, "settle", None) ELSE Finish(k)
  /\ UNCHANGED <<ticket, line, money, goods>>

\* Whoever closes the open ticket takes its articles out.
ClosePaid(k) ==
  \/ status = "open" /\ status' = "paid" /\ Only(k, "items", None)
  \/ status # "open" /\ Finish(k) /\ UNCHANGED status

Settle(k) ==
  /\ At(k, "settle")
  /\ ClosePaid(k)
  /\ UNCHANGED <<total, mirror, peak, line, money, goods>>

SettleLegacy(k) ==
  /\ At(k, "legacy")
  /\ IF request[worker[k].row] = "PAID" THEN ClosePaid(k) ELSE Finish(k) /\ UNCHANGED status
  /\ UNCHANGED <<total, mirror, peak, line, money, goods>>

-----------------------------------------------------------------------------
(* The shelf, in the background.                                           *)

deductStockForTicket(k) ==
  /\ At(k, "items")
  /\ IF Active = {} THEN Finish(k)
     ELSE Hold(k, [Free EXCEPT !.pc = "deduct",
            !.take = [l \in Lines |-> IF l \in Active THEN line[l].qty ELSE 0]])
  /\ UNCHANGED <<ticket, line, money, goods>>

\* Mutant: the constraint of migration 046 is not there.
CreateMovement_NoConstraint(k) ==
  /\ At(k, "deduct")
  /\ \E l \in Lines :
       /\ worker[k].take[l] > 0
       /\ left' = left - worker[k].take[l] /\ exits' = [exits EXCEPT ![l] = @ + 1]
       /\ Hold(k, [worker[k] EXCEPT !.take[l] = 0])
  /\ UNCHANGED <<ticket, line, money>>

\* Too little on the shelf: the line is left out, and nobody is told.
createMovement(k) ==
  /\ At(k, "deduct")
  /\ \E l \in Lines :
       LET n == worker[k].take[l]
           rest == [worker[k].take EXCEPT ![l] = 0]
       IN
       /\ n > 0
       /\ IF n <= left
          THEN left' = left - n /\ exits' = [exits EXCEPT ![l] = @ + 1]
          ELSE UNCHANGED goods
       /\ IF \A m \in Lines : rest[m] = 0 THEN Finish(k)
          ELSE Hold(k, [worker[k] EXCEPT !.take = rest])
  /\ UNCHANGED <<ticket, line, money>>

\* The other tickets of the shop sell what is left of the article.
SoldElsewhere ==
  /\ left > 0 /\ left' = 0
  /\ UNCHANGED <<ticket, line, money, exits, worker>>

-----------------------------------------------------------------------------
(* The end of a ticket that is not paid.                                   *)

cancelTicket(k) ==
  /\ Idle(k) /\ status = "open"
  /\ cash = 0 /\ Rows = {}
  /\ Goto(k, "cancel")
  /\ UNCHANGED <<ticket, line, money, goods>>

\* Whatever became of the ticket since it was read.
CancelNow(k) ==
  /\ At(k, "cancel")
  /\ status' = "cancelled"
  /\ Finish(k)
  /\ UNCHANGED <<total, mirror, peak, line, money, goods>>

-----------------------------------------------------------------------------
(* The customer, who sees a QR once its row is there, and the clock.       *)

Ask(p, from, to) ==
  /\ request[p] = from
  /\ request' = [request EXCEPT ![p] = to]
  /\ UNCHANGED <<ticket, line, cash, code, goods, worker>>

ClaimCode(p)  == p \in Rows /\ Ask(p, "CREATED", "PROCESSING")

\* Mutant: a late failure reopens a request already paid.
CodeFailed_Late(p) == Ask(p, "PROCESSING", "CREATED") \/ Ask(p, "PAID", "CREATED")

CodeFailed(p) == Ask(p, "PROCESSING", "CREATED")
CodePaid(p)   == Ask(p, "PROCESSING", "PAID")
markExpired(p) == Ask(p, "CREATED", "EXPIRED")

Interrupt(k) ==
  /\ worker[k].pc \in Fatal
  /\ Finish(k)
  /\ UNCHANGED <<ticket, line, money, goods>>

-----------------------------------------------------------------------------
Poll(k) == trySettleScanlinkpayTicket(k) \/ AskCode(k) \/ settleIfFullyPaid(k)
           \/ Settle(k) \/ SettleLegacy(k) \/ deductStockForTicket(k) \/ createMovement(k)
Write(k) == \/ WriteLine(k) \/ VoidLine(k) \/ ReadLines(k) \/ saveTotals(k)
            \/ syncTotals(k) \/ AddCash(k)
            \/ createPaymentRequest(k) \/ AddCode(k) \/ Unmint(k) \/ Mirror(k)
            \/ CloseCode(k) \/ DeleteCode(k) \/ Unmirror(k) \/ CancelNow(k)
Call(k)  == \/ addItem(k) \/ updateItemQuantity(k) \/ voidItem(k) \/ payCash(k)
            \/ payScanlinkpay(k) \/ voidPayment(k) \/ getTicket(k) \/ cancelTicket(k)

Next ==
  \/ \E k \in Workers : Call(k) \/ Write(k) \/ Poll(k) \/ Interrupt(k)
  \/ \E p \in Codes : ClaimCode(p) \/ CodeFailed(p) \/ CodePaid(p) \/ markExpired(p)
  \/ SoldElsewhere

Spec == Init /\ [][Next]_vars

\* A request under way goes on (or its process stops).  Nobody has to read the
\* ticket: the till does so only while its payment sheet is open.
FairSpec == Spec /\ \A k \in Workers : WF_vars(Write(k) \/ Poll(k))

-----------------------------------------------------------------------------
(* Properties.                                                             *)

TypeOK ==
  /\ status \in {"open", "paid", "cancelled"}
  /\ total \in Most /\ peak \in Most /\ cash \in Most
  /\ mirror \in Codes \cup {None}
  /\ line \in [Lines -> [qty: 0..MaxQty, active: BOOLEAN]]
  /\ code \in [Codes -> [amount: Most, sure: BOOLEAN]]
  /\ request \in [Codes -> Requests]
  /\ left \in 0..Shelf
  /\ exits \in [Lines -> Nat]
  /\ worker \in [Workers -> Hands]

\* However payments cross, the customer is never asked for more, in all, than
\* the ticket has been worth at some moment (add_pos_payment, migration 046).
NeverAskedForMore == SpokenFor <= peak

\* Money a customer has paid, or is paying, by a QR is on the ticket: a part
\* that is taken off had its QR closed first (voidPayment).
PaidQrHasItsRow == \A p \in Codes : request[p] \in {"PROCESSING", "PAID"} => p \in Rows

\* A confirmed part is real money: nothing changes it or removes it.
ConfirmedStays == [][\A p \in Codes : code[p].sure => code'[p] = code[p]]_code

\* A ticket that several devices settle at once gives up its articles once.
StockLeavesOnce == \A l \in Lines : exits[l] <= 1

\* Articles leave only for a ticket that has been paid, at least in part.
GoodsFollowMoney == (\E l \in Lines : exits[l] > 0) => cash > 0 \/ Confirmed # {}

\* The articles of a ticket: the shelf never goes below nothing, and the two above.
ArticlesAddUp == TypeOK /\ StockLeavesOnce /\ GoodsFollowMoney

\* While the till goes on reading the open ticket (PosPayment.tsx:52-57), a QR
\* that was paid ends up counted on it, wherever earlier requests stopped.  A
\* ticket closed meanwhile is not read again, and its QR is never counted.
ReadForEver == []<><<\E k \in Workers : getTicket(k)>>_vars
QrIsCounted == ReadForEver => \A p \in Codes : request[p] = "PAID" ~> code[p].sure

=============================================================================
