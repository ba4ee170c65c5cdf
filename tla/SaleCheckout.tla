---------------------------- MODULE SaleCheckout ----------------------------
(***************************************************************************)
(* The sales of a shop, from the basket to the shelf: each sale has a      *)
(* payment request shown as a QR; the customer pays it with the phone, or  *)
(* the cashier takes cash, or the sale is cancelled or expires; its        *)
(* articles leave the stock once it is paid.  The threads are the seller,  *)
(* the cashier, anyone looking at the sale, the expiry job and the         *)
(* payment handlers; each step is one statement, and a process may stop    *)
(* before a step named in Fatal.  An error the code looks at ends the      *)
(* handler, as a stop before the next step does; reads are answered.       *)
(*                                                                         *)
(* The payment of the QR is seen from the sale only: it claims the request,*)
(* then gives it back or marks it PAID (PaymentSettlement has the detail). *)
(*                                                                         *)
(* Sources: sales/sales.service.ts (SS), payments/payments.service.ts (PS),*)
(* payment-requests/payment-requests.service.ts, migrations 031, 046, 075. *)
(***************************************************************************)
EXTENDS Integers, FiniteSets

CONSTANTS
  Sales,    \* sales made with the network
  Offline,  \* client_refs of sales made without it
  Items,    \* stock_items
  Basket,   \* Basket[s][i]: how many of article i sale s takes
  Shelf,    \* Shelf[i]: quantity at the start
  Workers,  \* calls under way
  None,     \* "no sale"
  Fatal     \* steps before which the process may stop

Steps == {"idle", "request", "sale", "lines", "claim", "expire", "overdue", "drop",
          "check", "close", "cash", "void", "view", "mark", "pay", "release", "move"}

ASSUME SaleAssumption ==
  /\ Basket \in [Sales \cup Offline -> [Items -> Nat]]
  /\ Shelf \in [Items -> Nat]
  /\ None \notin Sales
  /\ Sales \cap Offline = {}
  /\ Fatal \subseteq Steps

VARIABLES
  sale,      \* sales.status ("NONE": no row)
  method,    \* sales.payment_method
  lines,     \* its sale_items are written
  request,   \* payment_requests.status ("NONE": no row)
  due,       \* expires_at is past
  paying,    \* the payment of the QR: "no", under way ("yes") or "paid"
  quantity,  \* stock_items.quantity
  out,       \* out[s][i]: stock movements of the sale, summed
  recorded,  \* offline sales already recorded
  pc,        \* the step a worker is about to take
  on,        \* the sale it works on
  todo,      \* articles it still has to take off the shelf
  take       \* how many of the one it read the quantity of, by article

desk  == <<sale, method, lines>>
qr    == <<request, due, paying>>
store == <<quantity, out, recorded>>
hands == <<todo, take>>
vars  == <<desk, qr, store, pc, on, hands>>

Least(a, b) == IF a < b THEN a ELSE b
Wanted(s)   == {i \in Items : Basket[s][i] > 0}
Lines(s)    == IF lines[s] THEN Wanted(s) ELSE {}
Nothing     == [i \in Items |-> 0]
Free(s)     == \A k \in Workers : on[k] # s

-----------------------------------------------------------------------------
(* How a worker moves.                                                     *)

At(k, step)   == pc[k] = step
Goto(k, step) == pc' = [pc EXCEPT ![k] = step] /\ UNCHANGED <<on, hands>>

Begin(k, s, step) ==
  /\ At(k, "idle")
  /\ pc' = [pc EXCEPT ![k] = step]
  /\ on' = [on EXCEPT ![k] = s]
  /\ UNCHANGED hands

Finish(k) ==
  /\ pc' = [pc EXCEPT ![k] = "idle"]
  /\ on' = [on EXCEPT ![k] = None]
  /\ todo' = [todo EXCEPT ![k] = {}]
  /\ take' = [take EXCEPT ![k] = Nothing]

\* releaseStock starts: the lines of the sale are read.
Release(k) ==
  /\ pc' = [pc EXCEPT ![k] = "release"]
  /\ todo' = [todo EXCEPT ![k] = Lines(on[k])]
  /\ UNCHANGED <<on, take>>

SetSale(s, status)    == sale' = [sale EXCEPT ![s] = status]
SetRequest(s, status) == request' = [request EXCEPT ![s] = status]

-----------------------------------------------------------------------------
Init ==
  /\ sale = [s \in Sales |-> "NONE"]
  /\ method = [s \in Sales |-> "wallet"]
  /\ lines = [s \in Sales |-> FALSE]
  /\ request = [s \in Sales |-> "NONE"]
  /\ due = [s \in Sales |-> FALSE]
  /\ paying = [s \in Sales |-> "no"]
  /\ quantity = Shelf
  /\ out = [s \in Sales |-> [i \in Items |-> 0]]
  /\ recorded = {}
  /\ pc = [k \in Workers |-> "idle"]
  /\ on = [k \in Workers |-> None]
  /\ todo = [k \in Workers |-> {}]
  /\ take = [k \in Workers |-> Nothing]

-----------------------------------------------------------------------------
(* Making a sale (createSale): nothing is reserved on the shelf.           *)

createSale(k, s) ==
  /\ request[s] = "NONE" /\ Free(s)
  /\ \A i \in Wanted(s) : Basket[s][i] <= quantity[i]
  /\ Begin(k, s, "request")
  /\ UNCHANGED <<desk, qr, store>>

InsertRequest(k) ==
  /\ At(k, "request")
  /\ SetRequest(on[k], "CREATED")
  /\ Goto(k, "sale")
  /\ UNCHANGED <<desk, due, paying, store>>

InsertSale(k) ==
  /\ At(k, "sale")
  /\ SetSale(on[k], "PENDING")
  /\ Goto(k, "lines")
  /\ UNCHANGED <<method, lines, qr, store>>

InsertLines(k) ==
  /\ At(k, "lines")
  /\ lines' = [lines EXCEPT ![on[k]] = TRUE]
  /\ Finish(k)
  /\ UNCHANGED <<sale, method, qr, store>>

-----------------------------------------------------------------------------
(* Cancelling and expiring: the QR is closed first.                        *)

Close_BeingPaid(k) ==              \* .in(['CREATED', 'EXPIRED', 'PENDING'])
  IF request[on[k]] \in {"CREATED", "EXPIRED", "PENDING"}
    THEN SetRequest(on[k], "CANCELLED") /\ Goto(k, "drop")
    ELSE UNCHANGED request /\ Finish(k)

CloseQr(k) ==
  IF request[on[k]] \in {"CREATED", "EXPIRED"}
    THEN SetRequest(on[k], "CANCELLED") /\ Goto(k, "drop")
    ELSE UNCHANGED request /\ Finish(k)

cancelSale(k, s) ==
  /\ sale[s] = "PENDING"
  /\ Begin(k, s, "void")
  /\ UNCHANGED <<desk, qr, store>>

VoidQr(k) ==
  /\ At(k, "void") /\ CloseQr(k)
  /\ UNCHANGED <<desk, due, paying, store>>

Job_CreatedOnly(k, s) ==           \* .eq('status', 'CREATED')
  /\ due[s] /\ request[s] = "CREATED" /\ sale[s] = "PENDING"
  /\ Begin(k, s, "expire")
  /\ UNCHANGED <<desk, qr, store>>

expireOverdueSales(k, s) ==
  /\ due[s] /\ request[s] \in {"CREATED", "EXPIRED"} /\ sale[s] = "PENDING"
  /\ Begin(k, s, "expire")
  /\ UNCHANGED <<desk, qr, store>>

expireSale(k) ==
  /\ At(k, "expire") /\ CloseQr(k)
  /\ UNCHANGED <<desk, due, paying, store>>

DropSale(k) ==
  LET s == on[k] IN
  /\ At(k, "drop")
  /\ IF sale[s] = "PENDING" THEN SetSale(s, "CANCELLED") ELSE UNCHANGED sale
  /\ Finish(k)
  /\ UNCHANGED <<method, lines, qr, store>>

-----------------------------------------------------------------------------
(* Cash (payCash).                                                         *)

payCash(k, s) ==
  /\ sale[s] = "PENDING"
  /\ Begin(k, s, "overdue")
  /\ UNCHANGED <<desk, qr, store>>

\* expireSale first: an overdue sale is cancelled instead.
Overdue(k) ==
  LET s == on[k] IN
  /\ At(k, "overdue")
  /\ IF due[s] /\ request[s] \in {"CREATED", "EXPIRED"}
       THEN SetRequest(s, "CANCELLED") /\ Goto(k, "drop")
       ELSE UNCHANGED request /\ Goto(k, "check")
  /\ UNCHANGED <<desk, due, paying, store>>

assertStillInStock(k) ==
  /\ At(k, "check")
  /\ IF \A i \in Lines(on[k]) : Basket[on[k]][i] <= quantity[i]
       THEN Goto(k, "close") ELSE Finish(k)
  /\ UNCHANGED <<desk, qr, store>>

CloseForCash(k) ==
  LET s == on[k] IN
  /\ At(k, "close")
  /\ IF request[s] = "CREATED"
       THEN SetRequest(s, "CANCELLED") /\ Goto(k, "cash")
       ELSE UNCHANGED request /\ Finish(k)
  /\ UNCHANGED <<desk, due, paying, store>>

TakeCash(k) ==
  LET s == on[k] IN
  /\ At(k, "cash")
  /\ IF sale[s] = "PENDING"
       THEN /\ SetSale(s, "PAID")
            /\ method' = [method EXCEPT ![s] = "cash"]
            /\ Release(k)
       ELSE UNCHANGED <<sale, method>> /\ Finish(k)
  /\ UNCHANGED <<lines, qr, store>>

-----------------------------------------------------------------------------
(* Marking a sale paid (markPaidByPaymentRequest).                         *)

ReadSale(k) ==
  /\ At(k, "mark")
  /\ IF sale[on[k]] = "PENDING" THEN Goto(k, "pay") ELSE Finish(k)
  /\ UNCHANGED <<desk, qr, store>>

\* The update is conditional, but what it matched is not looked at.
MarkSalePaid(k) ==
  LET s == on[k] IN
  /\ At(k, "pay")
  /\ IF sale[s] = "PENDING" THEN SetSale(s, "PAID") ELSE UNCHANGED sale
  /\ Release(k)
  /\ UNCHANGED <<method, lines, qr, store>>

\* getSale: someone looks at a sale that is still PENDING.
getSale(k, s) ==
  /\ sale[s] = "PENDING"
  /\ Begin(k, s, "view")
  /\ UNCHANGED <<desk, qr, store>>

LookAtQr(k) ==
  LET s == on[k] IN
  /\ At(k, "view")
  /\ CASE request[s] = "PAID" -> Goto(k, "mark")
       [] request[s] # "PAID" /\ due[s] -> Goto(k, "expire")
       [] OTHER -> Finish(k)
  /\ UNCHANGED <<desk, qr, store>>

-----------------------------------------------------------------------------
(* The shelf (releaseStock; the trigger of 031, the constraint of 046).    *)

\* The quantity left is read, line by line, in any order.
ReadShelf(k) ==
  /\ At(k, "release")
  /\ \E i \in todo[k] :
       LET n == Least(Basket[on[k]][i], quantity[i]) IN
       /\ todo' = [todo EXCEPT ![k] = @ \ {i}]
       /\ take' = [take EXCEPT ![k][i] = n]
       /\ pc' = [pc EXCEPT ![k] = IF n > 0 THEN "move" ELSE "release"]
  /\ UNCHANGED <<desk, qr, store, on>>

ShelfDone(k) ==
  /\ At(k, "release") /\ todo[k] = {}
  /\ Finish(k)
  /\ UNCHANGED <<desk, qr, store>>

Moved(k) ==
  /\ pc' = [pc EXCEPT ![k] = "release"]
  /\ take' = [take EXCEPT ![k] = Nothing]
  /\ UNCHANGED <<on, todo, desk, qr, recorded>>

Move_NoConstraint(k) ==            \* without stock_items_quantity_nonnegative
  /\ At(k, "move")
  /\ \E i \in Items :
       /\ take[k][i] > 0
       /\ quantity' = [quantity EXCEPT ![i] = @ - take[k][i]]
       /\ out' = [out EXCEPT ![on[k]][i] = @ + take[k][i]]
  /\ Moved(k)

\* The movement is inserted, or the insert fails (the constraint refuses what
\* the trigger would do, or any other error): that is logged, and the next
\* line follows.
MoveOut(k) ==
  /\ At(k, "move")
  /\ \E i \in Items :
       /\ take[k][i] > 0
       /\ \/ /\ take[k][i] <= quantity[i]
             /\ quantity' = [quantity EXCEPT ![i] = @ - take[k][i]]
             /\ out' = [out EXCEPT ![on[k]][i] = @ + take[k][i]]
          \/ UNCHANGED <<quantity, out>>
  /\ Moved(k)

\* record_offline_org_sale: one transaction, once per client_ref.
record_offline_org_sale(o) ==
  /\ o \notin recorded
  /\ recorded' = recorded \cup {o}
  /\ quantity' = [i \in Items |-> quantity[i] - Least(Basket[o][i], quantity[i])]
  /\ UNCHANGED <<desk, qr, out, pc, on, hands>>

-----------------------------------------------------------------------------
(* The customer's payment of the QR, the merchant and the clock.           *)

\* The request is read CREATED and not expired, then claimed (createPayment,
\* payWithWallet).
PayQr(k, s) ==
  /\ request[s] = "CREATED" /\ ~due[s]
  /\ Begin(k, s, "claim")
  /\ UNCHANGED <<desk, qr, store>>

ClaimQr(k) ==
  LET s == on[k] IN
  /\ At(k, "claim")
  /\ IF request[s] = "CREATED"
       THEN SetRequest(s, "PENDING") /\ paying' = [paying EXCEPT ![s] = "yes"]
       ELSE UNCHANGED <<request, paying>>
  /\ Finish(k)
  /\ UNCHANGED <<desk, due, store>>

\* The payment failed: the request is payable again (some paths do not look
\* at its status).  A payment that never comes here holds its claim for ever.
QrFailed(s) ==
  /\ paying[s] = "yes"
  /\ paying' = [paying EXCEPT ![s] = "no"]
  /\ \/ SetRequest(s, "CREATED")
     \/ request[s] # "PENDING" /\ UNCHANGED request
  /\ UNCHANGED <<desk, due, store, pc, on, hands>>

\* markPaid (whatever the status is by now; its error is not looked at), then
\* the handler marks the sale.
QrPaid(k, s) ==
  /\ paying[s] = "yes"
  /\ paying' = [paying EXCEPT ![s] = "paid"]
  /\ SetRequest(s, "PAID") \/ UNCHANGED request
  /\ Begin(k, s, "mark")
  /\ UNCHANGED <<desk, due, store>>

cancelRequest(s) ==
  /\ request[s] \in {"CREATED", "PENDING"}
  /\ SetRequest(s, "CANCELLED")
  /\ UNCHANGED <<desk, due, paying, store, pc, on, hands>>

markExpired(s) ==
  /\ due[s] /\ request[s] = "CREATED"
  /\ SetRequest(s, "EXPIRED")
  /\ UNCHANGED <<desk, due, paying, store, pc, on, hands>>

QuarterHour(s) ==                  \* SALE_QR_TTL_MS
  /\ request[s] # "NONE" /\ ~due[s]
  /\ due' = [due EXCEPT ![s] = TRUE]
  /\ UNCHANGED <<desk, request, paying, store, pc, on, hands>>

Interrupt(k) ==
  /\ pc[k] \in Fatal \ {"idle"}
  /\ Finish(k)
  /\ UNCHANGED <<desk, qr, store>>

-----------------------------------------------------------------------------
Start(k, s) ==
  \/ createSale(k, s) \/ cancelSale(k, s) \/ expireOverdueSales(k, s)
  \/ payCash(k, s) \/ getSale(k, s) \/ PayQr(k, s) \/ QrPaid(k, s)

Continue(k) ==
  \/ InsertRequest(k) \/ InsertSale(k) \/ InsertLines(k)
  \/ VoidQr(k) \/ expireSale(k) \/ DropSale(k)
  \/ Overdue(k) \/ assertStillInStock(k) \/ CloseForCash(k) \/ TakeCash(k)
  \/ ReadSale(k) \/ MarkSalePaid(k) \/ LookAtQr(k)
  \/ ReadShelf(k) \/ ShelfDone(k) \/ MoveOut(k) \/ ClaimQr(k)

Surroundings(s) ==
  QrFailed(s) \/ cancelRequest(s) \/ markExpired(s) \/ QuarterHour(s)

Next ==
  \/ \E k \in Workers : \/ \E s \in Sales : Start(k, s)
                         \/ Continue(k) \/ Interrupt(k)
  \/ \E s \in Sales : Surroundings(s)
  \/ \E o \in Offline : record_offline_org_sale(o)

Spec == Init /\ [][Next]_vars

(* Fairness.  A call under way ends (or stops), the expiry job comes every   *)
(* minute and is not stopped at the same step each time.  Customers, clerks *)
(* and viewers owe nothing, and neither does the payment of the QR: a stop  *)
(* after its claim, or a claim it could not give back (PS :138), leaves the *)
(* request PENDING for ever.                                                *)
Fairness ==
  /\ \A k \in Workers : WF_vars(Continue(k))
  /\ \A s \in Sales :
       /\ SF_vars(\E k \in Workers : expireOverdueSales(k, s))
       /\ SF_vars(\E k \in Workers : on[k] = s /\ expireSale(k))

FairSpec == Spec /\ Fairness

-----------------------------------------------------------------------------
(* Properties.                                                             *)

RequestStatuses == {"NONE", "CREATED", "PENDING", "PAID", "CANCELLED", "EXPIRED"}

\* Every variable has the type of the column or call it stands for; in
\* particular no interleaving of sales makes a quantity negative.
TypeOK ==
  /\ sale \in [Sales -> {"NONE", "PENDING", "PAID", "CANCELLED"}]
  /\ method \in [Sales -> {"wallet", "cash"}]
  /\ lines \in [Sales -> BOOLEAN]
  /\ request \in [Sales -> RequestStatuses]
  /\ due \in [Sales -> BOOLEAN]
  /\ paying \in [Sales -> {"no", "yes", "paid"}]
  /\ quantity \in [Items -> Nat]
  /\ out \in [Sales -> [Items -> Nat]]
  /\ recorded \subseteq Offline
  /\ pc \in [Workers -> Steps]
  /\ on \in [Workers -> Sales \cup {None}]
  /\ todo \in [Workers -> SUBSET Items]
  /\ take \in [Workers -> [Items -> Nat]]
  /\ \A k \in Workers : pc[k] # "idle" => on[k] \in Sales

\* The sale keeps the promise of SaleContract: "Whoever claims the request
\* first wins" (SS payCash) -- never cash and QR both, never a cancelled sale
\* paid, never an article gone for a sale that is not paid.
Phase(s) ==
  LET byQr == paying[s] = "paid" IN
  CASE byQr /\ (method[s] = "cash" \/ sale[s] = "CANCELLED") -> "twice"
    [] byQr /\ method[s] # "cash" /\ sale[s] # "CANCELLED" -> "paid by QR"
    [] ~byQr /\ method[s] = "cash" -> "paid in cash"
    [] ~byQr /\ method[s] # "cash" /\ sale[s] = "CANCELLED" -> "cancelled"
    [] OTHER -> "open"

Contract == INSTANCE SaleContract
              WITH phase <- [s \in Sales |-> Phase(s)],
                   left <- [s \in Sales |-> \E i \in Items : out[s][i] > 0]

KeepsTheSale == Contract!ContractSpec

\* An overdue sale is taken off by the job, unless its QR is closed or paid
\* by someone else, or a payment holds it for ever: the job does not touch a
\* request that is PENDING (SS expireOverdueSales, expireSale).
Settled(s) == sale[s] # "PENDING" \/ request[s] = "CANCELLED" \/ paying[s] = "paid"

OverdueIsSettled ==
  \A s \in Sales :
    sale[s] = "PENDING" /\ due[s] ~> Settled(s) \/ [](paying[s] = "yes")

=============================================================================
