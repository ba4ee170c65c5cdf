---------------------------- MODULE Shop_proofs ----------------------------
(***************************************************************************)
(* Proofs about the two ways a shop sells.  With the network               *)
(* (SaleCheckout): any number of sales, articles and overlapping calls,    *)
(* any baskets, any shelf, and stops before any step.  Without it          *)
(* (OfflineTill): any accounts, operations, managers and sessions.         *)
(***************************************************************************)
EXTENDS SaleCheckout, OfflineTill, FiniteSetTheorems, SequenceTheorems, WellFoundedInduction, TLAPS

USE DEF desk, qr, store, hands

-----------------------------------------------------------------------------
(* Types.                                                                  *)

\* The part of TypeOK each group of variables is responsible for.
CallTypes ==
  /\ pc \in [Workers -> Steps]
  /\ on \in [Workers -> Sales \cup {None}]
  /\ todo \in [Workers -> SUBSET Items]
  /\ take \in [Workers -> [Items -> Nat]]
  /\ \A k \in Workers : pc[k] # "idle" => on[k] \in Sales

SaleTypes ==
  /\ sale \in [Sales -> {"NONE", "PENDING", "PAID", "CANCELLED"}]
  /\ method \in [Sales -> {"wallet", "cash"}]
  /\ lines \in [Sales -> BOOLEAN]

QrTypes ==
  /\ request \in [Sales -> RequestStatuses]
  /\ due \in [Sales -> BOOLEAN]
  /\ paying \in [Sales -> {"no", "yes", "paid"}]

StoreTypes ==
  /\ quantity \in [Items -> Nat]
  /\ out \in [Sales -> [Items -> Nat]]
  /\ recorded \subseteq Offline

LEMMA TypeParts == TypeOK <=> CallTypes /\ SaleTypes /\ QrTypes /\ StoreTypes
BY DEF TypeOK, CallTypes, SaleTypes, QrTypes, StoreTypes

LEMMA TypeInit == Init => TypeOK
BY SaleAssumption DEF Init, TypeOK, Nothing, Steps, RequestStatuses

\* The ways a worker moves.
LEMMA BeginTypes ==
  ASSUME CallTypes, NEW k \in Workers, NEW s \in Sales, NEW step \in Steps, Begin(k, s, step)
  PROVE  CallTypes'
BY DEF CallTypes, Begin

LEMMA GotoTypes ==
  ASSUME CallTypes, NEW k \in Workers, NEW step \in Steps, pc[k] # "idle", Goto(k, step)
  PROVE  CallTypes'
BY DEF CallTypes, Goto

LEMMA FinishTypes ==
  ASSUME CallTypes, NEW k \in Workers, Finish(k)
  PROVE  CallTypes'
<1>1. Nothing \in [Items -> Nat] /\ {} \in SUBSET Items /\ "idle" \in Steps
  BY DEF Nothing, Steps
<1> QED BY <1>1 DEF CallTypes, Finish

LEMMA ReleaseTypes ==
  ASSUME CallTypes, NEW k \in Workers, pc[k] # "idle", Release(k)
  PROVE  CallTypes'
<1>1. Lines(on[k]) \in SUBSET Items /\ "release" \in Steps
  BY DEF Lines, Wanted, Steps
<1> QED BY <1>1 DEF CallTypes, Release

LEMMA LeastIsEither == ASSUME NEW a \in Nat, NEW b \in Nat
                       PROVE  Least(a, b) \in Nat /\ Least(a, b) <= a /\ Least(a, b) <= b
BY DEF Least

LEMMA ReadShelfTypes ==
  ASSUME CallTypes, StoreTypes, NEW k \in Workers, ReadShelf(k)
  PROVE  CallTypes'
<1>1. PICK i \in todo[k] :
        LET n == Least(Basket[on[k]][i], quantity[i]) IN
        /\ todo' = [todo EXCEPT ![k] = @ \ {i}]
        /\ take' = [take EXCEPT ![k][i] = n]
        /\ pc' = [pc EXCEPT ![k] = IF n > 0 THEN "move" ELSE "release"]
  BY DEF ReadShelf
<1>2. i \in Items /\ on[k] \in Sales /\ UNCHANGED on
  BY DEF CallTypes, ReadShelf, At
<1> DEFINE n == Least(Basket[on[k]][i], quantity[i])
<1>3. n \in Nat
  BY <1>2, SaleAssumption, LeastIsEither DEF StoreTypes
<1>4. take' \in [Workers -> [Items -> Nat]]
  <2>1. take' = [take EXCEPT ![k][i] = n]
    BY <1>1
  <2> HIDE DEF n
  <2> QED BY <1>2, <1>3, <2>1 DEF CallTypes
<1>5. todo' \in [Workers -> SUBSET Items]
  BY <1>1 DEF CallTypes
<1>6. pc' \in [Workers -> Steps]
  BY <1>1 DEF CallTypes, Steps
<1>7. \A l \in Workers : pc'[l] # "idle" => on'[l] \in Sales
  BY <1>1, <1>2 DEF CallTypes
<1> QED BY <1>2, <1>4, <1>5, <1>6, <1>7 DEF CallTypes

LEMMA MovedTypes ==
  ASSUME CallTypes, NEW k \in Workers, pc[k] # "idle", Moved(k)
  PROVE  CallTypes'
<1>1. Nothing \in [Items -> Nat] /\ "release" \in Steps
  BY DEF Nothing, Steps
<1> QED BY <1>1 DEF CallTypes, Moved

LEMMA CallTypesStep == TypeOK /\ [Next]_vars => CallTypes'
<1> SUFFICES ASSUME TypeOK, [Next]_vars  PROVE CallTypes'
  OBVIOUS
<1>0. CallTypes /\ StoreTypes
  BY TypeParts
<1>1. ASSUME NEW k \in Workers, NEW s \in Sales, Start(k, s)  PROVE CallTypes'
  <2>1. \E step \in Steps : Begin(k, s, step)
    BY <1>1 DEF Start, createSale, cancelSale, expireOverdueSales, payCash, getSale,
                PayQr, QrPaid, Steps
  <2> QED BY <1>0, <2>1, BeginTypes
<1>2. ASSUME NEW k \in Workers, Continue(k)  PROVE CallTypes'
  <2>1. CASE ReadShelf(k)
    BY <1>0, <2>1, ReadShelfTypes
  <2>2. CASE MoveOut(k)
    BY <1>0, <2>2, MovedTypes DEF MoveOut, At
  <2>3. CASE TakeCash(k) \/ MarkSalePaid(k)
    BY <1>0, <2>3, ReleaseTypes, FinishTypes DEF TakeCash, MarkSalePaid, At
  <2>4. CASE \/ InsertRequest(k) \/ InsertSale(k) \/ InsertLines(k)
             \/ VoidQr(k) \/ expireSale(k) \/ DropSale(k)
             \/ Overdue(k) \/ assertStillInStock(k) \/ CloseForCash(k)
             \/ ReadSale(k) \/ LookAtQr(k) \/ ShelfDone(k) \/ ClaimQr(k)
    <3>1. pc[k] # "idle" /\ (Finish(k) \/ \E step \in Steps : Goto(k, step))
      BY <2>4 DEF InsertRequest, InsertSale, InsertLines, VoidQr, expireSale, CloseQr,
                  DropSale, Overdue, assertStillInStock, CloseForCash, ReadSale,
                  LookAtQr, ShelfDone, ClaimQr, At, Steps
    <3> QED BY <1>0, <3>1, GotoTypes, FinishTypes
  <2> QED BY <1>2, <2>1, <2>2, <2>3, <2>4 DEF Continue
<1>3. ASSUME NEW k \in Workers, Interrupt(k)  PROVE CallTypes'
  BY <1>0, <1>3, FinishTypes DEF Interrupt
<1>4. CASE \/ \E s \in Sales : Surroundings(s)
           \/ \E o \in Offline : record_offline_org_sale(o)
           \/ UNCHANGED vars
  BY <1>0, <1>4 DEF CallTypes, Surroundings, QrFailed, cancelRequest, markExpired,
                    QuarterHour, record_offline_org_sale, vars
<1> QED BY <1>1, <1>2, <1>3, <1>4 DEF Next

\* A worker that is busy works on a sale.
LEMMA BusyOnASale == ASSUME TypeOK, NEW k \in Workers, pc[k] # "idle"  PROVE on[k] \in Sales
BY DEF TypeOK

LEMMA SaleTypesStep == TypeOK /\ [Next]_vars => SaleTypes'
<1> SUFFICES ASSUME TypeOK, [Next]_vars  PROVE SaleTypes'
  OBVIOUS
<1> USE DEF SaleTypes
<1>0. SaleTypes
  BY TypeParts
<1>1. ASSUME NEW k \in Workers, InsertSale(k) \/ InsertLines(k) \/ DropSale(k) \/ TakeCash(k)
                                  \/ MarkSalePaid(k)
      PROVE  SaleTypes'
  <2>1. CASE InsertSale(k) \/ InsertLines(k) \/ DropSale(k)
    BY <1>0, <2>1 DEF InsertSale, InsertLines, DropSale, SetSale
  <2>2. CASE TakeCash(k) \/ MarkSalePaid(k)
    BY <1>0, <2>2 DEF TakeCash, MarkSalePaid, SetSale
  <2> QED BY <1>1, <2>1, <2>2
<1>2. ASSUME NEW k \in Workers,
             \/ InsertRequest(k) \/ VoidQr(k) \/ expireSale(k) \/ Overdue(k)
             \/ assertStillInStock(k) \/ CloseForCash(k) \/ ReadSale(k) \/ LookAtQr(k)
             \/ ReadShelf(k) \/ ShelfDone(k) \/ MoveOut(k) \/ ClaimQr(k) \/ Interrupt(k)
      PROVE  UNCHANGED desk
  BY <1>2 DEF InsertRequest, VoidQr, expireSale, Overdue, assertStillInStock, CloseForCash,
              ReadSale, LookAtQr, ReadShelf, ShelfDone, MoveOut, Moved, ClaimQr, Interrupt
<1>3. ASSUME NEW k \in Workers, NEW s \in Sales, Start(k, s)  PROVE UNCHANGED desk
  BY <1>3 DEF Start, createSale, cancelSale, expireOverdueSales, payCash, getSale, PayQr, QrPaid
<1>4. ASSUME NEW s \in Sales, Surroundings(s)  PROVE UNCHANGED desk
  BY <1>4 DEF Surroundings, QrFailed, cancelRequest, markExpired, QuarterHour
<1>5. CASE (\E o \in Offline : record_offline_org_sale(o)) \/ UNCHANGED vars
  BY <1>0, <1>5 DEF record_offline_org_sale, vars
<1>6. UNCHANGED desk => SaleTypes'
  BY <1>0
<1> QED BY <1>1, <1>2, <1>3, <1>4, <1>5, <1>6 DEF Next, Continue

LEMMA QrTypesStep == TypeOK /\ [Next]_vars => QrTypes'
<1> SUFFICES ASSUME TypeOK, [Next]_vars  PROVE QrTypes'
  OBVIOUS
<1> USE DEF QrTypes, RequestStatuses, SetRequest
<1>0. QrTypes
  BY TypeParts
<1>1. ASSUME NEW k \in Workers, Continue(k)  PROVE QrTypes'
  <2>1. CASE InsertRequest(k) \/ VoidQr(k) \/ expireSale(k) \/ Overdue(k) \/ CloseForCash(k)
    BY <1>0, <2>1 DEF InsertRequest, VoidQr, expireSale, CloseQr, Overdue, CloseForCash
  <2>2. CASE ClaimQr(k)
    BY <1>0, <2>2 DEF ClaimQr
  <2>3. CASE \/ InsertSale(k) \/ InsertLines(k) \/ DropSale(k) \/ assertStillInStock(k)
             \/ TakeCash(k) \/ ReadSale(k) \/ MarkSalePaid(k) \/ LookAtQr(k)
             \/ ReadShelf(k) \/ ShelfDone(k) \/ MoveOut(k)
    BY <1>0, <2>3 DEF InsertSale, InsertLines, DropSale, assertStillInStock, TakeCash, ReadSale,
                      MarkSalePaid, LookAtQr, ReadShelf, ShelfDone, MoveOut, Moved
  <2> QED BY <1>1, <2>1, <2>2, <2>3 DEF Continue
<1>2. ASSUME NEW k \in Workers, NEW s \in Sales, Start(k, s)  PROVE QrTypes'
  <2>1. CASE QrPaid(k, s)
    BY <1>0, <2>1 DEF QrPaid
  <2>2. CASE ~QrPaid(k, s)
    BY <1>0, <1>2, <2>2
       DEF Start, createSale, cancelSale, expireOverdueSales, payCash, getSale, PayQr
  <2> QED BY <2>1, <2>2
<1>3. ASSUME NEW s \in Sales, Surroundings(s)  PROVE QrTypes'
  BY <1>0, <1>3 DEF Surroundings, QrFailed, cancelRequest, markExpired, QuarterHour
<1>4. CASE \/ \E k \in Workers : Interrupt(k)
           \/ \E o \in Offline : record_offline_org_sale(o)
           \/ UNCHANGED vars
  BY <1>0, <1>4 DEF Interrupt, record_offline_org_sale, vars
<1> QED BY <1>1, <1>2, <1>3, <1>4 DEF Next

\* A quantity read by anyone and taken after anything still leaves the shelf at
\* zero or above: the constraint refuses what is too much.
LEMMA MoveOutTypes ==
  ASSUME TypeOK, NEW k \in Workers, MoveOut(k)
  PROVE  StoreTypes'
<1>0. StoreTypes /\ take[k] \in [Items -> Nat] /\ on[k] \in Sales /\ UNCHANGED recorded
  BY TypeParts, BusyOnASale DEF MoveOut, Moved, At, TypeOK
<1>1. CASE UNCHANGED <<quantity, out>>
  BY <1>0, <1>1 DEF StoreTypes
<1>2. CASE ~UNCHANGED <<quantity, out>>
  <2>1. PICK i \in Items : /\ take[k][i] <= quantity[i]
                           /\ quantity' = [quantity EXCEPT ![i] = @ - take[k][i]]
                           /\ out' = [out EXCEPT ![on[k]][i] = @ + take[k][i]]
    BY <1>2 DEF MoveOut
  <2>2. quantity[i] - take[k][i] \in Nat /\ out[on[k]][i] + take[k][i] \in Nat
    <3>1. quantity[i] \in Nat /\ take[k][i] \in Nat /\ out[on[k]][i] \in Nat
      BY <1>0 DEF StoreTypes
    <3> QED BY <2>1, <3>1
  <2>3. quantity' \in [Items -> Nat]
    BY <1>0, <2>1, <2>2 DEF StoreTypes
  <2>4. out' \in [Sales -> [Items -> Nat]]
    BY <1>0, <2>1, <2>2 DEF StoreTypes
  <2> QED BY <1>0, <2>3, <2>4 DEF StoreTypes
<1> QED BY <1>1, <1>2

LEMMA StoreTypesStep == TypeOK /\ [Next]_vars => StoreTypes'
<1> SUFFICES ASSUME TypeOK, [Next]_vars  PROVE StoreTypes'
  OBVIOUS
<1>0. StoreTypes
  BY TypeParts
<1>1. ASSUME NEW k \in Workers, Continue(k), ~MoveOut(k)  PROVE UNCHANGED store
  BY <1>1 DEF Continue, InsertRequest, InsertSale, InsertLines, VoidQr, expireSale, DropSale,
              Overdue, assertStillInStock, CloseForCash, TakeCash, ReadSale, MarkSalePaid,
              LookAtQr, ReadShelf, ShelfDone, ClaimQr
<1>2. ASSUME NEW k \in Workers, NEW s \in Sales, Start(k, s)  PROVE UNCHANGED store
  BY <1>2 DEF Start, createSale, cancelSale, expireOverdueSales, payCash, getSale, PayQr, QrPaid
<1>3. ASSUME NEW o \in Offline, record_offline_org_sale(o)  PROVE StoreTypes'
  <2>1. \A i \in Items : quantity[i] - Least(Basket[o][i], quantity[i]) \in Nat
    <3> TAKE i \in Items
    <3>1. quantity[i] \in Nat /\ Basket[o][i] \in Nat
      BY <1>0, SaleAssumption DEF StoreTypes
    <3>2. /\ Least(Basket[o][i], quantity[i]) \in Nat
          /\ Least(Basket[o][i], quantity[i]) <= quantity[i]
      BY <3>1, LeastIsEither
    <3> QED BY <3>1, <3>2
  <2> QED BY <1>0, <1>3, <2>1 DEF StoreTypes, record_offline_org_sale
<1>4. ASSUME NEW s \in Sales, Surroundings(s)  PROVE UNCHANGED store
  BY <1>4 DEF Surroundings, QrFailed, cancelRequest, markExpired, QuarterHour
<1>5. CASE (\E k \in Workers : Interrupt(k)) \/ UNCHANGED vars
  BY <1>0, <1>5 DEF Interrupt, vars, StoreTypes
<1>6. UNCHANGED store => StoreTypes'
  BY <1>0 DEF StoreTypes
<1> QED BY <1>1, <1>2, <1>3, <1>4, <1>5, <1>6, MoveOutTypes DEF Next

LEMMA TypeStep == TypeOK /\ [Next]_vars => TypeOK'
BY CallTypesStep, SaleTypesStep, QrTypesStep, StoreTypesStep
   DEF TypeOK, CallTypes, SaleTypes, QrTypes, StoreTypes

\* Whatever sales, cash, cancellations, viewers and jobs overlap, and wherever
\* they stop, no row holds a value it may not, and no article is held below
\* zero (sales.service.ts, migration 046).
THEOREM TypesHold == Spec => []TypeOK
BY TypeInit, TypeStep, PTL DEF Spec

-----------------------------------------------------------------------------
(* Paid once, by QR or in cash, or cancelled.                              *)

\* The request tells how far the payment of the QR is.
RequestByPayment ==
  \A s \in Sales :
    /\ paying[s] = "no" => request[s] \notin {"PENDING", "PAID"}
    /\ paying[s] = "yes" => request[s] \in {"PENDING", "CANCELLED"}
    /\ paying[s] = "paid" => request[s] \in {"PENDING", "CANCELLED", "PAID"}

\* There is no sale without its request.
RequestBeforeSale == \A s \in Sales : request[s] = "NONE" => sale[s] = "NONE"

\* Nobody is paying the QR, and nobody ever can again.
Closed(s) == request[s] = "CANCELLED" /\ paying[s] = "no"

\* A sale is cancelled, or paid in cash, only once its QR is closed.
ClosedBeforeSettled ==
  \A s \in Sales :
    /\ sale[s] = "CANCELLED" => Closed(s)
    /\ method[s] = "cash" => sale[s] = "PAID" /\ Closed(s)

\* What a worker is about to do is still right when it does it.
Knows(k) ==
  /\ At(k, "request") => request[on[k]] = "NONE"
  /\ At(k, "sale") => sale[on[k]] = "NONE" /\ request[on[k]] # "NONE"
  /\ At(k, "drop") \/ At(k, "cash") => Closed(on[k])
  /\ At(k, "mark") \/ At(k, "pay") => paying[on[k]] = "paid"
  /\ At(k, "release") \/ At(k, "move") => paying[on[k]] = "paid" \/ method[on[k]] = "cash"

WorkersKnow == \A k \in Workers : Knows(k)

\* One worker makes a sale.
Making(k) == At(k, "request") \/ At(k, "sale")
OneMaker  == \A j, k \in Workers : Making(j) /\ Making(k) /\ on[j] = on[k] => j = k

SaleInv ==
  RequestByPayment /\ RequestBeforeSale /\ ClosedBeforeSettled /\ WorkersKnow /\ OneMaker

\* The ways a step of the system can touch the rows of a sale.
rows == <<sale, method, request, paying>>

NewRequest(s) ==
  /\ request[s] = "NONE" /\ SetRequest(s, "CREATED")
  /\ UNCHANGED <<sale, method, paying>>

NewSale(s) ==
  /\ sale[s] = "NONE" /\ request[s] # "NONE" /\ SetSale(s, "PENDING")
  /\ UNCHANGED <<method, request, paying>>

CloseRow(s) ==
  /\ request[s] \in {"CREATED", "PENDING", "EXPIRED"} /\ SetRequest(s, "CANCELLED")
  /\ UNCHANGED <<sale, method, paying>>

DropRow(s) ==
  /\ sale[s] = "PENDING" /\ Closed(s) /\ SetSale(s, "CANCELLED")
  /\ UNCHANGED <<method, request, paying>>

CashRow(s) ==
  /\ sale[s] = "PENDING" /\ Closed(s) /\ SetSale(s, "PAID")
  /\ method' = [method EXCEPT ![s] = "cash"]
  /\ UNCHANGED <<request, paying>>

MarkRow(s) ==
  /\ sale[s] = "PENDING" /\ paying[s] = "paid" /\ SetSale(s, "PAID")
  /\ UNCHANGED <<method, request, paying>>

ClaimRow(s) ==
  /\ request[s] = "CREATED" /\ SetRequest(s, "PENDING")
  /\ paying' = [paying EXCEPT ![s] = "yes"]
  /\ UNCHANGED <<sale, method>>

FailRow(s) ==
  /\ paying[s] = "yes" /\ paying' = [paying EXCEPT ![s] = "no"]
  /\ SetRequest(s, "CREATED") \/ (request[s] # "PENDING" /\ UNCHANGED request)
  /\ UNCHANGED <<sale, method>>

PayRow(s) ==
  /\ paying[s] = "yes" /\ paying' = [paying EXCEPT ![s] = "paid"]
  /\ SetRequest(s, "PAID") \/ UNCHANGED request
  /\ UNCHANGED <<sale, method>>

ExpireRow(s) ==
  /\ request[s] = "CREATED" /\ SetRequest(s, "EXPIRED")
  /\ UNCHANGED <<sale, method, paying>>

RowMove(s) ==
  \/ NewRequest(s) \/ NewSale(s) \/ CloseRow(s) \/ DropRow(s) \/ CashRow(s)
  \/ MarkRow(s) \/ ClaimRow(s) \/ FailRow(s) \/ PayRow(s) \/ ExpireRow(s)

LEMMA CallMoves ==
  ASSUME TypeOK, SaleInv, NEW k \in Workers, Continue(k)
  PROVE  UNCHANGED rows \/ RowMove(on[k])
<1> USE DEF rows, RowMove, Knows, At
<1>0. Knows(k)
  BY DEF SaleInv, WorkersKnow
<1>1. CASE InsertRequest(k)
  BY <1>0, <1>1 DEF InsertRequest, NewRequest
<1>2. CASE InsertSale(k)
  BY <1>0, <1>2 DEF InsertSale, NewSale
<1>3. CASE VoidQr(k) \/ expireSale(k) \/ Overdue(k) \/ CloseForCash(k)
  BY <1>3 DEF VoidQr, expireSale, CloseQr, Overdue, CloseForCash, CloseRow
<1>4. CASE DropSale(k)
  BY <1>0, <1>4 DEF DropSale, DropRow
<1>5. CASE TakeCash(k)
  BY <1>0, <1>5 DEF TakeCash, CashRow
<1>6. CASE MarkSalePaid(k)
  BY <1>0, <1>6 DEF MarkSalePaid, MarkRow
<1>7. CASE ClaimQr(k)
  BY <1>7 DEF ClaimQr, ClaimRow
<1>8. CASE \/ InsertLines(k) \/ assertStillInStock(k) \/ ReadSale(k) \/ LookAtQr(k)
           \/ ReadShelf(k) \/ ShelfDone(k) \/ MoveOut(k)
  BY <1>8 DEF InsertLines, assertStillInStock, ReadSale, LookAtQr, ReadShelf, ShelfDone,
              MoveOut, Moved
<1> QED BY <1>1, <1>2, <1>3, <1>4, <1>5, <1>6, <1>7, <1>8 DEF Continue

LEMMA RowMoves ==
  ASSUME TypeOK, SaleInv, [Next]_vars
  PROVE  UNCHANGED rows \/ \E s \in Sales : RowMove(s)
<1> USE DEF rows, RowMove
<1>1. ASSUME NEW k \in Workers, Continue(k)  PROVE UNCHANGED rows \/ \E s \in Sales : RowMove(s)
  <2>1. on[k] \in Sales
    BY <1>1, BusyOnASale
       DEF Continue, InsertRequest, InsertSale, InsertLines, VoidQr, expireSale, DropSale, Overdue,
           assertStillInStock, CloseForCash, TakeCash, ReadSale, MarkSalePaid, LookAtQr,
           ReadShelf, ShelfDone, MoveOut, ClaimQr, At
  <2> QED BY <1>1, <2>1, CallMoves
<1>2. ASSUME NEW k \in Workers, NEW s \in Sales, Start(k, s)  PROVE UNCHANGED rows \/ RowMove(s)
  BY <1>2 DEF Start, createSale, cancelSale, expireOverdueSales, payCash, getSale, PayQr,
              QrPaid, PayRow
<1>3. ASSUME NEW s \in Sales, Surroundings(s)  PROVE UNCHANGED rows \/ RowMove(s)
  BY <1>3 DEF Surroundings, QrFailed, cancelRequest, markExpired, QuarterHour, FailRow,
              CloseRow, ExpireRow
<1>4. ASSUME \/ \E k \in Workers : Interrupt(k)
             \/ \E o \in Offline : record_offline_org_sale(o)
             \/ UNCHANGED vars
      PROVE  UNCHANGED rows
  BY <1>4 DEF Interrupt, record_offline_org_sale, vars
<1> QED BY <1>1, <1>2, <1>3, <1>4 DEF Next

RowInv == RequestByPayment /\ RequestBeforeSale /\ ClosedBeforeSettled

LEMMA RowInvStep == TypeOK /\ SaleInv /\ [Next]_vars => RowInv'
<1> SUFFICES ASSUME TypeOK, SaleInv, [Next]_vars  PROVE RowInv'
  OBVIOUS
<1> USE DEF RowInv, RequestByPayment, RequestBeforeSale, ClosedBeforeSettled, Closed
<1>0. RowInv /\ SaleTypes /\ QrTypes
  BY TypeParts DEF SaleInv
<1>1. CASE UNCHANGED rows
  BY <1>0, <1>1 DEF rows
<1>2. ASSUME NEW s \in Sales, RowMove(s)  PROVE RowInv'
  <2> USE DEF SetRequest, SetSale, SaleTypes, QrTypes
  <2>1. CASE NewRequest(s)
    BY <1>0, <2>1 DEF NewRequest
  <2>2. CASE NewSale(s) \/ MarkRow(s)
    BY <1>0, <2>2 DEF NewSale, MarkRow
  <2>3. CASE DropRow(s) \/ CashRow(s)
    BY <1>0, <2>3 DEF DropRow, CashRow
  <2>4. CASE CloseRow(s) \/ ExpireRow(s)
    BY <1>0, <2>4 DEF CloseRow, ExpireRow
  <2>5. CASE ClaimRow(s)
    BY <1>0, <2>5 DEF ClaimRow
  <2>6. CASE FailRow(s)
    BY <1>0, <2>6 DEF FailRow
  <2>7. CASE PayRow(s)
    BY <1>0, <2>7 DEF PayRow
  <2> QED BY <1>2, <2>1, <2>2, <2>3, <2>4, <2>5, <2>6, <2>7 DEF RowMove
<1> QED BY <1>1, <1>2, RowMoves

\* What stays true of a sale once it is.
LEMMA RowsStay ==
  ASSUME TypeOK, SaleInv, [Next]_vars, NEW s \in Sales
  PROVE  /\ Closed(s) => Closed(s)'
         /\ paying[s] = "paid" => paying'[s] = "paid"
         /\ method[s] = "cash" => method'[s] = "cash"
         /\ request[s] # "NONE" => request'[s] # "NONE"
<1> USE DEF Closed
<1>0. SaleTypes /\ QrTypes /\ RequestByPayment
  BY TypeParts DEF SaleInv
<1>1. CASE UNCHANGED rows
  BY <1>1 DEF rows
<1>2. ASSUME NEW z \in Sales, RowMove(z)
      PROVE  /\ Closed(s) => Closed(s)'
             /\ paying[s] = "paid" => paying'[s] = "paid"
             /\ method[s] = "cash" => method'[s] = "cash"
             /\ request[s] # "NONE" => request'[s] # "NONE"
  <2> USE DEF SetRequest, SetSale, SaleTypes, QrTypes, RequestByPayment
  <2>1. CASE NewRequest(z) \/ NewSale(z) \/ MarkRow(z)
    BY <1>0, <2>1 DEF NewRequest, NewSale, MarkRow
  <2>2. CASE DropRow(z) \/ CashRow(z) \/ CloseRow(z) \/ ExpireRow(z)
    BY <1>0, <2>2 DEF DropRow, CashRow, CloseRow, ExpireRow
  <2>3. CASE ClaimRow(z) \/ FailRow(z) \/ PayRow(z)
    BY <1>0, <2>3 DEF ClaimRow, FailRow, PayRow
  <2> QED BY <1>2, <2>1, <2>2, <2>3 DEF RowMove
<1> QED BY <1>1, <1>2, RowMoves

\* Only its maker writes a request, then a sale.
LEMMA MadeByItsMaker ==
  ASSUME TypeOK, SaleInv, [Next]_vars, NEW s \in Sales
  PROVE  /\ request[s] = "NONE" /\ request'[s] # "NONE" =>
              \E k \in Workers : InsertRequest(k) /\ on[k] = s
         /\ sale[s] = "NONE" /\ sale'[s] # "NONE" =>
              \E k \in Workers : InsertSale(k) /\ on[k] = s
<1> USE DEF SetRequest, SetSale
<1>0. SaleTypes /\ QrTypes /\ RequestByPayment /\ \A k \in Workers : Knows(k)
  BY TypeParts DEF SaleInv, WorkersKnow
<1>1. ASSUME NEW k \in Workers, Continue(k), ~InsertRequest(k), request[s] = "NONE"
      PROVE  request'[s] = "NONE"
  <2>1. CASE VoidQr(k) \/ expireSale(k) \/ Overdue(k) \/ CloseForCash(k) \/ ClaimQr(k)
    BY <1>0, <1>1, <2>1 DEF QrTypes, VoidQr, expireSale, CloseQr, Overdue, CloseForCash, ClaimQr
  <2>2. CASE \/ InsertSale(k) \/ InsertLines(k) \/ DropSale(k) \/ assertStillInStock(k)
             \/ TakeCash(k) \/ ReadSale(k) \/ MarkSalePaid(k) \/ LookAtQr(k)
             \/ ReadShelf(k) \/ ShelfDone(k) \/ MoveOut(k)
    BY <1>1, <2>2 DEF InsertSale, InsertLines, DropSale, assertStillInStock, TakeCash, ReadSale,
                      MarkSalePaid, LookAtQr, ReadShelf, ShelfDone, MoveOut, Moved
  <2> QED BY <1>1, <2>1, <2>2 DEF Continue
<1>2. ASSUME NEW k \in Workers, InsertRequest(k), request[s] = "NONE", request'[s] # "NONE"
      PROVE  on[k] = s
  BY <1>0, <1>2 DEF QrTypes, InsertRequest
<1>3. ASSUME NEW k \in Workers, Continue(k), ~InsertSale(k), sale[s] = "NONE"
      PROVE  sale'[s] = "NONE"
  <2>1. CASE DropSale(k) \/ TakeCash(k) \/ MarkSalePaid(k)
    BY <1>0, <1>3, <2>1 DEF SaleTypes, DropSale, TakeCash, MarkSalePaid
  <2>2. CASE \/ InsertRequest(k) \/ InsertLines(k) \/ VoidQr(k) \/ expireSale(k) \/ Overdue(k)
             \/ assertStillInStock(k) \/ CloseForCash(k) \/ ReadSale(k) \/ LookAtQr(k)
             \/ ReadShelf(k) \/ ShelfDone(k) \/ MoveOut(k) \/ ClaimQr(k)
    BY <1>3, <2>2 DEF InsertRequest, InsertLines, VoidQr, expireSale, Overdue, assertStillInStock,
                      CloseForCash, ReadSale, LookAtQr, ReadShelf, ShelfDone, MoveOut, Moved,
                      ClaimQr
  <2> QED BY <1>3, <2>1, <2>2 DEF Continue
<1>4. ASSUME NEW k \in Workers, InsertSale(k), sale[s] = "NONE", sale'[s] # "NONE"
      PROVE  on[k] = s
  BY <1>0, <1>4 DEF SaleTypes, InsertSale
<1>5. ASSUME NEW k \in Workers, NEW z \in Sales, Start(k, z)
      PROVE  sale'[s] = sale[s] /\ (request[s] = "NONE" => request'[s] = "NONE")
  <2>1. CASE QrPaid(k, z)
    BY <1>0, <2>1 DEF QrPaid, QrTypes, RequestByPayment
  <2>2. CASE ~QrPaid(k, z)
    BY <1>5, <2>2 DEF Start, createSale, cancelSale, expireOverdueSales, payCash, getSale, PayQr
  <2> QED BY <2>1, <2>2
<1>6. ASSUME NEW z \in Sales, Surroundings(z)
      PROVE  sale'[s] = sale[s] /\ (request[s] = "NONE" => request'[s] = "NONE")
  BY <1>0, <1>6 DEF Surroundings, QrFailed, cancelRequest, markExpired, QuarterHour, QrTypes,
                    RequestByPayment
<1>7. ASSUME \/ \E k \in Workers : Interrupt(k)
             \/ \E o \in Offline : record_offline_org_sale(o)
             \/ UNCHANGED vars
      PROVE  sale'[s] = sale[s] /\ request'[s] = request[s]
  BY <1>7 DEF Interrupt, record_offline_org_sale, vars
<1>8. \/ \E k \in Workers : Continue(k)
      \/ \E k \in Workers, z \in Sales : Start(k, z)
      \/ \E z \in Sales : Surroundings(z)
      \/ \E k \in Workers : Interrupt(k)
      \/ \E o \in Offline : record_offline_org_sale(o)
      \/ UNCHANGED vars
  BY DEF Next
<1>9. request[s] = "NONE" /\ request'[s] # "NONE" =>
        \E k \in Workers : InsertRequest(k) /\ on[k] = s
  BY <1>1, <1>2, <1>5, <1>6, <1>7, <1>8
<1>10. sale[s] = "NONE" /\ sale'[s] # "NONE" => \E k \in Workers : InsertSale(k) /\ on[k] = s
  BY <1>3, <1>4, <1>5, <1>6, <1>7, <1>8
<1> QED BY <1>9, <1>10

\* What a worker that does not move knows stays right.
LEMMA StillKnows ==
  ASSUME TypeOK, SaleInv, [Next]_vars, NEW l \in Workers, pc'[l] = pc[l], on'[l] = on[l]
  PROVE  Knows(l)'
<1>0. Knows(l) /\ OneMaker /\ pc \in [Workers -> Steps]
  BY DEF SaleInv, WorkersKnow, TypeOK
<1>1. CASE pc[l] = "idle"
  BY <1>1 DEF Knows, At
<1>2. CASE pc[l] # "idle"
  <2>0. on[l] \in Sales
    BY <1>2, BusyOnASale
  <2>1. At(l, "request") => request'[on[l]] = "NONE"
    <3> SUFFICES ASSUME At(l, "request"), request'[on[l]] # "NONE"  PROVE FALSE
      OBVIOUS
    <3>1. PICK k \in Workers : InsertRequest(k) /\ on[k] = on[l]
      BY <1>0, <2>0, MadeByItsMaker DEF Knows
    <3>2. k = l
      BY <1>0, <3>1 DEF OneMaker, Making, InsertRequest, At
    <3> QED BY <1>0, <3>1, <3>2 DEF InsertRequest, Goto, At
  <2>2. At(l, "sale") => sale'[on[l]] = "NONE"
    <3> SUFFICES ASSUME At(l, "sale"), sale'[on[l]] # "NONE"  PROVE FALSE
      OBVIOUS
    <3>1. PICK k \in Workers : InsertSale(k) /\ on[k] = on[l]
      BY <1>0, <2>0, MadeByItsMaker DEF Knows
    <3>2. k = l
      BY <1>0, <3>1 DEF OneMaker, Making, InsertSale, At
    <3> QED BY <1>0, <3>1, <3>2 DEF InsertSale, Goto, At
  <2>3. /\ Closed(on[l]) => Closed(on[l])'
        /\ paying[on[l]] = "paid" => paying'[on[l]] = "paid"
        /\ method[on[l]] = "cash" => method'[on[l]] = "cash"
        /\ request[on[l]] # "NONE" => request'[on[l]] # "NONE"
    BY <2>0, RowsStay DEF Closed
  <2> QED BY <1>0, <2>1, <2>2, <2>3 DEF Knows, At, Closed
<1> QED BY <1>1, <1>2

\* A step moves at most one worker.
LEMMA OneMoves ==
  ASSUME TypeOK, NEW k \in Workers,
         Continue(k) \/ Interrupt(k) \/ \E s \in Sales : Start(k, s)
  PROVE  \A l \in Workers \ {k} : pc'[l] = pc[l] /\ on'[l] = on[l]
<1>0. pc \in [Workers -> Steps] /\ on \in [Workers -> Sales \cup {None}]
  BY DEF TypeOK
<1>1. ASSUME \/ Finish(k) \/ Release(k) \/ Moved(k) \/ (\E step \in Steps : Goto(k, step))
             \/ (\E step \in Steps, s \in Sales : Begin(k, s, step))
             \/ (UNCHANGED on /\ \E step \in Steps : pc' = [pc EXCEPT ![k] = step])
      PROVE  \A l \in Workers \ {k} : pc'[l] = pc[l] /\ on'[l] = on[l]
  BY <1>0, <1>1 DEF Finish, Release, Moved, Goto, Begin
<1>2. CASE Interrupt(k) \/ \E s \in Sales : Start(k, s)
  BY <1>1, <1>2 DEF Interrupt, Start, createSale, cancelSale, expireOverdueSales, payCash,
                    getSale, PayQr, QrPaid, Steps
<1>3. CASE Continue(k)
  <2>1. CASE ReadShelf(k) \/ MoveOut(k) \/ TakeCash(k) \/ MarkSalePaid(k)
    BY <1>1, <2>1 DEF ReadShelf, MoveOut, TakeCash, MarkSalePaid, Steps
  <2>2. CASE \/ InsertRequest(k) \/ InsertSale(k) \/ InsertLines(k)
             \/ VoidQr(k) \/ expireSale(k) \/ DropSale(k)
             \/ Overdue(k) \/ assertStillInStock(k) \/ CloseForCash(k)
             \/ ReadSale(k) \/ LookAtQr(k) \/ ShelfDone(k) \/ ClaimQr(k)
    BY <1>1, <2>2 DEF InsertRequest, InsertSale, InsertLines, VoidQr, expireSale, CloseQr,
                      DropSale, Overdue, assertStillInStock, CloseForCash, ReadSale,
                      LookAtQr, ShelfDone, ClaimQr, Steps
  <2> QED BY <1>3, <2>1, <2>2 DEF Continue
<1> QED BY <1>2, <1>3

LEMMA KnowsStep == TypeOK /\ SaleInv /\ [Next]_vars => WorkersKnow'
<1> SUFFICES ASSUME TypeOK, SaleInv, [Next]_vars  PROVE \A l \in Workers : Knows(l)'
  BY DEF WorkersKnow
<1>0. /\ RequestByPayment /\ RequestBeforeSale /\ SaleTypes /\ QrTypes
      /\ pc \in [Workers -> Steps] /\ on \in [Workers -> Sales \cup {None}]
      /\ \A k \in Workers : Knows(k)
  BY TypeParts DEF SaleInv, WorkersKnow, TypeOK
<1>1. ASSUME NEW k \in Workers,
             Continue(k) \/ Interrupt(k) \/ \E s \in Sales : Start(k, s),
             Knows(k)'
      PROVE  \A l \in Workers : Knows(l)'
  <2> TAKE l \in Workers
  <2>1. CASE l = k
    BY <1>1, <2>1
  <2>2. CASE l # k
    <3>1. pc'[l] = pc[l] /\ on'[l] = on[l]
      BY <1>1, <2>2, OneMoves
    <3> QED BY <3>1, StillKnows
  <2> QED BY <2>1, <2>2
<1>2. ASSUME NEW k \in Workers, Finish(k)  PROVE Knows(k)'
  BY <1>0, <1>2 DEF Finish, Knows, At
<1>3. ASSUME NEW k \in Workers, Continue(k)  PROVE Knows(k)'
  <2>0. on[k] \in Sales /\ Knows(k)
    BY <1>0, <1>3, BusyOnASale
       DEF Continue, InsertRequest, InsertSale, InsertLines, VoidQr, expireSale, DropSale, Overdue,
           assertStillInStock, CloseForCash, TakeCash, ReadSale, MarkSalePaid, LookAtQr,
           ReadShelf, ShelfDone, MoveOut, ClaimQr, At
  <2> USE DEF Knows, At, Goto, SetRequest, SetSale
  <2>1. CASE InsertRequest(k)
    BY <1>0, <2>0, <2>1 DEF InsertRequest, QrTypes, SaleTypes, RequestBeforeSale
  <2>2. CASE InsertSale(k)
    BY <1>0, <2>2 DEF InsertSale
  <2>3. CASE InsertLines(k) \/ DropSale(k) \/ ShelfDone(k) \/ ClaimQr(k)
    BY <1>2, <2>3 DEF InsertLines, DropSale, ShelfDone, ClaimQr
  <2>4. CASE VoidQr(k) \/ expireSale(k) \/ Overdue(k) \/ CloseForCash(k)
    <3>1. CASE Finish(k)
      BY <1>2, <3>1
    <3>2. CASE ~Finish(k)
      BY <1>0, <2>0, <2>4, <3>2 DEF VoidQr, expireSale, CloseQr, Overdue, CloseForCash, QrTypes,
                               RequestByPayment, Closed
    <3> QED BY <3>1, <3>2
  <2>5. CASE assertStillInStock(k)
    BY <1>0, <1>2, <2>5 DEF assertStillInStock
  <2>6. CASE TakeCash(k)
    BY <1>0, <1>2, <2>0, <2>6 DEF TakeCash, Release, SaleTypes
  <2>7. CASE ReadSale(k) \/ LookAtQr(k)
    BY <1>0, <1>2, <2>0, <2>7 DEF ReadSale, LookAtQr, RequestByPayment, QrTypes
  <2>8. CASE MarkSalePaid(k)
    BY <1>0, <2>0, <2>8 DEF MarkSalePaid, Release
  <2>9. CASE ReadShelf(k) \/ MoveOut(k)
    <3>1. /\ UNCHANGED <<on, method, paying>> /\ pc'[k] \in {"release", "move"}
          /\ paying[on[k]] = "paid" \/ method[on[k]] = "cash"
      BY <1>0, <2>0, <2>9 DEF ReadShelf, MoveOut, Moved
    <3> QED BY <3>1
  <2> QED BY <1>3, <2>1, <2>2, <2>3, <2>4, <2>5, <2>6, <2>7, <2>8, <2>9 DEF Continue
<1>4. ASSUME NEW k \in Workers, NEW s \in Sales, Start(k, s)  PROVE Knows(k)'
  <2>1. CASE createSale(k, s)
    BY <1>0, <2>1 DEF createSale, Begin, Knows, At
  <2>2. CASE QrPaid(k, s)
    BY <1>0, <2>2 DEF QrPaid, Begin, Knows, At, QrTypes
  <2>3. CASE cancelSale(k, s) \/ expireOverdueSales(k, s) \/ payCash(k, s) \/ getSale(k, s)
               \/ PayQr(k, s)
    BY <1>0, <2>3 DEF cancelSale, expireOverdueSales, payCash, getSale, PayQr, Begin, Knows, At
  <2> QED BY <1>4, <2>1, <2>2, <2>3 DEF Start
<1>5. ASSUME NEW k \in Workers, Interrupt(k)  PROVE Knows(k)'
  BY <1>2, <1>5 DEF Interrupt
<1>6. CASE \/ \E s \in Sales : Surroundings(s)
           \/ \E o \in Offline : record_offline_org_sale(o)
           \/ UNCHANGED vars
  <2>1. UNCHANGED <<pc, on>>
    BY <1>6 DEF Surroundings, QrFailed, cancelRequest, markExpired, QuarterHour,
                record_offline_org_sale, vars
  <2> QED BY <2>1, StillKnows
<1> QED BY <1>1, <1>3, <1>4, <1>5, <1>6 DEF Next

LEMMA OneMakerStep == TypeOK /\ SaleInv /\ [Next]_vars => OneMaker'
<1> SUFFICES ASSUME TypeOK, SaleInv, [Next]_vars  PROVE OneMaker'
  OBVIOUS
<1>0. OneMaker /\ pc \in [Workers -> Steps] /\ on \in [Workers -> Sales \cup {None}]
  BY DEF SaleInv, TypeOK
<1>1. ASSUME NEW k \in Workers,
             Continue(k) \/ Interrupt(k) \/ \E s \in Sales : Start(k, s),
             Making(k)' => \/ Making(k) /\ on'[k] = on[k]
                           \/ \A l \in Workers : on[l] # on'[k]
      PROVE  OneMaker'
  <2>1. \A l \in Workers \ {k} : pc'[l] = pc[l] /\ on'[l] = on[l]
    BY <1>1, OneMoves
  <2> QED BY <1>0, <1>1, <2>1 DEF OneMaker, Making, At
<1>2. ASSUME NEW k \in Workers, Continue(k)
      PROVE  Making(k)' => Making(k) /\ on'[k] = on[k]
  <2>1. CASE InsertRequest(k)
    BY <2>1 DEF InsertRequest, Goto, Making, At
  <2>2. CASE TakeCash(k) \/ MarkSalePaid(k) \/ ReadShelf(k) \/ MoveOut(k)
    BY <1>0, <2>2 DEF TakeCash, MarkSalePaid, ReadShelf, MoveOut, Moved, Release, Finish, Making, At
  <2>3. CASE \/ InsertSale(k) \/ InsertLines(k) \/ VoidQr(k) \/ expireSale(k) \/ DropSale(k)
             \/ Overdue(k) \/ assertStillInStock(k) \/ CloseForCash(k)
             \/ ReadSale(k) \/ LookAtQr(k) \/ ShelfDone(k) \/ ClaimQr(k)
    <3>1. Finish(k) \/ \E step \in Steps \ {"request", "sale"} : Goto(k, step)
      BY <2>3 DEF InsertSale, InsertLines, VoidQr, expireSale, CloseQr, DropSale, Overdue,
                  assertStillInStock, CloseForCash, ReadSale, LookAtQr, ShelfDone, ClaimQr, Steps
    <3> QED BY <1>0, <3>1 DEF Finish, Goto, Making, At
  <2> QED BY <1>2, <2>1, <2>2, <2>3 DEF Continue
<1>3. ASSUME NEW k \in Workers, NEW s \in Sales, Start(k, s)
      PROVE  Making(k)' => \A l \in Workers : on[l] # on'[k]
  <2>1. CASE createSale(k, s)
    BY <1>0, <2>1 DEF createSale, Begin, Free
  <2>2. CASE ~createSale(k, s)
    BY <1>0, <1>3, <2>2 DEF Start, cancelSale, expireOverdueSales, payCash, getSale, PayQr,
                            QrPaid, Begin, Making, At
  <2> QED BY <2>1, <2>2
<1>4. ASSUME NEW k \in Workers, Interrupt(k)  PROVE ~Making(k)'
  BY <1>0, <1>4 DEF Interrupt, Finish, Making, At
<1>5. CASE \/ \E s \in Sales : Surroundings(s)
           \/ \E o \in Offline : record_offline_org_sale(o)
           \/ UNCHANGED vars
  BY <1>0, <1>5 DEF Surroundings, QrFailed, cancelRequest, markExpired, QuarterHour,
                    record_offline_org_sale, vars, OneMaker, Making, At
<1> QED BY <1>1, <1>2, <1>3, <1>4, <1>5 DEF Next

LEMMA SaleInvInit == Init => SaleInv
BY DEF Init, SaleInv, RequestByPayment, RequestBeforeSale, ClosedBeforeSettled, WorkersKnow,
       Knows, OneMaker, Making, At

LEMMA SaleInvHolds == Spec => [](TypeOK /\ SaleInv)
<1>1. TypeOK /\ SaleInv /\ [Next]_vars => (TypeOK /\ SaleInv)'
  BY TypeStep, RowInvStep, KnowsStep, OneMakerStep DEF SaleInv, RowInv
<1> QED BY <1>1, TypeInit, SaleInvInit, PTL DEF Spec

\* The promise, read off the rows.
LEMMA PhaseIs ==
  ASSUME TypeOK, SaleInv, NEW s \in Sales
  PROVE  Phase(s) = IF paying[s] = "paid" THEN "paid by QR"
                    ELSE IF method[s] = "cash" THEN "paid in cash"
                    ELSE IF sale[s] = "CANCELLED" THEN "cancelled" ELSE "open"
<1>1. paying[s] = "paid" => method[s] # "cash" /\ sale[s] # "CANCELLED"
  BY DEF SaleInv, ClosedBeforeSettled, Closed
<1> QED BY <1>1 DEF Phase

\* A move of the rows changes no phase, or closes one that was open.
LEMMA RowMoveCloses ==
  ASSUME TypeOK, SaleInv, TypeOK', SaleInv', NEW s \in Sales, RowMove(s)
  PROVE  /\ \A z \in Sales \ {s} : Phase(z)' = Phase(z)
         /\ Phase(s)' = Phase(s) \/ (Phase(s) = "open" /\ Phase(s)' \in Contract!Phases)
<1> USE DEF SetSale, SetRequest
<1>0. SaleTypes /\ QrTypes /\ ClosedBeforeSettled
  BY TypeParts DEF SaleInv
<1>1. /\ \A z \in Sales \ {s} : /\ sale'[z] = sale[z] /\ method'[z] = method[z]
                                /\ paying'[z] = paying[z]
      /\ paying[s] = "paid" => paying'[s] = "paid"
      /\ method[s] = "cash" => paying'[s] # "paid" /\ method'[s] = "cash"
      /\ sale[s] = "CANCELLED" /\ method[s] # "cash" =>
            /\ paying'[s] # "paid" /\ method'[s] # "cash" /\ sale'[s] = "CANCELLED"
  <2>1. CASE NewRequest(s) \/ NewSale(s) \/ CloseRow(s) \/ DropRow(s) \/ ExpireRow(s)
    BY <1>0, <2>1 DEF NewRequest, NewSale, CloseRow, DropRow, ExpireRow, ClosedBeforeSettled,
                      Closed, SaleTypes, QrTypes
  <2>2. CASE CashRow(s) \/ MarkRow(s)
    BY <1>0, <2>2 DEF CashRow, MarkRow, ClosedBeforeSettled, Closed, SaleTypes, QrTypes
  <2>3. CASE ClaimRow(s) \/ FailRow(s) \/ PayRow(s)
    <3>1. RequestByPayment
      BY DEF SaleInv
    <3> QED BY <1>0, <2>3, <3>1 DEF ClaimRow, FailRow, PayRow, ClosedBeforeSettled, Closed,
                                    RequestByPayment, SaleTypes, QrTypes
  <2> QED BY <2>1, <2>2, <2>3 DEF RowMove
<1>2. \A z \in Sales :
        Phase(z)' = IF paying'[z] = "paid" THEN "paid by QR"
                    ELSE IF method'[z] = "cash" THEN "paid in cash"
                    ELSE IF sale'[z] = "CANCELLED" THEN "cancelled" ELSE "open"
  <2>1. \A z \in Sales : paying'[z] = "paid" => method'[z] # "cash" /\ sale'[z] # "CANCELLED"
    BY DEF SaleInv, ClosedBeforeSettled, Closed
  <2> QED BY <2>1 DEF Phase
<1> QED BY <1>1, <1>2, PhaseIs DEF Contract!Phases

\* Articles only leave for a sale that is paid, and what left never comes back.
LEMMA LeavesOnlyPaid ==
  ASSUME TypeOK, SaleInv, NEW k \in Workers, MoveOut(k)
  PROVE  /\ on[k] \in Sales /\ Phase(on[k]) \in {"paid by QR", "paid in cash"}
         /\ UNCHANGED rows
         /\ \/ UNCHANGED out
            \/ /\ \E i \in Items : out'[on[k]][i] > 0
               /\ \A z \in Sales \ {on[k]} : out'[z] = out[z]
<1>0. /\ on[k] \in Sales /\ Knows(k) /\ pc[k] = "move"
      /\ out \in [Sales -> [Items -> Nat]] /\ take[k] \in [Items -> Nat]
  BY BusyOnASale DEF MoveOut, At, SaleInv, WorkersKnow, TypeOK
<1>1. Phase(on[k]) \in {"paid by QR", "paid in cash"}
  BY <1>0, PhaseIs DEF Knows, At
<1>2. UNCHANGED rows
  BY DEF MoveOut, Moved, rows
<1>3. ASSUME ~UNCHANGED out
      PROVE  /\ \E i \in Items : out'[on[k]][i] > 0
             /\ \A z \in Sales \ {on[k]} : out'[z] = out[z]
  <2>1. PICK i \in Items : /\ take[k][i] > 0
                           /\ out' = [out EXCEPT ![on[k]][i] = @ + take[k][i]]
    BY <1>3 DEF MoveOut
  <2>2. out'[on[k]][i] = out[on[k]][i] + take[k][i]
    BY <1>0, <2>1
  <2>3. out[on[k]][i] \in Nat /\ take[k][i] \in Nat
    BY <1>0
  <2>4. out'[on[k]][i] > 0
    BY <2>1, <2>2, <2>3
  <2> QED BY <1>0, <2>1, <2>4
<1> QED BY <1>0, <1>1, <1>2, <1>3

LEMMA OutMoves ==
  ASSUME [Next]_vars
  PROVE  UNCHANGED out \/ \E k \in Workers : MoveOut(k)
<1>1. ASSUME NEW k \in Workers, Continue(k), ~MoveOut(k)  PROVE UNCHANGED out
  BY <1>1 DEF Continue, InsertRequest, InsertSale, InsertLines, VoidQr, expireSale, DropSale,
              Overdue, assertStillInStock, CloseForCash, TakeCash, ReadSale, MarkSalePaid,
              LookAtQr, ReadShelf, ShelfDone, ClaimQr
<1>2. ASSUME NEW k \in Workers, NEW s \in Sales, Start(k, s)  PROVE UNCHANGED out
  BY <1>2 DEF Start, createSale, cancelSale, expireOverdueSales, payCash, getSale, PayQr, QrPaid
<1>3. ASSUME NEW s \in Sales, Surroundings(s)  PROVE UNCHANGED out
  BY <1>3 DEF Surroundings, QrFailed, cancelRequest, markExpired, QuarterHour
<1>4. ASSUME \/ \E k \in Workers : Interrupt(k)
             \/ \E o \in Offline : record_offline_org_sale(o)
             \/ UNCHANGED vars
      PROVE  UNCHANGED out
  BY <1>4 DEF Interrupt, record_offline_org_sale, vars
<1> QED BY <1>1, <1>2, <1>3, <1>4 DEF Next

Phases == [s \in Sales |-> Phase(s)]
Left   == [s \in Sales |-> \E i \in Items : out[s][i] > 0]

LEMMA StepKeepsTheSale ==
  ASSUME TypeOK, SaleInv, TypeOK', SaleInv', [Next]_vars
  PROVE  [Contract!ContractNext]_(Contract!contractVars)
<1> USE DEF Contract!contractVars, Contract!ContractNext
<1>1. CASE \E k \in Workers : MoveOut(k) /\ ~UNCHANGED out
  <2>1. PICK k \in Workers : MoveOut(k) /\ ~UNCHANGED out
    BY <1>1
  <2>0. PICK s \in Sales : s = on[k]
    BY <2>1, LeavesOnlyPaid
  <2>2. Phases[s] \in {"paid by QR", "paid in cash"}
    BY <2>0, <2>1, LeavesOnlyPaid DEF Phases
  <2>3. Phases' = Phases
    BY <2>1, LeavesOnlyPaid DEF Phases, Phase, rows
  <2>4. Left' = [Left EXCEPT ![s] = TRUE]
    <3>1. \E i \in Items : out'[s][i] > 0
      BY <2>0, <2>1, LeavesOnlyPaid
    <3>2. \A z \in Sales \ {s} : out'[z] = out[z]
      BY <2>0, <2>1, LeavesOnlyPaid
    <3> QED BY <3>1, <3>2, Zenon DEF Left
  <2>5. Contract!Leave(s)
    BY <2>2, <2>3, <2>4 DEF Contract!Leave, Phases, Left
  <2> QED BY <2>5
<1>2. CASE UNCHANGED out /\ UNCHANGED rows
  BY <1>2 DEF rows, Phase
<1>3. CASE UNCHANGED out /\ ~UNCHANGED rows
  <2>1. PICK s \in Sales : RowMove(s)
    BY <1>3, RowMoves
  <2>2. Left' = Left
    BY <1>3 DEF Left
  <2>3. CASE Phase(s)' = Phase(s)
    <3>1. Phases' = Phases
      BY <2>1, <2>3, RowMoveCloses DEF Phases
    <3> QED BY <2>2, <3>1 DEF Phases, Left
  <2>4. CASE Phase(s)' # Phase(s)
    <3>1. Phase(s) = "open" /\ Phase(s)' \in Contract!Phases \ {"open"}
      BY <2>1, <2>4, RowMoveCloses
    <3>2. Phases' = [Phases EXCEPT ![s] = Phase(s)']
      BY <2>1, RowMoveCloses DEF Phases
    <3>3. Contract!Close(s)
      BY <2>2, <3>1, <3>2 DEF Contract!Close, Phases, Left
    <3> QED BY <3>3
  <2> QED BY <2>3, <2>4
<1> QED BY <1>1, <1>2, <1>3, OutMoves

\* Whatever the cashier, the seller, the customer, the viewers and the expiry
\* job do at once, and wherever they stop, a sale is paid once, by its QR or in
\* cash, or cancelled, for good, and its articles leave only once it is paid
\* (sales.service.ts payCash, cancelSale, expireSale, markPaidByPaymentRequest).
THEOREM ASaleIsPaidOnce == Spec => KeepsTheSale
<1>1. Init => Contract!ContractInit
  BY DEF Init, Contract!ContractInit, Phase
<1>2. TypeOK /\ SaleInv /\ (TypeOK /\ SaleInv)' /\ [Next]_vars =>
        [Contract!ContractNext]_(Contract!contractVars)
  BY StepKeepsTheSale
<1> QED BY <1>1, <1>2, SaleInvHolds, PTL DEF Spec, KeepsTheSale, Contract!ContractSpec

-----------------------------------------------------------------------------
(* The outbox of a device and the till it sells into (OfflineTill).        *)

USE DEF device, server, books, Kept, Window, Aside

-----------------------------------------------------------------------------
(* The oldest of some operations, and the last session that is open.       *)

LEMMA LeastOfNaturals ==
  ASSUME NEW S \in SUBSET Nat, S # {}
  PROVE  \E n \in S : \A i \in S : n <= i
<1> DEFINE R == {p \in Nat \X Nat : p[1] < p[2]}
<1>1. IsWellFoundedOn(R, Nat)
  BY NatLessThanWellFounded, Zenon DEF OpToRel
<1>2. \A i, j \in Nat : i < j => <<i, j>> \in R
  OBVIOUS
<1> HIDE DEF R
<1>3. PICK n \in S : \A i \in S : ~ (<<i, n>> \in R)
  BY <1>1, WFMin
<1>4. ASSUME NEW i \in S  PROVE n <= i
  <2>1. ~ (i < n)
    BY <1>2, <1>3
  <2> QED BY <2>1
<1> QED BY <1>4

LEMMA OldestIsOne ==
  ASSUME made \in Seq(Ops), NEW os, os \subseteq ToSet(made), os # {}
  PROVE  Oldest(os) \in os
<1> DEFINE at == {i \in DOMAIN made : made[i] \in os}
<1>1. DOMAIN made \subseteq Nat /\ \A i \in DOMAIN made : 1..i - 1 \subseteq DOMAIN made
  OBVIOUS
<1>2. at # {}
  BY DEF ToSet
<1>3. PICK n \in at : \A i \in at : n <= i
  <2> HIDE DEF at
  <2>1. at \in SUBSET Nat
    BY <1>1 DEF at
  <2> QED BY <2>1, <1>2, LeastOfNaturals
<1>4. \A j \in 1..n - 1 : made[j] \notin os
  BY <1>1, <1>3
<1>5. \E i \in DOMAIN made : made[i] \in os /\ \A j \in 1..i - 1 : made[j] \notin os
  BY <1>3, <1>4
<1> QED BY <1>5 DEF Oldest

LEMMA LastOpen ==
  ASSUME OpenNow # {}
  PROVE  Max(OpenNow) \in OpenNow /\ \A r \in OpenNow : Max(OpenNow) >= r
<1> DEFINE below == {MaxSessions - s : s \in OpenNow}
<1>1. OpenNow \subseteq Sessions /\ MaxSessions \in Nat
  BY OutboxAssumption DEF OpenNow
<1>2. below # {} /\ below \in SUBSET Nat
  <2>1. \A s \in OpenNow : MaxSessions - s \in Nat
    BY <1>1 DEF Sessions
  <2> QED BY <2>1
<1>3. PICK n \in below : \A i \in below : n <= i
  <2> HIDE DEF below
  <2> QED BY <1>2, LeastOfNaturals
<1>4. PICK s \in OpenNow : n = MaxSessions - s
  BY <1>3
<1>5. \A r \in OpenNow : s >= r
  <2> TAKE r \in OpenNow
  <2>1. MaxSessions - r \in below
    OBVIOUS
  <2>2. MaxSessions - s <= MaxSessions - r
    BY <1>3, <1>4, <2>1
  <2> QED BY <1>1, <2>2 DEF Sessions
<1> QED BY <1>5 DEF Max

\* The number of the next session is one there may be.
LEMMA SessionsCounted == Cardinality(Opened) \in 0..MaxSessions
<1>1. IsFiniteSet(Sessions) /\ Cardinality(Sessions) = MaxSessions
  BY OutboxAssumption, FS_Interval DEF Sessions
<1>2. Opened \subseteq Sessions
  BY DEF Opened
<1> QED BY <1>1, <1>2, FS_Subset, FS_CardinalityType, OutboxAssumption

\* The number of a request is one that is free.
LEMMA LeastFree ==
  ASSUME NEW free \in SUBSET Tries, free # {}
  PROVE  Min(free) \in free
<1>1. free \in SUBSET Nat
  BY DEF Tries
<1>2. PICK n \in free : \A i \in free : n <= i
  BY <1>1, LeastOfNaturals
<1> QED BY <1>2 DEF Min

-----------------------------------------------------------------------------
(* The types, and where what is in the lists comes from.                   *)

Runs  == [due: SUBSET Ops, op: Ops \cup {Nobody}, try: 0..MaxSent]
Hands == [pc: {"idle", "open", "sales", "close"}, session: 0..MaxSessions, seen: SUBSET Ops]

DeviceTypes ==
  /\ user \in Accounts \cup {Nobody}
  /\ disk \in [Accounts -> [Ops -> States]]
  /\ owner \in [Windows -> Accounts \cup {Nobody}]
  /\ ops \in [Windows -> [Ops -> States]]
  /\ dropped \subseteq Ops /\ unsafe \subseteq Ops

MadeTypes   == made \in Seq(Ops) /\ IsInjective(made)
RunTypes    == flush \in [Windows -> Runs]
WireTypes   == wire \subseteq Messages /\ checked \subseteq Looks
ServerTypes ==
  /\ copies \in [Ops -> 0..1]
  /\ home \in [Ops -> 0..MaxSessions] /\ booked \in [Ops -> 0..MaxSessions]
  /\ noted \subseteq OfflineSales /\ late \subseteq Ops
BookTypes ==
  /\ till \in [Sessions -> {"none", "open", "closed"}]
  /\ counted \in [Sessions -> SUBSET Ops]
  /\ manager \in [Managers -> Hands]

Types == DeviceTypes /\ MadeTypes /\ RunTypes /\ WireTypes /\ ServerTypes /\ BookTypes

LEMMA TypesAreTypeOK == Types <=> TillTypeOK
BY DEF Types, TillTypeOK, DeviceTypes, MadeTypes, RunTypes, WireTypes, ServerTypes, BookTypes,
   Runs, Hands

Made == ToSet(made)

\* A list, a run and a request only hold operations that were made.
ListsMade ==
  /\ \A t \in Windows : \A o \in Ops : ops[t][o] # "none" => o \in Made
  /\ \A u \in Accounts : \A o \in Ops : disk[u][o] # "none" => o \in Made
RunsMade == \A t \in Windows : flush[t].due \subseteq Made
SentMade == (\A msg \in wire : msg.op \in Made) /\ \A look \in checked : look.msg.op \in Made
RowsMade == \A o \in Ops : copies[o] > 0 => o \in Made

OwnersAgree == \A t \in Windows : owner[t] = user

OutboxInv == Types /\ ListsMade /\ RunsMade /\ SentMade /\ RowsMade /\ OwnersAgree

USE DEF OutboxInv, Types

-----------------------------------------------------------------------------
(* Lists and runs.                                                         *)

LEMMA SaveIs ==
  ASSUME OutboxInv, NEW t \in Windows, NEW list \in [Ops -> States], save(t, list)
  PROVE  /\ ops' \in [Windows -> [Ops -> States]] /\ disk' \in [Accounts -> [Ops -> States]]
         /\ ops'[t] = list /\ \A w \in Windows \ {t} : ops'[w] = ops[w]
         /\ \A u \in Accounts : disk'[u] = disk[u] \/ (u = owner[t] /\ disk'[u] = list)
         /\ unsafe \subseteq unsafe' /\ unsafe' \subseteq Ops
<1>1. ops' = [ops EXCEPT ![t] = list]
  BY DEF save
<1>2. disk' = disk \/ (owner[t] \in Accounts /\ disk' = [disk EXCEPT ![owner[t]] = list])
  BY DEF save, Stored, KeptInMemory, DeviceTypes
<1>3. unsafe \subseteq unsafe' /\ unsafe' \subseteq Ops
  BY DEF save, Stored, KeptInMemory, DeviceTypes
<1> QED BY <1>1, <1>2, <1>3 DEF DeviceTypes

\* A step on the list of a window, by which only what is in gone leaves it.
Saves(t, gone) ==
  \E list \in [Ops -> States] :
    /\ save(t, list)
    /\ \A i \in Ops : list[i] = "none" => ops[t][i] = "none" \/ i \in gone
    /\ \A i \in Ops : ops[t][i] = "none" => list[i] = "none"

LEMMA PatchedIs ==
  ASSUME NEW list \in [Ops -> States], NEW o \in Ops, NEW state \in States \ {"none"}
  PROVE  /\ Patched(list, o, state) \in [Ops -> States]
         /\ \A i \in Ops : Patched(list, o, state)[i] = "none" <=> list[i] = "none"
BY DEF Patched

LEMMA WithoutIs ==
  ASSUME NEW list \in [Ops -> States], NEW o \in Ops
  PROVE  /\ Without(list, o) \in [Ops -> States]
         /\ \A i \in Ops : Without(list, o)[i] = "none" <=> list[i] = "none" \/ i = o
BY DEF Without, States

\* What the window that is open, or the account that signs in, reads.
LEMMA LoadIs ==
  ASSUME OutboxInv, NEW u \in Accounts \cup {Nobody}
  PROVE  /\ load(u) \in [Ops -> States]
         /\ u # Nobody => \A o \in Ops : load(u)[o] = "none" <=> disk[u][o] = "none"
         /\ u = Nobody => load(u) = NoOps
BY DEF load, NoOps, DeviceTypes, States

\* What a step leaves of the runs and the requests on their way.
RunsGoOn == RunTypes' /\ RunsMade' /\ wire' \subseteq Messages /\ \A msg \in wire' : msg.op \in Made'

LEMMA SendIs ==
  ASSUME OutboxInv, NEW t \in Windows, NEW list \in [Ops -> States], UNCHANGED made,
         NEW batch \in SUBSET Made, batch # {}, NEW sent \in SUBSET wire, Send(t, list, batch, sent)
  PROVE  /\ RunsGoOn
         /\ \E l \in [Ops -> States] : save(t, l) /\ \A i \in Ops : l[i] = "none" <=> list[i] = "none"
<1>0. Made \subseteq Ops /\ Made' = Made
  BY DEF MadeTypes, Made, ToSet
<1>1. PICK o : o = Oldest(batch)
  OBVIOUS
<1>2. o \in batch /\ o \in Ops /\ o \in Made
  BY <1>0, <1>1, OldestIsOne DEF MadeTypes, Made
<1> DEFINE free == Tries \ {msg.try : msg \in {m \in sent \cup Handled : ~ WaitsFor(t, m)}}
<1>3. PICK n : n = Min(free)
  OBVIOUS
<1>4. n \in Tries
  <2>1. free \in SUBSET Tries /\ free # {}
    BY DEF Send
  <2> HIDE DEF free
  <2> QED BY <1>3, <2>1, LeastFree
<1>5. /\ save(t, Patched(list, o, "sending"))
      /\ wire' = sent \cup {[op |-> o, from |-> t, as |-> user, try |-> n]}
      /\ flush' = [flush EXCEPT ![t] = [due |-> batch \ {o}, op |-> o, try |-> n]]
  BY <1>1, <1>3 DEF Send
<1> HIDE DEF free
<1>6. [op |-> o, from |-> t, as |-> user, try |-> n] \in Messages
  BY <1>2, <1>4 DEF Messages, DeviceTypes
<1>7. wire' \subseteq Messages /\ \A msg \in wire' : msg.op \in Made'
  BY <1>0, <1>2, <1>5, <1>6 DEF WireTypes, SentMade
<1>8. [due |-> batch \ {o}, op |-> o, try |-> n] \in Runs
  BY <1>0, <1>2, <1>4, OutboxAssumption DEF Runs, Tries
<1>9. RunTypes' /\ RunsMade'
  BY <1>0, <1>5, <1>8 DEF RunTypes, RunsMade
<1>10. \A i \in Ops : Patched(list, o, "sending")[i] = "none" <=> list[i] = "none"
  BY <1>2, PatchedIs DEF States
<1>11. Patched(list, o, "sending") \in [Ops -> States]
  BY <1>2, PatchedIs DEF States
<1> QED BY <1>5, <1>7, <1>9, <1>10, <1>11 DEF RunsGoOn

LEMMA StopIs ==
  ASSUME OutboxInv, NEW t \in Windows, NEW list, UNCHANGED made,
         NEW sent \in SUBSET wire, Stop(t, list, sent)
  PROVE  RunsGoOn /\ save(t, list)
<1>1. Quiet \in Runs /\ Quiet.due = {}
  BY OutboxAssumption DEF Quiet, Runs
<1>2. Made' = Made
  BY DEF Made
<1>3. RunTypes' /\ RunsMade'
  BY <1>1, <1>2 DEF Stop, RunTypes, RunsMade
<1> QED BY <1>2, <1>3 DEF Stop, RunsGoOn, WireTypes, SentMade

\* What an answer does: it is lost, or the window that waits for it goes on; only
\* what was answered "ok" leaves its list.
Gone(msg, answer) == IF answer = "ok" THEN {msg.op} ELSE {}

LEMMA AfterIs ==
  ASSUME OutboxInv, NEW t \in Windows, NEW o \in Ops, NEW answer \in Answers
  PROVE  /\ After(ops[t], o, answer) \in [Ops -> States]
         /\ \A i \in Ops : ops[t][i] = "none" => After(ops[t], o, answer)[i] = "none"
         /\ \A i \in Ops : After(ops[t], o, answer)[i] = "none" =>
              ops[t][i] = "none" \/ (answer = "ok" /\ i = o)
<1>1. ops[t] \in [Ops -> States]
  BY DEF DeviceTypes
<1>2. CASE answer = "ok"
  BY <1>1, <1>2, WithoutIs DEF After
<1>3. CASE answer = "busy"
  <2>1. After(ops[t], o, answer) = Patched(ops[t], o, "pending")
    BY <1>3 DEF After
  <2> QED BY <1>1, <2>1, PatchedIs DEF States
<1>4. CASE answer = "refused"
  <2>1. After(ops[t], o, answer) = Patched(ops[t], o, "error")
    BY <1>4 DEF After
  <2> QED BY <1>1, <2>1, PatchedIs DEF States
<1> QED BY <1>2, <1>3, <1>4 DEF Answers

LEMMA AnsweredIs ==
  ASSUME OutboxInv, NEW t \in Windows, NEW o \in Ops, o = flush[t].op, NEW answer \in Answers,
         UNCHANGED made, NEW sent \in SUBSET wire, Answered(t, answer, sent)
  PROVE  RunsGoOn /\ Saves(t, IF answer = "ok" THEN {o} ELSE {})
<1>1. PICK list : list = After(ops[t], o, answer)
  OBVIOUS
<1>2. /\ list \in [Ops -> States]
      /\ \A i \in Ops : ops[t][i] = "none" => list[i] = "none"
      /\ \A i \in Ops : list[i] = "none" => ops[t][i] = "none" \/ i \in IF answer = "ok" THEN {o} ELSE {}
  BY <1>1, AfterIs
<1>3. IF flush[t].due = {} THEN Stop(t, list, sent) ELSE Send(t, list, flush[t].due, sent)
  BY <1>1 DEF Answered
<1>4. CASE flush[t].due = {}
  <2>1. RunsGoOn /\ save(t, list)
    BY <1>3, <1>4, StopIs
  <2> QED BY <1>2, <2>1 DEF Saves
<1>5. CASE flush[t].due # {}
  <2>1. flush[t].due \in SUBSET Made /\ Send(t, list, flush[t].due, sent)
    BY <1>3, <1>5 DEF RunsMade
  <2>2. /\ RunsGoOn
        /\ \E l \in [Ops -> States] : save(t, l) /\ \A i \in Ops : l[i] = "none" <=> list[i] = "none"
    BY <1>2, <1>5, <2>1, SendIs
  <2> QED BY <1>2, <2>2 DEF Saves
<1> QED BY <1>4, <1>5

LEMMA AnswerIs ==
  ASSUME OutboxInv, NEW msg \in Messages, NEW answer \in Answers, UNCHANGED made, Answer(msg, answer)
  PROVE  RunsGoOn /\ (UNCHANGED Window \/ \E t \in Windows : Saves(t, Gone(msg, answer)))
<1>1. CASE WaitsFor(msg.from, msg) /\ Answered(msg.from, answer, wire \ {msg})
  <2>1. msg.from \in Windows /\ msg.op \in Ops /\ msg.op = flush[msg.from].op
    BY <1>1 DEF Messages, WaitsFor
  <2> QED BY <1>1, <2>1, AnsweredIs DEF Gone
<1>2. CASE wire' = wire \ {msg} /\ UNCHANGED Window
  BY <1>2 DEF RunsGoOn, RunTypes, RunsMade, WireTypes, SentMade, Made
<1> QED BY <1>1, <1>2 DEF Answer

LEMMA HoldIs ==
  ASSUME OutboxInv, NEW m \in Managers, NEW step \in {"idle", "open", "sales", "close"},
         NEW s \in 0..MaxSessions, NEW seen \in SUBSET Ops, Hold(m, step, s, seen)
  PROVE  /\ manager' \in [Managers -> Hands]
         /\ manager'[m].pc = step /\ manager'[m].session = s /\ manager'[m].seen = seen
         /\ \A n \in Managers \ {m} : manager'[n] = manager[n]
BY DEF Hold, BookTypes, Hands

-----------------------------------------------------------------------------
(* The steps.                                                              *)

\* A step of a window on its own list, but for making an operation.
Device(t) ==
  \/ NoAnswer(t) \/ \E batch \in SUBSET Pending(t) : flushOutbox(t, batch)
  \/ \E o \in Ops : retryOp(t, o) \/ GiveUp(t, o)

LEMMA NextIs ==
  ASSUME TillNext
  PROVE  \/ \E u \in Accounts \cup {Nobody} : useAccount(u)
         \/ \E t \in Windows : Reopen(t) \/ Device(t) \/ \E o \in Ops : enqueue(t, o)
         \/ \E msg \in wire : TurnAway(msg) \/ Receive(msg)
         \/ \E look \in checked : InsertRow(look)
         \/ \E m \in Managers : Manage(m)
<1>1. ASSUME NEW t \in Windows, Go(t)  PROVE Device(t)
  BY <1>1 DEF Go, Device
<1> QED BY <1>1 DEF TillNext, Calm, Timeout, Serve, Device, Use

\* What such a step does: only what is given up leaves the list.
LEMMA DeviceIs ==
  ASSUME OutboxInv, NEW t \in Windows, Device(t)
  PROVE  /\ RunsGoOn /\ Saves(t, dropped')
         /\ dropped \subseteq dropped' /\ dropped' \subseteq Ops
         /\ UNCHANGED <<user, made, owner, checked, server, books>>
<1>0. ops[t] \in [Ops -> States] /\ dropped \subseteq Ops
  BY DEF DeviceTypes
<1>1. CASE NoAnswer(t)
  <2> USE <1>1 DEF NoAnswer
  <2>1. flush[t].op \in Ops
    BY DEF Idle, RunTypes, Runs
  <2>2. PICK list : list = Patched(ops[t], flush[t].op, "pending")
    OBVIOUS
  <2>3. RunsGoOn /\ save(t, list)
    BY <2>2, StopIs
  <2> QED BY <1>0, <2>1, <2>2, <2>3, PatchedIs DEF States, Saves
<1>2. ASSUME NEW batch \in SUBSET Pending(t), flushOutbox(t, batch)  PROVE
         /\ RunsGoOn /\ Saves(t, dropped')
         /\ UNCHANGED <<user, made, owner, dropped, checked, server, books>>
  <2> USE <1>2 DEF flushOutbox
  <2>1. batch \in SUBSET Made
    BY DEF Pending, ListsMade
  <2> QED BY <1>0, <2>1, SendIs DEF Saves
<1>3. ASSUME UNCHANGED <<made, flush, wire>>  PROVE RunsGoOn
  BY <1>3 DEF RunsGoOn, RunTypes, RunsMade, WireTypes, SentMade, Made
<1>4. ASSUME NEW o \in Ops, retryOp(t, o)  PROVE Saves(t, dropped')
  BY <1>0, <1>4, PatchedIs DEF retryOp, patch, States, Saves
<1>5. ASSUME NEW o \in Ops, GiveUp(t, o)  PROVE Saves(t, dropped')
  BY <1>0, <1>5, WithoutIs DEF GiveUp, discardOp, Saves
<1> QED BY <1>0, <1>1, <1>2, <1>3, <1>4, <1>5 DEF Device, retryOp, GiveUp

-----------------------------------------------------------------------------
(* OutboxInv is inductive.                                                 *)

LEMMA OutboxInvInit == ASSUME TillInit PROVE OutboxInv
<1> USE DEF TillInit
<1>1. DeviceTypes
  BY DEF DeviceTypes, NoOps, States
<1>2. MadeTypes /\ ToSet(made) = {}
  BY DEF MadeTypes, IsInjective, ToSet
<1>3. RunTypes
  BY OutboxAssumption DEF RunTypes, Runs, Quiet
<1>4. WireTypes /\ ServerTypes /\ BookTypes
  BY OutboxAssumption DEF WireTypes, ServerTypes, BookTypes, Hands, FreeHand
<1>5. ListsMade /\ RunsMade /\ SentMade /\ RowsMade /\ OwnersAgree
  BY DEF ListsMade, RunsMade, SentMade, RowsMade, OwnersAgree, NoOps, Quiet
<1> QED BY <1>1, <1>2, <1>3, <1>4, <1>5

\* The lists after a window has stored one of operations that were made.
LEMMA SaveMade ==
  ASSUME OutboxInv, NEW t \in Windows, NEW list \in [Ops -> States], save(t, list),
         Made \subseteq Made', \A o \in Ops : list[o] # "none" => o \in Made'
  PROVE  ListsMade'
<1>1. ASSUME NEW w \in Windows, NEW o \in Ops, ops'[w][o] # "none"  PROVE o \in Made'
  BY <1>1, SaveIs DEF ListsMade
<1>2. ASSUME NEW u \in Accounts, NEW o \in Ops, disk'[u][o] # "none"  PROVE o \in Made'
  BY <1>2, SaveIs DEF ListsMade
<1> QED BY <1>1, <1>2 DEF ListsMade

\* What a step leaves of the lists.
ListsGoOn == DeviceTypes' /\ ListsMade' /\ OwnersAgree'

LEMMA SavesIs ==
  ASSUME OutboxInv, NEW gone, NEW t \in Windows, Saves(t, gone),
         dropped' \subseteq Ops, UNCHANGED <<user, made, owner>>
  PROVE  ListsGoOn
<1>1. PICK list \in [Ops -> States] :
        save(t, list) /\ \A i \in Ops : ops[t][i] = "none" => list[i] = "none"
  BY DEF Saves
<1>2. DeviceTypes' /\ OwnersAgree'
  BY <1>1, SaveIs DEF DeviceTypes, OwnersAgree
<1>3. ListsMade'
  BY <1>1, SaveMade DEF ListsMade, Made
<1> QED BY <1>2, <1>3 DEF ListsGoOn

LEMMA DeviceInv ==
  ASSUME OutboxInv, NEW t \in Windows, Device(t)
  PROVE  OutboxInv'
<1>1. /\ RunsGoOn /\ Saves(t, dropped') /\ dropped' \subseteq Ops
      /\ UNCHANGED <<user, made, owner, checked, server, books>>
  BY DeviceIs
<1>2. ListsGoOn
  BY <1>1, SavesIs
<1> QED
  BY <1>1, <1>2 DEF ListsGoOn, RunsGoOn, MadeTypes, WireTypes, ServerTypes, BookTypes, SentMade,
     RowsMade, Made

LEMMA UseAccountInv ==
  ASSUME OutboxInv, NEW u \in Accounts \cup {Nobody}, useAccount(u)
  PROVE  OutboxInv'
<1> USE DEF useAccount
<1>1. DeviceTypes'
  BY LoadIs DEF DeviceTypes
<1>2. ListsMade' /\ OwnersAgree'
  BY LoadIs DEF ListsMade, Made, NoOps, OwnersAgree
<1> QED
  BY <1>1, <1>2 DEF MadeTypes, RunTypes, WireTypes, ServerTypes, BookTypes, RunsMade, SentMade,
     RowsMade, Made

LEMMA ReopenInv ==
  ASSUME OutboxInv, NEW t \in Windows, Reopen(t)
  PROVE  OutboxInv'
<1> USE DEF Reopen
<1>0. owner[t] \in Accounts \cup {Nobody} /\ Quiet \in Runs
  BY OutboxAssumption DEF DeviceTypes, Quiet, Runs
<1>1. DeviceTypes' /\ RunTypes'
  BY <1>0, LoadIs DEF DeviceTypes, RunTypes
<1>2. ListsMade'
  BY <1>0, LoadIs DEF ListsMade, Made, NoOps, DeviceTypes
<1>3. RunsMade'
  BY DEF RunsMade, Made, Quiet, RunTypes
<1> QED
  BY <1>1, <1>2, <1>3 DEF MadeTypes, WireTypes, ServerTypes, BookTypes, SentMade, RowsMade,
     OwnersAgree, Made

LEMMA EnqueueInv ==
  ASSUME OutboxInv, NEW t \in Windows, NEW o \in Ops, enqueue(t, o)
  PROVE  OutboxInv' /\ Made' = Made \cup {o}
<1> USE DEF enqueue
<1>1. MadeTypes' /\ Made' = Made \cup {o}
  <2>1. /\ made' \in Seq(Ops) /\ Len(made') = Len(made) + 1 /\ made'[Len(made) + 1] = o
        /\ \A i \in 1..Len(made) : made'[i] = made[i]
    BY DEF MadeTypes
  <2>2. DOMAIN made = 1..Len(made) /\ DOMAIN made' = 1..Len(made) + 1 /\ Len(made) \in Nat
    BY <2>1 DEF MadeTypes
  <2>3. \A i \in 1..Len(made) : made[i] # o
    BY <2>2 DEF ToSet
  <2>4. IsInjective(made')
    BY <2>1, <2>2, <2>3 DEF MadeTypes, IsInjective
  <2>5. \A i \in 1..Len(made) + 1 : i \in 1..Len(made) \/ i = Len(made) + 1
    BY <2>2
  <2>6. Made' = Made \cup {o}
    BY <2>1, <2>2, <2>5 DEF Made, ToSet
  <2> QED BY <2>1, <2>4, <2>6 DEF MadeTypes
<1>2. PICK list : list = [ops[t] EXCEPT ![o] = "pending"]
  OBVIOUS
<1>3. list \in [Ops -> States] /\ save(t, list) /\ \A i \in Ops : list[i] # "none" => i \in Made'
  BY <1>1, <1>2 DEF DeviceTypes, States, ListsMade
<1>4. DeviceTypes' /\ ListsMade'
  BY <1>1, <1>3, SaveIs, SaveMade DEF DeviceTypes
<1>5. ServerTypes'
  BY SessionsCounted DEF ServerTypes
<1>6. RunsMade' /\ SentMade' /\ RowsMade'
  BY <1>1 DEF RunsMade, SentMade, RowsMade
<1> QED
  BY <1>1, <1>4, <1>5, <1>6 DEF RunTypes, WireTypes, BookTypes, OwnersAgree

-----------------------------------------------------------------------------
(* What the server does, and what its answer does to the window.           *)

\* What a step of the server leaves of the device.
Heeded(gone) ==
  /\ UNCHANGED Kept /\ RunsGoOn
  /\ UNCHANGED Window \/ \E t \in Windows : Saves(t, gone)

LEMMA HeededInv ==
  ASSUME OutboxInv, NEW gone, Heeded(gone)
  PROVE  ListsGoOn /\ MadeTypes' /\ RunTypes' /\ BookTypes' /\ RunsMade' /\ Made' = Made
<1>1. dropped' \subseteq Ops /\ UNCHANGED <<user, made, owner>>
  BY DEF Heeded, DeviceTypes
<1>2. ListsGoOn
  <2>1. CASE UNCHANGED Window
    BY <1>1, <2>1 DEF Heeded, ListsGoOn, DeviceTypes, ListsMade, OwnersAgree, Made
  <2> QED BY <1>1, <2>1, SavesIs DEF Heeded
<1> QED BY <1>2 DEF Heeded, RunsGoOn, MadeTypes, BookTypes, Made

LEMMA TurnAwayIs ==
  ASSUME OutboxInv, NEW msg \in wire, TurnAway(msg)
  PROVE  Heeded({}) /\ UNCHANGED <<checked, server>>
BY AnswerIs DEF TurnAway, Heeded, Gone, WireTypes, Answers

LEMMA RecordedIs ==
  ASSUME OutboxInv, NEW msg \in Messages, Recorded(msg), UNCHANGED Kept
  PROVE  Heeded({msg.op})
<1>1. ASSUME NEW answer \in {"ok", "busy"}, Answer(msg, answer)  PROVE Heeded({msg.op})
  <2>1. answer \in Answers
    BY DEF Answers
  <2>2. RunsGoOn /\ (UNCHANGED Window \/ \E t \in Windows : Saves(t, Gone(msg, answer)))
    BY <1>1, <2>1, AnswerIs
  <2>3. Gone(msg, answer) \subseteq {msg.op}
    BY DEF Gone
  <2> QED BY <2>2, <2>3 DEF Heeded, Saves
<1> QED BY <1>1 DEF Recorded

LEMMA TurnAwayInv ==
  ASSUME OutboxInv, NEW msg \in wire, TurnAway(msg)
  PROVE  OutboxInv'
<1>1. Heeded({}) /\ UNCHANGED <<checked, server>>
  BY TurnAwayIs
<1> QED
  BY <1>1, HeededInv DEF Heeded, RunsGoOn, ListsGoOn, WireTypes, ServerTypes, SentMade, RowsMade

\* A request that is answered, or has looked for its session.
LEMMA ReceiveIs ==
  ASSUME OutboxInv, NEW msg \in wire, Receive(msg)
  PROVE  /\ UNCHANGED server
         /\ Heeded({}) \/ (copies[msg.op] > 0 /\ Heeded({msg.op}))
         /\ \/ UNCHANGED checked
            \/ \E s \in 0..MaxSessions : \E open \in BOOLEAN : Look(msg, s, open)
<1>0. msg \in Messages /\ msg.op \in Ops
  BY DEF WireTypes, Messages
<1>1. ASSUME wire' = wire \ {msg}, UNCHANGED <<Window, Kept>>  PROVE Heeded({})
  BY <1>1 DEF Heeded, RunsGoOn, RunTypes, RunsMade, WireTypes, SentMade, Made
<1>2. CASE AlreadyThere(msg)
  BY <1>0, <1>2, RecordedIs DEF AlreadyThere
<1>3. CASE record_offline_pos_sale(msg)
  <2>1. ASSUME OpenNow # {}  PROVE Max(OpenNow) \in 0..MaxSessions
    BY <2>1, LastOpen, OutboxAssumption DEF OpenNow, Sessions
  <2>2. home[msg.op] \in 0..MaxSessions
    BY <1>0 DEF ServerTypes
  <2> QED BY <1>1, <1>3, <2>1, <2>2 DEF record_offline_pos_sale
<1>4. CASE addMovement(msg)
  <2>1. home[msg.op] \in 0..MaxSessions
    BY <1>0 DEF ServerTypes
  <2>2. CASE till[home[msg.op]] = "open"
    BY <1>1, <1>4, <2>1, <2>2 DEF addMovement
  <2>3. CASE till[home[msg.op]] # "open"
    <3>1. Answer(msg, "refused") /\ UNCHANGED <<checked, Kept, server>>
      BY <1>4, <2>3 DEF addMovement
    <3>2. Gone(msg, "refused") = {} /\ "refused" \in Answers
      BY DEF Gone, Answers
    <3> QED BY <1>0, <3>1, <3>2, AnswerIs DEF Heeded
  <2> QED BY <2>2, <2>3
<1> QED BY <1>2, <1>3, <1>4 DEF Receive

LEMMA ReceiveInv ==
  ASSUME OutboxInv, NEW msg \in wire, Receive(msg)
  PROVE  OutboxInv'
<1>0. msg \in Messages /\ msg.op \in Made
  BY DEF WireTypes, SentMade
<1>1. UNCHANGED server /\ (Heeded({}) \/ Heeded({msg.op}))
  BY ReceiveIs
<1>2. /\ ListsGoOn /\ MadeTypes' /\ RunTypes' /\ BookTypes' /\ RunsMade' /\ Made' = Made
  BY <1>1, HeededInv
<1>3. checked' \subseteq Looks /\ \A look \in checked' : look.msg.op \in Made
  <2>1. CASE UNCHANGED checked
    BY <2>1 DEF WireTypes, SentMade
  <2>2. ASSUME NEW s \in 0..MaxSessions, NEW open \in BOOLEAN, Look(msg, s, open)
        PROVE  checked' \subseteq Looks /\ \A look \in checked' : look.msg.op \in Made
    BY <1>0, <2>2 DEF Look, Looks, WireTypes, SentMade
  <2> QED BY <2>1, <2>2, ReceiveIs
<1>4. wire' \subseteq Messages /\ \A other \in wire' : other.op \in Made'
  BY <1>1 DEF Heeded, RunsGoOn
<1> QED BY <1>1, <1>2, <1>3, <1>4 DEF ListsGoOn, WireTypes, ServerTypes, SentMade, RowsMade

\* A row is written by the first of two requests.
LEMMA InsertRowIs ==
  ASSUME OutboxInv, NEW look \in checked, InsertRow(look)
  PROVE  /\ ServerTypes' /\ checked' = checked \ {look} /\ UNCHANGED home
         /\ Heeded({look.msg.op}) /\ copies'[look.msg.op] > 0
         /\ \A o \in Ops \ {look.msg.op} : copies'[o] = copies[o] /\ booked'[o] = booked[o]
         /\ noted \subseteq noted' /\ late \subseteq late'
<1> USE DEF InsertRow
<1>0. look.msg \in Messages /\ look.msg.op \in Ops /\ look.session \in 0..MaxSessions
  BY DEF WireTypes, Looks, Messages
<1>1. CASE copies[look.msg.op] = 0
  BY <1>0, <1>1, RecordedIs DEF ServerTypes
<1>2. CASE copies[look.msg.op] # 0
  BY <1>0, <1>2, RecordedIs DEF ServerTypes
<1> QED BY <1>1, <1>2

LEMMA InsertRowInv ==
  ASSUME OutboxInv, NEW look \in checked, InsertRow(look)
  PROVE  OutboxInv'
<1>1. /\ ServerTypes' /\ checked' = checked \ {look} /\ Heeded({look.msg.op})
      /\ \A o \in Ops \ {look.msg.op} : copies'[o] = copies[o]
  BY InsertRowIs
<1>2. ListsGoOn /\ MadeTypes' /\ RunTypes' /\ BookTypes' /\ RunsMade' /\ Made' = Made
  BY <1>1, HeededInv
<1>3. WireTypes' /\ SentMade' /\ RowsMade'
  BY <1>1, <1>2 DEF Heeded, RunsGoOn, WireTypes, SentMade, RowsMade
<1> QED BY <1>1, <1>2, <1>3 DEF ListsGoOn

LEMMA ManageInv ==
  ASSUME OutboxInv, NEW m \in Managers, Manage(m)
  PROVE  OutboxInv'
<1>1. BookTypes'
  <2>0. 0 \in 0..MaxSessions /\ {} \in SUBSET Ops
    BY OutboxAssumption
  <2>1. manager[m] \in Hands
    BY DEF BookTypes
  <2>2. CASE openSession(m)
    BY <2>0, <2>2, HoldIs DEF openSession, BookTypes
  <2>3. CASE InsertSession(m)
    BY <2>0, <2>3, HoldIs DEF InsertSession, BookTypes
  <2>4. CASE closeSession(m)
    <3>1. PICK s \in OpenNow : Hold(m, "sales", s, Written(s) \cap Moves)
      BY <2>4 DEF closeSession
    <3>2. s \in 0..MaxSessions /\ Written(s) \cap Moves \in SUBSET Ops
      BY OutboxAssumption DEF OpenNow, Sessions, Written
    <3> QED BY <2>4, <3>1, <3>2, HoldIs DEF closeSession, BookTypes
  <2>5. CASE sessionCashSales(m)
    <3>1. manager[m].seen \cup (Written(manager[m].session) \cap OfflineSales) \in SUBSET Ops
      BY <2>1 DEF Hands, Written
    <3> QED BY <2>1, <2>5, <3>1, HoldIs DEF sessionCashSales, BookTypes, Hands
  <2>6. CASE CloseNow(m)
    <3>1. till' \in [Sessions -> {"none", "open", "closed"}] /\ counted' \in [Sessions -> SUBSET Ops]
      BY <2>1, <2>6 DEF CloseNow, BookTypes, Hands
    <3> QED BY <2>0, <2>6, <3>1, HoldIs DEF CloseNow, BookTypes
  <2> QED BY <2>2, <2>3, <2>4, <2>5, <2>6 DEF Manage
<1>2. UNCHANGED Aside
  BY DEF Manage, openSession, InsertSession, closeSession, sessionCashSales, CloseNow
<1> QED
  BY <1>1, <1>2 DEF DeviceTypes, ListsMade, MadeTypes, RunTypes, RunsMade, WireTypes,
     ServerTypes, SentMade, RowsMade, OwnersAgree, Made

LEMMA OutboxInvStep == ASSUME OutboxInv, [TillNext]_tillVars PROVE OutboxInv'
<1>1. CASE TillNext
  BY <1>1, NextIs, UseAccountInv, ReopenInv, DeviceInv, EnqueueInv, TurnAwayInv, ReceiveInv,
     InsertRowInv, ManageInv
<1>2. CASE UNCHANGED tillVars
  BY <1>2 DEF tillVars, DeviceTypes, ListsMade, MadeTypes, RunTypes, RunsMade, WireTypes,
     ServerTypes, BookTypes, SentMade, RowsMade, OwnersAgree, Made
<1> QED BY <1>1, <1>2

\* TypeOK: whatever windows, accounts, lost answers and replies there are, an
\* operation is written at most once, and a list only holds what was made.
THEOREM TillTypesHold == TillSpec => []TillTypeOK
<1>1. OutboxInv => TillTypeOK
  BY TypesAreTypeOK
<1> QED BY <1>1, OutboxInvInit, OutboxInvStep, PTL DEF TillSpec

-----------------------------------------------------------------------------
(* Nothing is lost.                                                        *)

\* What is not at the server, nor given up, nor unsafe is on the device of its author,
\* and in the window it was made in as long as the author is signed in there: the
\* next list this window stores has it too.
Safe(o) ==
  \/ copies[o] > 0 \/ o \in dropped \/ o \in unsafe
  \/ /\ disk[Author[o]][o] # "none"
     /\ owner[Maker[o]] = Author[o] => ops[Maker[o]][o] # "none"

KeptInv == \A o \in Made : Safe(o)

LEMMA SaveKeeps ==
  ASSUME OutboxInv, NEW t \in Windows, NEW list \in [Ops -> States], save(t, list), UNCHANGED owner,
         NEW o \in Ops, dropped \subseteq dropped', copies[o] > 0 => copies'[o] > 0,
         \/ Safe(o) /\ (list[o] = "none" => ops[t][o] = "none" \/ copies'[o] > 0 \/ o \in dropped')
         \/ list[o] # "none" /\ owner[t] = Author[o] /\ t = Maker[o]
  PROVE  Safe(o)'
<1>0. Author[o] \in Accounts /\ Author[o] # Nobody /\ Maker[o] \in Windows
  BY OutboxAssumption
<1>1. /\ ops'[t] = list /\ \A w \in Windows \ {t} : ops'[w] = ops[w]
      /\ \A u \in Accounts : disk'[u] = disk[u] \/ (u = owner[t] /\ disk'[u] = list)
      /\ unsafe \subseteq unsafe'
  BY SaveIs
<1>2. CASE Stored(t, list)
  <2>1. owner[t] = Author[o] => disk'[Author[o]] = list
    BY <1>0, <1>2 DEF Stored, DeviceTypes
  <2>2. /\ Maker[o] # t /\ ops[t][o] = "none" /\ list[o] = "none"
        /\ owner[t] = Author[o] /\ disk[Author[o]][o] # "none"
        => o \in unsafe'
    BY <1>2 DEF Stored
  <2> QED BY <1>0, <1>1, <2>1, <2>2 DEF Safe
<1>3. CASE KeptInMemory(t, list) /\ owner[t] # Nobody
  <2>1. disk' = disk /\ (list[o] # "none" /\ disk[owner[t]][o] = "none" => o \in unsafe')
    BY <1>3 DEF KeptInMemory
  <2> QED BY <1>0, <1>1, <2>1 DEF Safe
<1> QED BY <1>2, <1>3 DEF save

\* A step of a window, by which only what is written or given up leaves its list.
LEMMA SavesKeep ==
  ASSUME OutboxInv, KeptInv, NEW gone, NEW t \in Windows, Saves(t, gone), UNCHANGED <<made, owner>>,
         dropped \subseteq dropped', \A o \in Ops : copies[o] > 0 => copies'[o] > 0,
         \A o \in gone : o \in dropped' \/ copies'[o] > 0
  PROVE  KeptInv'
<1>1. PICK list \in [Ops -> States] :
        save(t, list) /\ \A i \in Ops : list[i] = "none" => ops[t][i] = "none" \/ i \in gone
  BY DEF Saves
<1>2. Made' = Made /\ Made \subseteq Ops
  BY DEF Made, MadeTypes, ToSet
<1>3. ASSUME NEW o \in Made  PROVE Safe(o)'
  BY <1>1, <1>2, SaveKeeps DEF KeptInv
<1> QED BY <1>2, <1>3 DEF KeptInv

\* A step that does nothing to the lists and the storage.
LEMMA StillThere ==
  ASSUME OutboxInv, KeptInv, UNCHANGED <<made, disk, owner, ops, dropped, unsafe>>,
         \A o \in Ops : copies[o] > 0 => copies'[o] > 0
  PROVE  KeptInv'
<1>1. Made' = Made /\ Made \subseteq Ops
  BY DEF Made, MadeTypes, ToSet
<1>2. ASSUME NEW o \in Made  PROVE Safe(o)'
  BY <1>1 DEF KeptInv, Safe
<1> QED BY <1>1, <1>2 DEF KeptInv

LEMMA HeededKeeps ==
  ASSUME OutboxInv, KeptInv, NEW gone, Heeded(gone), \A o \in Ops : copies[o] > 0 => copies'[o] > 0,
         \A o \in gone : copies'[o] > 0
  PROVE  KeptInv'
<1>1. UNCHANGED <<made, owner, dropped>>
  BY DEF Heeded
<1>2. CASE UNCHANGED Window
  BY <1>1, <1>2, StillThere
<1>3. ASSUME NEW t \in Windows, Saves(t, gone)  PROVE KeptInv'
  BY <1>1, <1>3, SavesKeep
<1> QED BY <1>2, <1>3 DEF Heeded

LEMMA KeptInvStep ==
  ASSUME OutboxInv, KeptInv, [TillNext]_tillVars
  PROVE  KeptInv'
<1>0. /\ Made \subseteq Ops
      /\ \A o \in Ops : Author[o] \in Accounts /\ Author[o] # Nobody /\ Maker[o] \in Windows
  BY OutboxAssumption DEF Made, MadeTypes, ToSet
<1>1. ASSUME NEW u \in Accounts \cup {Nobody}, useAccount(u)  PROVE KeptInv'
  <2> SUFFICES ASSUME NEW o \in Made  PROVE Safe(o)'
    BY <1>1 DEF useAccount, KeptInv, Made
  <2> QED BY <1>0, <1>1, LoadIs DEF useAccount, KeptInv, Safe
<1>2. ASSUME NEW t \in Windows, Reopen(t)  PROVE KeptInv'
  <2>1. owner[t] \in Accounts \cup {Nobody}
    BY DEF DeviceTypes
  <2>2. ops' = [ops EXCEPT ![t] = load(owner[t])] /\ UNCHANGED <<made, owner, disk, dropped, unsafe, copies>>
    BY <1>2 DEF Reopen
  <2> SUFFICES ASSUME NEW o \in Made  PROVE Safe(o)'
    BY <2>2 DEF KeptInv, Made
  <2>3. CASE Maker[o] = t
    <3>1. ops'[Maker[o]] = load(owner[t])
      BY <1>0, <2>2, <2>3 DEF DeviceTypes
    <3> QED BY <1>0, <2>1, <2>2, <2>3, <3>1, LoadIs DEF KeptInv, Safe
  <2>4. CASE Maker[o] # t
    BY <1>0, <2>2, <2>4 DEF KeptInv, Safe, DeviceTypes
  <2> QED BY <2>3, <2>4
<1>3. ASSUME NEW t \in Windows, Device(t)  PROVE KeptInv'
  BY <1>3, DeviceIs, SavesKeep
<1>4. ASSUME NEW t \in Windows, NEW o \in Ops, enqueue(t, o)  PROVE KeptInv'
  <2>1. Made' = Made \cup {o} /\ o \notin Made
    BY <1>4, EnqueueInv DEF enqueue, Made
  <2>2. PICK list : list = [ops[t] EXCEPT ![o] = "pending"]
    OBVIOUS
  <2>3. /\ list \in [Ops -> States] /\ save(t, list) /\ list[o] # "none"
        /\ \A i \in Ops \ {o} : list[i] = ops[t][i]
    BY <1>4, <2>2 DEF enqueue, DeviceTypes, States
  <2>4. owner[t] = Author[o] /\ t = Maker[o] /\ UNCHANGED <<owner, dropped, copies>>
    BY <1>4 DEF enqueue, OwnersAgree
  <2>5. ASSUME NEW i \in Made \cup {o}  PROVE Safe(i)'
    <3>1. i \in Ops /\ (i = o \/ (Safe(i) /\ list[i] = ops[t][i]))
      BY <1>0, <2>1, <2>3 DEF KeptInv
    <3>2. dropped \subseteq dropped' /\ (copies[i] > 0 => copies'[i] > 0) /\ UNCHANGED owner
      BY <2>4
    <3>3. \/ Safe(i) /\ (list[i] = "none" => ops[t][i] = "none")
          \/ list[i] # "none" /\ owner[t] = Author[i] /\ t = Maker[i]
      BY <2>3, <2>4, <3>1
    <3> QED BY <2>3, <3>1, <3>2, <3>3, SaveKeeps
  <2> QED BY <2>1, <2>5 DEF KeptInv
<1>5. ASSUME NEW msg \in wire, TurnAway(msg) \/ Receive(msg)  PROVE KeptInv'
  <2>1. UNCHANGED server /\ (Heeded({}) \/ (copies[msg.op] > 0 /\ Heeded({msg.op})))
    BY <1>5, TurnAwayIs, ReceiveIs
  <2> QED BY <2>1, HeededKeeps
<1>6. ASSUME NEW look \in checked, InsertRow(look)  PROVE KeptInv'
  BY <1>6, InsertRowIs, HeededKeeps
<1>7. ASSUME NEW m \in Managers, Manage(m)  PROVE KeptInv'
  BY <1>7, StillThere DEF Manage, openSession, InsertSession, closeSession, sessionCashSales, CloseNow
<1>8. CASE UNCHANGED tillVars
  BY <1>8, StillThere DEF tillVars
<1> QED BY <1>1, <1>2, <1>3, <1>4, <1>5, <1>6, <1>7, <1>8, NextIs

\* WrittenOnce: what is made offline is written once, or waits on the device of its
\* author, or was given up, through any stops, changes of account, lost and late
\* answers, in any number of windows; but for what a full storage kept in memory only
\* (outbox.ts:84-87) and what another window wrote its list over.
THEOREM SentOnceAndKept == TillSpec => []WrittenOnce
<1>1. TillInit => KeptInv
  BY DEF TillInit, KeptInv, Made, ToSet
<1>2. OutboxInv /\ KeptInv /\ [TillNext]_tillVars => (OutboxInv /\ KeptInv)'
  BY OutboxInvStep, KeptInvStep
<1>3. OutboxInv /\ KeptInv => WrittenOnce
  <2> SUFFICES ASSUME OutboxInv, KeptInv, NEW i \in DOMAIN made, NEW o, o = made[i]
               PROVE  copies[o] > 0 \/ disk[Author[o]][o] \in Waiting \/ o \in dropped \/ o \in unsafe
    BY TypesAreTypeOK DEF WrittenOnce, NothingIsLost
  <2>1. o \in Made /\ o \in Ops
    BY DEF Made, MadeTypes, ToSet
  <2>2. disk[Author[o]][o] \in States
    BY <2>1, OutboxAssumption DEF DeviceTypes
  <2> QED BY <2>1, <2>2 DEF KeptInv, Safe, Waiting
<1> QED BY <1>1, <1>2, <1>3, OutboxInvInit, PTL DEF TillSpec

-----------------------------------------------------------------------------
(* The closed till.                                                        *)

\* Sessions are opened one after another, and what is made offline is of one of them.
OpenedInOrder == \E n \in 0..MaxSessions : Opened = 1..n
HomeOpened    == \A o \in Made : home[o] \in Opened

\* Session s may have the row of o.
MayHave(s, o) ==
  s # home[o] => o \in OfflineSales /\ (till[home[o]] = "closed" \/ s > home[o])

LooksRight ==
  \A look \in checked : /\ MayHave(look.session, look.msg.op)
                        /\ look.open \/ look.msg.op \in OfflineSales

\* What the request that closes has counted, up to where it is.
CountsAll(m) ==
  /\ manager[m].pc = "sales" =>
       Written(manager[m].session) \cap Moves \subseteq manager[m].seen \cup noted \cup late
  /\ manager[m].pc = "close" =>
       Written(manager[m].session) \subseteq manager[m].seen \cup noted \cup late

DrawerInv ==
  /\ OpenedInOrder /\ HomeOpened /\ LooksRight
  /\ \A m \in Managers : CountsAll(m)
  /\ DrawerAddsUp

USE DEF DrawerInv

\* Steps that change nothing the till is made of.
LEMMA TillUntouched ==
  ASSUME OutboxInv, DrawerInv, UNCHANGED <<checked, copies, booked, noted, late, books>>,
         HomeOpened', \A o \in Made : home'[o] = home[o]
  PROVE  DrawerInv'
<1>1. ASSUME NEW s  PROVE Written(s)' = Written(s)
  BY DEF Written
<1>2. OpenedInOrder'
  BY DEF OpenedInOrder, Opened
<1>3. LooksRight'
  BY DEF LooksRight, MayHave, SentMade
<1>4. \A m \in Managers : CountsAll(m)'
  BY DEF CountsAll, Written
<1>5. ClosedTillCounts'
  BY <1>1 DEF DrawerAddsUp, ClosedTillCounts
<1>6. InItsSession'
  BY DEF DrawerAddsUp, InItsSession, RowsMade
<1> QED BY <1>2, <1>3, <1>4, <1>5, <1>6 DEF DrawerAddsUp

\* Steps of the device, but for making an operation.
LEMMA DeviceKeepsDrawer ==
  ASSUME OutboxInv, DrawerInv, UNCHANGED <<made, checked, server, books>>
  PROVE  DrawerInv'
<1>1. HomeOpened'
  BY DEF HomeOpened, Made, Opened
<1> QED BY <1>1, TillUntouched

LEMMA EnqueueKeepsDrawer ==
  ASSUME OutboxInv, DrawerInv, NEW t \in Windows, NEW o \in Ops, enqueue(t, o)
  PROVE  DrawerInv'
<1>1. Made' = Made \cup {o} /\ o \notin Made /\ Made \subseteq Ops /\ Opened' = Opened
  <2>1. Made' = Made \cup {o}
    BY EnqueueInv
  <2>2. o \notin Made /\ Opened' = Opened
    BY DEF enqueue, Made, Opened
  <2>3. Made \subseteq Ops
    BY DEF Made, MadeTypes, ToSet
  <2> QED BY <2>1, <2>2, <2>3
<1>2. Cardinality(Opened) \in Opened
  <2>1. PICK n \in 0..MaxSessions : Opened = 1..n
    BY DEF OpenedInOrder
  <2>2. n # 0
    BY <2>1 DEF enqueue
  <2>3. Cardinality(1..n) = n
    BY <2>2, FS_Interval, OutboxAssumption
  <2> QED BY <2>1, <2>2, <2>3, OutboxAssumption
<1>3. home' = [home EXCEPT ![o] = Cardinality(Opened)]
  BY DEF enqueue
<1>4. HomeOpened' /\ \A i \in Made : home'[i] = home[i]
  BY <1>1, <1>2, <1>3 DEF HomeOpened, ServerTypes
<1> QED BY <1>4, TillUntouched DEF enqueue

\* A request looks for its session.
LEMMA LookKeepsDrawer ==
  ASSUME OutboxInv, DrawerInv, UNCHANGED <<made, server, books>>, LooksRight'
  PROVE  DrawerInv'
<1>1. OpenedInOrder' /\ HomeOpened'
  BY DEF OpenedInOrder, HomeOpened, Made, Opened
<1>2. \A m \in Managers : CountsAll(m)'
  BY DEF CountsAll, Written
<1>3. DrawerAddsUp'
  BY DEF DrawerAddsUp, ClosedTillCounts, InItsSession, Written
<1> QED BY <1>1, <1>2, <1>3

LEMMA ReceiveKeepsDrawer ==
  ASSUME OutboxInv, DrawerInv, NEW msg \in wire, Receive(msg)
  PROVE  DrawerInv'
<1>0. msg.op \in Ops /\ home[msg.op] \in Opened
  BY DEF WireTypes, Messages, SentMade, HomeOpened
<1>1. UNCHANGED <<made, server, books>>
  BY ReceiveIs DEF Receive, AlreadyThere, record_offline_pos_sale, addMovement
<1>2. ASSUME NEW s, NEW open, Look(msg, s, open), MayHave(s, msg.op), open \/ msg.op \in OfflineSales
      PROVE  LooksRight'
  BY <1>1, <1>2 DEF LooksRight, Look, MayHave
<1>3. ASSUME UNCHANGED checked  PROVE LooksRight'
  BY <1>1, <1>3 DEF LooksRight, MayHave
<1>4. CASE AlreadyThere(msg)
  BY <1>1, <1>3, <1>4, LookKeepsDrawer DEF AlreadyThere
<1>5. CASE record_offline_pos_sale(msg)
  <2> USE <1>5 DEF record_offline_pos_sale
  <2>1. CASE OpenNow # {}
    <3>1. PICK s : s = Max(OpenNow)
      OBVIOUS
    <3>2. s \in OpenNow /\ \A r \in OpenNow : s >= r
      BY <2>1, <3>1, LastOpen
    <3>3. MayHave(s, msg.op)
      <4>1. till[home[msg.op]] \in {"open", "closed"} /\ home[msg.op] \in Sessions
        BY <1>0 DEF Opened, BookTypes
      <4>2. till[home[msg.op]] = "open" => s >= home[msg.op]
        BY <3>2, <4>1 DEF OpenNow
      <4>3. s \in Nat /\ home[msg.op] \in Nat
        BY <3>2, <4>1 DEF OpenNow, Sessions
      <4> QED BY <4>1, <4>2, <4>3 DEF MayHave
    <3>4. Look(msg, s, TRUE)
      BY <2>1, <3>1
    <3> QED BY <1>1, <1>2, <3>3, <3>4, LookKeepsDrawer
  <2>2. CASE OpenNow = {}
    <3>1. Look(msg, home[msg.op], FALSE) /\ MayHave(home[msg.op], msg.op)
      BY <2>2 DEF MayHave
    <3> QED BY <1>1, <1>2, <3>1, LookKeepsDrawer
  <2> QED BY <2>1, <2>2
<1>6. CASE addMovement(msg)
  <2>1. CASE till[home[msg.op]] = "open"
    <3>1. Look(msg, home[msg.op], TRUE) /\ MayHave(home[msg.op], msg.op)
      BY <1>6, <2>1 DEF addMovement, MayHave
    <3> QED BY <1>1, <1>2, <3>1, LookKeepsDrawer
  <2>2. CASE till[home[msg.op]] # "open"
    BY <1>1, <1>3, <1>6, <2>2, LookKeepsDrawer DEF addMovement
  <2> QED BY <2>1, <2>2
<1> QED BY <1>4, <1>5, <1>6 DEF Receive

\* A row of session s: counted when its count is still to come, or else reported, or late.
LEMMA InsertRowKeepsDrawer ==
  ASSUME OutboxInv, DrawerInv, NEW look \in checked, InsertRow(look)
  PROVE  DrawerInv'
<1> DEFINE o == look.msg.op
           s == look.session
<1>0. o \in Ops /\ MayHave(s, o) /\ (look.open \/ o \in OfflineSales) /\ UNCHANGED <<made, home, books>>
  BY DEF WireTypes, Looks, Messages, LooksRight, InsertRow
<1>1. /\ noted \subseteq noted' /\ late \subseteq late' /\ checked' \subseteq checked
      /\ \A i \in Ops \ {o} : copies'[i] = copies[i] /\ booked'[i] = booked[i]
  BY InsertRowIs
<1>2. \/ copies'[o] = copies[o] /\ booked'[o] = booked[o]
      \/ booked'[o] = s /\ (AfterCount(s, o) => o \in noted' \cup late')
  BY <1>0 DEF InsertRow, ServerTypes
<1>3. OpenedInOrder' /\ HomeOpened' /\ LooksRight'
  BY <1>0, <1>1 DEF OpenedInOrder, HomeOpened, LooksRight, MayHave, Made, Opened
<1> HIDE DEF o, s
<1>5. ASSUME NEW r, NEW i \in Written(r)'
      PROVE  i \in Written(r) \/ (i = o /\ r = s /\ (AfterCount(s, o) => o \in noted' \cup late'))
  <2>1. CASE i = o
    BY <1>2, <2>1, <1>5 DEF Written
  <2>2. CASE i # o
    BY <1>1, <2>2, <1>5 DEF Written
  <2> QED BY <2>1, <2>2
<1>6. ASSUME NEW m \in Managers  PROVE CountsAll(m)'
  <2>1. PICK r : r = manager[m].session
    OBVIOUS
  <2>2. manager' = manager
    BY <1>0
  <2>3. ASSUME manager[m].pc = "sales", NEW i \in Written(r)', i \in Moves
        PROVE  i \in manager[m].seen \cup noted' \cup late'
    BY <1>1, <1>5, <2>1, <2>3 DEF CountsAll, AfterCount
  <2>4. ASSUME manager[m].pc = "close", NEW i \in Written(r)'
        PROVE  i \in manager[m].seen \cup noted' \cup late'
    BY <1>1, <1>5, <2>1, <2>4 DEF CountsAll, AfterCount
  <2> QED BY <2>1, <2>2, <2>3, <2>4 DEF CountsAll
<1>7. ClosedTillCounts'
  <2> SUFFICES ASSUME NEW r \in Sessions, till'[r] = "closed", NEW i \in Written(r)'
               PROVE  i \in counted'[r] \cup noted' \cup late'
    BY DEF ClosedTillCounts
  <2>1. till[r] = "closed" /\ counted' = counted
    BY <1>0
  <2> QED BY <1>1, <1>5, <2>1 DEF DrawerAddsUp, ClosedTillCounts, AfterCount
<1>8. InItsSession'
  <2> SUFFICES ASSUME NEW i \in Ops, copies'[i] > 0, booked'[i] # home'[i]
               PROVE  i \in OfflineSales /\ (till'[home'[i]] = "closed" \/ booked'[i] > home'[i])
    BY DEF InItsSession
  <2>1. home' = home /\ till' = till
    BY <1>0
  <2>2. CASE copies'[i] = copies[i] /\ booked'[i] = booked[i]
    BY <2>1, <2>2 DEF DrawerAddsUp, InItsSession
  <2>3. CASE i = o /\ booked'[i] = s
    BY <1>0, <2>1, <2>3 DEF MayHave
  <2> QED BY <1>1, <1>2, <2>2, <2>3
<1> QED BY <1>3, <1>6, <1>7, <1>8 DEF DrawerAddsUp

LEMMA ManageKeepsDrawer ==
  ASSUME OutboxInv, DrawerInv, NEW m \in Managers, Manage(m)
  PROVE  DrawerInv'
<1>0. UNCHANGED Aside /\ \A s : Written(s)' = Written(s)
  BY DEF Manage, openSession, InsertSession, closeSession, sessionCashSales, CloseNow, Written
<1>1. manager[m] \in Hands /\ 0 \in 0..MaxSessions
  BY OutboxAssumption DEF BookTypes
<1>2. \A s : Written(s) \subseteq Ops
  BY DEF Written
\* The hand of the manager after the step, and that of the others.
<1>3. ASSUME NEW step \in {"idle", "open", "sales", "close"}, NEW s \in 0..MaxSessions,
             NEW seen \in SUBSET Ops, Hold(m, step, s, seen),
             step = "sales" => Written(s) \cap Moves \subseteq seen \cup noted \cup late,
             step = "close" => Written(s) \subseteq seen \cup noted \cup late
      PROVE  \A n \in Managers : CountsAll(n)'
  <2> SUFFICES ASSUME NEW n \in Managers  PROVE CountsAll(n)'
    OBVIOUS
  <2>1. /\ manager'[m].pc = step /\ manager'[m].session = s /\ manager'[m].seen = seen
        /\ \A k \in Managers \ {m} : manager'[k] = manager[k]
    BY <1>3, HoldIs
  <2>2. CASE n = m
    BY <1>0, <1>3, <2>1, <2>2 DEF CountsAll, Written
  <2>3. CASE n # m
    BY <1>0, <2>1, <2>3 DEF CountsAll, Written
  <2> QED BY <2>2, <2>3
\* Whatever becomes of the sessions, those that were opened stay so, and those that
\* were closed too.
<1>4. ASSUME \A s \in Sessions : till'[s] = till[s] \/ (till[s] = "open" /\ till'[s] = "closed")
                                   \/ (till[s] = "none" /\ till'[s] = "open"),
             OpenedInOrder',
             \A s \in Sessions : till'[s] = "closed" =>
               \/ till[s] = "closed" /\ counted'[s] = counted[s]
               \/ Written(s) \subseteq counted'[s] \cup noted \cup late,
             \A n \in Managers : CountsAll(n)'
      PROVE  DrawerInv'
  <2>1. Opened \subseteq Opened' /\ \A o \in Made : home[o] \in Sessions
    BY <1>4 DEF Opened, HomeOpened
  <2>2. \A s, o : o \in Made /\ MayHave(s, o) => MayHave(s, o)'
    BY <1>0, <1>4, <2>1 DEF MayHave
  <2>3. HomeOpened' /\ LooksRight'
    BY <1>0, <2>1, <2>2 DEF HomeOpened, LooksRight, Made, SentMade
  <2>4. ClosedTillCounts'
    BY <1>0, <1>4 DEF ClosedTillCounts, DrawerAddsUp
  <2>5. InItsSession'
    BY <1>0, <1>4, <2>1 DEF InItsSession, DrawerAddsUp, RowsMade
  <2> QED BY <1>4, <2>3, <2>4, <2>5 DEF DrawerAddsUp
<1>5. ASSUME UNCHANGED <<till, counted>>, \A n \in Managers : CountsAll(n)'  PROVE DrawerInv'
  <2>1. OpenedInOrder'
    BY <1>5 DEF OpenedInOrder, Opened
  <2> QED BY <1>4, <1>5, <2>1
<1>6. CASE openSession(m)
  BY <1>1, <1>3, <1>5, <1>6 DEF openSession
<1>7. CASE InsertSession(m)
  <2>1. \A n \in Managers : CountsAll(n)'
    BY <1>1, <1>3, <1>7 DEF InsertSession
  <2>2. PICK n \in 0..MaxSessions : Opened = 1..n
    BY DEF OpenedInOrder
  <2>3. Cardinality(1..n) = n /\ n \in Nat
    <3>1. n \in Nat
      BY OutboxAssumption
    <3> QED BY <3>1, FS_Interval
  <2>4. n < MaxSessions /\ till' = [till EXCEPT ![n + 1] = "open"] /\ counted' = counted
    BY <1>7, <2>2, <2>3 DEF InsertSession
  <2>5. n + 1 \in Sessions /\ till[n + 1] = "none"
    <3>1. n + 1 \in Sessions /\ n + 1 \notin 1..n
      BY <2>3, <2>4, OutboxAssumption DEF Sessions
    <3> QED BY <2>2, <3>1 DEF Opened
  <2>6. \A s \in Sessions : till'[s] = IF s = n + 1 THEN "open" ELSE till[s]
    BY <2>4, <2>5 DEF BookTypes
  <2>7. Opened' = 1..n + 1
    <3>1. Opened' = Opened \cup {n + 1}
      BY <2>5, <2>6 DEF Opened
    <3> QED BY <2>2, <2>3, <3>1
  <2>8. OpenedInOrder'
    BY <2>3, <2>4, <2>7, OutboxAssumption DEF OpenedInOrder
  <2> QED BY <1>4, <2>1, <2>4, <2>5, <2>6, <2>8
<1>8. CASE closeSession(m)
  <2>1. PICK s \in OpenNow : Hold(m, "sales", s, Written(s) \cap Moves)
    BY <1>8 DEF closeSession
  <2>2. s \in 0..MaxSessions
    BY OutboxAssumption DEF OpenNow, Sessions
  <2>3. \A n \in Managers : CountsAll(n)'
    BY <1>2, <1>3, <2>1, <2>2
  <2> QED BY <1>5, <1>8, <2>3 DEF closeSession
<1>9. CASE sessionCashSales(m)
  <2>1. PICK s : s = manager[m].session
    OBVIOUS
  <2>2. Written(s) \subseteq (manager[m].seen \cup (Written(s) \cap OfflineSales)) \cup noted \cup late
    BY <1>2, <1>9, <2>1 DEF sessionCashSales, CountsAll, Ops
  <2>3. s \in 0..MaxSessions /\ manager[m].seen \cup (Written(s) \cap OfflineSales) \in SUBSET Ops
    BY <1>1, <1>2, <2>1 DEF Hands
  <2>4. Hold(m, "close", s, manager[m].seen \cup (Written(s) \cap OfflineSales))
    BY <1>9, <2>1 DEF sessionCashSales
  <2>5. \A n \in Managers : CountsAll(n)'
    BY <1>3, <2>2, <2>3, <2>4
  <2> QED BY <1>5, <1>9, <2>5 DEF sessionCashSales
<1>10. CASE CloseNow(m)
  <2>1. \A n \in Managers : CountsAll(n)'
    BY <1>1, <1>3, <1>10 DEF CloseNow
  <2>2. CASE UNCHANGED <<till, counted>>
    BY <1>5, <2>1, <2>2
  <2>3. CASE ~ UNCHANGED <<till, counted>>
    <3>1. PICK s : s = manager[m].session
      OBVIOUS
    <3>2. /\ till[s] = "open" /\ till' = [till EXCEPT ![s] = "closed"]
          /\ counted' = [counted EXCEPT ![s] = manager[m].seen]
      BY <1>10, <2>3, <3>1 DEF CloseNow
    <3>3. Written(s) \subseteq manager[m].seen \cup noted \cup late
      BY <1>10, <3>1 DEF CloseNow, CountsAll
    <3>4. \A r \in Sessions : /\ till'[r] = IF r = s THEN "closed" ELSE till[r]
                              /\ counted'[r] = IF r = s THEN manager[m].seen ELSE counted[r]
      BY <3>2 DEF BookTypes
    <3>5. Opened' = Opened
      BY <3>2, <3>4 DEF Opened
    <3>6. OpenedInOrder'
      BY <3>5 DEF OpenedInOrder
    <3>7. ASSUME NEW r \in Sessions, till'[r] = "closed"
          PROVE  \/ till[r] = "closed" /\ counted'[r] = counted[r]
                 \/ Written(r) \subseteq counted'[r] \cup noted \cup late
      BY <3>3, <3>4, <3>7
    <3>8. ASSUME NEW r \in Sessions
          PROVE  \/ till'[r] = till[r] \/ (till[r] = "open" /\ till'[r] = "closed")
                 \/ (till[r] = "none" /\ till'[r] = "open")
      BY <3>2, <3>4
    <3> QED BY <1>4, <2>1, <3>6, <3>7, <3>8
  <2> QED BY <2>2, <2>3
<1> QED BY <1>6, <1>7, <1>8, <1>9, <1>10 DEF Manage

LEMMA DrawerInvStep ==
  ASSUME OutboxInv, DrawerInv, [TillNext]_tillVars
  PROVE  DrawerInv'
<1>1. ASSUME NEW u \in Accounts \cup {Nobody}, useAccount(u)  PROVE DrawerInv'
  BY <1>1, DeviceKeepsDrawer DEF useAccount
<1>2. ASSUME NEW t \in Windows, Reopen(t) \/ Device(t)  PROVE DrawerInv'
  BY <1>2, DeviceIs, DeviceKeepsDrawer DEF Reopen
<1>3. ASSUME NEW msg \in wire, TurnAway(msg)  PROVE DrawerInv'
  BY <1>3, DeviceKeepsDrawer DEF TurnAway
<1>4. CASE UNCHANGED tillVars
  BY <1>4, DeviceKeepsDrawer DEF tillVars
<1> QED
  BY <1>1, <1>2, <1>3, <1>4, NextIs, EnqueueKeepsDrawer, ReceiveKeepsDrawer,
     InsertRowKeepsDrawer, ManageKeepsDrawer

\* DrawerAddsUp: a closed till has counted every sale and movement of its session but
\* the sales it was told of afterwards and the rows that came between its count and
\* its close; and a row is in another session than its own only when it is a sale,
\* and its own was closed or a later one opened.  For any managers opening and
\* closing at once and whenever an operation made offline arrives.
THEOREM ClosedTillAddsUp == TillSpec => []DrawerAddsUp
<1>1. TillInit => DrawerInv
  <2> SUFFICES ASSUME TillInit  PROVE DrawerInv
    OBVIOUS
  <2>1. Opened = 1..0 /\ 0 \in 0..MaxSessions
    BY OutboxAssumption DEF TillInit, Opened
  <2>2. OpenedInOrder
    BY <2>1 DEF OpenedInOrder
  <2> QED
    BY <2>2 DEF TillInit, FreeHand, HomeOpened, LooksRight, CountsAll, DrawerAddsUp,
       ClosedTillCounts, InItsSession, Made, ToSet
<1>2. OutboxInv /\ DrawerInv /\ [TillNext]_tillVars => (OutboxInv /\ DrawerInv)'
  BY OutboxInvStep, DrawerInvStep
<1>3. OutboxInv /\ DrawerInv => DrawerAddsUp
  OBVIOUS
<1> QED BY <1>1, <1>2, <1>3, OutboxInvInit, PTL DEF TillSpec

=============================================================================
