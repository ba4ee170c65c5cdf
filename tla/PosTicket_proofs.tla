-------------------------- MODULE PosTicket_proofs --------------------------
(***************************************************************************)
(* Proofs about PosTicket, for any number of devices, of lines and of      *)
(* codes, whatever stops or stays unanswered.  CodeInv is about the QR     *)
(* parts; MoneyInv, which needs sums over the parts and over the lines,    *)
(* about what the customer is asked for; GoodsInv, which needs both, about *)
(* the shelf.                                                              *)
(***************************************************************************)
EXTENDS PosTicket, FiniteSetTheorems, WellFoundedInduction, TLAPS

USE DEF ticket, money, goods

-----------------------------------------------------------------------------
(* The invariant.                                                          *)

Fields == {"pc", "total", "amount", "sure", "row", "todo", "take"}

\* Every worker has a record of those fields in hand.
HandsAre ==
  /\ worker = [k \in Workers |-> worker[k]]
  /\ \A k \in Workers : DOMAIN worker[k] = Fields

CodeTypes ==
  /\ code \in [Codes -> [amount: Nat, sure: BOOLEAN]]
  /\ request \in [Codes -> Requests]

\* A worker that has made the QR of a part, and is about to write its row.
Minting(k, p) == At(k, "qr") /\ worker[k].row = p

OneMinter == \A j, k \in Workers : \A p \in Codes : Minting(j, p) /\ Minting(k, p) => j = k

\* What a worker knows of the part it works on: nobody pays a QR before its row
\* is there, nor one that is closed to take its row off.
Knows(k) ==
  /\ worker[k].pc \in {"syncCash", "syncQr"} => worker[k].amount \in Nat
  /\ worker[k].pc \in {"mint", "qr"} => worker[k].amount \in Nat \ {0}
  /\ worker[k].pc \in {"qr", "unmint", "close", "delete", "unmirror"} => worker[k].row \in Codes
  /\ At(k, "qr") => /\ request[worker[k].row] \in {"CREATED", "EXPIRED", "CANCELLED"}
                    /\ code[worker[k].row].amount = 0
  /\ At(k, "delete") => request[worker[k].row] = "CANCELLED"
  /\ At(k, "ask") => worker[k].todo \subseteq Codes

\* A part without a QR has no row, a confirmed one was paid.
RowsFit ==
  \A p \in Codes :
    /\ request[p] = "none" => code[p].amount = 0
    /\ code[p].sure => request[p] = "PAID"

CodeInv ==
  /\ HandsAre /\ CodeTypes /\ OneMinter /\ (\A k \in Workers : Knows(k))
  /\ RowsFit /\ PaidQrHasItsRow

-----------------------------------------------------------------------------
(* How a step moves the hands.                                             *)

LEMMA FreeHand == DOMAIN Free = Fields /\ Free.pc = "idle"
BY DEF Free, Fields

LEMMA HoldIs ==
  ASSUME HandsAre, NEW k \in Workers, NEW hand, DOMAIN hand = Fields, Hold(k, hand)
  PROVE  HandsAre' /\ worker'[k] = hand /\ \A j \in Workers \ {k} : worker'[j] = worker[j]
BY DEF Hold, HandsAre

LEMMA FinishIs ==
  ASSUME HandsAre, NEW k \in Workers, Finish(k)
  PROVE  HandsAre' /\ worker'[k] = Free /\ \A j \in Workers \ {k} : worker'[j] = worker[j]
BY HoldIs, FreeHand DEF Finish

LEMMA GotoIs ==
  ASSUME HandsAre, NEW k \in Workers, NEW step, Goto(k, step)
  PROVE  /\ HandsAre' /\ \A j \in Workers \ {k} : worker'[j] = worker[j]
         /\ worker'[k].pc = step /\ worker'[k].row = worker[k].row
         /\ worker'[k].amount = worker[k].amount /\ worker'[k].todo = worker[k].todo
<1>1. /\ DOMAIN [worker[k] EXCEPT !.pc = step] = Fields
      /\ [worker[k] EXCEPT !.pc = step].pc = step
      /\ [worker[k] EXCEPT !.pc = step].row = worker[k].row
      /\ [worker[k] EXCEPT !.pc = step].amount = worker[k].amount
      /\ [worker[k] EXCEPT !.pc = step].todo = worker[k].todo
  BY DEF HandsAre, Fields
<1> QED BY <1>1, HoldIs DEF Goto

LEMMA OnlyIs ==
  ASSUME HandsAre, NEW k \in Workers, NEW step, NEW r, Only(k, step, r)
  PROVE  /\ HandsAre' /\ \A j \in Workers \ {k} : worker'[j] = worker[j]
         /\ worker'[k].pc = step /\ worker'[k].row = r
<1>1. /\ DOMAIN [Free EXCEPT !.pc = step, !.row = r] = Fields
      /\ [Free EXCEPT !.pc = step, !.row = r].pc = step
      /\ [Free EXCEPT !.pc = step, !.row = r].row = r
  BY DEF Free, Fields
<1> QED BY <1>1, HoldIs DEF Only

\* Steps that say nothing of a part.
Elsewhere == Steps \ {"syncCash", "syncQr", "mint", "qr", "unmint", "close", "delete", "unmirror", "ask"}

LEMMA KnowsNothing ==
  ASSUME NEW k \in Workers, worker[k].pc \in Elsewhere
  PROVE  Knows(k)
BY DEF Knows, Elsewhere, At

\* The parts as they are after a step of k, when its own knowledge is settled.
LEMMA OthersKeep ==
  ASSUME CodeInv, NEW k \in Workers, \A j \in Workers \ {k} : worker'[j] = worker[j],
         \A p \in Codes : request[p] = "CANCELLED" => request'[p] = "CANCELLED",
         \A j \in Workers \ {k} : \A p \in Codes : Minting(j, p) =>
           request'[p] \in {"CREATED", "EXPIRED", "CANCELLED"} /\ code'[p].amount = 0
  PROVE  \A j \in Workers \ {k} : Knows(j)'
BY DEF CodeInv, Knows, At, Minting

-----------------------------------------------------------------------------
(* The invariant is inductive.                                             *)

\* Steps that leave the parts alone, and do not start minting.
LEMMA AwayFromCodes ==
  ASSUME CodeInv, UNCHANGED <<code, request>>, NEW k \in Workers,
         HandsAre', \A j \in Workers \ {k} : worker'[j] = worker[j],
         Knows(k)', worker'[k].pc # "qr" \/ worker'[k] = worker[k]
  PROVE  CodeInv'
<1>1. \A j \in Workers : Knows(j)'
  BY OthersKeep DEF CodeInv, Knows, At, Minting
<1>2. OneMinter'
  BY DEF CodeInv, OneMinter, Minting, At
<1> QED BY <1>1, <1>2 DEF CodeInv, CodeTypes, RowsFit, PaidQrHasItsRow, Rows

LEMMA OfferStep ==
  ASSUME CodeInv, NEW k \in Workers, UNCHANGED <<code, request>>,
         Offer(k, "syncCash", "cash") \/ Offer(k, "syncQr", "mint")
  PROVE  CodeInv'
<1>0. HandsAre
  BY DEF CodeInv
<1>1. Most \ {0} \subseteq Nat \ {0}
  BY PosAssumption, FS_CardinalityType DEF Most
<1>2. ASSUME NEW sync \in {"syncCash", "syncQr"}, NEW pay \in {"cash", "mint"}, Offer(k, sync, pay)
      PROVE  CodeInv'
  <2>1. ASSUME Hold(k, [Free EXCEPT !.pc = sync, !.total = computeTotals])  PROVE CodeInv'
    <3> DEFINE hand == [Free EXCEPT !.pc = sync, !.total = computeTotals]
    <3>1. DOMAIN hand = Fields /\ hand.pc = sync /\ hand.amount = 0
      BY DEF Free, Fields
    <3> HIDE DEF hand
    <3>2. /\ HandsAre' /\ worker'[k] = hand
          /\ \A j \in Workers \ {k} : worker'[j] = worker[j]
      BY <1>0, <2>1, <3>1, HoldIs DEF hand
    <3>3. Knows(k)'
      BY <3>1, <3>2 DEF Knows, At
    <3> QED BY <3>1, <3>2, <3>3, AwayFromCodes
  <2>2. ASSUME NEW n \in Most \ {0}, NEW step \in {sync, pay},
               Hold(k, [Free EXCEPT !.pc = step, !.total = computeTotals, !.amount = n, !.sure = PaidSum])
        PROVE  CodeInv'
    <3> DEFINE hand == [Free EXCEPT !.pc = step, !.total = computeTotals, !.amount = n, !.sure = PaidSum]
    <3>1. DOMAIN hand = Fields /\ hand.pc = step /\ hand.amount = n
      BY DEF Free, Fields
    <3> HIDE DEF hand
    <3>2. /\ HandsAre' /\ worker'[k] = hand
          /\ \A j \in Workers \ {k} : worker'[j] = worker[j]
      BY <1>0, <2>2, <3>1, HoldIs DEF hand
    <3>3. Knows(k)'
      BY <1>1, <3>1, <3>2 DEF Knows, At
    <3> QED BY <3>1, <3>2, <3>3, AwayFromCodes
  <2> QED BY <1>2, <2>1, <2>2 DEF Offer
<1> QED BY <1>2

\* A step that leaves the parts alone and ends where nothing is said of them.
Aside(k) ==
  /\ UNCHANGED <<code, request>>
  /\ HandsAre' /\ \A j \in Workers \ {k} : worker'[j] = worker[j]
  /\ worker'[k].pc \in Elsewhere

LEMMA AsideStep ==
  ASSUME CodeInv, NEW k \in Workers, Aside(k)  PROVE CodeInv'
<1>1. Knows(k)'
  BY DEF Aside, Knows, Elsewhere, At
<1> QED BY <1>1, AwayFromCodes DEF Aside, Elsewhere

LEMMA HoldAside ==
  ASSUME HandsAre, NEW k \in Workers, UNCHANGED <<code, request>>,
         NEW hand, DOMAIN hand = Fields, hand.pc \in Elsewhere, Hold(k, hand)
  PROVE  Aside(k)
BY HoldIs DEF Aside

LEMMA MoveAside ==
  ASSUME HandsAre, NEW k \in Workers, UNCHANGED <<code, request>>,
         \/ Finish(k)
         \/ \E step \in Elsewhere : Goto(k, step)
         \/ \E step \in Elsewhere, r \in Lines \cup Codes \cup {None} : Only(k, step, r)
  PROVE  Aside(k)
<1>1. "idle" \in Elsewhere
  BY DEF Elsewhere, Steps
<1> QED BY <1>1, FinishIs, GotoIs, OnlyIs, FreeHand DEF Aside

\* The calls that begin with a line, a look at the ticket or its end.
LEMMA CallAside ==
  ASSUME CodeInv, NEW k \in Workers,
         addItem(k) \/ updateItemQuantity(k) \/ voidItem(k) \/ getTicket(k) \/ cancelTicket(k)
  PROVE  CodeInv'
<1>0. HandsAre /\ {"line", "void", "pending", "cancel"} \subseteq Elsewhere
  BY DEF CodeInv, Elsewhere, Steps
<1>1. ASSUME NEW hand, DOMAIN hand = Fields, hand.pc \in Elsewhere, Hold(k, hand),
             UNCHANGED <<code, request>>
      PROVE  CodeInv'
  BY <1>0, <1>1, HoldAside, AsideStep
<1>2. UNCHANGED <<code, request>>
  BY DEF addItem, updateItemQuantity, voidItem, getTicket, cancelTicket
<1>3. CASE addItem(k)
  <2>1. CASE Active = {}
    <3>1. Hold(k, [Free EXCEPT !.pc = "line", !.amount = 1])
      BY <1>3, <2>1 DEF addItem
    <3>2. /\ DOMAIN [Free EXCEPT !.pc = "line", !.amount = 1] = Fields
          /\ [Free EXCEPT !.pc = "line", !.amount = 1].pc = "line"
      BY DEF Free, Fields
    <3> QED BY <1>0, <1>1, <1>2, <3>1, <3>2
  <2>2. CASE Active # {}
    <3>1. PICK l \in Active : Hold(k, [Free EXCEPT !.pc = "line", !.row = l, !.amount = line[l].qty + 1])
      BY <1>3, <2>2 DEF addItem
    <3>2. /\ DOMAIN [Free EXCEPT !.pc = "line", !.row = l, !.amount = line[l].qty + 1] = Fields
          /\ [Free EXCEPT !.pc = "line", !.row = l, !.amount = line[l].qty + 1].pc = "line"
      BY DEF Free, Fields
    <3> QED BY <1>0, <1>1, <1>2, <3>1, <3>2
  <2> QED BY <2>1, <2>2
<1>4. CASE updateItemQuantity(k)
  <2>1. PICK l \in Active, n \in 1..MaxQty :
          Hold(k, [Free EXCEPT !.pc = "line", !.row = l, !.amount = n])
    BY <1>4 DEF updateItemQuantity
  <2>2. /\ DOMAIN [Free EXCEPT !.pc = "line", !.row = l, !.amount = n] = Fields
        /\ [Free EXCEPT !.pc = "line", !.row = l, !.amount = n].pc = "line"
    BY DEF Free, Fields
  <2> QED BY <1>0, <1>1, <1>2, <2>1, <2>2
<1>5. CASE voidItem(k)
  <2>1. PICK l \in Active : Hold(k, [Free EXCEPT !.pc = "void", !.row = l])
    BY <1>5 DEF voidItem
  <2>2. /\ DOMAIN [Free EXCEPT !.pc = "void", !.row = l] = Fields
        /\ [Free EXCEPT !.pc = "void", !.row = l].pc = "void"
    BY DEF Free, Fields
  <2> QED BY <1>0, <1>1, <1>2, <2>1, <2>2
<1>6. CASE getTicket(k)
  <2>1. /\ DOMAIN [Free EXCEPT !.pc = "pending", !.total = total, !.row = mirror] = Fields
        /\ [Free EXCEPT !.pc = "pending", !.total = total, !.row = mirror].pc = "pending"
    BY DEF Free, Fields
  <2>2. Hold(k, [Free EXCEPT !.pc = "pending", !.total = total, !.row = mirror])
    BY <1>6 DEF getTicket
  <2> QED BY <1>0, <1>1, <1>2, <2>1, <2>2
<1>7. CASE cancelTicket(k)
  BY <1>0, <1>2, <1>7, MoveAside, AsideStep DEF cancelTicket
<1> QED BY <1>3, <1>4, <1>5, <1>6, <1>7

\* The steps about the lines, the totals, the cash, the settlement and the shelf.
LEMMA WorkAside ==
  ASSUME CodeInv, NEW k \in Workers,
         \/ WriteLine(k) \/ VoidLine(k) \/ ReadLines(k) \/ saveTotals(k) \/ AddCash(k) \/ Mirror(k)
         \/ settleIfFullyPaid(k) \/ Settle(k) \/ SettleLegacy(k) \/ deductStockForTicket(k)
         \/ createMovement(k) \/ CancelNow(k) \/ Interrupt(k)
  PROVE  CodeInv'
<1>0. HandsAre /\ {"sum", "total", "settle", "items", "deduct"} \subseteq Elsewhere
  BY DEF CodeInv, Elsewhere, Steps
<1>1. None \in Lines \cup Codes \cup {None}
  OBVIOUS
<1>2. UNCHANGED <<code, request>>
  BY DEF WriteLine, VoidLine, ReadLines, saveTotals, AddCash, Mirror, settleIfFullyPaid, Settle,
     SettleLegacy, deductStockForTicket, createMovement, CancelNow, Interrupt
<1>3. CASE ReadLines(k)
  <2>1. /\ DOMAIN [Free EXCEPT !.pc = "total", !.total = computeTotals] = Fields
        /\ [Free EXCEPT !.pc = "total", !.total = computeTotals].pc = "total"
    BY DEF Free, Fields
  <2> QED BY <1>0, <1>2, <1>3, <2>1, HoldAside, AsideStep DEF ReadLines
<1>4. CASE deductStockForTicket(k)
  <2> DEFINE took == [l \in Lines |-> IF l \in Active THEN line[l].qty ELSE 0]
  <2>1. ASSUME NEW t  PROVE /\ DOMAIN [Free EXCEPT !.pc = "deduct", !.take = t] = Fields
                            /\ [Free EXCEPT !.pc = "deduct", !.take = t].pc = "deduct"
    BY DEF Free, Fields
  <2>2. CASE Finish(k)
    BY <1>0, <1>2, <2>2, MoveAside, AsideStep
  <2>3. CASE Hold(k, [Free EXCEPT !.pc = "deduct", !.take = took])
    BY <1>0, <1>2, <2>1, <2>3, HoldAside, AsideStep
  <2> QED BY <1>4, <2>2, <2>3 DEF deductStockForTicket
<1>5. CASE createMovement(k)
  <2>1. ASSUME NEW t  PROVE /\ DOMAIN [worker[k] EXCEPT !.take = t] = Fields
                            /\ [worker[k] EXCEPT !.take = t].pc = worker[k].pc
    BY <1>0 DEF HandsAre, Fields
  <2>2. At(k, "deduct")
    BY <1>5 DEF createMovement
  <2>3. Finish(k) \/ \E t : Hold(k, [worker[k] EXCEPT !.take = t])
    BY <1>5 DEF createMovement
  <2>4. CASE Finish(k)
    BY <1>0, <1>2, <2>4, MoveAside, AsideStep
  <2>5. ASSUME NEW t, Hold(k, [worker[k] EXCEPT !.take = t])  PROVE CodeInv'
    BY <1>0, <1>2, <2>1, <2>2, <2>5, HoldAside, AsideStep DEF At
  <2> QED BY <2>3, <2>4, <2>5
<1>6. CASE \/ WriteLine(k) \/ VoidLine(k) \/ saveTotals(k) \/ AddCash(k) \/ Mirror(k)
           \/ settleIfFullyPaid(k) \/ Settle(k) \/ SettleLegacy(k) \/ CancelNow(k) \/ Interrupt(k)
  <2>1. Finish(k) \/ Only(k, "sum", None) \/ Only(k, "settle", None) \/ Only(k, "items", None)
    BY <1>6 DEF WriteLine, VoidLine, saveTotals, AddCash, Mirror, settleIfFullyPaid, Settle,
       SettleLegacy, ClosePaid, CancelNow, Interrupt
  <2> QED BY <1>0, <1>1, <1>2, <2>1, MoveAside, AsideStep
<1> QED BY <1>3, <1>4, <1>5, <1>6

\* The calls and the reads of the QR parts, which leave them as they are.
LEMMA CallCode ==
  ASSUME CodeInv, NEW k \in Workers, payCash(k) \/ payScanlinkpay(k) \/ voidPayment(k)
  PROVE  CodeInv'
<1>1. CASE payCash(k) \/ payScanlinkpay(k)
  BY <1>1, OfferStep DEF payCash, payScanlinkpay
<1>2. CASE voidPayment(k)
  <2>1. PICK p \in Pending, t \in SUBSET Codes :
          Hold(k, [Free EXCEPT !.pc = "close", !.row = p, !.todo = t])
    BY <1>2 DEF voidPayment, Pending, Rows
  <2> DEFINE hand == [Free EXCEPT !.pc = "close", !.row = p, !.todo = t]
  <2>2. DOMAIN hand = Fields /\ hand.pc = "close" /\ hand.row = p
    BY DEF Free, Fields
  <2> HIDE DEF hand
  <2>3. /\ HandsAre' /\ worker'[k] = hand /\ \A j \in Workers \ {k} : worker'[j] = worker[j]
    BY <2>1, <2>2, HoldIs DEF hand, CodeInv
  <2>4. Knows(k)'
    BY <2>2, <2>3 DEF Knows, At, Pending, Rows
  <2> QED BY <1>2, <2>2, <2>3, <2>4, AwayFromCodes DEF voidPayment
<1> QED BY <1>1, <1>2

LEMMA WorkCode ==
  ASSUME CodeInv, NEW k \in Workers, syncTotals(k) \/ trySettleScanlinkpayTicket(k) \/ Unmirror(k)
  PROVE  CodeInv'
<1>0. HandsAre /\ Knows(k) /\ DOMAIN worker[k] = Fields
  BY DEF CodeInv, HandsAre
<1>1. CASE Finish(k) /\ UNCHANGED <<code, request>>
  BY <1>0, <1>1, MoveAside, AsideStep
<1>2. CASE syncTotals(k) /\ ~ Finish(k)
  <2>1. PICK step \in {"cash", "mint"} : Goto(k, step)
    BY <1>2 DEF syncTotals
  <2>2. worker[k].amount \in Nat \ {0}
    BY <1>0, <1>2 DEF syncTotals, Knows
  <2>3. /\ HandsAre' /\ \A j \in Workers \ {k} : worker'[j] = worker[j]
        /\ worker'[k].pc = step /\ worker'[k].amount = worker[k].amount
    BY <1>0, <2>1, GotoIs
  <2>4. Knows(k)'
    BY <2>2, <2>3 DEF Knows, At
  <2> QED BY <1>2, <2>3, <2>4, AwayFromCodes DEF syncTotals
<1>3. CASE trySettleScanlinkpayTicket(k) /\ ~ Finish(k)
  <2>1. CASE Pending # {}
    <3> DEFINE hand == [worker[k] EXCEPT !.pc = "ask", !.row = None, !.todo = Pending]
    <3>1. DOMAIN hand = Fields /\ hand.pc = "ask" /\ hand.todo = Pending
      BY <1>0 DEF Fields
    <3> HIDE DEF hand
    <3>2. Hold(k, hand)
      BY <1>3, <2>1 DEF trySettleScanlinkpayTicket, hand
    <3>3. /\ HandsAre' /\ worker'[k] = hand /\ \A j \in Workers \ {k} : worker'[j] = worker[j]
      BY <1>0, <3>1, <3>2, HoldIs
    <3>4. Knows(k)'
      BY <3>1, <3>3 DEF Knows, At, Pending, Rows
    <3> QED BY <1>3, <3>1, <3>3, <3>4, AwayFromCodes DEF trySettleScanlinkpayTicket
  <2>2. CASE Pending = {}
    <3>1. Only(k, "legacy", worker[k].row) /\ UNCHANGED <<code, request>>
      BY <1>3, <2>2 DEF trySettleScanlinkpayTicket
    <3>2. Aside(k)
      BY <1>0, <3>1, OnlyIs DEF Aside, Elsewhere, Steps
    <3> QED BY <3>2, AsideStep
  <2> QED BY <2>1, <2>2
<1>4. CASE Unmirror(k) /\ ~ Finish(k)
  <2> DEFINE hand == [worker[k] EXCEPT !.todo = {}]
  <2>1. DOMAIN hand = Fields /\ hand.pc = worker[k].pc /\ hand.row = worker[k].row
    BY <1>0 DEF Fields
  <2> HIDE DEF hand
  <2>2. At(k, "delete") /\ Hold(k, hand)
    BY <1>4 DEF Unmirror, hand
  <2>3. /\ HandsAre' /\ worker'[k] = hand /\ \A j \in Workers \ {k} : worker'[j] = worker[j]
    BY <1>0, <2>1, <2>2, HoldIs
  <2>4. Knows(k)'
    BY <1>0, <1>4, <2>1, <2>2, <2>3 DEF Knows, At, Unmirror
  <2> QED BY <1>4, <2>1, <2>2, <2>3, <2>4, AwayFromCodes DEF Unmirror, At
<1> QED BY <1>1, <1>2, <1>3, <1>4 DEF syncTotals, trySettleScanlinkpayTicket, Unmirror

\* The statements that change a part, or its QR.
LEMMA MintStep ==
  ASSUME CodeInv, NEW k \in Workers, createPaymentRequest(k)
  PROVE  CodeInv'
<1>0. HandsAre /\ CodeTypes /\ OneMinter /\ Knows(k) /\ RowsFit /\ PaidQrHasItsRow /\ DOMAIN worker[k] = Fields
  BY DEF CodeInv, HandsAre
<1>1. CASE Finish(k) /\ UNCHANGED request
  BY <1>0, <1>1, MoveAside, AsideStep DEF createPaymentRequest
<1>2. ASSUME NEW p \in Codes, request[p] = "none", request' = [request EXCEPT ![p] = "CREATED"],
             Hold(k, [worker[k] EXCEPT !.pc = "qr", !.row = p])
      PROVE  CodeInv'
  <2> DEFINE hand == [worker[k] EXCEPT !.pc = "qr", !.row = p]
  <2>1. DOMAIN hand = Fields /\ hand.pc = "qr" /\ hand.row = p /\ hand.amount = worker[k].amount
    BY <1>0 DEF Fields
  <2> HIDE DEF hand
  <2>2. /\ HandsAre' /\ worker'[k] = hand /\ \A j \in Workers \ {k} : worker'[j] = worker[j]
    BY <1>0, <1>2, <2>1, HoldIs DEF hand
  <2>3. UNCHANGED code /\ worker[k].amount \in Nat \ {0}
    BY <1>0 DEF createPaymentRequest, Knows, At
  <2>4. \A j \in Workers : ~ Minting(j, p)
    BY <1>2 DEF CodeInv, Knows, Minting
  <2>5. \A q \in Codes \ {p} : request'[q] = request[q]
    BY <1>0, <1>2 DEF CodeTypes
  <2>6. request'[p] = "CREATED" /\ code[p].amount = 0 /\ ~ code[p].sure
    BY <1>0, <1>2 DEF CodeTypes, RowsFit
  <2>7. CodeTypes'
    BY <1>0, <1>2, <2>3 DEF CodeTypes, Requests
  <2>8. \A j \in Workers : Knows(j)'
    <3>1. Knows(k)'
      BY <2>1, <2>2, <2>3, <2>6 DEF Knows, At
    <3>2. \A j \in Workers \ {k} : \A q \in Codes : Minting(j, q) =>
            request'[q] \in {"CREATED", "EXPIRED", "CANCELLED"} /\ code'[q].amount = 0
      BY <2>3, <2>4, <2>5 DEF CodeInv, Knows, Minting, At
    <3>3. \A q \in Codes : request[q] = "CANCELLED" => request'[q] = "CANCELLED"
      BY <1>2, <2>5
    <3> QED BY <2>2, <3>1, <3>2, <3>3, OthersKeep
  <2>9. OneMinter'
    BY <1>0, <2>1, <2>2, <2>4 DEF OneMinter, Minting, At
  <2>10. RowsFit' /\ PaidQrHasItsRow'
    BY <1>0, <2>3, <2>5, <2>6 DEF RowsFit, PaidQrHasItsRow, Rows
  <2> QED BY <2>2, <2>7, <2>8, <2>9, <2>10 DEF CodeInv
<1> QED BY <1>1, <1>2 DEF createPaymentRequest

LEMMA AddCodeStep ==
  ASSUME CodeInv, NEW k \in Workers, AddCode(k)
  PROVE  CodeInv'
<1>0. HandsAre /\ CodeTypes /\ OneMinter /\ Knows(k) /\ RowsFit /\ PaidQrHasItsRow
  BY DEF CodeInv
<1>1. PICK p \in Codes : p = worker[k].row
  BY <1>0 DEF AddCode, At, Knows
<1>2. /\ request[p] \in {"CREATED", "EXPIRED", "CANCELLED"} /\ request' = request
      /\ worker[k].amount \in Nat \ {0} /\ Minting(k, p)
  BY <1>0, <1>1 DEF AddCode, At, Knows, Minting
<1>3. code' = code \/ code' = [code EXCEPT ![p] = [amount |-> worker[k].amount, sure |-> FALSE]]
  BY <1>1 DEF AddCode
<1>4. /\ HandsAre' /\ \A j \in Workers \ {k} : worker'[j] = worker[j]
      /\ worker'[k].pc \in {"mirror", "unmint"} /\ worker'[k].row = p
  BY <1>0, <1>1, OnlyIs DEF AddCode
<1>5. \A q \in Codes \ {p} : code'[q] = code[q]
  BY <1>0, <1>3 DEF CodeTypes
<1>6. CodeTypes'
  <2>1. [amount |-> worker[k].amount, sure |-> FALSE] \in [amount: Nat, sure: BOOLEAN]
    BY <1>2
  <2>2. code' \in [Codes -> [amount: Nat, sure: BOOLEAN]]
    BY <1>0, <1>3, <2>1 DEF CodeTypes
  <2> QED BY <1>0, <1>2, <2>2 DEF CodeTypes
<1>7. \A j \in Workers \ {k} : ~ Minting(j, p)
  BY <1>0, <1>2 DEF OneMinter
<1>8. \A j \in Workers : Knows(j)'
  <2>1. Knows(k)'
    BY <1>4 DEF Knows, At
  <2>2. \A j \in Workers \ {k} : \A q \in Codes : Minting(j, q) =>
          request'[q] \in {"CREATED", "EXPIRED", "CANCELLED"} /\ code'[q].amount = 0
    BY <1>2, <1>5, <1>7 DEF CodeInv, Knows, Minting, At
  <2> QED BY <1>2, <1>4, <2>1, <2>2, OthersKeep
<1>9. OneMinter'
  BY <1>0, <1>4 DEF OneMinter, Minting, At
<1>10. RowsFit' /\ PaidQrHasItsRow'
  <2>1. code'[p] = code[p] \/ ~ code'[p].sure
    BY <1>0, <1>3 DEF CodeTypes
  <2> QED BY <1>0, <1>2, <1>5, <2>1 DEF RowsFit, PaidQrHasItsRow, Rows
<1> QED BY <1>4, <1>6, <1>8, <1>9, <1>10 DEF CodeInv

\* A QR is closed while nobody pays it: its row may go.
LEMMA CloseStep ==
  ASSUME CodeInv, NEW k \in Workers, Unmint(k) \/ CloseCode(k)
  PROVE  CodeInv'
<1>0. HandsAre /\ CodeTypes /\ OneMinter /\ Knows(k) /\ RowsFit /\ PaidQrHasItsRow
  BY DEF CodeInv
<1>1. PICK p \in Codes : p = worker[k].row
  BY <1>0 DEF Unmint, CloseCode, At, Knows
<1>2. CASE UNCHANGED request /\ Finish(k)
  BY <1>0, <1>2, MoveAside, AsideStep DEF Unmint, CloseCode
<1>3. CASE /\ request[p] \in {"CREATED", "EXPIRED"} /\ request' = [request EXCEPT ![p] = "CANCELLED"]
           /\ Finish(k) \/ Goto(k, "delete")
  <2>1. /\ HandsAre' /\ \A j \in Workers \ {k} : worker'[j] = worker[j]
        /\ worker'[k].pc = "idle" \/ (worker'[k].pc = "delete" /\ worker'[k].row = p)
    BY <1>0, <1>1, <1>3, FinishIs, GotoIs, FreeHand
  <2>2. code' = code /\ request'[p] = "CANCELLED" /\ \A q \in Codes \ {p} : request'[q] = request[q]
    BY <1>0, <1>3 DEF CodeTypes, Unmint, CloseCode
  <2>3. CodeTypes'
    BY <1>0, <1>3, <2>2 DEF CodeTypes, Requests
  <2>4. \A j \in Workers : Knows(j)'
    <3>1. Knows(k)'
      BY <2>1, <2>2 DEF Knows, At
    <3>2. \A j \in Workers \ {k} : \A q \in Codes : Minting(j, q) =>
            request'[q] \in {"CREATED", "EXPIRED", "CANCELLED"} /\ code'[q].amount = 0
      BY <2>2 DEF CodeInv, Knows, Minting, At
    <3>3. \A q \in Codes : request[q] = "CANCELLED" => request'[q] = "CANCELLED"
      BY <2>2
    <3> QED BY <2>1, <3>1, <3>2, <3>3, OthersKeep
  <2>5. OneMinter'
    BY <1>0, <2>1 DEF OneMinter, Minting, At
  <2>6. RowsFit' /\ PaidQrHasItsRow'
    BY <1>0, <1>3, <2>2 DEF RowsFit, PaidQrHasItsRow, Rows
  <2> QED BY <2>1, <2>3, <2>4, <2>5, <2>6 DEF CodeInv
<1> QED BY <1>1, <1>2, <1>3 DEF Unmint, CloseCode

LEMMA DeleteStep ==
  ASSUME CodeInv, NEW k \in Workers, DeleteCode(k)
  PROVE  CodeInv'
<1>0. HandsAre /\ CodeTypes /\ OneMinter /\ Knows(k) /\ RowsFit /\ PaidQrHasItsRow
  BY DEF CodeInv
<1>1. PICK p \in Codes : p = worker[k].row
  BY <1>0 DEF DeleteCode, At, Knows
<1>2. /\ request[p] = "CANCELLED" /\ request' = request
      /\ code' = [code EXCEPT ![p] = [amount |-> 0, sure |-> FALSE]]
  BY <1>0, <1>1 DEF DeleteCode, At, Knows
<1>3. /\ HandsAre' /\ \A j \in Workers \ {k} : worker'[j] = worker[j]
      /\ worker'[k].pc = "idle" \/ (worker'[k].pc = "unmirror" /\ worker'[k].row = p)
  BY <1>0, <1>1, FinishIs, GotoIs, FreeHand DEF DeleteCode
<1>4. CodeTypes' /\ code'[p].amount = 0 /\ ~ code'[p].sure /\ \A q \in Codes \ {p} : code'[q] = code[q]
  BY <1>0, <1>2 DEF CodeTypes
<1>5. \A j \in Workers : Knows(j)'
  <2>1. Knows(k)'
    BY <1>3 DEF Knows, At
  <2>2. \A j \in Workers \ {k} : \A q \in Codes : Minting(j, q) =>
          request'[q] \in {"CREATED", "EXPIRED", "CANCELLED"} /\ code'[q].amount = 0
    BY <1>2, <1>4 DEF CodeInv, Knows, Minting, At
  <2> QED BY <1>2, <1>3, <2>1, <2>2, OthersKeep
<1>6. OneMinter'
  BY <1>0, <1>3 DEF OneMinter, Minting, At
<1>7. RowsFit' /\ PaidQrHasItsRow'
  BY <1>0, <1>2, <1>4 DEF RowsFit, PaidQrHasItsRow, Rows
<1> QED BY <1>3, <1>4, <1>5, <1>6, <1>7 DEF CodeInv

LEMMA AskStep ==
  ASSUME CodeInv, NEW k \in Workers, AskCode(k)
  PROVE  CodeInv' /\ \A p \in Codes : code[p].sure => code'[p] = code[p]
<1>0. HandsAre /\ CodeTypes /\ OneMinter /\ Knows(k) /\ RowsFit /\ PaidQrHasItsRow /\ DOMAIN worker[k] = Fields
  BY DEF CodeInv, HandsAre
<1>1. PICK p \in Codes, step \in {"ask", "reread"} :
        /\ code' = IF request[p] = "PAID" /\ p \in Pending THEN [code EXCEPT ![p].sure = TRUE] ELSE code
        /\ Hold(k, [worker[k] EXCEPT !.todo = @ \ {p}, !.pc = step])
        /\ step = "ask" \/ worker[k].todo = {p}
  BY <1>0 DEF AskCode, Knows, At
<1> DEFINE hand == [worker[k] EXCEPT !.todo = @ \ {p}, !.pc = step]
<1>2. DOMAIN hand = Fields /\ hand.pc = step /\ hand.todo = worker[k].todo \ {p}
  BY <1>0 DEF Fields
<1> HIDE DEF hand
<1>3. /\ HandsAre' /\ worker'[k] = hand /\ \A j \in Workers \ {k} : worker'[j] = worker[j]
  BY <1>0, <1>1, <1>2, HoldIs DEF hand
<1>4. request' = request /\ worker[k].todo \subseteq Codes
  BY <1>0 DEF AskCode, Knows, At
<1>5. /\ CodeTypes'
      /\ \A q \in Codes : code'[q].amount = code[q].amount
      /\ \A q \in Codes : code'[q] = code[q] \/ (q = p /\ request[p] = "PAID" /\ ~ code[p].sure)
  BY <1>0, <1>1, <1>4 DEF CodeTypes, Pending, Confirmed
<1>6. \A j \in Workers : Knows(j)'
  <2>1. Knows(k)'
    BY <1>1, <1>2, <1>3, <1>4 DEF Knows, At
  <2>2. \A j \in Workers \ {k} : \A q \in Codes : Minting(j, q) =>
          request'[q] \in {"CREATED", "EXPIRED", "CANCELLED"} /\ code'[q].amount = 0
    BY <1>4, <1>5 DEF CodeInv, Knows, Minting, At
  <2> QED BY <1>3, <1>4, <2>1, <2>2, OthersKeep
<1>7. OneMinter'
  BY <1>0, <1>1, <1>2, <1>3 DEF OneMinter, Minting, At
<1>8. RowsFit' /\ PaidQrHasItsRow'
  BY <1>0, <1>4, <1>5 DEF RowsFit, PaidQrHasItsRow, Rows
<1> QED BY <1>3, <1>5, <1>6, <1>7, <1>8 DEF CodeInv

\* The customer pays a QR whose row is there; the clock closes one nobody pays.
LEMMA CustomerStep ==
  ASSUME CodeInv, NEW p \in Codes, ClaimCode(p) \/ CodeFailed(p) \/ CodePaid(p) \/ markExpired(p)
  PROVE  CodeInv'
<1>0. HandsAre /\ CodeTypes /\ OneMinter /\ RowsFit /\ PaidQrHasItsRow /\ \A k \in Workers : Knows(k)
  BY DEF CodeInv
<1>1. PICK to \in {"PROCESSING", "CREATED", "PAID", "EXPIRED"} :
        /\ request' = [request EXCEPT ![p] = to]
        /\ request[p] \in {"CREATED", "PROCESSING"}
        /\ to \in {"PROCESSING", "PAID"} => p \in Rows
        /\ UNCHANGED <<code, worker>>
  BY <1>0 DEF ClaimCode, CodeFailed, CodePaid, markExpired, Ask, PaidQrHasItsRow
<1>2. CodeTypes' /\ request'[p] = to /\ \A q \in Codes \ {p} : request'[q] = request[q]
  BY <1>0, <1>1 DEF CodeTypes, Requests
<1>3. ASSUME NEW k \in Workers  PROVE Knows(k)'
  <2>1. Minting(k, p) => code[p].amount = 0 /\ request[p] = "CREATED"
    BY <1>0, <1>1 DEF Knows, Minting, At
  <2>2. Minting(k, p) => to \in {"CREATED", "EXPIRED"}
    BY <2>1, <1>0, <1>1 DEF Rows, CodeTypes
  <2>3. At(k, "qr") => worker[k].row = p \/ request'[worker[k].row] = request[worker[k].row]
    BY <1>0, <1>2 DEF Knows, At
  <2>4. At(k, "delete") => request'[worker[k].row] = "CANCELLED"
    BY <1>0, <1>1, <1>2 DEF Knows, At
  <2> QED BY <1>0, <1>1, <1>2, <2>2, <2>3, <2>4 DEF Knows, At, Minting
<1>4. HandsAre' /\ OneMinter'
  BY <1>0, <1>1 DEF HandsAre, OneMinter, Minting, At
<1>5. RowsFit' /\ PaidQrHasItsRow'
  BY <1>0, <1>1, <1>2 DEF RowsFit, PaidQrHasItsRow, Rows
<1> QED BY <1>2, <1>3, <1>4, <1>5 DEF CodeInv

LEMMA CodeInvInit == Init => CodeInv
<1> SUFFICES ASSUME Init  PROVE CodeInv
  OBVIOUS
<1>1. HandsAre /\ \A k \in Workers : worker[k].pc = "idle"
  BY FreeHand DEF Init, HandsAre
<1>2. CodeTypes /\ RowsFit /\ PaidQrHasItsRow
  BY DEF Init, CodeTypes, Requests, RowsFit, PaidQrHasItsRow
<1> QED BY <1>1, <1>2 DEF CodeInv, OneMinter, Minting, Knows, At

LEMMA CodeInvStep == CodeInv /\ [Next]_vars => CodeInv'
<1> SUFFICES ASSUME CodeInv, [Next]_vars  PROVE CodeInv'
  OBVIOUS
<1>1. CASE UNCHANGED vars \/ SoldElsewhere
  BY <1>1 DEF vars, SoldElsewhere, CodeInv, HandsAre, CodeTypes, OneMinter, Minting, Knows, At,
     RowsFit, PaidQrHasItsRow, Rows
<1>2. ASSUME NEW k \in Workers, Call(k)  PROVE CodeInv'
  BY <1>2, CallAside, CallCode DEF Call
<1>3. ASSUME NEW k \in Workers, Write(k)  PROVE CodeInv'
  BY <1>3, WorkAside, WorkCode, MintStep, AddCodeStep, CloseStep, DeleteStep DEF Write
<1>4. ASSUME NEW k \in Workers, Poll(k) \/ Interrupt(k)  PROVE CodeInv'
  BY <1>4, WorkAside, WorkCode, AskStep DEF Poll
<1> QED BY <1>1, <1>2, <1>3, <1>4, CustomerStep DEF Next

\* Three statements write the parts.
LEMMA WhoWritesParts ==
  ASSUME [Next]_vars, code' # code
  PROVE  \E k \in Workers : AddCode(k) \/ DeleteCode(k) \/ AskCode(k)
<1>1. ASSUME NEW k \in Workers, Call(k)  PROVE code' = code
  BY <1>1 DEF Call, addItem, updateItemQuantity, voidItem, payCash, payScanlinkpay, voidPayment,
     getTicket, cancelTicket
<1>2. ASSUME NEW k \in Workers, Write(k), ~ AddCode(k), ~ DeleteCode(k)  PROVE code' = code
  BY <1>2 DEF Write, WriteLine, VoidLine, ReadLines, saveTotals, syncTotals, AddCash,
     createPaymentRequest, Unmint, Mirror, CloseCode, Unmirror, CancelNow
<1>3. ASSUME NEW k \in Workers, Poll(k) \/ Interrupt(k), ~ AskCode(k)  PROVE code' = code
  BY <1>3 DEF Poll, Interrupt, trySettleScanlinkpayTicket, settleIfFullyPaid, Settle,
     SettleLegacy, deductStockForTicket, createMovement
<1>4. ASSUME NEW q \in Codes, ClaimCode(q) \/ CodeFailed(q) \/ CodePaid(q) \/ markExpired(q)
      PROVE  code' = code
  BY <1>4 DEF ClaimCode, CodeFailed, CodePaid, markExpired, Ask
<1> QED BY <1>1, <1>2, <1>3, <1>4 DEF Next, SoldElsewhere, vars

\* Nothing is taken off but with a closed QR, and nothing is written over it.
LEMMA ConfirmedKept == CodeInv /\ [Next]_vars => \A p \in Codes : code[p].sure => code'[p] = code[p]
<1> SUFFICES ASSUME CodeInv, [Next]_vars, NEW p \in Codes, code[p].sure, code' # code
             PROVE  code'[p] = code[p]
  OBVIOUS
<1>1. PICK k \in Workers : AddCode(k) \/ DeleteCode(k) \/ AskCode(k)
  BY WhoWritesParts
<1>2. request[p] = "PAID" /\ Knows(k) /\ CodeTypes
  BY DEF CodeInv, RowsFit
<1>3. CASE AddCode(k) \/ DeleteCode(k)
  <2>1. worker[k].row # p
    BY <1>2, <1>3 DEF AddCode, DeleteCode, Knows, At
  <2> QED BY <1>2, <1>3, <2>1 DEF AddCode, DeleteCode, CodeTypes
<1> QED BY <1>1, <1>3, AskStep

-----------------------------------------------------------------------------
(* The theorems on the QR parts.                                           *)

\* PaidQrHasItsRow: the QR that a customer has paid, or is paying, is a part of the
\* ticket, whichever devices add and take off parts at once (voidPayment closes the
\* QR first, payScanlinkpay shows it once its row is written).
THEOREM PaidQrIsKept == Spec => []PaidQrHasItsRow
<1>1. CodeInv => PaidQrHasItsRow
  BY DEF CodeInv
<1> QED BY <1>1, CodeInvInit, CodeInvStep, PTL DEF Spec

\* ConfirmedStays: a confirmed part is never changed nor removed, as nothing is
\* taken off but with a closed QR, and nothing is written over it.
THEOREM ConfirmedIsKept == Spec => ConfirmedStays
<1>1. CodeInv /\ [Next]_vars => [\A p \in Codes : code[p].sure => code'[p] = code[p]]_code
  BY ConfirmedKept
<1> QED BY <1>1, CodeInvInit, CodeInvStep, PTL DEF Spec, ConfirmedStays

-----------------------------------------------------------------------------
(* Induction over finite sets, which the sums of a ticket are followed by. *)

\* A set of naturals has a least element.
LEMMA LeastOfNaturals ==
  ASSUME NEW S \in SUBSET Nat, S # {}
  PROVE  \E n \in S : \A i \in S : n <= i
<1> DEFINE R == {p \in Nat \X Nat : p[1] < p[2]}
<1>1. IsWellFoundedOn(R, Nat)
  BY NatLessThanWellFounded, Zenon DEF OpToRel
<1>2. \A i, j \in Nat : i < j => <<i, j>> \in R
  OBVIOUS
<1> HIDE DEF R
<1>3. PICK n \in S : \A i \in S : ~ (<<i, n>> \in R)
  BY <1>1, WFMin
<1>4. ASSUME NEW i \in S  PROVE n <= i
  <2>1. ~ (i < n)
    BY <1>2, <1>3
  <2> QED BY <2>1
<1> QED BY <1>4

\* What holds of a set once it holds of its proper subsets holds of a finite set.
LEMMA SubsetInduction ==
  ASSUME NEW D, IsFiniteSet(D), NEW Q,
         \A T \in SUBSET D : (\A R \in SUBSET T : R # T => R \in Q) => T \in Q
  PROVE  \A T \in SUBSET D : T \in Q
<1> DEFINE sizes == {Cardinality(T) : T \in {T \in SUBSET D : T \notin Q}}
<1> SUFFICES ASSUME NEW T0 \in SUBSET D, T0 \notin Q  PROVE FALSE
  OBVIOUS
<1>1. sizes \in SUBSET Nat /\ sizes # {}
  <2>1. \A T \in SUBSET D : Cardinality(T) \in Nat
    BY FS_Subset, FS_CardinalityType
  <2> QED BY <2>1
<1>2. PICK n \in sizes : \A i \in sizes : n <= i
  <2> HIDE DEF sizes
  <2> QED BY <1>1, LeastOfNaturals
<1>3. PICK T \in SUBSET D : T \notin Q /\ Cardinality(T) = n
  BY <1>2
<1>4. ASSUME NEW R \in SUBSET T, R # T  PROVE R \in Q
  <2>1. IsFiniteSet(T)
    BY FS_Subset
  <2>2. Cardinality(R) < Cardinality(T) /\ Cardinality(R) \in Nat /\ Cardinality(T) \in Nat
    BY <1>4, <2>1, FS_Subset, FS_CardinalityType
  <2>3. R \notin Q => Cardinality(R) \in sizes
    OBVIOUS
  <2> HIDE DEF sizes
  <2>4. R \notin Q => Cardinality(T) <= Cardinality(R)
    BY <1>2, <1>3, <2>3
  <2> QED BY <2>2, <2>4
<1> QED BY <1>3, <1>4

-----------------------------------------------------------------------------
(* Sums.                                                                   *)

SumOver(f, S) == MapThenSumSet(LAMBDA x : f[x], S)

Pick(s) == CHOOSE x \in s : TRUE
Sums(g, f, S) == g = [s \in SUBSET S |-> IF s = {} THEN 0 ELSE f[Pick(s)] + g[s \ {Pick(s)}]]

\* The sum is a value of the recursive function that computes it.
LEMMA SumIs ==
  ASSUME NEW f, NEW S
  PROVE SumOver(f,S) = (CHOOSE g : Sums(g, f, S))[S]
BY DEF SumOver, MapThenSumSet, MapThenFoldSet, Sums, Pick

\* A sum is that of its first element and of the rest.
LEMMA SumUnfolds ==
  ASSUME NEW f, NEW D, IsFiniteSet(D)
  PROVE  \A S \in SUBSET D :
           SumOver(f, S) = IF S = {} THEN 0 ELSE f[Pick(S)] + SumOver(f, S \ {Pick(S)})
<1> DEFINE Rec(S) == IF S = {} THEN 0 ELSE f[Pick(S)] + SumOver(f, S \ {Pick(S)})
           Q == {S \in SUBSET D : SumOver(f, S) = Rec(S)}
<1>0. \A s : s # {} => Pick(s) \in s
  BY DEF Pick
<1>1. ASSUME NEW T \in SUBSET D, \A R \in SUBSET T : R # T => R \in Q
      PROVE  T \in Q
  <2>1. \A R \in SUBSET T : R # T => SumOver(f, R) = Rec(R)
    BY <1>1
  <2> DEFINE g == [s \in SUBSET T |-> Rec(s)]
  <2>2. Sums(g, f, T)
    <3> SUFFICES ASSUME NEW s \in SUBSET T, s # {}
                 PROVE  Rec(s) = f[Pick(s)] + g[s \ {Pick(s)}]
      BY Zenon DEF Sums
    <3>1. s \ {Pick(s)} \in SUBSET T /\ s \ {Pick(s)} # T
      BY <1>0
    <3>2. g[s \ {Pick(s)}] = SumOver(f, s \ {Pick(s)})
      BY <2>1, <3>1
    <3> QED BY <3>2
  <2> DEFINE h == CHOOSE h : Sums(h, f, T)
  <2>3. Sums(h, f, T)
    BY <2>2
  <2>4. SumOver(f, T) = h[T]
    BY SumIs
  <2> HIDE DEF g, h, Q
  <2>5. \A s \in SUBSET T : h[s] = IF s = {} THEN 0 ELSE f[Pick(s)] + h[s \ {Pick(s)}]
    BY <2>3 DEF Sums
  <2>6. \A s \in SUBSET T : s # T => h[s] = SumOver(f, s)
    <3> DEFINE Q2 == {s \in SUBSET T : s # T => h[s] = SumOver(f, s)}
    <3>1. ASSUME NEW s \in SUBSET T, \A R \in SUBSET s : R # s => R \in Q2
          PROVE  s \in Q2
      <4> SUFFICES ASSUME s # T  PROVE h[s] = Rec(s)
        BY <2>1
      <4>1. CASE s = {}
        BY <2>5, <4>1
      <4>2. CASE s # {}
        <5>1. s \ {Pick(s)} \in SUBSET s /\ s \ {Pick(s)} # s /\ s \ {Pick(s)} # T
          BY <1>0, <4>2
        <5>2. h[s \ {Pick(s)}] = SumOver(f, s \ {Pick(s)})
          BY <3>1, <5>1
        <5> QED BY <2>5, <4>2, <5>2
      <4> QED BY <4>1, <4>2
    <3>2. IsFiniteSet(T)
      BY FS_Subset
    <3> HIDE DEF Q2
    <3>3. \A s \in SUBSET T : s \in Q2
      BY <3>1, <3>2, SubsetInduction
    <3> QED BY <3>3 DEF Q2
  <2>7. SumOver(f, T) = Rec(T)
    <3>1. CASE T = {}
      BY <2>4, <2>5, <3>1
    <3>2. CASE T # {}
      <4>1. T \ {Pick(T)} \in SUBSET T /\ T \ {Pick(T)} # T
        BY <1>0, <3>2
      <4> QED BY <2>4, <2>5, <2>6, <3>2, <4>1
    <3> QED BY <3>1, <3>2
  <2> QED BY <2>7 DEF Q
<1> HIDE DEF Q
<1>2. \A T \in SUBSET D : T \in Q
  BY <1>1, SubsetInduction
<1> QED BY <1>2 DEF Q

\* A sum of integers is one.
LEMMA SumType ==
  ASSUME NEW f, NEW D, IsFiniteSet(D), \A x \in D : f[x] \in Int
  PROVE  \A S \in SUBSET D : SumOver(f, S) \in Int
<1> DEFINE Q == {S \in SUBSET D : SumOver(f, S) \in Int}
<1>0. \A s : s # {} => Pick(s) \in s
  BY DEF Pick
<1>1. ASSUME NEW T \in SUBSET D, \A R \in SUBSET T : R # T => R \in Q
      PROVE  T \in Q
  <2>1. CASE T = {}
    <3>1. SumOver(f, T) = 0
      BY <2>1, SumUnfolds
    <3> QED BY <3>1
  <2>2. CASE T # {}
    <3>1. T \ {Pick(T)} \in Q /\ Pick(T) \in D
      BY <1>0, <1>1, <2>2
    <3>2. SumOver(f, T) = f[Pick(T)] + SumOver(f, T \ {Pick(T)})
      BY <2>2, SumUnfolds
    <3> QED BY <3>1, <3>2
  <2> QED BY <2>1, <2>2
<1> HIDE DEF Q
<1>2. \A T \in SUBSET D : T \in Q
  BY <1>1, SubsetInduction
<1> QED BY <1>2 DEF Q

\* A sum of counts is a count.
LEMMA SumNat ==
  ASSUME NEW f, NEW D, IsFiniteSet(D), \A x \in D : f[x] \in Nat
  PROVE  \A S \in SUBSET D : SumOver(f, S) \in Nat
<1> DEFINE Q == {S \in SUBSET D : SumOver(f, S) \in Nat}
<1>0. \A s : s # {} => Pick(s) \in s
  BY DEF Pick
<1>1. ASSUME NEW T \in SUBSET D, \A R \in SUBSET T : R # T => R \in Q
      PROVE  T \in Q
  <2>1. CASE T = {}
    <3>1. SumOver(f, T) = 0
      BY <2>1, SumUnfolds
    <3> QED BY <3>1
  <2>2. CASE T # {}
    <3>1. T \ {Pick(T)} \in Q /\ Pick(T) \in D
      BY <1>0, <1>1, <2>2
    <3>2. SumOver(f, T) = f[Pick(T)] + SumOver(f, T \ {Pick(T)})
      BY <2>2, SumUnfolds
    <3> QED BY <3>1, <3>2
  <2> QED BY <2>1, <2>2
<1> HIDE DEF Q
<1>2. \A T \in SUBSET D : T \in Q
  BY <1>1, SubsetInduction
<1> QED BY <1>2 DEF Q

\* It does not matter which element is taken off.
LEMMA SumTakeOff ==
  ASSUME NEW f, NEW D, IsFiniteSet(D), \A x \in D : f[x] \in Int
  PROVE  \A S \in SUBSET D : \A x \in S : SumOver(f, S) = f[x] + SumOver(f, S \ {x})
<1> DEFINE Q == {S \in SUBSET D : \A x \in S : SumOver(f, S) = f[x] + SumOver(f, S \ {x})}
<1>0. \A s : s # {} => Pick(s) \in s
  BY DEF Pick
<1>1. ASSUME NEW T \in SUBSET D, \A R \in SUBSET T : R # T => R \in Q
      PROVE  T \in Q
  <2> SUFFICES ASSUME NEW x \in T  PROVE SumOver(f, T) = f[x] + SumOver(f, T \ {x})
    OBVIOUS
  <2> DEFINE p == Pick(T)
  <2>1. p \in T /\ SumOver(f, T) = f[p] + SumOver(f, T \ {p})
    BY <1>0, SumUnfolds
  <2> HIDE DEF p
  <2>2. CASE x # p
    <3>1. T \ {p} \in Q /\ x \in T \ {p}
      BY <1>1, <2>1, <2>2
    <3>2. T \ {x} \in Q /\ p \in T \ {x}
      BY <1>1, <2>1, <2>2
    <3>3. SumOver(f, T \ {p}) = f[x] + SumOver(f, (T \ {p}) \ {x})
      BY <3>1
    <3>4. SumOver(f, T \ {x}) = f[p] + SumOver(f, (T \ {x}) \ {p})
      BY <3>2
    <3>5. (T \ {p}) \ {x} = (T \ {x}) \ {p}
      OBVIOUS
    <3>6. SumOver(f, (T \ {x}) \ {p}) \in Int /\ f[x] \in Int /\ f[p] \in Int
      BY <2>1, SumType
    <3> DEFINE rest == SumOver(f, (T \ {x}) \ {p})
    <3>7. SumOver(f, T) = f[p] + (f[x] + rest)
      BY <2>1, <3>3, <3>5
    <3>8. SumOver(f, T \ {x}) = f[p] + rest
      BY <3>4
    <3> HIDE DEF Q, rest
    <3>9. rest \in Int
      BY <3>6 DEF rest
    <3> QED BY <3>6, <3>7, <3>8, <3>9
  <2> QED BY <2>1, <2>2
<1> HIDE DEF Q
<1>2. \A T \in SUBSET D : T \in Q
  BY <1>1, SubsetInduction
<1> QED BY <1>2 DEF Q

\* What one more element adds.
LEMMA SumAdd ==
  ASSUME NEW f, NEW D, IsFiniteSet(D), \A x \in D : f[x] \in Int, NEW S \in SUBSET D, NEW x \in D, x \notin S
  PROVE  SumOver(f, S \cup {x}) = f[x] + SumOver(f, S)
<1>1. (S \cup {x}) \ {x} = S /\ S \cup {x} \in SUBSET D
  OBVIOUS
<1> QED BY <1>1, SumTakeOff

\* More elements, and each with more, make no smaller sum of counts.
LEMMA SumMono ==
  ASSUME NEW f, NEW g, NEW D, IsFiniteSet(D), \A x \in D : f[x] \in Nat /\ g[x] \in Nat,
         NEW S \in SUBSET D, NEW T \in SUBSET D, S \subseteq T, \A x \in S : f[x] <= g[x]
  PROVE  SumOver(f, S) <= SumOver(g, T)
<1>0. \A s : s # {} => Pick(s) \in s
  BY DEF Pick
<1>1. \A X \in SUBSET D : SumOver(f, X) \in Int /\ SumOver(g, X) \in Int
  BY SumType
<1>2. \A X \in SUBSET D : \A x \in X : SumOver(f, X) = f[x] + SumOver(f, X \ {x})
                                    /\ SumOver(g, X) = g[x] + SumOver(g, X \ {x})
  <2>1. \A x \in D : f[x] \in Int
    OBVIOUS
  <2>2. \A x \in D : g[x] \in Int
    OBVIOUS
  <2>3. \A X \in SUBSET D : \A x \in X : SumOver(f, X) = f[x] + SumOver(f, X \ {x})
    BY <2>1, SumTakeOff
  <2>4. \A X \in SUBSET D : \A x \in X : SumOver(g, X) = g[x] + SumOver(g, X \ {x})
    BY <2>2, SumTakeOff
  <2> QED BY <2>3, <2>4
<1>3. SumOver(f, {}) = 0 /\ SumOver(g, {}) = 0
  BY SumUnfolds
<1> DEFINE Less(X) == \A Y \in SUBSET X : (\A y \in Y : f[y] <= g[y]) => SumOver(f, Y) <= SumOver(g, X)
           Q == {X \in SUBSET D : Less(X)}
<1>4. ASSUME NEW X \in SUBSET D, \A R \in SUBSET X : R # X => R \in Q
      PROVE  X \in Q
  <2> SUFFICES ASSUME NEW Y \in SUBSET X, \A y \in Y : f[y] <= g[y]
               PROVE  SumOver(f, Y) <= SumOver(g, X)
    OBVIOUS
  <2>1. CASE X = {}
    <3>1. Y = {}
      BY <2>1
    <3> QED BY <1>3, <2>1, <3>1
  <2>2. CASE X # {}
    <3> DEFINE p == Pick(X)
    <3>1. p \in X
      BY <1>0, <2>2
    <3> HIDE DEF p
    <3>2. Less(X \ {p})
      BY <1>4, <3>1
    <3>3. SumOver(g, X) = g[p] + SumOver(g, X \ {p}) /\ f[p] \in Nat /\ g[p] \in Nat
      BY <1>2, <3>1
    <3>4. SumOver(g, X \ {p}) \in Int /\ SumOver(f, Y) \in Int /\ SumOver(f, Y \ {p}) \in Int
      BY <1>1
    <3>5. SumOver(f, Y \ {p}) <= SumOver(g, X \ {p})
      <4>1. Y \ {p} \in SUBSET (X \ {p})
        OBVIOUS
      <4> QED BY <3>2, <4>1
    <3>6. CASE p \in Y
      <4>1. SumOver(f, Y) = f[p] + SumOver(f, Y \ {p}) /\ f[p] <= g[p]
        BY <1>2, <3>6
      <4> QED BY <3>3, <3>4, <3>5, <4>1
    <3>7. CASE p \notin Y
      <4>1. Y \ {p} = Y
        BY <3>7
      <4>2. SumOver(f, Y) <= SumOver(g, X \ {p})
        BY <3>5, <4>1
      <4> HIDE DEF Less, Q
      <4> QED BY <3>3, <3>4, <4>2
    <3> QED BY <3>6, <3>7
  <2> QED BY <2>1, <2>2
<1> HIDE DEF Q
<1>5. \A X \in SUBSET D : X \in Q
  BY <1>4, SubsetInduction
<1>6. Less(T)
  BY <1>5 DEF Q
<1> QED BY <1>6

\* A sum of counts is a count, and is within as many times their bound.
LEMMA SumBound ==
  ASSUME NEW f, NEW D, IsFiniteSet(D), NEW m \in Nat, \A x \in D : f[x] \in 0..m
  PROVE  \A S \in SUBSET D : SumOver(f, S) \in 0..m * Cardinality(S)
<1> DEFINE Q == {S \in SUBSET D : SumOver(f, S) \in 0..m * Cardinality(S)}
<1>0. \A s : s # {} => Pick(s) \in s
  BY DEF Pick
<1>1. ASSUME NEW T \in SUBSET D, \A R \in SUBSET T : R # T => R \in Q
      PROVE  T \in Q
  <2>1. CASE T = {}
    <3>1. SumOver(f, T) = 0 /\ Cardinality(T) = 0
      BY <2>1, SumUnfolds, FS_EmptySet
    <3> QED BY <3>1
  <2>2. CASE T # {}
    <3> DEFINE p == Pick(T)
               c == Cardinality(T \ {p})
               rest == SumOver(f, T \ {p})
    <3>1. p \in T
      BY <1>0, <2>2
    <3>2. SumOver(f, T) = f[p] + rest
      BY <2>2, SumUnfolds
    <3>3. T \ {p} \in Q
      BY <1>1, <3>1
    <3>4. rest \in 0..m * c
      BY <3>3
    <3>5. c \in Nat /\ Cardinality(T) = c + 1
      <4>1. IsFiniteSet(T)
        BY FS_Subset
      <4>2. IsFiniteSet(T \ {p}) /\ Cardinality(T \ {p}) = Cardinality(T) - 1
        BY <3>1, <4>1, FS_RemoveElement
      <4>3. Cardinality(T) \in Nat /\ c \in Nat
        BY <4>1, <4>2, FS_CardinalityType
      <4> QED BY <4>2, <4>3
    <3>6. f[p] \in 0..m
      BY <3>1
    <3> HIDE DEF c, rest, p, Q
    <3>7. f[p] + rest \in 0..m * (c + 1)
      <4>1. m * (c + 1) = m * c + m /\ m * c \in Nat
        BY <3>5
      <4> QED BY <3>4, <3>6, <4>1
    <3>8. SumOver(f, T) \in 0..m * Cardinality(T)
      BY <3>2, <3>5, <3>7
    <3> QED BY <3>8 DEF Q
  <2> QED BY <2>1, <2>2
<1> HIDE DEF Q
<1>2. \A T \in SUBSET D : T \in Q
  BY <1>1, SubsetInduction
<1> QED BY <1>2 DEF Q

-----------------------------------------------------------------------------
(* The sums of a ticket.                                                   *)

Qtys    == [l \in Lines |-> line[l].qty]
Amounts == [p \in Codes |-> code[p].amount]

LineTypes == line \in [Lines -> [qty: 0..MaxQty, active: BOOLEAN]]

LEMMA SetsAreFinite ==
  /\ IsFiniteSet(Lines) /\ IsFiniteSet(Codes) /\ MaxQty \in Nat \ {0}
  /\ Cardinality(Lines) \in Nat /\ MaxQty * Cardinality(Lines) \in Nat
BY PosAssumption, FS_CardinalityType

\* The total of a ticket is a sum of quantities, that of some parts one of amounts.
LEMMA TotalIs ==
  ASSUME NEW S \in SUBSET Lines
  PROVE  MapThenSumSet(LAMBDA l : line[l].qty, S) = SumOver(Qtys, S)
<1> DEFINE Rec(g) == g = [s \in SUBSET S |-> IF s = {} THEN 0 ELSE line[Pick(s)].qty + g[s \ {Pick(s)}]]
<1>1. MapThenSumSet(LAMBDA l : line[l].qty, S) = (CHOOSE g : Rec(g))[S]
  BY DEF MapThenSumSet, MapThenFoldSet, Pick
<1>2. \A s \in SUBSET S : s # {} => Qtys[Pick(s)] = line[Pick(s)].qty
  BY DEF Pick, Qtys
<1>3. \A g : Sums(g, Qtys, S) <=> Rec(g)
  BY <1>2 DEF Sums
<1>4. (CHOOSE g : Sums(g, Qtys, S)) = (CHOOSE g : Rec(g))
  BY <1>3
<1> QED BY <1>1, <1>4, SumIs

PartSums == \A S \in SUBSET Codes : Sum(S) = SumOver(Amounts, S)

LEMMA SumOfParts == PartSums
<1> SUFFICES ASSUME NEW S \in SUBSET Codes
             PROVE  Sum(S) = SumOver(Amounts, S)
  BY DEF PartSums
<1> DEFINE Rec(g) == g = [s \in SUBSET S |-> IF s = {} THEN 0 ELSE code[Pick(s)].amount + g[s \ {Pick(s)}]]
<1>1. Sum(S) = (CHOOSE g : Rec(g))[S]
  BY DEF Sum, MapThenSumSet, MapThenFoldSet, Pick
<1>2. \A s \in SUBSET S : s # {} => Amounts[Pick(s)] = code[Pick(s)].amount
  BY DEF Pick, Amounts
<1>3. \A g : Sums(g, Amounts, S) <=> Rec(g)
  BY <1>2 DEF Sums
<1>4. (CHOOSE g : Sums(g, Amounts, S)) = (CHOOSE g : Rec(g))
  BY <1>3
<1> QED BY <1>1, <1>4, SumIs

\* No ticket is worth more than all its lines at their most.
LEMMA TotalIsBounded == LineTypes => computeTotals \in Most
<1> SUFFICES ASSUME LineTypes  PROVE computeTotals \in Most
  OBVIOUS
<1>1. \A l \in Lines : Qtys[l] \in 0..MaxQty
  BY DEF LineTypes, Qtys
<1>2. Active \in SUBSET Lines
  BY DEF Active
<1>3. computeTotals = SumOver(Qtys, Active)
  BY <1>2, TotalIs DEF computeTotals
<1>4. SumOver(Qtys, Active) <= SumOver(Qtys, Lines)
  <2>1. \A l \in Lines : Qtys[l] \in Nat /\ Qtys[l] <= Qtys[l]
    BY <1>1, SetsAreFinite
  <2> QED BY <1>2, <2>1, SetsAreFinite, SumMono
<1>5. SumOver(Qtys, Lines) \in 0..MaxQty * Cardinality(Lines)
  BY <1>1, SetsAreFinite, SumBound
<1>6. SumOver(Qtys, Active) \in Nat
  <2>1. \A l \in Lines : Qtys[l] \in Nat
    BY <1>1, SetsAreFinite
  <2> QED BY <1>2, <2>1, SetsAreFinite, SumNat
<1> QED BY <1>3, <1>4, <1>5, <1>6, SetsAreFinite DEF Most

\* The parts of a ticket add up to a count, fewer of them to no more.
LEMMA PartsAddUp ==
  ASSUME CodeTypes, NEW S \in SUBSET Codes, NEW T \in SUBSET S
  PROVE  Sum(S) \in Nat /\ Sum(T) \in Nat /\ Sum(T) <= Sum(S) /\ Sum({}) = 0
<1>1. \A p \in Codes : Amounts[p] \in Nat
  BY DEF CodeTypes, Amounts
<1>2. T \in SUBSET Codes /\ {} \in SUBSET Codes
  OBVIOUS
<1>3. SumOver(Amounts, S) \in Nat /\ SumOver(Amounts, T) \in Nat
  BY <1>1, <1>2, SetsAreFinite, SumNat
<1>4. SumOver(Amounts, T) <= SumOver(Amounts, S)
  <2>1. \A p \in Codes : Amounts[p] <= Amounts[p]
    BY <1>1
  <2> QED BY <1>1, <1>2, <2>1, SetsAreFinite, SumMono
<1>5. SumOver(Amounts, {}) = 0
  BY <1>2, SetsAreFinite, SumUnfolds
<1> QED BY <1>2, <1>3, <1>4, <1>5, SumOfParts DEF PartSums

PartsCount == CodeTypes => \A S \in SUBSET Codes : Sum(S) \in Nat

LEMMA PartsAreCounts == PartsCount
BY PartsAddUp DEF PartsCount

\* The parts after a step that leaves them alone, ...
LEMMA PartsStay ==
  ASSUME UNCHANGED code
  PROVE  Rows' = Rows /\ Sum(Rows)' = Sum(Rows)
<1>1. Rows' = Rows /\ Rows \in SUBSET Codes /\ Amounts' = Amounts
  BY DEF Rows, Amounts
<1>2. PartSums /\ PartSums'
  BY SumOfParts, PTL
<1> QED BY <1>1, <1>2 DEF PartSums

\* ... or in which none of them grew, ...
LEMMA PartsDoNotGrow ==
  ASSUME CodeTypes, CodeTypes', \A p \in Codes : code'[p].amount <= code[p].amount
  PROVE  Sum(Rows)' <= Sum(Rows)
<1> DEFINE f == Amounts'
           g == Amounts
<1>1. \A p \in Codes : f[p] \in Nat /\ g[p] \in Nat /\ f[p] <= g[p]
  BY DEF CodeTypes, Amounts
<1>2. Rows' \in SUBSET Codes /\ Rows \in SUBSET Codes /\ Rows' \subseteq Rows
  BY DEF Rows, CodeTypes
<1>3. Sum(Rows) = SumOver(g, Rows)
  BY <1>2, SumOfParts DEF PartSums
<1>4. Sum(Rows)' = SumOver(f, Rows')
  <2>1. PartSums'
    BY SumOfParts, PTL
  <2> QED BY <1>2, <2>1 DEF PartSums
<1> HIDE DEF f, g
<1>5. SumOver(f, Rows') <= SumOver(g, Rows)
  BY <1>1, <1>2, SetsAreFinite, SumMono
<1> QED BY <1>3, <1>4, <1>5

\* ... or one was added.
LEMMA OnePartMore ==
  ASSUME CodeTypes, CodeTypes', NEW p \in Codes, code[p].amount = 0,
         \A q \in Codes \ {p} : code'[q] = code[q]
  PROVE  Sum(Rows)' <= Sum(Rows) + code'[p].amount
<1> DEFINE f == Amounts'
           g == Amounts
<1>1. \A q \in Codes : f[q] \in Nat /\ g[q] \in Nat
  BY DEF CodeTypes, Amounts
<1>2. Rows' \in SUBSET Codes /\ Rows \in SUBSET Codes /\ Rows' \subseteq Rows \cup {p} /\ p \notin Rows
  BY DEF Rows, CodeTypes
<1>3. \A q \in Rows : f[q] <= g[q]
  BY <1>1, <1>2 DEF Amounts
<1>4. f[p] = code'[p].amount
  BY DEF Amounts
<1>5. Sum(Rows) = SumOver(g, Rows)
  BY <1>2, SumOfParts DEF PartSums
<1>6. Sum(Rows)' = SumOver(f, Rows')
  <2>1. PartSums'
    BY SumOfParts, PTL
  <2> QED BY <1>2, <2>1 DEF PartSums
<1> HIDE DEF f, g
<1>7. SumOver(f, Rows') <= SumOver(f, Rows \cup {p})
  BY <1>1, <1>2, SetsAreFinite, SumMono
<1>8. SumOver(f, Rows \cup {p}) = f[p] + SumOver(f, Rows)
  BY <1>1, <1>2, SetsAreFinite, SumAdd
<1>9. SumOver(f, Rows) <= SumOver(g, Rows)
  BY <1>1, <1>2, <1>3, SetsAreFinite, SumMono
<1>10. SumOver(f, Rows) \in Nat /\ SumOver(f, Rows') \in Nat /\ SumOver(g, Rows) \in Nat /\ f[p] \in Nat
  <2>1. SumOver(f, Rows) \in Nat /\ SumOver(f, Rows') \in Nat
    BY <1>1, <1>2, SetsAreFinite, SumNat
  <2>2. SumOver(g, Rows) \in Nat
    BY <1>1, <1>2, SetsAreFinite, SumNat
  <2> QED BY <1>1, <2>1, <2>2
<1>11. SumOver(f, Rows') <= SumOver(g, Rows) + f[p] 
  <2>1. SumOver(f, Rows \cup {p}) \in Int
    BY <1>8, <1>10
  <2> QED BY <1>7, <1>8, <1>9, <1>10, <2>1
<1> QED BY <1>4, <1>5, <1>6, <1>11

-----------------------------------------------------------------------------
(* What is never asked for: the invariant.                                 *)

HandTypes == worker \in [Workers -> Hands]

\* The statements that write a line have one to write, and one that records cash
\* has some to record.
Offered(k) ==
  /\ At(k, "line") => worker[k].amount \in 1..MaxQty /\ worker[k].row \in Lines \cup {None}
  /\ At(k, "void") => worker[k].row \in Lines
  /\ At(k, "cash") => worker[k].amount # 0
  /\ At(k, "mirror") => worker[k].row \in Codes

\* Neither the total nor the parts pass what the ticket has been worth.
MoneyInv ==
  /\ TypeOK
  /\ total <= peak /\ NeverAskedForMore
  /\ \A k \in Workers : Offered(k)

LEMMA TicketTypes ==
  ASSUME TypeOK
  PROVE  /\ HandTypes /\ LineTypes /\ computeTotals \in Most /\ Most \subseteq Nat /\ 0 \in Most
         /\ \A l \in Lines : 1..MaxQty \subseteq Most
<1>1. HandTypes /\ LineTypes
  BY DEF TypeOK, HandTypes, LineTypes
<1>2. computeTotals \in Most /\ Most \subseteq Nat /\ 0 \in Most
  BY <1>1, TotalIsBounded, SetsAreFinite DEF Most
<1>3. ASSUME NEW l \in Lines, NEW n \in 1..MaxQty  PROVE n \in Most
  <2>1. Cardinality(Lines) # 0
    BY SetsAreFinite, FS_EmptySet
  <2>2. MaxQty <= MaxQty * Cardinality(Lines)
    BY <2>1, SetsAreFinite
  <2> QED BY <2>2, SetsAreFinite DEF Most
<1> QED BY <1>1, <1>2, <1>3

\* What is paid is among what is spoken for.
LEMMA PaidIsSpokenFor ==
  ASSUME MoneyInv, CodeInv
  PROVE  /\ Sum(Rows) \in Nat /\ Sum(Confirmed) \in Nat /\ PaidSum <= SpokenFor
         /\ PaidSum \in Most /\ SpokenFor \in Nat
         /\ cash = 0 /\ Confirmed = {} => PaidSum = 0
<1>1. Confirmed \in SUBSET Rows /\ Rows \in SUBSET Codes
  BY DEF Confirmed, Rows
<1>2. Sum(Rows) \in Nat /\ Sum(Confirmed) \in Nat /\ Sum(Confirmed) <= Sum(Rows) /\ Sum({}) = 0
  BY <1>1, PartsAddUp DEF CodeInv
<1>3. cash \in Nat /\ peak \in Most /\ Most \subseteq Nat
  BY TicketTypes DEF MoneyInv, TypeOK
<1>4. PaidSum <= SpokenFor /\ PaidSum \in Nat /\ SpokenFor \in Nat
  BY <1>2, <1>3 DEF PaidSum, SpokenFor
<1>5. PaidSum <= peak
  BY <1>3, <1>4 DEF MoneyInv, NeverAskedForMore
<1>6. PaidSum \in Most
  BY <1>3, <1>4, <1>5, SetsAreFinite DEF Most
<1> QED BY <1>2, <1>4, <1>6 DEF PaidSum

-----------------------------------------------------------------------------
(* How a step moves the hands, with their types.                           *)

Moved(k) == HandTypes' /\ \A j \in Workers \ {k} : worker'[j] = worker[j]

LEMMA FreeIsHand == TypeOK => Free \in Hands
<1> SUFFICES ASSUME TypeOK  PROVE Free \in Hands
  OBVIOUS
<1>1. 0 \in Most /\ 0 \in 0..MaxQty
  BY TicketTypes, SetsAreFinite
<1> QED BY <1>1 DEF Free, Hands, Steps

LEMMA HoldTyped ==
  ASSUME HandTypes, NEW k \in Workers, NEW hand \in Hands, Hold(k, hand)
  PROVE  Moved(k) /\ worker'[k] = hand
BY DEF HandTypes, Hold, Moved

LEMMA FinishTyped ==
  ASSUME TypeOK, NEW k \in Workers, Finish(k)
  PROVE  Moved(k) /\ worker'[k].pc = "idle"
BY FreeIsHand, FreeHand, HoldTyped, TicketTypes DEF Finish

LEMMA GotoTyped ==
  ASSUME TypeOK, NEW k \in Workers, NEW step \in Steps, Goto(k, step)
  PROVE  /\ Moved(k) /\ worker'[k].pc = step /\ worker'[k].row = worker[k].row
         /\ worker'[k].amount = worker[k].amount
<1> DEFINE hand == [worker[k] EXCEPT !.pc = step]
<1>1. worker[k] \in Hands /\ HandTypes
  BY TicketTypes DEF HandTypes
<1>2. /\ hand \in Hands /\ hand.pc = step /\ hand.row = worker[k].row
      /\ hand.amount = worker[k].amount
  BY <1>1 DEF Hands
<1>3. Hold(k, hand)
  BY DEF Goto
<1> HIDE DEF hand
<1> QED BY <1>1, <1>2, <1>3, HoldTyped

LEMMA OnlyTyped ==
  ASSUME TypeOK, NEW k \in Workers, NEW step \in Steps, NEW r \in Lines \cup Codes \cup {None},
         Only(k, step, r)
  PROVE  Moved(k) /\ worker'[k].pc = step /\ worker'[k].row = r
<1> DEFINE hand == [Free EXCEPT !.pc = step, !.row = r]
<1>1. hand \in Hands /\ hand.pc = step /\ hand.row = r
  BY FreeIsHand DEF Hands, Free
<1>2. Hold(k, hand) /\ HandTypes
  BY TicketTypes DEF Only
<1> HIDE DEF hand
<1> QED BY <1>1, <1>2, HoldTyped

\* Steps at which nothing is known yet.
Quiet == Steps \ {"line", "void", "cash", "mirror", "pending", "legacy", "settle", "items", "deduct"}

LEMMA QuietOffer ==
  ASSUME NEW k \in Workers, worker'[k].pc \in Quiet
  PROVE  Offered(k)'
BY DEF Offered, At, Quiet

LEMMA LineHands ==
  ASSUME MoneyInv, NEW k \in Workers, addItem(k) \/ updateItemQuantity(k) \/ voidItem(k)
  PROVE  Moved(k) /\ Offered(k)' /\ worker'[k].pc \in {"line", "void"}
<1>0. TypeOK /\ HandTypes /\ Free \in Hands /\ Active \in SUBSET Lines
  BY TicketTypes, FreeIsHand DEF MoneyInv, Active
<1>1. ASSUME NEW n \in 1..MaxQty, n \in Most, NEW r \in Lines,
             Hold(k, [Free EXCEPT !.pc = "line", !.row = r, !.amount = n])
      PROVE  Moved(k) /\ Offered(k)' /\ worker'[k].pc = "line"
  <2> DEFINE hand == [Free EXCEPT !.pc = "line", !.row = r, !.amount = n]
  <2>1. hand \in Hands /\ hand.pc = "line" /\ hand.row = r /\ hand.amount = n
    BY <1>0, <1>1 DEF Hands, Free, Steps
  <2> HIDE DEF hand
  <2>2. Moved(k) /\ worker'[k] = hand
    BY <1>0, <1>1, <2>1, HoldTyped DEF hand
  <2> QED BY <2>1, <2>2 DEF Offered, At
<1>2. CASE addItem(k) /\ Active = {}
  <2> DEFINE hand == [Free EXCEPT !.pc = "line", !.amount = 1]
  <2>1. Hold(k, hand) /\ Cardinality(Inserts) < Cardinality(Unused)
    BY <1>2 DEF addItem
  <2>2. Lines # {}
    <3>1. Cardinality(Inserts) \in Nat
      BY PosAssumption, FS_Subset, FS_CardinalityType DEF Inserts
    <3>2. Lines = {} => Cardinality(Unused) = 0
      BY FS_EmptySet DEF Unused
    <3> QED BY <2>1, <3>1, <3>2
  <2>3. 1 \in 1..MaxQty /\ 1 \in Most
    BY <1>0, <2>2, TicketTypes, SetsAreFinite
  <2>4. hand \in Hands /\ hand.pc = "line" /\ hand.row = None /\ hand.amount = 1
    BY <1>0, <2>3 DEF Hands, Free, Steps
  <2> HIDE DEF hand
  <2>5. Moved(k) /\ worker'[k] = hand
    BY <1>0, <2>1, <2>4, HoldTyped
  <2> QED BY <2>3, <2>4, <2>5 DEF Offered, At
<1>3. CASE addItem(k) /\ Active # {}
  <2>1. PICK l \in Active : /\ line[l].qty < MaxQty
                            /\ Hold(k, [Free EXCEPT !.pc = "line", !.row = l, !.amount = line[l].qty + 1])
    BY <1>3 DEF addItem
  <2>2. line[l].qty + 1 \in 1..MaxQty
    BY <1>0, <2>1, SetsAreFinite DEF TypeOK
  <2>3. line[l].qty + 1 \in Most
    BY <1>0, <2>2, TicketTypes
  <2> QED BY <1>0, <1>1, <2>1, <2>2, <2>3
<1>4. CASE updateItemQuantity(k)
  <2>1. PICK l \in Active, n \in 1..MaxQty :
          Hold(k, [Free EXCEPT !.pc = "line", !.row = l, !.amount = n])
    BY <1>4 DEF updateItemQuantity
  <2>2. n \in Most
    BY <1>0, TicketTypes
  <2> QED BY <1>0, <1>1, <2>1, <2>2
<1>5. CASE voidItem(k)
  <2>1. PICK l \in Active : Hold(k, [Free EXCEPT !.pc = "void", !.row = l])
    BY <1>5 DEF voidItem
  <2> DEFINE hand == [Free EXCEPT !.pc = "void", !.row = l]
  <2>2. hand \in Hands /\ hand.pc = "void" /\ hand.row = l
    BY <1>0 DEF Hands, Free, Steps
  <2> HIDE DEF hand
  <2>3. Moved(k) /\ worker'[k] = hand
    BY <1>0, <2>1, <2>2, HoldTyped DEF hand
  <2> QED BY <1>0, <2>2, <2>3 DEF Offered, At
<1> QED BY <1>2, <1>3, <1>4, <1>5

LEMMA OfferHands ==
  ASSUME MoneyInv, CodeInv, NEW k \in Workers, payCash(k) \/ payScanlinkpay(k)
  PROVE  Moved(k) /\ Offered(k)' /\ worker'[k].pc \in {"syncCash", "syncQr", "cash", "mint"}
<1>0. TypeOK /\ HandTypes /\ Free \in Hands /\ computeTotals \in Most /\ PaidSum \in Most
  BY TicketTypes, FreeIsHand, PaidIsSpokenFor DEF MoneyInv
<1>1. ASSUME NEW sync \in {"syncCash", "syncQr"}, NEW pay \in {"cash", "mint"}, Offer(k, sync, pay)
      PROVE  Moved(k) /\ Offered(k)' /\ worker'[k].pc \in {sync, pay}
  <2>1. CASE Hold(k, [Free EXCEPT !.pc = sync, !.total = computeTotals])
    <3> DEFINE hand == [Free EXCEPT !.pc = sync, !.total = computeTotals]
    <3>1. hand \in Hands /\ hand.pc = sync
      BY <1>0 DEF Hands, Free, Steps
    <3> HIDE DEF hand
    <3>2. Moved(k) /\ worker'[k] = hand
      BY <1>0, <2>1, <3>1, HoldTyped DEF hand
    <3> QED BY <3>1, <3>2 DEF Offered, At
  <2>2. ASSUME NEW n \in Most \ {0}, NEW step \in {sync, pay},
               Hold(k, [Free EXCEPT !.pc = step, !.total = computeTotals, !.amount = n, !.sure = PaidSum])
        PROVE  Moved(k) /\ Offered(k)' /\ worker'[k].pc \in {sync, pay}
    <3> DEFINE hand == [Free EXCEPT !.pc = step, !.total = computeTotals, !.amount = n, !.sure = PaidSum]
    <3>1. hand \in Hands /\ hand.pc = step /\ hand.amount = n
      BY <1>0 DEF Hands, Free, Steps
    <3> HIDE DEF hand
    <3>2. Moved(k) /\ worker'[k] = hand
      BY <1>0, <2>2, <3>1, HoldTyped DEF hand
    <3> QED BY <3>1, <3>2 DEF Offered, At
  <2> QED BY <1>1, <2>1, <2>2 DEF Offer
<1> QED BY <1>1 DEF payCash, payScanlinkpay

LEMMA VoidHands ==
  ASSUME MoneyInv, NEW k \in Workers, voidPayment(k) \/ cancelTicket(k)
  PROVE  Moved(k) /\ worker'[k].pc \in Quiet
<1>0. TypeOK /\ HandTypes /\ Free \in Hands
  BY TicketTypes, FreeIsHand DEF MoneyInv
<1>1. CASE voidPayment(k)
  <2>1. PICK p \in Pending, t \in SUBSET Codes :
          Hold(k, [Free EXCEPT !.pc = "close", !.row = p, !.todo = t])
    BY <1>1 DEF voidPayment, Pending, Rows
  <2> DEFINE hand == [Free EXCEPT !.pc = "close", !.row = p, !.todo = t]
  <2>2. hand \in Hands /\ hand.pc = "close"
    BY <1>0 DEF Hands, Free, Steps, Pending, Rows
  <2> HIDE DEF hand
  <2>3. Moved(k) /\ worker'[k] = hand
    BY <1>0, <2>1, <2>2, HoldTyped DEF hand
  <2> QED BY <2>2, <2>3 DEF Quiet, Steps
<1>2. CASE cancelTicket(k)
  BY <1>0, <1>2, GotoTyped DEF cancelTicket, Quiet, Steps
<1> QED BY <1>1, <1>2

LEMMA LookHands ==
  ASSUME MoneyInv, NEW k \in Workers, getTicket(k)
  PROVE  Moved(k) /\ worker'[k].pc = "pending" /\ worker'[k].row = mirror
<1> DEFINE hand == [Free EXCEPT !.pc = "pending", !.total = total, !.row = mirror]
<1>1. hand \in Hands /\ hand.pc = "pending" /\ hand.row = mirror
  BY FreeIsHand DEF Hands, Free, Steps, MoneyInv, TypeOK
<1> HIDE DEF hand
<1>2. Hold(k, hand) /\ HandTypes
  BY TicketTypes DEF getTicket, hand, MoneyInv
<1> QED BY <1>1, <1>2, HoldTyped

\* The steps that end where nothing is known.
LEMMA QuietHands ==
  ASSUME MoneyInv, CodeInv, NEW k \in Workers,
         \/ WriteLine(k) \/ VoidLine(k) \/ ReadLines(k) \/ saveTotals(k) \/ createPaymentRequest(k)
         \/ Unmint(k) \/ Mirror(k) \/ CloseCode(k) \/ DeleteCode(k) \/ Unmirror(k) \/ CancelNow(k)
         \/ AskCode(k) \/ Interrupt(k)
  PROVE  Moved(k) /\ worker'[k].pc \in Quiet
<1>0. TypeOK /\ HandTypes /\ Free \in Hands /\ worker[k] \in Hands
  BY TicketTypes, FreeIsHand DEF MoneyInv, HandTypes
<1>1. {"idle", "sum", "total", "qr", "delete", "unmirror", "ask", "reread"} \subseteq Quiet \cap Steps
  BY DEF Quiet, Steps
<1>2. CASE ReadLines(k)
  <2> DEFINE hand == [Free EXCEPT !.pc = "total", !.total = computeTotals]
  <2>1. computeTotals \in Most
    BY <1>0, TicketTypes
  <2>2. hand \in Hands /\ hand.pc = "total"
    BY <1>0, <2>1 DEF Hands, Free, Steps
  <2> HIDE DEF hand
  <2> QED BY <1>0, <1>1, <1>2, <2>2, HoldTyped DEF hand, ReadLines
<1>3. CASE createPaymentRequest(k)
  <2>1. CASE Finish(k)
    BY <1>0, <1>1, <2>1, FinishTyped
  <2>2. ASSUME NEW p \in Codes, Hold(k, [worker[k] EXCEPT !.pc = "qr", !.row = p])
        PROVE  Moved(k) /\ worker'[k].pc \in Quiet
    <3> DEFINE hand == [worker[k] EXCEPT !.pc = "qr", !.row = p]
    <3>1. hand \in Hands /\ hand.pc = "qr"
      BY <1>0 DEF Hands, Steps
    <3> HIDE DEF hand
    <3> QED BY <1>0, <1>1, <2>2, <3>1, HoldTyped DEF hand
  <2> QED BY <1>3, <2>1, <2>2 DEF createPaymentRequest
<1>4. CASE Unmirror(k) /\ ~ Finish(k)
  <2> DEFINE hand == [worker[k] EXCEPT !.todo = {}]
  <2>1. hand \in Hands /\ hand.pc = worker[k].pc
    BY <1>0 DEF Hands
  <2>2. Hold(k, hand) /\ worker[k].pc = "delete"
    BY <1>4 DEF Unmirror, At
  <2> HIDE DEF hand
  <2> QED BY <1>0, <1>1, <2>1, <2>2, HoldTyped
<1>5. CASE AskCode(k)
  <2>1. PICK p \in worker[k].todo, step \in {"ask", "reread"} :
          Hold(k, [worker[k] EXCEPT !.todo = @ \ {p}, !.pc = step])
    BY <1>5 DEF AskCode
  <2> DEFINE hand == [worker[k] EXCEPT !.todo = @ \ {p}, !.pc = step]
  <2>2. hand \in Hands /\ hand.pc = step
    BY <1>0 DEF Hands, Steps
  <2> HIDE DEF hand
  <2> QED BY <1>0, <1>1, <2>1, <2>2, HoldTyped DEF hand
<1>6. CASE \/ Finish(k) \/ Only(k, "sum", None) \/ Goto(k, "delete") \/ Goto(k, "unmirror")
  BY <1>0, <1>1, <1>6, FinishTyped, OnlyTyped, GotoTyped
<1> QED BY <1>2, <1>3, <1>4, <1>5, <1>6 DEF WriteLine, VoidLine, saveTotals, Unmint, Mirror,
           CloseCode, DeleteCode, Unmirror, CancelNow, Interrupt

LEMMA SyncHands ==
  ASSUME MoneyInv, NEW k \in Workers, syncTotals(k)
  PROVE  Moved(k) /\ Offered(k)' /\ worker'[k].pc \in {"idle", "cash", "mint"}
<1>0. TypeOK /\ worker[k] \in Hands
  BY TicketTypes DEF MoneyInv, HandTypes
<1>1. CASE worker[k].amount = 0
  BY <1>0, <1>1, FinishTyped DEF syncTotals, Offered, At
<1>2. CASE worker[k].amount # 0
  <2>1. PICK step \in {"cash", "mint"} : Goto(k, step)
    BY <1>2 DEF syncTotals
  <2> QED BY <1>0, <1>2, <2>1, GotoTyped DEF Offered, At, Steps
<1> QED BY <1>1, <1>2

LEMMA AddHands ==
  ASSUME MoneyInv, CodeInv, NEW k \in Workers, AddCash(k) \/ AddCode(k)
  PROVE  /\ Moved(k) /\ Offered(k)'
         /\ worker'[k].pc \in {"idle", "settle", "mirror", "unmint"}
         /\ worker'[k].pc = "settle" => AddCash(k) /\ MayAdd(k)
         /\ worker'[k].pc = "mirror" => AddCode(k) /\ MayAdd(k) /\ worker'[k].row = worker[k].row
                                        /\ worker[k].row \in Codes
<1>0. TypeOK
  BY DEF MoneyInv
<1>1. CASE AddCash(k)
  <2>1. Finish(k) \/ (Only(k, "settle", None) /\ MayAdd(k))
    BY <1>1 DEF AddCash
  <2> QED BY <1>0, <1>1, <2>1, FinishTyped, OnlyTyped DEF Offered, At, Steps
<1>2. CASE AddCode(k)
  <2>1. worker[k].row \in Codes
    BY <1>2 DEF AddCode, CodeInv, Knows, At
  <2>2. (Only(k, "mirror", worker[k].row) /\ MayAdd(k)) \/ Only(k, "unmint", worker[k].row)
    BY <1>2 DEF AddCode
  <2> QED BY <1>0, <1>2, <2>1, <2>2, OnlyTyped DEF Offered, At, Steps
<1> QED BY <1>1, <1>2

\* The steps that settle, and take the articles out.
LEMMA SettleHands ==
  ASSUME MoneyInv, NEW k \in Workers,
         \/ trySettleScanlinkpayTicket(k) \/ settleIfFullyPaid(k) \/ Settle(k) \/ SettleLegacy(k)
         \/ deductStockForTicket(k) \/ createMovement(k)
  PROVE  Moved(k) /\ worker'[k].pc \in {"idle", "ask", "legacy", "settle", "items", "deduct"}
<1>0. TypeOK /\ HandTypes /\ Free \in Hands /\ worker[k] \in Hands /\ LineTypes
  BY TicketTypes, FreeIsHand DEF MoneyInv, HandTypes
<1>1. CASE trySettleScanlinkpayTicket(k)
  <2>1. CASE Pending # {}
    <3> DEFINE hand == [worker[k] EXCEPT !.pc = "ask", !.row = None, !.todo = Pending]
    <3>1. hand \in Hands /\ hand.pc = "ask"
      BY <1>0 DEF Hands, Steps, Pending, Rows
    <3> HIDE DEF hand
    <3>2. Hold(k, hand)
      BY <1>1, <2>1 DEF trySettleScanlinkpayTicket, hand
    <3> QED BY <1>0, <3>1, <3>2, HoldTyped
  <2>2. CASE Pending = {}
    <3>1. Only(k, "legacy", worker[k].row) \/ Finish(k)
      BY <1>1, <2>2 DEF trySettleScanlinkpayTicket
    <3>2. worker[k].row \in Lines \cup Codes \cup {None}
      BY <1>0 DEF Hands
    <3> QED BY <1>0, <3>1, <3>2, FinishTyped, OnlyTyped DEF Steps
  <2> QED BY <2>1, <2>2
<1>2. CASE settleIfFullyPaid(k) \/ Settle(k) \/ SettleLegacy(k)
  <2>1. Finish(k) \/ Only(k, "settle", None) \/ Only(k, "items", None)
    BY <1>2 DEF settleIfFullyPaid, Settle, SettleLegacy, ClosePaid
  <2> QED BY <1>0, <2>1, FinishTyped, OnlyTyped DEF Steps
<1>3. CASE deductStockForTicket(k)
  <2> DEFINE took == [l \in Lines |-> IF l \in Active THEN line[l].qty ELSE 0]
             hand == [Free EXCEPT !.pc = "deduct", !.take = took]
  <2>1. took \in [Lines -> 0..MaxQty]
    BY <1>0, SetsAreFinite DEF LineTypes
  <2> HIDE DEF took
  <2>2. hand \in Hands /\ hand.pc = "deduct"
    BY <1>0, <2>1 DEF Hands, Free, Steps
  <2>3. Finish(k) \/ Hold(k, hand)
    BY <1>3 DEF deductStockForTicket, took
  <2> HIDE DEF hand
  <2> QED BY <1>0, <2>2, <2>3, HoldTyped, FinishTyped
<1>4. CASE createMovement(k)
  <2>1. PICK l \in Lines : Finish(k) \/ Hold(k, [worker[k] EXCEPT !.take = [worker[k].take EXCEPT ![l] = 0]])
    BY <1>4 DEF createMovement
  <2> DEFINE took == [worker[k].take EXCEPT ![l] = 0]
             hand == [worker[k] EXCEPT !.take = took]
  <2>2. took \in [Lines -> 0..MaxQty] /\ worker[k].pc = "deduct"
    BY <1>0, <1>4, SetsAreFinite DEF Hands, createMovement, At
  <2>3. Finish(k) \/ Hold(k, hand)
    BY <2>1
  <2> HIDE DEF took
  <2>4. hand \in Hands /\ hand.pc = "deduct"
    BY <1>0, <2>2 DEF Hands
  <2> HIDE DEF hand
  <2> QED BY <1>0, <2>3, <2>4, HoldTyped, FinishTyped
<1> QED BY <1>1, <1>2, <1>3, <1>4

-----------------------------------------------------------------------------
(* What is never asked for: the steps.                                     *)

\* A step of k that leaves the total, the cash and the parts.
LEMMA MoneyKept ==
  ASSUME MoneyInv, CodeInv', NEW k \in Workers, Moved(k), Offered(k)',
         UNCHANGED <<total, peak, cash, code>>,
         mirror' \in Codes \cup {None}, status' \in {"open", "paid", "cancelled"},
         LineTypes', left' \in 0..Shelf, exits' \in [Lines -> Nat]
  PROVE  MoneyInv'
<1>1. TypeOK'
  BY DEF MoneyInv, TypeOK, CodeInv, CodeTypes, HandTypes, LineTypes, Moved
<1>2. NeverAskedForMore'
  BY PartsStay DEF MoneyInv, NeverAskedForMore, SpokenFor
<1>3. \A j \in Workers : Offered(j)'
  BY DEF MoneyInv, Moved, Offered, At
<1> QED BY <1>1, <1>2, <1>3 DEF MoneyInv

LEMMA MoneyApart ==
  ASSUME MoneyInv, CodeInv, CodeInv', NEW k \in Workers,
         \/ Call(k) \/ ReadLines(k) \/ createPaymentRequest(k) \/ Unmint(k) \/ Mirror(k)
         \/ CloseCode(k) \/ Unmirror(k) \/ CancelNow(k) \/ Interrupt(k)
         \/ trySettleScanlinkpayTicket(k) \/ settleIfFullyPaid(k) \/ Settle(k) \/ SettleLegacy(k)
         \/ deductStockForTicket(k)
  PROVE  MoneyInv'
<1>0. TypeOK /\ LineTypes
  BY TicketTypes DEF MoneyInv
<1>1. Moved(k) /\ Offered(k)'
  <2>1. CASE Call(k)
    BY <2>1, LineHands, OfferHands, VoidHands, LookHands, QuietOffer DEF Call, Offered, At
  <2>2. CASE \/ ReadLines(k) \/ createPaymentRequest(k) \/ Unmint(k) \/ Mirror(k)
             \/ CloseCode(k) \/ Unmirror(k) \/ CancelNow(k) \/ Interrupt(k)
    BY <2>2, QuietHands, QuietOffer
  <2>3. CASE \/ trySettleScanlinkpayTicket(k) \/ settleIfFullyPaid(k) \/ Settle(k) \/ SettleLegacy(k)
             \/ deductStockForTicket(k)
    BY <2>3, SettleHands DEF Offered, At
  <2> QED BY <2>1, <2>2, <2>3
<1>2. UNCHANGED <<total, peak, cash, code, line, left, exits>>
  <2>1. CASE Call(k)
    BY <2>1 DEF Call, addItem, updateItemQuantity, voidItem, payCash, payScanlinkpay, voidPayment,
       getTicket, cancelTicket
  <2>2. CASE \/ ReadLines(k) \/ createPaymentRequest(k) \/ Unmint(k) \/ Mirror(k)
             \/ CloseCode(k) \/ Unmirror(k) \/ CancelNow(k) \/ Interrupt(k)
    BY <2>2 DEF ReadLines, createPaymentRequest, Unmint, Mirror, CloseCode, Unmirror, CancelNow, Interrupt
  <2>3. CASE \/ trySettleScanlinkpayTicket(k) \/ settleIfFullyPaid(k) \/ Settle(k) \/ SettleLegacy(k)
             \/ deductStockForTicket(k)
    BY <2>3 DEF trySettleScanlinkpayTicket, settleIfFullyPaid, Settle, SettleLegacy, deductStockForTicket
  <2> QED BY <2>1, <2>2, <2>3
<1>3. mirror' = mirror \/ mirror' \in Codes \cup {None}
  <2>1. CASE Call(k)
    BY <2>1 DEF Call, addItem, updateItemQuantity, voidItem, payCash, payScanlinkpay, voidPayment,
       getTicket, cancelTicket
  <2>2. CASE Mirror(k)
    BY <2>2 DEF Mirror, MoneyInv, Offered
  <2>3. CASE \/ ReadLines(k) \/ createPaymentRequest(k) \/ Unmint(k)
             \/ CloseCode(k) \/ Unmirror(k) \/ CancelNow(k) \/ Interrupt(k)
    BY <2>3 DEF ReadLines, createPaymentRequest, Unmint, CloseCode, Unmirror, CancelNow, Interrupt
  <2>4. CASE \/ trySettleScanlinkpayTicket(k) \/ settleIfFullyPaid(k) \/ Settle(k) \/ SettleLegacy(k)
             \/ deductStockForTicket(k)
    BY <2>4 DEF trySettleScanlinkpayTicket, settleIfFullyPaid, Settle, SettleLegacy, deductStockForTicket
  <2> QED BY <2>1, <2>2, <2>3, <2>4
<1>4. status' = status \/ status' \in {"paid", "cancelled"}
  <2>1. CASE Call(k)
    BY <2>1 DEF Call, addItem, updateItemQuantity, voidItem, payCash, payScanlinkpay, voidPayment,
       getTicket, cancelTicket
  <2>2. CASE \/ ReadLines(k) \/ createPaymentRequest(k) \/ Unmint(k) \/ Mirror(k)
             \/ CloseCode(k) \/ Unmirror(k) \/ CancelNow(k) \/ Interrupt(k)
    BY <2>2 DEF ReadLines, createPaymentRequest, Unmint, Mirror, CloseCode, Unmirror, CancelNow, Interrupt
  <2>3. CASE \/ trySettleScanlinkpayTicket(k) \/ settleIfFullyPaid(k) \/ Settle(k) \/ SettleLegacy(k)
             \/ deductStockForTicket(k)
    BY <2>3 DEF trySettleScanlinkpayTicket, settleIfFullyPaid, Settle, SettleLegacy, ClosePaid,
       deductStockForTicket
  <2> QED BY <2>1, <2>2, <2>3
<1>5. /\ mirror' \in Codes \cup {None} /\ status' \in {"open", "paid", "cancelled"}
      /\ LineTypes' /\ left' \in 0..Shelf /\ exits' \in [Lines -> Nat]
  BY <1>0, <1>2, <1>3, <1>4 DEF TypeOK, LineTypes
<1> QED BY <1>1, <1>2, <1>5, MoneyKept

LEMMA MoneyOfLines ==
  ASSUME MoneyInv, CodeInv, CodeInv', NEW k \in Workers,
         WriteLine(k) \/ VoidLine(k) \/ createMovement(k)
  PROVE  MoneyInv'
<1>0. TypeOK /\ LineTypes /\ Offered(k) /\ HandTypes
  BY TicketTypes DEF MoneyInv
<1>1. Moved(k) /\ Offered(k)'
  BY QuietHands, QuietOffer, SettleHands DEF Offered, At
<1>2. UNCHANGED <<status, total, mirror, peak, cash, code>>
  BY DEF WriteLine, VoidLine, createMovement
<1>3. LineTypes' /\ left' \in 0..Shelf /\ exits' \in [Lines -> Nat]
  <2>1. CASE WriteLine(k)
    <3>1. PICK l \in Lines :
            \/ line' = [line EXCEPT ![l].qty = worker[k].amount]
            \/ line' = [line EXCEPT ![l] = [qty |-> worker[k].amount, active |-> TRUE]]
      BY <1>0, <2>1 DEF WriteLine, Offered, Unused
    <3>2. worker[k].amount \in 0..MaxQty /\ UNCHANGED <<left, exits>>
      BY <1>0, <2>1, SetsAreFinite DEF WriteLine, Offered
    <3>3. LineTypes'
      <4>1. CASE line' = [line EXCEPT ![l].qty = worker[k].amount]
        BY <1>0, <3>2, <4>1 DEF LineTypes
      <4>2. CASE line' = [line EXCEPT ![l] = [qty |-> worker[k].amount, active |-> TRUE]]
        BY <1>0, <3>2, <4>2 DEF LineTypes
      <4> QED BY <3>1, <4>1, <4>2
    <3> QED BY <1>0, <3>2, <3>3 DEF TypeOK
  <2>2. CASE VoidLine(k)
    <3>1. LineTypes'
      BY <1>0, <2>2 DEF VoidLine, LineTypes
    <3> QED BY <1>0, <2>2, <3>1 DEF TypeOK, VoidLine
  <2>3. CASE createMovement(k)
    <3>1. PICK l \in Lines :
            \/ worker[k].take[l] <= left /\ left' = left - worker[k].take[l]
               /\ exits' = [exits EXCEPT ![l] = @ + 1]
            \/ UNCHANGED <<left, exits>>
      BY <2>3 DEF createMovement
    <3>2. worker[k].take[l] \in 0..MaxQty
      BY <1>0 DEF HandTypes, Hands
    <3>3. left' \in 0..Shelf /\ exits' \in [Lines -> Nat]
      BY <1>0, <3>1, <3>2, SetsAreFinite, PosAssumption DEF TypeOK
    <3> QED BY <1>0, <2>3, <3>3 DEF createMovement, LineTypes
  <2> QED BY <2>1, <2>2, <2>3
<1>4. mirror \in Codes \cup {None} /\ status \in {"open", "paid", "cancelled"}
  BY <1>0 DEF TypeOK
<1> QED BY <1>1, <1>2, <1>3, <1>4, MoneyKept

\* The total is written over whatever it was: it was never more than it has been.
LEMMA MoneyOfTotals ==
  ASSUME MoneyInv, CodeInv, CodeInv', NEW k \in Workers, saveTotals(k) \/ syncTotals(k)
  PROVE  MoneyInv'
<1>0. TypeOK /\ HandTypes /\ Most \subseteq Nat
  BY TicketTypes DEF MoneyInv
<1>1. Moved(k) /\ Offered(k)'
  BY QuietHands, QuietOffer, SyncHands
<1>2. /\ UNCHANGED <<status, mirror, line, cash, code, left, exits>>
      /\ total' = worker[k].total /\ peak' = IF worker[k].total > peak THEN worker[k].total ELSE peak
  BY DEF saveTotals, syncTotals, SetTotal
<1>3. worker[k].total \in Most /\ peak \in Most
  BY <1>0 DEF HandTypes, Hands, TypeOK
<1>4. total' \in Most /\ peak' \in Most /\ total' <= peak' /\ peak <= peak'
  <2>1. worker[k].total \in Nat /\ peak \in Nat
    BY <1>0, <1>3
  <2> QED BY <1>2, <1>3, <2>1
<1>5. TypeOK'
  BY <1>0, <1>1, <1>2, <1>4 DEF TypeOK, CodeInv, CodeTypes, HandTypes, Moved
<1>6. NeverAskedForMore'
  <2>1. SpokenFor' = SpokenFor
    BY <1>2, PartsStay DEF SpokenFor
  <2>2. SpokenFor <= peak /\ SpokenFor \in Nat
    BY PaidIsSpokenFor DEF MoneyInv, NeverAskedForMore
  <2>3. SpokenFor <= peak'
    <3>1. peak \in Nat /\ peak' \in Nat
      BY <1>0, <1>3, <1>4
    <3> QED BY <1>4, <2>2, <3>1
  <2> QED BY <2>1, <2>3 DEF NeverAskedForMore
<1>7. \A j \in Workers : Offered(j)'
  BY <1>1 DEF MoneyInv, Moved, Offered, At
<1> QED BY <1>4, <1>5, <1>6, <1>7 DEF MoneyInv

\* A payment is added under the lock of the ticket, within what is left of its total.
LEMMA MoneyOfCash ==
  ASSUME MoneyInv, CodeInv, CodeInv', NEW k \in Workers, AddCash(k)
  PROVE  MoneyInv' /\ cash \in Nat /\ cash' \in Nat /\ cash <= cash' /\ (MayAdd(k) => cash' > 0)
<1>0. TypeOK /\ HandTypes /\ Most \subseteq Nat /\ Offered(k)
  BY TicketTypes DEF MoneyInv
<1>1. Moved(k) /\ Offered(k)'
  BY AddHands
<1>2. /\ UNCHANGED <<status, total, mirror, peak, line, code, request, left, exits>>
      /\ (MayAdd(k) /\ cash' = cash + worker[k].amount) \/ (~ MayAdd(k) /\ cash' = cash)
  BY DEF AddCash
<1>3. worker[k].amount \in Most \ {0} /\ total \in Most /\ peak \in Most /\ cash \in Most
  BY <1>0 DEF HandTypes, Hands, TypeOK, Offered, AddCash
<1>4. SpokenFor = cash + Sum(Rows) /\ Sum(Rows) \in Nat /\ SpokenFor \in Nat
      /\ SpokenFor <= peak /\ total <= peak
  BY PaidIsSpokenFor DEF SpokenFor, MoneyInv, NeverAskedForMore
<1>5. SpokenFor' = cash' + Sum(Rows)
  BY <1>2, PartsStay DEF SpokenFor
<1> DEFINE n == worker[k].amount
           parts == Sum(Rows)
<1>a. n \in Nat \ {0} /\ total \in Nat /\ peak \in Nat /\ cash \in Nat /\ parts \in Nat
  BY <1>0, <1>3, <1>4
<1>6. cash' \in Most /\ SpokenFor' <= peak /\ cash <= cash' /\ (MayAdd(k) => cash' > 0)
  <2>1. CASE MayAdd(k) /\ cash' = cash + worker[k].amount
    <3>1. n <= total - (cash + parts) /\ cash' = cash + n
      BY <1>4, <2>1 DEF MayAdd
    <3> HIDE DEF n, parts
    <3>2. cash' + parts <= total /\ cash' \in Nat /\ cash' > 0 /\ cash' <= total /\ cash <= cash'
      BY <1>a, <3>1
    <3>3. cash' \in Most
      BY <1>3, <3>2, SetsAreFinite DEF Most
    <3>4. cash' + parts <= peak
      <4>1. total <= peak /\ total \in Nat /\ peak \in Nat /\ parts \in Nat
        BY <1>4, <1>a
      <4>2. cash' + parts <= total /\ cash' \in Nat
        BY <3>2
      <4>3. \A x, a, b, c \in Nat : x + a <= b /\ b <= c => x + a <= c
        OBVIOUS
      <4> QED BY <4>1, <4>2, <4>3
    <3> QED BY <1>5, <3>2, <3>3, <3>4 DEF parts
  <2>2. CASE ~ MayAdd(k) /\ cash' = cash
    BY <1>a, <1>3, <1>4, <1>5, <2>2
  <2> QED BY <1>2, <2>1, <2>2
<1>7. TypeOK'
  BY <1>0, <1>1, <1>2, <1>6 DEF TypeOK, CodeInv, CodeTypes, HandTypes, Moved
<1>8. NeverAskedForMore' /\ total' <= peak'
  BY <1>2, <1>4, <1>6 DEF NeverAskedForMore
<1>9. \A j \in Workers : Offered(j)'
  BY <1>1 DEF MoneyInv, Moved, Offered, At
<1>10. cash \in Nat /\ cash' \in Nat
  BY <1>0, <1>3, <1>6
<1> QED BY <1>6, <1>7, <1>8, <1>9, <1>10 DEF MoneyInv

LEMMA MoneyOfParts ==
  ASSUME MoneyInv, CodeInv, CodeInv', NEW k \in Workers, AddCode(k) \/ DeleteCode(k) \/ AskCode(k)
  PROVE  MoneyInv'
<1>0. TypeOK /\ HandTypes /\ Most \subseteq Nat /\ 0 \in Most /\ CodeTypes /\ CodeTypes' /\ Knows(k)
  BY TicketTypes DEF MoneyInv, CodeInv
<1>1. Moved(k) /\ Offered(k)'
  BY AddHands, QuietHands, QuietOffer
<1>2. UNCHANGED <<status, total, mirror, peak, line, cash, left, exits>>
  BY DEF AddCode, DeleteCode, AskCode
<1>3. worker[k].amount \in Most /\ total \in Most /\ peak \in Most /\ cash \in Most
  BY <1>0 DEF HandTypes, Hands, TypeOK
<1>4. SpokenFor = cash + Sum(Rows) /\ Sum(Rows) \in Nat /\ SpokenFor \in Nat
      /\ SpokenFor <= peak /\ total <= peak
  BY PaidIsSpokenFor DEF SpokenFor, MoneyInv, NeverAskedForMore
<1>5. SpokenFor' = cash + Sum(Rows)' /\ Sum(Rows)' \in Nat
  <2>1. PartsCount'
    BY PartsAreCounts, PTL
  <2>2. Rows' \in SUBSET Codes
    BY DEF Rows
  <2> QED BY <1>0, <1>2, <2>1, <2>2 DEF SpokenFor, PartsCount
<1> DEFINE n == worker[k].amount
           before == Sum(Rows)
           after == Sum(Rows)'
<1>a. n \in Nat /\ total \in Nat /\ peak \in Nat /\ cash \in Nat /\ before \in Nat /\ after \in Nat
  BY <1>0, <1>3, <1>4, <1>5
<1>6. code' \in [Codes -> [amount: Most, sure: BOOLEAN]] /\ SpokenFor' <= peak
  <2>1. CASE code' = code
    <3>1. SpokenFor' = SpokenFor
      BY <1>2, <2>1, PartsStay DEF SpokenFor
    <3> QED BY <1>0, <1>4, <2>1, <3>1 DEF TypeOK
  <2>2. CASE AddCode(k) /\ code' # code
    <3>1. PICK p \in Codes : p = worker[k].row
      BY <1>0, <2>2 DEF AddCode, Knows, At
    <3>2. /\ MayAdd(k) /\ code[p].amount = 0
          /\ code' = [code EXCEPT ![p] = [amount |-> worker[k].amount, sure |-> FALSE]]
      BY <1>0, <2>2, <3>1 DEF AddCode, Knows, At
    <3>3. code' \in [Codes -> [amount: Most, sure: BOOLEAN]]
      BY <1>0, <1>3, <3>2 DEF TypeOK
    <3>4. code'[p].amount = worker[k].amount /\ \A q \in Codes \ {p} : code'[q] = code[q]
      BY <1>0, <3>2 DEF CodeTypes
    <3>5. Sum(Rows)' <= Sum(Rows) + worker[k].amount
      BY <1>0, <3>2, <3>4, OnePartMore
    <3>6. n <= total - (cash + before) /\ after <= before + n
      BY <1>4, <3>2, <3>5 DEF MayAdd
    <3> HIDE DEF n, before, after
    <3>7. cash + after <= peak
      BY <1>a, <1>4, <3>6
    <3> QED BY <1>5, <3>3, <3>7 DEF after
  <2>3. CASE DeleteCode(k) \/ AskCode(k)
    <3>1. PICK p \in Codes :
            \/ code' = [code EXCEPT ![p] = [amount |-> 0, sure |-> FALSE]]
            \/ code' = [code EXCEPT ![p].sure = TRUE]
            \/ code' = code
      BY <1>0, <2>3 DEF DeleteCode, AskCode, Knows, At
    <3>2. code' \in [Codes -> [amount: Most, sure: BOOLEAN]]
      <4>1. code \in [Codes -> [amount: Most, sure: BOOLEAN]]
        BY <1>0 DEF TypeOK
      <4>2. [amount |-> 0, sure |-> FALSE] \in [amount: Most, sure: BOOLEAN]
        BY <1>0
      <4>3. CASE code' = [code EXCEPT ![p] = [amount |-> 0, sure |-> FALSE]]
        BY <4>1, <4>2, <4>3
      <4>4. CASE code' = [code EXCEPT ![p].sure = TRUE] \/ code' = code
        BY <4>1, <4>4
      <4> QED BY <3>1, <4>3, <4>4
    <3>3. \A q \in Codes : code'[q].amount <= code[q].amount
      BY <1>0, <3>1 DEF CodeTypes
    <3>4. Sum(Rows)' <= Sum(Rows)
      BY <1>0, <3>3, PartsDoNotGrow
    <3>5. cash + before <= peak /\ after <= before
      BY <1>4, <3>4
    <3> HIDE DEF before, after
    <3>6. cash + after <= peak
      BY <1>a, <3>5
    <3> QED BY <1>5, <3>2, <3>6 DEF after
  <2> QED BY <2>1, <2>2, <2>3
<1>7. TypeOK'
  BY <1>0, <1>1, <1>2, <1>6 DEF TypeOK, CodeTypes, HandTypes, Moved
<1>8. NeverAskedForMore' /\ total' <= peak'
  BY <1>2, <1>4, <1>6 DEF NeverAskedForMore
<1>9. \A j \in Workers : Offered(j)'
  BY <1>1 DEF MoneyInv, Moved, Offered, At
<1> QED BY <1>7, <1>8, <1>9 DEF MoneyInv

LEMMA MoneyInvInit == Init => MoneyInv
<1> SUFFICES ASSUME Init  PROVE MoneyInv
  OBVIOUS
<1>0. 0 \in Most /\ 0 \in 0..MaxQty /\ Shelf \in 0..Shelf
  BY SetsAreFinite, PosAssumption DEF Most
<1>1. Free \in Hands
  BY <1>0 DEF Free, Hands, Steps
<1>2. TypeOK
  BY <1>0, <1>1 DEF Init, TypeOK, Requests
<1>3. NeverAskedForMore
  <2>1. Rows = {} /\ CodeTypes
    BY <1>2, SetsAreFinite DEF Init, Rows, CodeTypes, TypeOK, Most
  <2>2. Sum({}) = 0
    BY <2>1, PartsAddUp
  <2> QED BY <2>1, <2>2 DEF Init, NeverAskedForMore, SpokenFor
<1>4. \A k \in Workers : Offered(k)
  BY DEF Init, Offered, At, Free
<1> QED BY <1>2, <1>3, <1>4 DEF MoneyInv, Init

LEMMA MoneyInvStep == CodeInv /\ MoneyInv /\ [Next]_vars => MoneyInv'
<1> SUFFICES ASSUME CodeInv, MoneyInv, [Next]_vars  PROVE MoneyInv'
  OBVIOUS
<1>0. CodeInv'
  BY CodeInvStep
<1>1. ASSUME NEW k \in Workers, Call(k) \/ Write(k) \/ Poll(k) \/ Interrupt(k)  PROVE MoneyInv'
  BY <1>0, <1>1, MoneyApart, MoneyOfLines, MoneyOfTotals, MoneyOfCash, MoneyOfParts DEF Write, Poll
<1>2. CASE \/ \E p \in Codes : ClaimCode(p) \/ CodeFailed(p) \/ CodePaid(p) \/ markExpired(p)
           \/ SoldElsewhere \/ UNCHANGED vars
  <2>1. UNCHANGED <<status, total, mirror, peak, line, cash, code, exits, worker>>
    BY <1>2 DEF ClaimCode, CodeFailed, CodePaid, markExpired, Ask, SoldElsewhere, vars
  <2>2. left' \in 0..Shelf
    BY <1>2, PosAssumption DEF ClaimCode, CodeFailed, CodePaid, markExpired, Ask, SoldElsewhere,
       vars, MoneyInv, TypeOK
  <2>3. TypeOK'
    BY <1>0, <2>1, <2>2 DEF MoneyInv, TypeOK, CodeInv, CodeTypes
  <2>4. NeverAskedForMore' /\ total' <= peak'
    BY <2>1, PartsStay DEF MoneyInv, NeverAskedForMore, SpokenFor
  <2>5. \A j \in Workers : Offered(j)'
    BY <2>1 DEF MoneyInv, Offered, At
  <2> QED BY <2>3, <2>4, <2>5 DEF MoneyInv
<1> QED BY <1>1, <1>2 DEF Next

-----------------------------------------------------------------------------
(* What leaves the shelf: the invariant.                                   *)

\* Some of the ticket is paid.
Backed == cash > 0 \/ Confirmed # {}

\* A QR that was shown has its part on the ticket, or was closed; one that was found
\* not to be waited for is confirmed, or was closed.
Shown(p) == code[p].amount > 0 \/ request[p] = "CANCELLED"
Counted(p) == code[p].sure \/ request[p] = "CANCELLED"

\* The request that takes the articles out.
TakesOut(k) == worker[k].pc \in {"items", "deduct"}

Seen(k) ==
  /\ At(k, "mirror") => Shown(worker[k].row)
  /\ At(k, "pending") /\ worker[k].row # None => worker[k].row \in Codes /\ Shown(worker[k].row)
  /\ At(k, "legacy") => worker[k].row \in Codes /\ Counted(worker[k].row)
  /\ worker[k].pc \in {"settle", "items", "deduct"} => Backed
  /\ At(k, "items") => \A l \in Lines : exits[l] = 0
  /\ At(k, "deduct") => \A l \in Lines : worker[k].take[l] > 0 => exits[l] = 0

GoodsInv ==
  /\ mirror # None => Shown(mirror)
  /\ \A k \in Workers : Seen(k)
  /\ \A j, k \in Workers : TakesOut(j) /\ TakesOut(k) => j = k
  /\ status = "open" => (\A k \in Workers : ~ TakesOut(k)) /\ \A l \in Lines : exits[l] = 0
  /\ StockLeavesOnce /\ GoodsFollowMoney

\* What no step undoes: the money that was paid, a QR that was shown or closed.
Kept ==
  /\ Backed => Backed'
  /\ \A p \in Codes : Shown(p) => Shown(p)'
  /\ \A p \in Codes : Counted(p) => Counted(p)'

LEMMA CashIsKept ==
  ASSUME CodeInv, MoneyInv, [Next]_vars
  PROVE  cash > 0 => cash' > 0
<1>1. ASSUME NEW k \in Workers, AddCash(k)  PROVE cash > 0 => cash' > 0
  <2>1. cash \in Nat /\ cash' \in Nat /\ cash <= cash'
    BY <1>1, CodeInvStep, MoneyOfCash
  <2> QED BY <2>1
<1>2. ASSUME NEW k \in Workers, Call(k)  PROVE cash' = cash
  BY <1>2 DEF Call, addItem, updateItemQuantity, voidItem, payCash, payScanlinkpay, voidPayment,
     getTicket, cancelTicket
<1>3. ASSUME NEW k \in Workers, Write(k), ~ AddCash(k)  PROVE cash' = cash
  BY <1>3 DEF Write, WriteLine, VoidLine, ReadLines, saveTotals, syncTotals,
     createPaymentRequest, AddCode, Unmint, Mirror, CloseCode, DeleteCode, Unmirror, CancelNow
<1>4. ASSUME NEW k \in Workers, Poll(k) \/ Interrupt(k)  PROVE cash' = cash
  BY <1>4 DEF Poll, Interrupt, trySettleScanlinkpayTicket, AskCode, settleIfFullyPaid, Settle,
     SettleLegacy, deductStockForTicket, createMovement
<1>5. ASSUME NEW q \in Codes, ClaimCode(q) \/ CodeFailed(q) \/ CodePaid(q) \/ markExpired(q)
      PROVE  cash' = cash
  BY <1>5 DEF ClaimCode, CodeFailed, CodePaid, markExpired, Ask
<1> QED BY <1>1, <1>2, <1>3, <1>4, <1>5 DEF Next, SoldElsewhere, vars

LEMMA ClosedIsKept ==
  ASSUME CodeInv, [Next]_vars, NEW p \in Codes, request[p] = "CANCELLED"
  PROVE  request'[p] = "CANCELLED"
<1>0. CodeTypes
  BY DEF CodeInv
<1>1. ASSUME NEW q \in Codes, NEW to, request[q] # "CANCELLED", request' = [request EXCEPT ![q] = to]
      PROVE  request'[p] = "CANCELLED"
  BY <1>0, <1>1 DEF CodeTypes
<1>2. ASSUME NEW k \in Workers, Call(k)  PROVE request' = request
  BY <1>2 DEF Call, addItem, updateItemQuantity, voidItem, payCash, payScanlinkpay, voidPayment,
     getTicket, cancelTicket
<1>3. ASSUME NEW k \in Workers, createPaymentRequest(k) \/ Unmint(k) \/ CloseCode(k)
      PROVE  request'[p] = "CANCELLED"
  <2>1. Unmint(k) \/ CloseCode(k) => worker[k].row \in Codes
    BY DEF Unmint, CloseCode, CodeInv, Knows, At
  <2>2. \/ request' = request
        \/ \E q \in Codes, to \in Requests : request[q] # "CANCELLED" /\ request' = [request EXCEPT ![q] = to]
    BY <1>3, <2>1 DEF createPaymentRequest, Unmint, CloseCode, Requests
  <2> QED BY <1>1, <2>2
<1>4. ASSUME NEW k \in Workers, Write(k), ~ createPaymentRequest(k), ~ Unmint(k), ~ CloseCode(k)
      PROVE  request' = request
  BY <1>4 DEF Write, WriteLine, VoidLine, ReadLines, saveTotals, syncTotals, AddCash, AddCode,
     Mirror, DeleteCode, Unmirror, CancelNow
<1>5. ASSUME NEW k \in Workers, Poll(k) \/ Interrupt(k)  PROVE request' = request
  BY <1>5 DEF Poll, Interrupt, trySettleScanlinkpayTicket, AskCode, settleIfFullyPaid, Settle,
     SettleLegacy, deductStockForTicket, createMovement
<1>6. ASSUME NEW q \in Codes, ClaimCode(q) \/ CodeFailed(q) \/ CodePaid(q) \/ markExpired(q)
      PROVE  request'[p] = "CANCELLED"
  BY <1>1, <1>6 DEF ClaimCode, CodeFailed, CodePaid, markExpired, Ask
<1> QED BY <1>2, <1>3, <1>4, <1>5, <1>6 DEF Next, SoldElsewhere, vars

LEMMA NothingIsUndone ==
  ASSUME CodeInv, MoneyInv, [Next]_vars
  PROVE  Kept
<1>0. CodeInv' /\ CodeTypes /\ CodeTypes' /\ PaidQrHasItsRow /\ RowsFit
  BY CodeInvStep DEF CodeInv
<1>1. \A p \in Codes : code[p].sure => code'[p] = code[p]
  BY ConfirmedKept
<1>2. Confirmed \subseteq Confirmed'
  BY <1>1 DEF Confirmed, Rows
<1>3. Backed => Backed'
  BY <1>2, CashIsKept DEF Backed
<1>4. \A p \in Codes : Counted(p) => Counted(p)'
  BY <1>1, ClosedIsKept DEF Counted
<1>5. ASSUME NEW p \in Codes, Shown(p)  PROVE Shown(p)'
  <2>1. CASE request[p] = "CANCELLED"
    BY <2>1, ClosedIsKept DEF Shown
  <2>2. CASE code' = code
    BY <1>5, <2>2, ClosedIsKept DEF Shown
  <2>3. CASE request[p] # "CANCELLED" /\ code' # code
    <3>1. PICK k \in Workers : AddCode(k) \/ DeleteCode(k) \/ AskCode(k)
      BY <2>3, WhoWritesParts
    <3>2. code[p].amount > 0 /\ Knows(k)
      BY <1>5, <2>3 DEF Shown, CodeInv
    <3>3. CASE AddCode(k) \/ DeleteCode(k)
      <4>1. worker[k].row # p
        BY <2>3, <3>2, <3>3 DEF AddCode, DeleteCode, Knows, At
      <4>2. code'[p] = code[p]
        BY <1>0, <3>3, <4>1 DEF AddCode, DeleteCode, CodeTypes
      <4> QED BY <3>2, <4>2 DEF Shown
    <3>4. CASE AskCode(k)
      <4>1. PICK q \in Codes : code' = [code EXCEPT ![q].sure = TRUE] \/ code' = code
        BY <3>2, <3>4 DEF AskCode, Knows, At
      <4>2. code'[p].amount = code[p].amount
        BY <1>0, <4>1 DEF CodeTypes
      <4> QED BY <3>2, <4>2 DEF Shown
    <3> QED BY <3>1, <3>3, <3>4
  <2> QED BY <2>1, <2>2, <2>3
<1> QED BY <1>3, <1>4, <1>5 DEF Kept

-----------------------------------------------------------------------------
(* What leaves the shelf: the steps.                                       *)

LEMMA QuietSeen ==
  ASSUME NEW k \in Workers, worker'[k].pc \in Quiet \cup {"line", "void", "cash"}
  PROVE  Seen(k)' /\ ~ TakesOut(k)'
BY DEF Seen, TakesOut, At, Quiet, Steps

\* What the other requests have seen stays true.
LEMMA OthersSee ==
  ASSUME MoneyInv, GoodsInv, Kept, NEW k \in Workers, Moved(k), NEW j \in Workers \ {k},
         exits' = exits \/ ~ TakesOut(j)
  PROVE  Seen(j)' /\ (TakesOut(j)' <=> TakesOut(j))
<1>1. worker'[j] = worker[j] /\ Seen(j) /\ (At(j, "mirror") => worker[j].row \in Codes)
  BY DEF Moved, GoodsInv, MoneyInv, Offered
<1>2. At(j, "mirror")' => Shown(worker[j].row)'
  BY <1>1 DEF Seen, At, Kept
<1>3. At(j, "pending")' /\ worker[j].row # None => worker[j].row \in Codes /\ Shown(worker[j].row)'
  BY <1>1 DEF Seen, At, Kept
<1>4. At(j, "legacy")' => worker[j].row \in Codes /\ Counted(worker[j].row)'
  BY <1>1 DEF Seen, At, Kept
<1>5. worker'[j].pc \in {"settle", "items", "deduct"} => Backed'
  BY <1>1 DEF Seen, Kept
<1>6. /\ At(j, "items")' => \A l \in Lines : exits'[l] = 0
      /\ At(j, "deduct")' => \A l \in Lines : worker'[j].take[l] > 0 => exits'[l] = 0
  BY <1>1 DEF Seen, At, TakesOut
<1> QED BY <1>1, <1>2, <1>3, <1>4, <1>5, <1>6 DEF Seen, TakesOut, At, Shown, Counted

\* A step of k that takes nothing out and opens nothing.
LEMMA GoodsKept ==
  ASSUME MoneyInv, GoodsInv, Kept, NEW k \in Workers, Moved(k), Seen(k)', TakesOut(k)' => TakesOut(k),
         exits' = exits, status' = "open" => status = "open",
         mirror' = mirror \/ mirror' = None \/ \E p \in Codes : mirror' = p /\ Shown(p)'
  PROVE  GoodsInv'
<1>1. \A j \in Workers : Seen(j)' /\ (TakesOut(j)' => TakesOut(j))
  BY OthersSee
<1>2. mirror' # None => Shown(mirror)'
  BY DEF GoodsInv, MoneyInv, TypeOK, Kept, Shown
<1>3. StockLeavesOnce' /\ GoodsFollowMoney'
  BY DEF GoodsInv, StockLeavesOnce, GoodsFollowMoney, Kept, Backed
<1> QED BY <1>1, <1>2, <1>3 DEF GoodsInv

LEMMA GoodsApart ==
  ASSUME CodeInv, MoneyInv, GoodsInv, Kept, NEW k \in Workers,
         \/ addItem(k) \/ updateItemQuantity(k) \/ voidItem(k) \/ payCash(k) \/ payScanlinkpay(k)
         \/ voidPayment(k) \/ cancelTicket(k) \/ WriteLine(k) \/ VoidLine(k) \/ ReadLines(k)
         \/ saveTotals(k) \/ syncTotals(k) \/ createPaymentRequest(k) \/ Unmint(k) \/ Mirror(k)
         \/ CloseCode(k) \/ DeleteCode(k) \/ Unmirror(k) \/ CancelNow(k) \/ AskCode(k) \/ Interrupt(k)
  PROVE  GoodsInv'
<1>1. Moved(k) /\ worker'[k].pc \in Quiet \cup {"line", "void", "cash"}
  <2>1. {"syncCash", "syncQr", "mint", "idle"} \subseteq Quiet
    BY DEF Quiet, Steps
  <2> QED BY <2>1, LineHands, OfferHands, VoidHands, QuietHands, SyncHands
<1>2. /\ exits' = exits
      /\ status' = "open" => status = "open"
      /\ mirror' = mirror \/ mirror' = None \/ (Mirror(k) /\ mirror' = worker[k].row)
  BY DEF addItem, updateItemQuantity, voidItem, payCash, payScanlinkpay, voidPayment, cancelTicket,
     WriteLine, VoidLine, ReadLines, saveTotals, syncTotals, createPaymentRequest, Unmint, Mirror,
     CloseCode, DeleteCode, Unmirror, CancelNow, AskCode, Interrupt
<1>3. Mirror(k) => worker[k].row \in Codes /\ Shown(worker[k].row)
  BY DEF Mirror, MoneyInv, Offered, GoodsInv, Seen
<1>4. mirror' = mirror \/ mirror' = None \/ \E p \in Codes : mirror' = p /\ Shown(p)'
  BY <1>2, <1>3 DEF Kept
<1> QED BY <1>1, <1>2, <1>4, QuietSeen, GoodsKept

LEMMA GoodsLook ==
  ASSUME CodeInv, MoneyInv, GoodsInv, Kept, NEW k \in Workers, getTicket(k)
  PROVE  GoodsInv'
<1>1. Moved(k) /\ worker'[k].pc = "pending" /\ worker'[k].row = mirror
  BY LookHands
<1>2. UNCHANGED <<exits, status, mirror>>
  BY DEF getTicket
<1>3. mirror # None => mirror \in Codes /\ Shown(mirror)'
  BY <1>2 DEF GoodsInv, MoneyInv, TypeOK, Kept, Shown
<1>4. Seen(k)' /\ ~ TakesOut(k)'
  BY <1>1, <1>2, <1>3 DEF Seen, TakesOut, At, Shown
<1> QED BY <1>1, <1>2, <1>4, GoodsKept

\* A part is shown once its row is written, and cash is recorded before it settles.
LEMMA GoodsPay ==
  ASSUME CodeInv, MoneyInv, GoodsInv, Kept, CodeInv', NEW k \in Workers, AddCash(k) \/ AddCode(k)
  PROVE  GoodsInv'
<1>1. /\ Moved(k) /\ worker'[k].pc \in {"idle", "settle", "mirror", "unmint"}
      /\ worker'[k].pc = "settle" => AddCash(k) /\ MayAdd(k)
      /\ worker'[k].pc = "mirror" => AddCode(k) /\ MayAdd(k) /\ worker'[k].row = worker[k].row
                                     /\ worker[k].row \in Codes
  BY AddHands
<1>2. UNCHANGED <<exits, status, mirror>>
  BY DEF AddCash, AddCode
<1>3. worker'[k].pc = "settle" => Backed'
  BY <1>1, MoneyOfCash DEF Backed
<1>4. ASSUME worker'[k].pc = "mirror"  PROVE Shown(worker[k].row)'
  <2>1. PICK p \in Codes : p = worker[k].row
    BY <1>1, <1>4
  <2>2. code' = [code EXCEPT ![p] = [amount |-> worker[k].amount, sure |-> FALSE]]
    BY <1>1, <1>4, <2>1 DEF AddCode
  <2>3. worker[k].amount \in Nat \ {0} /\ CodeTypes
    BY <1>1, <1>4 DEF AddCode, At, CodeInv, Knows
  <2>4. worker'[k].row = p /\ code'[p].amount > 0
    BY <1>1, <1>4, <2>1, <2>2, <2>3 DEF CodeTypes
  <2> QED BY <1>1, <1>4, <2>1, <2>4 DEF Shown
<1>5. Seen(k)' /\ ~ TakesOut(k)'
  BY <1>1, <1>3, <1>4 DEF Seen, TakesOut, At, Shown
<1> QED BY <1>1, <1>2, <1>5, GoodsKept

\* A ticket is settled for its confirmed parts, or for its own QR when no part waits.
LEMMA GoodsDecide ==
  ASSUME CodeInv, MoneyInv, GoodsInv, Kept, NEW k \in Workers,
         trySettleScanlinkpayTicket(k) \/ settleIfFullyPaid(k)
  PROVE  GoodsInv'
<1>0. TypeOK /\ HandTypes /\ worker[k] \in Hands /\ Most \subseteq Nat
  BY TicketTypes DEF MoneyInv, HandTypes
<1>1. Moved(k) /\ worker'[k].pc \in {"idle", "ask", "legacy", "settle", "items", "deduct"}
  BY SettleHands
<1>2. UNCHANGED <<exits, status, mirror>>
  BY DEF trySettleScanlinkpayTicket, settleIfFullyPaid
<1>3. CASE trySettleScanlinkpayTicket(k)
  <2>1. CASE Pending = {} /\ worker[k].row # None
    <3>1. Only(k, "legacy", worker[k].row) /\ At(k, "pending")
      BY <1>3, <2>1 DEF trySettleScanlinkpayTicket
    <3>2. PICK p \in Codes : p = worker[k].row /\ Shown(p)
      BY <2>1, <3>1 DEF GoodsInv, Seen
    <3>3. Counted(p)
      BY <2>1, <3>2 DEF Shown, Counted, Pending, Confirmed, Rows
    <3>4. worker'[k].pc = "legacy" /\ worker'[k].row = p
      BY <1>0, <3>1, <3>2, OnlyTyped DEF Steps
    <3>5. Counted(p)'
      BY <3>3 DEF Kept
    <3>6. Seen(k)' /\ ~ TakesOut(k)'
      BY <3>4, <3>5 DEF Seen, TakesOut, At, Counted
    <3> QED BY <1>1, <1>2, <3>6, GoodsKept
  <2>2. CASE Pending # {} \/ worker[k].row = None
    <3>1. worker'[k].pc \in {"ask", "idle"}
      <4>1. CASE Pending # {}
        <5> DEFINE hand == [worker[k] EXCEPT !.pc = "ask", !.row = None, !.todo = Pending]
        <5>1. Hold(k, hand) /\ hand.pc = "ask" /\ hand \in Hands
          BY <1>0, <1>3, <4>1 DEF trySettleScanlinkpayTicket, Hands, Steps, Pending, Rows
        <5> HIDE DEF hand
        <5> QED BY <1>0, <5>1, HoldTyped
      <4>2. CASE Pending = {} /\ worker[k].row = None
        BY <1>0, <1>3, <4>2, FinishTyped DEF trySettleScanlinkpayTicket
      <4> QED BY <2>2, <4>1, <4>2
    <3>2. Seen(k)' /\ ~ TakesOut(k)'
      BY <3>1 DEF Seen, TakesOut, At
    <3> QED BY <1>1, <1>2, <3>2, GoodsKept
  <2> QED BY <2>1, <2>2
<1>4. CASE settleIfFullyPaid(k)
  <2>1. worker'[k].pc = "idle" \/ (worker'[k].pc = "settle" /\ PaidSum >= worker[k].total /\ worker[k].total > 0)
    BY <1>0, <1>4, FinishTyped, OnlyTyped DEF settleIfFullyPaid, Steps
  <2>2. worker'[k].pc = "settle" => Backed'
    <3>1. worker[k].total \in Nat /\ PaidSum \in Nat /\ cash \in Nat
      BY <1>0, PaidIsSpokenFor DEF Hands, TypeOK
    <3>2. cash = 0 /\ Confirmed = {} => PaidSum = 0
      BY PaidIsSpokenFor
    <3>3. worker'[k].pc = "settle" => PaidSum # 0
      BY <2>1, <3>1
    <3> QED BY <3>1, <3>2, <3>3 DEF Backed, Kept
  <2>3. Seen(k)' /\ ~ TakesOut(k)'
    BY <2>1, <2>2 DEF Seen, TakesOut, At
  <2> QED BY <1>1, <1>2, <2>3, GoodsKept
<1> QED BY <1>3, <1>4

\* Whoever finds the ticket open closes it, and is alone to take its articles out.
LEMMA GoodsClose ==
  ASSUME CodeInv, MoneyInv, GoodsInv, Kept, NEW k \in Workers, Settle(k) \/ SettleLegacy(k)
  PROVE  GoodsInv'
<1>0. TypeOK /\ CodeTypes
  BY DEF MoneyInv, CodeInv
<1>1. Moved(k)
  BY SettleHands
<1>2. UNCHANGED <<exits, mirror>>
  BY DEF Settle, SettleLegacy
<1>3. CASE Finish(k) /\ status' = status
  <2>1. worker'[k].pc \in Quiet
    BY <1>0, <1>3, FinishTyped DEF Quiet, Steps
  <2> QED BY <1>1, <1>2, <1>3, <2>1, QuietSeen, GoodsKept
<1>4. CASE status = "open" /\ status' = "paid" /\ Only(k, "items", None)
           /\ (SettleLegacy(k) => request[worker[k].row] = "PAID")
  <2>1. Backed
    <3>1. CASE Settle(k)
      BY <3>1 DEF Settle, At, GoodsInv, Seen
    <3>2. CASE SettleLegacy(k)
      <4>1. PICK p \in Codes : p = worker[k].row /\ Counted(p) /\ request[p] = "PAID"
        BY <1>4, <3>2 DEF SettleLegacy, At, GoodsInv, Seen
      <4>2. p \in Confirmed
        BY <4>1 DEF Counted, Confirmed, CodeInv, PaidQrHasItsRow
      <4> QED BY <4>2 DEF Backed
    <3> QED BY <3>1, <3>2
  <2>2. worker'[k].pc = "items" /\ \A l \in Lines : exits'[l] = 0
    BY <1>0, <1>2, <1>4, OnlyTyped DEF GoodsInv, Steps
  <2>3. Backed'
    BY <2>1 DEF Kept
  <2>4. Seen(k)'
    BY <2>2, <2>3 DEF Seen, At
  <2>5. \A j \in Workers : Seen(j)' /\ (TakesOut(j)' => j = k)
    BY <1>1, <1>2, <1>4, <2>4, OthersSee DEF GoodsInv
  <2>6. mirror' # None => Shown(mirror)'
    BY <1>0, <1>2 DEF GoodsInv, TypeOK, Kept, Shown
  <2>7. StockLeavesOnce' /\ GoodsFollowMoney'
    BY <2>2, <2>3 DEF StockLeavesOnce, GoodsFollowMoney, Backed
  <2> QED BY <1>4, <2>5, <2>6, <2>7 DEF GoodsInv
<1> QED BY <1>3, <1>4 DEF Settle, SettleLegacy, ClosePaid

LEMMA GoodsList ==
  ASSUME CodeInv, MoneyInv, GoodsInv, Kept, NEW k \in Workers, deductStockForTicket(k)
  PROVE  GoodsInv'
<1>0. TypeOK /\ LineTypes /\ HandTypes /\ Free \in Hands
  BY TicketTypes, FreeIsHand DEF MoneyInv
<1>1. Moved(k)
  BY SettleHands
<1>2. UNCHANGED <<exits, status, mirror>> /\ At(k, "items")
  BY DEF deductStockForTicket
<1>3. worker'[k].pc \in {"idle", "deduct"}
  <2> DEFINE took == [l \in Lines |-> IF l \in Active THEN line[l].qty ELSE 0]
             hand == [Free EXCEPT !.pc = "deduct", !.take = took]
  <2>1. took \in [Lines -> 0..MaxQty]
    BY <1>0, SetsAreFinite DEF LineTypes
  <2>2. Finish(k) \/ Hold(k, hand)
    BY DEF deductStockForTicket
  <2> HIDE DEF took
  <2>3. hand \in Hands /\ hand.pc = "deduct"
    BY <1>0, <2>1 DEF Hands, Free, Steps
  <2> HIDE DEF hand
  <2> QED BY <1>0, <2>2, <2>3, FinishTyped, HoldTyped
<1>4. Backed' /\ \A l \in Lines : exits'[l] = 0
  BY <1>2 DEF GoodsInv, Seen, At, Kept
<1>5. Seen(k)' /\ TakesOut(k)
  BY <1>2, <1>3, <1>4 DEF Seen, TakesOut, At
<1> QED BY <1>1, <1>2, <1>5, GoodsKept

\* A line leaves once: the request that takes it out is alone, and takes it off its list.
LEMMA GoodsOut ==
  ASSUME CodeInv, MoneyInv, GoodsInv, Kept, NEW k \in Workers, createMovement(k)
  PROVE  GoodsInv'
<1>0. TypeOK /\ HandTypes /\ worker[k] \in Hands /\ exits \in [Lines -> Nat]
  BY TicketTypes DEF MoneyInv, HandTypes, TypeOK
<1>1. Moved(k) /\ UNCHANGED <<status, mirror>> /\ At(k, "deduct") /\ TakesOut(k)
  BY SettleHands DEF createMovement, TakesOut, At
<1>2. Backed /\ Backed' /\ status # "open" /\ \A j \in Workers \ {k} : ~ TakesOut(j)
  BY <1>1 DEF GoodsInv, Seen, At, Kept
<1>3. PICK l \in Lines :
        /\ worker[k].take[l] > 0
        /\ exits' = [exits EXCEPT ![l] = @ + 1] \/ exits' = exits
        /\ Finish(k) \/ Hold(k, [worker[k] EXCEPT !.take = [worker[k].take EXCEPT ![l] = 0]])
  BY DEF createMovement
<1>4. exits[l] = 0
  BY <1>1, <1>3 DEF GoodsInv, Seen
<1>5. exits'[l] \in {0, 1} /\ \A m \in Lines \ {l} : exits'[m] = exits[m]
  BY <1>0, <1>3, <1>4
<1>6. Seen(k)'
  <2>1. CASE Finish(k)
    <3>1. worker'[k].pc \in Quiet
      BY <1>0, <2>1, FinishTyped DEF Quiet, Steps
    <3> QED BY <3>1, QuietSeen
  <2>2. CASE Hold(k, [worker[k] EXCEPT !.take = [worker[k].take EXCEPT ![l] = 0]])
    <3> DEFINE rest == [worker[k].take EXCEPT ![l] = 0]
               hand == [worker[k] EXCEPT !.take = rest]
    <3>1. /\ rest \in [Lines -> 0..MaxQty] /\ rest[l] = 0
          /\ \A m \in Lines \ {l} : rest[m] = worker[k].take[m]
      BY <1>0, SetsAreFinite DEF Hands
    <3>2. Hold(k, hand)
      BY <2>2
    <3> HIDE DEF rest
    <3>3. hand \in Hands /\ hand.pc = "deduct" /\ hand.take = rest
      BY <1>0, <1>1, <3>1 DEF Hands, At
    <3> HIDE DEF hand
    <3>4. worker'[k] = hand
      BY <1>0, <3>2, <3>3, HoldTyped
    <3>5. ASSUME NEW m \in Lines, rest[m] > 0  PROVE exits'[m] = 0
      <4>1. m # l
        BY <3>1, <3>5
      <4> QED BY <1>1, <1>5, <3>1, <3>5, <4>1 DEF GoodsInv, Seen
    <3> QED BY <1>2, <3>3, <3>4, <3>5 DEF Seen, At
  <2> QED BY <1>3, <2>1, <2>2
<1>7. \A j \in Workers : Seen(j)' /\ (TakesOut(j)' => j = k)
  BY <1>1, <1>2, <1>6, OthersSee
<1>8. mirror' # None => Shown(mirror)'
  BY <1>0, <1>1 DEF GoodsInv, TypeOK, Kept, Shown
<1>9. StockLeavesOnce'
  BY <1>0, <1>5 DEF GoodsInv, StockLeavesOnce
<1>10. GoodsFollowMoney'
  BY <1>2 DEF GoodsFollowMoney, Backed
<1> QED BY <1>1, <1>2, <1>7, <1>8, <1>9, <1>10 DEF GoodsInv

LEMMA GoodsInvInit == Init => GoodsInv
<1> SUFFICES ASSUME Init  PROVE GoodsInv
  OBVIOUS
<1>1. \A k \in Workers : worker[k].pc = "idle"
  BY DEF Init, Free
<1>2. \A l \in Lines : exits[l] = 0
  BY DEF Init
<1>3. StockLeavesOnce /\ GoodsFollowMoney
  BY <1>2 DEF StockLeavesOnce, GoodsFollowMoney
<1> QED BY <1>1, <1>2, <1>3 DEF Init, GoodsInv, Seen, TakesOut, At

LEMMA GoodsInvStep == CodeInv /\ MoneyInv /\ GoodsInv /\ [Next]_vars => GoodsInv'
<1> SUFFICES ASSUME CodeInv, MoneyInv, GoodsInv, [Next]_vars  PROVE GoodsInv'
  OBVIOUS
<1>0. CodeInv' /\ Kept
  BY CodeInvStep, NothingIsUndone
<1>1. ASSUME NEW k \in Workers, Call(k) \/ Write(k) \/ Interrupt(k)  PROVE GoodsInv'
  BY <1>0, <1>1, GoodsApart, GoodsLook, GoodsPay DEF Call, Write
<1>2. ASSUME NEW k \in Workers, Poll(k)  PROVE GoodsInv'
  BY <1>0, <1>2, GoodsApart, GoodsDecide, GoodsClose, GoodsList, GoodsOut DEF Poll
<1>3. CASE \/ \E p \in Codes : ClaimCode(p) \/ CodeFailed(p) \/ CodePaid(p) \/ markExpired(p)
           \/ SoldElsewhere \/ UNCHANGED vars
  <2>1. UNCHANGED <<status, mirror, cash, code, exits, worker>>
    BY <1>3 DEF ClaimCode, CodeFailed, CodePaid, markExpired, Ask, SoldElsewhere, vars
  <2>2. \A k \in Workers : Seen(k)' /\ (TakesOut(k)' <=> TakesOut(k))
    <3> SUFFICES ASSUME NEW k \in Workers  PROVE Seen(k)' /\ (TakesOut(k)' <=> TakesOut(k))
      OBVIOUS
    <3>1. Seen(k) /\ (At(k, "mirror") => worker[k].row \in Codes)
      BY DEF GoodsInv, MoneyInv, Offered
    <3>2. Backed => Backed'
      BY <1>0 DEF Kept
    <3>3. worker[k].row \in Codes => (Shown(worker[k].row) => Shown(worker[k].row)')
                                     /\ (Counted(worker[k].row) => Counted(worker[k].row)')
      BY <1>0, <2>1 DEF Kept, Shown, Counted
    <3> QED BY <2>1, <3>1, <3>2, <3>3 DEF Seen, TakesOut, At
  <2>3. mirror' # None => Shown(mirror)'
    BY <1>0, <2>1 DEF GoodsInv, MoneyInv, TypeOK, Kept, Shown
  <2>4. StockLeavesOnce' /\ GoodsFollowMoney'
    BY <1>0, <2>1 DEF GoodsInv, StockLeavesOnce, GoodsFollowMoney, Kept, Backed
  <2> QED BY <2>1, <2>2, <2>3, <2>4 DEF GoodsInv
<1> QED BY <1>1, <1>2, <1>3 DEF Next

-----------------------------------------------------------------------------
(* The theorems on the money and on the articles.                          *)

\* NeverAskedForMore: however payments cross, and whatever is added to or taken off
\* the ticket meanwhile, its cash and its QR parts never pass, together, what it has
\* been worth at some moment (add_pos_payment counts under the lock of the ticket).
THEOREM NobodyIsAskedForMore == Spec => []NeverAskedForMore
<1>1. MoneyInv => NeverAskedForMore
  BY DEF MoneyInv
<1>2. CodeInv /\ MoneyInv /\ [Next]_vars => CodeInv' /\ MoneyInv'
  BY CodeInvStep, MoneyInvStep
<1> QED BY <1>1, <1>2, CodeInvInit, MoneyInvInit, PTL DEF Spec

\* ArticlesAddUp: the shelf never goes below nothing, a line leaves it at most once
\* however many devices settle the ticket, and only for a ticket of which some is
\* paid: whoever finds it open closes it and takes its lines out (settleTicket),
\* after cash was recorded or a part confirmed.
THEOREM TheArticlesAddUp == Spec => []ArticlesAddUp
<1>1. MoneyInv /\ GoodsInv => ArticlesAddUp
  BY DEF MoneyInv, GoodsInv, ArticlesAddUp
<1>2. CodeInv /\ MoneyInv /\ GoodsInv /\ [Next]_vars => CodeInv' /\ MoneyInv' /\ GoodsInv'
  BY CodeInvStep, MoneyInvStep, GoodsInvStep
<1> QED BY <1>1, <1>2, CodeInvInit, MoneyInvInit, GoodsInvInit, PTL DEF Spec

=============================================================================
