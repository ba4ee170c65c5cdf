------------------------ MODULE WalletFunding_proofs ------------------------
(***************************************************************************)
(* Proofs about WalletFunding, for any number of payments and of workers.  *)
(* FundInv bounds what is known of a payment; ClaimInv adds that its claim  *)
(* has one holder, and that a payment nobody holds is credited as its row  *)
(* says, or was cut off between its claim and its credit (cut).            *)
(***************************************************************************)
EXTENDS WalletFunding, TLAPS

USE DEF tables, around, hands

-----------------------------------------------------------------------------
(* The invariant that every loss and every stop keeps.                     *)

TableTypes ==
  /\ kind \in [Payments -> Kinds]
  /\ row \in [Payments -> Statuses]
  /\ order \in [Payments -> Orders]
  /\ heard \subseteq Payments \X BOOLEAN
  /\ credits \in [Payments -> Nat]
  /\ lost \subseteq Payments /\ cut \subseteq Payments
  /\ installed \in BOOLEAN /\ active \in BOOLEAN

HandTypes ==
  /\ pc \in [Workers -> Steps]
  /\ on \in [Workers -> Payments \cup {None}]
  /\ polls \in [Workers -> BOOLEAN]
  /\ told \in [Workers -> Orders]

\* The provider has taken the money of a payment.
Taken(i) == order[i] \in {"paid", "back"} \cup IF kind[i] = "pro" THEN {"short"} ELSE {}

Starting(k, i) == on[k] = i /\ pc[k] \in {"create", "insert"}

\* What a worker knows of the payment it works on.
Knows(k) ==
  /\ pc[k] # "idle" => on[k] \in Payments
  /\ pc[k] = "create" => order[on[k]] = "none"
  /\ pc[k] = "insert" => order[on[k]] # "none"
  /\ pc[k] \in {"create", "insert"} => row[on[k]] = "NONE"
  /\ pc[k] \in {"status", "settle", "complete", "claim", "credit", "giveback", "fail"} =>
       row[on[k]] # "NONE"
  /\ pc[k] \in {"lookup", "settle"} =>
       \/ Failed(told[k])
       \/ told[k] \in {"paid", "short"} /\ order[on[k]] \in {told[k], "back"}
  /\ pc[k] \in {"complete", "claim", "credit", "giveback"} => Taken(on[k])

\* A payment is started by one call.
OneStarter == \A k, l \in Workers : \A i \in Payments : Starting(k, i) /\ Starting(l, i) => k = l

\* The provider is asked before anything is recorded.
AskedFirst == \A i \in Payments : order[i] = "none" => row[i] = "NONE"

FundInv ==
  /\ TableTypes /\ HandTypes
  /\ (\A k \in Workers : Knows(k)) /\ OneStarter /\ AskedFirst /\ CreditWasPaid

-----------------------------------------------------------------------------
(* How a step moves the hands.                                             *)

LEMMA StepsAre ==
  /\ Steps = {"idle", "create", "insert", "lookup", "status", "settle", "complete",
              "claim", "credit", "giveback", "fail"}
  /\ Orders = {"none", "asked", "paid", "short", "failed", "back"}
  /\ Statuses = {"NONE", "PENDING", "SUCCESS", "FAILED"}
BY DEF Steps, Orders, Statuses

Starts(k) == \E i \in Payments : initiate(k, i) \/ Learn(k, i)
Acts(k)   == Starts(k) \/ Work(k) \/ Mishap(k)

\* A step of nobody: the provider, the person, the migrations.
Outside == (\E i \in Payments : Answer(i)) \/ Freeze \/ Install \/ UNCHANGED vars

LEMMA NextIs == [Next]_vars <=> Outside \/ \E k \in Workers : Acts(k)
BY DEF Next, Calm, Acts, Starts, Outside

\* What a step of worker k does to the hands of the others.
Alone(k) ==
  \A l \in Workers \ {k} : pc'[l] = pc[l] /\ on'[l] = on[l] /\ told'[l] = told[l]

LEMMA OthersWait ==
  ASSUME TableTypes, HandTypes, NEW k \in Workers, Knows(k), Acts(k)
  PROVE  HandTypes' /\ Alone(k)
<1> USE StepsAre DEF HandTypes, Alone
<1>1. ASSUME NEW step \in Steps, Goto(k, step)  PROVE HandTypes' /\ Alone(k)
  BY <1>1 DEF Goto
<1>2. ASSUME Finish(k)  PROVE HandTypes' /\ Alone(k)
  BY <1>2 DEF Finish
<1>3. ASSUME NEW i \in Payments, NEW step \in Steps, NEW poll \in BOOLEAN, NEW word \in Orders,
             Begin(k, i, step, poll, word)
      PROVE  HandTypes' /\ Alone(k)
  BY <1>3 DEF Begin
<1>4. CASE Starts(k)
  BY <1>3, <1>4 DEF Starts, initiate, Learn, Callback, Check, TableTypes
<1>5. CASE Work(k) /\ ~ getTransactionStatus(k)
  BY <1>1, <1>2, <1>5 DEF Work, createPaymentIntent, InsertRow, Lookup, Settle,
     CompleteOnce, FunctionMissing, ClaimRow, Credit, GiveBack, Fail
<1>6. CASE getTransactionStatus(k)
  <2>1. order[on[k]] \in Orders
    BY <1>6 DEF getTransactionStatus, At, Knows, TableTypes
  <2> QED BY <1>2, <1>6, <2>1 DEF getTransactionStatus
<1>7. CASE Mishap(k)
  BY <1>1, <1>2, <1>7 DEF Mishap, CreateUnanswered, InsertFailed, StatusUnanswered,
     CompleteFailed, CreditRefused, CreditUnanswered, Interrupt
<1> QED BY <1>4, <1>5, <1>6, <1>7 DEF Acts

-----------------------------------------------------------------------------
(* How a step moves the tables.                                            *)

\* At the provider an order goes forward, and is asked for by its starter.
LEMMA OrderMoves ==
  ASSUME FundInv, [Next]_vars
  PROVE  /\ kind' = kind /\ order' \in [Payments -> Orders]
         /\ \A i \in Payments :
              \/ order'[i] = order[i]
              \/ order[i] = "none" /\ order'[i] = "asked"
                 /\ \E k \in Workers : Acts(k) /\ At(k, "create") /\ on[k] = i
              \/ order[i] = "asked" /\ order'[i] # "none"
              \/ order[i] \in {"paid", "short"} /\ order'[i] = "back"
<1> USE StepsAre DEF FundInv, TableTypes
<1>1. ASSUME NEW k \in Workers, createPaymentIntent(k) \/ CreateUnanswered(k)
      PROVE  /\ kind' = kind
             /\ on[k] \in Payments /\ order[on[k]] = "none"
             /\ order' = order \/ order' = [order EXCEPT ![on[k]] = "asked"]
             /\ At(k, "create") /\ Acts(k)
  BY <1>1 DEF createPaymentIntent, CreateUnanswered, Knows, At, Acts, Work, Mishap
<1>2. ASSUME NEW k \in Workers, Acts(k), ~ createPaymentIntent(k), ~ CreateUnanswered(k)
      PROVE  kind' = kind /\ order' = order
  BY <1>2 DEF Acts, Starts, initiate, Learn, Callback, Check, Work, InsertRow, Lookup,
     getTransactionStatus, Settle, CompleteOnce, FunctionMissing, ClaimRow, Credit, GiveBack,
     Fail, Mishap, InsertFailed, StatusUnanswered, CompleteFailed, CreditRefused,
     CreditUnanswered, Interrupt
<1>3. CASE Outside
  BY <1>3 DEF Outside, Answer, Freeze, Install, vars
<1>4. ASSUME NEW k \in Workers, Acts(k)
      PROVE  /\ kind' = kind /\ order' \in [Payments -> Orders]
             /\ \A i \in Payments :
                  \/ order'[i] = order[i]
                  \/ order[i] = "none" /\ order'[i] = "asked" /\ At(k, "create") /\ on[k] = i
  BY <1>1, <1>2, <1>4
<1> QED BY <1>3, <1>4, NextIs

\* What a worker may write in the rows and the ledger: only those of its payment.
LEMMA RowMoves ==
  ASSUME FundInv, NEW k \in Workers, Acts(k)
  PROVE  /\ row' \in [Payments -> Statuses] /\ credits' \in [Payments -> Nat]
         /\ \A i \in Payments : i # on[k] => row'[i] = row[i] /\ credits'[i] = credits[i]
         /\ \A i \in Payments : row[i] # "NONE" => row'[i] # "NONE"
         /\ \A i \in Payments : row'[i] # row[i] => order[i] # "none"
         /\ \A i \in Payments : credits'[i] # credits[i] => Taken(i)
<1> USE StepsAre DEF FundInv, TableTypes
<1>1. Knows(k) /\ HandTypes
  OBVIOUS
<1>2. ASSUME \/ UNCHANGED <<row, credits>>
             \/ /\ on[k] \in Payments
                /\ order[on[k]] # "none"
                /\ \/ row' = row
                   \/ \E s \in {"PENDING", "SUCCESS", "FAILED"} : SetRow(on[k], s)
                /\ credits' = credits \/ (AddCredit(on[k]) /\ Taken(on[k]))
      PROVE  /\ row' \in [Payments -> Statuses] /\ credits' \in [Payments -> Nat]
             /\ \A i \in Payments : i # on[k] => row'[i] = row[i] /\ credits'[i] = credits[i]
             /\ \A i \in Payments : row[i] # "NONE" => row'[i] # "NONE"
             /\ \A i \in Payments : row'[i] # row[i] => order[i] # "none"
             /\ \A i \in Payments : credits'[i] # credits[i] => Taken(i)
  BY <1>2 DEF SetRow, AddCredit
<1>3. CASE Starts(k)
  BY <1>2, <1>3 DEF Starts, initiate, Learn, Callback, Check
<1>4. CASE createPaymentIntent(k) \/ Lookup(k) \/ getTransactionStatus(k) \/ Settle(k) \/ FunctionMissing(k)
  BY <1>2, <1>4 DEF createPaymentIntent, Lookup, getTransactionStatus, Settle, FunctionMissing
<1>5. CASE InsertRow(k) \/ ClaimRow(k) \/ GiveBack(k) \/ Fail(k)
  BY <1>1, <1>2, <1>5 DEF InsertRow, ClaimRow, GiveBack, Fail, At, Knows, AskedFirst
<1>6. CASE CompleteOnce(k)
  BY <1>1, <1>2, <1>6 DEF CompleteOnce, complete_topup, complete_funded_transfer, At, Knows, AskedFirst
<1>7. CASE Credit(k) \/ CreditUnanswered(k)
  BY <1>1, <1>2, <1>7 DEF Credit, CreditUnanswered, At, Knows, AskedFirst
<1>8. CASE Mishap(k) /\ ~ CreditUnanswered(k)
  BY <1>2, <1>8 DEF Mishap, CreateUnanswered, InsertFailed, StatusUnanswered, CompleteFailed,
     CreditRefused, Interrupt
<1> QED BY <1>3, <1>4, <1>5, <1>6, <1>7, <1>8 DEF Acts, Work

LEMMA OutsideKeepsTables ==
  Outside => UNCHANGED <<tables, hands>>
BY DEF Outside, Answer, Freeze, Install, vars

LEMMA TakenStays ==
  ASSUME FundInv, [Next]_vars, NEW i \in Payments, Taken(i)  PROVE Taken(i)'
BY OrderMoves DEF Taken

-----------------------------------------------------------------------------
(* The invariant is inductive.                                             *)

LEMMA StarterStep ==
  ASSUME FundInv, NEW k \in Workers, Acts(k)
  PROVE  /\ OneStarter'
         /\ pc'[k] = "insert" => createPaymentIntent(k)
         /\ pc'[k] = "create" => \E i \in Payments : initiate(k, i)
<1> USE StepsAre DEF HandTypes
<1>0. HandTypes /\ TableTypes /\ Knows(k) /\ OneStarter
  BY DEF FundInv
<1>1. CASE \E i \in Payments : initiate(k, i)
  <2>1. PICK i \in Payments : initiate(k, i)
    BY <1>1
  <2>2. pc'[k] = "create" /\ on'[k] = i /\ \A l \in Workers : on[l] # i
    BY <1>0, <2>1 DEF initiate, Begin
  <2>3. OneStarter'
    BY <1>0, <2>2, OthersWait DEF OneStarter, Starting, Alone
  <2> QED BY <1>1, <2>2, <2>3
<1>2. CASE createPaymentIntent(k)
  BY <1>0, <1>2, OthersWait DEF createPaymentIntent, Goto, At, OneStarter, Starting, Alone
<1>3. CASE ~ createPaymentIntent(k) /\ ~ \E i \in Payments : initiate(k, i)
  <2>1. pc'[k] \notin {"create", "insert"}
    <3> USE <1>0 DEF Begin, Goto, Finish, At
    <3>1. CASE Starts(k)
      BY <1>3, <3>1 DEF Starts, Learn, Callback, Check
    <3>2. CASE Work(k)
      BY <1>3, <3>2 DEF Work, InsertRow, Lookup, getTransactionStatus, Settle,
         CompleteOnce, FunctionMissing, ClaimRow, Credit, GiveBack, Fail
    <3>3. CASE Mishap(k)
      BY <3>3 DEF Mishap, CreateUnanswered, InsertFailed, StatusUnanswered, CompleteFailed,
         CreditRefused, CreditUnanswered, Interrupt
    <3> QED BY <3>1, <3>2, <3>3 DEF Acts
  <2> QED BY <1>0, <2>1, <1>3, OthersWait DEF OneStarter, Starting, Alone
<1> QED BY <1>1, <1>2, <1>3

\* The others keep knowing: nobody else starts their payment, and what the
\* provider took stays taken.
LEMMA OthersKnow ==
  ASSUME FundInv, [Next]_vars, NEW l \in Workers,
         pc'[l] = pc[l], on'[l] = on[l], told'[l] = told[l],
         Outside \/ \E k \in Workers \ {l} : Acts(k)
  PROVE  Knows(l)'
<1> USE StepsAre
<1>0. Knows(l) /\ OneStarter /\ AskedFirst /\ TableTypes
  BY DEF FundInv
<1>1. \A i \in Payments : row[i] # "NONE" => row'[i] # "NONE"
  BY RowMoves, OutsideKeepsTables
<1>2. \A i \in Payments : Taken(i) => Taken(i)'
  BY TakenStays
<1>3. pc[l] = "create" => order'[on[l]] = "none"
  <2>1. ASSUME NEW k \in Workers, k # l, Acts(k), At(k, "create"), on[k] = on[l], pc[l] = "create"
        PROVE  FALSE
    BY <1>0, <2>1 DEF OneStarter, Starting, Knows, At
  <2>2. ASSUME pc[l] = "create", NEW k \in Workers, Acts(k), k # l  PROVE order'[on[l]] = "none"
    <3>1. order[on[l]] = "none" /\ on[l] \in Payments
      BY <1>0, <2>2 DEF Knows
    <3>2. UNCHANGED order \/ (At(k, "create") /\ order' = [order EXCEPT ![on[k]] = "asked"])
      BY <2>2 DEF Acts, Starts, initiate, Learn, Callback, Check, Work, InsertRow, Lookup,
         createPaymentIntent, CreateUnanswered,
         getTransactionStatus, Settle, CompleteOnce, FunctionMissing, ClaimRow, Credit, GiveBack,
         Fail, Mishap, InsertFailed, StatusUnanswered, CompleteFailed, CreditRefused,
         CreditUnanswered, Interrupt
    <3> QED BY <1>0, <2>1, <2>2, <3>1, <3>2 DEF TableTypes
  <2>3. ASSUME pc[l] = "create", Outside  PROVE order'[on[l]] = "none"
    <3>1. order[on[l]] = "none" /\ on[l] \in Payments
      BY <1>0, <2>3 DEF Knows
    <3> QED BY <2>3, <3>1, <1>0 DEF Outside, Answer, Freeze, Install, vars, TableTypes
  <2> QED BY <2>2, <2>3
<1>4. pc[l] = "insert" => order'[on[l]] # "none"
  BY <1>0, OrderMoves DEF Knows
<1>5. pc[l] \in {"create", "insert"} => row'[on[l]] = "NONE"
  <2>1. CASE Outside
    BY <1>0, <2>1, OutsideKeepsTables DEF Knows
  <2>2. ASSUME NEW k \in Workers \ {l}, Acts(k), pc[l] \in {"create", "insert"}, row'[on[l]] # "NONE"
        PROVE  FALSE
    <3>1. on[k] = on[l] /\ on[l] \in Payments /\ row[on[l]] = "NONE"
      BY <1>0, <2>2, RowMoves DEF Knows
    <3>2. pc[k] \notin {"create", "insert"}
      BY <1>0, <2>2, <3>1 DEF OneStarter, Starting
    <3>3. Knows(k) /\ HandTypes
      BY DEF FundInv
    <3>4. pc[k] \in {"idle", "lookup"}
      BY <2>2, <3>1, <3>2, <3>3 DEF Knows, HandTypes
    <3>5. UNCHANGED row
      BY <2>2, <3>4 DEF Acts, Starts, initiate, Learn, Callback, Check, Begin, Work, InsertRow, Lookup,
         createPaymentIntent, CreateUnanswered, At,
         getTransactionStatus, Settle, CompleteOnce, FunctionMissing, ClaimRow, Credit, GiveBack,
         Fail, Mishap, InsertFailed, StatusUnanswered, CompleteFailed, CreditRefused,
         CreditUnanswered, Interrupt
    <3> QED BY <2>2, <3>1, <3>5
  <2> QED BY <2>1, <2>2
<1>6. pc[l] \in {"lookup", "settle"} =>
        \/ Failed(told[l])
        \/ told[l] \in {"paid", "short"} /\ order'[on[l]] \in {told[l], "back"}
  BY <1>0, OrderMoves DEF Knows
<1> QED BY <1>0, <1>1, <1>2, <1>3, <1>4, <1>5, <1>6 DEF Knows, Failed

LEMMA ActorKnows ==
  ASSUME FundInv, [Next]_vars, NEW k \in Workers, Acts(k)  PROVE Knows(k)'
<1> USE StepsAre DEF HandTypes, TableTypes
<1>0. Knows(k) /\ TableTypes /\ HandTypes /\ AskedFirst
  BY DEF FundInv
<1>1. \A i \in Payments : row[i] # "NONE" => row'[i] # "NONE"
  BY RowMoves
<1>2. \A i \in Payments : Taken(i) => Taken(i)'
  BY TakenStays
<1>3. ASSUME pc'[k] = "idle"  PROVE Knows(k)'
  BY <1>3 DEF Knows
<1>4. ASSUME NEW i \in Payments, initiate(k, i)  PROVE Knows(k)'
  <2>1. pc'[k] = "create" /\ on'[k] = i
    BY <1>0, <1>4 DEF initiate, Begin
  <2>2. order'[i] = "none" /\ row'[i] = "NONE"
    BY <1>0, <1>4 DEF initiate, AskedFirst
  <2> QED BY <2>1, <2>2 DEF Knows
<1>5. ASSUME NEW i \in Payments, Learn(k, i)  PROVE Knows(k)'
  <2>1. CASE Callback(k, i)
    BY <1>0, <2>1 DEF Callback, Begin, Known, Knows, Failed
  <2>2. CASE Check(k, i, FALSE) \/ Check(k, i, TRUE)
    BY <1>0, <2>2 DEF Check, Begin, Knows
  <2> QED BY <1>5, <2>1, <2>2 DEF Learn
<1>6. CASE createPaymentIntent(k)
  BY <1>0, <1>6 DEF createPaymentIntent, Goto, At, Knows
<1>7. CASE Lookup(k)
  BY <1>0, <1>3, <1>7 DEF Lookup, Goto, Finish, At, Knows, Failed
<1>8. CASE getTransactionStatus(k)
  BY <1>0, <1>3, <1>8 DEF getTransactionStatus, Goto, Finish, At, Known, Knows, Failed
<1>9. CASE Settle(k)
  BY <1>0, <1>3, <1>9 DEF Settle, Goto, Finish, At, Knows, Failed, amountAccepted, Taken
<1>10. CASE FunctionMissing(k) \/ CreditRefused(k)
  BY <1>0, <1>10 DEF FunctionMissing, CreditRefused, Goto, At, Knows, Taken
<1>11. CASE ClaimRow(k)
  BY <1>0, <1>3, <1>11 DEF ClaimRow, SetRow, Goto, Finish, At, Knows, Taken
<1>12. CASE CreditUnanswered(k)
  BY <1>0, <1>12 DEF CreditUnanswered, Goto, At, Knows, Taken
<1>13. CASE \/ InsertRow(k) \/ CompleteOnce(k) \/ Credit(k) \/ GiveBack(k) \/ Fail(k)
            \/ CreateUnanswered(k) \/ InsertFailed(k) \/ StatusUnanswered(k)
            \/ CompleteFailed(k) \/ Interrupt(k)
  BY <1>0, <1>3, <1>13 DEF InsertRow, CompleteOnce, Credit, GiveBack, Fail,
     CreateUnanswered, InsertFailed, StatusUnanswered, CompleteFailed, Interrupt, Finish
<1> QED BY <1>4, <1>5, <1>6, <1>7, <1>8, <1>9, <1>10, <1>11, <1>12, <1>13
        DEF Acts, Starts, Work, Mishap

LEMMA FundInvInit == Init => FundInv
<1> SUFFICES ASSUME Init  PROVE FundInv
  OBVIOUS
<1> USE StepsAre DEF Init
<1>1. TableTypes /\ HandTypes
  BY DEF TableTypes, HandTypes
<1>2. (\A k \in Workers : Knows(k)) /\ OneStarter /\ AskedFirst /\ CreditWasPaid
  BY DEF Knows, OneStarter, Starting, AskedFirst, CreditWasPaid
<1> QED BY <1>1, <1>2 DEF FundInv

LEMMA FundInvStep == FundInv /\ [Next]_vars => FundInv'
<1> SUFFICES ASSUME FundInv, [Next]_vars  PROVE FundInv'
  OBVIOUS
<1> USE StepsAre
<1>0. TableTypes /\ HandTypes /\ OneStarter /\ AskedFirst /\ CreditWasPaid /\ \A k \in Workers : Knows(k)
  BY DEF FundInv
<1>1. kind' = kind /\ order' \in [Payments -> Orders]
  BY OrderMoves
<1>2. \A i \in Payments : Taken(i) => Taken(i)'
  BY TakenStays
<1>3. ASSUME NEW k \in Workers, Acts(k)  PROVE FundInv'
  <2>1. HandTypes' /\ Alone(k)
    BY <1>0, <1>3, OthersWait
  <2>2. TableTypes'
    <3>1. /\ heard' = heard \/ \E i \in Payments : heard' = heard \cup {<<i, Failed(order[i])>>}
          /\ installed' = installed /\ active' = active
          /\ lost' = lost \/ (pc[k] = "credit" /\ lost' = lost \cup {on[k]})
          /\ cut' = cut \/ (pc[k] \in {"credit", "giveback"} /\ cut' = cut \cup {on[k]})
      BY <1>3 DEF Acts, Starts, initiate, Learn, Callback, Check, Work,
         InsertRow, Lookup, createPaymentIntent, CreateUnanswered,
         getTransactionStatus, Settle, CompleteOnce, FunctionMissing, ClaimRow, Credit, GiveBack,
         Fail, Mishap, InsertFailed, StatusUnanswered, CompleteFailed, CreditRefused,
         CreditUnanswered, Interrupt, At
    <3>2. \A i \in Payments : Failed(order[i]) \in BOOLEAN
      BY DEF Failed
    <3>3. heard' \subseteq Payments \X BOOLEAN
      BY <1>0, <3>1, <3>2 DEF TableTypes
    <3>4. lost' \subseteq Payments /\ cut' \subseteq Payments
      BY <1>0, <3>1 DEF TableTypes, Knows
    <3> QED BY <1>0, <1>1, <1>3, <3>1, <3>3, <3>4, RowMoves DEF TableTypes
  <2>3. \A l \in Workers : Knows(l)'
    <3>1. ASSUME NEW l \in Workers \ {k}  PROVE Knows(l)'
      BY <1>3, <2>1, <3>1, OthersKnow DEF Alone
    <3> QED BY <1>3, <3>1, ActorKnows
  <2>4. AskedFirst'
    BY <1>0, <1>3, RowMoves, OrderMoves DEF AskedFirst
  <2>5. CreditWasPaid'
    <3>1. CreditWasPaid <=> \A i \in Payments : credits[i] > 0 => Taken(i)
      BY DEF CreditWasPaid, Taken
    <3>2. \A i \in Payments : credits'[i] > 0 => Taken(i)'
      BY <1>0, <1>2, <1>3, <3>1, RowMoves DEF TableTypes
    <3> QED BY <3>2 DEF CreditWasPaid, Taken
  <2> QED BY <1>3, <2>1, <2>2, <2>3, <2>4, <2>5, StarterStep DEF FundInv
<1>4. CASE Outside
  <2>1. UNCHANGED <<tables, hands>>
    BY <1>4, OutsideKeepsTables
  <2>2. installed' \in BOOLEAN /\ active' \in BOOLEAN
    BY <1>0, <1>4 DEF TableTypes, Outside, Answer, Freeze, Install, vars
  <2>3. TableTypes' /\ HandTypes' /\ OneStarter'
    BY <1>0, <1>1, <2>1, <2>2 DEF TableTypes, HandTypes, OneStarter, Starting
  <2>4. \A l \in Workers : Knows(l)'
    BY <1>4, <2>1, OthersKnow
  <2>5. AskedFirst'
    BY <1>0, <1>4, <2>1 DEF AskedFirst, Outside, Answer, Freeze, Install, vars, TableTypes
  <2>6. CreditWasPaid'
    BY <1>0, <1>2, <2>1 DEF CreditWasPaid, Taken
  <2> QED BY <2>3, <2>4, <2>5, <2>6 DEF FundInv
<1> QED BY <1>3, <1>4, NextIs

-----------------------------------------------------------------------------
(* One credit per payment and per lost answer of a credit.                 *)

\* One worker holds the claim of a payment, which is not credited for it yet.
OneHolder == \A k, l \in Workers : \A i \in Payments : Holds(k, i) /\ Holds(l, i) => k = l

HeldIsClaimed ==
  \A k \in Workers : \A i \in Payments : Holds(k, i) => row[i] = "SUCCESS" /\ credits[i] = Unknown(i)

\* Where nobody holds a claim, a payment is credited as its row says.
Fits(i) ==
  \/ row[i] = "SUCCESS" /\ credits[i] \in {1, 1 + Unknown(i)}
  \/ row[i] # "SUCCESS" /\ credits[i] = Unknown(i)
  \/ row[i] = "SUCCESS" /\ credits[i] = Unknown(i) /\ i \in cut

SettledIsCredited ==
  \A i \in Payments : (\A k \in Workers : ~ Holds(k, i)) => Fits(i)

ClaimInv == OneHolder /\ HeldIsClaimed /\ SettledIsCredited

\* A step that leaves every payment but one alone keeps ClaimInv when it does for
\* that one.
LEMMA OnlyOnePayment ==
  ASSUME ClaimInv, NEW k \in Workers, NEW i \in Payments,
         \A l \in Workers \ {k} : \A j \in Payments : Holds(l, j)' <=> Holds(l, j),
         \A j \in Payments \ {i} :
           /\ row'[j] = row[j] /\ credits'[j] = credits[j]
           /\ (j \in lost' <=> j \in lost) /\ (j \in cut' <=> j \in cut)
           /\ Holds(k, j)' <=> Holds(k, j),
         \A l \in Workers \ {k} : ~ Holds(l, i),
         IF Holds(k, i)' THEN row'[i] = "SUCCESS" /\ credits'[i] = Unknown(i)' ELSE Fits(i)'
  PROVE  ClaimInv'
<1>0. OneHolder /\ HeldIsClaimed /\ SettledIsCredited
  BY DEF ClaimInv
<1>1. \A j \in Payments \ {i} : Unknown(j)' = Unknown(j)
  BY DEF Unknown
<1>2. OneHolder'
  BY <1>0 DEF OneHolder
<1>3. HeldIsClaimed'
  BY <1>0, <1>1 DEF HeldIsClaimed
<1>4. SettledIsCredited'
  <2>1. ASSUME NEW j \in Payments \ {i}, \A l \in Workers : ~ Holds(l, j)'  PROVE Fits(j)'
    BY <1>0, <1>1, <2>1 DEF SettledIsCredited, Fits
  <2> QED BY <2>1 DEF SettledIsCredited
<1> QED BY <1>2, <1>3, <1>4 DEF ClaimInv

LEMMA NothingChanges ==
  ASSUME ClaimInv, UNCHANGED <<row, credits, lost, cut>>,
         \A k \in Workers : \A i \in Payments : Holds(k, i)' <=> Holds(k, i)
  PROVE  ClaimInv'
<1>1. \A i \in Payments : Unknown(i)' = Unknown(i)
  BY DEF Unknown
<1> QED BY <1>1 DEF ClaimInv, OneHolder, HeldIsClaimed, SettledIsCredited, Fits

LEMMA ClaimInvStep ==
  ASSUME FundInv, ClaimInv, [Next]_vars  PROVE ClaimInv'
<1> USE StepsAre
<1>0. TableTypes /\ HandTypes /\ OneHolder /\ HeldIsClaimed /\ SettledIsCredited
      /\ \A k \in Workers : Knows(k)
  BY DEF FundInv, ClaimInv
<1>1. \A i \in Payments : Unknown(i) \in {0, 1}
  BY DEF Unknown
<1>2. CASE Outside
  BY <1>2, OutsideKeepsTables, NothingChanges DEF Holds
<1>3. ASSUME NEW k \in Workers, Acts(k)  PROVE ClaimInv'
  <2>0. Knows(k) /\ Alone(k)
    BY <1>0, <1>3, OthersWait
  <2>1. \A l \in Workers \ {k} : \A i \in Payments : Holds(l, i)' <=> Holds(l, i)
    BY <2>0 DEF Alone, Holds
  <2>2. CASE ClaimRow(k) /\ pc'[k] = "credit"
    <3>0. PICK i \in Payments : i = on[k]
      BY <1>0, <2>0, <2>2 DEF ClaimRow, At, Knows
    <3>1. /\ pc[k] = "claim" /\ on'[k] = i
          /\ row[i] \in {"PENDING", "FAILED"}
          /\ row' = [row EXCEPT ![i] = "SUCCESS"] /\ credits' = credits /\ lost' = lost /\ cut' = cut
      BY <3>0, <1>0, <2>0, <2>2 DEF ClaimRow, Claimable, SetRow, Goto, Finish, HandTypes, At, Knows
    <3>2. \A l \in Workers : ~ Holds(l, i)
      BY <3>0, <1>0, <3>1 DEF HeldIsClaimed
    <3>3. Holds(k, i)' /\ \A j \in Payments \ {i} : ~ Holds(k, j) /\ ~ Holds(k, j)'
      BY <3>0, <2>2, <3>1 DEF Holds
    <3>4. row'[i] = "SUCCESS" /\ credits'[i] = Unknown(i)'
      BY <3>0, <1>0, <3>1, <3>2 DEF SettledIsCredited, Fits, Unknown, TableTypes
    <3>5. \A j \in Payments \ {i} : row'[j] = row[j]
      BY <3>0, <1>0, <3>1 DEF TableTypes
    <3> QED BY <3>0, <2>1, <3>1, <3>2, <3>3, <3>4, <3>5, OnlyOnePayment
  <2>3. CASE Credit(k) \/ GiveBack(k)
    <3>0. PICK i \in Payments : i = on[k]
      BY <1>0, <2>0, <2>3 DEF Credit, GiveBack, At, Knows
    <3>1. Holds(k, i)
      BY <3>0, <2>0, <2>3 DEF Credit, GiveBack, At, Knows, Holds
    <3>2. row[i] = "SUCCESS" /\ credits[i] = Unknown(i)
      BY <3>0, <1>0, <3>1 DEF HeldIsClaimed
    <3>3. \A j \in Payments : ~ Holds(k, j)'
      BY <3>0, <1>0, <2>3 DEF Credit, GiveBack, Finish, Holds, HandTypes
    <3>4. \A l \in Workers \ {k} : ~ Holds(l, i)
      BY <3>0, <1>0, <3>1 DEF OneHolder
    <3>5. /\ \A j \in Payments \ {i} : row'[j] = row[j] /\ credits'[j] = credits[j]
          /\ lost' = lost /\ cut' = cut
          /\ \/ row'[i] = "SUCCESS" /\ credits'[i] = credits[i] + 1
             \/ row'[i] = "PENDING" /\ credits'[i] = credits[i]
      BY <3>0, <1>0, <2>3, <3>1, <3>2 DEF Credit, GiveBack, AddCredit, SetRow, TableTypes
    <3>6. Fits(i)'
      BY <3>0, <1>1, <3>1, <3>2, <3>5 DEF Fits, Unknown
    <3>7. \A j \in Payments \ {i} : ~ Holds(k, j)
      BY <3>0 DEF Holds
    <3> QED BY <3>0, <2>1, <3>1, <3>3, <3>4, <3>5, <3>6, <3>7, OnlyOnePayment
  <2>4. CASE CreditRefused(k) \/ CreditUnanswered(k)
    <3>0. PICK i \in Payments : i = on[k]
      BY <1>0, <2>0, <2>4 DEF CreditRefused, CreditUnanswered, At, Knows
    <3>1. Holds(k, i)
      BY <3>0, <2>0, <2>4 DEF CreditRefused, CreditUnanswered, At, Knows, Holds
    <3>2. row[i] = "SUCCESS" /\ credits[i] = Unknown(i)
      BY <3>0, <1>0, <3>1 DEF HeldIsClaimed
    <3>3. Holds(k, i)' /\ \A j \in Payments \ {i} : ~ Holds(k, j) /\ ~ Holds(k, j)'
      BY <3>0, <1>0, <2>4 DEF CreditRefused, CreditUnanswered, Goto, Holds, HandTypes
    <3>4. \A l \in Workers \ {k} : ~ Holds(l, i)
      BY <3>0, <1>0, <3>1 DEF OneHolder
    <3>5. /\ row' = row /\ cut' = cut
          /\ \A j \in Payments \ {i} : credits'[j] = credits[j] /\ (j \in lost' <=> j \in lost)
          /\ \/ credits' = credits /\ lost' = lost
             \/ /\ credits'[i] = credits[i] + 1
                /\ i \notin lost /\ i \in lost'
      BY <3>0, <1>0, <2>4, <3>1 DEF CreditRefused, CreditUnanswered, AddCredit, TableTypes
    <3>6. credits'[i] = Unknown(i)'
      BY <3>0, <3>1, <3>2, <3>3, <3>5 DEF Unknown, Holds
    <3> QED BY <3>0, <2>1, <3>1, <3>2, <3>3, <3>4, <3>5, <3>6, OnlyOnePayment
  <2>5. CASE CompleteOnce(k) \/ InsertRow(k) \/ Fail(k)
    <3>0. PICK i \in Payments : i = on[k]
      BY <1>0, <2>0, <2>5 DEF CompleteOnce, InsertRow, Fail, At, Knows
    <3>1. lost' = lost /\ cut' = cut /\ \A j \in Payments : ~ Holds(k, j) /\ ~ Holds(k, j)'
      BY <3>0, <1>0, <2>0, <2>5 DEF CompleteOnce, InsertRow, Fail, Finish, At, Knows, Holds, HandTypes
    <3>2. \/ UNCHANGED <<row, credits>>
          \/ /\ row[i] # "SUCCESS" /\ credits' = credits
             /\ SetRow(i, "PENDING") \/ SetRow(i, "FAILED")
          \/ /\ row[i] # "SUCCESS" /\ SetRow(i, "SUCCESS")
             /\ AddCredit(i) \/ (credits[i] # 0 /\ credits' = credits)
      <4>1. pc[k] = "insert" => row[i] = "NONE"
        BY <3>0, <2>0 DEF Knows
      <4> QED
        BY <3>0, <2>5, <4>1 DEF CompleteOnce, complete_topup, complete_funded_transfer, InsertRow, Fail, At
    <3>3. CASE UNCHANGED <<row, credits>>
      BY <3>0, <2>1, <3>1, <3>3, NothingChanges
    <3>4. CASE ~ UNCHANGED <<row, credits>>
      <4>1. row[i] # "SUCCESS" /\ \A l \in Workers : ~ Holds(l, i)
        BY <3>0, <1>0, <3>1, <3>2, <3>4 DEF HeldIsClaimed
      <4>2. credits[i] = Unknown(i)
        BY <3>0, <1>0, <3>1, <4>1 DEF SettledIsCredited, Fits
      <4>3. \A j \in Payments \ {i} : row'[j] = row[j] /\ credits'[j] = credits[j]
        BY <3>0, <1>0, <3>1, <3>2, <3>4 DEF SetRow, AddCredit, TableTypes
      <4>4. \/ row'[i] # "SUCCESS" /\ credits'[i] = credits[i]
            \/ row'[i] = "SUCCESS" /\ credits'[i] = credits[i] + 1
            \/ row'[i] = "SUCCESS" /\ credits'[i] = credits[i] /\ credits[i] # 0
        BY <3>0, <1>0, <3>1, <3>2, <3>4 DEF SetRow, AddCredit, TableTypes
      <4>5. Fits(i)'
        BY <3>0, <1>1, <3>1, <4>2, <4>4 DEF Fits, Unknown
      <4> QED BY <3>0, <2>1, <3>1, <4>1, <4>3, <4>5, OnlyOnePayment
    <3> QED BY <3>0, <3>3, <3>4
  <2>6. CASE Interrupt(k) /\ pc[k] \in {"credit", "giveback"}
    <3>0. PICK i \in Payments : i = on[k]
      BY <1>0, <2>0, <2>6 DEF Knows
    <3>1. Holds(k, i)
      BY <3>0, <2>6 DEF Holds
    <3>2. row[i] = "SUCCESS" /\ credits[i] = Unknown(i)
      BY <3>0, <1>0, <3>1 DEF HeldIsClaimed
    <3>3. \A j \in Payments : ~ Holds(k, j)'
      BY <3>0, <1>0, <2>6 DEF Interrupt, Finish, Holds, HandTypes
    <3>4. \A l \in Workers \ {k} : ~ Holds(l, i)
      BY <3>0, <1>0, <3>1 DEF OneHolder
    <3>5. UNCHANGED <<row, credits, lost>> /\ cut' = cut \cup {i}
      BY <3>0, <2>6 DEF Interrupt
    <3>6. Fits(i)'
      BY <3>0, <3>2, <3>5 DEF Fits, Unknown
    <3>7. \A j \in Payments \ {i} : ~ Holds(k, j)
      BY <3>0 DEF Holds
    <3> QED BY <3>0, <2>1, <3>1, <3>3, <3>4, <3>5, <3>6, <3>7, OnlyOnePayment
  <2>7. CASE /\ ~ (ClaimRow(k) /\ pc'[k] = "credit")
             /\ ~ Credit(k) /\ ~ GiveBack(k) /\ ~ CreditRefused(k) /\ ~ CreditUnanswered(k)
             /\ ~ CompleteOnce(k) /\ ~ InsertRow(k) /\ ~ Fail(k)
             /\ ~ (Interrupt(k) /\ pc[k] \in {"credit", "giveback"})
    <3> USE <1>0 DEF At, Goto, Finish, HandTypes
    <3>1. UNCHANGED <<row, credits, lost, cut>> /\ {pc[k], pc'[k]} \cap {"credit", "giveback"} = {}
      <4>1. CASE Starts(k)
        BY <4>1 DEF Starts, initiate, Learn, Callback, Check, Begin
      <4>2. CASE createPaymentIntent(k) \/ Lookup(k) \/ getTransactionStatus(k) \/ Settle(k) \/ FunctionMissing(k)
        BY <4>2 DEF createPaymentIntent, Lookup, getTransactionStatus, Settle, FunctionMissing
      <4>3. CASE ClaimRow(k)
        BY <2>7, <4>3 DEF ClaimRow
      <4>4. CASE \/ CreateUnanswered(k) \/ InsertFailed(k) \/ StatusUnanswered(k)
                 \/ CompleteFailed(k) \/ Interrupt(k)
        BY <2>7, <4>4 DEF CreateUnanswered, InsertFailed, StatusUnanswered, CompleteFailed, Interrupt
      <4> QED BY <1>3, <2>7, <4>1, <4>2, <4>3, <4>4 DEF Acts, Work, Mishap
    <3>2. \A i \in Payments : ~ Holds(k, i) /\ ~ Holds(k, i)'
      BY <3>1 DEF Holds
    <3> QED BY <2>1, <3>1, <3>2, NothingChanges
  <2> QED BY <2>2, <2>3, <2>4, <2>5, <2>6, <2>7
<1> QED BY <1>2, <1>3, NextIs

-----------------------------------------------------------------------------
(* The theorems.                                                           *)

\* CreditWasPaid: whatever answers are lost and wherever a process stops, what is
\* credited was taken by the provider (settled from its own status, PS and WS).
THEOREM OnlyThePaidIsCredited == Spec => []CreditWasPaid
<1>1. FundInv => CreditWasPaid
  BY DEF FundInv
<1> QED BY <1>1, FundInvInit, FundInvStep, PTL DEF Spec

\* CreditsAreRight: for any callbacks, status checks and reconciliations at once,
\* before and after the functions of migrations 056 and 062 are there, whatever
\* answers are lost and wherever processes stop, a payment is credited once, and once
\* more only where the answer of a credit was lost, for what was paid, and its row
\* says so; only a stop between its claim and its credit leaves a SUCCESS without one.
THEOREM OneCreditPerPayment == Spec => []CreditsAreRight
<1>1. Init => ClaimInv
  BY DEF Init, ClaimInv, OneHolder, HeldIsClaimed, SettledIsCredited, Holds, Fits, Unknown
<1>2. FundInv /\ ClaimInv => CreditsAreRight
  <2> SUFFICES ASSUME FundInv, ClaimInv  PROVE CreditsAreRight
    OBVIOUS
  <2>1. TypeOK
    <3>1. \A i \in Payments : credits[i] = Unknown(i) \/ Fits(i)
      BY DEF ClaimInv, HeldIsClaimed, SettledIsCredited
    <3>2. ASSUME NEW i \in Payments  PROVE credits[i] \in 0..2
      <4>1. Unknown(i) = 0 \/ Unknown(i) = 1
        BY DEF Unknown
      <4>2. credits[i] = Unknown(i) \/ credits[i] = 1 \/ credits[i] = 1 + Unknown(i)
        BY <3>1 DEF Fits
      <4> QED BY <4>1, <4>2
    <3> QED BY <3>2 DEF FundInv, TableTypes, HandTypes, TypeOK
  <2>2. SuccessIsCredited
    BY DEF ClaimInv, HeldIsClaimed, SettledIsCredited, Fits, SuccessIsCredited
  <2> QED BY <2>1, <2>2 DEF FundInv, CreditsAreRight
<1>3. FundInv /\ ClaimInv /\ [Next]_vars => (FundInv /\ ClaimInv)'
  BY FundInvStep, ClaimInvStep
<1> QED BY <1>1, <1>2, <1>3, FundInvInit, PTL DEF Spec

\* SuccessNeverFails: a payment that succeeded is never written as failed ("a late
\* 'failed' must never overwrite one that already succeeded", PS:838), whatever
\* answers are lost and wherever a process stops.
THEOREM SuccessStays == Spec => SuccessNeverFails
<1>1. FundInv /\ [Next]_vars => [\A i \in Payments : row[i] = "SUCCESS" => row'[i] # "FAILED"]_vars
  <2> SUFFICES ASSUME FundInv, [Next]_vars, NEW i \in Payments, row[i] = "SUCCESS"
               PROVE  row'[i] # "FAILED"
    OBVIOUS
  <2> USE DEF FundInv, TableTypes
  <2>1. CASE Outside
    BY <2>1, OutsideKeepsTables
  <2>2. ASSUME NEW k \in Workers, Acts(k)  PROVE row'[i] # "FAILED"
    <3>1. CASE Fail(k)
      BY <3>1 DEF Fail, SetRow
    <3>2. CASE ~ Fail(k)
      <4>1. UNCHANGED row \/ \E s \in {"PENDING", "SUCCESS"} : SetRow(on[k], s)
        BY <2>2, <3>2 DEF Acts, Starts, initiate, Learn, Callback, Check, Work, InsertRow, Lookup,
           createPaymentIntent, CreateUnanswered, getTransactionStatus, Settle, CompleteOnce,
           complete_topup, complete_funded_transfer, FunctionMissing, ClaimRow, Credit, GiveBack,
           Mishap, InsertFailed, StatusUnanswered, CompleteFailed, CreditRefused,
           CreditUnanswered, Interrupt
      <4> QED BY <4>1 DEF SetRow
    <3> QED BY <3>1, <3>2
  <2> QED BY <2>1, <2>2, NextIs
<1> QED BY <1>1, FundInvInit, FundInvStep, PTL DEF Spec, SuccessNeverFails
=============================================================================
