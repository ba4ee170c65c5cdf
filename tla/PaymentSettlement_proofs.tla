---------------------- MODULE PaymentSettlement_proofs ----------------------
(***************************************************************************)
(* Proofs about PaymentSettlement, for any attempts, any overlap of their  *)
(* calls, callbacks, checks and job passes, any lost answers and stops.    *)
(***************************************************************************)
EXTENDS PaymentSettlement, TLAPS

USE DEF rows, books

-----------------------------------------------------------------------------
(* Types of the program counters and of the rows.                          *)

CallTypes ==
  /\ pc \in [Workers -> Steps]
  /\ on \in [Workers -> Attempts \cup {None}]
  /\ \A k \in Workers : pc[k] = "idle" <=> on[k] = None

RowTypes ==
  /\ request \in RequestStatuses
  /\ intent \in [Attempts -> IntentStatuses]
  /\ link \in Attempts \cup {None}
  /\ heard \subseteq Attempts
  /\ tx \in Attempts \cup {None}
  /\ booked \in BOOLEAN
  /\ credits \in {0, 1}
  /\ charge \in [Attempts -> Charges]

\* Who was debited and refunded, as plain counts, and about whom answers were lost.
CountTypes ==
  /\ debits \in [Attempts -> Nat]
  /\ refunds \in [Attempts -> Nat]
  /\ lost \in [Attempts -> SUBSET Misled]

Types == CallTypes /\ RowTypes /\ CountTypes

\* A busy worker works on an attempt.
LEMMA BusyOnAttempt ==
  ASSUME CallTypes, NEW k \in Workers, pc[k] # "idle"
  PROVE  on[k] \in Attempts
BY DEF CallTypes

\* The steps that Calls names.
LEMMA StepsAre ==
  Steps = {"idle", "check", "ask", "link", "intent", "revert", "debit", "success",
           "tx", "release", "book", "credit", "paid", "reread", "refund", "undo", "failure"}
BY DEF Steps, Calls

LEMMA BeginTypes ==
  ASSUME CallTypes, NEW k \in Workers, NEW a \in Attempts,
         NEW step \in Steps \ {"idle"}, Begin(k, a, step)
  PROVE  CallTypes'
BY PaymentAssumption DEF CallTypes, Begin

LEMMA GotoTypes ==
  ASSUME CallTypes, NEW k \in Workers, NEW step \in Steps \ {"idle"}, pc[k] # "idle", Moves(k, step)
  PROVE  CallTypes'
BY DEF CallTypes, Moves

LEMMA FinishTypes ==
  ASSUME CallTypes, NEW k \in Workers, Finish(k)
  PROVE  CallTypes'
<1>1. "idle" \in Steps
  BY StepsAre
<1> QED BY <1>1 DEF CallTypes, Finish

\* How a worker that is under way goes on.
LEMMA GoesOn ==
  ASSUME NEW k \in Workers, PayStep(k) \/ SettleStep(k) \/ Interrupt(k)
  PROVE  /\ pc[k] # "idle"
         /\ Finish(k) \/ \E step \in Steps \ {"idle"} : Moves(k, step)
<1> USE StepsAre DEF At, Goto, GotoMisled
<1>1. CASE PayStep(k)
  BY <1>1 DEF PayStep, AskProvider, AskRefused, LinkOrder, LinkRefused, InsertIntent,
              InsertRefused, RevertClaim, DebitPayer, DebitRefused
<1>2. CASE SettleStep(k)
  BY <1>2 DEF SettleStep, ClaimSuccess, NotClaimed, RecordTx, TxRefused,
              releaseSuccessClaim, BookEntries, CreditMerchant, MarkPaid, Reread,
              RefundPayer, UndoIntent, ClaimFailure, FailureNotClaimed, ReadRequest
<1>3. CASE Interrupt(k)
  BY <1>3 DEF Interrupt
<1> QED BY <1>1, <1>2, <1>3

\* A call that begins, and what it begins with.
Starts(k, a) ==
  \/ createPayment(k, a) \/ payWithWallet(k, a) \/ getPaymentStatus(k, a)
  \/ reconcilePending(k, a) \/ processWebhook(k, a)

LEMMA CallTypesStep == CallTypes /\ [Next]_vars => CallTypes'
<1> SUFFICES ASSUME CallTypes, [Next]_vars  PROVE CallTypes'
  OBVIOUS
<1>1. ASSUME NEW k \in Workers, NEW a \in Attempts, Starts(k, a)  PROVE CallTypes'
  <2>1. CASE UNCHANGED <<pc, on>>
    BY <2>1 DEF CallTypes
  <2>2. CASE \E step \in Steps \ {"idle"} : Begin(k, a, step)
    BY <2>2, BeginTypes
  <2> QED BY <1>1, <2>1, <2>2, StepsAre
          DEF Starts, createPayment, payWithWallet, getPaymentStatus, reconcilePending,
              AskAgain, processWebhook, Handler
<1>2. ASSUME NEW k \in Workers, PayStep(k) \/ SettleStep(k) \/ Interrupt(k)  PROVE CallTypes'
  BY <1>2, GoesOn, GotoTypes, FinishTypes
<1>3. CASE Surroundings \/ UNCHANGED vars
  BY <1>3 DEF CallTypes, Surroundings, ClaimLost, PayerAnswers, RetryCredit,
              cancelRequest, markExpired, vars
<1> QED BY <1>1, <1>2, <1>3 DEF Next, WorkerStep, Starts

LEMMA RowTypesStep == Types /\ [Next]_vars => RowTypes'
<1> SUFFICES ASSUME Types, [Next]_vars  PROVE RowTypes'
  OBVIOUS
<1> USE DEF Types, RowTypes, RequestStatuses, IntentStatuses, Charges
<1>1. ASSUME NEW k \in Workers, NEW a \in Attempts, Starts(k, a)  PROVE RowTypes'
  BY <1>1 DEF Starts, createPayment, payWithWallet, ClaimRequest, getPaymentStatus,
              reconcilePending, AskAgain, processWebhook
<1>2. ASSUME NEW k \in Workers, PayStep(k)  PROVE RowTypes'
  <2>1. on[k] \in Attempts
    BY <1>2, GoesOn, BusyOnAttempt
  <2> QED BY <1>2, <2>1 DEF PayStep, AskProvider, AskRefused, LinkOrder, LinkRefused,
              InsertIntent, InsertRefused, RevertClaim, DebitPayer, DebitRefused, SetIntent
<1>3. ASSUME NEW k \in Workers, SettleStep(k)  PROVE RowTypes'
  <2>1. on[k] \in Attempts
    BY <1>3, GoesOn, BusyOnAttempt
  <2> QED BY <1>3, <2>1 DEF SettleStep, ClaimSuccess, NotClaimed, RecordTx, TxRefused,
              releaseSuccessClaim, BookEntries, CreditMerchant, MarkPaid, Reread,
              RefundPayer, UndoIntent, ClaimFailure, FailureNotClaimed, ReadRequest,
              SetIntent, credit_merchant_wallet
<1>4. CASE Surroundings \/ UNCHANGED vars \/ \E k \in Workers : Interrupt(k)
  BY <1>4 DEF Surroundings, ClaimLost, ClaimRequest, PayerAnswers, RetryCredit,
              credit_merchant_wallet, cancelRequest, markExpired, Interrupt, vars
<1> QED BY <1>1, <1>2, <1>3, <1>4 DEF Next, WorkerStep, Starts

\* What a worker under way remembers that was lost.
LEMMA Remembers ==
  ASSUME NEW k \in Workers, PayStep(k) \/ SettleStep(k) \/ Interrupt(k)
  PROVE  UNCHANGED lost \/ \E call \in Misled : lost' = [lost EXCEPT ![on[k]] = @ \cup {call}]
<1> USE DEF Goto, GotoMisled, Finish, Misled
<1>1. CASE PayStep(k)
  BY <1>1 DEF PayStep, AskProvider, AskRefused, LinkOrder, LinkRefused, InsertIntent,
              InsertRefused, RevertClaim, DebitPayer, DebitRefused
<1>2. CASE SettleStep(k)
  BY <1>2 DEF SettleStep, ClaimSuccess, NotClaimed, RecordTx, TxRefused,
              releaseSuccessClaim, BookEntries, CreditMerchant, MarkPaid, Reread,
              RefundPayer, UndoIntent, ClaimFailure, FailureNotClaimed, ReadRequest
<1>3. CASE Interrupt(k)
  BY <1>3 DEF Interrupt
<1> QED BY <1>1, <1>2, <1>3

LEMMA LostWriters ==
  ASSUME [Next]_vars
  PROVE  \/ UNCHANGED lost
         \/ \E k \in Workers, call \in Misled : lost' = [lost EXCEPT ![on[k]] = @ \cup {call}]
<1>1. ASSUME NEW k \in Workers, NEW a \in Attempts, Starts(k, a)  PROVE UNCHANGED lost
  BY <1>1 DEF Starts, createPayment, payWithWallet, getPaymentStatus, reconcilePending,
              AskAgain, processWebhook, Begin
<1>2. CASE Surroundings \/ UNCHANGED vars
  BY <1>2 DEF Surroundings, ClaimLost, PayerAnswers, RetryCredit, cancelRequest,
              markExpired, vars
<1> QED BY <1>1, <1>2, Remembers DEF Next, WorkerStep, Starts

\* What was lost stays lost.
LEMMA LostStays ==
  ASSUME CountTypes, [Next]_vars
  PROVE  \A a \in Attempts : lost[a] \subseteq lost'[a]
BY LostWriters DEF CountTypes

LEMMA CountTypesStep == Types /\ [Next]_vars => CountTypes'
<1> SUFFICES ASSUME Types, [Next]_vars  PROVE CountTypes'
  OBVIOUS
<1> USE DEF Types, CountTypes
<1>1. debits' \in [Attempts -> Nat] /\ refunds' \in [Attempts -> Nat]
  <2>1. ASSUME NEW k \in Workers, DebitPayer(k) \/ RefundPayer(k)
        PROVE  debits' \in [Attempts -> Nat] /\ refunds' \in [Attempts -> Nat]
    BY <2>1 DEF DebitPayer, RefundPayer
  <2>2. CASE UNCHANGED <<debits, refunds>>
    BY <2>2
  <2> QED
    BY <2>1, <2>2 DEF Next, WorkerStep, createPayment, payWithWallet, ClaimRequest,
     getPaymentStatus, reconcilePending, AskAgain, processWebhook, Interrupt, PayStep,
     AskProvider, AskRefused, LinkOrder, LinkRefused, InsertIntent, InsertRefused,
     RevertClaim, DebitRefused, SettleStep, ClaimSuccess, NotClaimed, RecordTx, TxRefused,
     releaseSuccessClaim, BookEntries, CreditMerchant, MarkPaid, Reread, UndoIntent,
     ClaimFailure, FailureNotClaimed, ReadRequest, Surroundings, ClaimLost, PayerAnswers,
     RetryCredit, cancelRequest, markExpired, vars
<1>2. lost' \in [Attempts -> SUBSET Misled]
  BY LostWriters
<1> QED BY <1>1, <1>2

-----------------------------------------------------------------------------
(* The invariant.                                                          *)

\* An attempt whose intent is not written yet, or that pays from a wallet, is in
\* one pair of hands; the outcome of the others may be learnt by many.
Sole ==
  \A k, j \in Workers :
    on[k] = on[j] /\ on[k] # None /\ (on[k] \in Wallet \/ intent[on[k]] = "NONE") => k = j

\* What a worker at a step knows of its attempt.
Knows(k) ==
  /\ pc[k] \in {"ask", "link", "intent"} => intent[on[k]] = "NONE"
  /\ pc[k] = "ask" => charge[on[k]] = "none"
  /\ pc[k] \notin {"idle", "ask", "link", "intent", "revert"} => intent[on[k]] # "NONE"
  /\ pc[k] = "intent" => on[k] \in Wallet \/ link = on[k]
  /\ pc[k] \in {"ask", "link", "failure", "check"} => on[k] \notin Wallet
  /\ pc[k] \in {"debit", "refund", "undo"} => on[k] \in Wallet
  /\ pc[k] \in {"success", "tx"} => on[k] \in Wallet \/ charge[on[k]] = "paid"
  /\ pc[k] \in {"book", "credit", "paid"} => tx = on[k]
  /\ pc[k] \in {"credit", "paid"} => booked

\* Where the money of a wallet attempt is, by the step of its worker.
Wallets ==
  /\ \A a \in Attempts : intent[a] = "NONE" \/ a \notin Wallet => debits[a] = 0 /\ refunds[a] = 0
  /\ \A a \in Attempts : debits[a] \in {0, 1} /\ refunds[a] \in {0, 1}
  /\ \A k \in Workers : pc[k] = "debit" => debits[on[k]] = 0 /\ refunds[on[k]] = 0
  /\ \A k \in Workers :
       pc[k] \in {"success", "tx", "release", "book", "credit", "paid", "reread", "refund"}
         /\ on[k] \in Wallet
       => debits[on[k]] = 1 /\ refunds[on[k]] = 0

\* The rows of a request agree.
Recorded ==
  /\ credits > 0 => tx # None
  /\ tx # None => tx \in Wallet \/ charge[tx] = "paid"

PayInv ==
  /\ Types /\ Sole /\ (\A k \in Workers : Knows(k)) /\ Wallets /\ Recorded
  /\ SettledByOne /\ AsksAboutItsOrder /\ PaidIsBooked

-----------------------------------------------------------------------------
(* What a step leaves of what the others know.                             *)

\* A written intent is never unwritten, an order recorded stays, and so do the
\* holder of the transaction, its entries and the word of the provider.
LEMMA RowsStay ==
  ASSUME PayInv, [Next]_vars
  PROVE  /\ \A a \in Attempts : intent'[a] = "NONE" => intent[a] = "NONE"
         /\ link # None => link' = link
         /\ tx # None => tx' = tx
         /\ booked => booked'
         /\ \A a \in Attempts : charge[a] = "paid" => charge'[a] = "paid"
         /\ \A a \in Attempts : charge'[a] = "none" => charge[a] = "none"
         /\ credits' >= credits
<1> USE DEF PayInv, Types, RowTypes
<1>1. ASSUME NEW k \in Workers, NEW a \in Attempts, Starts(k, a)
      PROVE  UNCHANGED <<intent, link, tx, booked, charge, credits>>
  BY <1>1 DEF Starts, createPayment, payWithWallet, ClaimRequest, getPaymentStatus,
              reconcilePending, AskAgain, processWebhook
<1>2. ASSUME NEW k \in Workers, PayStep(k)
      PROVE  /\ UNCHANGED <<tx, booked, credits>>
             /\ link # None => link' = link
             /\ \A a \in Attempts : intent'[a] = "NONE" => intent[a] = "NONE"
             /\ \A a \in Attempts : charge[a] = "paid" => charge'[a] = "paid"
             /\ \A a \in Attempts : charge'[a] = "none" => charge[a] = "none"
  BY <1>2 DEF PayStep, AskProvider, AskRefused, LinkOrder, LinkRefused, InsertIntent,
              InsertRefused, RevertClaim, DebitPayer, DebitRefused, SetIntent, Knows, At
<1>3. ASSUME NEW k \in Workers, SettleStep(k)
      PROVE  /\ UNCHANGED <<link, charge>>
             /\ tx # None => tx' = tx
             /\ booked => booked'
             /\ credits' >= credits
             /\ \A a \in Attempts : intent'[a] = "NONE" => intent[a] = "NONE"
  <2> USE DEF SettleStep, ClaimSuccess, NotClaimed, RecordTx, TxRefused,
              releaseSuccessClaim, BookEntries, CreditMerchant, MarkPaid, Reread,
              RefundPayer, UndoIntent, ClaimFailure, FailureNotClaimed, ReadRequest
  <2>1. /\ UNCHANGED <<link, charge>>
        /\ tx # None => tx' = tx
        /\ booked => booked'
    BY <1>3
  <2>2. credits' = credits \/ credits' = 1
    BY <1>3 DEF credit_merchant_wallet
  <2>3. \A a \in Attempts : intent'[a] = "NONE" => intent[a] = "NONE"
    BY <1>3 DEF SetIntent
  <2>4. credits' >= credits
    BY <2>2
  <2> QED BY <2>1, <2>3, <2>4
<1>4. CASE Surroundings \/ UNCHANGED vars \/ \E k \in Workers : Interrupt(k)
  BY <1>4 DEF Surroundings, ClaimLost, ClaimRequest, PayerAnswers, RetryCredit,
              credit_merchant_wallet, cancelRequest, markExpired, Interrupt, vars
<1> QED BY <1>1, <1>2, <1>3, <1>4 DEF Next, WorkerStep, Starts

\* A worker under way moves itself alone, and touches its attempt alone.
LEMMA TouchesItsOwn ==
  ASSUME PayInv, NEW k \in Workers, PayStep(k) \/ SettleStep(k) \/ Interrupt(k)
  PROVE  /\ \A l \in Workers \ {k} : pc'[l] = pc[l] /\ on'[l] = on[l]
         /\ on'[k] \in {on[k], None}
         /\ \A a \in Attempts \ {on[k]} :
              /\ intent'[a] = intent[a] /\ charge'[a] = charge[a]
              /\ debits'[a] = debits[a] /\ refunds'[a] = refunds[a]
              /\ lost'[a] = lost[a]
<1> USE DEF PayInv, Types, RowTypes, CountTypes
<1>1. /\ \A l \in Workers \ {k} : pc'[l] = pc[l] /\ on'[l] = on[l]
      /\ on'[k] \in {on[k], None}
  <2>1. Finish(k) \/ \E step \in Steps : Moves(k, step)
    BY GoesOn
  <2> QED BY <2>1 DEF Finish, Moves, CallTypes
<1>0. \A a \in Attempts \ {on[k]} : lost'[a] = lost[a]
  <2>1. UNCHANGED lost \/ \E call \in Misled : lost' = [lost EXCEPT ![on[k]] = @ \cup {call}]
    BY Remembers
  <2> QED BY <2>1
<1>2. CASE PayStep(k)
  BY <1>0, <1>1, <1>2 DEF PayStep, AskProvider, AskRefused, LinkOrder, LinkRefused, InsertIntent,
              InsertRefused, RevertClaim, DebitPayer, DebitRefused, SetIntent
<1>3. CASE SettleStep(k)
  BY <1>0, <1>1, <1>3 DEF SettleStep, ClaimSuccess, NotClaimed, RecordTx, TxRefused,
              releaseSuccessClaim, BookEntries, CreditMerchant, MarkPaid, Reread,
              RefundPayer, UndoIntent, ClaimFailure, FailureNotClaimed, ReadRequest, SetIntent
<1>4. CASE Interrupt(k)
  BY <1>0, <1>1, <1>4 DEF Interrupt
<1> QED BY <1>2, <1>3, <1>4

\* What a call that begins touches: the request, the callbacks' log and itself.
LEMMA BeginsAlone ==
  ASSUME PayInv, NEW k \in Workers, NEW a \in Attempts, Starts(k, a)
  PROVE  /\ UNCHANGED <<intent, link, books, charge, lost>>
         /\ \A l \in Workers \ {k} : pc'[l] = pc[l] /\ on'[l] = on[l]
         /\ \/ UNCHANGED <<pc, on>>
            \/ /\ pc[k] = "idle" /\ on'[k] = a
               /\ Free(a) \/ (a \notin Wallet /\ intent[a] # "NONE")
<1> USE DEF PayInv, Types, CallTypes
<1>1. /\ UNCHANGED <<intent, link, books, charge, lost>>
      /\ UNCHANGED <<pc, on>> \/ \E step \in Steps : Begin(k, a, step)
      /\ \/ UNCHANGED <<pc, on>>
         \/ Free(a) \/ (a \notin Wallet /\ intent[a] # "NONE")
  BY StepsAre DEF Starts, createPayment, payWithWallet, ClaimRequest, MayStart,
     getPaymentStatus, reconcilePending, AskAgain, processWebhook, Handler, Begin
<1> QED BY <1>1 DEF Begin, At

LEMMA SoleStep == PayInv /\ [Next]_vars => Sole'
<1> SUFFICES ASSUME PayInv, [Next]_vars  PROVE Sole'
  OBVIOUS
<1>0. Sole /\ CallTypes /\ \A a \in Attempts : intent'[a] = "NONE" => intent[a] = "NONE"
  BY RowsStay DEF PayInv, Types
<1>1. ASSUME NEW k \in Workers, NEW a \in Attempts, Starts(k, a)  PROVE Sole'
  BY <1>0, <1>1, BeginsAlone DEF Sole, Free, CallTypes
<1>2. ASSUME NEW k \in Workers, PayStep(k) \/ SettleStep(k) \/ Interrupt(k)  PROVE Sole'
  BY <1>0, <1>2, TouchesItsOwn DEF Sole, CallTypes
<1>3. CASE Surroundings \/ UNCHANGED vars
  <2>1. UNCHANGED <<intent, on>>
    BY <1>3 DEF Surroundings, ClaimLost, ClaimRequest, PayerAnswers, RetryCredit,
                cancelRequest, markExpired, vars
  <2> QED BY <1>0, <2>1 DEF Sole
<1> QED BY <1>1, <1>2, <1>3 DEF Next, WorkerStep, Starts

\* A worker that does not move knows what it knew.
LEMMA StillKnows ==
  ASSUME PayInv, [Next]_vars, NEW l \in Workers, pc'[l] = pc[l], on'[l] = on[l],
         pc[l] \in {"ask", "link", "intent"} => intent'[on[l]] = intent[on[l]],
         pc[l] = "ask" => charge'[on[l]] = charge[on[l]]
  PROVE  Knows(l)'
<1>1. Knows(l) /\ CallTypes /\ None \notin Attempts
  BY PaymentAssumption DEF PayInv, Types
<1>2. pc[l] # "idle" => on[l] \in Attempts
  BY <1>1 DEF CallTypes
<1> QED BY <1>1, <1>2, RowsStay DEF Knows

\* Nobody else is opening the attempt a worker works on.
LEMMA OthersKnow ==
  ASSUME PayInv, [Next]_vars, NEW k \in Workers, PayStep(k) \/ SettleStep(k) \/ Interrupt(k),
         NEW l \in Workers \ {k}
  PROVE  Knows(l)'
<1>1. pc'[l] = pc[l] /\ on'[l] = on[l]
  BY TouchesItsOwn
<1>2. ASSUME pc[l] \in {"ask", "link", "intent"}
      PROVE  intent'[on[l]] = intent[on[l]] /\ charge'[on[l]] = charge[on[l]]
  <2>1. Knows(l) /\ CallTypes /\ None \notin Attempts
    BY PaymentAssumption DEF PayInv, Types
  <2>2. on[l] \in Attempts /\ intent[on[l]] = "NONE"
    BY <1>2, <2>1 DEF CallTypes, Knows
  <2>3. on[l] # on[k]
    BY <2>1, <2>2 DEF PayInv, Sole
  <2> QED BY <2>2, <2>3, TouchesItsOwn
<1> QED BY <1>1, <1>2, StillKnows

LEMMA BeginnerKnows ==
  ASSUME PayInv, NEW k \in Workers, NEW a \in Attempts, Starts(k, a), ~ UNCHANGED <<pc, on>>
  PROVE  Knows(k)'
<1>0. CallTypes /\ RowTypes
  BY DEF PayInv, Types
<1>1. ASSUME createPayment(k, a) \/ payWithWallet(k, a)  PROVE Knows(k)'
  BY <1>0, <1>1 DEF createPayment, payWithWallet, ClaimRequest, MayStart, Begin, Knows, CallTypes
<1>2. ASSUME AskAgain(k, a)  PROVE Knows(k)'
  <2>1. link = a
    BY <1>2 DEF AskAgain, PayInv, AsksAboutItsOrder
  <2> QED BY <1>0, <1>2, <2>1 DEF AskAgain, Begin, Handler, Knows, CallTypes
<1>3. ASSUME processWebhook(k, a)  PROVE Knows(k)'
  BY <1>0, <1>3 DEF processWebhook, Begin, Handler, Knows, CallTypes
<1> QED BY <1>1, <1>2, <1>3 DEF Starts, getPaymentStatus, reconcilePending

LEMMA ActorKnows ==
  ASSUME PayInv, NEW k \in Workers, PayStep(k) \/ SettleStep(k) \/ Interrupt(k)
  PROVE  Knows(k)'
<1>0. Knows(k) /\ CallTypes /\ RowTypes /\ pc[k] # "idle" /\ on[k] \in Attempts
  BY GoesOn, BusyOnAttempt DEF PayInv, Types
<1> USE DEF Knows, CallTypes, At, Goto, GotoMisled, Moves, Finish
<1>1. CASE PayStep(k)
  <2>1. CASE AskProvider(k) \/ AskRefused(k)
    BY <1>0, <2>1 DEF AskProvider, AskRefused
  <2>2. CASE LinkOrder(k) \/ LinkRefused(k)
    BY <1>0, <2>2 DEF LinkOrder, LinkRefused
  <2>3. CASE InsertIntent(k) \/ InsertRefused(k)
    BY <1>0, <2>3 DEF InsertIntent, InsertRefused, SetIntent, RowTypes
  <2>4. CASE RevertClaim(k) \/ DebitPayer(k) \/ DebitRefused(k)
    BY <1>0, <2>4 DEF RevertClaim, DebitPayer, DebitRefused
  <2> QED BY <1>1, <2>1, <2>2, <2>3, <2>4 DEF PayStep
<1>2. CASE SettleStep(k)
  <2>1. CASE ClaimSuccess(k) \/ NotClaimed(k)
    BY <1>0, <2>1 DEF ClaimSuccess, NotClaimed, SetIntent, RowTypes
  <2>2. CASE RecordTx(k) \/ TxRefused(k) \/ releaseSuccessClaim(k)
    BY <1>0, <2>2 DEF RecordTx, TxRefused, releaseSuccessClaim, SetIntent, RowTypes
  <2>3. CASE BookEntries(k) \/ CreditMerchant(k) \/ MarkPaid(k)
    BY <1>0, <2>3 DEF BookEntries, CreditMerchant, MarkPaid
  <2>4. CASE Reread(k) \/ RefundPayer(k) \/ UndoIntent(k)
    BY <1>0, <2>4 DEF Reread, RefundPayer, UndoIntent
  <2>5. CASE ClaimFailure(k) \/ FailureNotClaimed(k) \/ ReadRequest(k)
    BY <1>0, <2>5 DEF ClaimFailure, FailureNotClaimed, ReadRequest, SetIntent, RowTypes
  <2> QED BY <1>2, <2>1, <2>2, <2>3, <2>4, <2>5 DEF SettleStep
<1>3. CASE Interrupt(k)
  BY <1>0, <1>3 DEF Interrupt
<1> QED BY <1>1, <1>2, <1>3

LEMMA KnowsStep == PayInv /\ [Next]_vars => \A k \in Workers : Knows(k)'
<1> SUFFICES ASSUME PayInv, [Next]_vars, NEW l \in Workers  PROVE Knows(l)'
  OBVIOUS
<1>1. ASSUME NEW k \in Workers, NEW a \in Attempts, Starts(k, a)  PROVE Knows(l)'
  <2>1. UNCHANGED <<intent, charge>>
    BY <1>1, BeginsAlone
  <2>2. CASE l = k /\ ~ UNCHANGED <<pc, on>>
    BY <1>1, <2>2, BeginnerKnows
  <2>3. CASE l # k \/ UNCHANGED <<pc, on>>
    BY <1>1, <2>1, <2>3, BeginsAlone, StillKnows
  <2> QED BY <2>2, <2>3
<1>2. ASSUME NEW k \in Workers, PayStep(k) \/ SettleStep(k) \/ Interrupt(k)  PROVE Knows(l)'
  BY <1>2, OthersKnow, ActorKnows
<1>3. CASE Surroundings \/ UNCHANGED vars
  <2>1. UNCHANGED <<pc, on, intent>> /\ \A a \in Attempts : charge[a] = "none" => charge'[a] = "none"
    BY <1>3 DEF Surroundings, ClaimLost, ClaimRequest, PayerAnswers, RetryCredit,
                cancelRequest, markExpired, vars, PayInv, Types, RowTypes
  <2>2. pc[l] = "ask" => charge[on[l]] = "none" /\ on[l] \in Attempts
    BY DEF PayInv, Knows, Types, CallTypes
  <2> QED BY <2>1, <2>2, StillKnows
<1> QED BY <1>1, <1>2, <1>3 DEF Next, WorkerStep, Starts

-----------------------------------------------------------------------------
(* The rows agree with each other.                                         *)

LEMMA WalletsStep == PayInv /\ [Next]_vars => Wallets'
<1> SUFFICES ASSUME PayInv, [Next]_vars  PROVE Wallets'
  OBVIOUS
<1>0. Wallets /\ CallTypes /\ CountTypes /\ \A a \in Attempts : intent'[a] = "NONE" => intent[a] = "NONE"
  BY RowsStay DEF PayInv, Types
<1> USE DEF Wallets, CallTypes, CountTypes
<1>1. ASSUME NEW k \in Workers, NEW a \in Attempts, Starts(k, a)  PROVE Wallets'
  <2>1. UNCHANGED <<intent, debits, refunds>>
    BY <1>1, BeginsAlone
  <2>2. UNCHANGED <<pc, on>> \/ pc'[k] \in {"ask", "intent"} \/ on'[k] \notin Wallet
    BY <1>0, <1>1 DEF Starts, createPayment, payWithWallet, Begin, getPaymentStatus,
       reconcilePending, AskAgain, processWebhook
  <2>3. UNCHANGED <<pc, on>> \/ pc'[k] # "debit"
    BY <1>0, <1>1 DEF Starts, createPayment, payWithWallet, Begin, getPaymentStatus,
       reconcilePending, AskAgain, processWebhook, Handler
  <2> QED BY <1>0, <1>1, <2>1, <2>2, <2>3, BeginsAlone
<1>2. ASSUME NEW k \in Workers, PayStep(k) \/ SettleStep(k) \/ Interrupt(k)  PROVE Wallets'
  <2>0. Knows(k) /\ on[k] \in Attempts /\ Sole
    BY <1>2, GoesOn, BusyOnAttempt DEF PayInv, Types
  <2>1. ASSUME DebitPayer(k) \/ RefundPayer(k)  PROVE Wallets'
    <3>1. on[k] \in Wallet /\ intent[on[k]] # "NONE" /\ UNCHANGED <<intent, on>>
      BY <2>0, <2>1 DEF DebitPayer, RefundPayer, Knows, At, Goto, GotoMisled, Moves
    <3>2. \A l \in Workers \ {k} : on[l] # on[k] /\ pc'[l] = pc[l]
      BY <1>2, <2>0, <3>1, TouchesItsOwn, PaymentAssumption DEF Sole
    <3>3. /\ debits[on[k]] + refunds[on[k]] < debits'[on[k]] + refunds'[on[k]] \/ UNCHANGED <<debits, refunds>>
          /\ debits'[on[k]] \in {0, 1} /\ refunds'[on[k]] \in {0, 1}
      BY <1>0, <2>0, <2>1, <3>1 DEF DebitPayer, RefundPayer, At
    <3>4. \A a \in Attempts \ {on[k]} : debits'[a] = debits[a] /\ refunds'[a] = refunds[a]
      BY <1>2, TouchesItsOwn
    <3>5. pc'[k] \in {"success", "undo"} /\ (pc'[k] = "success" => debits'[on[k]] = 1 /\ refunds'[on[k]] = 0)
      BY <1>0, <2>0, <2>1 DEF DebitPayer, RefundPayer, At, Goto, GotoMisled, Moves
    <3> QED BY <1>0, <3>1, <3>2, <3>3, <3>4, <3>5
  <2>2. ASSUME ~ DebitPayer(k), ~ RefundPayer(k)  PROVE Wallets'
    <3>1. UNCHANGED <<debits, refunds>>
      BY <1>2, <2>2 DEF PayStep, AskProvider, AskRefused, LinkOrder, LinkRefused, InsertIntent,
         InsertRefused, RevertClaim, DebitRefused, SettleStep, ClaimSuccess, NotClaimed,
         RecordTx, TxRefused, releaseSuccessClaim, BookEntries, CreditMerchant, MarkPaid,
         Reread, UndoIntent, ClaimFailure, FailureNotClaimed, ReadRequest, Interrupt
    <3>2. \/ pc'[k] \in {"idle", "ask", "link", "intent", "revert", "undo", "failure", "check"}
          \/ pc[k] = "intent" /\ pc'[k] = "debit" /\ on[k] \in Wallet
          \/ /\ pc[k] \in {"success", "tx", "release", "book", "credit", "paid", "reread", "refund"}
             /\ pc'[k] # "debit"
      BY <1>0, <1>2, <2>2 DEF PayStep, AskProvider, AskRefused, LinkOrder, LinkRefused,
         InsertIntent, InsertRefused, RevertClaim, DebitRefused, SettleStep, ClaimSuccess,
         NotClaimed, RecordTx, TxRefused, releaseSuccessClaim, BookEntries, CreditMerchant,
         MarkPaid, Reread, UndoIntent, ClaimFailure, FailureNotClaimed, ReadRequest,
         Interrupt, At, Goto, GotoMisled, Moves, Finish
    <3>3. pc[k] = "intent" => intent[on[k]] = "NONE"
      BY <2>0 DEF Knows
    <3>4. on'[k] \in {on[k], None} /\ \A l \in Workers \ {k} : pc'[l] = pc[l] /\ on'[l] = on[l]
      BY <1>2, TouchesItsOwn
    <3>5. None \notin Wallet
      BY PaymentAssumption
    <3>6. pc'[k] = "debit" => on'[k] = on[k]
      BY <1>0, <1>2, <3>4, CallTypesStep
    <3> QED BY <1>0, <2>0, <3>1, <3>2, <3>3, <3>4, <3>5, <3>6
  <2> QED BY <2>1, <2>2
<1>3. CASE Surroundings \/ UNCHANGED vars
  <2>1. UNCHANGED <<intent, debits, refunds, pc, on, lost>>
    BY <1>3 DEF Surroundings, ClaimLost, ClaimRequest, PayerAnswers, RetryCredit,
                cancelRequest, markExpired, vars
  <2> QED BY <1>0, <2>1
<1> QED BY <1>1, <1>2, <1>3 DEF Next, WorkerStep, Starts
\* Only these steps write an intent.
LEMMA IntentWriters ==
  ASSUME PayInv, NEW k \in Workers, PayStep(k) \/ SettleStep(k) \/ Interrupt(k)
  PROVE  \/ UNCHANGED intent
         \/ InsertIntent(k) \/ ClaimSuccess(k) \/ releaseSuccessClaim(k)
         \/ UndoIntent(k) \/ ClaimFailure(k)
BY DEF PayStep, AskProvider, AskRefused, LinkOrder, LinkRefused, InsertRefused, RevertClaim,
   DebitPayer, DebitRefused, SettleStep, NotClaimed, RecordTx, TxRefused, BookEntries,
   CreditMerchant, MarkPaid, Reread, RefundPayer, FailureNotClaimed, ReadRequest, Interrupt

\* A worker that settles an attempt keeps it to itself.
LEMMA SettledStep == PayInv /\ [Next]_vars => SettledByOne'
<1> SUFFICES ASSUME PayInv, [Next]_vars  PROVE SettledByOne'
  OBVIOUS
<1>0. SettledByOne /\ CallTypes /\ RowTypes /\ Sole /\ \A l \in Workers : Knows(l)
  BY DEF PayInv, Types
<1> USE DEF SettledByOne, Settling
<1>1. ASSUME NEW k \in Workers, NEW a \in Attempts, Starts(k, a)  PROVE SettledByOne'
  <2>1. UNCHANGED <<pc, on>> \/ pc'[k] \notin Settling
    BY <1>0, <1>1 DEF Starts, createPayment, payWithWallet, Begin, getPaymentStatus,
       reconcilePending, AskAgain, processWebhook, Handler, CallTypes
  <2> QED BY <1>0, <1>1, <2>1, BeginsAlone
<1>2. ASSUME NEW k \in Workers, PayStep(k) \/ SettleStep(k) \/ Interrupt(k)  PROVE SettledByOne'
  <2>0. /\ on[k] \in Attempts
        /\ \A l \in Workers \ {k} : pc'[l] = pc[l] /\ on'[l] = on[l]
        /\ \A l \in Workers : pc[l] \in Settling => on[l] \in Attempts
        /\ \A a \in Attempts \ {on[k]} : intent'[a] = intent[a]
    BY <1>0, <1>2, GoesOn, BusyOnAttempt, TouchesItsOwn DEF Settling
  \* The others keep what they settle.
  <2>1. ASSUME NEW l \in Workers \ {k}, pc[l] \in Settling  PROVE intent'[on[l]] = "SUCCEEDED"
    <3>1. intent[on[l]] = "SUCCEEDED" /\ on[l] \in Attempts
      BY <1>0, <2>0, <2>1
    <3>2. CASE on[l] # on[k]
      BY <2>0, <3>1, <3>2
    <3>3. CASE on[l] = on[k]
      <4>1. on[k] \notin Wallet /\ pc[k] \notin Settling
        BY <1>0, <2>0, <2>1, <3>1, <3>3, PaymentAssumption DEF Sole
      <4>2. intent[on[k]] = "SUCCEEDED"
        BY <3>1, <3>3
      <4>3. ~ InsertIntent(k) /\ ~ UndoIntent(k) /\ ~ ClaimSuccess(k)
            /\ ~ ClaimFailure(k) /\ ~ releaseSuccessClaim(k)
        BY <1>0, <4>1, <4>2 DEF Knows, InsertIntent, UndoIntent, ClaimSuccess, ClaimFailure,
           releaseSuccessClaim, At
      <4> QED BY <1>2, <3>1, <4>3, IntentWriters
    <3> QED BY <3>2, <3>3
  \* It comes to settle by its claim alone.
  <2>2. pc'[k] \in Settling =>
          /\ on'[k] = on[k] /\ intent'[on[k]] = "SUCCEEDED"
          /\ pc[k] \in Settling \/ intent[on[k]] = "PENDING"
    <3> USE DEF At, Goto, GotoMisled, Moves, Finish, CallTypes, RowTypes
    <3>1. CASE PayStep(k)
      BY <1>0, <3>1 DEF PayStep, AskProvider, AskRefused, LinkOrder, LinkRefused,
         InsertIntent, InsertRefused, RevertClaim, DebitPayer, DebitRefused
    <3>2. CASE ClaimSuccess(k)
      BY <1>0, <2>0, <3>2 DEF ClaimSuccess, SetIntent
    <3>3. CASE RecordTx(k) \/ TxRefused(k) \/ BookEntries(k) \/ CreditMerchant(k)
      BY <1>0, <3>3 DEF RecordTx, TxRefused, BookEntries, CreditMerchant
    <3>4. CASE SettleStep(k) /\ ~ ClaimSuccess(k) /\ ~ RecordTx(k) /\ ~ TxRefused(k)
               /\ ~ BookEntries(k) /\ ~ CreditMerchant(k)
      BY <1>0, <3>4 DEF SettleStep, NotClaimed, releaseSuccessClaim, MarkPaid, Reread,
         RefundPayer, UndoIntent, ClaimFailure, FailureNotClaimed, ReadRequest
    <3>5. CASE Interrupt(k)
      BY <1>0, <3>5 DEF Interrupt
    <3> QED BY <1>2, <3>1, <3>2, <3>3, <3>4, <3>5
  <2>3. \A l \in Workers \ {k} : pc[l] \in Settling /\ pc'[k] \in Settling => on[l] # on[k]
    BY <1>0, <2>0, <2>2
  <2> QED BY <1>0, <2>0, <2>1, <2>2, <2>3
<1>3. CASE Surroundings \/ UNCHANGED vars
  <2>1. UNCHANGED <<intent, pc, on>>
    BY <1>3 DEF Surroundings, ClaimLost, ClaimRequest, PayerAnswers, RetryCredit,
                cancelRequest, markExpired, vars
  <2> QED BY <1>0, <2>1
<1> QED BY <1>1, <1>2, <1>3 DEF Next, WorkerStep, Starts

\* A provider intent is written by the one whose order was recorded.
LEMMA AsksStep == PayInv /\ [Next]_vars => AsksAboutItsOrder'
<1> SUFFICES ASSUME PayInv, [Next]_vars, NEW a \in Attempts \ Wallet, intent'[a] # "NONE"
    PROVE  link' = a
  BY DEF AsksAboutItsOrder
<1>0. RowTypes /\ CallTypes /\ AsksAboutItsOrder /\ None \notin Attempts
  BY PaymentAssumption DEF PayInv, Types
<1>1. CASE intent[a] # "NONE"
  BY <1>0, <1>1, RowsStay DEF AsksAboutItsOrder
<1>2. CASE intent[a] = "NONE"
  <2>1. PICK k \in Workers : (PayStep(k) \/ SettleStep(k) \/ Interrupt(k)) /\ on[k] = a
    <3>1. ASSUME NEW k \in Workers, NEW b \in Attempts  PROVE ~ Starts(k, b)
      BY <1>2, BeginsAlone
    <3>2. ~ (Surroundings \/ UNCHANGED vars)
      BY <1>2 DEF Surroundings, ClaimLost, ClaimRequest, PayerAnswers, RetryCredit,
                  cancelRequest, markExpired, vars
    <3>3. PICK k \in Workers : PayStep(k) \/ SettleStep(k) \/ Interrupt(k)
      BY <3>1, <3>2 DEF Next, WorkerStep, Starts
    <3>4. on[k] = a
      BY <1>2, <3>3, TouchesItsOwn
    <3> QED BY <3>3, <3>4
  <2>2. Knows(k) /\ pc[k] # "idle"
    BY <2>1, GoesOn DEF PayInv
  <2>3. InsertIntent(k)
    BY <1>2, <2>1, <2>2, IntentWriters DEF ClaimSuccess, releaseSuccessClaim, UndoIntent,
       ClaimFailure, Knows, At
  <2> QED BY <2>1, <2>2, <2>3 DEF InsertIntent, Knows, At
<1> QED BY <1>1, <1>2

LEMMA RecordedStep == PayInv /\ [Next]_vars => Recorded' /\ PaidIsBooked'
<1> SUFFICES ASSUME PayInv, [Next]_vars  PROVE Recorded' /\ PaidIsBooked'
  OBVIOUS
<1>0. /\ Recorded /\ PaidIsBooked /\ CallTypes /\ RowTypes
      /\ tx # None => tx' = tx
      /\ booked => booked'
      /\ \A a \in Attempts : charge[a] = "paid" => charge'[a] = "paid"
      /\ None \notin Attempts
  BY RowsStay, PaymentAssumption DEF PayInv, Types
<1> USE DEF Recorded, PaidIsBooked, RowTypes
<1>1. ASSUME NEW k \in Workers, RecordTx(k)  PROVE Recorded' /\ PaidIsBooked'
  <2>1. on[k] \in Attempts /\ (on[k] \in Wallet \/ charge[on[k]] = "paid")
    BY <1>0, <1>1, BusyOnAttempt DEF PayInv, Knows, RecordTx, At
  <2> QED BY <1>0, <1>1, <2>1 DEF RecordTx
<1>2. ASSUME NEW k \in Workers, CreditMerchant(k) \/ MarkPaid(k)  PROVE Recorded' /\ PaidIsBooked'
  <2>1. tx = on[k] /\ on[k] \in Attempts /\ booked
    BY <1>0, <1>2, BusyOnAttempt DEF PayInv, Knows, CreditMerchant, MarkPaid, At
  <2> QED BY <1>0, <1>2, <2>1 DEF CreditMerchant, MarkPaid
<1>3. CASE RetryCredit
  BY <1>0, <1>3 DEF RetryCredit
<1>4. CASE /\ \A k \in Workers : ~ RecordTx(k) /\ ~ CreditMerchant(k) /\ ~ MarkPaid(k)
           /\ ~ RetryCredit
  <2>1. UNCHANGED <<tx, credits>> /\ (request' = "PAID" => request = "PAID")
    BY <1>4 DEF Next, WorkerStep, createPayment, payWithWallet, ClaimRequest,
     getPaymentStatus, reconcilePending, AskAgain, processWebhook, Interrupt, PayStep,
     AskProvider, AskRefused, LinkOrder, LinkRefused, InsertIntent, InsertRefused,
     RevertClaim, DebitPayer, DebitRefused, SettleStep, ClaimSuccess, NotClaimed, TxRefused,
     releaseSuccessClaim, BookEntries, Reread, RefundPayer, UndoIntent,
     ClaimFailure, FailureNotClaimed, ReadRequest, Surroundings, ClaimLost, PayerAnswers,
     cancelRequest, markExpired, vars
  <2> QED BY <1>0, <2>1
<1> QED BY <1>1, <1>2, <1>3, <1>4
-----------------------------------------------------------------------------
(* The theorems that need nothing of the calls.                            *)

LEMMA PayInvInit == Init => PayInv
<1> SUFFICES ASSUME Init  PROVE PayInv
  OBVIOUS
<1> USE PaymentAssumption DEF Init
<1>1. Types
  BY StepsAre DEF Types, CallTypes, RowTypes, CountTypes, RequestStatuses, IntentStatuses, Charges
<1>2. Sole /\ (\A k \in Workers : Knows(k))
  BY DEF Sole, Knows
<1>3. Wallets /\ Recorded
  BY DEF Wallets, Recorded
<1>4. SettledByOne /\ AsksAboutItsOrder /\ PaidIsBooked
  BY DEF SettledByOne, Settling, AsksAboutItsOrder, PaidIsBooked
<1> QED BY <1>1, <1>2, <1>3, <1>4 DEF PayInv

LEMMA PayInvStep == PayInv /\ [Next]_vars => PayInv'
<1> SUFFICES ASSUME PayInv, [Next]_vars  PROVE PayInv'
  OBVIOUS
<1>1. Types'
  BY CallTypesStep, RowTypesStep, CountTypesStep DEF PayInv, Types
<1>2. Sole' /\ (\A k \in Workers : Knows(k))' /\ Wallets' /\ Recorded' /\ PaidIsBooked'
  BY SoleStep, KnowsStep, WalletsStep, RecordedStep
<1>3. SettledByOne' /\ AsksAboutItsOrder'
  BY SettledStep, AsksStep
<1> QED BY <1>1, <1>2, <1>3 DEF PayInv

LEMMA PayInvHolds == Spec => []PayInv
BY PayInvInit, PayInvStep, PTL DEF Spec

\* TypeOK, for any attempts and workers: above all, whatever is asked again, a
\* wallet is debited and given back once at most for an attempt.
THEOREM TypesHold == Spec => []TypeOK
<1>1. PayInv => TypeOK
  <2> SUFFICES ASSUME PayInv  PROVE TypeOK
    OBVIOUS
  <2>1. Types /\ debits \in [Attempts -> {0, 1}] /\ refunds \in [Attempts -> {0, 1}]
    BY DEF PayInv, Types, CountTypes, Wallets
  <2>2. \A k \in Workers : pc[k] # "idle" => on[k] \in Attempts
    BY <2>1, BusyOnAttempt DEF Types
  <2> QED BY <2>1, <2>2 DEF TypeOK, Types, CallTypes, RowTypes, CountTypes
<1> QED BY <1>1, PayInvHolds, PTL

\* SettledOnItsOrder: between the success claim and the end of the handler nobody else
\* settles the attempt (PS handleSuccessfulPayment), and the order recorded for the
\* reference is that of the intent that carries it (FPA getTransactionStatus).
THEOREM OneSettlerOneOrder == Spec => []SettledOnItsOrder
<1>1. PayInv => SettledOnItsOrder
  BY DEF PayInv, SettledOnItsOrder
<1> QED BY <1>1, PayInvHolds, PTL

\* PaidIsBooked: a request shown as paid has its transaction and its entries.
THEOREM PaidIsInTheBooks == Spec => []PaidIsBooked
<1>1. PayInv => PaidIsBooked
  BY DEF PayInv
<1> QED BY <1>1, PayInvHolds, PTL

-----------------------------------------------------------------------------
(* The money of the recorded payment.                                      *)

\* What was taken for the recorded payment is kept, and whoever gives money back
\* does so for an attempt that is not recorded, or whose second look (PS Reread)
\* was not answered.
Kept ==
  /\ tx \in Wallet => debits[tx] = 1 /\ (refunds[tx] = 0 \/ "reread" \in lost[tx])
  /\ \A k \in Workers : pc[k] = "refund" /\ tx = on[k] => "reread" \in lost[tx]

LEMMA KeptInit == Init => Kept
BY PaymentAssumption DEF Init, Kept

LEMMA KeptStep ==
  ASSUME PayInv, Kept, [Next]_vars
  PROVE  Kept'
<1>0. /\ CallTypes /\ RowTypes /\ CountTypes /\ Wallets /\ Sole
      /\ \A l \in Workers : Knows(l)
      /\ tx # None => tx' = tx
      /\ None \notin Attempts /\ Wallet \subseteq Attempts
      /\ \A a \in Attempts : "reread" \in lost[a] => "reread" \in lost'[a]
      /\ \A l \in Workers : pc[l] = "refund" => on[l] \in Attempts
  BY RowsStay, LostStays, BusyOnAttempt, PaymentAssumption DEF PayInv, Types
<1> USE DEF Kept
<1>1. ASSUME NEW k \in Workers, NEW a \in Attempts, Starts(k, a)  PROVE Kept'
  <2>1. UNCHANGED <<pc, on>> \/ pc'[k] # "refund"
    BY <1>0, <1>1 DEF Starts, createPayment, payWithWallet, Begin, getPaymentStatus,
       reconcilePending, AskAgain, processWebhook, Handler, CallTypes
  <2> QED BY <1>1, <2>1, BeginsAlone
<1>2. ASSUME NEW k \in Workers, PayStep(k) \/ SettleStep(k) \/ Interrupt(k)  PROVE Kept'
  <2>0. /\ on[k] \in Attempts
        /\ \A l \in Workers \ {k} : pc'[l] = pc[l] /\ on'[l] = on[l]
        /\ \A a \in Attempts \ {on[k]} : debits'[a] = debits[a] /\ refunds'[a] = refunds[a]
    BY <1>0, <1>2, GoesOn, BusyOnAttempt, TouchesItsOwn
  <2>1. CASE RecordTx(k)
    <3>1. tx' = on[k] /\ UNCHANGED <<debits, refunds, on>> /\ pc[k] = "tx" /\ pc'[k] # "refund"
      BY <1>0, <2>1 DEF RecordTx, At, Goto, GotoMisled, Moves, CallTypes
    <3>2. on[k] \in Wallet => debits[on[k]] = 1 /\ refunds[on[k]] = 0
      BY <1>0, <3>1 DEF Wallets
    <3>3. \A l \in Workers : pc'[l] = "refund" => on[l] # on[k]
      BY <1>0, <2>0, <3>1 DEF Knows, Sole
    <3> QED BY <3>1, <3>2, <3>3
  <2>2. CASE DebitPayer(k)
    <3>1. tx # on[k] /\ UNCHANGED <<tx, on>> /\ pc'[k] # "refund"
      BY <1>0, <2>0, <2>2 DEF DebitPayer, Knows, Wallets, At, Goto, GotoMisled, Moves, CallTypes
    <3> QED BY <1>0, <2>0, <3>1
  <2>3. CASE RefundPayer(k)
    <3>1. /\ UNCHANGED <<tx, on, debits>> /\ pc'[k] # "refund"
          /\ tx = on[k] => "reread" \in lost[on[k]]
      BY <1>0, <2>0, <2>3 DEF RefundPayer, At, Goto, GotoMisled, Moves, CallTypes
    <3> QED BY <1>0, <2>0, <3>1
  <2>4. CASE Reread(k)
    <3>1. UNCHANGED <<tx, debits, refunds>> /\ (pc'[k] = "refund" => on'[k] = on[k] /\ (tx = on[k] => "reread" \in lost'[on[k]]))
      BY <1>0, <2>0, <2>4 DEF Reread, CountTypes, Goto, GotoMisled, Moves, Finish, CallTypes
    <3> QED BY <1>0, <2>0, <3>1
  <2>5. CASE ~ RecordTx(k) /\ ~ DebitPayer(k) /\ ~ RefundPayer(k) /\ ~ Reread(k)
    <3>1. UNCHANGED <<tx, debits, refunds>> /\ pc'[k] # "refund"
      BY <1>0, <1>2, <2>5 DEF PayStep, AskProvider, AskRefused, LinkOrder, LinkRefused,
         InsertIntent, InsertRefused, RevertClaim, DebitRefused, SettleStep, ClaimSuccess,
         NotClaimed, TxRefused, releaseSuccessClaim, BookEntries, CreditMerchant, MarkPaid,
         UndoIntent, ClaimFailure, FailureNotClaimed, ReadRequest, Interrupt, Goto, GotoMisled, Moves, Finish, CallTypes
    <3> QED BY <1>0, <2>0, <3>1
  <2> QED BY <2>1, <2>2, <2>3, <2>4, <2>5
<1>3. CASE Surroundings \/ UNCHANGED vars
  <2>1. UNCHANGED <<tx, debits, refunds, pc, on, lost>>
    BY <1>3 DEF Surroundings, ClaimLost, ClaimRequest, PayerAnswers, RetryCredit,
                cancelRequest, markExpired, vars
  <2> QED BY <2>1
<1> QED BY <1>1, <1>2, <1>3 DEF Next, WorkerStep, Starts

\* NoMoneyFromNothing: the merchant is credited once at most, for a recorded
\* payment, whose payer's money was taken and kept (PS, "created money").
THEOREM NoMoneyIsCreated == Spec => []NoMoneyFromNothing
<1>1. PayInv /\ Kept /\ [Next]_vars => Kept'
  BY KeptStep
<1>2. PayInv /\ Kept => NoMoneyFromNothing
  BY DEF PayInv, Types, RowTypes, Recorded, Kept, NoMoneyFromNothing, Taken
<1> QED BY <1>1, <1>2, KeptInit, PayInvHolds, PTL DEF Spec
-----------------------------------------------------------------------------
(* The promise of PaymentContract.                                         *)

\* Only these steps move money or the transaction.
MoneySteps ==
  \/ \E k \in Workers : RecordTx(k) \/ DebitPayer(k) \/ RefundPayer(k) \/ CreditMerchant(k)
                          \/ Reread(k)
  \/ \E a \in Attempts : PayerAnswers(a)
  \/ RetryCredit

LEMMA MoneyElsewhere ==
  ASSUME PayInv, [Next]_vars, ~ MoneySteps
  PROVE  /\ UNCHANGED <<tx, debits, refunds, credits, Unseen>>
         /\ \A a \in Attempts : (charge'[a] = "paid") = (charge[a] = "paid")
<1> USE DEF MoneySteps
<1>1. UNCHANGED <<tx, debits, refunds, credits>>
  BY DEF Next, WorkerStep, createPayment, payWithWallet, ClaimRequest,
     getPaymentStatus, reconcilePending, AskAgain, processWebhook, Interrupt, PayStep,
     AskProvider, AskRefused, LinkOrder, LinkRefused, InsertIntent, InsertRefused,
     RevertClaim, DebitRefused, SettleStep, ClaimSuccess, NotClaimed, TxRefused,
     releaseSuccessClaim, BookEntries, MarkPaid, UndoIntent,
     ClaimFailure, FailureNotClaimed, ReadRequest, Surroundings, ClaimLost,
     cancelRequest, markExpired, vars
<1>2. UNCHANGED charge \/ \E k \in Workers : AskProvider(k)
  BY DEF Next, WorkerStep, createPayment, payWithWallet, ClaimRequest,
     getPaymentStatus, reconcilePending, AskAgain, processWebhook, Interrupt, PayStep,
     AskRefused, LinkOrder, LinkRefused, InsertIntent, InsertRefused,
     RevertClaim, DebitRefused, SettleStep, ClaimSuccess, NotClaimed, TxRefused,
     releaseSuccessClaim, BookEntries, MarkPaid, UndoIntent,
     ClaimFailure, FailureNotClaimed, ReadRequest, Surroundings, ClaimLost,
     cancelRequest, markExpired, vars
<1>3. ASSUME NEW k \in Workers, AskProvider(k)
      PROVE  \A a \in Attempts : (charge'[a] = "paid") = (charge[a] = "paid")
  <2>1. charge[on[k]] = "none" /\ RowTypes
    BY <1>3 DEF AskProvider, At, PayInv, Knows, Types
  <2> QED BY <1>3, <2>1 DEF AskProvider, RowTypes
<1>4. UNCHANGED Unseen
  <2>1. UNCHANGED lost \/ \E k \in Workers : InsertIntent(k) /\ GotoMisled(k, "intent", "revert")
    BY DEF Next, WorkerStep, createPayment, payWithWallet, ClaimRequest,
     getPaymentStatus, reconcilePending, AskAgain, processWebhook, Interrupt, PayStep,
     AskProvider, AskRefused, LinkOrder, LinkRefused, InsertIntent, InsertRefused,
     RevertClaim, DebitRefused, SettleStep, ClaimSuccess, NotClaimed, TxRefused,
     releaseSuccessClaim, BookEntries, MarkPaid, UndoIntent,
     ClaimFailure, FailureNotClaimed, ReadRequest, Surroundings, ClaimLost,
     cancelRequest, markExpired, vars, Goto, Finish, Begin
  <2> QED BY <2>1 DEF GotoMisled, Unseen, PayInv, Types, CountTypes
<1> QED BY <1>1, <1>2, <1>3, <1>4

\* What Place says of each attempt.
LEMMA PlaceIs ==
  /\ \A a \in Attempts :
       Place[a] = IF tx = a THEN IF Taken(a) THEN "merchant" ELSE "both"
                            ELSE IF Taken(a) THEN "held" ELSE "payer"
  /\ \A a \in Attempts :
       Place'[a] = IF tx' = a THEN IF Taken(a)' THEN "merchant" ELSE "both"
                              ELSE IF Taken(a)' THEN "held" ELSE "payer"
BY DEF Place

\* If one attempt alone changes place, Place is updated there.
LEMMA OneMoves ==
  ASSUME NEW a \in Attempts, \A b \in Attempts \ {a} : Place'[b] = Place[b]
  PROVE  Place' = [Place EXCEPT ![a] = Place'[a]]
BY DEF Place

LEMMA ContractStep ==
  ASSUME PayInv, Kept, Kept', [Next]_vars
  PROVE  [Contract!ContractNext]_(Contract!contractVars)
<1> USE DEF Contract!contractVars, Contract!ContractNext, Contract!Move
<1>0. /\ CallTypes /\ RowTypes /\ CountTypes /\ Wallets /\ Recorded
      /\ \A l \in Workers : Knows(l)
      /\ None \notin Attempts /\ Wallet \subseteq Attempts
  BY PaymentAssumption DEF PayInv, Types
<1>1. ASSUME NEW k \in Workers, RecordTx(k)  PROVE Contract!Record(on[k])
  <2>1. /\ on[k] \in Attempts /\ tx = None /\ tx' = on[k]
        /\ UNCHANGED <<debits, refunds, charge, credits, lost>>
        /\ pc[k] = "tx"
    BY <1>0, <1>1, BusyOnAttempt DEF RecordTx, At, Goto
  <2>2. Taken(on[k])
    BY <1>0, <2>1 DEF Wallets, Knows, Taken
  <2>3. /\ Place[on[k]] = "held" /\ Place'[on[k]] = "merchant"
        /\ \A b \in Attempts \ {on[k]} : Place'[b] = Place[b]
        /\ \A b \in Attempts : Place[b] \notin {"merchant", "both"}
    BY <1>0, <2>1, <2>2, PlaceIs DEF Taken
  <2> QED BY <2>1, <2>3, OneMoves DEF Contract!Record, Contract!Recorded, Unseen
<1>2. ASSUME NEW k \in Workers, DebitPayer(k)  PROVE Contract!Take(on[k])
  <2>1. /\ on[k] \in Attempts /\ on[k] \in Wallet
        /\ debits[on[k]] = 0 /\ refunds[on[k]] = 0 /\ tx # on[k]
    BY <1>0, <1>2, BusyOnAttempt DEF DebitPayer, At, Knows, Wallets, Kept
  <2>2. /\ debits' = [debits EXCEPT ![on[k]] = 1]
        /\ UNCHANGED <<tx, refunds, charge, credits, Unseen>>
    BY <1>0, <1>2, <2>1 DEF DebitPayer, CountTypes, Goto, GotoMisled, Unseen
  <2>3. /\ Place[on[k]] = "payer" /\ Place'[on[k]] = "held"
        /\ \A b \in Attempts \ {on[k]} : Place'[b] = Place[b]
    BY <1>0, <2>1, <2>2, PlaceIs DEF Taken, CountTypes
  <2> QED BY <2>1, <2>2, <2>3, OneMoves DEF Contract!Take
<1>3. ASSUME NEW k \in Workers, RefundPayer(k)
      PROVE  \/ Contract!GiveBack(on[k]) \/ Contract!PayTwice(on[k])
             \/ UNCHANGED <<Place, credits, Unseen>>
  <2>1. /\ on[k] \in Attempts /\ on[k] \in Wallet
        /\ debits[on[k]] = 1 /\ refunds[on[k]] = 0
        /\ tx = on[k] => on[k] \in Unseen
    BY <1>0, <1>3, BusyOnAttempt DEF RefundPayer, At, Knows, Wallets, Kept, Unseen
  <2>2. /\ UNCHANGED <<tx, debits, charge, credits, Unseen>>
        /\ refunds' = [refunds EXCEPT ![on[k]] = 1] \/ UNCHANGED refunds
    BY <1>0, <1>3, <2>1 DEF RefundPayer, CountTypes, Goto, GotoMisled, Unseen
  <2>3. CASE UNCHANGED refunds
    BY <2>2, <2>3 DEF Place, Taken
  <2>4. CASE refunds' = [refunds EXCEPT ![on[k]] = 1]
    <3>1. /\ Place[on[k]] = IF tx = on[k] THEN "merchant" ELSE "held"
          /\ Place'[on[k]] = IF tx = on[k] THEN "both" ELSE "payer"
          /\ \A b \in Attempts \ {on[k]} : Place'[b] = Place[b]
      BY <1>0, <2>1, <2>2, <2>4, PlaceIs DEF Taken, CountTypes
    <3>2. CASE tx # on[k]
      BY <2>1, <2>2, <3>1, <3>2, OneMoves DEF Contract!GiveBack
    <3>3. CASE tx = on[k]
      BY <2>1, <2>2, <3>1, <3>3, OneMoves DEF Contract!PayTwice
    <3> QED BY <3>2, <3>3
  <2> QED BY <2>2, <2>3, <2>4
<1>4. ASSUME NEW a \in Attempts, PayerAnswers(a)
      PROVE  Contract!Take(a) \/ UNCHANGED <<Place, credits, Unseen>>
  <2>1. /\ charge[a] = "asked" /\ UNCHANGED <<tx, debits, refunds, credits, Unseen>>
        /\ \A b \in Attempts \ {a} : charge'[b] = charge[b]
        /\ charge'[a] \in {"paid", "failed"}
    BY <1>0, <1>4 DEF PayerAnswers, RowTypes, Unseen
  <2>2. \A b \in Attempts \ {a} : Place'[b] = Place[b]
    BY <2>1, PlaceIs DEF Taken
  <2>3. CASE a \notin Wallet /\ charge'[a] = "paid"
    <3>1. Place[a] = "payer" /\ Place'[a] = "held"
      BY <1>0, <2>1, <2>3, PlaceIs DEF Taken, Recorded
    <3> QED BY <2>1, <2>2, <3>1, OneMoves DEF Contract!Take
  <2>4. CASE a \in Wallet \/ charge'[a] = "failed"
    <3>1. Place'[a] = Place[a]
      BY <2>1, <2>4, PlaceIs DEF Taken
    <3>2. Place' = Place
      BY <2>2, <3>1 DEF Place
    <3> QED BY <2>1, <3>2
  <2> QED BY <2>1, <2>3, <2>4
<1>5. ASSUME tx \in Attempts, credit_merchant_wallet \/ UNCHANGED credits,
             UNCHANGED <<tx, debits, refunds, charge, lost>>
      PROVE  Contract!Credit \/ UNCHANGED <<Place, credits, Unseen>>
  <2>1. UNCHANGED <<Place, Unseen>> /\ Place[tx] \in {"merchant", "both"}
    BY <1>5, PlaceIs DEF Place, Taken, Unseen
  <2>2. UNCHANGED credits \/ (credits = 0 /\ credits' = 1)
    BY <1>0, <1>5 DEF credit_merchant_wallet, RowTypes
  <2> QED BY <1>5, <2>1, <2>2 DEF Contract!Credit, Contract!Recorded
<1>6. ASSUME NEW k \in Workers, CreditMerchant(k)
      PROVE  Contract!Credit \/ UNCHANGED <<Place, credits, Unseen>>
  <2>1. tx = on[k] /\ on[k] \in Attempts
    BY <1>0, <1>6, BusyOnAttempt DEF CreditMerchant, At, Knows
  <2> QED BY <1>5, <1>6, <2>1 DEF CreditMerchant, Goto
<1>7. ASSUME RetryCredit  PROVE Contract!Credit \/ UNCHANGED <<Place, credits, Unseen>>
  BY <1>0, <1>5, <1>7 DEF RetryCredit, RowTypes
<1>8. ASSUME ~ MoneySteps  PROVE UNCHANGED <<Place, credits, Unseen>>
  <2>1. /\ UNCHANGED <<tx, debits, refunds, credits, Unseen>>
        /\ \A a \in Attempts : Taken(a)' = Taken(a)
    BY <1>8, MoneyElsewhere DEF Taken
  <2> QED BY <2>1 DEF Place
<1>9. ASSUME NEW k \in Workers, Reread(k)
      PROVE  Contract!LookFails(on[k]) \/ UNCHANGED <<Place, credits, Unseen>>
  <2>1. /\ UNCHANGED <<tx, debits, refunds, charge, credits>>
        /\ pc[k] = "reread" /\ on[k] \in Attempts
    BY <1>0, <1>9, BusyOnAttempt DEF Reread, At
  <2>2. UNCHANGED Place
    BY <2>1 DEF Place, Taken
  <2>3. CASE UNCHANGED lost
    BY <2>1, <2>2, <2>3 DEF Unseen
  <2>4. CASE on[k] \in Wallet /\ tx = on[k] /\ GotoMisled(k, "reread", "refund")
    <3>1. Unseen' = Unseen \cup {on[k]}
      BY <1>0, <2>1, <2>4 DEF GotoMisled, Unseen, CountTypes
    <3>2. debits[on[k]] = 1 /\ refunds[on[k]] = 0
      BY <1>0, <2>1, <2>4 DEF Wallets
    <3>3. Place[on[k]] = "merchant"
      BY <2>1, <2>4, <3>2, PlaceIs DEF Taken
    <3> QED BY <2>1, <2>2, <3>1, <3>3 DEF Contract!LookFails
  <2> QED BY <1>9, <2>3, <2>4 DEF Reread, Goto, Finish
<1>10. \A k \in Workers : RecordTx(k) \/ DebitPayer(k) \/ RefundPayer(k) \/ Reread(k) => on[k] \in Attempts
  BY <1>0, BusyOnAttempt DEF RecordTx, DebitPayer, RefundPayer, Reread, At
<1> QED BY <1>1, <1>2, <1>3, <1>4, <1>6, <1>7, <1>8, <1>9, <1>10 DEF MoneySteps

\* KeepsTheContract: the detailed system refines PaymentContract. What is taken
\* from a payer is held until it is given back or recorded; one payment of a
\* request is recorded, and credited once.
THEOREM ThePaymentKeepsItsPromise == Spec => KeepsTheContract
<1>1. Init => Contract!ContractInit
  BY PaymentAssumption DEF Init, Contract!ContractInit, Place, Taken, Unseen
<1>2. PayInv /\ Kept /\ [Next]_vars => Kept'
  BY KeptStep
<1>3. PayInv /\ Kept /\ Kept' /\ [Next]_vars => [Contract!ContractNext]_(Contract!contractVars)
  BY ContractStep
<1> QED BY <1>1, <1>2, <1>3, KeptInit, PayInvHolds, PTL DEF Spec, KeepsTheContract, Contract!ContractSpec
-----------------------------------------------------------------------------
(* The claim on the request.  It is held from the claim of an attempt until   *)
(* RevertClaim, and only where the answer to the insertion of an intent was    *)
(* lost is it let go too early: the request is reopened with its intent there. *)

GivingUp == {"check", "revert"}
Opening  == {"ask", "link", "intent"} \cup GivingUp

\* The attempt a may still be paid, or has to give the request back.
Holds(a) ==
  \/ \E k \in Workers : on[k] = a /\ (a \in Wallet \/ pc[k] \in Opening)
  \/ a \notin Wallet /\ intent[a] \in {"PENDING", "SUCCEEDED"}
  \/ a \in Wallet /\ Owed(a)

OneHolds ==
  /\ \A a, b \in Attempts : Holds(a) /\ Holds(b) => a = b
  /\ \A a \in Attempts : Holds(a) => request \in {"PENDING", "CANCELLED", "PAID"}

\* One worker gives an attempt up, and only once nobody can settle it any more.
GivenUp ==
  /\ \A k \in Workers :
       pc[k] \in GivingUp /\ on[k] \notin Wallet => intent[on[k]] \in {"NONE", "FAILED"}
  /\ \A k \in Workers : pc[k] = "check" => intent[on[k]] = "FAILED"
  /\ \A k, j \in Workers :
       pc[k] \in GivingUp /\ pc[j] \in GivingUp /\ on[k] = on[j] => k = j
  /\ \A k \in Workers : on[k] \in Wallet /\ intent[on[k]] = "FAILED" => pc[k] = "revert"

\* What is given up as failed took nothing, or gave it back.
Failures ==
  /\ \A k \in Workers : pc[k] = "failure" => charge[on[k]] = "failed"
  /\ \A a \in Attempts \ Wallet : intent[a] = "FAILED" => charge[a] = "failed"
  /\ \A k \in Workers :
       pc[k] \in {"undo", "revert"} /\ on[k] \in Wallet => ~ Owed(on[k])
  /\ \A a \in Wallet : intent[a] = "FAILED" => ~ Owed(a)

\* Around a PAID request nobody is left who could settle or give up anything.
PaidIsClosed ==
  request = "PAID" =>
    /\ \A k \in Workers : pc[k] \in {"idle", "success", "reread", "failure"} /\ on[k] \notin Wallet
    /\ \A a \in Attempts \ Wallet : intent[a] # "PENDING"

ClaimInv == OneHolds /\ GivenUp /\ Failures /\ PaidIsClosed

LEMMA ClaimInvInit == Init => ClaimInv
BY PaymentAssumption
   DEF Init, ClaimInv, OneHolds, Holds, GivenUp, GivingUp, Opening, Failures, PaidIsClosed, Owed, Taken

\* As long as every caller knows of its intent, no insertion misled one.
LEMMA IntentTold ==
  ASSUME ~IntentUnknown', CountTypes, CallTypes, NEW k \in Workers,
         PayStep(k) \/ SettleStep(k) \/ Interrupt(k)
  PROVE  ~ GotoMisled(k, "intent", "revert")
BY GoesOn, BusyOnAttempt DEF IntentUnknown, GotoMisled, CountTypes

\* How a worker comes to give an attempt up.
LEMMA WhoGivesUp ==
  ASSUME ~IntentUnknown', PayInv,
         NEW k \in Workers, PayStep(k) \/ SettleStep(k) \/ Interrupt(k), pc'[k] \in Opening
  PROVE  /\ on'[k] = on[k]
         /\ \/ pc[k] \in {"ask", "link"}
            \/ InsertRefused(k)
            \/ ReadRequest(k) \/ ClaimFailure(k) \/ UndoIntent(k)
<1>0. CallTypes
  BY DEF PayInv, Types
<1>4. ~ GotoMisled(k, "intent", "revert")
  BY IntentTold DEF PayInv, Types
<1> USE DEF At, Goto, Moves, Finish, Opening, GivingUp, CallTypes
<1>1. CASE PayStep(k)
  <2>1. ASSUME DebitPayer(k)  PROVE pc'[k] \notin Opening
    BY <1>0, <2>1 DEF DebitPayer, GotoMisled
  <2> QED BY <1>0, <1>1, <1>4, <2>1 DEF PayStep, AskProvider, AskRefused, LinkOrder, LinkRefused, InsertIntent,
     InsertRefused, RevertClaim, DebitRefused
<1>2. CASE SettleStep(k)
  BY <1>0, <1>2 DEF SettleStep, ClaimSuccess, NotClaimed, RecordTx, TxRefused,
     releaseSuccessClaim, BookEntries, CreditMerchant, MarkPaid, Reread, RefundPayer,
     UndoIntent, ClaimFailure, FailureNotClaimed, ReadRequest, GotoMisled
<1>3. CASE Interrupt(k)
  BY <1>0, <1>3 DEF Interrupt
<1> QED BY <1>1, <1>2, <1>3

\* A call under way takes no claim: it had it, or does without.
LEMMA NoNewClaim ==
  ASSUME ~IntentUnknown', PayInv, NEW a \in Attempts,
         NEW k \in Workers, PayStep(k) \/ SettleStep(k) \/ Interrupt(k), Holds(a)'
  PROVE  Holds(a)
<1>0. /\ Knows(k) /\ CallTypes /\ RowTypes /\ CountTypes /\ on[k] \in Attempts /\ None \notin Attempts
      /\ \A l \in Workers \ {k} : pc'[l] = pc[l] /\ on'[l] = on[l]
      /\ on'[k] \in {on[k], None}
  BY GoesOn, BusyOnAttempt, TouchesItsOwn, PaymentAssumption DEF PayInv, Types
<1>1. CASE a # on[k]
  <2>1. /\ intent'[a] = intent[a] /\ debits'[a] = debits[a] /\ refunds'[a] = refunds[a]
          /\ lost'[a] = lost[a]
    BY <1>1, TouchesItsOwn
  <2> QED BY <1>0, <1>1, <2>1 DEF Holds, Owed, Taken
<1>2. CASE a = on[k] /\ a \in Wallet
  BY <1>2 DEF Holds
<1>3. CASE a = on[k] /\ a \notin Wallet
  <2>1. ASSUME on'[k] = a, pc'[k] \in Opening  PROVE Holds(a)
    <3>1. pc[k] \in Opening \/ intent[a] = "PENDING"
      BY <1>0, <1>3, <2>1, WhoGivesUp
         DEF InsertRefused, ReadRequest, ClaimFailure, UndoIntent, At, Knows, Opening, GivingUp
    <3> QED BY <1>3, <3>1 DEF Holds
  <2>2. ASSUME intent'[a] \in {"PENDING", "SUCCEEDED"}  PROVE Holds(a)
    <3>1. CASE UNCHANGED intent
      BY <1>3, <2>2, <3>1 DEF Holds
    <3>2. CASE InsertIntent(k)
      BY <1>3, <3>2 DEF Holds, InsertIntent, At, Opening
    <3>3. CASE ClaimSuccess(k) \/ releaseSuccessClaim(k) \/ ClaimFailure(k)
      BY <1>3, <2>2, <3>3 DEF Holds, ClaimSuccess, releaseSuccessClaim, ClaimFailure
    <3>4. ~ UndoIntent(k)
      BY <1>0, <1>3 DEF UndoIntent, At, Knows
    <3> QED BY <3>1, <3>2, <3>3, <3>4, IntentWriters
  <2>3. ASSUME NEW l \in Workers \ {k}, on'[l] = a, pc'[l] \in Opening  PROVE Holds(a)
    BY <1>0, <1>3, <2>3 DEF Holds
  <2> QED BY <1>3, <2>1, <2>2, <2>3 DEF Holds
<1> QED BY <1>1, <1>2, <1>3

\* Nobody holds the request once it is given back.
LEMMA GivenBack ==
  ASSUME ~IntentUnknown', PayInv, ClaimInv, NEW k \in Workers, RevertClaim(k), NEW a \in Attempts
  PROVE  ~ Holds(a)'
<1> SUFFICES ASSUME Holds(a)'  PROVE FALSE
  OBVIOUS
<1>0. /\ pc[k] = "revert" /\ on[k] \in Attempts /\ PayStep(k)
      /\ Knows(k) /\ CallTypes /\ Sole /\ None \notin Attempts
      /\ on'[k] = None /\ UNCHANGED <<intent, debits, refunds, lost>>
  BY BusyOnAttempt, PaymentAssumption DEF PayInv, Types, RevertClaim, At, Finish, PayStep, CallTypes
<1>1. \A l \in Workers \ {k} : pc'[l] = pc[l] /\ on'[l] = on[l]
  BY <1>0, TouchesItsOwn
<1>2. on[k] = a
  <2>1. Holds(a)
    BY <1>0, NoNewClaim
  <2>2. Holds(on[k])
    BY <1>0 DEF Holds, Opening, GivingUp
  <2> QED BY <1>0, <2>1, <2>2 DEF ClaimInv, OneHolds
<1>3. CASE a \in Wallet
  <2>1. \A l \in Workers : on'[l] # a
    BY <1>0, <1>1, <1>2, <1>3 DEF Sole
  <2>2. ~ Owed(a)'
    BY <1>0, <1>2, <1>3 DEF ClaimInv, Failures, Owed, Taken
  <2> QED BY <1>3, <2>1, <2>2 DEF Holds
<1>4. CASE a \notin Wallet
  <2>1. intent'[a] \in {"NONE", "FAILED"}
    BY <1>0, <1>2, <1>4 DEF ClaimInv, GivenUp, GivingUp
  <2>2. ASSUME NEW l \in Workers, on'[l] = a  PROVE pc'[l] \notin Opening
    <3>1. l # k /\ on[l] = on[k] /\ pc'[l] = pc[l]
      BY <1>0, <1>1, <1>2, <2>2
    <3>2. intent[a] # "NONE"
      BY <1>0, <1>2, <3>1 DEF Sole
    <3>3. pc[l] \notin GivingUp
      BY <1>0, <3>1 DEF ClaimInv, GivenUp, GivingUp
    <3>4. pc[l] \notin {"ask", "link", "intent"}
      BY <1>2, <3>1, <3>2 DEF PayInv, Knows
    <3> QED BY <3>1, <3>3, <3>4 DEF Opening
  <2> QED BY <1>4, <2>1, <2>2 DEF Holds
<1> QED BY <1>3, <1>4
LEMMA OneHoldsStep == ~IntentUnknown' /\ PayInv /\ ClaimInv /\ [Next]_vars => OneHolds'
<1> SUFFICES ASSUME ~IntentUnknown', PayInv, ClaimInv, [Next]_vars  PROVE OneHolds'
  OBVIOUS
<1>0. OneHolds /\ CallTypes /\ None \notin Attempts
  BY PaymentAssumption DEF ClaimInv, PayInv, Types
<1>1. ASSUME NEW k \in Workers, NEW a \in Attempts, Starts(k, a)  PROVE OneHolds'
  <2>0. /\ UNCHANGED <<intent, debits, refunds, charge, lost>>
        /\ \A l \in Workers \ {k} : pc'[l] = pc[l] /\ on'[l] = on[l]
        /\ UNCHANGED <<pc, on>> \/ on'[k] = a
    BY <1>1, BeginsAlone
  <2>1. \A b \in Attempts \ {a} : Holds(b)' => Holds(b)
    BY <1>0, <2>0 DEF Holds, Owed, Taken
  <2>2. CASE ClaimRequest(a)
    <3>1. request = "CREATED" /\ request' = "PENDING"
      BY <2>2 DEF ClaimRequest
    <3>2. \A b \in Attempts : ~ Holds(b)
      BY <1>0, <3>1 DEF OneHolds
    <3> QED BY <2>1, <3>1, <3>2 DEF OneHolds
  <2>3. CASE ~ ClaimRequest(a)
    <3>1. /\ UNCHANGED request /\ a \notin Wallet
          /\ UNCHANGED <<pc, on>> \/ pc'[k] \in {"success", "failure"}
      BY <1>0, <1>1, <2>3 DEF Starts, createPayment, payWithWallet, getPaymentStatus,
         reconcilePending, AskAgain, processWebhook, Begin, Handler, CallTypes
    <3>2. Holds(a)' => Holds(a)
      BY <2>0, <3>1 DEF Holds, Opening, GivingUp
    <3> QED BY <1>0, <2>1, <3>1, <3>2 DEF OneHolds
  <2> QED BY <2>2, <2>3
<1>2. ASSUME NEW k \in Workers, PayStep(k) \/ SettleStep(k) \/ Interrupt(k)  PROVE OneHolds'
  <2>1. \A a \in Attempts : Holds(a)' => Holds(a)
    BY <1>2, NoNewClaim
  <2>2. CASE RevertClaim(k)
    BY <2>2, GivenBack DEF OneHolds
  <2>3. CASE ~ RevertClaim(k)
    <3>1. request' \in {request, "PAID"}
      BY <1>2, <2>3 DEF PayStep, AskProvider, AskRefused, LinkOrder, LinkRefused, InsertIntent,
         InsertRefused, DebitPayer, DebitRefused, SettleStep, ClaimSuccess, NotClaimed, RecordTx,
         TxRefused, releaseSuccessClaim, BookEntries, CreditMerchant, MarkPaid, Reread,
         RefundPayer, UndoIntent, ClaimFailure, FailureNotClaimed, ReadRequest, Interrupt
    <3> QED BY <1>0, <2>1, <3>1 DEF OneHolds
  <2> QED BY <2>2, <2>3
<1>3. CASE Surroundings \/ UNCHANGED vars
  <2>1. /\ UNCHANGED <<intent, debits, refunds, pc, on, lost>>
        /\ request' \in {request, "CANCELLED"} \/ request = "CREATED"
    BY <1>3 DEF Surroundings, ClaimLost, ClaimRequest, PayerAnswers, RetryCredit,
                cancelRequest, markExpired, vars
  <2>2. \A a \in Attempts : Holds(a)' => Holds(a)
    BY <2>1 DEF Holds, Owed, Taken
  <2> QED BY <1>0, <2>1, <2>2 DEF OneHolds
<1> QED BY <1>1, <1>2, <1>3 DEF Next, WorkerStep, Starts

\* A failed intent stays failed, and so does an order the provider refused.
LEMMA FailedStays ==
  ASSUME PayInv, [Next]_vars
  PROVE  \A a \in Attempts : /\ intent[a] = "FAILED" => intent'[a] = "FAILED"
                             /\ charge[a] = "failed" => charge'[a] = "failed"
<1>0. RowTypes /\ CallTypes /\ \A k \in Workers : Knows(k)
  BY DEF PayInv, Types
<1>1. ASSUME NEW k \in Workers, NEW a \in Attempts, Starts(k, a)  PROVE UNCHANGED <<intent, charge>>
  BY <1>1, BeginsAlone
<1>2. ASSUME NEW k \in Workers, PayStep(k) \/ SettleStep(k) \/ Interrupt(k), NEW a \in Attempts
      PROVE  /\ intent[a] = "FAILED" => intent'[a] = "FAILED"
             /\ charge[a] = "failed" => charge'[a] = "failed"
  <2>1. intent[a] = "FAILED" => intent'[a] = "FAILED"
    BY <1>0, <1>2, IntentWriters DEF InsertIntent, ClaimSuccess, releaseSuccessClaim, UndoIntent,
       ClaimFailure, SetIntent, RowTypes, Knows, At
  <2>2. UNCHANGED charge \/ AskProvider(k)
    BY <1>2 DEF PayStep, AskRefused, LinkOrder, LinkRefused, InsertIntent, InsertRefused,
       RevertClaim, DebitPayer, DebitRefused, SettleStep, ClaimSuccess, NotClaimed, RecordTx,
       TxRefused, releaseSuccessClaim, BookEntries, CreditMerchant, MarkPaid, Reread,
       RefundPayer, UndoIntent, ClaimFailure, FailureNotClaimed, ReadRequest, Interrupt
  <2>3. charge[a] = "failed" => charge'[a] = "failed"
    BY <1>0, <2>2 DEF AskProvider, RowTypes, Knows, At
  <2> QED BY <2>1, <2>3
<1>3. CASE Surroundings \/ UNCHANGED vars
  BY <1>0, <1>3 DEF Surroundings, ClaimLost, ClaimRequest, PayerAnswers, RetryCredit,
              cancelRequest, markExpired, vars, RowTypes
<1> QED BY <1>1, <1>2, <1>3 DEF Next, WorkerStep, Starts

LEMMA GivenUpStep == ~IntentUnknown' /\ PayInv /\ ClaimInv /\ [Next]_vars => GivenUp'
<1> SUFFICES ASSUME ~IntentUnknown', PayInv, ClaimInv, [Next]_vars  PROVE GivenUp'
  OBVIOUS
<1>0. /\ GivenUp /\ CallTypes /\ RowTypes /\ Sole /\ \A l \in Workers : Knows(l)
      /\ None \notin Attempts /\ Wallet \subseteq Attempts
  BY PaymentAssumption DEF ClaimInv, PayInv, Types
<1>4. \A a \in Attempts : intent[a] = "FAILED" => intent'[a] = "FAILED"
  BY FailedStays
<1> USE DEF GivingUp
<1>1. ASSUME NEW k \in Workers, NEW a \in Attempts, Starts(k, a)  PROVE GivenUp'
  <2>1. UNCHANGED intent /\ \A l \in Workers \ {k} : pc'[l] = pc[l] /\ on'[l] = on[l]
    BY <1>1, BeginsAlone
  <2>2. \/ UNCHANGED <<pc, on>>
        \/ pc'[k] \notin GivingUp /\ (on'[k] \in Wallet => intent[on'[k]] = "NONE")
    BY <1>0, <1>1 DEF Starts, createPayment, payWithWallet, ClaimRequest, MayStart,
       getPaymentStatus, reconcilePending, AskAgain, processWebhook, Begin, Handler, CallTypes
  <2> QED BY <1>0, <2>1, <2>2 DEF GivenUp
<1>2. ASSUME NEW k \in Workers, PayStep(k) \/ SettleStep(k) \/ Interrupt(k)  PROVE GivenUp'
  <2>0. /\ on[k] \in Attempts /\ pc[k] # "idle" /\ on'[k] \in {on[k], None}
        /\ \A l \in Workers \ {k} : pc'[l] = pc[l] /\ on'[l] = on[l]
        /\ \A a \in Attempts \ {on[k]} : intent'[a] = intent[a]
    BY <1>0, <1>2, GoesOn, BusyOnAttempt, TouchesItsOwn
  \* The worker itself.
  <2>1. ASSUME pc'[k] \in GivingUp
        PROVE  /\ on'[k] = on[k]
               /\ on[k] \notin Wallet => intent'[on[k]] \in {"NONE", "FAILED"}
               /\ pc'[k] = "check" => intent'[on[k]] = "FAILED"
               /\ \/ pc[k] \in GivingUp \/ on[k] \in Wallet
                  \/ intent[on[k]] \in {"NONE", "PENDING"}
    <3>1. on'[k] = on[k]
      BY <1>2, <2>1, WhoGivesUp DEF Opening
    <3>2. CASE pc[k] \in {"ask", "link"} \/ InsertRefused(k)
      <4>1. intent[on[k]] = "NONE" /\ pc[k] \in {"ask", "link", "intent"}
        BY <1>0, <3>2 DEF Knows, InsertRefused, At
      <4>2. UNCHANGED intent /\ pc'[k] # "check"
        <5>1. ~ InsertIntent(k)
          <6>1. ~ GotoMisled(k, "intent", "revert")
            BY <1>2, IntentTold DEF PayInv, Types
          <6>2. CASE InsertRefused(k)
            BY <1>0, <3>2, <6>1, <6>2 DEF InsertIntent, InsertRefused, Goto, Moves, Finish, At, CallTypes
          <6>3. CASE pc[k] \in {"ask", "link"}
            BY <6>3 DEF InsertIntent, At
          <6> QED BY <3>2, <6>2, <6>3
        <5>2. UNCHANGED intent
          BY <1>2, <4>1, <5>1, IntentWriters DEF ClaimSuccess, releaseSuccessClaim, UndoIntent,
             ClaimFailure, At
        <5>3. ~ ClaimFailure(k)
          BY <4>1 DEF ClaimFailure, At
        <5>4. pc'[k] # "check"
          BY <1>0, <1>2, <4>1, <5>3 DEF PayStep, AskProvider, AskRefused, LinkOrder, LinkRefused,
             InsertIntent, InsertRefused, RevertClaim, DebitPayer, DebitRefused, SettleStep,
             ClaimSuccess, NotClaimed, RecordTx, TxRefused, releaseSuccessClaim, BookEntries,
             CreditMerchant, MarkPaid, Reread, RefundPayer, UndoIntent, FailureNotClaimed,
             ReadRequest, Interrupt, At, Goto, GotoMisled, Moves, Finish, CallTypes
        <5> QED BY <5>2, <5>4
      <4> QED BY <3>1, <4>1, <4>2
    <3>3. CASE ReadRequest(k)
      <4>1. /\ pc[k] = "check" /\ UNCHANGED intent /\ pc'[k] # "check"
        BY <1>0, <2>0, <3>3 DEF ReadRequest, At, Goto, GotoMisled, Moves, Finish, CallTypes
      <4> QED BY <1>0, <3>1, <4>1 DEF GivenUp
    <3>4. CASE ClaimFailure(k)
      BY <1>0, <2>0, <3>1, <3>4 DEF ClaimFailure, SetIntent, RowTypes
    <3>5. CASE UndoIntent(k)
      <4>1. on[k] \in Wallet /\ pc'[k] # "check"
        BY <1>0, <2>0, <3>5 DEF UndoIntent, At, Knows, Goto, GotoMisled, Moves, CallTypes
      <4> QED BY <3>1, <4>1
    <3> QED BY <1>2, <2>1, <3>2, <3>3, <3>4, <3>5, WhoGivesUp DEF Opening
  \* The others.
  <2>2. ASSUME NEW l \in Workers \ {k}, pc[l] \in GivingUp
        PROVE  /\ on[l] \in Attempts
               /\ on[l] \notin Wallet => intent'[on[l]] \in {"NONE", "FAILED"}
               /\ pc[l] = "check" => intent'[on[l]] = "FAILED"
               /\ pc'[k] \in GivingUp => on[l] # on[k]
    <3>1. on[l] \in Attempts
      BY <1>0, <2>2, BusyOnAttempt
    <3>2. on[l] \notin Wallet => intent[on[l]] \in {"NONE", "FAILED"}
      BY <1>0, <2>2 DEF GivenUp
    <3>3. pc[l] = "check" => intent[on[l]] = "FAILED"
      BY <1>0 DEF GivenUp
    <3>4. on[l] = on[k] => on[l] \notin Wallet /\ intent[on[l]] # "NONE"
      BY <1>0, <2>0 DEF Sole
    <3>5. on[l] # on[k] => intent'[on[l]] = intent[on[l]]
      BY <2>0, <3>1
    <3>6. pc'[k] \in GivingUp => on[l] # on[k]
      BY <1>0, <2>0, <2>1, <2>2, <3>2, <3>4 DEF GivenUp
    <3> QED BY <1>4, <3>1, <3>2, <3>3, <3>4, <3>5, <3>6
  <2>3. ASSUME NEW l \in Workers, on'[l] \in Wallet, intent'[on'[l]] = "FAILED"  PROVE pc'[l] = "revert"
    <3>1. on'[l] = on[l] /\ on[l] \in Attempts
      BY <1>0, <2>0, <2>3
    <3>2. CASE l # k
      <4>1. on[l] # on[k]
        BY <1>0, <2>0, <2>3, <3>1, <3>2 DEF Sole
      <4> QED BY <1>0, <2>0, <2>3, <3>1, <3>2, <4>1 DEF GivenUp
    <3>3. CASE l = k
      <4>1. pc[k] # "revert" /\ ~ Interrupt(k)
        BY <1>0, <1>2, <2>0, <2>3, <3>1, <3>3, GoesOn DEF PayStep, AskProvider, AskRefused,
           LinkOrder, LinkRefused, InsertIntent, InsertRefused, RevertClaim, DebitPayer,
           DebitRefused, SettleStep, ClaimSuccess, NotClaimed, RecordTx, TxRefused,
           releaseSuccessClaim, BookEntries, CreditMerchant, MarkPaid, Reread, RefundPayer,
           UndoIntent, ClaimFailure, FailureNotClaimed, ReadRequest, Interrupt, At, Finish, CallTypes
      <4>2. intent[on[k]] # "FAILED"
        BY <1>0, <2>3, <3>1, <3>3, <4>1 DEF GivenUp
      <4>3. UndoIntent(k)
        BY <1>0, <1>2, <2>3, <3>1, <3>3, <4>2, IntentWriters DEF InsertIntent, ClaimSuccess,
           releaseSuccessClaim, ClaimFailure, SetIntent, RowTypes, Knows, At
      <4> QED BY <1>0, <3>3, <4>3 DEF UndoIntent, Goto, GotoMisled, Moves, CallTypes
    <3> QED BY <3>2, <3>3
  <2>4. \A l \in Workers : pc'[l] \in GivingUp /\ on'[l] \notin Wallet => intent'[on'[l]] \in {"NONE", "FAILED"}
    BY <2>0, <2>1, <2>2
  <2>5. \A l \in Workers : pc'[l] = "check" => intent'[on'[l]] = "FAILED"
    BY <2>0, <2>1, <2>2
  <2>6. \A l, j \in Workers : pc'[l] \in GivingUp /\ pc'[j] \in GivingUp /\ on'[l] = on'[j] => l = j
    BY <1>0, <2>0, <2>1, <2>2 DEF GivenUp
  <2> QED BY <2>3, <2>4, <2>5, <2>6 DEF GivenUp
<1>3. CASE Surroundings \/ UNCHANGED vars
  <2>1. UNCHANGED <<intent, pc, on>>
    BY <1>3 DEF Surroundings, ClaimLost, ClaimRequest, PayerAnswers, RetryCredit,
                cancelRequest, markExpired, vars
  <2> QED BY <1>0, <2>1 DEF GivenUp
<1> QED BY <1>1, <1>2, <1>3 DEF Next, WorkerStep, Starts

\* Who is misled about a debit or a reversal owes nothing it can know of.
LEMMA MisledOweNothing ==
  ASSUME PayInv, NEW k \in Workers, on[k] \in Attempts, on'[k] = on[k],
         NEW call \in {"debit", "refund"}, NEW step, GotoMisled(k, call, step)
  PROVE  ~ Owed(on[k])'
<1>1. lost'[on[k]] = lost[on[k]] \cup {call}
  BY DEF GotoMisled, PayInv, Types, CountTypes
<1> QED BY <1>1 DEF Owed

LEMMA FailuresStep == ~IntentUnknown' /\ PayInv /\ ClaimInv /\ [Next]_vars => Failures'
<1> SUFFICES ASSUME ~IntentUnknown', PayInv, ClaimInv, [Next]_vars  PROVE Failures'
  OBVIOUS
<1>0. /\ Failures /\ GivenUp /\ Wallets /\ CallTypes /\ RowTypes /\ CountTypes /\ Sole
      /\ \A l \in Workers : Knows(l)
      /\ None \notin Attempts /\ Wallet \subseteq Attempts
  BY PaymentAssumption DEF ClaimInv, PayInv, Types
<1>1. \A a \in Attempts : charge[a] = "failed" => charge'[a] = "failed"
  BY FailedStays
\* What a step changes of the money of a wallet, and of who is about to learn a failure.
<1>2. ASSUME NEW k \in Workers, NEW a \in Attempts, Starts(k, a)  PROVE Failures'
  <2>1. /\ UNCHANGED <<intent, debits, refunds, charge, lost>>
        /\ \A l \in Workers \ {k} : pc'[l] = pc[l] /\ on'[l] = on[l]
    BY <1>2, BeginsAlone
  <2>2. \/ UNCHANGED <<pc, on>>
        \/ pc'[k] \notin {"undo", "revert"} /\ (pc'[k] = "failure" => charge[on'[k]] = "failed")
    <3>1. ASSUME AskAgain(k, a)  PROVE pc'[k] = Handler(a) /\ on'[k] = a /\ Verdict(a)
      BY <1>0, <3>1 DEF AskAgain, Begin, PayInv, AsksAboutItsOrder, CallTypes
    <3> QED BY <1>0, <1>2, <3>1 DEF Starts, createPayment, payWithWallet, getPaymentStatus,
               reconcilePending, processWebhook, Begin, Handler, Verdict, CallTypes
  <2> QED BY <1>0, <2>1, <2>2 DEF Failures, Owed, Taken
<1>3. ASSUME NEW k \in Workers, PayStep(k) \/ SettleStep(k) \/ Interrupt(k)  PROVE Failures'
  <2>0. /\ on[k] \in Attempts /\ on'[k] \in {on[k], None}
        /\ \A l \in Workers \ {k} : pc'[l] = pc[l] /\ on'[l] = on[l]
        /\ \A a \in Attempts \ {on[k]} :
             /\ intent'[a] = intent[a]
             /\ debits'[a] = debits[a] /\ refunds'[a] = refunds[a] /\ lost'[a] = lost[a]
    BY <1>0, <1>3, GoesOn, BusyOnAttempt, TouchesItsOwn
  <2>1. pc'[k] # "failure"
    BY <1>0, <1>3 DEF PayStep, AskProvider, AskRefused, LinkOrder, LinkRefused, InsertIntent,
       InsertRefused, RevertClaim, DebitPayer, DebitRefused, SettleStep, ClaimSuccess, NotClaimed,
       RecordTx, TxRefused, releaseSuccessClaim, BookEntries, CreditMerchant, MarkPaid, Reread,
       RefundPayer, UndoIntent, ClaimFailure, FailureNotClaimed, ReadRequest, Interrupt,
       Goto, GotoMisled, Moves, Finish, CallTypes
  <2>2. \A l \in Workers : pc'[l] = "failure" => charge'[on'[l]] = "failed"
    <3> SUFFICES ASSUME NEW l \in Workers, pc'[l] = "failure"  PROVE charge'[on'[l]] = "failed"
      OBVIOUS
    <3>1. l # k /\ pc[l] = "failure" /\ on'[l] = on[l] /\ on[l] \in Attempts
      BY <1>0, <2>0, <2>1, BusyOnAttempt
    <3> QED BY <1>0, <1>1, <3>1 DEF Failures
  <2>3. \A a \in Attempts \ Wallet : intent'[a] = "FAILED" => charge'[a] = "failed"
    <3> SUFFICES ASSUME NEW a \in Attempts \ Wallet, intent'[a] = "FAILED"  PROVE charge'[a] = "failed"
      OBVIOUS
    <3>1. CASE intent[a] = "FAILED"
      BY <1>0, <1>1, <3>1 DEF Failures
    <3>2. CASE intent[a] # "FAILED"
      <4>1. on[k] = a
        BY <2>0, <3>2
      <4>2. ClaimFailure(k)
        BY <1>0, <1>3, <3>2, <4>1, IntentWriters DEF InsertIntent, ClaimSuccess,
           releaseSuccessClaim, UndoIntent, SetIntent, RowTypes, Knows, At
      <4> QED BY <1>0, <1>1, <4>1, <4>2 DEF ClaimFailure, At, Failures
    <3> QED BY <3>1, <3>2
  <2>4. ASSUME on[k] \in Wallet, on'[k] = on[k], pc'[k] \in {"undo", "revert"}
        PROVE  ~ Owed(on[k])'
    <3>0. debits[on[k]] \in {0, 1} /\ refunds[on[k]] \in {0, 1}
      BY <1>0, <2>0 DEF Wallets
    <3>1. CASE UndoIntent(k)
      BY <1>0, <2>4, <3>1 DEF UndoIntent, Goto, At, Failures, Owed, Taken
    <3>2. CASE RefundPayer(k)
      <4>1. debits[on[k]] = 1 /\ refunds[on[k]] = 0 /\ UNCHANGED debits
        BY <1>0, <2>4, <3>2 DEF RefundPayer, At, Wallets
      <4>2. CASE refunds' = [refunds EXCEPT ![on[k]] = @ + 1]
        BY <1>0, <2>0, <2>4, <4>1, <4>2 DEF Owed, Taken, CountTypes
      <4>3. CASE GotoMisled(k, "refund", "undo")
        BY <2>0, <2>4, <4>3, MisledOweNothing
      <4> QED BY <3>2, <4>2, <4>3 DEF RefundPayer
    <3>3. CASE DebitPayer(k) \/ DebitRefused(k)
      <4>1. CASE GotoMisled(k, "debit", "undo")
        BY <2>0, <2>4, <4>1, MisledOweNothing
      <4>2. ~ (DebitPayer(k) /\ Goto(k, "success"))
        BY <1>0, <2>4 DEF Goto, Moves, CallTypes
      <4>3. CASE DebitRefused(k)
        BY <1>0, <2>0, <2>4, <4>3 DEF DebitRefused, Owed, Taken, Wallets, At
      <4> QED BY <3>3, <4>1, <4>2, <4>3 DEF DebitPayer
    <3>4. ~ AskProvider(k) /\ ~ AskRefused(k) /\ ~ LinkOrder(k) /\ ~ LinkRefused(k)
          /\ ~ ReadRequest(k) /\ ~ ClaimFailure(k)
      BY <1>0, <2>4 DEF AskProvider, AskRefused, LinkOrder, LinkRefused, ReadRequest,
         ClaimFailure, Knows, At
    <3>5. ~ InsertIntent(k)
      <4>1. ~ GotoMisled(k, "intent", "revert")
        BY <1>3, IntentTold DEF PayInv, Types
      <4> QED BY <1>0, <2>4, <4>1 DEF InsertIntent, Goto, Moves, Finish, CallTypes
    <3>6. CASE InsertRefused(k)
      <4>1. intent[on[k]] = "NONE" /\ UNCHANGED <<debits, refunds>>
        BY <1>0, <2>0, <3>6 DEF InsertRefused, At, Knows
      <4> QED BY <1>0, <2>0, <2>4, <4>1 DEF Wallets, Owed, Taken
    <3>7. CASE Reread(k)
      BY <1>0, <2>4, <3>7 DEF Reread, Goto, GotoMisled, Moves, Finish, CallTypes
    <3> QED BY <1>0, <1>3, <2>0, <2>4, <3>1, <3>2, <3>3, <3>4, <3>5, <3>6, <3>7 DEF PayStep, RevertClaim,
               SettleStep, ClaimSuccess, NotClaimed, RecordTx, TxRefused, releaseSuccessClaim,
               BookEntries, CreditMerchant, MarkPaid, FailureNotClaimed, Interrupt,
               Goto, Moves, Finish, CallTypes
  <2>5. \A l \in Workers :
          pc'[l] \in {"undo", "revert"} /\ on'[l] \in Wallet => ~ Owed(on[l])'
    <3> SUFFICES ASSUME NEW l \in Workers, pc'[l] \in {"undo", "revert"}, on'[l] \in Wallet
                 PROVE  ~ Owed(on[l])'
      OBVIOUS
    <3>1. CASE l = k
      <4>1. on'[k] = on[k]
        BY <1>0, <2>0, <3>1
      <4> QED BY <2>4, <3>1, <4>1 DEF Owed, Taken
    <3>2. CASE l # k
      <4>1. on'[l] = on[l] /\ pc[l] \in {"undo", "revert"} /\ on[l] \in Attempts /\ on[l] # on[k]
        BY <1>0, <2>0, <3>2 DEF Sole
      <4> QED BY <1>0, <2>0, <4>1 DEF Failures, Owed, Taken
    <3> QED BY <3>1, <3>2
  <2>6. \A a \in Wallet : intent'[a] = "FAILED" => ~ Owed(a)'
    <3> SUFFICES ASSUME NEW a \in Wallet, intent'[a] = "FAILED"  PROVE ~ Owed(a)'
      OBVIOUS
    <3>1. CASE on[k] # a
      BY <1>0, <2>0, <3>1 DEF Failures, Owed, Taken
    <3>2. CASE on[k] = a /\ intent[a] = "FAILED"
      <4>1. pc[k] = "revert" /\ ~ Owed(a)
        BY <1>0, <3>2 DEF GivenUp, Failures
      <4>2. UNCHANGED <<debits, refunds, lost>>
        BY <1>3, <4>1 DEF PayStep, AskProvider, AskRefused, LinkOrder, LinkRefused, InsertIntent,
           InsertRefused, RevertClaim, DebitPayer, DebitRefused, SettleStep, ClaimSuccess,
           NotClaimed, RecordTx, TxRefused, releaseSuccessClaim, BookEntries, CreditMerchant,
           MarkPaid, Reread, RefundPayer, UndoIntent, ClaimFailure, FailureNotClaimed,
           ReadRequest, Interrupt, At, Finish
      <4> QED BY <4>1, <4>2 DEF Owed, Taken
    <3>3. CASE on[k] = a /\ intent[a] # "FAILED"
      <4>1. UndoIntent(k)
        BY <1>0, <1>3, <3>3, IntentWriters DEF InsertIntent, ClaimSuccess, releaseSuccessClaim,
           ClaimFailure, SetIntent, RowTypes, Knows, At
      <4> QED BY <1>0, <3>3, <4>1 DEF UndoIntent, Goto, At, Failures, Owed, Taken
    <3> QED BY <3>1, <3>2, <3>3
  <2> QED BY <2>2, <2>3, <2>5, <2>6 DEF Failures
<1>4. CASE Surroundings \/ UNCHANGED vars
  <2>1. UNCHANGED <<intent, debits, refunds, pc, on, lost>>
    BY <1>4 DEF Surroundings, ClaimLost, ClaimRequest, PayerAnswers, RetryCredit,
                cancelRequest, markExpired, vars
  <2>2. \A l \in Workers : pc[l] = "failure" => on[l] \in Attempts
    BY <1>0, BusyOnAttempt
  <2> QED BY <1>0, <1>1, <2>1, <2>2 DEF Failures, Owed, Taken
<1> QED BY <1>2, <1>3, <1>4 DEF Next, WorkerStep, Starts

LEMMA PaidIsClosedStep == PayInv /\ ClaimInv /\ [Next]_vars
                           => /\ PaidIsClosed'
                              /\ request = "PAID" => request' = "PAID"
<1> SUFFICES ASSUME PayInv, ClaimInv, [Next]_vars
             PROVE  /\ PaidIsClosed'
                    /\ request = "PAID" => request' = "PAID"
  OBVIOUS
<1>0. /\ PaidIsClosed /\ OneHolds /\ GivenUp /\ CallTypes /\ RowTypes /\ Sole /\ SettledByOne
      /\ \A l \in Workers : Knows(l)
      /\ None \notin Attempts /\ Wallet \subseteq Attempts
  BY PaymentAssumption DEF ClaimInv, PayInv, Types
\* A PAID request is left as it is.
<1>1. ASSUME request = "PAID"  PROVE PaidIsClosed' /\ request' = "PAID"
  <2>0. /\ \A l \in Workers : pc[l] \in {"idle", "success", "reread", "failure"} /\ on[l] \notin Wallet
        /\ \A a \in Attempts \ Wallet : intent[a] # "PENDING"
    BY <1>0, <1>1 DEF PaidIsClosed
  <2>1. ASSUME NEW k \in Workers, NEW a \in Attempts, Starts(k, a)  PROVE PaidIsClosed' /\ request' = "PAID"
    <3>1. processWebhook(k, a)
      BY <1>1, <2>0, <2>1 DEF Starts, createPayment, payWithWallet, ClaimRequest,
         getPaymentStatus, reconcilePending, AskAgain
    <3>2. UNCHANGED <<request, intent>> /\ a \notin Wallet
      BY <3>1 DEF processWebhook
    <3>3. UNCHANGED <<pc, on>> \/ (pc'[k] \in {"success", "failure"} /\ on'[k] = a)
      BY <1>0, <3>1 DEF processWebhook, Begin, Handler, CallTypes
    <3>4. \A l \in Workers \ {k} : pc'[l] = pc[l] /\ on'[l] = on[l]
      BY <2>1, BeginsAlone
    <3> QED BY <1>1, <2>0, <3>2, <3>3, <3>4 DEF PaidIsClosed
  <2>2. ASSUME NEW k \in Workers, PayStep(k) \/ SettleStep(k) \/ Interrupt(k)
        PROVE  PaidIsClosed' /\ request' = "PAID"
    <3>0. /\ on[k] \in Attempts \ Wallet /\ on'[k] \in {on[k], None}
          /\ \A l \in Workers \ {k} : pc'[l] = pc[l] /\ on'[l] = on[l]
      BY <1>0, <2>0, <2>2, GoesOn, BusyOnAttempt, TouchesItsOwn
    <3>1. NotClaimed(k) \/ Reread(k) \/ FailureNotClaimed(k) \/ Interrupt(k)
      BY <2>0, <2>2, <3>0 DEF PayStep, AskProvider, AskRefused, LinkOrder, LinkRefused,
         InsertIntent, InsertRefused, RevertClaim, DebitPayer, DebitRefused, SettleStep,
         ClaimSuccess, RecordTx, TxRefused, releaseSuccessClaim, BookEntries, CreditMerchant,
         MarkPaid, RefundPayer, UndoIntent, ClaimFailure, ReadRequest, At
    <3>2. UNCHANGED <<request, intent>> /\ pc'[k] \in {"idle", "reread"}
      BY <1>0, <3>0, <3>1 DEF NotClaimed, Reread, FailureNotClaimed, Interrupt, Goto, GotoMisled, Moves, Finish, CallTypes
    <3> QED BY <1>0, <1>1, <2>0, <3>0, <3>2 DEF PaidIsClosed
  <2>3. CASE Surroundings \/ UNCHANGED vars
    <3>1. UNCHANGED <<request, intent, pc, on>>
      BY <1>1, <2>3 DEF Surroundings, ClaimLost, ClaimRequest, PayerAnswers, RetryCredit,
                  cancelRequest, markExpired, vars
    <3> QED BY <1>1, <2>0, <3>1 DEF PaidIsClosed
  <2> QED BY <2>1, <2>2, <2>3 DEF Next, WorkerStep, Starts
\* It becomes PAID by the last step of the one that settles, who holds it alone.
<1>2. ASSUME NEW k \in Workers, MarkPaid(k)  PROVE PaidIsClosed'
  <2>1. /\ pc[k] = "paid" /\ on[k] \in Attempts /\ UNCHANGED intent
        /\ pc'[k] = "idle" /\ on'[k] = None
        /\ \A l \in Workers \ {k} : pc'[l] = pc[l] /\ on'[l] = on[l]
    BY <1>0, <1>2, BusyOnAttempt DEF MarkPaid, At, Finish, CallTypes
  <2>2. intent[on[k]] = "SUCCEEDED" /\ Holds(on[k])
    BY <1>0, <2>1 DEF SettledByOne, Settling, Holds
  <2>3. \A a \in Attempts : Holds(a) => a = on[k]
    BY <1>0, <2>1, <2>2 DEF OneHolds
  <2>4. ASSUME NEW l \in Workers \ {k}
        PROVE  pc[l] \in {"idle", "success", "reread", "failure"} /\ on[l] \notin Wallet
    <3>1. on[l] \notin Wallet
      <4> SUFFICES ASSUME on[l] \in Wallet  PROVE FALSE
        OBVIOUS
      <4>1. Holds(on[l])
        BY DEF Holds
      <4> QED BY <1>0, <2>3, <4>1 DEF Sole
    <3>2. CASE on[l] = on[k]
      <4>1. pc[l] \notin GivingUp
        BY <1>0, <2>1, <2>2, <3>1, <3>2 DEF GivenUp
      <4>2. pc[l] \notin {"ask", "link", "intent", "debit", "refund", "undo"}
        BY <1>0, <2>2, <3>1, <3>2 DEF Knows
      <4>3. pc[l] \notin Settling
        BY <1>0, <2>1, <3>2 DEF SettledByOne, Settling
      <4> QED BY <1>0, <3>1, <4>1, <4>2, <4>3, StepsAre DEF GivingUp, Settling, CallTypes
    <3>3. CASE on[l] # on[k]
      <4>1. pc[l] # "idle" => on[l] \in Attempts /\ ~ Holds(on[l])
        BY <1>0, <2>3, <3>3, BusyOnAttempt
      <4>2. pc[l] \notin Opening
        BY <4>1 DEF Holds, Opening, GivingUp
      <4>3. pc[l] \notin Settling
        BY <1>0, <3>1, <4>1 DEF Holds, SettledByOne, Settling
      <4>4. pc[l] \notin {"debit", "refund", "undo"}
        BY <1>0, <3>1 DEF Knows
      <4> QED BY <1>0, <3>1, <4>2, <4>3, <4>4, StepsAre DEF Opening, GivingUp, Settling, CallTypes
    <3> QED BY <3>2, <3>3
  <2>5. \A a \in Attempts \ Wallet : intent[a] # "PENDING"
    BY <2>2, <2>3 DEF Holds
  <2> QED BY <1>0, <2>1, <2>4, <2>5 DEF PaidIsClosed
<1>3. ASSUME request # "PAID", \A k \in Workers : ~ MarkPaid(k)  PROVE request' # "PAID"
  BY <1>3 DEF Next, WorkerStep, createPayment, payWithWallet, ClaimRequest, getPaymentStatus,
     reconcilePending, AskAgain, processWebhook, Interrupt, PayStep, AskProvider, AskRefused,
     LinkOrder, LinkRefused, InsertIntent, InsertRefused, RevertClaim, DebitPayer, DebitRefused,
     SettleStep, ClaimSuccess, NotClaimed, RecordTx, TxRefused, releaseSuccessClaim, BookEntries,
     CreditMerchant, Reread, RefundPayer, UndoIntent, ClaimFailure, FailureNotClaimed, ReadRequest,
     Surroundings, ClaimLost, PayerAnswers, RetryCredit, cancelRequest, markExpired, vars
<1> QED BY <1>1, <1>2, <1>3 DEF PaidIsClosed

LEMMA ClaimInvStep == ~IntentUnknown' /\ PayInv /\ ClaimInv /\ [Next]_vars => ClaimInv'
BY OneHoldsStep, GivenUpStep, FailuresStep, PaidIsClosedStep DEF ClaimInv

\* What is claimed is known as long as no intent is there that its caller ignores.
Claims == ~IntentUnknown => ClaimInv

LEMMA ClaimsHold == Spec => [](PayInv /\ Claims)
<1>1. PayInv /\ Claims /\ [Next]_vars => Claims'
  <2>1. PayInv /\ [Next]_vars => (IntentUnknown => IntentUnknown')
    BY LostStays DEF IntentUnknown, PayInv, Types
  <2> QED BY <2>1, ClaimInvStep DEF Claims
<1> QED BY <1>1, ClaimInvInit, PayInvHolds, PTL DEF Spec, Claims

\* PaidStaysPaid ("A paid one stays PAID", PRS markExpired): no handler that
\* gives the request back, no new attempt, no cancellation undoes a payment,
\* unless an intent was written whose caller was told that it was not.
THEOREM PaidIsForGood == Spec => PaidStaysPaid
<1>1. PayInv /\ Claims /\ [Next]_vars => [request = "PAID" /\ ~IntentUnknown => request' = "PAID"]_vars
  BY PaidIsClosedStep DEF Claims
<1> QED BY <1>1, ClaimsHold, PTL DEF Spec, PaidStaysPaid

\* OnePayer: two payers of one request do not both lose their money, and a
\* failed attempt owes its payer nothing (PS payWithWallet, handleFailedPayment),
\* wherever the code can know what it holds.
THEOREM OnePayerPays == Spec => []OnePayer
<1>1. PayInv /\ Claims => OnePayer
  <2> SUFFICES ASSUME PayInv, ClaimInv  PROVE RecordedByOne /\ FailedOwesNothing
    BY DEF OnePayer, Claims
  <2>1. RowTypes /\ Failures /\ OneHolds /\ Wallet \subseteq Attempts
    BY PaymentAssumption DEF PayInv, Types, ClaimInv
  <2>2. ASSUME NEW a \in Attempts, intent[a] = "FAILED"  PROVE ~ Owed(a)
    BY <2>1, <2>2 DEF Failures, Owed, Taken
  <2>3. ASSUME NEW a \in Attempts, Owed(a), intent[a] # "NONE"  PROVE Holds(a)
    BY <2>1, <2>2, <2>3 DEF Holds, Owed, Taken, RowTypes, IntentStatuses
  <2> QED BY <2>1, <2>2, <2>3 DEF RecordedByOne, FailedOwesNothing, OneHolds
<1> QED BY <1>1, ClaimsHold, PTL DEF Spec
=============================================================================
