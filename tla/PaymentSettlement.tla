------------------------- MODULE PaymentSettlement -------------------------
(***************************************************************************)
(* One payment request (an invoice) and the attempts to pay it, by the     *)
(* payment provider or from a wallet: how an attempt claims the request,   *)
(* how its success or failure is learnt (the payer's own call, a callback, *)
(* a status check, the every-minute reconciliation) and settled.  Two      *)
(* requests share no row, so one is enough.                                *)
(*                                                                         *)
(* Every step is one round trip to the database or to the provider.  A     *)
(* call named in Lossy may fail, with or without having had its effect; a  *)
(* process may stop before a step named in Fatal.                          *)
(*                                                                         *)
(* Sources: payments/payments.service.ts (PS),                             *)
(* payments/merchant-wallet-credit.service.ts,                             *)
(* payments/psp/providers/flexpaie.adapter.ts (FPA),                       *)
(* payment-requests/payment-requests.service.ts (PRS), migrations 041, 060.*)
(***************************************************************************)
EXTENDS Naturals

CONSTANTS
  Attempts,   \* calls to createPayment and payWithWallet, one per key
  Wallet,     \* the ones that pay from a wallet
  Workers,    \* calls under way: payers, callbacks, status checks, job passes
  None,       \* "no attempt"
  Lossy,      \* calls whose answer may be lost
  Fatal       \* steps before which the process may stop

Calls == {"claim", "ask", "link", "intent", "revert", "debit", "success",
          "read", "tx", "release", "book", "credit", "paid", "reread",
          "refund", "undo", "failure", "log"}
Steps == {"idle", "check"} \cup (Calls \ {"claim", "read", "log"})

ASSUME PaymentAssumption ==
  /\ Wallet \subseteq Attempts
  /\ None \notin Attempts
  /\ Lossy \subseteq Calls
  /\ Fatal \subseteq Steps

VARIABLES
  request,  \* payment_requests.status
  intent,   \* intent[a]: payment_intents.status ("NONE": no row)
  link,     \* flexpaie_orders: the attempt whose order number is recorded
  heard,    \* webhook_events: the orders a callback was logged for
  tx,       \* transactions: the attempt that holds TX-<reference>
  booked,   \* the ledger entries of that transaction are written
  credits,  \* how often the merchant's wallet was credited for it
  debits,   \* debits[a]: ledger debits of the payer's wallet
  refunds,  \* refunds[a]: ledger credits REVERSAL-<reference>
  charge,   \* charge[a]: what the provider did about the order of a
  pc,       \* the step a worker is about to take
  on,       \* the attempt it works on
  lost      \* history, read by no step: lost[a], the answers that were lost
            \* about an attempt and left its caller with the wrong idea

rows  == <<request, intent, link, heard>>
books == <<tx, booked, credits, debits, refunds>>
vars  == <<rows, books, charge, pc, on, lost>>

RequestStatuses == {"CREATED", "PENDING", "PAID", "CANCELLED", "EXPIRED"}
IntentStatuses  == {"NONE", "PENDING", "SUCCEEDED", "FAILED"}
Charges == {"none", "asked", "paid", "failed"}

Lost(call) == call \in Lossy
Free(a)    == \A k \in Workers : on[k] # a

-----------------------------------------------------------------------------
(* How a worker moves.                                                     *)

At(k, step)   == pc[k] = step
Moves(k, step) == pc' = [pc EXCEPT ![k] = step] /\ UNCHANGED on
Goto(k, step)  == Moves(k, step) /\ UNCHANGED lost

Begin(k, a, step) ==
  /\ At(k, "idle")
  /\ pc' = [pc EXCEPT ![k] = step]
  /\ on' = [on EXCEPT ![k] = a]
  /\ UNCHANGED lost

Finish(k) ==
  /\ pc' = [pc EXCEPT ![k] = "idle"]
  /\ on' = [on EXCEPT ![k] = None]
  /\ UNCHANGED lost

\* The worker goes on wrong: it was told nothing of what the call had done (the
\* intent was written, the payer debited, the transaction recorded), or cannot
\* tell that it did nothing (the reversal).
Misled == {"intent", "debit", "reread", "refund"}
GotoMisled(k, call, step) ==
  /\ Lost(call) /\ Moves(k, step)
  /\ lost' = [lost EXCEPT ![on[k]] = @ \cup {call}]

SetIntent(a, s) == intent' = [intent EXCEPT ![a] = s]

-----------------------------------------------------------------------------
Init ==
  /\ request = "CREATED"
  /\ intent = [a \in Attempts |-> "NONE"]
  /\ link = None
  /\ heard = {}
  /\ tx = None
  /\ booked = FALSE
  /\ credits = 0
  /\ debits = [a \in Attempts |-> 0]
  /\ refunds = [a \in Attempts |-> 0]
  /\ charge = [a \in Attempts |-> "none"]
  /\ pc = [k \in Workers |-> "idle"]
  /\ on = [k \in Workers |-> None]
  /\ lost = [a \in Attempts |-> {}]

-----------------------------------------------------------------------------
(* Starting to pay (PS createPayment, payWithWallet).                      *)

\* A replayed key answers with its intent, and a request that is not CREATED
\* is refused: no step.  The attempt has not reached the provider yet.
MayStart(a) == intent[a] = "NONE" /\ charge[a] = "none" /\ Free(a)

ClaimRequest_Unguarded(a) ==       \* the claim without .eq('status','CREATED')
  /\ MayStart(a)
  /\ request # "PAID"
  /\ request' = "PENDING"
  /\ UNCHANGED <<intent, link, heard, books, charge>>

ClaimRequest(a) ==
  /\ MayStart(a)
  /\ request = "CREATED"
  /\ request' = "PENDING"
  /\ UNCHANGED <<intent, link, heard, books, charge>>

createPayment(k, a) == a \notin Wallet /\ ClaimRequest(a) /\ Begin(k, a, "ask")
payWithWallet(k, a) == a \in Wallet /\ ClaimRequest(a) /\ Begin(k, a, "intent")

\* claimError: the caller is told "deja en cours"; nothing gives it back.
ClaimLost(a) == Lost("claim") /\ ClaimRequest(a) /\ UNCHANGED <<pc, on, lost>>

\* createPaymentIntent: the provider creates an order and asks the payer.
AskProvider(k) ==
  /\ At(k, "ask")
  /\ charge' = [charge EXCEPT ![on[k]] = "asked"]
  /\ \/ Goto(k, "link")
     \/ Lost("ask") /\ Goto(k, "revert")      \* no answer within TIMEOUT_MS
  /\ UNCHANGED <<rows, books>>

AskRefused(k) ==
  /\ At(k, "ask") /\ Goto(k, "revert")
  /\ UNCHANGED <<rows, books, charge>>

Link_Overwrites(k) ==              \* as if flexpaie_orders were upserted
  /\ At(k, "link")
  /\ link' = on[k]
  /\ Goto(k, "intent")
  /\ UNCHANGED <<request, intent, heard, books, charge>>

\* flexpaie_orders(reference PRIMARY KEY): the reference is the request's, so
\* only the first order of a request can be recorded.
LinkOrder(k) ==
  /\ At(k, "link") /\ link = None
  /\ link' = on[k]
  /\ \/ Goto(k, "intent")
     \/ Lost("link") /\ Goto(k, "revert")     \* the retries find a duplicate
  /\ UNCHANGED <<request, intent, heard, books, charge>>

LinkRefused(k) ==
  /\ At(k, "link") /\ (link # None \/ Lost("link"))
  /\ Goto(k, "revert")
  /\ UNCHANGED <<rows, books, charge>>

InsertIntent(k) ==
  LET a == on[k] IN
  /\ At(k, "intent")
  /\ SetIntent(a, "PENDING")
  /\ \/ IF a \in Wallet THEN Goto(k, "debit") ELSE Finish(k)
     \/ GotoMisled(k, "intent", "revert")
  /\ UNCHANGED <<request, link, heard, books, charge>>

InsertRefused(k) ==
  /\ At(k, "intent") /\ Lost("intent")
  /\ Goto(k, "revert")
  /\ UNCHANGED <<rows, books, charge>>

\* revertClaim, and the same update in payWithWallet and handleFailedPayment:
\* by id, whatever the status is by now; its own error is not looked at.
RevertClaim(k) ==
  /\ At(k, "revert")
  /\ request' = "CREATED" \/ (Lost("revert") /\ UNCHANGED request)
  /\ Finish(k)
  /\ UNCHANGED <<intent, link, heard, books, charge>>

\* debit_wallet takes the total, or answers that the balance is too low.
DebitPayer(k) ==
  LET a == on[k] IN
  /\ At(k, "debit")
  /\ debits' = [debits EXCEPT ![a] = @ + 1]
  /\ Goto(k, "success") \/ GotoMisled(k, "debit", "undo")
  /\ UNCHANGED <<rows, tx, booked, credits, refunds, charge>>

Debit_ErrorIgnored(k) ==           \* payWithWallet without the debitError test
  /\ At(k, "debit") /\ Goto(k, "success")
  /\ UNCHANGED <<rows, books, charge>>

DebitRefused(k) ==
  /\ At(k, "debit") /\ Goto(k, "undo")
  /\ UNCHANGED <<rows, books, charge>>

-----------------------------------------------------------------------------
(* Settling a success (PS handleSuccessfulPayment).                        *)

ClaimSuccess_Unconditional(k) ==   \* the claim without .eq('status','PENDING')
  /\ At(k, "success")
  /\ SetIntent(on[k], "SUCCEEDED")
  /\ Goto(k, "tx")
  /\ UNCHANGED <<request, link, heard, books, charge>>

\* PENDING -> SUCCEEDED.  Not claimed, or no answer: look for the transaction.
ClaimSuccess(k) ==
  LET a == on[k] IN
  /\ At(k, "success") /\ intent[a] = "PENDING"
  /\ SetIntent(a, "SUCCEEDED")
  /\ Goto(k, "tx") \/ (Lost("success") /\ Goto(k, "reread"))
  /\ UNCHANGED <<request, link, heard, books, charge>>

NotClaimed(k) ==
  /\ At(k, "success")
  /\ intent[on[k]] # "PENDING" \/ Lost("success")
  /\ Goto(k, "reread")
  /\ UNCHANGED <<rows, books, charge>>

\* transactions.reference is UNIQUE: the first attempt to come takes it.
RecordTx(k) ==
  /\ At(k, "tx") /\ tx = None
  /\ tx' = on[k]
  /\ Goto(k, "book") \/ (Lost("tx") /\ Goto(k, "release"))
  /\ UNCHANGED <<rows, booked, credits, debits, refunds, charge>>

\* txError, or the request could not be read.
TxRefused(k) ==
  /\ At(k, "tx") /\ (tx # None \/ Lost("tx") \/ Lost("read"))
  /\ Goto(k, "release")
  /\ UNCHANGED <<rows, books, charge>>

releaseSuccessClaim(k) ==
  LET a == on[k] IN
  /\ At(k, "release") /\ Goto(k, "reread")
  /\ \/ intent[a] = "SUCCEEDED" /\ SetIntent(a, "PENDING")
     \/ (intent[a] # "SUCCEEDED" \/ Lost("release")) /\ UNCHANGED intent
  /\ UNCHANGED <<request, link, heard, books, charge>>

Book_ErrorIgnored(k) ==            \* as if writePaymentEntries did not throw
  /\ At(k, "book")
  /\ booked' = TRUE \/ (Lost("book") /\ UNCHANGED booked)
  /\ Goto(k, "credit")
  /\ UNCHANGED <<rows, tx, credits, debits, refunds, charge>>

\* writePaymentEntries throws on an error: the rest of the handler is skipped.
BookEntries(k) ==
  /\ At(k, "book")
  /\ \/ booked' = TRUE /\ Goto(k, "credit")
     \/ Lost("book") /\ booked' \in {booked, TRUE} /\ Goto(k, "reread")
  /\ UNCHANGED <<rows, tx, credits, debits, refunds, charge>>

Credit_Unguarded == credits' = credits + 1     \* no wallet_credited_at test

\* credit_merchant_wallet: locks the transaction, stamps wallet_credited_at.
credit_merchant_wallet == credits' = IF credits = 0 THEN 1 ELSE credits

CreditMerchant(k) ==
  /\ At(k, "credit")
  /\ credit_merchant_wallet \/ (Lost("credit") /\ UNCHANGED credits)
  /\ Goto(k, "paid")
  /\ UNCHANGED <<rows, tx, booked, debits, refunds, charge>>

\* markPaid: by id, whatever the status is by now.
MarkPaid(k) ==
  /\ At(k, "paid")
  /\ request' = "PAID" \/ (Lost("paid") /\ UNCHANGED request)
  /\ Finish(k)
  /\ UNCHANGED <<intent, link, heard, books, charge>>

\* The handler returned no transaction: only a wallet payment looks again, and
\* gives the money back if it finds none (or could not read).
Reread(k) ==
  LET a == on[k] IN
  /\ At(k, "reread")
  /\ \/ (a \notin Wallet \/ tx = a) /\ Finish(k)
     \/ a \in Wallet /\ tx # a /\ Goto(k, "refund")
     \/ a \in Wallet /\ tx = a /\ GotoMisled(k, "reread", "refund")
  /\ UNCHANGED <<rows, books, charge>>

Refund_Retried(k) ==               \* the reversal asked again when not answered
  LET a == on[k] IN
  /\ At(k, "refund")
  /\ refunds' = [refunds EXCEPT ![a] = @ + 1]
  /\ Goto(k, "undo") \/ UNCHANGED <<pc, on, lost>>
  /\ UNCHANGED <<rows, tx, booked, credits, debits, charge>>

RefundPayer(k) ==
  LET a == on[k] IN
  /\ At(k, "refund")
  /\ \/ refunds' = [refunds EXCEPT ![a] = @ + 1] /\ Goto(k, "undo")
     \/ UNCHANGED refunds /\ GotoMisled(k, "refund", "undo")
  /\ UNCHANGED <<rows, tx, booked, credits, debits, charge>>

\* The wallet attempt is over: its intent FAILED, then the request CREATED.
UndoIntent(k) ==
  /\ At(k, "undo")
  /\ SetIntent(on[k], "FAILED") \/ (Lost("undo") /\ UNCHANGED intent)
  /\ Goto(k, "revert")
  /\ UNCHANGED <<request, link, heard, books, charge>>

-----------------------------------------------------------------------------
(* Settling a failure (PS handleFailedPayment).                            *)

ClaimFailure_Unconditional(k) ==   \* the claim without .eq('status','PENDING')
  /\ At(k, "failure")
  /\ SetIntent(on[k], "FAILED")
  /\ Goto(k, "check")
  /\ UNCHANGED <<request, link, heard, books, charge>>

ClaimFailure(k) ==
  LET a == on[k] IN
  /\ At(k, "failure") /\ intent[a] = "PENDING"
  /\ SetIntent(a, "FAILED")
  /\ Goto(k, "check") \/ (Lost("failure") /\ Finish(k))
  /\ UNCHANGED <<request, link, heard, books, charge>>

FailureNotClaimed(k) ==
  /\ At(k, "failure")
  /\ intent[on[k]] # "PENDING" \/ Lost("failure")
  /\ Finish(k)
  /\ UNCHANGED <<rows, books, charge>>

\* The status is read, and the request reopened in a later update.
ReadRequest(k) ==
  /\ At(k, "check")
  /\ \/ request = "PENDING" /\ Goto(k, "revert")
     \/ (request # "PENDING" \/ Lost("read")) /\ Finish(k)
  /\ UNCHANGED <<rows, books, charge>>

-----------------------------------------------------------------------------
(* Learning the outcome.                                                   *)

Verdict(a) == charge[a] \in {"paid", "failed"}
Handler(a) == IF charge[a] = "paid" THEN "success" ELSE "failure"

\* What the provider says of the order recorded for the reference of an intent
\* read as PENDING.
AskAgain(k, a) ==
  /\ a \notin Wallet /\ intent[a] = "PENDING"
  /\ link # None /\ Verdict(link)
  /\ Begin(k, a, Handler(link))
  /\ UNCHANGED <<rows, books, charge>>

getPaymentStatus(k, a) == AskAgain(k, a)       \* the payer's page, at will

Reconcile_NotIfHeard(k, a) == a \notin heard /\ AskAgain(k, a)

reconcilePending(k, a) == AskAgain(k, a)       \* the every-minute job

\* processWebhook: refused if another order is recorded for the reference,
\* ignored if already logged, logged, then handled if the intent is there.
\* (The log's own failure is not looked at.)
processWebhook(k, a) ==
  /\ a \notin Wallet /\ Verdict(a)
  /\ link \in {None, a} /\ a \notin heard
  /\ heard' = heard \cup {a} \/ (Lost("log") /\ UNCHANGED heard)
  /\ IF intent[a] # "NONE" THEN Begin(k, a, Handler(a))
                           ELSE At(k, "idle") /\ UNCHANGED <<pc, on, lost>>
  /\ UNCHANGED <<request, intent, link, books, charge>>

\* retryUncredited, every minute.
RetryCredit ==
  /\ tx # None /\ credit_merchant_wallet
  /\ UNCHANGED <<rows, tx, booked, debits, refunds, charge, pc, on, lost>>

-----------------------------------------------------------------------------
(* The payer at the provider, the merchant, the clock, the machine.        *)

PayerAnswers(a) ==
  /\ charge[a] = "asked"
  /\ \E c \in {"paid", "failed"} : charge' = [charge EXCEPT ![a] = c]
  /\ UNCHANGED <<rows, books, pc, on, lost>>

cancelRequest ==
  /\ request \in {"CREATED", "PENDING"}
  /\ request' = "CANCELLED"
  /\ UNCHANGED <<intent, link, heard, books, charge, pc, on, lost>>

markExpired ==
  /\ request = "CREATED"
  /\ request' = "EXPIRED"
  /\ UNCHANGED <<intent, link, heard, books, charge, pc, on, lost>>

Interrupt(k) ==
  /\ pc[k] \in Fatal \ {"idle"}
  /\ Finish(k)
  /\ UNCHANGED <<rows, books, charge>>

-----------------------------------------------------------------------------
PayStep(k) ==
  \/ AskProvider(k) \/ AskRefused(k) \/ LinkOrder(k) \/ LinkRefused(k)
  \/ InsertIntent(k) \/ InsertRefused(k) \/ RevertClaim(k)
  \/ DebitPayer(k) \/ DebitRefused(k)

SettleStep(k) ==
  \/ ClaimSuccess(k) \/ NotClaimed(k) \/ RecordTx(k) \/ TxRefused(k)
  \/ releaseSuccessClaim(k) \/ BookEntries(k) \/ CreditMerchant(k) \/ MarkPaid(k)
  \/ Reread(k) \/ RefundPayer(k) \/ UndoIntent(k)
  \/ ClaimFailure(k) \/ FailureNotClaimed(k) \/ ReadRequest(k)

WorkerStep(k) ==
  \/ \E a \in Attempts : \/ createPayment(k, a) \/ payWithWallet(k, a)
                          \/ getPaymentStatus(k, a) \/ reconcilePending(k, a)
                          \/ processWebhook(k, a)
  \/ PayStep(k) \/ SettleStep(k) \/ Interrupt(k)

Surroundings ==
  \/ \E a \in Attempts : ClaimLost(a) \/ PayerAnswers(a)
  \/ RetryCredit \/ cancelRequest \/ markExpired

Next == (\E k \in Workers : WorkerStep(k)) \/ Surroundings

Spec == Init /\ [][Next]_vars

(* Fairness.  A call under way ends; the reconciliation asks again every    *)
(* minute about an intent left PENDING, and is not stopped at its claim each *)
(* time; the retry job runs every minute.                                  *)
(* Payers, merchants and callbacks owe nothing.                            *)
Fairness ==
  /\ \A k \in Workers : WF_vars(PayStep(k) \/ SettleStep(k))
  /\ \A a \in Attempts : /\ SF_vars(\E k \in Workers : reconcilePending(k, a))
                          /\ SF_vars(\E k \in Workers : on[k] = a /\ ClaimSuccess(k))
  /\ WF_vars(RetryCredit)

FairSpec == Spec /\ Fairness

-----------------------------------------------------------------------------
(* Properties.                                                             *)

\* Every variable has the type of the column, table or call it stands for,
\* and a wallet is debited and given back at most once per attempt.
TypeOK ==
  /\ request \in RequestStatuses
  /\ intent \in [Attempts -> IntentStatuses]
  /\ link \in Attempts \cup {None}
  /\ heard \subseteq Attempts
  /\ tx \in Attempts \cup {None}
  /\ booked \in BOOLEAN
  /\ credits \in Nat
  /\ debits \in [Attempts -> {0, 1}]
  /\ refunds \in [Attempts -> {0, 1}]
  /\ charge \in [Attempts -> Charges]
  /\ pc \in [Workers -> Steps]
  /\ on \in [Workers -> Attempts \cup {None}]
  /\ lost \in [Attempts -> SUBSET Misled]
  /\ \A k \in Workers : pc[k] # "idle" => on[k] \in Attempts

\* The money of attempt a was taken from its payer and not given back.
Taken(a) == IF a \in Wallet THEN debits[a] > refunds[a] ELSE charge[a] = "paid"

\* The merchant is credited once at most, for a recorded payment, and a
\* recorded payment is one whose payer's money was taken and kept: "refunding
\* the payer after the merchant had been credited created money" (PS).  Only
\* where the second look of a wallet payment was not answered, which the code
\* does not look at, is it given back although recorded.
NoMoneyFromNothing ==
  /\ credits <= 1
  /\ credits > 0 => tx # None
  /\ tx # None => Taken(tx) \/ "reread" \in lost[tx]

\* A request shown as paid has its transaction and its ledger entries, however
\* the handlers, reversals and cancellations overlapped.
PaidIsBooked == request = "PAID" => tx # None /\ booked

\* One settler per attempt: between the success claim and the end of the
\* handler no second worker settles it, success or failure.
Settling == {"tx", "release", "book", "credit", "paid"}
SettledByOne ==
  \A k, j \in Workers :
    /\ pc[k] \in Settling => intent[on[k]] = "SUCCEEDED"
    /\ k # j /\ pc[k] \in Settling /\ pc[j] \in Settling => on[k] # on[j]

\* The order number recorded for the reference is the order of the intent that
\* carries that reference: a status check never asks about another order.
AsksAboutItsOrder == \A a \in Attempts \ Wallet : intent[a] # "NONE" => link = a

\* Whatever callbacks, checks and reconciliations overlap, an attempt is settled by one
\* of them, and on the verdict about its own order.
SettledOnItsOrder == SettledByOne /\ AsksAboutItsOrder

\* The money of a is held, and the code can know it: its debit was answered,
\* and its reversal had its effect.
Owed(a) == Taken(a) /\ lost[a] \cap {"debit", "refund"} = {}

\* An intent of the request was written and its caller was told it was not.
IntentUnknown == \E a \in Attempts : "intent" \in lost[a]

\* An attempt that ended FAILED owes its payer nothing: the provider took
\* nothing, or the wallet was given back what was taken (PS payWithWallet).
FailedOwesNothing == \A a \in Attempts : intent[a] = "FAILED" => ~Owed(a)

\* Of two attempts that took money and have their intent one is given back, and
\* a failed one owes nothing: two payers of a request do not both lose theirs.
RecordedByOne ==
  \A a, b \in Attempts :
    Owed(a) /\ Owed(b) /\ intent[a] # "NONE" /\ intent[b] # "NONE" => a = b
OnePayer == ~IntentUnknown => RecordedByOne /\ FailedOwesNothing

\* A payment the payer made, with its intent waiting, is recorded in the end,
\* its merchant credited and its request PAID: callbacks may be lost, arrive
\* early or twice, answers of the provider may be lost (PS reconcilePending).
PaidIsSettled ==
  \A a \in Attempts \ Wallet :
    charge[a] = "paid" /\ intent[a] = "PENDING"
      ~> tx # None /\ credits = 1 /\ (request = "PAID" \/ IntentUnknown)

\* The payment keeps the promise of PaymentContract.
Place ==
  [a \in Attempts |->
     IF tx = a THEN IF Taken(a) THEN "merchant" ELSE "both"
               ELSE IF Taken(a) THEN "held" ELSE "payer"]

\* The recorded attempts whose caller, looking again, was not answered.
Unseen == {a \in Attempts : "reread" \in lost[a]}

Contract == INSTANCE PaymentContract WITH
  place <- Place, credited <- (credits > 0),
  unseen <- Unseen

KeepsTheContract == Contract!ContractSpec

\* "A paid one stays PAID" (PRS markExpired), unless an intent of the request
\* was written and its caller, told that it was not, gives the claim back.
PaidStaysPaid ==
  [][request = "PAID" /\ ~IntentUnknown => request' = "PAID"]_vars

=============================================================================
