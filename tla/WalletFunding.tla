--------------------------- MODULE WalletFunding ---------------------------
(***************************************************************************)
(* Money that comes in through the payment provider for a person: a        *)
(* top-up of the wallet, a month of Expense Pro, a transfer paid by the    *)
(* sender's line.  How an order is made at the provider, then recorded;    *)
(* how its outcome is learnt (a callback, the person's own status check,   *)
(* the every-minute reconciliation) and turned into one credit, by the SQL *)
(* functions of migrations 056 and 062 or by the two steps that stand in   *)
(* for them while they are not installed.                                  *)
(*                                                                         *)
(* Every step is one round trip.  A call named in Lossy may fail, with or  *)
(* without having had its effect; a process may stop before a step named   *)
(* in Fatal.  The provider may pay back an order that was paid.            *)
(*                                                                         *)
(* Sources: wallets/wallets.service.ts (WS), wallets/topup-completion.ts,  *)
(* wallets/funded-transfer-completion.ts, payments/payments.service.ts     *)
(* (PS), expense-tracker/expense-tracker.service.ts, migrations 006, 007,  *)
(* 025, 056, 062.                                                          *)
(***************************************************************************)
EXTENDS Naturals

CONSTANTS
  Payments,   \* what is paid for, one per call of a person
  Key,        \* the idempotency key of a call (a Pro payment has none)
  Workers,    \* calls under way: people, callbacks, status checks, job passes
  None,       \* "nothing"
  Lossy,      \* calls whose answer may be lost
  Fatal       \* steps before which the process may stop

Kinds   == {"topup", "transfer", "pro"}
Calls   == {"create", "insert", "status", "complete", "credit", "giveback"}
Steps   == {"idle", "create", "insert", "lookup", "status", "settle", "complete",
            "claim", "credit", "giveback", "fail"}

ASSUME FundingAssumption ==
  /\ None \notin Payments
  /\ Lossy \subseteq Calls /\ Fatal \subseteq Steps

VARIABLES
  kind,      \* what a payment is for (never changes)
  row,       \* status of wallet_topups, transfers, expense_pro_payments ("NONE": no row)
  order,     \* what the provider did: "short" is paid, with another amount
  heard,     \* webhook_events: the outcomes a callback was logged for
  credits,   \* ledger entries TOPUP-, TRANSFER-, or months of Pro, of a payment
  lost,      \* history: payments credited by a call whose answer was lost
  cut,       \* history: payments whose claim a stop kept from being credited or given back
  installed, \* migrations 056 and 062 are applied
  active,    \* the wallet of the recipient of a transfer is ACTIVE
  pc,        \* the step a worker is about to take
  on,        \* the payment it works on
  polls,     \* it is the status check of the person
  told       \* what the provider told it of the order

tables == <<row, heard, credits, lost, cut>>
around == <<kind, order, installed, active>>
hands  == <<pc, on, polls, told>>
vars   == <<tables, around, hands>>

Statuses == {"NONE", "PENDING", "SUCCESS", "FAILED"}
Orders   == {"none", "asked", "paid", "short", "failed", "back"}

-----------------------------------------------------------------------------
(* How a worker moves.                                                     *)

At(k, step)   == pc[k] = step
Goto(k, step) == pc' = [pc EXCEPT ![k] = step] /\ UNCHANGED <<on, polls, told>>

Begin(k, i, step, poll, word) ==
  /\ At(k, "idle")
  /\ pc' = [pc EXCEPT ![k] = step]
  /\ on' = [on EXCEPT ![k] = i]
  /\ polls' = [polls EXCEPT ![k] = poll]
  /\ told' = [told EXCEPT ![k] = word]

Finish(k) ==
  /\ pc' = [pc EXCEPT ![k] = "idle"]
  /\ on' = [on EXCEPT ![k] = None]
  /\ polls' = [polls EXCEPT ![k] = FALSE]
  /\ told' = [told EXCEPT ![k] = "none"]

SetRow(i, status) == row' = [row EXCEPT ![i] = status]
AddCredit(i)      == credits' = [credits EXCEPT ![i] = @ + 1]

-----------------------------------------------------------------------------
Init ==
  /\ kind \in [Payments -> Kinds]
  /\ row = [i \in Payments |-> "NONE"]
  /\ order = [i \in Payments |-> "none"]
  /\ heard = {}
  /\ credits = [i \in Payments |-> 0]
  /\ lost = {} /\ cut = {}
  /\ installed \in BOOLEAN
  /\ active = TRUE
  /\ pc = [k \in Workers |-> "idle"]
  /\ on = [k \in Workers |-> None]
  /\ polls = [k \in Workers |-> FALSE]
  /\ told = [k \in Workers |-> "none"]

-----------------------------------------------------------------------------
(* Starting to pay (WS initiateTopup, transferViaPsp; Expense Pro          *)
(* activateProViaMobileMoney).                                             *)

\* The rows that hold the key of a call.
SameKey(i) == {j \in Payments : /\ kind[j] = kind[i] /\ kind[i] # "pro"
                                /\ Key[j] = Key[i] /\ row[j] # "NONE"}

\* A key that has a row is answered with it.
initiate(k, i) ==
  /\ order[i] = "none" /\ \A w \in Workers : on[w] # i
  /\ SameKey(i) = {}
  /\ kind[i] = "transfer" => active
  /\ Begin(k, i, "create", FALSE, "none")
  /\ UNCHANGED <<tables, around>>

\* The provider asks the person to pay before anything is recorded.
createPaymentIntent(k) ==
  /\ At(k, "create")
  /\ order' = [order EXCEPT ![on[k]] = "asked"]
  /\ Goto(k, "insert")
  /\ UNCHANGED <<tables, kind, installed, active>>

CreateUnanswered(k) ==
  /\ At(k, "create") /\ "create" \in Lossy
  /\ \/ order' = [order EXCEPT ![on[k]] = "asked"]
     \/ UNCHANGED order
  /\ Finish(k)
  /\ UNCHANGED <<tables, kind, installed, active>>

\* The unique key keeps the first row of two; the other call fails.
InsertRow(k) ==
  /\ At(k, "insert")
  /\ IF SameKey(on[k]) = {} THEN SetRow(on[k], "PENDING") ELSE UNCHANGED row
  /\ Finish(k)
  /\ UNCHANGED <<heard, credits, lost, cut, around>>

InsertFailed(k) ==
  /\ At(k, "insert") /\ "insert" \in Lossy
  /\ Finish(k)
  /\ UNCHANGED <<tables, around>>

-----------------------------------------------------------------------------
(* The provider and the person.                                            *)

Answer(i) ==
  /\ \/ order[i] = "asked" /\ \E outcome \in {"paid", "short", "failed"} : order' = [order EXCEPT ![i] = outcome]
     \/ order[i] \in {"paid", "short"} /\ order' = [order EXCEPT ![i] = "back"]
  /\ UNCHANGED <<tables, kind, installed, active, hands>>

\* The recipient's wallet is frozen, or open again.
Freeze ==
  /\ \E i \in Payments : kind[i] = "transfer"
  /\ active' = ~ active
  /\ UNCHANGED <<tables, kind, order, installed, hands>>

\* The migrations are applied.
Install ==
  /\ ~ installed /\ installed' = TRUE
  /\ UNCHANGED <<tables, kind, order, active, hands>>

Known(i)   == order[i] \notin {"none", "asked"}
Failed(w)  == w \in {"failed", "back"}

-----------------------------------------------------------------------------
(* Learning the outcome.                                                   *)

\* PS handleWebhook: the provider is asked again, and each outcome is logged once.
Callback(k, i) ==
  /\ Known(i)
  /\ LET event == <<i, Failed(order[i])>> IN event \notin heard /\ heard' = heard \cup {event}
  /\ Begin(k, i, "lookup", FALSE, order[i])
  /\ UNCHANGED <<row, credits, lost, cut, around>>

\* A callback that finds no row is done with.
Lookup(k) ==
  /\ At(k, "lookup")
  /\ IF row[on[k]] = "NONE" THEN Finish(k) ELSE Goto(k, "settle")
  /\ UNCHANGED <<tables, around>>

\* getTopupStatus, getTransferStatus, reconcilePending; getProPaymentStatus (poll)
\* claims in its own way.
Check(k, i, poll) ==
  /\ row[i] = "PENDING"
  /\ Begin(k, i, "status", poll, "none")
  /\ UNCHANGED <<tables, around>>

getTransactionStatus(k) ==
  /\ At(k, "status")
  /\ IF Known(on[k])
     THEN /\ pc' = [pc EXCEPT ![k] = "settle"]
          /\ told' = [told EXCEPT ![k] = order[on[k]]]
          /\ UNCHANGED <<on, polls>>
     ELSE Finish(k)
  /\ UNCHANGED <<tables, around>>

StatusUnanswered(k) ==
  /\ At(k, "status") /\ "status" \in Lossy
  /\ Finish(k)
  /\ UNCHANGED <<tables, around>>

\* The amount of a Pro payment is not compared.
amountAccepted(k) == kind[on[k]] = "pro" \/ told[k] # "short"

Settle(k) ==
  /\ At(k, "settle")
  /\ \/ Failed(told[k]) /\ Goto(k, "fail")
     \/ ~ Failed(told[k]) /\ ~ amountAccepted(k) /\ Finish(k)
     \/ /\ ~ Failed(told[k]) /\ amountAccepted(k)
        /\ Goto(k, IF kind[on[k]] = "pro" THEN "claim" ELSE "complete")
  /\ UNCHANGED <<tables, around>>

-----------------------------------------------------------------------------
(* Turning it into a credit.                                               *)

\* complete_topup: whatever the status but SUCCESS, and never a second entry.
complete_topup(i) ==
  IF row[i] = "SUCCESS" THEN UNCHANGED <<row, credits>>
  ELSE /\ SetRow(i, "SUCCESS")
       /\ IF credits[i] = 0 THEN AddCredit(i) ELSE UNCHANGED credits

\* complete_funded_transfer: only a PENDING transfer to an ACTIVE wallet.
complete_funded_transfer(i) ==
  IF row[i] = "PENDING" /\ active THEN SetRow(i, "SUCCESS") /\ AddCredit(i)
  ELSE UNCHANGED <<row, credits>>

CompleteOnce(k) ==
  /\ At(k, "complete") /\ installed
  /\ IF kind[on[k]] = "topup" THEN complete_topup(on[k]) ELSE complete_funded_transfer(on[k])
  /\ Finish(k)
  /\ UNCHANGED <<heard, lost, cut, around>>

CompleteFailed(k) ==
  /\ At(k, "complete") /\ "complete" \in Lossy
  /\ Finish(k)
  /\ UNCHANGED <<tables, around>>

\* Without the function: the row is claimed first.
FunctionMissing(k) ==
  /\ At(k, "complete") /\ ~ installed
  /\ Goto(k, "claim")
  /\ UNCHANGED <<tables, around>>

\* Mutant: a payment that is done can be claimed again.
Claimable_Again(k) == {"PENDING", "FAILED", "SUCCESS"}

Claimable(k) ==
  IF kind[on[k]] = "transfer" \/ (kind[on[k]] = "pro" /\ polls[k]) THEN {"PENDING"} ELSE {"PENDING", "FAILED"}

ClaimRow(k) ==
  /\ At(k, "claim")
  /\ IF row[on[k]] \in Claimable(k) THEN SetRow(on[k], "SUCCESS") /\ Goto(k, "credit")
     ELSE Finish(k) /\ UNCHANGED row
  /\ UNCHANGED <<heard, credits, lost, cut, around>>

\* credit_wallet, extend_expense_pro.
Credit(k) ==
  /\ At(k, "credit")
  /\ AddCredit(on[k])
  /\ Finish(k)
  /\ UNCHANGED <<row, heard, lost, cut, around>>

CreditRefused(k) ==
  /\ At(k, "credit")
  /\ Goto(k, "giveback")
  /\ UNCHANGED <<tables, around>>

\* The credit is made and taken for refused; bound: once per payment.
CreditUnanswered(k) ==
  /\ At(k, "credit") /\ "credit" \in Lossy
  /\ on[k] \notin lost /\ lost' = lost \cup {on[k]}
  /\ AddCredit(on[k])
  /\ Goto(k, "giveback")
  /\ UNCHANGED <<row, heard, cut, around>>

\* Mutant: a credit that failed fails the payment.
GiveBack_Failed(k) ==
  /\ At(k, "giveback")
  /\ SetRow(on[k], "FAILED")
  /\ Finish(k)
  /\ UNCHANGED <<heard, credits, lost, cut, around>>

GiveBack(k) ==
  /\ At(k, "giveback")
  /\ IF kind[on[k]] = "pro" /\ row[on[k]] # "SUCCESS" THEN UNCHANGED row ELSE SetRow(on[k], "PENDING")
  /\ Finish(k)
  /\ UNCHANGED <<heard, credits, lost, cut, around>>

\* Mutant: a late failure is written whatever the status.
Fail_Blind(k) ==
  /\ At(k, "fail")
  /\ SetRow(on[k], "FAILED")
  /\ Finish(k)
  /\ UNCHANGED <<heard, credits, lost, cut, around>>

\* failTopup, failFundedTransfer.
Fail(k) ==
  /\ At(k, "fail")
  /\ IF row[on[k]] = "PENDING" THEN SetRow(on[k], "FAILED") ELSE UNCHANGED row
  /\ Finish(k)
  /\ UNCHANGED <<heard, credits, lost, cut, around>>

\* The process stops; what it had claimed stays claimed.
Interrupt(k) ==
  /\ pc[k] \in Fatal
  /\ cut' = cut \cup {i \in {on[k]} : pc[k] \in {"credit", "giveback"}}
  /\ Finish(k)
  /\ UNCHANGED <<row, heard, credits, lost, around>>

-----------------------------------------------------------------------------
Work(k) ==
  \/ createPaymentIntent(k) \/ InsertRow(k)
  \/ Lookup(k) \/ getTransactionStatus(k) \/ Settle(k)
  \/ CompleteOnce(k) \/ FunctionMissing(k) \/ ClaimRow(k) \/ Credit(k) \/ GiveBack(k) \/ Fail(k)

Mishap(k) ==
  \/ CreateUnanswered(k) \/ InsertFailed(k) \/ StatusUnanswered(k) \/ CompleteFailed(k)
  \/ CreditRefused(k) \/ CreditUnanswered(k) \/ Interrupt(k)

Learn(k, i) ==
  \/ Callback(k, i) \/ Check(k, i, FALSE)
  \/ kind[i] = "pro" /\ Check(k, i, TRUE)

\* A step while the calls are answered and the process runs.
Calm ==
  \/ \E k \in Workers : Work(k) \/ \E i \in Payments : initiate(k, i) \/ Learn(k, i)
  \/ \E i \in Payments : Answer(i)
  \/ Freeze \/ Install

Next == Calm \/ \E k \in Workers : Mishap(k)

Spec == Init /\ [][Next]_vars

\* A call goes on; the reconciliation asks about each waiting payment again and
\* again (every minute); at last calls are answered.
FairSpec ==
  /\ Spec
  /\ \A k \in Workers : WF_vars(Work(k))
  /\ \A i \in Payments : SF_vars(\E k \in Workers : Check(k, i, FALSE))
  /\ <>[][Calm]_vars

-----------------------------------------------------------------------------
(* Properties.                                                             *)

\* Types and bounds.
TypeOK ==
  /\ kind \in [Payments -> Kinds]
  /\ row \in [Payments -> Statuses]
  /\ order \in [Payments -> Orders]
  /\ heard \subseteq Payments \X BOOLEAN
  /\ credits \in [Payments -> 0..2]
  /\ lost \subseteq Payments /\ cut \subseteq Payments
  /\ installed \in BOOLEAN /\ active \in BOOLEAN
  /\ pc \in [Workers -> Steps]
  /\ on \in [Workers -> Payments \cup {None}]
  /\ polls \in [Workers -> BOOLEAN]
  /\ told \in [Workers -> Orders]

\* Whoever holds the claim of a payment is about to credit it or to give it back.
Holds(k, i) == on[k] = i /\ pc[k] \in {"credit", "giveback"}

\* What a lost answer leaves behind: one credit that the row knows nothing of.
Unknown(i) == IF i \in lost THEN 1 ELSE 0

\* However often and by whomever it is confirmed, a SUCCESS payment is credited
\* once (and once more only after a lost answer); another one is not.  One that is
\* claimed and not credited is in the hands of a worker, or a stop took it out of them.
SuccessIsCredited ==
  \A i \in Payments :
    \/ row[i] = "SUCCESS" /\ credits[i] \in {1, 1 + Unknown(i)}
    \/ row[i] # "SUCCESS" /\ credits[i] = Unknown(i)
    \/ /\ row[i] = "SUCCESS" /\ credits[i] = Unknown(i)
       /\ i \in cut \/ \E k \in Workers : Holds(k, i)

\* A credit was paid for in full (the amount of a Pro payment is not compared).
CreditWasPaid ==
  \A i \in Payments : credits[i] > 0 =>
    order[i] \in {"paid", "back"} \cup IF kind[i] = "pro" THEN {"short"} ELSE {}

\* The three: one credit, for what was paid, and the row says so.
CreditsAreRight == TypeOK /\ SuccessIsCredited /\ CreditWasPaid

\* "a late 'failed' must never overwrite one that already succeeded" (PS:838).
SuccessNeverFails == [][\A i \in Payments : row[i] = "SUCCESS" => row'[i] # "FAILED"]_vars

\* A recorded payment that the provider took in full is credited, callback or not,
\* unless it is paid back, its recipient's wallet is frozen, or a process stopped
\* between its claim and its credit.
PaidIsCredited ==
  \A i \in Payments :
    order[i] = "paid" /\ row[i] = "PENDING" ~>
      credits[i] = 1 \/ order[i] = "back" \/ (kind[i] = "transfer" /\ ~ active) \/ i \in cut

=============================================================================
