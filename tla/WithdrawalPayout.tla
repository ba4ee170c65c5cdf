-------------------------- MODULE WithdrawalPayout --------------------------
(***************************************************************************)
(* A wallet withdrawal from the request to its settlement: the database    *)
(* rows (withdrawals, flexpaie_payouts), the API's threads of control that *)
(* touch them (a request, the every-minute reconciliation, a provider      *)
(* callback, an administrator) and the payout provider behind the network. *)
(*                                                                         *)
(* Every step is one round trip: one SQL statement, one RPC, or one call   *)
(* to the provider.  Between two steps of a worker anything may happen,    *)
(* including the end of its process (Interrupt).                           *)
(*                                                                         *)
(* Sources: wallets/withdrawal-payout.service.ts (WPS),                    *)
(* payments/psp/providers/flexpaie.adapter.ts (FPA),                       *)
(* wallets/wallets.service.ts (WS), wallets/manual-withdrawals.service.ts  *)
(* (MWS), supabase/migrations 042, 057, 067.                               *)
(***************************************************************************)
EXTENDS Naturals

CONSTANTS
  Withdrawals,   \* withdrawal ids
  Bank,          \* the ones to a bank account: FlexPaie cannot send them
  Workers,       \* requests, job passes, callbacks and admin clicks under way
  None,          \* "no withdrawal"
  AtomicRequest, \* TRUE: migration 057 applied; FALSE: the two-step fallback
  Switches,      \* TRUE: the payout switch may be turned during the run
  Patience,      \* TRUE: 30 minutes without news, or 24 h of retries, can pass
  MaxAttempts    \* bound on the attempts TLC explores for one withdrawal

ASSUME PayoutAssumption ==
  /\ Bank \subseteq Withdrawals
  /\ None \notin Withdrawals
  /\ AtomicRequest \in BOOLEAN
  /\ {Switches, Patience} \subseteq BOOLEAN
  /\ MaxAttempts \in Nat \ {0}

VARIABLES
  auto,       \* FLEXPAIE_PAYOUTS_ENABLED, with the access configured
  \* table withdrawals, and the ledger entries that name a withdrawal
  status,     \* withdrawals.status ("NONE": no row yet)
  ref,        \* withdrawals.psp_reference is set by the provider's answer
  debits,     \* ledger debits WITHDRAWAL-<id>
  credits,    \* ledger credits WITHDRAWAL-REVERSAL-<id>
  \* table flexpaie_payouts, the journal
  jstate,     \* state ("NONE": no row)
  order,      \* order_number is known
  attempts,   \* attempts, hence sent_reference = RET-...-<attempts>
  \* the provider
  stray,      \* requests whose sender stopped listening, not yet treated
  orders,     \* requests it accepted
  verdict,    \* what its status check says of the order
  \* the workers
  pc,         \* the step a worker is about to take
  on,         \* the withdrawal it works on
  seen,       \* what it read of the rows, and still uses
  vouched     \* an administrator declared the money sent by hand

account  == <<status, ref, debits, credits>>
journal  == <<jstate, order, attempts>>
provider == <<stray, orders, verdict>>
vars == <<auto, account, journal, provider, pc, on, seen, vouched>>

OpenStatus == {"PENDING", "PROCESSING"}
Statuses   == {"NONE", "SUCCESS", "REVERSED", "FAILED"} \cup OpenStatus
RowStates  == {"NONE", "SENDING", "ACCEPTED", "NOT_SENT", "ABANDONED"}

Sending == {"posting", "taken", "busy", "refused", "mark"}
Steps   == Sending \cup {"idle", "debit", "dispatch", "login", "claim",
             "pending", "fail", "success", "status", "abandon", "adopt",
             "check", "record", "load"}

View == [status : OpenStatus, ref : BOOLEAN, state : RowStates, attempts : Nat]
Blank == [status |-> "PENDING", ref |-> FALSE, state |-> "NONE", attempts |-> 0]

Open(w)   == status[w] \in OpenStatus
Manual(w) == ~auto \/ w \in Bank
InFlight(w) == jstate[w] \in {"SENDING", "ACCEPTED"}

\* No sender of w is between its claim and the end of its call: a call lasts
\* at most TIMEOUT_MS (20 s), so a row untouched for 30 minutes has none.
Quiet(w) == \A k \in Workers : on[k] = w => pc[k] \notin Sending

-----------------------------------------------------------------------------
(* How a worker moves.                                                     *)

At(k, step)   == pc[k] = step
Goto(k, step) == pc' = [pc EXCEPT ![k] = step]

Begin(k, w, step, view) ==
  /\ At(k, "idle")
  /\ Goto(k, step)
  /\ on' = [on EXCEPT ![k] = w]
  /\ seen' = [seen EXCEPT ![k] = view]

Finish(k) ==
  /\ Goto(k, "idle")
  /\ on' = [on EXCEPT ![k] = None]
  /\ seen' = [seen EXCEPT ![k] = Blank]

Continue(k, step) == Goto(k, step) /\ seen' = [seen EXCEPT ![k] = Blank] /\ UNCHANGED on

RowSeen(w) == [Blank EXCEPT !.state = jstate[w], !.attempts = attempts[w]]
WithdrawalSeen(w) == [Blank EXCEPT !.status = status[w], !.ref = ref[w]]

\* markPayout: an unconditional update, that may fail (the caller goes on).
MarkPayout(w, state, known) ==
  \/ UNCHANGED <<jstate, order>>
  \/ /\ jstate' = [jstate EXCEPT ![w] = state]
     /\ order'  = [order EXCEPT ![w] = known]

-----------------------------------------------------------------------------
Init ==
  /\ auto \in BOOLEAN
  /\ status = [w \in Withdrawals |-> "NONE"]
  /\ ref = [w \in Withdrawals |-> FALSE]
  /\ debits = [w \in Withdrawals |-> 0]
  /\ credits = [w \in Withdrawals |-> 0]
  /\ jstate = [w \in Withdrawals |-> "NONE"]
  /\ order = [w \in Withdrawals |-> FALSE]
  /\ attempts = [w \in Withdrawals |-> 0]
  /\ stray = [w \in Withdrawals |-> 0]
  /\ orders = [w \in Withdrawals |-> 0]
  /\ verdict = [w \in Withdrawals |-> "none"]
  /\ pc = [k \in Workers |-> "idle"]
  /\ on = [k \in Workers |-> None]
  /\ seen = [k \in Workers |-> Blank]
  /\ vouched = [w \in Withdrawals |-> FALSE]

-----------------------------------------------------------------------------
(* The database functions: each locks the row, one transaction.            *)

\* The row and its debit.  (An insufficient balance rolls both back.)
request_withdrawal(w) ==
  /\ status[w] = "NONE"
  /\ status' = [status EXCEPT ![w] = "PENDING"]
  /\ debits' = [debits EXCEPT ![w] = @ + 1]
  /\ UNCHANGED <<ref, credits>>

MarkProcessing_Unguarded(w) ==     \* as if 042 did not test the status
  /\ status' = [status EXCEPT ![w] = "PROCESSING"]
  /\ ref' = [ref EXCEPT ![w] = TRUE]
  /\ UNCHANGED <<debits, credits>>

mark_withdrawal_processing(w) ==
  /\ IF status[w] = "PENDING"
       THEN /\ status' = [status EXCEPT ![w] = "PROCESSING"]
            /\ ref' = [ref EXCEPT ![w] = TRUE]
       ELSE UNCHANGED <<status, ref>>
  /\ UNCHANGED <<debits, credits>>

Finish_Unguarded(w) ==             \* as if 042 did not test the status
  /\ status' = [status EXCEPT ![w] = "SUCCESS"]
  /\ UNCHANGED <<ref, debits, credits>>

\* (The reference stored with SUCCESS is never read again: left out.)
finish_withdrawal(w) ==
  /\ status' = IF Open(w) THEN [status EXCEPT ![w] = "SUCCESS"] ELSE status
  /\ UNCHANGED <<ref, debits, credits>>

Fail_042(w) ==                     \* the version before 057: always credits
  /\ IF Open(w)
       THEN /\ status' = [status EXCEPT ![w] = "REVERSED"]
            /\ credits' = [credits EXCEPT ![w] = @ + 1]
       ELSE UNCHANGED <<status, credits>>
  /\ UNCHANGED <<ref, debits>>

\* Amount and fee go back to the wallet only if the ledger holds the debit.
fail_withdrawal(w) ==
  /\ IF ~Open(w)
       THEN UNCHANGED <<status, credits>>
       ELSE IF debits[w] > 0
         THEN /\ status' = [status EXCEPT ![w] = "REVERSED"]
              /\ credits' = [credits EXCEPT ![w] = @ + 1]
         ELSE /\ status' = [status EXCEPT ![w] = "FAILED"]
              /\ UNCHANGED credits
  /\ UNCHANGED <<ref, debits>>

-----------------------------------------------------------------------------
(* The request (WS requestWithdrawal, createWithdrawalAtomically).         *)

\* A replayed idempotency key answers with the existing row: no step.
RequestWithdrawal(k, w) ==
  /\ AtomicRequest
  /\ request_withdrawal(w)
  /\ Begin(k, w, "dispatch", Blank)
  /\ UNCHANGED <<auto, journal, provider, vouched>>

\* The fallback without migration 057: insert, then debit_wallet.
InsertRequest(k, w) ==
  /\ ~AtomicRequest
  /\ status[w] = "NONE"
  /\ Begin(k, w, "debit", Blank)
  /\ status' = [status EXCEPT ![w] = "PENDING"]
  /\ UNCHANGED <<auto, ref, debits, credits, journal, provider, vouched>>

DebitRequest(k) ==
  /\ At(k, "debit")
  /\ debits' = [debits EXCEPT ![on[k]] = @ + 1]
  /\ Continue(k, "dispatch")
  /\ UNCHANGED <<auto, status, ref, credits, journal, provider, on, vouched>>

\* Any debit error closes the row as FAILED: the balance was short, or the
\* debit was committed and only its answer was lost.
DebitRefused(k) ==
  /\ At(k, "debit")
  /\ \E charged \in {0, 1} : debits' = [debits EXCEPT ![on[k]] = @ + charged]
  /\ status' = [status EXCEPT ![on[k]] = "FAILED"]
  /\ Finish(k)
  /\ UNCHANGED <<auto, ref, credits, journal, provider, vouched>>

-----------------------------------------------------------------------------
(* Sending (WPS dispatch, FPA payout).                                     *)

Dispatch_SendingIsAccepted(k) ==   \* a row still SENDING read as accepted
  LET w == on[k] IN
  /\ At(k, "dispatch")
  /\ IF ~Manual(w) /\ jstate[w] \in {"NONE", "NOT_SENT"}
       THEN /\ Goto(k, "login")
            /\ seen' = [seen EXCEPT ![k] = RowSeen(w)]
            /\ UNCHANGED on
       ELSE IF Manual(w) THEN Finish(k) ELSE Continue(k, "pending")
  /\ UNCHANGED <<auto, account, journal, provider, vouched>>

\* dispatch and the start of payout(): the manual test and the journal read.
Dispatch(k) ==
  LET w == on[k] IN
  /\ At(k, "dispatch")
  /\ \/ /\ Manual(w) \/ jstate[w] \in {"SENDING", "ABANDONED"}
        /\ Finish(k)
     \/ /\ ~Manual(w)
        /\ jstate[w] = "ACCEPTED" /\ order[w]
        /\ Continue(k, "pending")
     \/ /\ ~Manual(w)
        /\ jstate[w] \in {"NONE", "NOT_SENT"}
        /\ Goto(k, "login")
        /\ seen' = [seen EXCEPT ![k] = RowSeen(w)]
        /\ UNCHANGED on
  /\ UNCHANGED <<auto, account, journal, provider, vouched>>

\* payoutAuthorization: a token, a refusal (PayoutNotSentError), or an error
\* (PayoutRetryLaterError: left open, nothing was claimed).
LoginOk(k) ==
  /\ At(k, "login") /\ Goto(k, "claim")
  /\ UNCHANGED <<auto, account, journal, provider, on, seen, vouched>>

LoginRefused(k) ==
  /\ At(k, "login") /\ Continue(k, "fail")
  /\ UNCHANGED <<auto, account, journal, provider, vouched>>

LoginError(k) ==
  /\ At(k, "login") /\ Finish(k)
  /\ UNCHANGED <<auto, account, journal, provider, vouched>>

Claim_Unconditional(k) ==          \* the claim without .eq('state','NOT_SENT')
  LET w == on[k] IN
  /\ At(k, "claim")
  /\ seen[k].attempts < MaxAttempts
  /\ jstate' = [jstate EXCEPT ![w] = "SENDING"]
  /\ attempts' = [attempts EXCEPT ![w] = seen[k].attempts + 1]
  /\ Continue(k, "posting")
  /\ UNCHANGED <<auto, account, order, provider, on, vouched>>

\* claimPayout: the insert for a first try, NOT_SENT -> SENDING for a retry.
ClaimPayout(k) ==
  LET w == on[k] IN
  /\ At(k, "claim")
  /\ jstate[w] = seen[k].state
  /\ seen[k].attempts < MaxAttempts
  /\ jstate' = [jstate EXCEPT ![w] = "SENDING"]
  /\ attempts' = [attempts EXCEPT ![w] = seen[k].attempts + 1]
  /\ Continue(k, "posting")
  /\ UNCHANGED <<auto, account, order, provider, on, vouched>>

\* Another sender holds the row: "already being sent: not sent twice".
ClaimLost(k) ==
  /\ At(k, "claim")
  /\ jstate[on[k]] # seen[k].state
  /\ Finish(k)
  /\ UNCHANGED <<auto, account, journal, provider, vouched>>

\* The insert failed for another reason (PayoutNotSentError); it may have
\* been committed all the same.
ClaimError(k) ==
  LET w == on[k] IN
  /\ At(k, "claim")
  /\ seen[k].state = "NONE"
  /\ \/ UNCHANGED journal
     \/ /\ jstate[w] = "NONE"
        /\ jstate' = [jstate EXCEPT ![w] = "SENDING"]
        /\ attempts' = [attempts EXCEPT ![w] = 1]
        /\ UNCHANGED order
  /\ Continue(k, "fail")
  /\ UNCHANGED <<auto, account, provider, on, vouched>>

\* The POST is out.  The provider creates the order (its answer travels back).
ProviderAccepts(k) ==
  LET w == on[k] IN
  /\ At(k, "posting")
  /\ orders' = [orders EXCEPT ![w] = @ + 1]
  /\ verdict' = [verdict EXCEPT ![w] = "in progress"]
  /\ Goto(k, "taken")
  /\ UNCHANGED <<auto, account, journal, stray, on, seen, vouched>>

\* The answers to the POST.  A first refused token is a new login and the same
\* POST again: the step is still "posting".
AnswerBusy(k) ==     \* outcome 1, or no connection was ever made
  /\ At(k, "posting") /\ Goto(k, "busy")
  /\ UNCHANGED <<auto, account, journal, provider, on, seen, vouched>>

AnswerRefused(k) ==  \* outcomes 2 to 5, code 1, or the token refused twice
  /\ At(k, "posting") /\ Goto(k, "refused")
  /\ UNCHANGED <<auto, account, journal, provider, on, seen, vouched>>

AnswerAccepted(k) == \* code 0 with an order number
  /\ At(k, "taken") /\ Goto(k, "mark")
  /\ UNCHANGED <<auto, account, journal, provider, on, seen, vouched>>

AnswerLost_NotSent(k) ==           \* a timeout taken as "never left"
  /\ At(k, "posting") \/ At(k, "taken")
  /\ stray' = IF At(k, "posting") THEN [stray EXCEPT ![on[k]] = @ + 1] ELSE stray
  /\ jstate' = [jstate EXCEPT ![on[k]] = "NOT_SENT"]
  /\ Finish(k)
  /\ UNCHANGED <<auto, account, order, attempts, orders, verdict, vouched>>

\* Timeout, 5xx, garbled or unexpected answer: the money may have left.
AnswerLost(k) ==
  /\ At(k, "posting") \/ At(k, "taken")
  /\ stray' = IF At(k, "posting") THEN [stray EXCEPT ![on[k]] = @ + 1] ELSE stray
  /\ Finish(k)
  /\ UNCHANGED <<auto, account, journal, orders, verdict, vouched>>

MarkBusy(k) ==
  /\ At(k, "busy")
  /\ MarkPayout(on[k], "NOT_SENT", order[on[k]])
  /\ Finish(k)
  /\ UNCHANGED <<auto, account, attempts, provider, vouched>>

MarkRefused(k) ==
  /\ At(k, "refused")
  /\ MarkPayout(on[k], "NOT_SENT", order[on[k]])
  /\ Continue(k, "fail")
  /\ UNCHANGED <<auto, account, attempts, provider, on, vouched>>

MarkAccepted(k) ==
  /\ At(k, "mark")
  /\ MarkPayout(on[k], "ACCEPTED", TRUE)
  /\ Continue(k, "pending")
  /\ UNCHANGED <<auto, account, attempts, provider, on, vouched>>

-----------------------------------------------------------------------------
(* Settling (WPS apply).  The RPC's error is ignored (Interrupt).          *)

ApplyPending(k) ==
  /\ At(k, "pending")
  /\ mark_withdrawal_processing(on[k])
  /\ Finish(k)
  /\ UNCHANGED <<auto, journal, provider, vouched>>

ApplySuccess(k) ==
  /\ At(k, "success")
  /\ finish_withdrawal(on[k])
  /\ Finish(k)
  /\ UNCHANGED <<auto, journal, provider, vouched>>

ApplyFailed(k) ==
  /\ At(k, "fail")
  /\ fail_withdrawal(on[k])
  /\ Finish(k)
  /\ UNCHANGED <<auto, journal, provider, vouched>>

-----------------------------------------------------------------------------
(* Asking what happened (WPS reconcile, reconcileOne; FPA getPayoutStatus).*)
(* The job's lease (50 s) is shorter than a slow pass and opens on a       *)
(* database error: two passes may overlap, and a pass may overlap the      *)
(* request that is still talking to the provider.                          *)

JobPick_AnyStatus(k, w) ==         \* the job without its status filter
  /\ status[w] # "NONE"
  /\ Begin(k, w, "status", WithdrawalSeen(w))
  /\ UNCHANGED <<auto, account, journal, provider, vouched>>

JobPick(k, w) ==
  /\ Open(w)
  /\ Begin(k, w, "status", WithdrawalSeen(w))
  /\ UNCHANGED <<auto, account, journal, provider, vouched>>

Status_AbandonedWaits(k, late) ==  \* ABANDONED read as still pending
  LET w == on[k] IN
  /\ At(k, "status")
  /\ late => Patience /\ Quiet(w)
  /\ IF Manual(w) /\ ~InFlight(w) THEN Finish(k)
     ELSE IF jstate[w] = "NOT_SENT" /\ late THEN Continue(k, "fail")
     ELSE IF jstate[w] \in {"NONE", "NOT_SENT"} THEN Continue(k, "dispatch")
     ELSE IF order[w] \/ seen[k].ref THEN Continue(k, "check")
     ELSE IF jstate[w] = "SENDING" /\ late THEN Continue(k, "abandon")
     ELSE Finish(k)
  /\ UNCHANGED <<auto, account, journal, provider, vouched>>

\* reconcileOne up to the first call to the provider.  `late`: the row was
\* created over 24 h ago (NOT_SENT), or not updated for 30 min (SENDING).
Status(k, late) ==
  LET w == on[k] IN
  /\ At(k, "status")
  /\ late => Patience /\ Quiet(w)
  /\ \/ /\ Manual(w) /\ ~InFlight(w)           \* left to an administrator
        /\ Finish(k)
     \/ /\ ~Manual(w)
        /\ jstate[w] = "NONE" \/ (jstate[w] = "NOT_SENT" /\ ~late)
        /\ IF seen[k].status = "PENDING" THEN Continue(k, "dispatch")
                                         ELSE Finish(k)
     \/ /\ ~Manual(w)
        /\ jstate[w] = "NOT_SENT" /\ late
        /\ Continue(k, "fail")
     \/ /\ ~(Manual(w) /\ ~InFlight(w))
        /\ jstate[w] \notin {"NONE", "NOT_SENT"}
        /\ IF order[w] THEN Continue(k, "check")
           ELSE IF seen[k].ref
             THEN /\ Goto(k, "adopt")
                  /\ seen' = [seen EXCEPT ![k] = RowSeen(w)]
                  /\ UNCHANGED on
           ELSE IF jstate[w] = "ABANDONED" THEN Continue(k, "fail")
           ELSE IF jstate[w] = "SENDING" /\ late THEN Continue(k, "abandon")
           ELSE Finish(k)
  /\ UNCHANGED <<auto, account, journal, provider, vouched>>

\* Thirty minutes without news: taken as never sent, refunded.
MarkAbandoned(k) ==
  /\ At(k, "abandon")
  /\ MarkPayout(on[k], "ABANDONED", order[on[k]])
  /\ Continue(k, "fail")
  /\ UNCHANGED <<auto, account, attempts, provider, on, vouched>>

\* The order number was only on the withdrawal: written back to the journal.
AdoptOrder(k) ==
  LET w == on[k] IN
  /\ At(k, "adopt")
  /\ MarkPayout(w, IF seen[k].state = "SENDING" THEN "ACCEPTED" ELSE jstate[w], TRUE)
  /\ Continue(k, "check")
  /\ UNCHANGED <<auto, account, attempts, provider, on, vouched>>

Check_UnknownIsPaid(k) ==          \* any answer but a failure read as paid
  /\ At(k, "check")
  /\ IF verdict[on[k]] = "failed" THEN Continue(k, "fail") ELSE Continue(k, "success")
  /\ UNCHANGED <<auto, account, journal, provider, vouched>>

\* payoutCheck: a verdict, or nothing yet.
CheckPayout(k) ==
  LET w == on[k] IN
  /\ At(k, "check")
  /\ \/ verdict[w] = "paid" /\ Continue(k, "success")
     \/ verdict[w] = "failed" /\ Continue(k, "fail")
     \/ Finish(k)
  /\ UNCHANGED <<auto, account, journal, provider, vouched>>

-----------------------------------------------------------------------------
(* The callback (WPS handleCallback, FPA acceptPayoutCallback): anyone may  *)
(* post one, at any time, for a withdrawal the journal knows.               *)

Callback(k, w) ==
  /\ jstate[w] # "NONE"
  /\ \/ Begin(k, w, "load", Blank)              \* order known, or none named
     \/ /\ ~order[w] /\ orders[w] > 0           \* names the order: confirmed
        /\ Begin(k, w, "record", RowSeen(w))    \* by the provider as ours
  /\ UNCHANGED <<auto, account, journal, provider, vouched>>

RecordOrder(k) ==
  LET w == on[k] IN
  /\ At(k, "record")
  /\ MarkPayout(w, IF seen[k].state = "ABANDONED" THEN jstate[w] ELSE "ACCEPTED", TRUE)
  /\ Continue(k, "load")
  /\ UNCHANGED <<auto, account, attempts, provider, on, vouched>>

\* Open: settled like the job would.  Otherwise at most an alert is raised.
LoadWithdrawal(k) ==
  LET w == on[k] IN
  /\ At(k, "load")
  /\ IF Open(w)
       THEN /\ Goto(k, "status")
            /\ seen' = [seen EXCEPT ![k] = WithdrawalSeen(w)]
            /\ UNCHANGED on
       ELSE Finish(k)
  /\ UNCHANGED <<auto, account, journal, provider, vouched>>

-----------------------------------------------------------------------------
(* An administrator (MWS load, markSent, reject): only a manual withdrawal  *)
(* that the provider was not handed, still PENDING when it is loaded.       *)

AdminMayDecide(w) == Manual(w) /\ ~InFlight(w) /\ status[w] = "PENDING"

MarkSent(k, w) ==
  /\ AdminMayDecide(w)
  /\ Begin(k, w, "success", Blank)
  /\ vouched' = [vouched EXCEPT ![w] = TRUE]
  /\ UNCHANGED <<auto, account, journal, provider>>

Reject(k, w) ==
  /\ AdminMayDecide(w)
  /\ Begin(k, w, "fail", Blank)
  /\ UNCHANGED <<auto, account, journal, provider, vouched>>

-----------------------------------------------------------------------------
(* The surroundings.                                                       *)

\* The process ends, or a call it makes fails in a way that ends the activity
\* (a database error, an ignored RPC error): what was written stays.
Interrupt(k) ==
  /\ pc[k] # "idle"
  /\ \/ UNCHANGED stray
     \/ At(k, "posting") /\ stray' = [stray EXCEPT ![on[k]] = @ + 1]
  /\ Finish(k)
  /\ UNCHANGED <<auto, account, journal, orders, verdict, vouched>>

\* A request nobody listens to any more reaches the provider, or is lost.
StrayAccepted(w) ==
  /\ stray[w] > 0
  /\ stray' = [stray EXCEPT ![w] = @ - 1]
  /\ orders' = [orders EXCEPT ![w] = @ + 1]
  /\ verdict' = [verdict EXCEPT ![w] = "in progress"]
  /\ UNCHANGED <<auto, account, journal, pc, on, seen, vouched>>

StrayLost(w) ==
  /\ stray[w] > 0
  /\ stray' = [stray EXCEPT ![w] = @ - 1]
  /\ UNCHANGED <<auto, account, journal, orders, verdict, pc, on, seen, vouched>>

ProviderSettles(w) ==
  /\ verdict[w] = "in progress"
  /\ \E v \in {"paid", "failed"} : verdict' = [verdict EXCEPT ![w] = v]
  /\ UNCHANGED <<auto, account, journal, stray, orders, pc, on, seen, vouched>>

\* The switch; instances with the old value may still be working.
TogglePayouts ==
  /\ Switches
  /\ auto' = ~auto
  /\ UNCHANGED <<account, journal, provider, pc, on, seen, vouched>>

-----------------------------------------------------------------------------
SendStep(k) ==
  \/ Dispatch(k) \/ LoginOk(k) \/ LoginRefused(k) \/ LoginError(k)
  \/ ClaimPayout(k) \/ ClaimLost(k) \/ ClaimError(k)
  \/ AnswerBusy(k) \/ AnswerRefused(k) \/ AnswerAccepted(k) \/ AnswerLost(k)
  \/ MarkBusy(k) \/ MarkRefused(k) \/ MarkAccepted(k)

SettleStep(k) ==
  ApplyPending(k) \/ ApplySuccess(k) \/ ApplyFailed(k)

AskStep(k) ==
  \/ \E late \in BOOLEAN : Status(k, late)
  \/ MarkAbandoned(k) \/ AdoptOrder(k) \/ CheckPayout(k)
  \/ RecordOrder(k) \/ LoadWithdrawal(k)

StartStep(k, w) ==
  \/ RequestWithdrawal(k, w) \/ InsertRequest(k, w)
  \/ JobPick(k, w) \/ Callback(k, w) \/ MarkSent(k, w) \/ Reject(k, w)

WorkerStep(k) ==
  \/ \E w \in Withdrawals : StartStep(k, w)
  \/ DebitRequest(k) \/ DebitRefused(k)
  \/ SendStep(k) \/ SettleStep(k) \/ AskStep(k) \/ Interrupt(k)

ProviderStep ==
  \/ \E k \in Workers : ProviderAccepts(k)
  \/ \E w \in Withdrawals : StrayAccepted(w) \/ StrayLost(w) \/ ProviderSettles(w)

Next == (\E k \in Workers : WorkerStep(k)) \/ ProviderStep \/ TogglePayouts

Spec == Init /\ [][Next]_vars

(* Fairness.  Every activity ends (its calls have timeouts); the provider   *)
(* gives a verdict on each order it holds; the job comes back every minute, *)
(* and neither its passes, nor its logins, nor its RPCs fail for ever, nor  *)
(* is time short for ever (late).  Administrators, callbacks and the switch *)
(* owe nothing.                                                            *)
Verdict(k) == CheckPayout(k) /\ pc'[k] # "idle"

Fairness ==
  /\ \A k \in Workers : WF_vars(pc[k] # "idle" /\ WorkerStep(k))
  /\ \A w \in Withdrawals :
       LET Some(A(_)) == \E k \in Workers : on[k] = w /\ A(k)
           Late(k) == Status(k, TRUE)
       IN /\ SF_vars(\E k \in Workers : JobPick(k, w))
          /\ SF_vars(Some(Late)) /\ SF_vars(Some(MarkAbandoned))
          /\ SF_vars(Some(Dispatch)) /\ SF_vars(Some(LoginOk))
          /\ SF_vars(Some(ClaimPayout)) /\ SF_vars(Some(AdoptOrder))
          /\ SF_vars(Some(Verdict)) /\ SF_vars(Some(SettleStep))
          /\ WF_vars(ProviderSettles(w))

FairSpec == Spec /\ Fairness

-----------------------------------------------------------------------------
(* Properties.                                                             *)

\* Every variable has the type of the column, call or thread it stands for.
TypeOK ==
  /\ auto \in BOOLEAN
  /\ status \in [Withdrawals -> Statuses]
  /\ ref \in [Withdrawals -> BOOLEAN]
  /\ debits \in [Withdrawals -> Nat]
  /\ credits \in [Withdrawals -> Nat]
  /\ jstate \in [Withdrawals -> RowStates]
  /\ order \in [Withdrawals -> BOOLEAN]
  /\ attempts \in [Withdrawals -> Nat]
  /\ stray \in [Withdrawals -> Nat]
  /\ orders \in [Withdrawals -> Nat]
  /\ verdict \in [Withdrawals -> {"none", "in progress", "paid", "failed"}]
  /\ pc \in [Workers -> Steps]
  /\ on \in [Workers -> Withdrawals \cup {None}]
  /\ seen \in [Workers -> View]
  /\ vouched \in [Withdrawals -> BOOLEAN]
  /\ \A k \in Workers : pc[k] # "idle" => on[k] \in Withdrawals

\* "Jamais deux envois pour un retrait" (FLEXPAIE.md, 067): whatever the
\* requests, job passes and callbacks do at once, the provider never holds, or
\* may still come to hold, more than one order for a withdrawal.
AtMostOnePayout == \A w \in Withdrawals : orders[w] + stray[w] <= 1

\* The rule behind it: while the fate of a request is unknown, or an order
\* exists, the journal says so -- no step may make the withdrawal sendable.
UnknownFateIsHeld ==
  \A w \in Withdrawals :
    orders[w] + stray[w] > 0 => jstate[w] \in {"SENDING", "ACCEPTED", "ABANDONED"}

\* Money is given back at most once, and only if it was taken (057): no
\* combination of a late debit, a reversal and a crash creates money.
NoMoneyFromNothing ==
  \A w \in Withdrawals : credits[w] <= debits[w] /\ credits[w] <= 1

\* PROCESSING means that the provider accepted the payout (042): an order
\* exists, so asking the provider can settle it, and the job never re-sends it.
ProcessingHasAnOrder ==
  \A w \in Withdrawals : status[w] = "PROCESSING" => orders[w] > 0 /\ ref[w]

\* A withdrawal is reported as sent only when the provider said so or an
\* administrator declared it, through every path that can settle it.
SuccessIsConfirmed ==
  \A w \in Withdrawals : status[w] = "SUCCESS" => verdict[w] = "paid" \/ vouched[w]

\* What a withdrawal says of itself is so at the provider, whichever of the request,
\* the job, the callback and the administrator wrote it, and in whatever order.
StatusIsTrue == ProcessingHasAnOrder /\ SuccessIsConfirmed

\* A settled withdrawal never changes again: late callbacks, second admins and
\* overlapping job passes all find it closed (042: "return NULL otherwise").
SettledIsFinal ==
  [][\A w \in Withdrawals :
       status[w] \in {"SUCCESS", "REVERSED", "FAILED"} => status'[w] = status[w]]_vars

\* With automatic payouts on for good, no withdrawal the provider can send
\* stays open for ever, whatever is lost, interrupted or refused on the way.
EventuallySettled ==
  <>[]auto => \A w \in Withdrawals \ Bank : Open(w) ~> ~Open(w)

\* The withdrawal keeps the promise of WithdrawalContract.
Phase ==
  [w \in Withdrawals |->
     CASE status[w] = "NONE" -> "none"
       [] Open(w) -> "reserved"
       [] status[w] = "SUCCESS" -> "sent"
       [] OTHER -> "returned"]

Contract == INSTANCE WithdrawalContract
              WITH phase <- Phase, taken <- debits, given <- credits

KeepsTheContract == Contract!ContractSpec

\* "The wallet is refunded only on a CONFIRMED failure" (WPS class comment),
\* "can never be both paid and refunded" (042): what is given back did not
\* leave, and cannot leave any more.
PaidOrRefunded ==
  \A w \in Withdrawals :
    status[w] = "REVERSED" => verdict[w] \in {"none", "failed"} /\ stray[w] = 0

=============================================================================
