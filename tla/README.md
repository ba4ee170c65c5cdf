# Formal models of LinkPay (ScanLinkPay)

LinkPay is a payment platform for shops and people in the DRC: a NestJS API
(`src/linkpay-api/src`) over a PostgreSQL database (Supabase; the functions that
move money are SQL, `src/linkpay-api/supabase/migrations/001`–`094`), a web
application, a desktop and an Android application. Money enters and leaves
through a payment provider, FlexPaie (`src/docs/FLEXPAIE.md`). There is no
message queue and no transaction spanning two round trips: a request, a provider
callback, a status check and the every-minute jobs of several API instances all
run the same handlers on the same rows, one SQL statement at a time, and a
process may stop between any two of them. That is what these models are about.

Throughout, *worker* is one such thread of control, a *step* is one round trip
(one SQL statement, one RPC or one call to the provider), and a *lost answer* is a
call that had its effect and whose caller was told nothing, or an error.

## 1. Inventory

| Component (directory of the API unless said) | State | Operations that matter | Hard because | What makes it correct |
|---|---|---|---|---|
| **Withdrawals and payouts** (`wallets/withdrawal-payout`, `manual-withdrawals`, `payments/psp/providers/flexpaie.adapter`, SQL 042 057 067) | `withdrawals.status`, `psp_reference`, ledger entries, journal `flexpaie_payouts`, the provider's orders | request, dispatch (login, claim, POST, record), callback, reconciliation, abandon after 30 min, administrator's decision, switch | overlapping senders, POST of unknown fate, stops between POST and record, switch turned meanwhile | never two payouts, held while the fate is unknown, paid xor refunded, settled is final, settled in the end |
| **Payments of a request** (`payments`, `payment-requests`, SQL 041 060) | `payment_requests`, `payment_intents`, `flexpaie_orders`, `webhook_events`, `transactions`, ledger | createPayment, payWithWallet, callback, status check, reconciliation, success and failure handlers, merchant credit and its retry, cancel, expire | two payers, claims given back late, lost answers of every call, callback before the intent, stop between claim and transaction | one payer, one settler, one credit, for money that was taken; nothing kept for a failed attempt |
| **Wallets** (`wallets/wallets.service`, limits, PIN; SQL 006–015) | wallets, ledger entries, transfers, limits | transfer, refund to a wallet, closing | two transfers in opposite directions, lost answer of the transfer RPC, account deleted meanwhile | balance = what the rows tell, never negative, a transfer moves money once, a closed wallet is closed |
| **Top-ups, funded transfers, Expense Pro payments** (`wallets/topup-completion`, `funded-transfer-completion`, `expense-tracker`; SQL 056 062) | `wallet_topups`, `transfers`, `expense_pro_payments`, `webhook_events`, ledger | initiate, callback, poll, reconcile, complete in one SQL function or claim, credit, give back | fallback without the migration, success after failure, order nobody recorded | one credit, for what was taken; success is final; credited in the end |
| **Sales** (`sales`; SQL 034–038 075) | `sales`, `sale_items`, its payment request, stock | create, pay (QR, wallet, cash), cancel, expire, release stock | cash against QR, several confirmations, stop before the stock exit | paid once, cancelled never paid, stock leaves once |
| **Point of sale** (`pos`; SQL 033 034 046) | a ticket, its lines, its cash and QR parts, the requests of the QRs, stock | change a line, pay in parts, void a part, settle, cancel | a line changed while cash is taken, QR paid while voided or cancelled, two devices settling | never asked twice, a paid QR stays on the ticket and is counted, articles leave once |
| **Cash register and outbox** (`cash-register`, `linkpay-web/src/lib/outbox`; SQL 033 074) | sessions, movements, offline sales; the list a device keeps per account | make, send, retry, give up; open, count and close a session | lost answers, late copies, application closed, sale arriving after the close | written once, never lost, the count is complete, delivered in the end |
| Stock, inventory (`stock`, `inventory`; SQL 031 046) | items, movements, counts | movement (trigger), transfer, count | last unit sold twice | quantity = sum of movements, never negative |
| **Tontines** (`tontines`; SQL 016 046) | groups, cycles, contributions, members | invite, answer, draw; claim and pay a contribution, automatic payment, end a cycle | member and job at once, paid but not recorded, two last payers, newcomers | a share paid once, a closed cycle is paid, everyone receives once |
| **Normalised invoices** (`facture-normalisee`; SQL 090–094) | invoices, numbers, e-MCF exchanges | issue, try, confirm, resume, credit note | confirmation of unknown fate, two tries at once, stop before the journal | what is printed exists, once; nothing the tax office made is forgotten; a paid sale is answered |
| Refunds, settlements (`refunds`, `settlements`; SQL 040 058) | refunds, settlements, transactions | refund to a wallet, fail a settlement | against the merchant credit | refunded at most what was paid and credited |
| Subscriptions, cards, savings, exchange, supplier network | one or two tables each, changed by one SQL transaction | purchase, issue, deposit, exchange, order | idempotent replay | no double purchase |
| Authentication, app code (`auth`, `app-code`, `security`, `webauthn`; SQL 049 050 055) | attempt counters, locks, revocations | reserve, release, lock | concurrent guesses, memory fallback | at most five guesses per window |
| Job leases (`common/job-lock`; SQL 053) | `job_locks` | acquire | opens when it cannot be asked | a hint, never relied on |
| Organisations, staff, merchants, risk, integrity, reports, notifications, audit, admin, plumbing, the applications | single rows, reads, delivery | — | — | access rules, not protocols |

Interactions: a sale, a POS ticket, an invoice by link and a supplier plan all
create a *payment request*; the payment handlers mark it paid and call back into
sales, tickets, subscriptions and receipts; every credit and debit is a ledger
entry; the provider adapter is shared by payments, top-ups and payouts; the jobs
are guarded by leases that open on a database error, so overlapping passes are
allowed everywhere in the models.

`PROJECT.json` lists every component with its sources and status, and the
hazards with their lines and the properties that cover them.

## 2. Modules

| Module | Models |
|---|---|
| `WithdrawalContract` | abstract: taken once, then sent or given back once |
| `WithdrawalPayout` | the withdrawal rows, the payout journal, the provider and every thread that touches them |
| `PaymentContract` | abstract: money held until given back or recorded, one attempt recorded, one credit; both only where the caller could not see that it was recorded |
| `PaymentSettlement` | one payment request, its attempts and their settlement |
| `SaleContract` | abstract: a sale is paid once, by QR or in cash, or cancelled; articles leave only once it is paid |
| `SaleCheckout` | the sales of a shop: their payment requests, cash, cancellation, expiry and the shelf |
| `WalletFunding` | top-ups, funded transfers and Expense Pro payments: from the order to the credit |
| `WalletTransfer` | transfers between wallets and refunds, down to their row locks, and the deletion of an account |
| `TontineCycle` | a tontine from its invitations to its last cycle |
| `PosTicket` | one ticket of a till held by several devices |
| `OfflineTill` | the outbox of a device and the session of the till it ends in |
| `NormalisedInvoice` | the normalised invoice of a paid sale, from its row to the tax office and back |
| `*_proofs` | the theorems about the module of that name; `Shop_proofs`: about `SaleCheckout` and `OfflineTill` |
| `MC*` | what the runs give the constants of the module of that name |

### Withdrawals (`WithdrawalPayout`)

| Model | Code |
|---|---|
| `status`, `ref`, `debits`, `credits` | `withdrawals.status`, `psp_reference`, ledger `WITHDRAWAL-<id>` and `WITHDRAWAL-REVERSAL-<id>` |
| `jstate`, `order`, `attempts` | the row of `flexpaie_payouts` (067) |
| `stray`, `orders`, `verdict` | at FlexPaie: requests whose sender stopped listening, accepted orders, what a status check answers |
| `pc`, `on`, `seen` | where a worker is, on which withdrawal, and what it read and will still use |
| `RequestWithdrawal`, `InsertRequest`/`DebitRequest` | `requestWithdrawal` with 057, and the two-step fallback |
| `Dispatch` … `MarkAccepted` | `dispatch` and `sendPayout`: read the journal, log in, claim the row, POST, record |
| `mark_withdrawal_processing`, `finish_withdrawal`, `fail_withdrawal` | the SQL functions of 042 and 057 |
| `JobPick`, `Status`, `MarkAbandoned`, `AdoptOrder`, `CheckPayout` | `reconcile` and `getPayoutStatus` |
| `Callback`, `RecordOrder`, `LoadWithdrawal` | the payout callback |
| `MarkSent`, `Reject` | the administrator's two buttons |
| `Interrupt`, `AnswerLost`, `Stray*`, `ProviderSettles`, `TogglePayouts` | stops, timeouts, the provider, the switch |

Abstractions: calls are bounded by `TIMEOUT_MS` (20 s), so a journal row untouched
for 30 minutes has no sender (`Quiet`); job leases are not modelled (they open on a
database error); an insufficient balance or a replayed key changes nothing and is
no step; the readings `payoutsInFlight` and `payoutRow` are one; the `updated_at`
touch is folded into the choice `late`; a pass of the job takes any open withdrawal (the
limit of a pass, the oldest `updated_at` first, is left out, and `EventuallySettled`
assumes that a pass reaches each); the own-wallet guard of administrators,
the alert "payé ET remboursé" and the reference stored together with SUCCESS are
left out.

### Payments (`PaymentSettlement`)

| Model | Code |
|---|---|
| `request`, `intent`, `link`, `heard` | `payment_requests.status`, `payment_intents.status`, the row of `flexpaie_orders`, `webhook_events` |
| `tx`, `booked`, `credits`, `debits`, `refunds` | `transactions` (unique reference), its ledger entries, the merchant's credit, the payer's debit and reversal |
| `charge` | what the provider did about the attempt's order |
| `lost` | history, read by no step: the lost answers that left the caller of an attempt with the wrong idea (its intent, debit or reversal, its second look) |
| `ClaimRequest` … `InsertIntent`, `RevertClaim`, `ClaimLost` | `createPayment`, `payWithWallet` up to the intent |
| `DebitPayer` … `UndoIntent` | `payWithWallet`: debit, second look, reversal |
| `ClaimSuccess` … `MarkPaid` | `handleSuccessfulPayment`, `MerchantWalletCreditService.credit`, `markPaid` |
| `ClaimFailure`, `ReadRequest`, `RevertClaim` | `handleFailedPayment` |
| `getPaymentStatus`, `reconcilePending`, `processWebhook`, `RetryCredit` | the entry points |
| `cancelRequest`, `markExpired` | the merchant and the clock |

One request is enough: two requests share no row. `Lossy` names the calls that
may fail, with or without having had their effect; `Fatal` the steps before which
a process may stop. An attempt is one call with its idempotency key. The
provider's reference is the request's, so `flexpaie_orders` (primary key on the
reference) records at most one order per request; whether FlexPaie refuses a
reused reference is left open by its documentation, so both are allowed. Not
modelled: the 72 h and 45 s limits of the reconciliation, the sale, receipt and
notifications written after the money, confirmed amounts that differ and
callbacks that say PENDING (they change nothing).

### Sales (`SaleCheckout`)

| Model | Code |
|---|---|
| `sale`, `method`, `lines` | `sales.status`, `payment_method`; the rows of `sale_items` are written |
| `request`, `due`, `paying` | the sale's row of `payment_requests`, its expiry, the payment a customer confirmed |
| `quantity`, `out`, `recorded` | `stock_items.quantity`, the stock movements of the sale, `sales.client_ref` |
| `createSale` … `InsertLines` | `createSale`: request, sale and lines are three inserts |
| `cancelSale`, `VoidQr`; `expireOverdueSales`, `expireSale`; `DropSale` | the two ways a PENDING sale is cancelled, QR first |
| `payCash`, `Overdue`, `assertStillInStock`, `CloseForCash`, `TakeCash` | `payCash`, QR first |
| `PayQr`, `ClaimQr`, `QrFailed`, `QrPaid` | a payment seen from the sale: it claims the request, gives it back, or marks it PAID and calls `markPaidByPaymentRequest` |
| `ReadSale`, `MarkSalePaid` | `markPaidByPaymentRequest` |
| `getSale`, `LookAtQr` | `getSale` repairing a paid or an overdue sale |
| `ReadShelf`, `MoveOut`, `ShelfDone` | `releaseStock`, the trigger of 031, the constraint of 046 |
| `record_offline_org_sale` | the SQL function of 075, one transaction |

A line is an article: several lines of one article are added up, as `createSale`
does. The late give-backs of `PaymentSettlement` (a `revertClaim` after the request
was paid) are not repeated here: a payment holds its claim until it gives it back
or ends, or for ever when it stopped on the way, which nothing repairs (section 5). A statement whose error the code does not look at (`markPaid`, the stock
movement) may have had no effect; reads are answered. `QuarterHour` is the passing
of `SALE_QR_TTL_MS`. When `payCash` finds the sale overdue but already settled by
someone else, the code goes on and is refused at the closed QR; the model ends
there, which no variable can tell. Selling more than the shelf holds is accepted
by the code ("the money wins"): no property forbids it.

### Money coming in (`WalletFunding`)

| Model | Code |
|---|---|
| `kind`, `row`, `credits` | which of the three tables, its status, the entries `TOPUP-`, `TRANSFER-` or the months of Pro |
| `order`, `heard` | what FlexPaie did about the order; `webhook_events` |
| `lost` | history: the payments credited by a call whose answer was lost (bound: once each) |
| `cut` | history: the payments whose claim a stop kept from being credited or given back |
| `installed` | migrations 056 and 062 are applied (`isMissingFunction` of the completions) |
| `initiate`, `createPaymentIntent`, `InsertRow` | `initiateTopup`, `transferViaPsp`, `activateProViaMobileMoney`: the order first, the row after |
| `Callback`, `Lookup`; `Check`, `getTransactionStatus` | `handleWebhook`; status checks and `reconcilePending` |
| `Settle` | which handler the answer goes to, the amount compared |
| `complete_topup`, `complete_funded_transfer` | the SQL functions |
| `FunctionMissing`, `ClaimRow`, `Credit`, `GiveBack` | the two steps that stand in for them, and those of Pro payments |
| `Fail` | `failTopup`, `failFundedTransfer`, the failure of a Pro payment |

The three kinds share no row, so a payment of any kind stands for all. Not modelled:
limits and fees, the 50 rows and 72 hours of a reconciliation pass.

### Money between wallets (`WalletTransfer`)

| Model | Code |
|---|---|
| `balance`, `row`; `refunded`, `given` | sums of `ledger_entries`, `transfers.status`; the refunds of a sale |
| `closed`, `leaving` | `wallets.status`; a deletion between its check and its update |
| `session`, `lock` | where the SQL transaction of a job is, and the rows it holds |
| `transfer` … `MarkFailed` | `WalletsService.transfer`: key, checks, limit, insert, RPC, FAILED if still PENDING |
| `transfer_wallet`, `LockFirst`, `MoveTransfer` | the SQL function of 008: one step per lock, with what is read under it |
| `refund_to_client_wallet`, `LockFirst`, `MoveRefund` | the SQL function of 058, which reads the status before it locks |
| `deleteAccount`, `CloseWallet` | `blockers` and the CLOSED of the wallet |

An SQL transaction is not one step here: it takes its row locks one by one, and goes
on when its caller stopped listening; all it writes becomes visible with its end. Two of
one idempotency key are two calls on one `t`. A wallet has one currency. Not modelled:
the attempts at a PIN and the velocity checks (one more reason to refuse), transfers of
tontines into the wallet of a merchant (`TontineCycle` takes a transfer as one step),
test money, the record of a refund in the merchant's ledger.

### Tontines (`TontineCycle`)

| Model | Code |
|---|---|
| `status`, `current`, `seats`; `member`, `position` | `tontine_groups`, `tontine_members` |
| `cycle`, `recipient`; `due`, `claimed` | `tontine_cycles`; `tontine_contributions` with `claimed_at` of 046 |
| `moved` | transfers of a share that went through, in the wallets |
| `inviteMember` … `Backfill` | invitations and their answers, the group widened for a newcomer and his share of the current cycle |
| `drawOrder`, `ClaimDraw`, `Place`, `FirstCycle` | the draw, one position per statement, and the first cycle |
| `contribute`, `runAutoPayments`, `claimContribution`, `transfer`, `MarkPaid`, `releaseContribution` | `executeContribution`, for the member or the daily job |
| `CountOwing` … `AdvanceGroup` | closing a paid cycle and opening the next |
| `escalateOverdue`, `MarkOverdue` | the daily penalty |
| `lost`, `late`, `guessed`, `vacant`, `stale` | histories, see below |

Requests and jobs overlap in any way, lose answers and stop. What the code then cannot
keep is remembered by histories that no step reads (`Remember`, `ClaimRunsOut`, `Stop`),
and the properties except it by their names: `lost` shares, whose payment lost the answer
of the transfer or of the mark, stopped before the mark, or met the end of its claim;
`late` shares, billed for a cycle that was counted or closed already; `guessed` cycles,
closed on a count that failed; `vacant` ones, closed while nobody held the next position;
and `stale` once a write has landed on a row that another request had changed since it
was read (`Overwrites` lists them). Section 5 gives their lines.
Abstracted: an update of a group or a cycle whose error nobody looks at is taken to
succeed, unless the process stops before it (`Fatal`).

### Point of sale (`PosTicket`)

| Model | Code |
|---|---|
| `status`, `total`, `mirror`, `line` | `pos_tickets` (with `payment_request_id`), `pos_ticket_items` |
| `cash`, `code`, `request` | `pos_ticket_payments` and the `payment_requests` of its QRs |
| `left`, `exits` | `stock_items.quantity`, the exits of a line |
| `addItem` … `saveTotals` | the changes of the lines and the stored total |
| `payCash`, `payScanlinkpay`, `syncTotals`, `MayAdd` | the two payments and `add_pos_payment` (046), which locks the ticket and compares |
| `voidPayment` … `Unmirror`; `cancelTicket` | a part taken off, its QR closed first; the ticket cancelled |
| `getTicket`, `trySettleScanlinkpayTicket`, `settleIfFullyPaid`, `deductStockForTicket`, `createMovement` | reading a ticket counts its QRs, settles it, and moves its articles out |

### Offline sales and the till (`OfflineTill`)

| Model | Code |
|---|---|
| `user`, `disk`, `owner`, `ops`, `flush` | the account of the device, localStorage (of `Room` operations), the store of a window, a run of `flushOutbox` |
| `unsafe`, `late` | histories: operations kept in memory only or written over by another window; rows that came between the count and the close of their session |
| `wire`, `checked` | requests the server has not taken yet, or has found the session of; two requests of one operation differ by their `try` |
| `save`, `enqueue`, `retryOp`, `GiveUp`, `Send`, `Answered`, `NoAnswer` | `lib/outbox.ts`, its handlers and the Synchronisation screen |
| `record_offline_pos_sale`, `addMovement`, `InsertRow` | the SQL function of 074; `cash-register.service`: the session first, the row after |
| `openSession` … `CloseNow` | the manager's sessions, one after another, each counted from two readings and then closed |

`save` keeps the list in memory when the storage is full (`KeptInMemory`) and otherwise
replaces the whole list of the account (`Stored`). The hour of a sale is that of the last
session opened before it.

### Normalised invoices (`NormalisedInvoice`)

| Model | Code |
|---|---|
| `status`, `uid`, `journal` | `normalized_invoices`, the confirmations answered in `emcf_exchanges` |
| `demands` | the invoice at the e-MCF: demanded, final, or expired |
| `emettre`, `ramasser`, `InsertRow`, `InsertItems` | the cashier and the net that gathers the paid sales |
| `reessayer`, `reprendre`, `ClaimRow` | the button and the job; only the job claims a row (`updated_at`) |
| `confirmationDuJournal`, `Adopt` | a confirmation found in the journal is taken over |
| `relireDemande` … `confirmer`, `journaliser`, `WriteIssue` | `tenter` and `normalisation.ts` |

Abstracted: the three minutes before the job takes a row, the amounts (a gap is one of
the answers), numbering, the profile, credit notes, and the test-only `abandoned`. Which
20 rows a pass of the net or of the job reads is left open: a pass may always miss this
sale, and nothing promises it a row. A sale that does not pass the validation gets none
(`InsertRow` may end with nothing written). A
failed invoice whose confirmation is in the journal waits for a person, as in the code.

## 3. Runs

Each run is one question. "violation" runs check one statement the repository
makes of itself that the code does not keep; they are the findings.

| Run | Question | Answer and bounds |
|---|---|---|
| `payout_core` | Can overlapping workers, with stops and losses, pay twice, lose track or create money, the request made in two steps (no migration 057)? | No. One withdrawal, three workers, two attempts |
| `payout_live` | Is every step a step of the promise, is settled final, and, with payouts on for good, is every Mobile Money withdrawal settled? | Yes, under `Fairness`; two workers, one attempt |
| `refund_two_senders` | Is what is refunded unpaid? | No: a sender refused its login refunds what another has sent |
| `pay_core` | One settler, one credit, only for money taken, recorded in the ledger, and only about its own order? Is every step a step of the promise? | Yes, but where the second look of a wallet payment was not answered (`lost`). Two provider attempts, one wallet attempt, three workers, every loss, stops anywhere |
| `pay_live` | One payer at a time, is paid final, and does the reconciliation settle what was paid? | Yes, unless an intent was written and its caller told it was not (`IntentUnknown`); the payments whose intent waits are settled. Two workers, three attempts, any loss but those of a success under way (`Unsettled`), stops before its claim (`BeforeTheClaim`: a stop after it, or before the PAID mark, is left to section 5) |
| `sale` | Is a sale paid once or cancelled, can the shelf go below nothing, is an overdue sale settled? | Once; it cannot; it is, under `Fairness`, unless a payment of its QR stopped and holds the request PENDING for ever, or someone closed the QR and stopped. One sale, one offline sale, two articles, three workers, stops anywhere |
| `funding` | One credit per payment, for what was paid, success final, and credited in the end? | Yes, but for one more credit where the answer of a credit was lost (`lost`), and none where a stop came between the claim and the credit (`cut`). One payment of any kind, three workers, every call unanswered but the giving back, stops everywhere |
| `wallet` | Do balances follow the rows, is a closed wallet closed to transfers, does every transaction end whoever waits for whom? | Yes. Three wallets, two transfers in opposite directions, two refunds of one sale, of which one fits, one account that may be deleted, two calls, every loss, stops anywhere |
| `tontine` | A share paid once, a closed cycle fully paid, everyone receives once, and does a paid cycle give way? | Yes, but for what the histories name. Two founders, a newcomer, three cycles, two workers in any overlap, lost transfers, failed counts, claims that run out, stops before the transfer and the mark; the run goes no further than a first lost share or stale write |
| `pos` | Never asked for more than the ticket was worth, a paid QR kept, and counted as long as the ticket is read, articles out once and for money? | Yes; a QR paid on a ticket that is closed meanwhile, and so read no more, is kept but not counted. One line of up to two units, one QR, two devices, stops at the half-done changes |
| `offline_till` | Written once, never lost, counted by the closed till, delivered in the end? | Yes, but for what a full storage kept in memory, and the rows that came between a count and its close. One sale, one movement, one window, a storage for one operation, two requests on their way, two sessions (not both at once, `Affordable`) |
| `invoice` | Does what is printed exist, once; is nothing the tax office made forgotten; is a row of a sale answered? | Yes, but for the cases the history variable `doubt` names (two tries at once among them), and the last as long as the passes of the job get to the row. Two workers, two demands, every loss, stops anywhere |

Bounds. `MaxAttempts` bounds the payout attempts of a withdrawal: one more attempt
starts from the same NOT_SENT row, only with a larger number, so two show every
interaction of a new attempt with a left-over of the former. Three workers are the
largest number that can be at distinct points of one protocol with each acting
on what another is about to change; two-worker runs are used where a third adds
only states. Withdrawals, requests and fundings share no row: one is enough, and the
theorems cover any number of them. Counters of entries are bounded by the
properties themselves, and by `MaxMoved` for the transfers of a share (a second one
is what `SharesAddUp` forbids). `Rounds` is the number of cycles of a group: three,
since the third is the newcomer's. `OneOrder` keeps one of the orders of the founders
a draw may begin with; before it, nothing tells them apart. `Bounded` stops
exploring at a first lost share or stale write: the theorems cover what follows. `MaxQty`
and `Shelf` are two, so that a ticket grows past what it was paid for and the last
unit is wanted twice. `MaxDemands` is two: the second is the duplicate. `MaxSessions`
is two, so that a sale of a closed session meets a later one; `MaxSent` is two, so that
an operation sent again meets its late copy; `Room` is one, so that the storage is full
with the second operation. Movements refused after the close wait for the person. `CHECK_DEADLOCK FALSE` is said where the system really stops: a
settled request, sale, funding or ticket, a finished tontine, an outbox that is
empty, a withdrawal where the switch cannot turn.

Fairness. A call under way ends (its client has a timeout): weak fairness per worker. In
`WalletTransfer` the database goes on with each transaction it can go on with. The jobs
come back every minute and are not stopped at the same point for ever: strong fairness
of the pick and of the steps it must get through, the provider's login and verdict
included; for sales, the pick and the closing of the QR. Payers, clerks, callbacks, administrators
and the switch owe nothing, and neither does the payment of a sale's QR: that it ends is
not assumed, and `OverdueIsSettled` excepts a request that a payment holds for ever. Two
promises depend on being looked at again and say so in their premise: `QrIsCounted` on
the till that goes on reading its open ticket (`ReadForEver`), `AnsweredAtLast` on the
passes of the job that reach the row (`ResumedForEver`), which a pass of 20 rows does not
guarantee. A login that fails for ever does leave a withdrawal open. Three modules add the
premise that calls are answered at last, `<>[][Calm]_vars`, the conditional form their
promises have in the code: a funding whose every status check fails, an invoice whose
e-MCF never answers and an outbox without network for ever are waiting, and are meant to
be. A member is not obliged to pay: `PaidCycleMovesOn` is about a cycle that is fully
paid, and excepts those of `stale` and `vacant`.

## 4. Proofs

Every theorem is for all values of the constants: any number of rows, workers, attempts,
losses and stops. Only the two of `WithdrawalPayout` named below have an assumption.
Where the code cannot keep a promise after a loss, a stop or an overlap, the model
remembers that it happened in a history variable that no step reads, and the property
excepts that row, and no other, by its name.

`WithdrawalPayout_proofs`: `TypesHold`, `NeverTwoPayouts`, `UnknownFateStaysHeld`,
`StatusIsNeverInvented` (`StatusIsTrue`), `NoMoneyIsCreated` (with and without 057),
and, assuming the one-transaction request (`AtomicRequest`), `SettledStaysSettled` and
`ThePromiseIsKept` (refinement of `WithdrawalContract`).

"Never two payouts" is not inductive. What keeps it is who may claim the row: `SendInv`
adds that a row NOT_SENT or absent has no order and no stray request
(`ClaimsTheUnsent`), that a worker in the middle of a call finds its row SENDING
(`SenderHoldsTheRow`), that there is at most one such worker per withdrawal
(`OneSender`), that what it was told is what happened (`SenderKnows`), and that a row is
abandoned only without a sender (`AbandonsAlone`). `AnswerInv` carries a verdict from
the provider to the RPC that uses it (`VerdictsAreReal`, `NumbersAreReal`,
`SuccessInHand`), for the two properties on PROCESSING and SUCCESS. `MoneyInv` adds to
`NoMoneyFromNothing` that an open withdrawal has not been given back
(`NotYetGivenBack`); with the atomic request no row is ever halfway (`NeverHalfway`) and
the ledger follows the status (`AccountByStatus`), which is the refinement.

`Shop_proofs` is about the two ways a shop sells; the names of the specification of
`OfflineTill` begin with `Till` (`TillInit`, `TillNext`, `TillSpec`) so that one module
extends both. With the network (`SaleCheckout`): `TypesHold` (the shelf included: what a
worker read does not matter, the constraint refuses what is too much) and
`ASaleIsPaidOnce`, the refinement of `SaleContract`. What decides between cash and QR is
the claim of the request. `SaleInv` says that the request tells how far the payment of
the QR is (`RequestByPayment`), that a sale is cancelled or paid in cash only once its
QR is closed for good (`ClosedBeforeSettled`), that what each worker established is
still true at its next statement (`WorkersKnow`), and that one worker makes a sale
(`OneMaker`). `RowMoves` reduces every step to ten ways a row can move, which is what
the invariant and the refinement are proved on.

Without it (`OfflineTill`, in `Shop_proofs`), without assumption, for any windows,
accounts, storage and overlap: `TillTypesHold`: an operation is never written twice.
`SentOnceAndKept` (`WrittenOnce`): `OutboxInv` says that lists, runs and requests only
hold what was made, and `KeptInv` that an operation that is not at the server, given up
or `unsafe` is stored for its author, and is in the window it was made in as long as the
author is signed in there (`Safe`), so that the next list this window stores has it too.
`ClosedTillAddsUp` (`DrawerAddsUp`): sessions are opened one after another
(`OpenedInOrder`, `HomeOpened`), what a request has found about the session of a row still
allows that row to be there (`LooksRight`), and a request that closes has counted all that
its session has but what is reported or `late` (`CountsAll`). That the last open session,
the oldest waiting operation and a free number for a request exist rests on the least
element of a set of naturals (`LeastOfNaturals`, from well-foundedness).

`PaymentSettlement_proofs`, all without assumption: `TypesHold`, `OneSettlerOneOrder`
(`SettledOnItsOrder`), `PaidIsInTheBooks`, `NoMoneyIsCreated`,
`ThePaymentKeepsItsPromise` (refinement of `PaymentContract`), `PaidIsForGood`
(`PaidStaysPaid`) and `OnePayerPays` (`OnePayer`). `PayInv` says who may act on an
attempt: it has one worker until its intent is written, to the end when a wallet pays
(`Sole`), each worker's step tells what it has established (`Knows`), a wallet's debit and
reversal follow its step (`Wallets`), and a transaction is for money that was taken
(`Recorded`). `Kept` adds that what was recorded was taken, and is not given back but by a
caller whose second look was not answered.

The last two rest on who holds the claim of the request. `ClaimInv` says that of the
attempts of a request one at most may still be paid, or has to give the request back, and
that the request is then claimed, cancelled or paid (`OneHolds`); that one worker gives an
attempt up, and only once nobody can settle it (`GivenUp`); that a failed attempt owes
nothing (`Failures`); and that around a PAID request nobody is left who could settle or
give up anything (`PaidIsClosed`), so no late failure reopens it. A lost answer of the
insertion of an intent is what ends this: the claim is given back while the intent is
there. So `ClaimInv` is kept until then (`Claims`, `IntentUnknown`), and so are the two
properties; a debit or a reversal whose answer is lost only takes its own attempt out of
the account (`Owed`).

`WalletFunding_proofs`, all without assumption: `SuccessStays`, `OnlyThePaidIsCredited` and
`OneCreditPerPayment` (`CreditsAreRight`). `FundInv`: what the provider said is still so
when it is used (`Knows`: paid stays paid or is paid back), one call starts a payment
(`OneStarter`), and nothing is recorded before it was asked for (`AskedFirst`).
`ClaimInv`: a claim has one holder, who finds the payment SUCCESS and not yet credited,
but by a call whose answer was lost (`OneHolder`, `HeldIsClaimed`); elsewhere the credits
are those the row tells of, but where a stop took the claim out of its holder's hands
(`SettledIsCredited`, `cut`).

`NormalisedInvoice_proofs`: `WhatIsPrintedExists` (`RowIsTrue`) and `OneInvoiceAndKnown`
(`OneInvoice`), without assumption. `InvoiceInv`: whoever says that a demand is an
invoice, the row, the journal or a worker about to write, says so of a finalised one
(`SaysFinal`), which the e-MCF never takes back; each step that speaks of a demand has
one (`HasItsDemand`). `OneInv`: a row that the job still finds as it read it may be
resumed (`FreshRow`), and, until one of the cases the code could not know (`doubt`), one
worker at a time is in a try (`OneTry`) and where it stands tells what the e-MCF has
finalised: nothing before it confirms, its own demand after (`Sees`), which the row or
the journal keeps (`KnownFinal`).

`WalletTransfer_proofs`: `TheBooksAddUp` (`BooksAddUp`) and `NoTransferOnAClosedWallet`
(`ClosedIsClosed`), without assumption. A balance is a sum over the rows, so the proof
begins with sums over a finite set (`MapThenSumSet`, by its definition in the community
modules): a sum unfolds at any of its elements (`SumTakeOff`), which is proved by
induction over the subsets of the set (`SubsetInduction`, from the least cardinality of
a counterexample), and grows by what one element brings (`SumAdd`). `Books` is
`BooksAddUp` without the types. `JobInv` says what a transaction may count on from the
statement that locks its row to the one that ends it: a transfer stays PENDING, so it
moves money once; a sale has enough left to give back; a refund is given by the last
statement. The balance is looked at under the lock by the statement that moves it, so in
which order the wallets are locked, and who waits for whom, does not matter to the
books.

`PosTicket_proofs`, all without assumption: `PaidQrIsKept` (`PaidQrHasItsRow`),
`ConfirmedIsKept` (`ConfirmedStays`), `NobodyIsAskedForMore` (`NeverAskedForMore`) and
`TheArticlesAddUp` (`ArticlesAddUp`, the types included). `CodeInv`: a QR is shown by
the one worker that minted it, and cannot be paid before its row is written
(`OneMinter`, `Knows`); whoever takes a row off has found or made its QR closed; a
confirmed part is one whose request is PAID, which none of those steps touches
(`RowsFit`). `MoneyInv`: the total never passes the highest it has been, nor do the
parts, as each is added under the lock of the ticket; the sums over the lines and the
parts are bounded and compared with the same lemmas (`TotalIsBounded`, `PartsDoNotGrow`,
`OnePartMore`), and a statement that writes a line or cash has an amount (`Offered`).
`GoodsInv`: who settles has seen money that nothing undoes (`Backed`, `Kept`), the old
path included, which looks at the ticket's own QR only when no part waits (`Shown`,
`Counted`); while the ticket is open nothing has left and nobody takes anything out;
afterwards one request does, for lines that have not left (`Seen`).

`TontineCycle_proofs`, all without assumption. `PaidShareStaysPaid` (`PaidStaysPaid`): a
share is only written by the worker that holds its cycle and its member (`InHand`), and
the one statement that could take "paid" from it tests for it (`DueMoves`).

`EachShareIsPaidOnce` (`PaidOnce`) is about one share that is not `lost`: whoever may still
move its money or give its claim back holds that claim (`HoldersClaim`), alone
(`OneHolder`), and what has moved is on the row or about to be put there (`MovedOnce`).
Lost or not, nothing is written before the money has moved (`MovedFirst`).

`ClosedCyclesArePaid` is the other half of `TheSharesAddUp` (`SharesAddUp`). `CycleInv`
holds whatever is lost or overlaps: the cycles are opened in their order, each once the one
before is closed (`InOrder`), one draw and one worker at a time open the next
(`OneDraw`, `OneOpener`), and each knows which it is (`Opens`). So a cycle is billed by its
opener before it becomes the current one, and `ClosedInv` can say that a cycle that was
counted is settled: only the answer of a newcomer and the draw bill later than that, which
`late` remembers.

`EveryTurnIsFair` (`FairTurns`) holds until a write lands on a row that another request has
changed (`stale`). `QueueInv`: a position is one active member's and within the seats
(`Positions`), a cycle is opened for the member who has its position (`Turns`), a group
that has ended gave its turn to everyone placed (`Ended`), and what a request has read
of the members and the seats still allows what it is about to write (`Hand`). Every step
that touches the queue gives one free position to one member, or leaves it alone
(`QueueMoves`).

Each invariant was checked by TLC on the small instances before its proof. Only
model-checked: liveness (`EventuallySettled`, `PaidIsSettled`, `OverdueIsSettled`,
`PaidIsCredited`, `PaidCycleMovesOn`, `QrIsCounted`, `Delivered`, `AnsweredAtLast`,
`EveryCallEnds`), which is out of the prover's reach, and of course the violation: every
safety property, action property and refinement of the passing runs has its theorem. The
sums of `PosTicket` and `WalletTransfer` are unfolded where they are used: no theorem
says what the fold of the community modules computes for every function, only what these
proofs need of it.

## 5. Findings

One is a run, listed with its quote in `PROJECT.json`:

- Payouts: a sender refused its own login refunds on the journal it read before,
  while another sender's request has left (`refund_two_senders`).

The models reach other disagreements with what the code intends, with the constants
or in the histories named. No property of a passing run says the contrary: it excepts the
case by name, or the run excludes it by a constant.

| Where (under `src/linkpay-api/src`) | What the code does | Reached with |
|---|---|---|
| `payments.service.ts:172` | the lost answer of the payment order reopens the request: the payer may still confirm the first order while another pays | `Lossy` with `"ask"` |
| `payments.service.ts:645` | a stop after the success claim: the intent stays SUCCEEDED without a transaction, nothing asks again; a stop before `markPaid`: the request stays PENDING though its payment is recorded | `Fatal` with `"tx"`, `"paid"` |
| `payments.service.ts:138` | the answer of the insertion of an intent is lost: the claim is given back unconditionally, the request can be paid again, or reopened once PAID | `IntentUnknown` in `pay_core`, `pay_live` |
| `payments.service.ts:122`, `:309` | a stop after the claim, or a `revertClaim` that is lost, leaves the request PENDING for ever: nobody may pay it, and the expiry of a sale never touches it (`sales.service.ts:322`, `:343`) | `OverdueIsSettled` excepts it |
| `payments.service.ts:358`, `:378` | a debit whose answer is lost is taken for a refusal; a second look that fails is taken for "no transaction", the payer is given back although recorded | `lost` in `pay_core`, `pay_live` |
| `wallets/topup-completion.ts:55`, `payments.service.ts:878` | without the function, a credit whose answer is lost is given back and made again | `lost` in `funding` |
| `wallets/topup-completion.ts:36`, `payments.service.ts:864` | a stop between the claim of a payment and its credit: SUCCESS and never credited, against "never 'claimed but not credited'" (`topup-completion.ts:7`) | `cut` in `funding` |
| `wallets/wallets.service.ts:297` | two top-ups of one idempotency key both ask the provider, one has no row | two payments, one `Key` |
| `wallets/wallet-limits.service.ts:124` | two transfers of one person both read the sum of the day before either is made: together they pass the limit | two transfers of one sender |
| `wallets/wallets.service.ts:988` | the answer of a committed transfer is lost: the caller reads that nothing was taken, and the application sends it again under a new key (`Send.tsx:213`, web) | `Unanswered`, two `Transfers` |
| `wallets/wallets.service.ts:668` | a stop between the row and the call leaves it PENDING (a comment says so) | `cut` in `wallet` |
| `users/account-deletion.service.ts:147` | money that comes between the reading of the balance and the update stays on the closed wallet | `leaving` |
| `058_refund_guards.sql:78` | the status is read before the wallets are locked: a refund may reach a wallet closed meanwhile | `ClosedIsClosed` asked of refunds |
| `sales/sales.service.ts:424` | two callers that both read a sale PENDING both move its articles out | two workers, `out` |
| `sales/sales.service.ts:351` | a call closes the QR and stops: the sale stays PENDING, the job and the viewers pass it by (`OverdueIsSettled` excepts it) | `Fatal <- Steps` |
| `tontines/tontines.service.ts:724`, `:743` | the answer of the transfer or of the mark is lost, or the process stops between the two: the share looks unpaid, and is paid again once its claim is released or has run out | `lost` in `tontine`; `Lossy` with `"mark"` |
| `tontines/tontines.service.ts:27` | a payment that outlasts the two minutes of its claim meets a second one | `lost` in `tontine` |
| `tontines/tontines.service.ts:743` | the mark of a cycle's last share is written and its answer lost: nobody counts, the cycle is never closed | `Lossy` with `"mark"` |
| `tontines/tontines.service.ts:766` | a count that fails reads as zero: the cycle is closed while shares are owing, which `contribute` only takes for the current cycle | `guessed` in `tontine` |
| `tontines/tontines.service.ts:768` | a stop between the closing of a cycle and the opening of the next leaves the closed one current: nobody opens the next | `Fatal` with `"next"` to `"advance"` |
| `tontines/tontines.service.ts:458`, `:536` | a newcomer who answered while the cycle was closed, or a draw slower than its first cycle, bills a share of a cycle that is closed | `late` in `tontine` |
| `tontines/tontines.service.ts:438` | the seat is written before the newcomer has it: a cycle closed in between, or a stop there, finds nobody at the next position and the group goes no further | `vacant` in `tontine`; `Fatal` with `"join"` |
| `tontines/tontines.service.ts:438`, `:770`, `:433`, `:444` | two newcomers write the same `max_members` and the same position; the last payer compares with the `max_members` it read; a newcomer's position against the draw's: a turn is missing or double | `stale` in `tontine` |
| `tontines/tontines.service.ts:330`, `:393`, `:444` | an invitation sent again, cancelled or refused is written over a member who accepted it meanwhile | `stale` in `tontine` |
| `pos/pos.service.ts:445` | the path of old tickets closes a ticket whose QR covers a part of it | a QR of less than the total |
| `pos/pos.service.ts:934` | a payment added between the reading and the cancellation stays on a cancelled ticket | two workers |
| `pos/pos.service.ts:403`, `:478` | a QR paid on a ticket that cash alone settles meanwhile, or that is cancelled, is never counted, nor while nobody reads the open ticket (`PosPayment.tsx:52`): the customer has paid more than the ticket | `QrIsCounted` without `ReadForEver`, or on a closed ticket |
| `cash-register/cash-register.service.ts:281` | what is recorded between the count and the close is not counted | `late` in `offline_till` |
| `074_offline_pos_sales.sql:64` | a sale made in a closed session that arrives while a later one is open goes to the later one, unreported, though the comment (`:63`) says "The session that was open when the sale was made" and the header (`:9`) that a closed session is reported | `booked` and `home` in `offline_till` |
| `linkpay-web/src/lib/outbox.ts:87` (web) | the storage is full: the operation is in memory only, and is lost when the application is closed | `unsafe` in `offline_till` |
| `linkpay-web/src/lib/outbox.ts:135` (web) | a run goes on after another account has signed in, under its name | two `Accounts` |
| `linkpay-web/src/lib/outbox.ts:85` (web) | two windows store their whole list over each other's: an operation is lost | `unsafe`, two `Windows` |
| `facture-normalisee/facture-normalisee.service.ts:186` | two tries of one invoice at once make two: nothing checks that they do not | `doubt` in `invoice` |
| `facture-normalisee/normalisation.ts:92` | an HTTP error answers a confirmation that the e-MCF made: taken for a refusal, and tried again | `doubt` in `invoice` |
| `facture-normalisee/gestion-fiscale.service.ts:362` | a pass of the net reads 20 paid tickets and 20 paid sales, unordered and already invoiced ones included: once those are done, a later sale is never gathered, though its comment (`:347`) says "TOUTE vente payée devient une facture normalisée" | no fairness of `ramasser` in `invoice` |
| `facture-normalisee/facture-normalisee.service.ts:201`, `sources.ts:107`, `:143` | a sale that does not pass the validation, or has no rate, gets no row, so that no job resumes it | `InsertRow` in `invoice` |
| `facture-normalisee/facture-normalisee.service.ts:341` | a pass of the job takes the 20 oldest rows; one whose try throws (its profile is disabled, `:280`) stays among them, and 20 of those hold back every other | `ResumedForEver` in `invoice` |
| `flexpaie.adapter.ts:669`, `:472` | ABANDONED without the refund is offered to administrators once payouts are off; a retry on an older reading reuses a reference | `payout_core` with those properties |

## 6. Plan and what is not modelled

Next, in this order:

1. `WalletTransfer`: the attempts at a PIN.
2. `MerchantMoney`: refunds and settlements against the merchant credit (`WalletTransfer`
   has the refund of a credited sale).
3. `LoginAttempts` (with the application code), `JobLease`, `SupplierOrder`, `ExchangeTill`, cards.
4. Composition: the request of `SaleCheckout`, and the QR of `PosTicket`, are those of
   `PaymentSettlement`; a module that instantiates both, so that late give-backs reach
   the sale.

Not modelled, and not planned: components that are single rows under access rules
(organisations, staff, administration, personal expenses), reads and formatting
(reports, notifications, audit), the screens of the three applications (their outbox
is in `OfflineTill`), and pure computations where no property asks for them (fees, taxes,
exchange rates, numbering). Operations changed by one SQL transaction with a unique
key (subscriptions, savings) have no interleaving to check but their replay.
