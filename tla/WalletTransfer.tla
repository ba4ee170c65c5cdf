--------------------------- MODULE WalletTransfer ---------------------------
(***************************************************************************)
(* Money from one wallet to another: a person sends some by the number of  *)
(* a wallet, a merchant gives some of a sale back to the client, and an    *)
(* account is deleted meanwhile.                                           *)
(*                                                                         *)
(* A transfer is a row made by a call of the API (a worker), then one call *)
(* of transfer_wallet; a refund is one call of refund_to_client_wallet.    *)
(* Both are SQL transactions that take their row locks one at a time, wait *)
(* for each other, and go on when the API no longer waits for them.  What  *)
(* is read under a lock is read in the step that takes the lock.           *)
(*                                                                         *)
(* Sources: wallets/wallets.service.ts, wallets/wallet-limits.service.ts,  *)
(* refunds/refunds.service.ts, users/account-deletion.service.ts,          *)
(* migrations 006, 007, 008, 058.                                          *)
(***************************************************************************)
EXTENDS Integers, FiniteSets, FiniteSetsExt

CONSTANTS
  Wallets,   \* wallets, in one currency
  Rank,      \* the order of their ids
  Opening,   \* the balance of each before all this
  Transfers, \* transfers asked for, one per idempotency key
  From, To,  \* who sends, who receives
  Amount,    \* what the recipient gets
  Fee,       \* what it costs on top
  Limit,     \* daily_max_cents of the rule TRANSFER
  Sales,     \* successful transactions of merchants
  Shop,      \* the wallet of the merchant
  Client,    \* the wallet of the client
  Paid,      \* what the client paid
  Refunds,   \* refunds asked for
  Of,        \* the sale a refund is of
  Part,      \* what it gives back
  Leavers,   \* wallets whose owner may delete the account
  Workers,   \* calls of WalletsService.transfer under way
  None       \* nothing

Jobs  == Transfers \cup Refunds
Rows  == Wallets \cup Transfers \cup Sales
Cost  == [t \in Transfers |-> Amount[t] + Fee[t]]
Steps == {"idle", "checks", "limit", "insert", "call", "rpc", "fail"}

ASSUME TransferAssumption ==
  /\ None \notin Jobs
  /\ IsFiniteSet(Jobs) /\ IsFiniteSet(Rows)
  /\ Transfers \cap Refunds = {} /\ Wallets \cap (Transfers \cup Sales) = {} /\ Transfers \cap Sales = {}
  /\ Rank \in [Wallets -> Nat] /\ \A v, w \in Wallets : Rank[v] = Rank[w] => v = w
  /\ Opening \in [Wallets -> Nat]
  /\ From \in [Transfers -> Wallets] /\ To \in [Transfers -> Wallets]
  /\ \A t \in Transfers : From[t] # To[t]
  /\ Amount \in [Transfers -> Nat \ {0}] /\ Fee \in [Transfers -> Nat]
  /\ Limit \in Nat /\ Leavers \subseteq Wallets
  /\ Shop \in [Sales -> Wallets] /\ Client \in [Sales -> Wallets]
  /\ \A s \in Sales : Shop[s] # Client[s]
  /\ Paid \in [Sales -> Nat] /\ Of \in [Refunds -> Sales] /\ Part \in [Refunds -> Nat \ {0}]

VARIABLES
  balance,  \* the sum of the ledger entries of a wallet
  closed,   \* wallets.status is CLOSED
  leaving,  \* accounts whose deletion found nothing left
  row,      \* transfers.status ("none": no row)
  refunded, \* the refunds of a sale, their sum
  given,    \* the refunds that are written
  session,  \* where the SQL transaction of a job is
  lock,     \* the job that holds the lock of a row
  worker,   \* a call of transfer: its next step and its transfer
  cut       \* history: transfers whose call stopped before it knew the outcome

money == <<balance, row, refunded, given>>
sql   == <<session, lock>>
vars  == <<money, sql, closed, leaving, worker, cut>>

Free == [pc |-> "idle", on |-> None]

Init ==
  /\ balance = Opening
  /\ closed = {} /\ leaving = {}
  /\ row = [t \in Transfers |-> "none"]
  /\ refunded = [s \in Sales |-> 0] /\ given = {}
  /\ session = [j \in Jobs |-> "none"]
  /\ lock = [x \in Rows |-> None]
  /\ worker = [k \in Workers |-> Free]
  /\ cut = {}

-----------------------------------------------------------------------------
(* What a job is about.                                                    *)

Payer(j) == IF j \in Transfers THEN From[j] ELSE Shop[Of[j]]
Payee(j) == IF j \in Transfers THEN To[j] ELSE Client[Of[j]]

\* Mutant: the payer's wallet is always locked first.
FirstWallet_Payer(j) == Payer(j)

\* "Always locks both wallet rows in a fixed order" (migration 007:110).
FirstWallet(j) ==
  IF Rank[Payer(j)] < Rank[Payee(j)] THEN Payer(j) ELSE Payee(j)

SecondWallet(j) == CHOOSE w \in {Payer(j), Payee(j)} : w # FirstWallet(j)

Businesses == {Shop[s] : s \in Sales}

\* What the ledger says has left a wallet by transfers.
SentFrom(w) == MapThenSumSet(LAMBDA t : Cost[t], {t \in Transfers : From[t] = w /\ row[t] = "SUCCESS"})

-----------------------------------------------------------------------------
(* The SQL transactions.                                                   *)

Release(j) == lock' = [x \in Rows |-> IF lock[x] = j THEN None ELSE lock[x]]
Take(j, x) == lock[x] = None /\ lock' = [lock EXCEPT ![x] = j]
Reach(j, step) == session' = [session EXCEPT ![j] = step]

Raise(j) == Reach(j, "raised") /\ Release(j) /\ UNCHANGED money

\* Mutant: the status of the row is not looked at.
transfer_wallet_Again(t) ==
  /\ session[t] = "asked"
  /\ Take(t, t) /\ Reach(t, "row") /\ UNCHANGED money
  /\ UNCHANGED <<closed, leaving, worker, cut>>

\* transfer_wallet begins: the row is locked, and must be PENDING.
transfer_wallet(t) ==
  /\ session[t] = "asked" /\ lock[t] = None
  /\ IF row[t] = "PENDING"
     THEN Take(t, t) /\ Reach(t, "row") /\ UNCHANGED money
     ELSE Raise(t)
  /\ UNCHANGED <<closed, leaving, worker, cut>>

\* refund_to_client_wallet begins: the sale is locked; the status of the two
\* wallets is read before they are.
refund_to_client_wallet(r) ==
  /\ session[r] = "asked" /\ lock[Of[r]] = None
  /\ IF /\ refunded[Of[r]] + Part[r] <= Paid[Of[r]]
        /\ {Payer(r), Payee(r)} \cap closed = {}
     THEN Take(r, Of[r]) /\ Reach(r, "row") /\ UNCHANGED money
     ELSE Raise(r)
  /\ UNCHANGED <<closed, leaving, worker, cut>>

LockFirst(j) ==
  /\ session[j] = "row"
  /\ Take(j, FirstWallet(j)) /\ Reach(j, "first")
  /\ UNCHANGED <<money, closed, leaving, worker, cut>>

Pay(j, cost, amount) ==
  balance' = [balance EXCEPT ![Payer(j)] = @ - cost, ![Payee(j)] = @ + amount]

\* Mutant: what the status was when the row was read decides.
MoveTransfer_Unchecked(t) ==
  /\ session[t] = "first" /\ lock[SecondWallet(t)] = None
  /\ IF balance[From[t]] >= Cost[t]
     THEN /\ Pay(t, Cost[t], Amount[t])
          /\ row' = [row EXCEPT ![t] = "SUCCESS"]
          /\ Reach(t, "done") /\ Release(t) /\ UNCHANGED <<refunded, given>>
     ELSE Raise(t)
  /\ UNCHANGED <<closed, leaving, worker, cut>>

\* Both wallets are locked: their status and the balance are read, the two entries
\* and the status are written, and the transaction ends.
MoveTransfer(t) ==
  /\ session[t] = "first" /\ lock[SecondWallet(t)] = None
  /\ IF {From[t], To[t]} \cap closed = {} /\ balance[From[t]] >= Cost[t]
     THEN /\ Pay(t, Cost[t], Amount[t])
          /\ row' = [row EXCEPT ![t] = "SUCCESS"]
          /\ Reach(t, "done") /\ Release(t) /\ UNCHANGED <<refunded, given>>
     ELSE Raise(t)
  /\ UNCHANGED <<closed, leaving, worker, cut>>

MoveRefund(r) ==
  /\ session[r] = "first" /\ lock[SecondWallet(r)] = None
  /\ IF balance[Payer(r)] >= Part[r]
     THEN /\ Pay(r, Part[r], Part[r])
          /\ refunded' = [refunded EXCEPT ![Of[r]] = @ + Part[r]]
          /\ given' = given \cup {r}
          /\ Reach(r, "done") /\ Release(r) /\ UNCHANGED row
     ELSE Raise(r)
  /\ UNCHANGED <<closed, leaving, worker, cut>>

-----------------------------------------------------------------------------
(* WalletsService.transfer.                                                *)

At(k, step) == worker[k].pc = step
Hand(k, step, t) == worker' = [worker EXCEPT ![k] = [pc |-> step, on |-> t]]
Goto(k, step) == Hand(k, step, worker[k].on)
Finish(k) == worker' = [worker EXCEPT ![k] = Free]
Still == UNCHANGED <<money, sql, closed, leaving, cut>>

\* A call whose key has a row is answered with that row and changes nothing, unless the
\* look for the row fails.
transfer(k, t) ==
  /\ At(k, "idle")
  /\ Hand(k, "checks", t)
  /\ Still

\* The status of both wallets, the business of the recipient; the PIN may be wrong.
Checks(k) ==
  /\ At(k, "checks")
  /\ LET t == worker[k].on IN
       \/ /\ {From[t], To[t]} \cap closed = {} /\ To[t] \notin Businesses
          /\ Goto(k, "limit")
       \/ Finish(k)
  /\ Still

\* What was sent so far, or nothing when that cannot be read.
assertWithinLimits(k) ==
  /\ At(k, "limit")
  /\ LET t == worker[k].on IN
       \E sum \in {SentFrom(From[t]), 0} :
         IF sum + Cost[t] <= Limit THEN Goto(k, "insert") ELSE Finish(k)
  /\ Still

\* The key is unique: the second of two inserts fails.
InsertRow(k) ==
  /\ At(k, "insert")
  /\ LET t == worker[k].on IN
       IF row[t] = "none"
       THEN row' = [row EXCEPT ![t] = "PENDING"] /\ Goto(k, "call")
       ELSE UNCHANGED row /\ Finish(k)
  /\ UNCHANGED <<balance, refunded, given, sql, closed, leaving, cut>>

\* The call of transfer_wallet leaves, or never arrives.
CallTransfer(k) ==
  /\ At(k, "call")
  /\ \/ Reach(worker[k].on, "asked") /\ Goto(k, "rpc")
     \/ UNCHANGED session /\ Goto(k, "fail")
  /\ UNCHANGED <<money, lock, closed, leaving, cut>>

\* The transaction has ended, and says so.
Answered(k) ==
  /\ At(k, "rpc")
  /\ \/ session[worker[k].on] = "done" /\ Finish(k)
     \/ session[worker[k].on] = "raised" /\ Goto(k, "fail")
  /\ Still

\* The answer is late or lost: for the caller, an error.
Unanswered(k) ==
  /\ At(k, "rpc") /\ Goto(k, "fail")
  /\ Still

\* Mutant: the row is FAILED whatever became of it.
MarkFailed_Blind(k) ==
  /\ At(k, "fail") /\ lock[worker[k].on] = None
  /\ row' = [row EXCEPT ![worker[k].on] = "FAILED"]
  /\ Finish(k)
  /\ UNCHANGED <<balance, refunded, given, sql, closed, leaving, cut>>

\* The update waits for the transaction that holds the row, and reads it again.
MarkFailed(k) ==
  /\ At(k, "fail") /\ lock[worker[k].on] = None
  /\ row' = IF row[worker[k].on] = "PENDING"
            THEN [row EXCEPT ![worker[k].on] = "FAILED"] ELSE row
  /\ Finish(k)
  /\ UNCHANGED <<balance, refunded, given, sql, closed, leaving, cut>>

\* The process stops, or its last update is lost; the transaction it called goes on.
Interrupt(k) ==
  /\ ~ At(k, "idle")
  /\ cut' = IF worker[k].pc \in {"call", "rpc", "fail"} THEN cut \cup {worker[k].on} ELSE cut
  /\ Finish(k)
  /\ UNCHANGED <<money, sql, closed, leaving>>

-----------------------------------------------------------------------------
(* Refunds and deletions.                                                  *)

\* One press of the merchant: it has no key of its own.
createRefund(r) ==
  /\ session[r] = "none"
  /\ Reach(r, "asked")
  /\ UNCHANGED <<money, lock, closed, leaving, worker, cut>>

\* blockers: nothing is left in the wallet.
deleteAccount(w) ==
  /\ w \in Leavers \ (closed \cup leaving) /\ balance[w] = 0
  /\ leaving' = leaving \cup {w}
  /\ UNCHANGED <<money, sql, closed, worker, cut>>

\* The wallet is closed, once nobody holds its row.
CloseWallet(w) ==
  /\ w \in leaving /\ lock[w] = None
  /\ leaving' = leaving \ {w}
  /\ closed' = closed \cup {w}
  /\ UNCHANGED <<money, sql, worker, cut>>

-----------------------------------------------------------------------------
\* A step of the transaction of a job.
Run(j) ==
  \/ j \in Transfers /\ (transfer_wallet(j) \/ MoveTransfer(j))
  \/ j \in Refunds /\ (refund_to_client_wallet(j) \/ MoveRefund(j))
  \/ LockFirst(j)

\* A step of a call of transfer, once it has begun.
Go(k) ==
  \/ Checks(k) \/ assertWithinLimits(k) \/ InsertRow(k) \/ CallTransfer(k)
  \/ Answered(k) \/ MarkFailed(k)

Next ==
  \/ \E j \in Jobs : Run(j)
  \/ \E k \in Workers : Go(k) \/ Unanswered(k) \/ Interrupt(k) \/ \E t \in Transfers : transfer(k, t)
  \/ \E r \in Refunds : createRefund(r)
  \/ \E w \in Wallets : deleteAccount(w) \/ CloseWallet(w)

Spec == Init /\ [][Next]_vars

\* The database runs what it was asked, and a process that does not stop goes on.
FairSpec ==
  /\ Spec
  /\ \A j \in Jobs : WF_vars(Run(j))
  /\ \A k \in Workers : WF_vars(Go(k))

-----------------------------------------------------------------------------
(* Properties.                                                             *)

TypeOK ==
  /\ balance \in [Wallets -> Int]
  /\ closed \subseteq Wallets /\ leaving \subseteq Wallets
  /\ row \in [Transfers -> {"none", "PENDING", "SUCCESS", "FAILED"}]
  /\ refunded \in [Sales -> Nat] /\ given \subseteq Refunds
  /\ session \in [Jobs -> {"none", "asked", "row", "first", "done", "raised"}]
  /\ lock \in [Rows -> Jobs \cup {None}]
  /\ worker \in [Workers -> [pc: Steps, on: Transfers \cup {None}]]
  /\ cut \subseteq Transfers

\* What the rows say a wallet holds: the successful transfers, and the refunds.
Received(w) == MapThenSumSet(LAMBDA t : Amount[t], {t \in Transfers : To[t] = w /\ row[t] = "SUCCESS"})
GivenBy(w)  == MapThenSumSet(LAMBDA r : Part[r], {r \in given : Payer(r) = w})
GivenTo(w)  == MapThenSumSet(LAMBDA r : Part[r], {r \in given : Payee(r) = w})

\* The ledger is what the rows tell, no wallet is ever below nothing, and a sale is
\* never given back beyond what was paid: a transfer moves money once if it succeeded,
\* and not at all if it was refused, whatever calls share a key, wait for each other,
\* lose an answer or stop.
BooksAddUp ==
  /\ TypeOK
  /\ \A w \in Wallets :
       /\ balance[w] = Opening[w] + Received(w) + GivenTo(w) - SentFrom(w) - GivenBy(w)
       /\ balance[w] >= 0
  /\ \A s \in Sales : refunded[s] <= Paid[s]

\* No transfer reaches or leaves a wallet that is closed, not even one that found it
\* open before it waited for its lock.  (A refund may.)
ClosedIsClosed ==
  [][\A t \in Transfers : row[t] # "SUCCESS" /\ row'[t] = "SUCCESS" =>
       {From[t], To[t]} \cap closed = {}]_vars

\* Nothing waits for ever: in the end every transaction that was asked for has ended,
\* whoever else wants the same wallets, and every row is settled but those of a call
\* that was stopped on its way.
EveryCallEnds ==
  <>[](/\ \A j \in Jobs : session[j] \in {"none", "done", "raised"}
       /\ \A t \in Transfers \ cut : row[t] # "PENDING")

=============================================================================
