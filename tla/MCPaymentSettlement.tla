------------------------ MODULE MCPaymentSettlement ------------------------
(* PaymentSettlement on small instances.                                   *)
EXTENDS PaymentSettlement, TLC

\* Workers are interchangeable; attempts are not (provider or wallet).
WorkerSymmetry == Permutations(Workers)

\* Losses that leave the success of an intent to be claimed or recorded.
Unsettled == {"claim", "ask", "link", "intent", "log", "debit", "credit",
              "reread", "refund", "failure", "revert", "undo"}

\* Where a stop leaves the success of an intent still to be claimed.
BeforeTheClaim == {"ask", "link", "intent", "success", "failure", "check", "revert"}
=============================================================================
