------------------------- MODULE MCWithdrawalPayout -------------------------
(* WithdrawalPayout on small instances.                                    *)
EXTENDS WithdrawalPayout, TLC

\* Workers are interchangeable; withdrawals of one channel are too.
WorkerSymmetry == Permutations(Workers)
=============================================================================
