--------------------------- MODULE MCWalletFunding ---------------------------
(* WalletFunding on small instances: each call has a key of its own.       *)
EXTENDS WalletFunding, TLC

CONSTANT p1

OwnKeys == [i \in Payments |-> i]
=============================================================================
