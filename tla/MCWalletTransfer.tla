-------------------------- MODULE MCWalletTransfer --------------------------
(* WalletTransfer on small instances: a merchant m, two people a and b.    *)
EXTENDS WalletTransfer, TLC

CONSTANTS a, b, m, t1, t2, s, r1, r2

RankOf   == a :> 1 @@ m :> 2 @@ b :> 3
OpenWith == a :> 2 @@ m :> 3 @@ b :> 0
FromOf   == t1 :> a @@ t2 :> b
ToOf     == t1 :> b @@ t2 :> a
AmountOf == t1 :> 1 @@ t2 :> 1
FeeOf    == t1 :> 1 @@ t2 :> 0
ShopOf   == s :> m
ClientOf == s :> b
PaidFor  == s :> 3
SaleOf   == r1 :> s @@ r2 :> s
PartOf   == r1 :> 2 @@ r2 :> 2
=============================================================================
