--------------------------- MODULE MCSaleCheckout ---------------------------
(* SaleCheckout on small instances.                                        *)
EXTENDS SaleCheckout, TLC

CONSTANTS s1, o1, i1, i2

\* One sale of two articles, and an offline sale of the same two.
Basketful == (s1 :> (i1 :> 1 @@ i2 :> 1)) @@ (o1 :> (i1 :> 1 @@ i2 :> 1))
TwoAndOne == i1 :> 2 @@ i2 :> 1
=============================================================================
