------------------------ MODULE MCNormalisedInvoice ------------------------
(* NormalisedInvoice on small instances: two workers share the row, so the *)
(* configuration gives Lossy and Fatal everything.                         *)
EXTENDS NormalisedInvoice, TLC
=============================================================================
