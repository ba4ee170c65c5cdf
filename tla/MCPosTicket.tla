----------------------------- MODULE MCPosTicket -----------------------------
(* PosTicket on small instances.                                           *)
EXTENDS PosTicket, TLC

CONSTANTS l1, q1

\* Where a stop leaves a half-done change.
Halfway == {"sum", "mirror", "unmint", "delete", "reread", "settle", "items", "deduct"}
=============================================================================
