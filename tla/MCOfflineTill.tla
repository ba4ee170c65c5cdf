--------------------------- MODULE MCOfflineTill ---------------------------
(* OfflineTill on small instances.                                         *)
EXTENDS OfflineTill, TLC

CONSTANTS u1, t1, sale, move

OneSeller == [o \in Ops |-> u1]
OneWindow == [o \in Ops |-> t1]

\* Bound: two sessions of the register or two requests on their way, not both.
Affordable == Cardinality(Opened) < 2 \/ Cardinality(wire \cup Handled) < 2
MCSpec == TillInit /\ [][TillNext /\ Affordable']_tillVars

\* The same with the fairness of the application that comes back and the server
\* that answers.
MCFair == MCSpec /\ TillFairness
=============================================================================
