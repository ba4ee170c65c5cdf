--------------------------- MODULE MCTontineCycle ---------------------------
(* TontineCycle on small instances.                                        *)
EXTENDS TontineCycle, TLC

CONSTANTS a1, a2, a3

\* Nothing tells the founders apart before the draw: one order stands for all.
OneOrder == position[a2] > 0 => position[a1] > 0

\* The bound of the run: it goes no further than a first lost share or stale write,
\* and lets only the last cycle be closed on a count that failed.
Bounded == OneOrder /\ lost = {} /\ guessed \subseteq {3} /\ ~stale
=============================================================================
