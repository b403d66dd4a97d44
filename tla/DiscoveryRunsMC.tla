--------------------------- MODULE DiscoveryRunsMC ---------------------------
(* Values of the constants of DiscoveryRuns for TLC. *)
EXTENDS DiscoveryRuns, TLC

CONSTANTS q1, c1, w1, w2

\* The arm has one item, the children's request two.
SizeDef == [q \in Requests |-> IF q \in Arms THEN 1 ELSE 2]
=============================================================================
