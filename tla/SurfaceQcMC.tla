---------------------------- MODULE SurfaceQcMC ----------------------------
(* Values of the constants of SurfaceQc for TLC. *)
EXTENDS SurfaceQc

CONSTANTS s1, s2, p1, p2, w1, w2

OneSample == [s \in Surfaces |-> "scroll"]

\* Areas below, at and above the floor.
BelowAtAbove == {1, 2, 3}

\* One worker asks for a single profile, so it may poll and only recycle.
FirstAsksForOne == [w \in Workers |-> IF w = w1 THEN {p1} ELSE Profiles]
EveryProfile == [w \in Workers |-> Profiles]
=============================================================================
