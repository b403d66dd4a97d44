--------------------------- MODULE SegmentTasksMC ---------------------------
(* Values of the constants of SegmentTasks for TLC. *)
EXTENDS SegmentTasks, TLC

CONSTANTS small, large, t1, t2

\* A worker without CUDA and one with a card of 1 GB, which is what a task
\* asks for after the first ran out of memory on it.
CpuAndCard    == [w \in Workers |-> IF w = small THEN 0 ELSE 1]
\* t2 asks for a capability only the large worker has.
OneSharedTask == [w \in Workers |-> IF w = small THEN {t1} ELSE {t1, t2}]
\* Digests are only compared with each other.
DigestSymmetry == Permutations(Digests)
NoFloor       == [t \in Tasks |-> 0]
=============================================================================
