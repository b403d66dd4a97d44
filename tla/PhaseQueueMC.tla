---------------------------- MODULE PhaseQueueMC ----------------------------
(***************************************************************************)
(* Small instances of PhaseQueue for TLC.                                  *)
(***************************************************************************)
EXTENDS PhaseQueue

CONSTANTS general, specialist   \* a general ink worker, and the 9 um one

\* The first job runs in the ordinary image, the others in the specialist's.
AllButFirstNeed9um == [j \in Jobs |-> IF j = 1 THEN AnyImage ELSE "lane9um"]
NoneNeeds     == [j \in Jobs |-> AnyImage]
BothRuntimes  == [w \in Workers |-> IF w = specialist THEN "lane9um" ELSE "ordinary"]
BlindRuntime  == [w \in Workers |-> Unlabelled]
\* The general worker serves another phase: it claims none of these jobs.
SpecialistOnly == [w \in Workers |-> IF w = specialist THEN Jobs ELSE {}]
AdmitAll      == [w \in Workers |-> Jobs]
SamePriority  == [j \in Jobs |-> 0]
ThreeAttempts == [j \in Jobs |-> 3]
TwoAttempts   == [j \in Jobs |-> 2]
=============================================================================
