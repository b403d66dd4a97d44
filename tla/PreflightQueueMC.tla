-------------------------- MODULE PreflightQueueMC --------------------------
(* Values of the constants of PreflightQueue for TLC. *)
EXTENDS PreflightQueue

CONSTANTS r1, a1, a2, w1, w2
=============================================================================
