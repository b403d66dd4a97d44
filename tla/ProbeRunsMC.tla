---------------------------- MODULE ProbeRunsMC ----------------------------
(* Values of the constants of ProbeRuns for TLC. *)
EXTENDS ProbeRuns, TLC

CONSTANTS w1, w2

\* Workers differ in nothing but their name, where all of them are mortal.
WorkerSymmetry == Permutations(Workers)
=============================================================================
