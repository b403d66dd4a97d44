---------------------------- MODULE JobLifecycle ----------------------------
(***************************************************************************)
(* What the phase queue promises of a job, whoever claims, dies, cancels   *)
(* or reports: work is handed out to one claim at a time and at most       *)
(* `Ceiling` times, only the claim it is handed to can end it with a       *)
(* result, and an end is final.                                            *)
(*                                                                         *)
(* The table serves all jobs at once, so a step may move several of them:  *)
(* every job follows the lifecycle on its own.                             *)
(***************************************************************************)
EXTENDS Integers

CONSTANTS Jobs, Ceiling

VARIABLES
    phase,   \* where the job is
    claims   \* how often it has been handed out

vars == <<phase, claims>>

Ends   == {"succeeded", "failed", "cancelled"}
Phases == {"absent", "waiting", "held"} \cup Ends

Init ==
    /\ phase = [j \in Jobs |-> "absent"]
    /\ claims = [j \in Jobs |-> 0]

Stays(j) == claims'[j] = claims[j]

Submitted(j) == phase[j] = "absent" /\ phase'[j] = "waiting" /\ Stays(j)

\* A claim: of a waiting job, or of one whose holder's time ran out.
Taken(j) ==
    /\ phase[j] \in {"waiting", "held"}
    /\ claims[j] < Ceiling[j]
    /\ phase'[j] = "held"
    /\ claims'[j] = claims[j] + 1

Returned(j) == phase[j] = "held" /\ phase'[j] = "waiting" /\ Stays(j)

\* The holder reports.
Reported(j) == phase[j] = "held" /\ phase'[j] \in Ends /\ Stays(j)

\* Nobody holds it: withdrawn, ...
Withdrawn(j) == phase[j] = "waiting" /\ phase'[j] = "cancelled" /\ Stays(j)

\* ... or given up, when every claim it was allowed is spent.
GivenUp(j) ==
    /\ phase[j] \in {"waiting", "held"}
    /\ claims[j] >= Ceiling[j]
    /\ phase'[j] = "failed"
    /\ Stays(j)

Unmoved(j) == phase'[j] = phase[j] /\ Stays(j)

JobNext(j) ==
    \/ Submitted(j) \/ Taken(j) \/ Returned(j) \/ Reported(j)
    \/ Withdrawn(j) \/ GivenUp(j) \/ Unmoved(j)

Next ==
    /\ phase' \in [Jobs -> Phases]
    /\ claims' \in [Jobs -> Nat]
    /\ \A j \in Jobs : JobNext(j)

Spec == Init /\ [][Next]_vars
-----------------------------------------------------------------------------
(* What follows from it, for whatever implements it. *)

\* Work is handed out within its ceiling, nothing is held or has succeeded that
\* was never handed out, and what failed was handed out as often as it might be
\* or had a holder that said so.
HandedOut ==
    \A j \in Jobs :
        /\ claims[j] <= Ceiling[j]
        /\ phase[j] \in {"held", "succeeded"} => claims[j] > 0
        /\ phase[j] = "failed" => claims[j] > 0 \/ Ceiling[j] = 0

\* An end is final, and nothing is handed out after it.
EndsForGood ==
    [][\A j \in Jobs : phase[j] \in Ends => phase'[j] = phase[j] /\ claims'[j] = claims[j]]_vars
=============================================================================
