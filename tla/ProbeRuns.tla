------------------------------ MODULE ProbeRuns ------------------------------
(***************************************************************************)
(* A seed probe: the bounded experiment a segmentation task may have to    *)
(* run before it grows.  One run per task, one trial per candidate, one    *)
(* set of bytes per trial, one decision, and in select mode one promotion  *)
(* that ties the winner to the grow that continues it                      *)
(* (fleet/postgres_store.py, seed_probe.py and the probe branch of         *)
(* worker.py), the operator's recoveries and `probe-gc` (cli.py).          *)
(*                                                                         *)
(* The run belongs to the task, not to the attempt that opened it: a       *)
(* worker that dies leaves trials, bytes, decision and promotion to the    *)
(* next one.  Module SegmentTasks has the task on its own; here the states *)
(* between claim and end are one, ACTIVE.                                  *)
(*                                                                         *)
(* A lease may lapse whenever its holder is late, so the statements that   *)
(* recycle lapsed leases may find any of them lapsed; delays before a      *)
(* retry and the thirty days of retention may likewise have passed         *)
(* whenever they are asked about.  segment_probe_attempts is its count per *)
(* trial: nothing else of it is read to decide anything.                   *)
(***************************************************************************)
EXTENDS Integers, FiniteSets

CONSTANTS
    NumTrials,      \* candidates of the frozen set, in rank order
    Workers,
    MaxTries,       \* maximum_attempts_per_candidate of the policy
    FetchBudget,    \* probe_artifact_max_requeues
    PublishBudget,  \* finalization_max_requeues
    Mortal,         \* workers that may die or lose their lease
    Perishable,     \* trials whose stored bytes may be lost
    MaxAttempts     \* bound on the attempts of the task

Trials   == 1 .. NumTrials
Attempts == 1 .. MaxAttempts

ASSUME ProbeRunsAssumption ==
    /\ NumTrials \in Nat \ {0}
    /\ MaxTries \in Nat \ {0}
    /\ FetchBudget \in Nat /\ PublishBudget \in Nat
    /\ Mortal \subseteq Workers
    /\ Perishable \subseteq Trials
    /\ MaxAttempts \in Nat

VARIABLES
    \* the task: its state, the attempt whose token is live, the last attempt,
    \* whether its result names the outage a recovery asks for, and how many
    \* attempts were returned by each of the two bounded requeues
    task, holder, latest, excused, fetches, publishes,
    \* segment_probe_runs and segment_probe_decisions
    mode, run, action, winner,
    \* segment_probe_promotions: state, attempt it is bound to, final_status
    promotion, bound, failedAs,
    \* segment_probe_trials, the try whose token is live, the number of tries
    trial, trying, tries,
    \* segment_probe_artifact_sets, and the bytes in the artifact store
    set, bytes,
    \* the worker: where run_one is, its attempt, its trial and try
    pc, number, on, try,
    \* probe-gc: what it listed, and what it deleted and has not marked
    due, gone

taskVars   == <<task, holder, latest, excused, fetches, publishes>>
runVars    == <<mode, run, action, winner>>
promoVars  == <<promotion, bound, failedAs>>
trialVars  == <<trial, trying, tries>>
storeVars  == <<set, bytes>>
workerVars == <<pc, number, on, try>>
gcVars     == <<due, gone>>
vars == <<taskVars, runVars, promoVars, trialVars, storeVars, workerVars, gcVars>>

None == 0

\* POLICY_REJECTED stands for both refusals a recovery may reopen, GROW_FAILED
\* for the ends nothing reopens, PROBE_STOPPED for the three that a decision
\* without a winner leads to, QC_PENDING for every outcome of finalize.
Ends == {"QC_PENDING", "FINALIZATION_FAILED", "POLICY_REJECTED", "GROW_FAILED",
         "PROBE_STOPPED", "BLOCKED_PROBE_ARTIFACT_UNAVAILABLE"}

Leased    == {"CLAIMED", "RUNNING", "UPLOADED"}
Evaluated == {"SUCCEEDED", "REJECTED", "UNMEASURED"}
Over      == Evaluated \cup {"FAILED"}

RunStates == {"none", "PENDING", "PROBING", "READY_TO_DECIDE", "SHADOW_COMPLETE",
              "CONTINUATION_QUEUED", "HUMAN_REVIEW", "REJECTED", "CONTINUING", "PROMOTED",
              "PROMOTION_FAILED", "CONTINUATION_FAILED", "REVIEW_PENDING"}

Actions == {"CONTINUE_WINNER", "HUMAN_REVIEW", "REJECT_ALL"}

Sets == {"none", "RESERVED", "AVAILABLE", "WINNER_RETAINED", "LOSER_RETAINED",
         "REVIEW_RETAINED", "BENCHMARK_RETAINED", "PROMOTED_RETAINED", "EXPIRED"}

Places == {"idle", "claimed", "probing", "starting", "running", "reserved", "published",
           "failing", "too_small", "enlarging", "deciding", "decided", "unreachable",
           "unreadable", "planning", "growing", "publishing"}

Init ==
    /\ task = "PENDING" /\ holder = None /\ latest = None /\ excused = FALSE
    /\ fetches = 0 /\ publishes = 0
    /\ mode \in {"shadow", "select"}
    /\ run = "none" /\ action = "none" /\ winner = None
    /\ promotion = "none" /\ bound = None /\ failedAs = "none"
    /\ trial = [t \in Trials |-> "none"]
    /\ trying = [t \in Trials |-> None]
    /\ tries = [t \in Trials |-> 0]
    /\ set = [t \in Trials |-> "none"]
    /\ bytes = [t \in Trials |-> FALSE]
    /\ pc = [w \in Workers |-> "idle"]
    /\ number = [w \in Workers |-> None]
    /\ on = [w \in Workers |-> None]
    /\ try = [w \in Workers |-> None]
    /\ due = {} /\ gone = None

-----------------------------------------------------------------------------
(* The task and its lease. *)

\* _assert_owner
Owns(w) == number[w] # None /\ holder = number[w]

\* Mutant: a worker that returns keeps its attempt in hand.
LeaveInHand(w) == pc' = [pc EXCEPT ![w] = "idle"] /\ UNCHANGED <<number, on, try>>

\* run_one returns, or raises: the same to the store.
Leave(w) ==
    /\ pc' = [pc EXCEPT ![w] = "idle"]
    /\ number' = [number EXCEPT ![w] = None]
    /\ on' = [on EXCEPT ![w] = None]
    /\ try' = [try EXCEPT ![w] = None]

Goes(w, from, to) ==
    /\ pc[w] = from
    /\ pc' = [pc EXCEPT ![w] = to]
    /\ UNCHANGED <<number, on, try>>

Claim(w) ==
    /\ pc[w] = "idle"
    /\ task = "PENDING" /\ latest < MaxAttempts
    /\ task' = "ACTIVE"
    /\ holder' = latest + 1
    /\ latest' = latest + 1
    /\ pc' = [pc EXCEPT ![w] = "claimed"]
    /\ number' = [number EXCEPT ![w] = latest + 1]
    /\ UNCHANGED <<excused, fetches, publishes, runVars, promoVars, trialVars, storeVars,
                   on, try, gcVars>>

\* _expire_leases, in whichever claim finds the lease lapsed.
Expire ==
    /\ task = "ACTIVE"
    /\ \E w \in Mortal : number[w] = holder \/ \A v \in Workers : number[v] # holder
    /\ task' = "PENDING" /\ holder' = None
    /\ UNCHANGED <<latest, excused, fetches, publishes, runVars, promoVars, trialVars,
                   storeVars, workerVars, gcVars>>

\* Every row of segment_probe_artifact_sets of the run.
AllSets(st) == [t \in Trials |-> IF set[t] = "none" THEN "none" ELSE st]

\* Mutant: the promotion is left open when its task ends.
CloseRunOnly(st) ==
    /\ UNCHANGED <<promoVars, mode, action, winner>>
    /\ IF promotion = "CONTINUING"
       THEN run' = "PROMOTION_FAILED" /\ set' = AllSets("REVIEW_RETAINED")
       ELSE UNCHANGED <<run, set>>

\* What mark_terminal does to the run: an open promotion fails, a winner still
\* waiting for one is given up, and either way all evidence goes to review.
CloseRun(st) ==
    /\ UNCHANGED <<mode, action, winner, bound>>
    /\ \/ /\ promotion = "CONTINUING"
          /\ promotion' = "FAILED" /\ failedAs' = st
          /\ run' = "PROMOTION_FAILED" /\ set' = AllSets("REVIEW_RETAINED")
       \/ /\ promotion # "CONTINUING"
          /\ run = "CONTINUATION_QUEUED" /\ mode = "select"
          /\ run' = "CONTINUATION_FAILED" /\ set' = AllSets("REVIEW_RETAINED")
          /\ UNCHANGED <<promotion, failedAs>>
       \/ /\ promotion # "CONTINUING"
          /\ ~(run = "CONTINUATION_QUEUED" /\ mode = "select")
          /\ UNCHANGED <<promotion, failedAs, run, set>>

\* mark_terminal; `exact` is whether the result names a recoverable outage
MarkTerminal(w, st, exact) ==
    /\ Owns(w)
    /\ task' = st /\ holder' = None /\ excused' = exact
    /\ CloseRun(st)
    /\ Leave(w)
    /\ UNCHANGED <<latest, fetches, publishes, trialVars, bytes, gcVars>>

\* The task returns to the queue and its run stays as it is.
Returns(w) ==
    /\ Owns(w)
    /\ task' = "PENDING" /\ holder' = None
    /\ Leave(w)
    /\ UNCHANGED <<latest, excused, runVars, promoVars, trialVars, storeVars, gcVars>>

\* Source or provider out of reach, or a card that is too small: no limit.
Requeue(w) == Returns(w) /\ UNCHANGED <<fetches, publishes>>

\* run_one raises, the process dies, or the heartbeat is found dead: no trace.
\* Trial and lease are left to lapse.
Raises(w) ==
    /\ Leave(w)
    /\ UNCHANGED <<taskVars, runVars, promoVars, trialVars, storeVars, gcVars>>

Abandon(w) == w \in Mortal /\ pc[w] # "idle" /\ Raises(w)

\* Any store call of a worker that lost the task.
FindsLeaseLost(w) == pc[w] # "idle" /\ ~Owns(w) /\ Raises(w)

-----------------------------------------------------------------------------
(* SeedProbeCoordinator.run: trials. *)

SourceFails(w) ==
    /\ pc[w] = "claimed"
    /\ \/ Requeue(w)
       \/ MarkTerminal(w, "GROW_FAILED", FALSE)
       \/ \E exact \in BOOLEAN : MarkTerminal(w, "POLICY_REJECTED", exact)

\* transition to PROBING and prepare_probe_run, which opens the run or finds it
\* with its decision.
Prepare(w) ==
    /\ Owns(w)
    /\ Goes(w, "claimed", IF action = "none" THEN "probing" ELSE "decided")
    /\ run' = IF run = "none" THEN "PENDING" ELSE run
    /\ trial' = [t \in Trials |-> IF trial[t] = "none" THEN "PENDING" ELSE trial[t]]
    /\ UNCHANGED <<taskVars, mode, action, winner, promoVars, trying, tries, storeVars, gcVars>>

\* This worker's candidates or executor are not those the run was opened with.
RunDiffers(w) == pc[w] = "claimed" /\ run # "none" /\ Raises(w)

\* _assert_probe_trial_owner, after _assert_owner
OwnsTrial(w) == Owns(w) /\ on[w] # None /\ trying[on[w]] = try[w]

\* _expire_probe_leases, of any set of trials that are leased.
Lapsable == {t \in Trials : trial[t] \in Leased}

AfterExpiry(lapsed) == [t \in Trials |-> IF t \in lapsed THEN "PENDING" ELSE trial[t]]

Spent(t) == tries[t] >= MaxTries

\* The trial claim_probe_trial hands out, and the spent ones it fails before it.
Open(lapsed)     == {t \in Trials : AfterExpiry(lapsed)[t] = "PENDING" /\ ~Spent(t)}
FirstOf(S, t)    == t \in S /\ \A u \in S : t <= u
FailedBefore(lapsed, last) ==
    [t \in Trials |-> IF AfterExpiry(lapsed)[t] = "PENDING" /\ Spent(t) /\ t <= last
                      THEN "FAILED" ELSE AfterExpiry(lapsed)[t]]

Unleased(lapsed) == [t \in Trials |-> IF t \in lapsed THEN None ELSE trying[t]]

\* claim_probe_trial
ClaimTrial(w, t, lapsed) ==
    /\ pc[w] = "probing" /\ Owns(w)
    /\ lapsed \subseteq Lapsable
    /\ FirstOf(Open(lapsed), t)
    /\ trial' = [FailedBefore(lapsed, t) EXCEPT ![t] = "CLAIMED"]
    /\ trying' = [Unleased(lapsed) EXCEPT ![t] = tries[t] + 1]
    /\ tries' = [tries EXCEPT ![t] = @ + 1]
    /\ run' = "PROBING"
    /\ pc' = [pc EXCEPT ![w] = "starting"]
    /\ on' = [on EXCEPT ![w] = t]
    /\ try' = [try EXCEPT ![w] = tries[t] + 1]
    /\ UNCHANGED <<taskVars, mode, action, winner, promoVars, storeVars, number, gcVars>>

\* It hands out none.  With every trial over the run is ready to be decided;
\* with one still leased to a worker that is gone, the coordinator raises.
NoTrial(w, lapsed) ==
    /\ pc[w] = "probing" /\ Owns(w)
    /\ lapsed \subseteq Lapsable
    /\ Open(lapsed) = {}
    /\ trial' = FailedBefore(lapsed, NumTrials)
    /\ trying' = Unleased(lapsed)
    /\ IF \A t \in Trials : trial'[t] \in Over THEN Goes(w, "probing", "deciding") ELSE Leave(w)
    /\ UNCHANGED <<taskVars, runVars, promoVars, tries, storeVars, gcVars>>

\* transition_probe_trial
StartTrial(w) ==
    /\ OwnsTrial(w) /\ trial[on[w]] = "CLAIMED"
    /\ Goes(w, "starting", "running")
    /\ trial' = [trial EXCEPT ![on[w]] = "RUNNING"]
    /\ UNCHANGED <<taskVars, runVars, promoVars, trying, tries, storeVars, gcVars>>

\* reserve_probe_artifact: the first bytes of a trial, or the same again.
ReserveArtifact(w) ==
    /\ OwnsTrial(w) /\ trial[on[w]] = "RUNNING"
    /\ Goes(w, "running", "reserved")
    /\ set' = [set EXCEPT ![on[w]] = IF @ = "none" THEN "RESERVED" ELSE @]
    /\ trial' = [trial EXCEPT ![on[w]] = "UPLOADED"]
    /\ UNCHANGED <<taskVars, runVars, promoVars, trying, tries, bytes, gcVars>>

\* publish_probe asks the ledger nothing.
PublishProbe(w) ==
    /\ Goes(w, "reserved", "published")
    /\ bytes' = [bytes EXCEPT ![on[w]] = TRUE]
    /\ UNCHANGED <<taskVars, runVars, promoVars, trialVars, set, gcVars>>

\* complete_probe_trial; an unheard commit goes on as a failure.
CompleteTrial(w, verdict, to) ==
    LET t == on[w] IN
    /\ OwnsTrial(w) /\ trial[t] = "UPLOADED" /\ set[t] = "RESERVED"
    /\ pc[w] = "published"
    /\ set' = [set EXCEPT ![t] = "AVAILABLE"]
    /\ trial' = [trial EXCEPT ![t] = verdict]
    /\ trying' = [trying EXCEPT ![t] = None]
    /\ run' = IF \A u \in Trials : trial'[u] \in Over THEN "READY_TO_DECIDE" ELSE run
    /\ pc' = [pc EXCEPT ![w] = to]
    /\ UNCHANGED <<taskVars, mode, action, winner, promoVars, tries, bytes, number, on, try,
                   gcVars>>

\* Growing, publishing or measuring fails, or grows other bytes than the trial
\* already has.
TrialFails(w) ==
    /\ pc[w] \in {"running", "reserved", "published"}
    /\ \E to \in {"failing", "too_small"} :
         /\ to = "too_small" => pc[w] = "running"
         /\ Goes(w, pc[w], to)
    /\ UNCHANGED <<taskVars, runVars, promoVars, trialVars, storeVars, gcVars>>

\* fail_probe_trial
FailTrial(w) ==
    /\ OwnsTrial(w)
    /\ trial' = [trial EXCEPT ![on[w]] = IF Spent(on[w]) THEN "FAILED" ELSE "PENDING"]
    /\ trying' = [trying EXCEPT ![on[w]] = None]
    /\ Goes(w, "failing", "probing") \/ Goes(w, "too_small", "enlarging")
    /\ UNCHANGED <<taskVars, runVars, promoVars, tries, storeVars, gcVars>>

\* requeue_for_larger_gpu
LargerGpu(w) == pc[w] \in {"enlarging", "growing"} /\ Requeue(w)

\* The trial is not this worker's any more, or is over: the refusal is raised.
TrialRefused(w) ==
    /\ pc[w] \in {"failing", "too_small"} /\ ~OwnsTrial(w)
    /\ Raises(w)

-----------------------------------------------------------------------------
(* The decision, and what follows from it. *)

\* Mutant: a candidate nobody could measure counts as a rejected one.
WinsUnmeasured(t) ==
    NumTrials >= 2 /\ trial[t] = "SUCCEEDED" /\ \A u \in Trials \ {t} : trial[u] # "SUCCEEDED"

\* decide_probe_run: exactly one eligible among two or more, the rest rejected.
Wins(t) ==
    NumTrials >= 2 /\ trial[t] = "SUCCEEDED" /\ \A u \in Trials \ {t} : trial[u] = "REJECTED"

NoneEligible == NumTrials >= 2 /\ \A t \in Trials : trial[t] = "REJECTED"

Decision ==
    IF \E t \in Trials : Wins(t) THEN "CONTINUE_WINNER"
    ELSE IF NoneEligible THEN "REJECT_ALL" ELSE "HUMAN_REVIEW"

Winner == IF \E t \in Trials : Wins(t) THEN CHOOSE t \in Trials : Wins(t) ELSE None

DecidedRun ==
    IF mode = "shadow" THEN "SHADOW_COMPLETE"
    ELSE CASE Decision = "CONTINUE_WINNER" -> "CONTINUATION_QUEUED"
           [] Decision = "HUMAN_REVIEW"    -> "HUMAN_REVIEW"
           [] Decision = "REJECT_ALL"      -> "REJECTED"

DecidedSets ==
    IF mode = "shadow" THEN AllSets("BENCHMARK_RETAINED")
    ELSE IF Decision = "HUMAN_REVIEW" THEN AllSets("REVIEW_RETAINED")
    ELSE [t \in Trials |-> IF set[t] = "none" THEN "none"
                           ELSE IF t = Winner THEN "WINNER_RETAINED" ELSE "LOSER_RETAINED"]

\* record_probe_decision, which decides again from the ledger.
RecordDecision(w) ==
    /\ Owns(w) /\ Goes(w, "deciding", "decided")
    /\ action = "none"
    /\ \A t \in Trials : trial[t] \in Over
    /\ action' = Decision /\ winner' = Winner
    /\ run' = DecidedRun /\ set' = DecidedSets
    /\ UNCHANGED <<taskVars, mode, promoVars, trialVars, bytes, gcVars>>

\* A shadow run changes nothing about what is grown.
GoOnFromShadow(w) ==
    /\ mode = "shadow" /\ Goes(w, "decided", "planning")
    /\ UNCHANGED <<taskVars, runVars, promoVars, trialVars, storeVars, gcVars>>

StopWithoutWinner(w) ==
    /\ pc[w] = "decided" /\ mode = "select" /\ action # "CONTINUE_WINNER"
    /\ MarkTerminal(w, "PROBE_STOPPED", FALSE)

\* materialize_probe: verified bytes, an outage that may pass, or bytes that
\* are missing or wrong.
FetchWinner(w) ==
    /\ mode = "select" /\ action = "CONTINUE_WINNER"
    /\ \/ Goes(w, "decided", "unreachable")
       \/ Goes(w, "decided", IF bytes[winner] THEN "planning" ELSE "unreadable")
    /\ UNCHANGED <<taskVars, runVars, promoVars, trialVars, storeVars, gcVars>>

\* Mutant: the limit is compared one late.
FetchAgainLate == fetches <= FetchBudget

FetchAgain == fetches < FetchBudget

\* requeue_probe_artifact_unavailable, or its no.
RequeueFetch(w) ==
    /\ Owns(w)
    /\ \/ /\ pc[w] = "unreachable" /\ FetchAgain
          /\ fetches' = fetches + 1
          /\ Returns(w) /\ UNCHANGED publishes
       \/ /\ ~FetchAgain
          /\ Goes(w, "unreachable", "unreadable")
          /\ UNCHANGED <<taskVars, runVars, promoVars, trialVars, storeVars, gcVars>>

\* mark_probe_continuation_review
Reviewable == run = "CONTINUATION_QUEUED" /\ action = "CONTINUE_WINNER" /\ promotion = "none"

ReviewContinuation(w) ==
    /\ pc[w] = "unreadable" /\ Owns(w) /\ Reviewable
    /\ task' = "BLOCKED_PROBE_ARTIFACT_UNAVAILABLE" /\ holder' = None /\ excused' = FALSE
    /\ run' = "REVIEW_PENDING" /\ set' = AllSets("REVIEW_RETAINED")
    /\ Leave(w)
    /\ UNCHANGED <<latest, fetches, publishes, mode, action, winner, promoVars, trialVars,
                   bytes, gcVars>>

\* A winner whose promotion was begun before cannot be put to review.
ReviewRefused(w) == pc[w] = "unreadable" /\ ~Reviewable /\ Raises(w)

-----------------------------------------------------------------------------
(* The continuation. *)

PlanFails(w) ==
    /\ pc[w] = "planning"
    /\ Requeue(w) \/ \E exact \in BOOLEAN : MarkTerminal(w, "POLICY_REJECTED", exact)

PlanShadow(w) ==
    /\ mode = "shadow" /\ Owns(w) /\ Goes(w, "planning", "growing")
    /\ UNCHANGED <<taskVars, runVars, promoVars, trialVars, storeVars, gcVars>>

\* begin_probe_promotion: a new promotion, or the open one bound to this
\* attempt.  It does not ask where the run stands, and its commit may be unheard.
BeginPromotion(w) ==
    /\ mode = "select" /\ action = "CONTINUE_WINNER" /\ Owns(w)
    /\ pc[w] = "planning"
    /\ Goes(w, "planning", "growing") \/ UNCHANGED workerVars
    /\ \/ /\ promotion = "none"
          /\ run' = "CONTINUING" /\ set' = [set EXCEPT ![winner] = "WINNER_RETAINED"]
       \/ promotion = "CONTINUING" /\ UNCHANGED <<run, set>>
    /\ promotion' = "CONTINUING" /\ bound' = number[w]
    /\ UNCHANGED <<taskVars, mode, action, winner, failedAs, trialVars, bytes, gcVars>>

GrowFails(w) == pc[w] = "growing" /\ MarkTerminal(w, "GROW_FAILED", FALSE)

Grow(w) ==
    /\ Owns(w) /\ Goes(w, "growing", "publishing")
    /\ UNCHANGED <<taskVars, runVars, promoVars, trialVars, storeVars, gcVars>>

\* validate_probe_finalization_authority and the binding finalize checks itself
Authority(w) ==
    \/ mode = "shadow" /\ promotion = "none"
    \/ /\ mode = "select" /\ run = "CONTINUING" /\ action = "CONTINUE_WINNER"
       /\ promotion = "CONTINUING" /\ bound = number[w]

\* The transaction of finalize; its commit may be unheard.
Finalize(w) ==
    /\ pc[w] = "publishing" /\ Owns(w) /\ Authority(w)
    /\ task' = "QC_PENDING" /\ holder' = None /\ excused' = FALSE
    /\ IF promotion = "none" THEN UNCHANGED <<promotion, run, set>>
       ELSE /\ promotion' = "PROMOTED" /\ run' = "PROMOTED"
            /\ set' = [set EXCEPT ![winner] = "PROMOTED_RETAINED"]
    /\ Leave(w) \/ UNCHANGED workerVars
    /\ UNCHANGED <<latest, fetches, publishes, mode, action, winner, bound, failedAs,
                   trialVars, bytes, gcVars>>

FinalizationFails(w) ==
    /\ pc[w] = "publishing"
    /\ \E exact \in BOOLEAN : MarkTerminal(w, "FINALIZATION_FAILED", exact)

\* requeue_finalization_unavailable, and the end when it answers no.
PublishFails(w) ==
    /\ pc[w] = "publishing"
    /\ \/ /\ publishes < PublishBudget
          /\ publishes' = publishes + 1
          /\ Returns(w) /\ UNCHANGED fetches
       \/ publishes >= PublishBudget /\ MarkTerminal(w, "FINALIZATION_FAILED", FALSE)

-----------------------------------------------------------------------------
(* The operator: recoveries, and probe-gc. *)

\* recover_terminal_provider_outage, recover_terminal_mcp_auth_outage: the task
\* alone.
RecoverOutage ==
    /\ task = "POLICY_REJECTED" /\ excused
    /\ task' = "PENDING" /\ excused' = FALSE
    /\ UNCHANGED <<holder, latest, fetches, publishes, runVars, promoVars, trialVars,
                   storeVars, workerVars, gcVars>>

ReopenPromotion ==
    /\ promotion' = "CONTINUING" /\ failedAs' = "none" /\ run' = "CONTINUING"
    /\ set' = [set EXCEPT ![winner] = "WINNER_RETAINED"]

\* recover_terminal_finalizer_dependency: the task and the promotion that
\* failed with it.
RecoverFinalizer ==
    /\ task = "FINALIZATION_FAILED" /\ excused
    /\ \/ promotion = "none" /\ UNCHANGED <<promotion, failedAs, run, set>>
       \/ promotion = "FAILED" /\ failedAs = "FINALIZATION_FAILED" /\ ReopenPromotion
    /\ task' = "PENDING" /\ excused' = FALSE
    /\ UNCHANGED <<holder, latest, fetches, publishes, mode, action, winner, bound,
                   trialVars, bytes, workerVars, gcVars>>

\* Mutant: what may be deleted is asked of the set alone.
ExpirableBySet(t) == set[t] \in {"LOSER_RETAINED", "PROMOTED_RETAINED"}

\* Mutant: it is asked of the run alone.
ExpirableByRun(t) == set[t] \notin {"none", "EXPIRED"} /\ run \in {"PROMOTED", "REJECTED"}

\* The condition probe_artifacts_due_for_gc and mark_probe_artifact_expired share.
Expirable(t) ==
    set[t] \in {"LOSER_RETAINED", "PROMOTED_RETAINED"} /\ run \in {"PROMOTED", "REJECTED"}

\* probe_artifacts_due_for_gc
ListDue ==
    /\ due = {} /\ gone = None /\ promotion # "CONTINUING"
    /\ due' = {t \in Trials : Expirable(t)}
    /\ due' # {}
    /\ UNCHANGED <<taskVars, runVars, promoVars, trialVars, storeVars, workerVars, gone>>

\* delete_probe, of bytes that may be gone already
DeleteProbe(t) ==
    /\ t \in due /\ gone = None
    /\ bytes' = [bytes EXCEPT ![t] = FALSE]
    /\ due' = due \ {t} /\ gone' = t
    /\ UNCHANGED <<taskVars, runVars, promoVars, trialVars, set, workerVars>>

\* mark_probe_artifact_expired, or its refusal, which the command only notes
MarkExpired ==
    /\ gone # None
    /\ set' = IF Expirable(gone) THEN [set EXCEPT ![gone] = "EXPIRED"] ELSE set
    /\ gone' = None
    /\ UNCHANGED <<taskVars, runVars, promoVars, trialVars, bytes, workerVars, due>>

\* One of its calls fails and the row is passed over, or the command dies.
GcStops ==
    /\ due # {} \/ gone # None
    /\ due' \in SUBSET due /\ gone' = None
    /\ UNCHANGED <<taskVars, runVars, promoVars, trialVars, storeVars, workerVars>>

\* The artifact store loses what it held.
Perish(t) ==
    /\ t \in Perishable /\ bytes[t]
    /\ bytes' = [bytes EXCEPT ![t] = FALSE]
    /\ UNCHANGED <<taskVars, runVars, promoVars, trialVars, set, workerVars, gcVars>>

-----------------------------------------------------------------------------
TrialStep(w) ==
    \/ \E lapsed \in SUBSET Trials :
         NoTrial(w, lapsed) \/ \E t \in Trials : ClaimTrial(w, t, lapsed)
    \/ StartTrial(w) \/ ReserveArtifact(w) \/ PublishProbe(w)
    \/ \E verdict \in Evaluated, to \in {"probing", "failing"} : CompleteTrial(w, verdict, to)
    \/ TrialFails(w) \/ FailTrial(w) \/ TrialRefused(w)

WorkerStep(w) ==
    \/ Claim(w) \/ SourceFails(w) \/ Prepare(w) \/ RunDiffers(w)
    \/ TrialStep(w)
    \/ RecordDecision(w) \/ GoOnFromShadow(w) \/ StopWithoutWinner(w)
    \/ FetchWinner(w) \/ RequeueFetch(w) \/ ReviewContinuation(w) \/ ReviewRefused(w)
    \/ PlanFails(w) \/ PlanShadow(w) \/ BeginPromotion(w)
    \/ LargerGpu(w) \/ GrowFails(w) \/ Grow(w)
    \/ Finalize(w) \/ FinalizationFails(w) \/ PublishFails(w)
    \/ Abandon(w) \/ FindsLeaseLost(w)

OperatorStep ==
    \/ RecoverOutage \/ RecoverFinalizer
    \/ ListDue \/ MarkExpired \/ GcStops \/ \E t \in Trials : DeleteProbe(t)

Next == \/ \E w \in Workers : WorkerStep(w)
        \/ Expire
        \/ OperatorStep
        \/ \E t \in Trials : Perish(t)

Spec == Init /\ [][Next]_vars

-----------------------------------------------------------------------------
(* Properties. *)

\* Every variable keeps its type; a worker has an attempt exactly when it is
\* not idle, and a trial whenever its place speaks of one.
TypeOK ==
    /\ task \in {"PENDING", "ACTIVE"} \cup Ends
    /\ holder \in {None} \cup Attempts /\ latest \in {None} \cup Attempts
    /\ excused \in BOOLEAN /\ fetches \in Nat /\ publishes \in Nat
    /\ mode \in {"shadow", "select"} /\ run \in RunStates
    /\ action \in {"none"} \cup Actions /\ winner \in {None} \cup Trials
    /\ promotion \in {"none", "CONTINUING", "PROMOTED", "FAILED"}
    /\ bound \in {None} \cup Attempts /\ failedAs \in {"none"} \cup Ends
    /\ trial \in [Trials -> {"none", "PENDING"} \cup Leased \cup Over]
    /\ trying \in [Trials -> Nat] /\ tries \in [Trials -> Nat]
    /\ set \in [Trials -> Sets] /\ bytes \in [Trials -> BOOLEAN]
    /\ pc \in [Workers -> Places] /\ number \in [Workers -> {None} \cup Attempts]
    /\ on \in [Workers -> {None} \cup Trials] /\ try \in [Workers -> Nat]
    /\ due \subseteq Trials /\ gone \in {None} \cup Trials
    /\ \A w \in Workers : /\ pc[w] = "idle" <=> number[w] = None
                          /\ pc[w] \in {"starting", "running", "reserved", "published"} =>
                               on[w] # None

\* Task, run, promotion and evidence tell one story, through requeues, lost
\* leases, failures and recoveries: a promotion is open only while its task may
\* still end; it succeeded exactly if the task has its surface, by the attempt
\* it is bound to, which was the last; and the winner's bytes are filed where
\* the promotion says (begin_probe_promotion, finalize, mark_terminal,
\* recover_terminal_finalizer_dependency).
OneStory ==
    /\ promotion = "CONTINUING" <=> run = "CONTINUING"
    /\ promotion = "CONTINUING" => task \in {"PENDING", "ACTIVE"}
                                   /\ set[winner] = "WINNER_RETAINED"
    /\ promotion = "PROMOTED" <=> run = "PROMOTED"
    /\ promotion = "PROMOTED" <=> task = "QC_PENDING" /\ mode = "select"
    /\ promotion = "PROMOTED" => bound = latest
                                 /\ set[winner] \in {"PROMOTED_RETAINED", "EXPIRED"}
    /\ promotion = "FAILED" => run = "PROMOTION_FAILED" /\ set[winner] = "REVIEW_RETAINED"

\* A select task has a surface only by way of one candidate that was measured
\* eligible while every other was measured and rejected, whatever happened
\* between the decision and the grow; and a recorded decision is the one its
\* trials still call for (decide_probe_run, validate_probe_finalization_authority).
SurfaceNeedsWinner ==
    /\ action # "none" => action = Decision /\ winner = Winner
    /\ task = "QC_PENDING" /\ mode = "select" =>
         /\ winner # None /\ trial[winner] = "SUCCEEDED"
         /\ \A t \in Trials \ {winner} : trial[t] = "REJECTED"

\* The bytes a decision was taken on, or a grow may still resume from, stay in
\* the store until the run is settled for good, unless the store itself loses
\* them: probe-gc, in whatever state a recovery finds it, deletes nothing before (probe_artifacts_due_for_gc).
EvidenceOutlivesRun ==
    \A t \in Trials \ Perishable :
        trial[t] \in Evaluated /\ run \notin {"PROMOTED", "REJECTED"} => bytes[t]

\* Candidate tries, and the requeues granted for a winner that could not be
\* fetched and for a publication, stay within what policy and operator allow, across
\* all attempts of the task ("do not reset the task budget").  A fetch itself is not
\* limited: where the review is refused (ReviewRefused) the lease lapses, and the
\* next attempt fetches again.
BudgetsHold ==
    /\ \A t \in Trials : tries[t] <= MaxTries
    /\ fetches <= FetchBudget /\ publishes <= PublishBudget

\* "Shadow and review evidence are retained indefinitely": what was put to
\* review leaves it only as the winner of a continuation that goes on.
ReviewIsKept ==
    [][\A t \in Trials :
         set[t] \in {"REVIEW_RETAINED", "BENCHMARK_RETAINED"} /\ set'[t] # set[t] =>
             t = winner /\ set'[t] = "WINNER_RETAINED" /\ promotion' = "CONTINUING"]_vars

\* A decision, once recorded, stays, and a run that was settled stays settled.
SettledForGood ==
    [][/\ action # "none" => action' = action /\ winner' = winner
       /\ run \in {"SHADOW_COMPLETE", "HUMAN_REVIEW", "REJECTED", "PROMOTED", "REVIEW_PENDING"}
            => run' = run]_vars

\* The task, seen as the segmentation queue's own lifecycle sees it: attempts
\* are numbered without a gap, one at a time holds the task, and an end is
\* undone only by a recovery, whatever the probe inside it went through.
TaskLifecycle == INSTANCE AttemptLifecycle WITH
    Tasks <- {"task"},
    number <- [t \in {"task"} |-> latest],
    state <- [t \in {"task"} |-> IF task = "ACTIVE" THEN "held"
                                 ELSE IF latest = None THEN "none" ELSE task],
    EndStates <- Ends,
    Reopenable <- {"POLICY_REJECTED", "FINALIZATION_FAILED"},
    Requeues <- {"PENDING"}, Lapsed <- "PENDING", Recovered <- "PENDING"

TaskKeepsLifecycle == TaskLifecycle!Spec

\* Trials are jobs of their own: handed out to one try at a time, at most
\* MaxTries times, by whichever attempts of the task; only the try that holds
\* one ends it with a result, and a trial that is over is never tried again
\* (claim_probe_trial, complete_probe_trial, fail_probe_trial).
TrialPhase(t) ==
    CASE trial[t] = "none"       -> "absent"
      [] trial[t] = "PENDING"    -> "waiting"
      [] trial[t] \in Leased    -> "held"
      [] trial[t] \in Evaluated -> "succeeded"
      [] trial[t] = "FAILED"     -> "failed"

TrialLifecycle == INSTANCE JobLifecycle WITH
    Jobs <- Trials,
    Ceiling <- [t \in Trials |-> MaxTries],
    phase <- [t \in Trials |-> TrialPhase(t)],
    claims <- tries

TrialsKeepLifecycle == TrialLifecycle!Spec

=============================================================================
