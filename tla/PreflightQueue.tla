--------------------------- MODULE PreflightQueue ---------------------------
(***************************************************************************)
(* The candidate preflight queue: a frozen request is enqueued by the      *)
(* panel, measured once by a worker where the sources are, and answered    *)
(* from the row (fleet/postgres_store.py, preflight_worker.py).            *)
(*                                                                         *)
(* A request may have several jobs, one behind the other: a failed one is  *)
(* a record and no answer, so the next ask gets a new row with the next    *)
(* ordinal.  The enqueue is three statements at READ COMMITTED, and only   *)
(* the partial unique index stands between two of them.                    *)
(*                                                                         *)
(* A token is 32 random bytes in the code and the number of the claim that *)
(* drew it here.  A lease may lapse under a worker that is alive; that, a  *)
(* death, and a database error a worker takes for a lost lease are the     *)
(* faults, bounded by MaxFaults.                                           *)
(***************************************************************************)
EXTENDS Integers, FiniteSets

CONSTANTS
    Requests,
    Askers,           \* panel requests that enqueue
    Workers,
    MaximumRequeues,  \* PREFLIGHT_MAXIMUM_REQUEUES
    MaxFailures,      \* max_consecutive_failures of a worker
    MaxOrdinal,       \* bound on the jobs of one request
    MaxFaults         \* bound on the faults

Jobs == Requests \X (0 .. MaxOrdinal)

ASSUME PreflightQueueAssumption ==
    /\ IsFiniteSet(Requests)
    /\ MaximumRequeues \in Nat /\ MaxOrdinal \in Nat /\ MaxFaults \in Nat
    /\ MaxFailures \in Nat \ {0}

VARIABLES
    \* segment_preflight_jobs: state, lease_token, lease_expires_at past,
    \* retry_after to come, attempts, requeues, reason_code, and the claim that
    \* wrote its receipt, a measurement's or an outage's
    state, token, lapsed, waits, attempts, requeues, reason, receipt,
    \* the worker: where run_one is, its job and token, what it will report,
    \* consecutive failures
    pc, job, mine, code, failures,
    \* the enqueue: its request, where it is, and the count it read
    step, wants, counted,
    \* number of faults so far
    faults

rowVars    == <<state, token, lapsed, waits, attempts, requeues, reason, receipt>>
workerVars == <<pc, job, mine, code, failures>>
askVars    == <<step, wants, counted>>
vars == <<rowVars, workerVars, askVars, faults>>

None == 0
NoJob == <<>>

States  == {"absent", "PENDING", "CLAIMED", "COMPLETED", "FAILED"}
Ended   == {"COMPLETED", "FAILED"}
\* What a failed measurement is filed under: an outage, something about this
\* job, or something about this host, which stops the worker too.
Codes == {"outage", "job", "host"}

Init ==
    /\ state = [j \in Jobs |-> "absent"]
    /\ token = [j \in Jobs |-> None]
    /\ lapsed = [j \in Jobs |-> FALSE]
    /\ waits = [j \in Jobs |-> FALSE]
    /\ attempts = [j \in Jobs |-> 0]
    /\ requeues = [j \in Jobs |-> 0]
    /\ reason = [j \in Jobs |-> "none"]
    /\ receipt = [j \in Jobs |-> None]
    /\ pc = [w \in Workers |-> "idle"]
    /\ job = [w \in Workers |-> NoJob]
    /\ mine = [w \in Workers |-> None]
    /\ code = [w \in Workers |-> "none"]
    /\ failures = [w \in Workers |-> 0]
    /\ step = [a \in Askers |-> "idle"]
    /\ wants \in [Askers -> Requests]
    /\ counted = [a \in Askers |-> 0]
    /\ faults = 0

-----------------------------------------------------------------------------
(* enqueue_candidate_preflight *)

JobsOf(r) == {j \in Jobs : j[1] = r /\ state[j] # "absent"}
LiveOf(r) == {j \in JobsOf(r) : state[j] # "FAILED"}

\* The first statement finds the answer, and the enqueue is over; or it does not.
Look(a) ==
    /\ step[a] = "idle" /\ LiveOf(wants[a]) = {}
    /\ step' = [step EXCEPT ![a] = "looked"]
    /\ UNCHANGED <<rowVars, workerVars, wants, counted, faults>>

\* The second counts the rows for the next ordinal.
Count(a) ==
    /\ step[a] = "looked"
    /\ Cardinality(JobsOf(wants[a])) <= MaxOrdinal
    /\ step' = [step EXCEPT ![a] = "counted"]
    /\ counted' = [counted EXCEPT ![a] = Cardinality(JobsOf(wants[a]))]
    /\ UNCHANGED <<rowVars, workerVars, wants, faults>>

\* Mutant: only the primary key is unique.
FreeByKey(j) == state[j] = "absent"

\* The primary key, and one live row per request.
Free(j) == state[j] = "absent" /\ LiveOf(j[1]) = {}

\* The third inserts the row, or raises.
Insert(a) ==
    LET j == <<wants[a], counted[a]>> IN
    /\ step[a] = "counted"
    /\ step' = [step EXCEPT ![a] = "idle"]
    /\ state' = IF Free(j) THEN [state EXCEPT ![j] = "PENDING"] ELSE state
    /\ UNCHANGED <<token, lapsed, waits, attempts, requeues, reason, receipt, workerVars,
                   wants, counted, faults>>

-----------------------------------------------------------------------------
(* The worker. *)

\* Mutant: the row's state is proof enough of the lease.
HoldsRow(w) == state[job[w]] = "CLAIMED"

\* _preflight_owner: the token alone, no deadline
Holds(w) == state[job[w]] = "CLAIMED" /\ token[job[w]] = mine[w]

\* run_one returns; anything but COMPLETED counts, and enough of it in a row, or
\* a reason that is the host's, stops the loop.
ReturnsFailed(w, stops) ==
    /\ failures' = [failures EXCEPT ![w] = IF @ < MaxFailures THEN @ + 1 ELSE @]
    /\ pc' = [pc EXCEPT ![w] = IF stops \/ failures[w] + 1 >= MaxFailures THEN "down" ELSE "idle"]
    /\ job' = [job EXCEPT ![w] = NoJob]
    /\ mine' = [mine EXCEPT ![w] = None]
    /\ code' = [code EXCEPT ![w] = "none"]

\* Mutant: the loop keeps the claim it has finished.
ReturnsDoneInHand(w) ==
    /\ failures' = [failures EXCEPT ![w] = 0]
    /\ pc' = [pc EXCEPT ![w] = "idle"]
    /\ UNCHANGED <<job, mine, code>>

ReturnsDone(w) ==
    /\ failures' = [failures EXCEPT ![w] = 0]
    /\ pc' = [pc EXCEPT ![w] = "idle"]
    /\ job' = [job EXCEPT ![w] = NoJob]
    /\ mine' = [mine EXCEPT ![w] = None]
    /\ code' = [code EXCEPT ![w] = "none"]

Failing(w, c) ==
    /\ pc' = [pc EXCEPT ![w] = "failing"]
    /\ code' = [code EXCEPT ![w] = c]
    /\ UNCHANGED <<job, mine, failures>>

\* Mutant: lapsed leases are left to somebody else.
RecycledByNobody == {}

\* The rows whose lease claim_preflight finds lapsed.
Recycled == {j \in Jobs : state[j] = "CLAIMED" /\ lapsed[j]}

\* Mutant: a lease need not have lapsed.
ClaimableHeld(j) == (state[j] = "PENDING" /\ ~waits[j]) \/ state[j] = "CLAIMED"

Claimable(j) == (state[j] = "PENDING" /\ ~waits[j]) \/ j \in Recycled

\* claim_preflight: any claimable row, since rows others have locked are skipped.
Claim(w, j) ==
    /\ pc[w] = "idle" /\ Claimable(j)
    /\ state' = [i \in Jobs |-> IF i = j THEN "CLAIMED"
                                ELSE IF i \in Recycled THEN "PENDING" ELSE state[i]]
    /\ token' = [i \in Jobs |-> IF i = j THEN attempts[j] + 1
                                ELSE IF i \in Recycled THEN None ELSE token[i]]
    /\ lapsed' = [i \in Jobs |-> lapsed[i] /\ i # j /\ i \notin Recycled]
    /\ attempts' = [attempts EXCEPT ![j] = @ + 1]
    /\ pc' = [pc EXCEPT ![w] = "claimed"]
    /\ job' = [job EXCEPT ![w] = j]
    /\ mine' = [mine EXCEPT ![w] = attempts[j] + 1]
    /\ UNCHANGED <<waits, requeues, reason, receipt, code, failures, askVars, faults>>

\* heartbeat_preflight, by the thread or by _still_ours
Beat(w) ==
    /\ pc[w] = "measuring" /\ Holds(w)
    /\ lapsed' = [lapsed EXCEPT ![job[w]] = FALSE]
    /\ UNCHANGED <<state, token, waits, attempts, requeues, reason, receipt, workerVars,
                   askVars, faults>>

\* _still_ours: the lease is proved again before anything is read.
StillOurs(w) ==
    /\ pc[w] = "claimed" /\ Holds(w)
    /\ lapsed' = [lapsed EXCEPT ![job[w]] = FALSE]
    /\ pc' = [pc EXCEPT ![w] = "measuring"]
    /\ UNCHANGED <<state, token, waits, attempts, requeues, reason, receipt, job, mine, code,
                   failures, askVars, faults>>

\* The lease is somebody else's: _still_ours, the heartbeat, or the store says so.
StandDown(w) ==
    /\ pc[w] \in {"claimed", "measuring", "failing"} /\ ~Holds(w)
    /\ ReturnsFailed(w, FALSE)
    /\ UNCHANGED <<rowVars, askVars, faults>>

\* The measurement ends without a receipt that may be filed, or the row could not
\* be read at all.
Fail(w) ==
    /\ \/ pc[w] = "claimed" /\ Failing(w, "outage")
       \/ pc[w] = "measuring" /\ \E c \in Codes : Failing(w, c)
    /\ UNCHANGED <<rowVars, askVars, faults>>

\* finalize_preflight; an unheard commit, and a refusal, are taken for an outage.
Finalize(w) ==
    /\ pc[w] = "measuring"
    /\ \/ /\ Holds(w)
          /\ state' = [state EXCEPT ![job[w]] = "COMPLETED"]
          /\ receipt' = [receipt EXCEPT ![job[w]] = mine[w]]
          /\ token' = [token EXCEPT ![job[w]] = None]
          /\ lapsed' = [lapsed EXCEPT ![job[w]] = FALSE]
          /\ ReturnsDone(w) \/ Failing(w, "outage")
       \/ /\ ~Holds(w) /\ Failing(w, "outage")
          /\ UNCHANGED <<state, receipt, token, lapsed>>
    /\ UNCHANGED <<waits, attempts, requeues, reason, askVars, faults>>

\* The row is given back or ended, and its lease released.
Released(w, st) ==
    /\ state' = [state EXCEPT ![job[w]] = st]
    /\ token' = [token EXCEPT ![job[w]] = None]
    /\ lapsed' = [lapsed EXCEPT ![job[w]] = FALSE]
    /\ UNCHANGED <<attempts, askVars, faults>>

\* fail_preflight, whose answer may be lost
FailJob(w) ==
    /\ pc[w] = "failing" /\ code[w] # "outage" /\ Holds(w)
    /\ Released(w, "FAILED")
    /\ reason' = [reason EXCEPT ![job[w]] = code[w]]
    /\ ReturnsFailed(w, code[w] = "host") \/ ReturnsFailed(w, FALSE)
    /\ UNCHANGED <<waits, requeues, receipt>>

\* Mutant: the budget is compared one early.
SpentEarly(j) == requeues[j] + 1 >= MaximumRequeues

Spent(j) == requeues[j] >= MaximumRequeues

\* requeue_preflight_source_unavailable
Requeue(w) ==
    LET j == job[w] IN
    /\ pc[w] = "failing" /\ code[w] = "outage" /\ Holds(w)
    /\ \/ /\ Spent(j)
          /\ Released(w, "FAILED")
          /\ reason' = [reason EXCEPT ![j] = "outage"]
          /\ UNCHANGED <<waits, requeues>>
       \/ /\ ~Spent(j)
          /\ Released(w, "PENDING")
          /\ requeues' = [requeues EXCEPT ![j] = @ + 1]
          /\ waits' = [waits EXCEPT ![j] = TRUE]
          /\ UNCHANGED reason
    /\ receipt' = [receipt EXCEPT ![j] = mine[w]]
    /\ ReturnsFailed(w, FALSE)

\* The loop has stopped or the process died: the container starts it again.
Restart(w) ==
    /\ pc[w] = "down"
    /\ pc' = [pc EXCEPT ![w] = "idle"]
    /\ failures' = [failures EXCEPT ![w] = 0]
    /\ UNCHANGED <<rowVars, job, mine, code, askVars, faults>>

-----------------------------------------------------------------------------
(* Time, and faults. *)

RetryDue(j) ==
    /\ waits[j]
    /\ waits' = [waits EXCEPT ![j] = FALSE]
    /\ UNCHANGED <<state, token, lapsed, attempts, requeues, reason, receipt, workerVars,
                   askVars, faults>>

Held(j) == \E w \in Workers : job[w] = j /\ mine[w] = token[j]

\* A lease nobody renews any more.
Lapse(j) ==
    /\ state[j] = "CLAIMED" /\ ~lapsed[j] /\ ~Held(j)
    /\ lapsed' = [lapsed EXCEPT ![j] = TRUE]
    /\ UNCHANGED <<state, token, waits, attempts, requeues, reason, receipt, workerVars,
                   askVars, faults>>

Fault == faults < MaxFaults /\ faults' = faults + 1

\* The heartbeat of a live worker comes too late.
Stall(j) ==
    /\ state[j] = "CLAIMED" /\ ~lapsed[j] /\ Held(j) /\ Fault
    /\ lapsed' = [lapsed EXCEPT ![j] = TRUE]
    /\ UNCHANGED <<state, token, waits, attempts, requeues, reason, receipt, workerVars, askVars>>

Die(w) ==
    /\ pc[w] \in {"claimed", "measuring", "failing"} /\ Fault
    /\ pc' = [pc EXCEPT ![w] = "down"]
    /\ job' = [job EXCEPT ![w] = NoJob]
    /\ mine' = [mine EXCEPT ![w] = None]
    /\ code' = [code EXCEPT ![w] = "none"]
    /\ UNCHANGED <<rowVars, failures, askVars>>

\* Any error of a store call that asks for the lease reads as a lost lease.
TakenForLost(w) ==
    /\ pc[w] \in {"claimed", "measuring", "failing"} /\ Holds(w) /\ Fault
    /\ ReturnsFailed(w, FALSE)
    /\ UNCHANGED <<rowVars, askVars>>

-----------------------------------------------------------------------------
Report(w) == FailJob(w) \/ Requeue(w)

Next ==
    \/ \E a \in Askers : Look(a) \/ Count(a) \/ Insert(a)
    \/ \E w \in Workers :
         \/ \E j \in Jobs : Claim(w, j)
         \/ StillOurs(w) \/ Beat(w) \/ StandDown(w) \/ Fail(w) \/ Finalize(w) \/ Report(w)
         \/ Restart(w) \/ Die(w) \/ TakenForLost(w)
    \/ \E j \in Jobs : RetryDue(j) \/ Lapse(j) \/ Stall(j)

Spec == Init /\ [][Next]_vars

\* Workers poll, restart, and end what they began; time passes.
FairSpec ==
    /\ Spec
    /\ \A w \in Workers :
         /\ WF_vars(\E j \in Jobs : Claim(w, j))
         /\ WF_vars(StillOurs(w) \/ StandDown(w) \/ Fail(w) \/ Finalize(w) \/ Report(w))
         /\ WF_vars(Restart(w))
    /\ \A j \in Jobs : WF_vars(RetryDue(j)) /\ WF_vars(Lapse(j))

-----------------------------------------------------------------------------
(* Properties. *)

\* Every variable keeps its type, and a worker has a job exactly while it is
\* between claim and return.
TypeOK ==
    /\ state \in [Jobs -> States] /\ token \in [Jobs -> Nat]
    /\ lapsed \in [Jobs -> BOOLEAN] /\ waits \in [Jobs -> BOOLEAN]
    /\ attempts \in [Jobs -> Nat] /\ requeues \in [Jobs -> Nat]
    /\ reason \in [Jobs -> {"none"} \cup Codes] /\ receipt \in [Jobs -> Nat]
    /\ pc \in [Workers -> {"idle", "claimed", "measuring", "failing", "down"}]
    /\ job \in [Workers -> Jobs \cup {NoJob}] /\ mine \in [Workers -> Nat]
    /\ code \in [Workers -> {"none"} \cup Codes] /\ failures \in [Workers -> 0 .. MaxFailures]
    /\ step \in [Askers -> {"idle", "looked", "counted"}]
    /\ wants \in [Askers -> Requests] /\ counted \in [Askers -> 0 .. MaxOrdinal]
    /\ faults \in 0 .. MaxFaults
    /\ \A w \in Workers : pc[w] \in {"idle", "down"} <=> job[w] = NoJob

\* "One live job per request, with any number of failed attempts behind it":
\* however enqueues interleave with each other and with the job's own failure,
\* two rows are never both the answer, and the ordinals have no gap, so the
\* next count is again a fresh one.
OneLivePerRequest ==
    \A r \in Requests :
        /\ \A i, j \in LiveOf(r) : i = j
        /\ \A j \in JobsOf(r) : \A n \in 0 .. j[2] :
             state[<<r, n>>] # "absent" /\ (n < j[2] => state[<<r, n>>] = "FAILED")

\* The receipt a completed job answers with is that of its last claim: nobody
\* who lost the lease, however late, has filed one (_preflight_owner).
ReceiptFromLastClaim ==
    \A j \in Jobs : state[j] = "COMPLETED" => receipt[j] = attempts[j]

\* A job given up for an outage has had all the retries it is entitled to, and
\* none has had more ("the bound is what keeps a source that is genuinely gone
\* from hiding behind an endless requeue").
OutageGetsItsRetries ==
    \A j \in Jobs : /\ requeues[j] <= MaximumRequeues
                    /\ reason[j] = "outage" => requeues[j] = MaximumRequeues

\* A job is measured again only for a requeue it was granted or a fault: a claim
\* does not take a row from a worker that is alive and renewing.
Lifecycle == INSTANCE JobLifecycle WITH
    phase <- [j \in Jobs |->
                CASE state[j] = "absent"    -> "absent"
                  [] state[j] = "PENDING"   -> "waiting"
                  [] state[j] = "CLAIMED"   -> "held"
                  [] state[j] = "COMPLETED" -> "succeeded"
                  [] state[j] = "FAILED"    -> "failed"],
    claims <- attempts,
    Ceiling <- [j \in Jobs |-> 1 + MaximumRequeues + MaxFaults]

\* The preflight queue keeps the promises of JobLifecycle: one holder at a time,
\* final ends, and no more claims than first ask, requeues and faults explain.
KeepsLifecycle == Lifecycle!Spec

\* Every job ends, whatever lapses, restarts and outages it meets on the way.
EveryJobEnds == \A j \in Jobs : state[j] = "PENDING" ~> state[j] \in Ended
=============================================================================
