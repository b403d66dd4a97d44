---------------------------- MODULE SegmentTasks ----------------------------
(***************************************************************************)
(* The queue P1 grows surfaces from: segment_tasks, segment_attempts,      *)
(* segment_artifact_sets and the surfaces finalize registers               *)
(* (fleet/postgres_store.py), and the worker that takes a task from claim  *)
(* to finalize (worker.py, finalizer.py).                                  *)
(*                                                                         *)
(* Unlike a phase job, every claim of a task leaves a row of its own, the  *)
(* attempt, and every store call writes the task and its attempt together. *)
(* A task may be handed out without limit; what is limited is one kind of  *)
(* requeue.  Tasks here grow from a plan; seed probes are not modelled.    *)
(***************************************************************************)
EXTENDS Integers, FiniteSets

CONSTANTS
    Tasks,
    Workers, NoTask,
    Vram,         \* per worker: gpu_vram_gb, 0 without CUDA
    Admits,       \* per worker: tasks whose other capability columns it meets
    FirstFloor,   \* per task: minimum_vram_gb when it is created
    BlindFloor,   \* the floor asked for when no card was seen: 12 GB
    Budget,       \* finalization_max_requeues
    Digests,      \* what a grow may produce
    NoDigest,
    MaxAttempts,  \* bound on the attempts of one task
    MaxClaims     \* bound on the attempts of all tasks

Numbers  == 1 .. MaxAttempts
Attempts == Tasks \X Numbers

ASSUME SegmentTasksAssumption ==
    /\ NoTask \notin Tasks
    /\ Vram \in [Workers -> Nat]
    /\ Admits \in [Workers -> SUBSET Tasks]
    /\ FirstFloor \in [Tasks -> Nat]
    /\ BlindFloor \in Nat \ {0}
    /\ Budget \in Nat
    /\ NoDigest \notin Digests
    /\ MaxAttempts \in Nat
    /\ MaxClaims \in Nat

VARIABLES
    \* the row of segment_tasks; `latest` is MAX(attempt_number), and the token
    \* is named by the attempt it was drawn for
    state, active, token, lapsed, held, floor, latest,
    \* the rows of segment_attempts: state, worker_id, and whether the result
    \* names the very outage its recovery asks for
    attempt, by, excused,
    \* the row of segment_artifact_sets, and segment_surfaces by digest
    upload, surface,
    \* the worker: where run_one is, what it claimed and what it grew
    pc, task, number, grown

taskVars    == <<state, active, token, lapsed, held, floor, latest>>
attemptVars == <<attempt, by, excused>>
storeVars   == <<upload, surface>>
workerVars  == <<pc, task, number, grown>>
vars == <<taskVars, attemptVars, storeVars, workerVars>>

ActiveStates == {"CLAIMED", "PLANNING", "LOCKED_READY", "RUNNING", "UPLOADED", "FINALIZING"}

\* QC_PENDING stands for FIXTURE_ONLY as well.
Outcomes == {"QC_PENDING", "DUPLICATE_SURFACE"}
Refusals == {"POLICY_REJECTED", "BLOCKED_SOURCE_UNAVAILABLE", "NO_SEED", "GROW_FAILED",
             "FINALIZATION_FAILED"}
Terminal == Outcomes \cup Refusals

\* The refusals an operator may recover, one command each.
Recoverable == {"POLICY_REJECTED", "BLOCKED_SOURCE_UNAVAILABLE", "FINALIZATION_FAILED"}

\* How an attempt ends without ending its task.
Returned == {"LEASE_EXPIRED", "RETRYABLE_SOURCE_UNAVAILABLE", "RETRYABLE_PROVIDER_UNAVAILABLE",
             "RETRYABLE_FINALIZATION_UNAVAILABLE", "RETRY_ON_LARGER_GPU", "RECOVERED"}

Places == {"idle", "claimed", "planning", "locked", "growing", "grown", "uploaded",
           "finalizing", "excusing"}

NoAttempt == 0

Init ==
    /\ state = [t \in Tasks |-> "PENDING"]
    /\ active = [t \in Tasks |-> NoAttempt]
    /\ token = [t \in Tasks |-> NoAttempt]
    /\ lapsed = [t \in Tasks |-> FALSE]
    /\ held = [t \in Tasks |-> FALSE]
    /\ floor = FirstFloor
    /\ latest = [t \in Tasks |-> NoAttempt]
    /\ attempt = [a \in Attempts |-> "none"]
    /\ by \in [Attempts -> Workers] /\ \A a, b \in Attempts : by[a] = by[b]
    /\ excused = [a \in Attempts |-> FALSE]
    /\ upload = [a \in Attempts |-> "none"]
    /\ surface = [d \in Digests |-> NoTask]
    /\ pc = [w \in Workers |-> "idle"]
    /\ task = [w \in Workers |-> NoTask]
    /\ number = [w \in Workers |-> NoAttempt]
    /\ grown = [w \in Workers |-> NoDigest]

-----------------------------------------------------------------------------
(* claim. *)

Lapse(t) ==
    /\ state[t] \in ActiveStates /\ ~lapsed[t]
    /\ lapsed' = [lapsed EXCEPT ![t] = TRUE]
    /\ UNCHANGED <<state, active, token, held, floor, latest, attemptVars, storeVars, workerVars>>

RetryDue(t) ==
    /\ held[t]
    /\ held' = [held EXCEPT ![t] = FALSE]
    /\ UNCHANGED <<state, active, token, lapsed, floor, latest, attemptVars, storeVars, workerVars>>

\* _expire_leases: every lapsed lease whose row is not locked by another.
Expired(locked) == {t \in Tasks \ locked : state[t] \in ActiveStates /\ lapsed[t]}

\* Mutant: the task goes back to the queue and its attempt stays as it was.
AttemptKept(a, expired) == attempt[a]

AttemptExpired(a, expired) ==
    IF a[1] \in expired /\ active[a[1]] = a[2] THEN "LEASE_EXPIRED" ELSE attempt[a]

Freed(f, expired, none) == [t \in Tasks |-> IF t \in expired THEN none ELSE f[t]]

\* Nothing w can take: the expiry is all that is committed.
ClaimNothing(w, locked) ==
    /\ pc[w] = "idle"
    /\ Expired(locked) # {}
    /\ state' = Freed(state, Expired(locked), "PENDING")
    /\ active' = Freed(active, Expired(locked), NoAttempt)
    /\ token' = Freed(token, Expired(locked), NoAttempt)
    /\ lapsed' = Freed(lapsed, Expired(locked), FALSE)
    /\ \A t \in Admits[w] \ locked : state'[t] # "PENDING" \/ held[t] \/ floor[t] > Vram[w]
    /\ attempt' = [a \in Attempts |-> AttemptExpired(a, Expired(locked))]
    /\ UNCHANGED <<held, floor, latest, by, excused, storeVars, workerVars>>

\* The bound on all attempts.
ClaimsLeft == Cardinality({a \in Attempts : attempt[a] # "none"}) < MaxClaims

\* A new attempt.  Locks may hide any row, so the first in priority order may
\* be any task that is ready.
Claim(w, t, locked) ==
    LET n == latest[t] + 1 IN
    /\ pc[w] = "idle"
    /\ t \in Admits[w] \ locked
    /\ state[t] = "PENDING" \/ t \in Expired(locked)
    /\ ~held[t] /\ floor[t] <= Vram[w]
    /\ n \in Numbers
    /\ ClaimsLeft
    /\ state' = [Freed(state, Expired(locked), "PENDING") EXCEPT ![t] = "CLAIMED"]
    /\ active' = [Freed(active, Expired(locked), NoAttempt) EXCEPT ![t] = n]
    /\ token' = [Freed(token, Expired(locked), NoAttempt) EXCEPT ![t] = n]
    /\ lapsed' = Freed(lapsed, Expired(locked), FALSE)
    /\ latest' = [latest EXCEPT ![t] = n]
    /\ attempt' = [a \in Attempts |->
                     IF a = <<t, n>> THEN "CLAIMED" ELSE AttemptExpired(a, Expired(locked))]
    /\ by' = [by EXCEPT ![<<t, n>>] = w]
    /\ pc' = [pc EXCEPT ![w] = "claimed"]
    /\ task' = [task EXCEPT ![w] = t]
    /\ number' = [number EXCEPT ![w] = n]
    /\ UNCHANGED <<held, floor, excused, storeVars, grown>>

-----------------------------------------------------------------------------
(* What the owner of a task may write. *)

Mine(w) == <<task[w], number[w]>>

\* Mutant: whoever was handed the attempt, the token forgotten.
OwnsAttempt(w) == task[w] \in Tasks /\ attempt[Mine(w)] # "none"

\* _assert_owner
Owns(w) == task[w] \in Tasks /\ active[task[w]] = number[w] /\ token[task[w]] = number[w]

\* LeaseHeartbeat
Heartbeat(w) ==
    /\ Owns(w) /\ state[task[w]] \in ActiveStates
    /\ lapsed' = [lapsed EXCEPT ![task[w]] = FALSE]
    /\ UNCHANGED <<state, active, token, held, floor, latest, attemptVars, storeVars, workerVars>>

\* Task and attempt move together.
Write(w, taskState, attemptState) ==
    /\ Owns(w)
    /\ state' = [state EXCEPT ![task[w]] = taskState]
    /\ attempt' = [attempt EXCEPT ![Mine(w)] = attemptState]

\* Mutant: the worker goes idle with the task still in hand.
LeaveInHand(w) ==
    /\ pc' = [pc EXCEPT ![w] = "idle"]
    /\ UNCHANGED <<task, number, grown>>

LeaveTask(w) ==
    /\ pc' = [pc EXCEPT ![w] = "idle"]
    /\ task' = [task EXCEPT ![w] = NoTask]
    /\ number' = [number EXCEPT ![w] = NoAttempt]
    /\ grown' = [grown EXCEPT ![w] = NoDigest]

\* transition, and the worker's next place
Transition(w, from, st, to) ==
    /\ pc[w] = from
    /\ Write(w, st, st)
    /\ pc' = [pc EXCEPT ![w] = to]
    /\ UNCHANGED <<active, token, lapsed, held, floor, latest, by, excused, task, number, grown>>

\* A terminal write takes the token and the deadline; the attempt stays active.
Ends(w, st) ==
    /\ Write(w, st, st)
    /\ token' = [token EXCEPT ![task[w]] = NoAttempt]
    /\ lapsed' = [lapsed EXCEPT ![task[w]] = FALSE]
    /\ UNCHANGED <<active, held, latest, by, floor>>

\* mark_terminal; `exact` is whether the result names a recoverable outage
MarkTerminal(w, st, exact) ==
    /\ Ends(w, st)
    /\ excused' = [excused EXCEPT ![Mine(w)] = exact]
    /\ LeaveTask(w)
    /\ UNCHANGED storeVars

\* The task returns to the queue, its attempt over.
Returns(w, st) ==
    /\ Write(w, "PENDING", st)
    /\ active' = [active EXCEPT ![task[w]] = NoAttempt]
    /\ token' = [token EXCEPT ![task[w]] = NoAttempt]
    /\ lapsed' = [lapsed EXCEPT ![task[w]] = FALSE]
    /\ LeaveTask(w)
    /\ UNCHANGED <<latest, by, excused, storeVars>>

\* _requeue_unavailable
Requeue(w, st) ==
    /\ Returns(w, st)
    /\ held' = [held EXCEPT ![task[w]] = TRUE]
    /\ UNCHANGED floor

-----------------------------------------------------------------------------
(* SegmentWorker.run_one. *)

StartPlanning(w) == Transition(w, "claimed", "PLANNING", "planning") /\ UNCHANGED storeVars

\* No candidate source is read: the directory exists, or the contract is wrong.
RefuseClaim(w) == pc[w] = "claimed" /\ MarkTerminal(w, "POLICY_REJECTED", FALSE)

SourceUnavailable(w) == pc[w] = "planning" /\ Requeue(w, "RETRYABLE_SOURCE_UNAVAILABLE")

ProviderUnavailable(w) == pc[w] = "planning" /\ Requeue(w, "RETRYABLE_PROVIDER_UNAVAILABLE")

PlanningEnds(w) ==
    /\ pc[w] = "planning"
    /\ \/ MarkTerminal(w, "NO_SEED", FALSE)
       \/ \E st \in {"BLOCKED_SOURCE_UNAVAILABLE", "POLICY_REJECTED"}, exact \in BOOLEAN :
             MarkTerminal(w, st, exact)

LockPlan(w) == Transition(w, "planning", "LOCKED_READY", "locked") /\ UNCHANGED storeVars

StartGrowing(w) == Transition(w, "locked", "RUNNING", "growing") /\ UNCHANGED storeVars

\* Mutant: the next worker may be as small as this one.
NextFloorSame(w) == IF Vram[w] > 0 THEN Vram[w] ELSE BlindFloor

\* More than this worker's card had, or the first floor worth asking for.
NextFloor(w) == IF Vram[w] > 0 THEN Vram[w] + 1 ELSE BlindFloor

\* requeue_for_larger_gpu
LargerGpu(w) ==
    /\ pc[w] = "growing"
    /\ Returns(w, "RETRY_ON_LARGER_GPU")
    /\ floor' = [floor EXCEPT ![task[w]] = IF @ > NextFloor(w) THEN @ ELSE NextFloor(w)]
    /\ held' = [held EXCEPT ![task[w]] = FALSE]

GrowFails(w) == pc[w] = "growing" /\ MarkTerminal(w, "GROW_FAILED", FALSE)

Grow(w, d) ==
    /\ pc[w] = "growing"
    /\ grown' = [grown EXCEPT ![w] = d]
    /\ pc' = [pc EXCEPT ![w] = "grown"]
    /\ UNCHANGED <<taskVars, attemptVars, storeVars, task, number>>

\* add_artifact_set
Upload(w) ==
    /\ Transition(w, "grown", "UPLOADED", "uploaded")
    /\ upload' = [upload EXCEPT ![Mine(w)] = "UPLOADED"]
    /\ UNCHANGED surface

StartFinalizing(w) == Transition(w, "uploaded", "FINALIZING", "finalizing") /\ UNCHANGED storeVars

\* find_duplicate_in_surfaces, under the lock of the source snapshot
Outcome(d) == IF surface[d] = NoTask THEN "QC_PENDING" ELSE "DUPLICATE_SURFACE"

\* validate_finalization_evidence
Evident(w) == /\ state[task[w]] = "FINALIZING" /\ attempt[Mine(w)] = "FINALIZING"
              /\ upload[Mine(w)] = "UPLOADED"

\* The transaction of finalize.
Registers(w) ==
    LET d == grown[w] IN
    /\ pc[w] = "finalizing" /\ Evident(w)
    /\ Ends(w, Outcome(d))
    /\ upload' = [upload EXCEPT ![Mine(w)] =
                    IF surface[d] = NoTask THEN "PROMOTED" ELSE "DUPLICATE"]
    /\ surface' = [surface EXCEPT ![d] = IF @ = NoTask THEN task[w] ELSE @]
    /\ UNCHANGED excused

Finalize(w) == Registers(w) /\ LeaveTask(w)

Publishing == {"grown", "uploaded", "finalizing"}

\* A transient outage while publishing, before the call or after its commit.
Outage(w) ==
    /\ pc[w] \in Publishing
    /\ pc' = [pc EXCEPT ![w] = "excusing"]
    /\ UNCHANGED <<taskVars, attemptVars, storeVars, task, number, grown>>

FinalizeUnheard(w) ==
    /\ Registers(w)
    /\ pc' = [pc EXCEPT ![w] = "excusing"]
    /\ UNCHANGED <<task, number, grown>>

FinalizationRetries(t) ==
    Cardinality({n \in Numbers : attempt[<<t, n>>] = "RETRYABLE_FINALIZATION_UNAVAILABLE"})

\* Mutant: the budget is compared one late.
WithinBudgetLate(t) == FinalizationRetries(t) <= Budget

WithinBudget(t) == FinalizationRetries(t) < Budget

\* requeue_finalization_unavailable, and what follows when it answers no.
ExcuseFinalization(w) ==
    /\ pc[w] = "excusing"
    /\ IF WithinBudget(task[w])
       THEN Requeue(w, "RETRYABLE_FINALIZATION_UNAVAILABLE")
       ELSE /\ Ends(w, "FINALIZATION_FAILED") /\ LeaveTask(w)
            /\ UNCHANGED <<excused, storeVars>>

\* Any other error while publishing.
FinalizationFails(w) ==
    /\ pc[w] \in Publishing
    /\ \E exact \in BOOLEAN : MarkTerminal(w, "FINALIZATION_FAILED", exact)

\* The process dies, ensure() finds the heartbeat dead, or a store call finds
\* the lease lost and raises out of run_one.
Abandon(w) ==
    /\ pc[w] # "idle"
    /\ LeaveTask(w)
    /\ UNCHANGED <<taskVars, attemptVars, storeVars>>

-----------------------------------------------------------------------------
(* The operator. *)

\* The result of the attempt is exactly the outage the command recovers.
Exact(a) == excused[a]

\* recover_terminal_provider_outage, ..._mcp_auth_outage, ..._finalizer_dependency
Recover(a) ==
    /\ state[a[1]] \in Recoverable /\ attempt[a] = state[a[1]]
    /\ Exact(a)
    /\ state' = [state EXCEPT ![a[1]] = "PENDING"]
    /\ active' = [active EXCEPT ![a[1]] = NoAttempt]
    /\ token' = [token EXCEPT ![a[1]] = NoAttempt]
    /\ lapsed' = [lapsed EXCEPT ![a[1]] = FALSE]
    /\ held' = [held EXCEPT ![a[1]] = TRUE]
    /\ attempt' = [attempt EXCEPT ![a] = "RECOVERED"]
    /\ UNCHANGED <<floor, latest, by, excused, storeVars, workerVars>>

-----------------------------------------------------------------------------
WorkerStep(w) ==
    \/ \E locked \in SUBSET Tasks :
         ClaimNothing(w, locked) \/ \E t \in Tasks : Claim(w, t, locked)
    \/ Heartbeat(w)
    \/ StartPlanning(w) \/ RefuseClaim(w)
    \/ SourceUnavailable(w) \/ ProviderUnavailable(w) \/ PlanningEnds(w) \/ LockPlan(w)
    \/ StartGrowing(w) \/ LargerGpu(w) \/ GrowFails(w) \/ \E d \in Digests : Grow(w, d)
    \/ Upload(w) \/ StartFinalizing(w) \/ Finalize(w)
    \/ Outage(w) \/ FinalizeUnheard(w) \/ ExcuseFinalization(w) \/ FinalizationFails(w)
    \/ Abandon(w)

Next == \/ \E w \in Workers : WorkerStep(w)
        \/ \E t \in Tasks : Lapse(t) \/ RetryDue(t)
        \/ \E a \in Attempts : Recover(a)

Spec == Init /\ [][Next]_vars

-----------------------------------------------------------------------------
(* Properties. *)

\* Every variable keeps its type, and a worker has a task exactly when it is
\* not idle.
TypeOK ==
    /\ state \in [Tasks -> {"PENDING"} \cup ActiveStates \cup Terminal]
    /\ active \in [Tasks -> Numbers \cup {NoAttempt}]
    /\ token \in [Tasks -> Numbers \cup {NoAttempt}]
    /\ lapsed \in [Tasks -> BOOLEAN]
    /\ held \in [Tasks -> BOOLEAN]
    /\ floor \in [Tasks -> Nat]
    /\ latest \in [Tasks -> Numbers \cup {NoAttempt}]
    /\ attempt \in [Attempts -> {"none"} \cup ActiveStates \cup Terminal \cup Returned]
    /\ by \in [Attempts -> Workers]
    /\ excused \in [Attempts -> BOOLEAN]
    /\ upload \in [Attempts -> {"none", "UPLOADED", "PROMOTED", "DUPLICATE"}]
    /\ surface \in [Digests -> Tasks \cup {NoTask}]
    /\ pc \in [Workers -> Places]
    /\ task \in [Workers -> Tasks \cup {NoTask}]
    /\ number \in [Workers -> Numbers \cup {NoAttempt}]
    /\ grown \in [Workers -> Digests \cup {NoDigest}]
    /\ \A w \in Workers : IF pc[w] = "idle" THEN task[w] = NoTask
                          ELSE task[w] \in Tasks /\ number[w] \in Numbers

\* The two tables agree, through expiries, requeues, late writes and
\* recoveries: a task that is active or ended is so by its latest attempt,
\* which says the same, and every other attempt is over without having ended
\* the task.
AttemptsMirrorTask ==
    \A t \in Tasks, n \in Numbers :
        /\ n = active[t] => n = latest[t] /\ attempt[<<t, n>>] = state[t]
        /\ n # active[t] /\ n <= latest[t] => attempt[<<t, n>>] \in Returned
        /\ n > latest[t] => attempt[<<t, n>>] = "none"

\* A catalogue row comes from exactly one attempt: the one its task ended with,
\* whose artifact set it promoted.  No other artifact set of that task, from an
\* attempt that was lost, requeued or recovered, is ever promoted or compared.
SurfaceFromLastAttempt ==
    /\ \A d \in Digests : surface[d] # NoTask =>
         /\ state[surface[d]] = "QC_PENDING"
         /\ upload[<<surface[d], latest[surface[d]]>>] = "PROMOTED"
    /\ \A t \in Tasks, n \in Numbers : upload[<<t, n>>] \in {"PROMOTED", "DUPLICATE"} =>
         n = latest[t] /\ state[t] \in Outcomes
    /\ \A c, d \in Digests : surface[c] # NoTask /\ surface[c] = surface[d] => c = d

\* Transient outages while publishing return a task at most `Budget` times in
\* its life, across attempts and recoveries (requeue_finalization_unavailable).
RetriesWithinBudget == \A t \in Tasks : FinalizationRetries(t) <= Budget

\* A worker whose card ran out of memory on a task is too small for it from
\* then on (requeue_for_larger_gpu, claim's minimum_vram_gb).
OutgrownForGood ==
    \A a \in Attempts : attempt[a] = "RETRY_ON_LARGER_GPU" => Vram[by[a]] < floor[a[1]]

\* Of the ways a task is returned, two are held in check: requeues for publishing
\* are counted for the life of the task, and those for a larger card go to ever
\* larger cards.  Provider and source requeues and lapses have no limit in the code.
RequeuesAreLimited == RetriesWithinBudget /\ OutgrownForGood

\* A task that ended leaves its end only if its result was the exact outage a
\* recovery names; a task with a surface never does.
EndsAreFinal ==
    [][\A t \in Tasks : state[t] \in Terminal /\ state'[t] # state[t] =>
         /\ state[t] \in Recoverable
         /\ state'[t] = "PENDING"
         /\ excused[<<t, latest[t]>>]]_vars

\* What a later attempt replaced is history: no late write, recovery or expiry
\* changes its row, its worker, its result or its artifact set again.
PastIsFixed ==
    [][\A t \in Tasks, n \in Numbers : n < latest[t] =>
         UNCHANGED <<attempt[<<t, n>>], by[<<t, n>>], excused[<<t, n>>], upload[<<t, n>>]>>]_vars

LastState(t) ==
    LET st == attempt[<<t, latest[t]>>] IN
    IF latest[t] = NoAttempt THEN "none" ELSE IF st \in ActiveStates THEN "held" ELSE st

Lifecycle == INSTANCE AttemptLifecycle WITH
    number <- latest,
    state <- [t \in Tasks |-> LastState(t)],
    EndStates <- Terminal,
    Reopenable <- Recoverable,
    Requeues <- Returned \ {"LEASE_EXPIRED", "RECOVERED"},
    Lapsed <- "LEASE_EXPIRED",
    Recovered <- "RECOVERED"

\* The task queue keeps the promises of AttemptLifecycle: attempts one after the
\* other, only the last one held, held once, and ends that are final but for the
\* recoverable ones, whose attempt never comes back.
KeepsLifecycle == Lifecycle!Spec
=============================================================================
