----------------------------- MODULE PhaseQueue -----------------------------
(***************************************************************************)
(* The queue that runs phases P2..P9: `InkJobStore`, the table ink_jobs    *)
(* and its leases (src/framework/stages/03-ink/fleet/job_store.py), the    *)
(* worker process that drains it (ink_worker.py) and the panel's cancel    *)
(* route (src/panel/app.py).                                               *)
(*                                                                         *)
(* Every store method is one PostgreSQL transaction and one action here.   *)
(* What a worker does between two store calls is a step of its own, so the *)
(* lease may lapse, another worker may claim, the panel may cancel and the *)
(* process may die in between.                                             *)
(*                                                                         *)
(* Jobs are numbered in the order they are enqueued (created_at).  A lease *)
(* token is 24 random bytes; the model names it by the attempt that drew   *)
(* it, which is as unique.                                                 *)
(***************************************************************************)
EXTENDS Integers, FiniteSets

CONSTANTS
    NumJobs,      \* jobs ever enqueued
    Workers,      \* ink worker processes
    NoWorker,     \* worker_id IS NULL
    LaneImages,   \* images some lane asks for: lane_runtime_images()
    AnyImage,     \* a lane that declares no image
    Unlabelled,   \* a worker whose HELENA_RUNTIME_IMAGE is unset
    Needs,        \* runtime_image_for, per job
    Runtime,      \* RUNTIME_IMAGE, per worker
    Admits,       \* per worker: jobs whose host, phase and GPU columns it meets
    Priority,     \* ink_jobs.priority, per job
    Ceiling,      \* ink_jobs.max_attempts, per job
    Window,       \* CLAIM_CANDIDATES
    Unruly        \* jobs whose lineage or route may change after admission

Jobs == 1 .. NumJobs

ASSUME PhaseQueueAssumption ==
    /\ NumJobs \in Nat
    /\ NoWorker \notin Workers
    /\ AnyImage \notin LaneImages /\ Unlabelled \notin LaneImages
    /\ Needs \in [Jobs -> LaneImages \cup {AnyImage}]
    /\ DOMAIN Runtime = Workers
    /\ Admits \in [Workers -> SUBSET Jobs]
    /\ Priority \in [Jobs -> Int]
    /\ Ceiling \in [Jobs -> Nat]
    /\ Window \in Nat
    /\ Unruly \subseteq Jobs

VARIABLES
    \* the row of ink_jobs
    state, leaseToken, lapsed, workerId, attempts, cancelRequested,
    \* what the lineage and routing guards would answer about its surface now
    standing,
    \* the worker: where run_job is, which job and token it was handed, whether
    \* its heartbeat thread lives, whether that thread heard a cancellation,
    \* and the state it is about to report
    pc, job, token, beating, heard, verdict,
    \* jobs whose api_cancel is between cancel() and request_cancel()
    asking

rowVars == <<state, leaseToken, lapsed, workerId, attempts, cancelRequested>>
workerVars == <<pc, job, token, beating, heard, verdict>>
vars == <<rowVars, standing, workerVars, asking>>

Active    == {"leased", "running"}
Terminal  == {"succeeded", "failed", "cancelled"}
JobStates == {"absent", "pending"} \cup Active \cup Terminal

\* "controlled" is a mission that came under campaign control with no lineage
\* for this surface: the lineage guard refuses it.  "diagnostic" is a surface
\* re-measured below the area floor: only the route guard refuses it.
Standings == {"good", "controlled", "diagnostic"}

\* claimed: run_job entered.  preparing: both guards passed.  running: the
\* child runs.  reporting: it ended and finish() is next.  excusing: the
\* except branch is about to finish() the job as failed.  down: the process is
\* gone.
Idle    == {"polling", "down"}
Settling == {"reporting", "excusing"}
Places  == Idle \cup {"claimed", "preparing", "running"} \cup Settling

NoJob    == 0
NoToken  == 0

Init ==
    /\ state = [j \in Jobs |-> "absent"]
    /\ leaseToken = [j \in Jobs |-> NoToken]
    /\ lapsed = [j \in Jobs |-> FALSE]
    /\ workerId = [j \in Jobs |-> NoWorker]
    /\ attempts = [j \in Jobs |-> 0]
    /\ cancelRequested = [j \in Jobs |-> FALSE]
    /\ standing = [j \in Jobs |-> "good"]
    /\ pc = [w \in Workers |-> "polling"]
    /\ job = [w \in Workers |-> NoJob]
    /\ token = [w \in Workers |-> NoToken]
    /\ beating = [w \in Workers |-> FALSE]
    /\ heard = [w \in Workers |-> FALSE]
    /\ verdict = [w \in Workers |-> "none"]
    /\ asking = {}

-----------------------------------------------------------------------------
(* What the store's statements read. *)

\* WHERE lease_token_hash = %s: the row still carries the token w was handed.
Holds(w) == job[w] \in Jobs /\ leaseToken[job[w]] = token[w]

\* ORDER BY priority DESC, created_at
Before(i, j) == \/ Priority[i] > Priority[j]
                \/ Priority[i] = Priority[j] /\ i < j

\* Mutant: the rule before specialists, "anything that needs no other image".
RunnableByAnyone(w, j) == Runtime[w] = Unlabelled \/ Needs[j] \in {AnyImage, Runtime[w]}

\* _runnable_candidate: a specialist takes its own lane and nothing else.
Runnable(w, j) ==
    \/ Runtime[w] = Unlabelled
    \/ Needs[j] = Runtime[w]
    \/ Needs[j] = AnyImage /\ Runtime[w] \notin LaneImages

\* require_runtime, at execution: quiet on a worker that carries no label.
RuntimeAccepts(w, j) == Runtime[w] = Unlabelled \/ Needs[j] \in {AnyImage, Runtime[w]}

\* Mutant: only a lease that was never marked running comes back.
RecycledLeased(locked) == {j \in Jobs \ locked : state[j] = "leased" /\ lapsed[j]}

\* The rows claim() recycles: every expired lease it can lock.
Recycled(locked) == {j \in Jobs \ locked : state[j] \in Active /\ lapsed[j]}

\* The candidate rows: pending, claimable by w, not locked by another
\* transaction, the first Window of them.
Candidates(w, locked) ==
    LET open == {j \in Admits[w] \ locked :
                    state[j] = "pending" \/ j \in Recycled(locked)}
    IN  {j \in open : Cardinality({i \in open : Before(i, j)}) < Window}

\* The row claim() settles on: the first candidate this worker's image can run.
Chosen(w, locked) ==
    {j \in Candidates(w, locked) :
        /\ Runnable(w, j)
        /\ \A i \in Candidates(w, locked) : Runnable(w, i) => ~Before(i, j)}

-----------------------------------------------------------------------------
(* Panel. *)

\* enqueue(): a controlled mission without lineage is refused at admission.
Enqueue(j) ==
    /\ state[j] = "absent"
    /\ \A i \in Jobs : i < j => state[i] # "absent" \/ standing[i] = "controlled"
    /\ standing[j] # "controlled"
    /\ state' = [state EXCEPT ![j] = "pending"]
    /\ UNCHANGED <<leaseToken, lapsed, workerId, attempts, cancelRequested,
                   standing, workerVars, asking>>

\* api_cancel, first call: cancel() ends a job that is still pending.
CancelQueued(j) ==
    /\ state[j] = "pending"
    /\ j \notin asking
    /\ state' = [state EXCEPT ![j] = "cancelled"]
    /\ UNCHANGED <<leaseToken, lapsed, workerId, attempts, cancelRequested,
                   standing, workerVars, asking>>

\* cancel() answered no; api_cancel goes on to request_cancel().
CancelMissed(j) ==
    /\ state[j] \notin {"absent", "pending"}
    /\ j \notin asking
    /\ asking' = asking \cup {j}
    /\ UNCHANGED <<rowVars, standing, workerVars>>

\* api_cancel, second call: write the request down for the holder (202).
RequestCancel(j) ==
    /\ j \in asking
    /\ state[j] \in Active
    /\ ~cancelRequested[j]
    /\ cancelRequested' = [cancelRequested EXCEPT ![j] = TRUE]
    /\ asking' = asking \ {j}
    /\ UNCHANGED <<state, leaseToken, lapsed, workerId, attempts, standing,
                   workerVars>>

\* ... or find nothing to ask (409).
CancelConflict(j) ==
    /\ j \in asking
    /\ state[j] \notin Active \/ cancelRequested[j]
    /\ asking' = asking \ {j}
    /\ UNCHANGED <<rowVars, standing, workerVars>>

-----------------------------------------------------------------------------
(* claim(): one transaction that recycles and then takes at most one row.   *)
(* `locked` is what FOR UPDATE SKIP LOCKED steps over.                      *)

\* Mutant: recycling leaves the old token on the row.
RecycleKeepsToken(rows) ==
    /\ lapsed' = [j \in Jobs |-> IF j \in rows THEN FALSE ELSE lapsed[j]]
    /\ workerId' = [j \in Jobs |-> IF j \in rows THEN NoWorker ELSE workerId[j]]
    /\ UNCHANGED leaseToken

\* The row a recycled lease leaves behind.
RecycleRows(rows) ==
    /\ leaseToken' = [j \in Jobs |-> IF j \in rows THEN NoToken ELSE leaseToken[j]]
    /\ lapsed' = [j \in Jobs |-> IF j \in rows THEN FALSE ELSE lapsed[j]]
    /\ workerId' = [j \in Jobs |-> IF j \in rows THEN NoWorker ELSE workerId[j]]

\* No candidate this worker can run: the recycling is all that is committed.
ClaimNothing(w, locked) ==
    /\ pc[w] = "polling"
    /\ Chosen(w, locked) = {}
    /\ Recycled(locked) # {}
    /\ state' = [j \in Jobs |-> IF j \in Recycled(locked) THEN "pending" ELSE state[j]]
    /\ RecycleRows(Recycled(locked))
    /\ UNCHANGED <<attempts, cancelRequested, standing, workerVars, asking>>

\* A chosen row the lineage check refuses raises: the whole transaction rolls
\* back, the recycling with it, and the worker sleeps.  No action: nothing
\* changes.
Admitted(j) == standing[j] # "controlled"

Spent(j) == attempts[j] >= Ceiling[j]

\* Mutant: a token that names the job and not the claim.
TokenOfJob(j) == 1

FreshToken(j) == attempts[j] + 1

\* Every attempt is spent: LEASE_EXHAUSTION.
ClaimExhausted(w, locked) ==
    /\ pc[w] = "polling"
    /\ \E j \in Chosen(w, locked) :
        /\ Admitted(j)
        /\ Spent(j)
        /\ state' = [i \in Jobs |-> IF i = j THEN "failed"
                                    ELSE IF i \in Recycled(locked) THEN "pending"
                                    ELSE state[i]]
    /\ RecycleRows(Recycled(locked))
    /\ UNCHANGED <<attempts, cancelRequested, standing, workerVars, asking>>

ClaimJob(w, locked) ==
    /\ pc[w] = "polling"
    /\ \E j \in Chosen(w, locked) :
        /\ Admitted(j)
        /\ ~Spent(j)
        /\ state' = [i \in Jobs |-> IF i = j THEN "leased"
                                    ELSE IF i \in Recycled(locked) THEN "pending"
                                    ELSE state[i]]
        /\ leaseToken' = [i \in Jobs |-> IF i = j THEN FreshToken(j)
                                         ELSE IF i \in Recycled(locked) THEN NoToken
                                         ELSE leaseToken[i]]
        /\ workerId' = [i \in Jobs |-> IF i = j THEN w
                                       ELSE IF i \in Recycled(locked) THEN NoWorker
                                       ELSE workerId[i]]
        /\ lapsed' = [i \in Jobs |-> lapsed[i] /\ i # j /\ i \notin Recycled(locked)]
        /\ attempts' = [attempts EXCEPT ![j] = @ + 1]
        /\ job' = [job EXCEPT ![w] = j]
        /\ token' = [token EXCEPT ![w] = FreshToken(j)]
    /\ pc' = [pc EXCEPT ![w] = "claimed"]
    /\ UNCHANGED <<cancelRequested, standing, beating, heard, verdict, asking>>

Claim(w, locked) ==
    \/ ClaimNothing(w, locked)
    \/ ClaimExhausted(w, locked)
    \/ ClaimJob(w, locked)

-----------------------------------------------------------------------------
(* run_job(). *)

\* Mutant: what one run heard is still there for the next.
LeaveJobHeard(w, place) ==
    /\ pc' = [pc EXCEPT ![w] = place]
    /\ job' = [job EXCEPT ![w] = NoJob]
    /\ token' = [token EXCEPT ![w] = NoToken]
    /\ beating' = [beating EXCEPT ![w] = FALSE]
    /\ verdict' = [verdict EXCEPT ![w] = "none"]
    /\ UNCHANGED heard

\* run_job returns, or the process exits: the local variables go with it.
LeaveJob(w, place) ==
    /\ pc' = [pc EXCEPT ![w] = place]
    /\ job' = [job EXCEPT ![w] = NoJob]
    /\ token' = [token EXCEPT ![w] = NoToken]
    /\ beating' = [beating EXCEPT ![w] = FALSE]
    /\ heard' = [heard EXCEPT ![w] = FALSE]
    /\ verdict' = [verdict EXCEPT ![w] = "none"]

\* Mutant: a state the CHECK constraint does not know.
FinishDone(w, final) ==
    /\ state' = [state EXCEPT ![job[w]] = "done"]
    /\ leaseToken' = [leaseToken EXCEPT ![job[w]] = NoToken]
    /\ lapsed' = [lapsed EXCEPT ![job[w]] = FALSE]
    /\ UNCHANGED <<workerId, attempts, cancelRequested>>

\* finish(): keyed by the token alone.
FinishRow(w, final) ==
    /\ state' = [state EXCEPT ![job[w]] = final]
    /\ leaseToken' = [leaseToken EXCEPT ![job[w]] = NoToken]
    /\ lapsed' = [lapsed EXCEPT ![job[w]] = FALSE]
    /\ UNCHANGED <<workerId, attempts, cancelRequested>>

\* Mutant: the row is written whoever holds it.
FinishUnkeyed(w, final) == FinishRow(w, final) /\ LeaveJob(w, "polling")

\* finish() when the token is still on the row, and when it is not: the
\* RuntimeError leaves run_job, main() does not catch it, the process exits.
Finish(w, final) ==
    \/ Holds(w) /\ FinishRow(w, final) /\ LeaveJob(w, "polling")
    \/ ~Holds(w) /\ LeaveJob(w, "down") /\ UNCHANGED rowVars

\* lineage_guard and route_guard, asked from the row as it is now.
GuardsPass(w) ==
    /\ pc[w] = "claimed"
    /\ standing[job[w]] = "good"
    /\ pc' = [pc EXCEPT ![w] = "preparing"]
    /\ UNCHANGED <<rowVars, standing, job, token, beating, heard, verdict, asking>>

\* A refusal raises above the try: no finish(), the lease stays on the row.
GuardsRefuse(w) ==
    /\ pc[w] = "claimed"
    /\ standing[job[w]] # "good"
    /\ LeaveJob(w, "down")
    /\ UNCHANGED <<rowVars, standing, asking>>

\* An input, a runtime or a command that cannot be resolved.
PrepareFails(w) ==
    /\ pc[w] = "preparing"
    /\ Finish(w, "failed")
    /\ UNCHANGED <<standing, asking>>

\* mark_running(), then the heartbeat thread and the child are started.
MarkRunning(w) ==
    /\ pc[w] = "preparing"
    /\ RuntimeAccepts(w, job[w])
    /\ Holds(w)
    /\ state[job[w]] = "leased"
    /\ state' = [state EXCEPT ![job[w]] = "running"]
    /\ pc' = [pc EXCEPT ![w] = "running"]
    /\ beating' = [beating EXCEPT ![w] = TRUE]
    /\ UNCHANGED <<leaseToken, lapsed, workerId, attempts, cancelRequested,
                   standing, job, token, heard, verdict, asking>>

\* mark_running() finds the lease gone and raises outside the try.
MarkRunningLost(w) ==
    /\ pc[w] = "preparing"
    /\ RuntimeAccepts(w, job[w])
    /\ ~Holds(w) \/ state[job[w]] # "leased"
    /\ LeaveJob(w, "down")
    /\ UNCHANGED <<rowVars, standing, asking>>

\* The heartbeat thread lives from mark_running until run_job's finally.
BeatAlive(w) == pc[w] \in {"running"} \cup Settling /\ beating[w]

\* heartbeat(): renew the lease, and hear whether a stop was asked for.  The
\* thread ends once it has acted on a stop.
Beat(w) ==
    /\ BeatAlive(w)
    /\ Holds(w)
    /\ state[job[w]] \in Active
    /\ lapsed' = [lapsed EXCEPT ![job[w]] = FALSE]
    /\ heard' = [heard EXCEPT ![w] = heard[w] \/ cancelRequested[job[w]]]
    /\ beating' = [beating EXCEPT ![w] = ~cancelRequested[job[w]]]
    /\ UNCHANGED <<state, leaseToken, workerId, attempts, cancelRequested,
                   standing, pc, job, token, verdict, asking>>

\* The lease is no longer held, or the database is unreachable: the thread
\* ends and the child keeps running.
BeatEnds(w) ==
    /\ BeatAlive(w)
    /\ beating' = [beating EXCEPT ![w] = FALSE]
    /\ UNCHANGED <<rowVars, standing, pc, job, token, heard, verdict, asking>>

\* The child ends and run_job decides what to report; a heard cancellation
\* outranks whatever the exit code says.
ChildEnds(w, outcome) ==
    /\ pc[w] = "running"
    /\ pc' = [pc EXCEPT ![w] = "reporting"]
    /\ verdict' = [verdict EXCEPT ![w] = IF heard[w] THEN "cancelled" ELSE outcome]
    /\ UNCHANGED <<rowVars, standing, job, token, beating, heard, asking>>

\* The job timeout kills the child, or reading what it left behind raises.
ChildErrs(w) ==
    /\ pc[w] = "running"
    /\ pc' = [pc EXCEPT ![w] = "excusing"]
    /\ verdict' = [verdict EXCEPT ![w] = "failed"]
    /\ UNCHANGED <<rowVars, standing, job, token, beating, heard, asking>>

\* The finish() at the end of the try, or the one in its except branch.
Report(w) ==
    /\ pc[w] \in Settling
    /\ Finish(w, verdict[w])
    /\ UNCHANGED <<standing, asking>>

\* finish() loses its connection, before the commit or after it: the except
\* branch reports the job as failed instead.
ReportBlips(w) ==
    /\ pc[w] = "reporting"
    /\ \/ UNCHANGED rowVars
       \/ Holds(w) /\ FinishRow(w, verdict[w])
    /\ pc' = [pc EXCEPT ![w] = "excusing"]
    /\ verdict' = [verdict EXCEPT ![w] = "failed"]
    /\ UNCHANGED <<standing, job, token, beating, heard, asking>>

-----------------------------------------------------------------------------
(* The world around it. *)

\* The process or its host dies with a job in hand; the child dies with it.
Crash(w) ==
    /\ pc[w] \notin Idle
    /\ LeaveJob(w, "down")
    /\ UNCHANGED <<rowVars, standing, asking>>

\* restart: unless-stopped
Restart(w) ==
    /\ pc[w] = "down"
    /\ pc' = [pc EXCEPT ![w] = "polling"]
    /\ UNCHANGED <<rowVars, standing, job, token, beating, heard, verdict, asking>>

\* lease_expires_at <= now()
Lapse(j) ==
    /\ state[j] \in Active
    /\ ~lapsed[j]
    /\ lapsed' = [lapsed EXCEPT ![j] = TRUE]
    /\ UNCHANGED <<state, leaseToken, workerId, attempts, cancelRequested,
                   standing, workerVars, asking>>

\* The surface is measured again, or its mission comes under control.
StandingChanges(j) ==
    /\ j \in Unruly
    /\ standing[j] = "good"
    /\ \E s \in Standings \ {"good"} : standing' = [standing EXCEPT ![j] = s]
    /\ UNCHANGED <<rowVars, workerVars, asking>>

-----------------------------------------------------------------------------
WorkerStep(w) ==
    \/ \E locked \in SUBSET Jobs : Claim(w, locked)
    \/ GuardsPass(w) \/ GuardsRefuse(w) \/ PrepareFails(w)
    \/ MarkRunning(w) \/ MarkRunningLost(w)
    \/ Beat(w) \/ BeatEnds(w)
    \/ \E outcome \in {"succeeded", "failed"} : ChildEnds(w, outcome)
    \/ ChildErrs(w) \/ Report(w) \/ ReportBlips(w)
    \/ Restart(w)

JobStep(j) ==
    \/ Enqueue(j)
    \/ CancelQueued(j) \/ CancelMissed(j) \/ RequestCancel(j) \/ CancelConflict(j)
    \/ Lapse(j) \/ StandingChanges(j)

\* Everything but a process or a host dying on its own.
Calm == (\E w \in Workers : WorkerStep(w)) \/ (\E j \in Jobs : JobStep(j))

Next == Calm \/ (\E w \in Workers : Crash(w))

Spec == Init /\ [][Next]_vars

\* A worker polls every ten seconds, run_job is straight-line code whose child
\* is killed at the job timeout, a container that exits is restarted, and a
\* lease nobody is renewing reaches its deadline.  Locks are momentary, so the
\* poll that counts is one that finds no row locked.
Renewed(j) == \E w \in Workers : BeatAlive(w) /\ job[w] = j /\ Holds(w)
WorkerFairness(w) ==
    /\ WF_vars(Claim(w, {}))
    /\ WF_vars(GuardsPass(w) \/ GuardsRefuse(w))
    /\ WF_vars(PrepareFails(w) \/ MarkRunning(w) \/ MarkRunningLost(w))
    /\ WF_vars(\E outcome \in {"succeeded", "failed"} : ChildEnds(w, outcome))
    /\ WF_vars(Report(w))
    /\ WF_vars(Restart(w))
Fairness ==
    /\ \A w \in Workers : WorkerFairness(w)
    /\ \A j \in Jobs : WF_vars(~Renewed(j) /\ Lapse(j))
FairSpec == Spec /\ Fairness

-----------------------------------------------------------------------------
TypeOK ==
    /\ state \in [Jobs -> JobStates]
    /\ leaseToken \in [Jobs -> Nat]
    /\ lapsed \in [Jobs -> BOOLEAN]
    /\ workerId \in [Jobs -> Workers \cup {NoWorker}]
    /\ attempts \in [Jobs -> Nat]
    /\ cancelRequested \in [Jobs -> BOOLEAN]
    /\ standing \in [Jobs -> Standings]
    /\ pc \in [Workers -> Places]
    /\ job \in [Workers -> Jobs \cup {NoJob}]
    /\ token \in [Workers -> Nat]
    /\ beating \in [Workers -> BOOLEAN]
    /\ heard \in [Workers -> BOOLEAN]
    /\ verdict \in [Workers -> Terminal \cup {"none"}]
    /\ \A w \in Workers : pc[w] \in Settling => verdict[w] \in Terminal
    /\ asking \subseteq Jobs

-----------------------------------------------------------------------------
(* Safety. *)

\* Two workers never both hold a valid token for one job, however many times
\* its lease lapsed, was recycled and was claimed again: the token a claim
\* draws is never one an earlier holder still has.
OneHolder ==
    \A v, w \in Workers : v # w /\ Holds(v) /\ Holds(w) => job[v] # job[w]

\* A worker that holds a token finds the row as it left it: its own name on
\* it, `leased` until mark_running and `running` after.  Recycling, cancelling
\* and exhaustion never touch a row under its holder without taking the token.
RowFollowsHolder ==
    \A w \in Workers : Holds(w) =>
        /\ workerId[job[w]] = w
        /\ state[job[w]] = IF pc[w] \in {"claimed", "preparing"} THEN "leased"
                                                                  ELSE "running"

\* A row carries a token exactly while it is leased or running, and then the
\* token of its latest claim; a worker's token is never newer than the row's
\* attempt count, and no two workers were handed the same one.  This is what
\* makes a late heartbeat or report recognisable.
TokensFollowClaims ==
    /\ \A j \in Jobs :
        IF state[j] \in Active THEN attempts[j] > 0 /\ leaseToken[j] = attempts[j]
                              ELSE leaseToken[j] = NoToken
    /\ \A w \in Workers :
        IF pc[w] \in Idle THEN job[w] = NoJob
                          ELSE job[w] \in Jobs /\ token[w] \in 1 .. attempts[job[w]]
    /\ \A v, w \in Workers :
        v # w /\ job[v] \in Jobs /\ job[v] = job[w] => token[v] # token[w]

\* No job is handed out more often than max_attempts allows: the check claim()
\* makes after it has recycled and chosen the row.
AttemptsBounded == \A j \in Jobs : attempts[j] <= Ceiling[j]

\* What claim() hands out is what require_runtime() accepts, so no attempt is
\* spent on a job the image cannot run, and a specialist holds its lane only.
ClaimsWhatItCanRun ==
    \A w \in Workers : pc[w] \notin Idle =>
        /\ RuntimeAccepts(w, job[w])
        /\ Runtime[w] \in LaneImages => Needs[job[w]] = Runtime[w]

\* A terminal row is final: a late finish(), a retried finish(), a recycling,
\* a claim or a cancel leaves its state and its attempts alone.
SettledForGood ==
    [][\A j \in Jobs : state[j] \in Terminal =>
           state'[j] = state[j] /\ attempts'[j] = attempts[j]]_vars

\* A success comes from the worker of the latest claim, from a child of its own
\* that ended, on a row it had marked running: never from a worker whose lease
\* was recycled, whatever that worker's child produced.
SuccessIsTheHolders ==
    [][\A j \in Jobs : state[j] # "succeeded" /\ state'[j] = "succeeded" =>
           \E w \in Workers :
               /\ job[w] = j /\ token[w] = attempts[j]
               /\ pc[w] = "reporting" /\ verdict[w] = "succeeded"
               /\ state[j] = "running"]_vars

\* A job in a worker's hands ends `cancelled` only if a stop was asked for that
\* very job: what one run heard does not outlive it.
CancelledWasAsked ==
    [][\A j \in Jobs : state[j] \in Active /\ state'[j] = "cancelled" =>
           cancelRequested[j]]_vars

Lifecycle == INSTANCE JobLifecycle WITH
    phase <- [j \in Jobs |-> IF state[j] = "pending" THEN "waiting"
                             ELSE IF state[j] \in Active THEN "held" ELSE state[j]],
    claims <- attempts

\* The queue keeps the promises of JobLifecycle.
KeepsLifecycle == Lifecycle!Spec

-----------------------------------------------------------------------------
(* Liveness. *)

\* Whether some worker may run j at all.
Served(j) == \E w \in Workers : j \in Admits[w] /\ Runnable(w, j)

\* A job some worker can run reaches a terminal state, through crashes, lost
\* leases and dead heartbeats: the lease lapses, a poll recycles it, and the
\* attempts run out.
EveryServedJobSettles ==
    \A j \in Jobs : Served(j) => (state[j] = "pending" ~> state[j] \in Terminal)

-----------------------------------------------------------------------------
(* What the repository says of the queue and the code does not keep.        *)

\* A dead host returns its work without an operator (README, "Claims expire"):
\* an abandoned lease does not stay on the row.
Abandoned(j) == state[j] \in Active /\ \A w \in Workers : ~(job[w] = j /\ Holds(w))
DeadHostReturnsWork == \A j \in Jobs : Abandoned(j) ~> ~Abandoned(j)
=============================================================================
