# Verification of the campaign pipeline's queues

The framework turns CT volumes of scrolls into candidate text through phases
P1..P9.  Almost all of what can go wrong between two machines is in a small
part of it: PostgreSQL tables used as queues, the processes that lease rows of
them, and the rules that decide which surface may go on.  This directory models
that part in TLA+, checks it with TLC on small instances and proves its main
invariants with TLAPS for every instance.

Paths below are relative to the repository (`src/`): `ink` is
`framework/stages/03-ink/fleet`, `seg` is `framework/stages/01-segmentation/fleet`.

## 1. The system

| part | state | operations | modelled |
|---|---|---|---|
| phase queue (`ink/job_store.py`) | `ink_jobs`: state, token hash, lease deadline, worker, attempts, cancel_requested | enqueue, cancel, request_cancel, claim (with recycling), heartbeat, mark_running, finish | `PhaseQueue` |
| phase worker (`ink/ink_worker.py`) | the job in hand, heartbeat thread, cancelled flag, child process | poll, guards, prepare, run the child, report | `PhaseQueue` |
| panel cancel route (`panel/app.py`) | none | api_cancel: two transactions | `PhaseQueue` |
| surface catalogue (`seg/postgres_store.py`) | `segment_surfaces`, `segment_surface_routing_receipts` | import, finalize, register merged, enqueue for QC, backfill receipts | `SurfaceQc` |
| physical QC queue (same file) | `segment_qc_jobs` | claim_qc, heartbeat_qc, finalize_qc, block, requeue, defer, release | `SurfaceQc` |
| QC worker (`seg/qc_worker.py`) | the claim in hand | run_one | `SurfaceQc` |
| P2 certification (`seg/certifier.py`) | the surface being measured | list, measure, record | `SurfaceQc` |
| segmentation tasks (`seg/postgres_store.py`) | `segment_tasks`, `segment_attempts`, `segment_artifact_sets`, `segment_surfaces` | claim (with expiry), heartbeat, transition, add_artifact_set, finalize, mark_terminal, requeue, recover | `SegmentTasks` |
| segmentation worker (`seg/worker.py`, `seg/finalizer.py`) | the claim in hand, heartbeat thread, the grown surface | run_one, finalize_surface | `SegmentTasks` |
| seed probes (`seg/postgres_store.py`, `seg/seed_probe.py`, the probe branch of `seg/worker.py`) | `segment_probe_runs`, `_trials`, `_decisions`, `_promotions`, `_artifact_sets`, the bytes in the artifact store | prepare, claim, transition, reserve, complete, fail, decide, review, promote, expire; the recoveries and `probe-gc` (`seg/cli.py`) | `ProbeRuns` |
| candidate preflight (`seg/postgres_store.py`, `seg/preflight_worker.py`) | `segment_preflight_jobs`; the claim in hand, heartbeat thread, failures in a row | enqueue, claim, heartbeat, finalize, fail, requeue; run_one and its loop | `PreflightQueue` |
| discovery ledger (`seg/postgres_store.py`) | caps, reservations with their work, history reconciliations, blocks | register, reserve arm, reserve children, reconcile, read back | `DiscoveryLedger` |
| discovery runs (same file, `seg/discovery_worker.py`) | `segment_first_letters_discovery_evidence_runs` and their claims and evidence sets; the worker's place | claim, revalidate, start, heartbeat, complete, mark incomplete, reconcile expired; run_job | `DiscoveryRuns` |
| campaign decisions (`seg/postgres_store.py`, `seg/campaign_decision.py`) | `segment_campaign_budget_admissions`, `_decisions`, `_resume_authorizations`, `_resume_principal_attestations`; the last attempt of each task | register a budget or a successor policy, attest, create_tasks; the decisions derived at every end | `CampaignControl` |
| everything else | see `PROJECT.json` | numerical programs, wiring, presentation | no |

How they interact.  The panel and the phases write rows; workers poll.  P2 is
itself a phase job, so the certification run that gives geometry verdicts is
executed by a phase worker and inherits the phase queue's races: one may be
queued twice, run twice, or outlive its lease.  A surface reaches physical QC
only through a row of `segment_qc_jobs`, which is created by whoever creates or
backfills the surface, promoted or failed by a geometry verdict, and consumed
by QC workers.  Downstream phases read two columns of the surface, its
geometry and physical states, and nothing else.  A segmentation task may have a
seed probe to run before it grows; the probe belongs to the task and outlives
its attempts, and the grow that follows is tied to it by a promotion which
finalize, mark_terminal and one recovery move together with the task.  A
preflight is asked for by panel requests and answered by a row any of them may
find.  A discovery run buys one item of what the ledger has charged, and asks the
ledger three times before it does.  In a controlled mission every end of a
segmentation task, and every batch of new ones, derives again from all attempts of
its policy whether the policy has starved, under a lock of the mission that claims,
lapses and requeues do not take.

What is hard.  Every lease can lapse under a live worker; every report can be
late, lost after its commit, or retried; each claim first recycles other
workers' rows; a route of two transactions can be split by any of these; a
surface's bytes and area can be replaced while somebody measures the old ones;
and several admission questions (which image, how large, of which lineage) are
asked twice, in different files, at different times.  The list with lines is
`hazards` in `PROJECT.json`.

What makes each part correct.  *Phase queue*: one holder per job, whoever
lost a lease changes nothing, attempts are bounded, ends are final, every job
a worker can run settles.  *Surface QC*: what is offered to the model was
certified when it was offered and is large enough, nothing waits for a verdict that has been given, a
physical verdict comes from the claim that holds the job, a finished job is not
revived.  *Segmentation*: a task and its attempts tell the same story, a
surface comes from exactly one attempt and that is the one its task ended with,
retries for publishing stay within their budget (provider and source requeues and
lapses have none), a card that was too small is not
asked again, an end is reopened only for the outage it recorded.  *Probes*: task,
run, promotion and evidence tell one story, a surface needs a measured winner,
evidence outlives the decision it carries, tries and granted requeues stay within
their budgets over all attempts.
*Preflight*: one live job per request, the receipt of the last claim, every job
ends.  *Discovery*: reservations tile a ledger below its cap, the provider is
called once for an item that was paid for, and what a worker answered stays true.
*Campaign*: no attempt is evidence twice, a starved policy is blocked, and a policy
with a successor gets no more tasks.

Hazards of the same code that `PROJECT.json` does not list apart, being cases of a
listed one or without a state of their own: the guards of `run_job` above its
`try` (`ink/ink_worker.py:1773`) and its heartbeat that ends in silence (`1935`);
two profiles measuring one surface, the later verdict winning
(`seg/postgres_store.py:8346`), a sample deferred while one of its jobs is claimed
(`8205`), `claim_qc` refusing inside the transaction that recycled (`8275`); the
losers of a recovered promotion, which stay in review (`9985`); the discovery
readback that blocks for any error (`2276`), an expired run nobody reconciles
(`2909`) and a run left claimed (`seg/discovery_worker.py:197`).

## 2. Modules

### PhaseQueue

One table row per job is the functions `state`, `leaseToken`, `lapsed`,
`workerId`, `attempts`, `cancelRequested`; the worker is `pc`, `job`, `token`,
`beating`, `heard`, `verdict`.  Each store method is one transaction in the code
and one action here.  `claim()` is one transaction with three outcomes
(`ClaimNothing`, `ClaimExhausted`, `ClaimJob`); a fourth, in which the lineage
check raises, rolls everything back and is therefore the absence of a step.
`locked` is the set of rows `FOR UPDATE SKIP LOCKED` passes over.

`run_job` is the places `claimed` (guards next), `preparing` (past them),
`running` (child and heartbeat thread alive), `reporting` and `excusing` (the
finish at the end of the `try`, and the one in its `except`), with a crash
possible at each.  An exception that leaves `run_job` ends the process (`down`);
the container's restart policy brings it back.

Abstractions.  A token is 24 random bytes in the code and the number of the
attempt that drew it here: both are never drawn twice for one row.  Time is the
flag `lapsed`, which may be raised at any moment on an active row: a lease may
lapse however diligently its heartbeat runs, which covers a stopped clock or a
stalled connection.  The
candidate filter's host, phase and GPU columns are one set, `Admits`.  Lineage
and routing are a job's `standing`, which may turn bad once (jobs in `Unruly`).

### JobLifecycle

The abstract specification: of each job, only `absent`, `waiting`, `held` or an
end, and how often it was handed out.  Claims are bounded by the ceiling, an
end is final, a waiting job ends only by withdrawal or by having spent its
claims.  `PhaseQueue` implements it under the mapping `pending -> waiting`,
`leased, running -> held`, and `PreflightQueue` with a ceiling of one claim for the
first ask, one for each granted requeue and one for each fault (property and
theorem `KeepsLifecycle` of each).  The trials of a seed probe implement it too
(`ProbeRuns!TrialsKeepLifecycle`), with the policy's tries per candidate as the
ceiling and a measured trial, whatever the measurement says, as a success.  So do
the items of a discovery run (`DiscoveryRuns!KeepsLifecycle`), with a ceiling of one:
the code never gives an item a second run.

### AttemptLifecycle

The abstract specification of the tables that keep a row per attempt: of each task
only the number of its last attempt and how that came out.  Attempts are numbered as
they are handed out, one in a step and one after the other; only the last is held;
its holder ends the task or gives it back, or its time runs out; an end is undone by
a recovery only, where it is one that may be, and that gives no old attempt its work
back.  There is no ceiling, as the code has none.  `SegmentTasks` implements it
(property and theorem `KeepsLifecycle`), and so do the two modules that see the same
queue from further away: `CampaignControl`, where the last attempt is all there is of a
task, and `ProbeRuns`, where the queue is one task.  That all three do is what allows
them to be read as views of one queue: none of them lets a task do what the others
would refuse.

### SurfaceQc

A surface's row is `artifact` (its digest), `area`, `receipt` (the area its
routing receipt was written for), `geometry` and `physical`; a QC job is `state`,
`claims`, `lapsed`, `held` (its retry_after lies in the future).  The worker is at
`idle`, `reading` (claimed, `_current_surface` next), `routing` (the area it read is
`seen`, `_current_route` next) or `measuring`.

A geometry verdict is `UNMEASURED`, `CERTIFIED` or `REJECTED` (the four named
rejections act alike); a physical one is `SUPPORTED` or `INSUFFICIENT`.
`predating` surfaces are rows that were queued before routing existed: certified,
with a claimable job, without receipt, of any area; which ones they are is free at the
start and never changes.  The payload of `enqueue_imported_surface_qc` may in principle
name a geometry verdict; the one command that calls it (`seg/cli.py:1662`) writes the
payload without one, so the row's own verdict or `UNMEASURED` decides.  Requeues and
deferrals share `held`: the code writes both into `retry_after`.  The claim
order is not modelled: with rows locked by others any ready job may be first.

Not in the module: the lineage check of `claim_qc` (its surfaces' lineage does
not change), `repoint_surface_artifact` (same digest, other address), lamina and
seed axes, which no admission reads.

### SegmentTasks

A task's row is `state`, `active` (active_attempt_id), `token`, `lapsed`, `held`
(retry_after lies in the future), `floor` (minimum_vram_gb) and `latest`, the
highest attempt number; an attempt's is `attempt` (its state), `by` (worker_id),
`excused` (its result names the very outage one of the recovery commands looks
for) and `upload` (its artifact set).  `surface` maps a digest to the task whose
attempt put it in the catalogue.  The worker is `pc`, `task`, `number`, `grown`.

Every store method is one transaction in the code and one action here, and
almost all of them are built from `Write`, which checks the owner
(`_assert_owner`) and moves the task and its attempt together.  Three things the
code keeps apart are kept apart: a terminal write (`Ends`) takes token and
deadline but leaves the attempt active; a requeue (`Returns`) clears the attempt
as well; a transition only changes the two states, so a worker whose lease has
lapsed but whose row nobody has recycled may still write.

`run_one` is the places `claimed`, `planning`, `locked`, `growing`, `grown`,
`uploaded`, `finalizing`, and `excusing` for the branch that follows a transient
outage while publishing.  That branch is reached before the call reached the
database (`Outage`) or after its commit (`FinalizeUnheard`).  A store call that
finds the lease lost raises out of `run_one`: that, a heartbeat `ensure()` finds
dead, and the death of the process are one action, `Abandon`.

Abstractions.  A token is 32 random bytes in the code and here the number of
the attempt it was drawn for.  `Admits` is the set of tasks whose other
capability columns (benchmark, seed probe) the worker meets; `gpu_required` is
not kept apart, since the one requeue that sets it also sets a positive floor,
and a worker without CUDA has zero memory.  VRAM is a natural number and the
step above a card that was too small is 1.  Grows that would be found to be
duplicates of each other share a digest; all tasks are on one source snapshot,
which is what serialises finalize.  `QC_PENDING` stands for `FIXTURE_ONLY` too.
The three recovery commands differ in the state and the error they accept, which
is `Recoverable` and `excused`, and are one action.  Not in the module: seed
probes (`ProbeRuns`), the budget admission of `create_tasks`, the job finalize
creates for physical QC (`SurfaceQc` creates it with the surface).

### ProbeRuns

One task and its seed probe.  `task`, `holder`, `latest` are the task with its
states between claim and end made one, `ACTIVE`; `fetches` and `publishes` count
the attempts that were returned by the two bounded requeues, which the code
counts in `segment_attempts`.  `mode`, `run`, `action`, `winner` are the probe run
and its decision, `promotion`, `bound`, `failedAs` the promotion, `trial`,
`trying`, `tries` the trials, `set` the row and `bytes` the content of each
retained artifact.  The worker's places follow `SeedProbeCoordinator.run` (trials)
and the probe branch of `run_one` (decision, fetch, promotion, grow); `due` and
`gone` are the three steps of `probe-gc`, which lists, deletes and marks.

`CloseRun` is the part of `mark_terminal` that fails an open promotion, gives up a
winner still waiting for one, and puts all evidence to review; `RecoverFinalizer`
is the recovery that reopens both.  Any lease may lapse while its holder lives,
so the recycling statements of a claim take any subset of the leased trials.  A
commit nobody heard is `CompleteTrial` going on to `failing`, `BeginPromotion` and
`Finalize` leaving the worker where it was.  `Perish` is the store losing bytes.

Abstractions.  A token is the number of its attempt or try.  Candidates are
ranks; how they are chosen, and what a measurement finds, is free: a trial ends
`SUCCEEDED`, `REJECTED`, `UNMEASURED` or `FAILED`.  `GROW_FAILED` stands for the
ends nothing reopens, `PROBE_STOPPED` for the three ends of a decision without
winner.  Thirty days of retention have passed whenever `probe-gc` asks.

### PreflightQueue

A row is `state`, `token`, `lapsed`, `waits` (retry_after to come), `attempts`,
`requeues`, `reason` and `receipt` (the claim that wrote it); a job is a request
with an ordinal, its primary key.  The enqueue is its three statements, `Look`,
`Count`, `Insert`, which other requests and workers may come between; the unique
index on live rows is `Free`.  The worker is `claimed` (to prove its lease again),
`measuring`, `failing` (with the code under which the failure is filed) or
`down`; `failures` in a row stop its loop and the container starts it again.  The
lease is the token alone: the deadline is read only by a claim.  `finalize` may
lose its answer, which the worker takes for an outage, and any error of a call
that asks for the lease reads as a lost lease (`TakenForLost`).  What is wrong with
a measurement is one of three codes: an outage, something about the job,
something about the host.

### DiscoveryLedger and DiscoveryRuns

The ledger of one mission: `cap`, `blocked`, `total` (the sum of reserved units),
`reserved` (a row per request: items, the total it started from, mode, and the
attempt and history it was drawn from), `first` (the filed cut of the history) and
what others change under it, `history` and `attempt`.  A reservation is one
transaction under the mission's advisory locks and one action.  A history is whole
when there is none or its execution has an outcome; the manifest of it holds the rows
of that execution's task and attempt, so a whole history stops agreeing with the cut on
file as soon as one of them is written (`Rewritten`, alone or with `AttemptMoves`); as
manifests are only compared, one such change stands for any number.  A readback is
three: `ReadbackFails` when the rows do not agree or the second transaction fails
for any reason, then `WriteBlock`, or `LoseBlock` if the process ends first.

`DiscoveryRuns` extends it with the evidence runs (`run`, `live`, `owner`, `why`,
`evidence`, and `calls`, a history of the provider calls) and the worker at each
call of `run_job`: the claim in its two transactions, the two revalidations, the
reads between them, prepare, start, heartbeats, the provider, completion and its
readback, and the terminal result in at most two attempts.  Every call may fail
without effect or take effect and lose its answer, and the worker may die at
every place.  An item's request, its digests and the evidence's content are left
out; `Units` is 24 in the code and 2 in the runs.  `DiscoveryLedger` is also its
abstract specification: every step of the runs is one of the ledger's or leaves the
ledger alone (`LedgerSpec`).

### CampaignControl

One mission.  `registered` is the admissions in order of `created_at`, `attested` and
`authorizations` what an operator signed and what a registration used, `receipts` the
decisions on record with their times in `stamps`, `created` the tasks that have a row, `row` the last attempt of
each: its number, its state and its `updated_at`.  `reports` are the transactions of
`mark_terminal` and `finalize` that have begun and wait for the mission's lock: their
`now()` is the time of `Report`, their effect is `End`, and between the two any other
may end first.  `Derived(p, last)` is `derive_campaign_decision_receipts` as one
operator over the last attempts: the blocks of `BlockSize` scientific ends in order of
their times, with what was left out between them, up to the first that pauses or to
the end of two budgets in a row that were spent on nothing.  An end and a creation
derive and write once; a decision that is there must be the same (`Agrees`), or the
transaction is undone (`EndRefused`).

Abstractions.  The other states of a task are those of `SegmentTasks`, which proves
that a task mirrors its last attempt; the earlier attempts matter only as the set
`Superseded` that enters the hash.  Equality of receipts stands for equality of their
hashes, so what the hash does not cover (the time, the wording) is left out, and a
task is its own attempt id.  Ends differ by what the rule asks of them: `NO_M7`,
`OTHER`, `FAILED` with a reason the rule knows, or `MALFORMED`, evidence that is
malformed or does not agree with its state, which counts like a state the rule does
not know (`Unknown`); a recovery asks for state and error only, so it reopens either
failure.  `stamps` is the `created_at` of the receipts, by which the chain names the
pause that was recorded first, and that is the one a successor must answer
(`FirstPause`); a creation that waited for the lock may stamp with any earlier time.  What an operator signs is a
successor and the receipt it answers; the material change in it is compared with the
two admissions only, and is data.  `BlockSize` and `PauseCount` are 8 and 7 in the code.
Two registrations that race are taken to be stamped in the order they get the lock.

### MC modules

`PhaseQueueMC`, `SurfaceQcMC`, `SegmentTasksMC`, `ProbeRunsMC`, `PreflightQueueMC`,
`DiscoveryRunsMC` and `CampaignControlMC` define the constants of the runs and nothing else.

## 3. Runs

| run | instance | what it shows |
|---|---|---|
| `queue_races` | 1 job, 2 workers, 3 attempts, standing may change | one holder, success only from the holder; implements `JobLifecycle` |
| `queue_liveness` | 3 jobs, a specialist worker, a worker of another phase, an ordinary job at the head, window 2 | the specialist leaves that job alone; every job that can be run settles; `cancelled` only when asked |
| `queue_poison` | 2 jobs, 1 worker, one controlled | **violated**: a refused claim undoes the recycling, for ever |
| `qc_jobs` | 1 surface, new or queued before routing, areas below, at and above the floor, 2 profiles, 2 workers of which one serves a single profile, 2 overlapping certification runs | nothing is stranded; small surfaces stay out and are never started on; offers follow certificates; verdicts come from the job's holder |
| `qc_rejected` | 1 surface, 1 profile, 1 worker, 2 overlapping certification runs | **violated**: a job claimed when its surface is rejected is handed out again after its lease lapses |
| `segment_tasks` | 2 tasks, 2 workers (one without a card), 2 attempts of a task and 3 in all, 2 digests, budget 1 | task and attempts agree; surfaces come from last attempts; retries for publishing within budget and floors rise; implements `AttemptLifecycle` |
| `probe_runs` | 2 candidates of 2 tries, 2 workers that may die, 3 attempts, budgets 1, one set of bytes may be lost | task, run, promotion and evidence agree; a surface has a measured winner; evidence outlives its decision; tries and granted requeues within budget; review is kept |
| `preflight_jobs` | 1 request, 2 askers, 2 ordinals, 2 workers, 1 requeue, 1 fault | one live job, receipt of the last claim, the granted retries; implements `JobLifecycle`; every job ends |
| `discovery_runs` | 1 arm of 1 item, 1 children's request of 2, caps 3 and 5, 2 workers | the ledger tiles below its cap; one provider call per charged item; answers are durable; a block comes first |
| `campaign_blocks` | 4 tasks of 1 budget, 1 successor policy, blocks of 2, 2 attempts, 2 ends waiting | no attempt is evidence of two blocks; nothing enters under a policy that has a successor |
| `campaign_pairs` | 3 tasks of 2 budgets under one policy, 1 task of a successor, blocks of 3 of which 2 pause | a starved policy is blocked, by whichever rule; successions in force were attested |
| `campaign_retry` | as `campaign_blocks` | **violated**: while a pause is in force the work that holds a task cannot end it |

Bounds.  Three attempts let a lapsed holder, its successor and the exhausted
claim exist together; two workers are enough for every race over one row, since
a third could only repeat what one of them did.  Two jobs show what a claim does
to rows it does not take; the third of `queue_liveness` lets the head be foreign
and still have a queue behind it.  In `SurfaceQc` one surface is enough for races
between verdicts, backfills and workers, because every statement but the
recycling, the deferral of a sample and the uniqueness of digests names a
surface; two profiles give it two jobs, over which recycling and deferral meet.
`MaxClaims` (2) bounds the claims of a
QC job, which the code does not bound; two let a lapsed worker and its successor
meet.  Two artifacts let the bytes change; areas 1, 2, 3 lie below, at and above
the floor 2.  In `SegmentTasks`, `MaxAttempts` (2) bounds the attempts of a task,
which the code does not: a first attempt that is lost, requeued or recovered and
its successor are all that any property relates.  `MaxClaims` (3) bounds those of both
tasks together, so either task may have a successor while the other is in hand, and
only the runs in which both were handed out twice are left out.  A budget of 1 is
reached within them.  The two tasks meet in one digest or in none, which is what the duplicate
search can see; only one of the workers may take the second task, so that a task
nobody else can take is there too.  Digests are only compared, so they are
symmetric.

In `ProbeRuns`, two candidates are the fewest among which there can be a winner;
two tries let one be lost and one count; three attempts (`MaxAttempts`, which the
code does not bound) are one that decides, one that is returned or given up, and
one after a recovery or an exhausted budget; the workers are symmetric where both
may die.  In `PreflightQueue`, `MaxOrdinal` (1) is one failed job and its
successor, `MaxFaults` (1) the lapse, death or lost answer by which two workers
meet over a job, `MaxFailures` (2) of the code's larger limit is reached with it.
In the ledger, items cost 2 and caps are odd, so that a cap is never met
exactly and a prefix is cut; the arm and the children's request together exceed
the smaller cap; `MaxMoves` (1) lets the parent's attempt change once under a
reservation.

`CampaignControl` needs two instances, since blocks and pairs each need tasks the
other rule would spoil.  Four tasks and blocks of 2 make two whole blocks, the fewest
between which an attempt can move; with 3 tasks of two budgets and blocks of 3 a
block and a pair fall on the same ends and `PauseCount` 2 lets a block pause without
being barren throughout.  `MaxAttempts` (2) bounds the attempts of a task, `MaxNow` (5)
the transactions that stamp a row, one more than the tasks, `MaxReports` (2) the ends
that wait at one time: two are an end that overtakes another.  The successor of
`campaign_blocks` has no task, being there to be registered; that of `campaign_pairs`
has one.  Tasks of one budget are symmetric.

`CHECK_DEADLOCK FALSE` in all of them: a queue whose jobs have all ended, or whose
claims are at the bound, rightly stops.

Fairness.  `PhaseQueue!FairSpec` (`queue_liveness`, `queue_poison`) has weak
fairness on: a claim that finds no row locked (the worker polls on a fixed
period and locks last for one transaction); the steps of `run_job`, which is
straight-line code, its child being killed at the job timeout; the report; the
restart of a process that is down (`restart: unless-stopped`); and the lapse of
a lease that nobody renews.  None on crashes, heartbeats, cancellations, refusals
or outages: they may happen, and nothing relies on them.  `PreflightQueue!FairSpec`
(`preflight_jobs`) has weak fairness on a worker's claim, on the steps that end what
it began (a measurement returns or fails), on its restart, on a retry time that
comes and on the lapse of a lease nobody renews; none on enqueues, heartbeats and
faults.  The other modules state safety only: nothing in the code promises that
a task, a probe or a discovery run ends, since their requeues for an outage have
no limit and a run left claimed is not reclaimed.

Each property is also shown to be breakable: `PROJECT.json` names for each a
mutation of a modelled definition (kept beside it, marked *Mutant*) under which
TLC finds it violated.

## 4. Where the code and its documents disagree

The violation runs are listed with their lines under `findings`.  `qc_rejected` needs two
certification runs that listed the surface before either recorded, and differ.  Of
`campaign_retry` there are two ways.  A task that was counted in a block
and lapses, is requeued or is claimed again changes `superseded_attempt_ids`; and of
two ends whose transactions overlap the later one may have the earlier time.  Either
way the block derived at the next end has another hash than the one on record, the
end is refused, and so is every later one of the policy.

Others were seen while modelling and have no run:

- a winner whose continuation was given up once and recovered cannot be put to review
  when its fetch budget runs out (`seg/postgres_store.py:7190`): the refusal is raised,
  the lease lapses and the task fetches again without limit (`ReviewRefused`; what
  `BudgetsHold` limits is granted requeues), where SEED_PROBE_RUNBOOK.md:265-266 says "the evidence stops in
  review/failure retention rather than looping."
- a mission blocked by a failed readback reserves its next arm
  (`seg/postgres_store.py:1776`); the SQLite store (`seg/store.py:4052`) and the
  reservation of children (566-575) refuse.
- an end that arrives late may complete a pair of budgets whose cutoff lies before the
  end of a block that paused already.  Both pauses are then on record, only the pair
  is derived, and a successor signed for the block is refused for good, although the
  chain names the block first (`seg/campaign_decision.py:1024`, `1688`).
- a task that waits for the retry of an ordinary outage when its block closes counts as
  `UNKNOWN_TERMINAL_STATE` (`seg/campaign_decision.py:713`): the block is
  `CONTROL_INCOMPLETE`, which blocks the policy and cannot be resumed.
- resuming onto an earlier policy of the chain is accepted and closes a cycle, after
  which every registration of the mission raises (`seg/campaign_decision.py:1682`).

- `claim()` looks at the first `CLAIM_CANDIDATES` pending rows
  (`ink/job_store.py:2989`); if all of them belong to an absent runtime, a worker
  is handed nothing although it could run a later one.
- `api_cancel` may answer 409 for a job that a recycling has just put back in
  the queue (`panel/app.py:4295`).
- a second certification run overwrites the first one's verdict, a certificate by
  `UNMEASURED` included (`seg/postgres_store.py:9352`).
- a backfill for a second profile replaces the bytes of a surface whose first
  profile has a job (`seg/postgres_store.py:5051`, `5107`), and
  `enqueue_imported_surface_qc` replaces them and keeps the geometry verdict that
  was measured on the old ones (docs/handbook/20-phases/02-p2.md:119).
- a stop written while a job runs is read when its child ends
  (`ink/ink_worker.py:1987`); the two branches at 2195-2202 report `failed` without
  asking, where docs/handbook/30-panel/01-fleet.md:97 says the end is `cancelled`.
- the lineage and route guards stand above the `try` of `run_job`
  (`ink/ink_worker.py:1773`), so a refused job takes the worker down, where the
  comment at 1894 says a bad job must not stop the worker.
- one database error other than a lost lease ends the heartbeat thread and not
  the child (`ink/ink_worker.py:1935`, comment at 1921).
- after a recovery reopened a promotion, the losers stay `REVIEW_RETAINED` for
  ever (`seg/postgres_store.py:9985`), where SEED_PROBE_RUNBOOK.md:306 gives them
  thirty days.
- `panel/app.py` (about 5627) leaves the selection version out of what makes two
  preflight requests the same, but `enqueue_candidate_preflight` digests the whole
  request with it (`seg/postgres_store.py:7969`): a new selection makes a new job.
- a preflight worker whose host is misconfigured stops with 78 so as not to be
  restarted (`seg/cli.py:1627`), and `restart: unless-stopped`
  (`segment.compose.yaml:189`) restarts it: the queue is emptied into `FAILED`, one
  job per restart.
- discovery: the claim inserts its run before anybody asks for the block, where
  tests/test_first_letters_discovery_shadow_bridge.py:1944 expects no row (of the
  SQLite store); any database error in a readback blocks the mission for good
  (`seg/postgres_store.py:2276`); a worker that dies between claim and start leaves
  the run `CLAIMED` for ever; nothing in `src` calls `reconcile_expired` (2909); an
  outcome releases no units.

## 5. Proofs

The eight proof modules hold for any numbers of jobs, tasks, workers, attempts,
surfaces, profiles, areas, certification runs, candidates, requests, items, units,
budgets and policies, from the assumptions named in the modules (`PhaseQueueAssumption` and so
on): the types of the constants, that the markers (`NoWorker`, `AnyImage`,
`NoJob`, ...) are not members of the sets they stand beside, a positive floor,
positive sizes and units.

**PhaseQueue.**  The inductive invariant `IInv` is `TypeOK`, `TokensFollowClaims`,
`RowFollowsHolder` and `AttemptsBounded`.  `OneHolder` alone is not inductive: to see that a fresh
token cannot equal one a zombie still carries, one needs that tokens a worker
holds are at most the row's attempt count and pairwise different, which is
`TokensFollowClaims`; and to see that a late `mark_running` or `finish` cannot
hit a foreign row, that a held row is in its holder's state, `RowFollowsHolder`.
From the invariant follow `OneHolder` and `SettledForGood`; `ClaimsWhatItCanRun`
is inductive with the types; `SuccessIsTheHolders` and `CancelledWasAsked` need
besides that what a worker is about to report comes from the run it is in
(`VerdictsFollowRun`: the `except` branch reports `failed` only, and a stop it
heard was asked for the job in hand).  `QueueKeepsLifecycle` maps every action to a step of `JobLifecycle`: a
claim recycles several rows at once, so the abstract step moves each job on its
own.

**SurfaceQc.**  `WaitingIsNeverStranded`: a verdict resolves every waiting job of
its surface in the same transaction, and a job is created waiting only if the
surface is unmeasured; inductive as it stands, with overlapping runs.
`SmallNeverEnters`: a surface with a job that can be measured carries a receipt
equal to its area (`Sized`); a backfill cannot change the area under a receipt,
since a receipt that disagrees raises.  `OffersAlwaysFollowCertificates` holds for any
number of overlapping runs: nothing is offered but by a step that leaves its surface
certified, so a second run can take a certificate from a job that is offered
(`qc_rejected`) but never offer one without.
`VerdictAlwaysEndsItsJob` needs that no two workers carry the same token of one
job (`TokensDiffer`).
`NothingSmallIsEverStarted` has no hypothesis either.  It needs that a receipt agrees
with its area (`ReceiptAgrees`), that a worker's job exists (`JobInHand`), and that
what the worker read is still the area where no receipt has been written since
(`SeenStands`): a backfill between its two reads changes both in one transaction, so
the second read finds the receipt.  That nothing small is *being* measured is more, and
is not true: with two profiles a backfill for the second may give a surface that was
queued before routing another area while a worker measures it for the first.
`MeasuredIsLargeOrOvertaken` says that this is the only way: what is measured is large
or was overtaken like that (`Overtaken`); a job without a receipt predates routing
(`JobsRouted`).

**SegmentTasks.**  The inductive invariant `IInv` is `TypeOK`, `Rows`,
`AttemptsMirrorTask` and `Bearers`.  That the tables agree is not inductive
alone: to see that a write reaches the active attempt and no other, one needs
that a row has a token exactly while it is active, and the one of its attempt
(`Rows`); and to see that two workers never write one attempt, that what a worker
has in hand was handed to it and is not newer than the latest (`Bearers`).  The
proof first sorts the steps (`NextKinds`): a claim, a recovery, one write of an
owner (a transition or upload, a refusal, a registration, a return), or a step
that touches no row.  From the
invariant follow `EndsAreAlwaysFinal` (a writer owns an active row, so only
`Recover` leaves an end) and `OutgrownStaysOutgrown` (the attempt that ran out of
memory is the writer's own, so the card compared is the writer's).
`RetriesStayWithinBudget` counts a set of attempts, finite because numbers are
bounded, that grows by the writer's attempt only where the budget is compared; the two
together are `RequeuesAlwaysLimited`.
`SurfacesComeFromLastAttempts` rests on the writer's attempt being the latest of a
task that has not ended: nothing of that task was registered before.
`PastStaysFixed`: an owner writes the active attempt, which is the latest, and a claim
writes the one after, so whatever a later attempt replaced is history.
`QueueKeepsLifecycle` maps every step to `AttemptLifecycle`: a claim lapses several
attempts at once and opens one; a write keeps the attempt held, ends it or gives it
back; a requeue and an end are told apart by the state they write.

**ProbeRuns.**  The inductive invariant `IInv` has six parts.  `Numbers` says that
a live attempt is the last one of an active task, and that no two workers have the
same attempt in hand; `Story` is `OneStory` with what it rests on: the run
follows the decision (`RunFollows`), the sets are filed as the run says (`Filed`),
and a decision is recorded only when every trial is over, which freezes the
trials it was computed from (`Recorded`); `AtTrials` says that a worker still on its
trials, and still the owner, works before the decision; `Kept` relates bytes to rows: what was evaluated was
published (`Published`), and what `probe-gc` holds listed or deleted belongs to a
run that cannot be reopened (`Due`), without which `EvidenceOutlivesRun` would not
survive the step between listing and deletion; last `BudgetsHold` and the types.
`ReviewAlwaysKept` and `AlwaysSettledForGood` follow step by step.
`ProbeKeepsTaskLifecycle` rests on `Numbers` and on the four things a step does to
attempts (`AttemptMoves`).  `ProbeKeepsTrialLifecycle` needs `Tokens`: a live token is of
a leased trial, and a worker on a trial has one in hand.  fail_probe_trial asks for the
token and not for the trial's state; it is `Tokens` that keeps a late failure from
reopening a trial that was measured.

**PreflightQueue.**  `OneLiveAlways` needs that every ordinal below one an asker has
counted is there (`Ordinals`): an insert at a stale count then meets the primary
key, and at a fresh one leaves no gap.  `ReceiptAlwaysFromLastClaim` needs that a
claimed row's token is its attempt count, and that a worker's is at most that and
nobody else's (`Leases`).  `PreflightKeepsLifecycle` needs besides that every claim
is accounted for (`Explained`): attempts are at most the granted requeues plus the
faults, and one more for a claim in hand or an end, since a row returns to the
queue by a requeue, or by a lapse after a fault.

**DiscoveryRuns.**  `RunsInv` is the types, that reservations are stacked between
what was kept and the total, and the total is below the cap (`Tiled`), that a
worker is at a job whenever it is anywhere (`Assigned`), what each state of a run
says of its row (`RowOK`: an owner, a reservation, evidence and reason) and each
place of a worker of the row it owns (`PlaceOK`), and `AnswersAreDurable`.
`BoughtOnce` is the place `ready` of exactly one worker, the owner of a `RUNNING` run
with no call yet.  `BlockAlwaysComesFirst` is a temporal theorem: once blocked with
an unclaimed run, `Stuck(j)` says that the run stays unclaimed or claimed by
somebody who has still to ask, and asking is refused.

`RunsKeepLedger` is the refinement of `DiscoveryLedger`: a worker's step is one of the
ledger's or leaves it alone.  The one that takes an argument is `Revalidate`, which
compares the history with the one the arm was drawn from and blocks when they differ,
where the ledger blocks for what the history is.  `Drawn` closes the gap: where the cut on
file is complete it is the history every arm was drawn from, so one that differs from
the arm's differs from the cut, which blocks; where it is incomplete the mission is
blocked already.
`LedgerWithinCap` is the cap for the
ledger alone, so it also holds of any other program that keeps to it.
`ItemsKeepLifecycle` maps the states of a run to those of a job with one claim; it
needs that a run is claimed only when its arm is reserved (`RunMoves`).

**Lifecycles.**  `LifecycleProofs` proves once what the two abstract queues promise,
and so what all that implement them promise.  Of jobs: `HandedOut`, with no more claims than the
ceiling and no result before a claim, and `EndsForGood`.  Of attempts: `Numbered`,
`LeftForGood`, that an attempt left is never held again, which is what a worker's
fence by attempt number rests on, and `EndsForGood`.  Those about attempts assume `Distinct`:
the states of an attempt left are not those of one in hand, an end is not a return and
only an end is reopened.  The states that `SegmentTasks`, `ProbeRuns` and
`CampaignControl` put there are all so.

**CampaignControl.**  `SucceededNeverGrows` needs only that the pause a succession
answered is on record for ever (`Paused`): a creation that derives again finds it and
commits nothing.  `NeverCountedTwice` rests on the decisions themselves: blocks cut from
one order of ends are disjoint (`BlocksApart`), the blocks on record are always the
first ones (`Consecutive`), and a derivation that adds one must agree with all of them,
so old and new were cut from the same order.  `StarvationAlwaysSeen` says that whatever
shows a starved policy (`Starved`: a whole block or two budgets) was shown by an end
that wrote it, since no other step adds a scientific end (`Watched`, with `Entered` for
what the rows on record must have gone through).  A registration can make two budgets
neighbours, but its own is still untouched; that is where the theorem assumes that
every budget has a task; in the code one without is never complete
(`seg/campaign_decision.py:950`) and no batch can enter under it (2395).
`CampaignKeepsLifecycle`: the rows move as the queue's attempts do (`RowsMove`), also
where a decision is derived in the same transaction.

Some theorems state what no run repeats: that ends are final (`EndsAreAlwaysFinal`,
`EndsAlwaysFinal`, `FinishedStaysFinished`, `AlwaysSettledForGood`), where a property
that a run checks says more of one actor's late step; the parts of
`RequeuesAreLimited`; `PastStaysFixed`, `OffersAlwaysFollowCertificates` and
`MeasuredIsLargeOrOvertaken`; the lifecycles that `CampaignControl`, `ProbeRuns` and
`DiscoveryRuns` keep, and the ledger that `DiscoveryRuns` keeps; and all of
`LifecycleProofs`.

Out of the prover's reach, and so only model-checked: liveness under fairness
(`EveryServedJobSettles`, `EveryJobEnds`, `DeadHostReturnsWork`), statements about
ENABLED, and induction over data.  Every safety property that a passing run checks is
stated by a theorem.

## 6. Plan

Done: the phase queue, physical QC, segmentation tasks, seed probes, candidate
preflight, the discovery ledger with its runs, the campaign's decisions, and the
abstract specifications, of jobs (`JobLifecycle`), of attempts (`AttemptLifecycle`) and
of the ledger under the runs (`DiscoveryLedger`).
Left, in this order:

1. `SegmentTasks` composed with `SurfaceQc` through finalize, and with `ProbeRuns`
   through its task; and with `CampaignControl`, whose `row` is its last attempt.
2. Liveness of the segmentation queue under bounded outages.

Not modelled, and why: the numerical programs (growing, flattening, inference,
validation, preflight measurement) and the planners that propose work keep no
state that two actors share; the chains of digests that tie a row to the bytes
it came from are checked by equality on values that never change; presentation,
configuration, schemas and containers move no modelled row.  `PROJECT.json` says
it component by component.

## 7. Running

    tlc -workers 2 -config PhaseQueue_races.cfg PhaseQueueMC
    tlc -workers 2 -config SurfaceQc_jobs.cfg SurfaceQcMC
    tlc -workers 2 -config SegmentTasks_tasks.cfg SegmentTasksMC
    tlc -workers 2 -config ProbeRuns_runs.cfg ProbeRunsMC
    tlc -workers 2 -config PreflightQueue_jobs.cfg PreflightQueueMC
    tlc -workers 2 -config DiscoveryRuns_runs.cfg DiscoveryRunsMC
    tlc -workers 2 -config CampaignControl_blocks.cfg CampaignControlMC
    tlapm PhaseQueueProofs.tla          # and the other seven *Proofs modules
