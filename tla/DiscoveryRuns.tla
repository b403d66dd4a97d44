--------------------------- MODULE DiscoveryRuns ---------------------------
(***************************************************************************)
(* The runs of First Letters discovery over its compute ledger: each item  *)
(* of a reserved arm is a job, a worker claims it, checks it twice more    *)
(* against the ledger, calls the provider and files the evidence           *)
(* (fleet/postgres_store.py, discovery_worker.py).                         *)
(*                                                                         *)
(* A run and its executor claim are two rows that every statement changes  *)
(* together; here they are one.  Any call of the store may fail without    *)
(* effect, or take effect and lose its answer, and a worker may die at any *)
(* step: the tokens of its claim live in its process and die with it.      *)
(***************************************************************************)
EXTENDS DiscoveryLedger

CONSTANTS
    Workers,
    NoWorker    \* the owner of a run nobody claimed

ASSUME DiscoveryRunsAssumption == NoWorker \notin Workers

Jobs == UNION {{q} \X (1 .. Size[q]) : q \in Arms}
NoJob == <<>>

VARIABLES
    run,       \* discovery_evidence_runs.state, "none" without a row
    live,      \* lease_expires_at is still to come
    owner,     \* the worker that holds the run's token
    why,       \* incomplete_reason
    evidence,  \* the worker whose discovery_evidence_sets row the run has
    calls,     \* how often the provider was called for the job
    pc,        \* where the worker is in run_job
    at,        \* its job
    say,       \* the reason it is about to file
    again,     \* _terminal_result is in its second attempt
    answer     \* what run_job last returned: nothing, COMPLETED, or a reason

runVars    == <<run, live, owner, why, evidence, calls>>
workerVars == <<pc, at, say, again, answer>>
vars == <<ledgerVars, runVars, workerVars>>

RunStates == {"none", "CLAIMED", "RUNNING", "COMPLETED", "CONTROL_INCOMPLETE"}
Terminal == {"COMPLETED", "CONTROL_INCOMPLETE"}
\* The reasons of a worker, and the one of reconcile_expired.
Reasons == {"START_RESPONSE_AMBIGUOUS", "HEARTBEAT_FAILED", "PROVIDER_RESPONSE_AMBIGUOUS",
            "COMPLETION_FAILED", "COMPLETION_READBACK_AMBIGUOUS"}
Lost == "WORKER_LOST"
Places == {"idle", "found", "begun", "rechecked", "claimed", "reclaimed", "preparing",
           "starting", "started", "ready", "calling", "answered", "completing", "reading",
           "ending", "checking"}

Init ==
    /\ LedgerInit
    /\ run = [j \in Jobs |-> "none"]
    /\ live = [j \in Jobs |-> FALSE]
    /\ owner = [j \in Jobs |-> NoWorker]
    /\ why = [j \in Jobs |-> "none"]
    /\ evidence = [j \in Jobs |-> NoWorker]
    /\ calls = [j \in Jobs |-> 0]
    /\ pc = [w \in Workers |-> "idle"]
    /\ at = [w \in Workers |-> NoJob]
    /\ say = [w \in Workers |-> "none"]
    /\ again = [w \in Workers |-> FALSE]
    /\ answer = [w \in Workers |-> "none"]

-----------------------------------------------------------------------------
Goto(w, place) ==
    /\ pc' = [pc EXCEPT ![w] = place]
    /\ UNCHANGED <<at, say, again, answer>>

\* run_job raises: it has said nothing.
Raise(w) ==
    /\ pc' = [pc EXCEPT ![w] = "idle"]
    /\ say' = [say EXCEPT ![w] = "none"]
    /\ again' = [again EXCEPT ![w] = FALSE]
    /\ UNCHANGED <<at, answer>>

Return(w, what) ==
    /\ pc' = [pc EXCEPT ![w] = "idle"]
    /\ answer' = [answer EXCEPT ![w] = what]
    /\ say' = [say EXCEPT ![w] = "none"]
    /\ again' = [again EXCEPT ![w] = FALSE]
    /\ UNCHANGED at

\* The run has reached RUNNING as far as the worker knows, and is to be closed.
End(w, reason) ==
    /\ pc' = [pc EXCEPT ![w] = "ending"]
    /\ say' = [say EXCEPT ![w] = reason]
    /\ UNCHANGED <<at, again, answer>>

\* _first_letters_discovery_lifecycle_claim
Holds(w, state) == LET j == at[w] IN run[j] = state /\ owner[j] = w
HoldsLive(w, state) == Holds(w, state) /\ live[at[w]]

-----------------------------------------------------------------------------
\* claim_first_letters_discovery_job finds the job and reads its request.
TakeJob(w, j) ==
    /\ pc[w] = "idle"
    /\ IsReserved(j[1])
    /\ Agrees(j[1])
    /\ pc' = [pc EXCEPT ![w] = "found"]
    /\ at' = [at EXCEPT ![w] = j]
    /\ answer' = [answer EXCEPT ![w] = "none"]
    /\ UNCHANGED <<ledgerVars, runVars, say, again>>

\* Mutant: only a run that ended is known.
NotOver(j) == run[j] \notin Terminal

\* A run has one row for ever: its identity is the reservation and the item.
Unclaimed(j) == run[j] = "none"

Begin(w) ==
    LET j == at[w] IN
    /\ pc[w] = "found"
    /\ IF Unclaimed(j)
       THEN /\ run' = [run EXCEPT ![j] = "CLAIMED"]
            /\ live' = [live EXCEPT ![j] = TRUE]
            /\ owner' = [owner EXCEPT ![j] = w]
            /\ UNCHANGED <<why, evidence, calls>>
            /\ Goto(w, "begun") \/ Raise(w)
       ELSE Raise(w) /\ UNCHANGED runVars
    /\ UNCHANGED ledgerVars

\* Mutant: a claim in hand is not asked about the block.
NotAsked == FALSE

Refused == blocked

\* revalidate_first_letters_discovery_job_claim: by claim_job, then by run_job.
\* A block, or a history that no longer is the one the work was reserved under,
\* is committed and refuses the claim; a lease that lapsed rolls back.
AccountedFor(q) == HistoryComplete /\ reserved[q].history = history

Revalidate(w) ==
    LET q == at[w][1] IN
    /\ pc[w] \in {"begun", "claimed"}
    /\ \/ /\ ~Refused /\ AccountedFor(q) /\ HoldsLive(w, "CLAIMED")
          /\ FileHistory
          /\ Goto(w, IF pc[w] = "begun" THEN "rechecked" ELSE "reclaimed")
       \/ /\ ~Refused /\ ~AccountedFor(q)
          /\ FileCut
          /\ blocked' = TRUE
          /\ Raise(w)
       \/ /\ Refused \/ (AccountedFor(q) /\ ~HoldsLive(w, "CLAIMED"))
          /\ Raise(w)
          /\ UNCHANGED <<first, blocked>>
    /\ UNCHANGED <<cap, history, kept, total, attempt, reserved, doomed, runVars>>

\* and reads the request again.
ReadAgain(w) ==
    /\ pc[w] \in {"rechecked", "reclaimed"}
    /\ Agrees(at[w][1])
    /\ Goto(w, IF pc[w] = "rechecked" THEN "claimed" ELSE "preparing")
    /\ UNCHANGED <<ledgerVars, runVars>>

\* A readback of the worker's fails, as any readback may: the block is next.
ReadRefused(w) ==
    /\ pc[w] \in {"rechecked", "reclaimed"}
    /\ Doubt(at[w][1])
    /\ Raise(w)
    /\ UNCHANGED <<cap, blocked, history, kept, total, first, attempt, reserved, runVars>>

\* The provider is prepared, a few times if need be, or the job is left as it is.
Prepare(w) ==
    /\ pc[w] = "preparing"
    /\ Goto(w, "starting") \/ Raise(w)
    /\ UNCHANGED <<ledgerVars, runVars>>

\* start_..._run: the last check of the lease before the provider.
Start(w) ==
    LET j == at[w] IN
    /\ pc[w] = "starting"
    /\ \/ /\ HoldsLive(w, "CLAIMED")
          /\ run' = [run EXCEPT ![j] = "RUNNING"]
          /\ UNCHANGED <<live, owner, why, evidence, calls>>
          /\ Goto(w, "started") \/ End(w, "START_RESPONSE_AMBIGUOUS")
       \/ UNCHANGED runVars /\ End(w, "START_RESPONSE_AMBIGUOUS")
    /\ UNCHANGED ledgerVars

\* heartbeat_..._run: before the provider and after it.  A beat during the call
\* that fails is found after it.
Beat(w) ==
    /\ pc[w] \in {"started", "answered"}
    /\ \/ HoldsLive(w, "RUNNING") /\ Goto(w, IF pc[w] = "started" THEN "ready" ELSE "completing")
       \/ End(w, "HEARTBEAT_FAILED")
    /\ UNCHANGED <<ledgerVars, runVars>>

CallProvider(w) ==
    /\ pc[w] = "ready"
    /\ calls' = [calls EXCEPT ![at[w]] = @ + 1]
    /\ Goto(w, "calling")
    /\ UNCHANGED <<ledgerVars, run, live, owner, why, evidence>>

ProviderReturns(w) ==
    /\ pc[w] = "calling"
    /\ Goto(w, "answered") \/ End(w, "PROVIDER_RESPONSE_AMBIGUOUS")
    /\ UNCHANGED <<ledgerVars, runVars>>

\* complete_..._run measures the answer and files the evidence.
Complete(w) ==
    LET j == at[w] IN
    /\ pc[w] = "completing"
    /\ \/ /\ HoldsLive(w, "RUNNING")
          /\ run' = [run EXCEPT ![j] = "COMPLETED"]
          /\ evidence' = [evidence EXCEPT ![j] = w]
          /\ UNCHANGED <<live, owner, why, calls>>
          /\ Return(w, "COMPLETED") \/ Goto(w, "reading")
       \/ UNCHANGED runVars /\ Goto(w, "reading")
    /\ UNCHANGED ledgerVars

\* Whether the completion took effect is read back by run id.
ReadEvidence(w) ==
    LET j == at[w] IN
    /\ pc[w] = "reading"
    /\ \/ evidence[j] # NoWorker /\ Return(w, "COMPLETED")
       \/ evidence[j] = NoWorker /\ End(w, "COMPLETION_FAILED")
       \/ End(w, "COMPLETION_READBACK_AMBIGUOUS")
    /\ UNCHANGED <<ledgerVars, runVars>>

-----------------------------------------------------------------------------
\* Mutant: the token is enough.
MayMarkAny(w) == owner[at[w]] = w

\* mark_..._incomplete needs the token and a RUNNING row, not a live lease.
MayMark(w) == Holds(w, "RUNNING")

MarkIncomplete(w) ==
    LET j == at[w] IN
    /\ pc[w] = "ending"
    /\ \/ /\ MayMark(w)
          /\ run' = [run EXCEPT ![j] = "CONTROL_INCOMPLETE"]
          /\ why' = [why EXCEPT ![j] = say[w]]
          /\ UNCHANGED <<live, owner, evidence, calls>>
          /\ Return(w, say[w]) \/ Goto(w, "checking")
       \/ UNCHANGED runVars /\ Goto(w, "checking")
    /\ UNCHANGED ledgerVars

\* Mutant: any incomplete run was closed by this worker.
Closed(w) == run[at[w]] = "CONTROL_INCOMPLETE"

ClosedAsSaid(w) == run[at[w]] = "CONTROL_INCOMPLETE" /\ why[at[w]] = say[w]

\* The worker believes only the row: the outcome it reads is its answer, its own
\* reason or the evidence; a run still RUNNING is marked once more.
CheckStatus(w) ==
    LET j == at[w] IN
    /\ pc[w] = "checking"
    /\ \/ ClosedAsSaid(w) /\ Return(w, say[w])
       \/ run[j] = "COMPLETED" /\ Return(w, "COMPLETED")
       \/ /\ run[j] = "RUNNING" /\ ~again[w]
          /\ pc' = [pc EXCEPT ![w] = "ending"]
          /\ again' = [again EXCEPT ![w] = TRUE]
          /\ UNCHANGED <<at, say, answer>>
       \/ Raise(w)
    /\ UNCHANGED <<ledgerVars, runVars>>

Lapse(j) ==
    /\ run[j] \in {"CLAIMED", "RUNNING"} /\ live[j]
    /\ live' = [live EXCEPT ![j] = FALSE]
    /\ UNCHANGED <<ledgerVars, run, owner, why, evidence, calls, workerVars>>

Expired(j) == run[j] = "RUNNING" /\ ~live[j]

\* The operation that closes what a lost worker left; nothing in src calls it
\* but the tests.
ReconcileExpired(j) ==
    /\ Expired(j)
    /\ evidence[j] = NoWorker
    /\ run' = [run EXCEPT ![j] = "CONTROL_INCOMPLETE"]
    /\ why' = [why EXCEPT ![j] = Lost]
    /\ UNCHANGED <<ledgerVars, live, owner, evidence, calls, workerVars>>

\* A worker dies, or gives up before it has claimed anything.
Die(w) ==
    /\ pc[w] # "idle"
    /\ Raise(w)
    /\ UNCHANGED <<ledgerVars, runVars>>

Step(w) ==
    \/ \E j \in Jobs : TakeJob(w, j)
    \/ Begin(w) \/ Revalidate(w) \/ ReadAgain(w) \/ ReadRefused(w) \/ Prepare(w)
    \/ Start(w) \/ Beat(w) \/ CallProvider(w) \/ ProviderReturns(w)
    \/ Complete(w) \/ ReadEvidence(w) \/ MarkIncomplete(w) \/ CheckStatus(w)
    \/ Die(w)

Next ==
    \/ LedgerNext /\ UNCHANGED <<runVars, workerVars>>
    \/ \E w \in Workers : Step(w)
    \/ \E j \in Jobs : Lapse(j) \/ ReconcileExpired(j)

Spec == Init /\ [][Next]_vars
-----------------------------------------------------------------------------
TypeOK ==
    /\ LedgerTypeOK
    /\ run \in [Jobs -> RunStates]
    /\ live \in [Jobs -> BOOLEAN]
    /\ owner \in [Jobs -> Workers \cup {NoWorker}]
    /\ why \in [Jobs -> Reasons \cup {Lost, "none"}]
    /\ evidence \in [Jobs -> Workers \cup {NoWorker}]
    /\ calls \in [Jobs -> Nat]
    /\ pc \in [Workers -> Places]
    /\ at \in [Workers -> Jobs \cup {NoJob}]
    /\ say \in [Workers -> Reasons \cup {"none"}]
    /\ again \in [Workers -> BOOLEAN]
    /\ answer \in [Workers -> Reasons \cup {"COMPLETED", "none"}]

\* The provider is called at most once for an item, and only for one the ledger
\* has charged: lost answers, lapsed leases and workers that die or come back
\* never buy the same generation twice.
ProviderOnce ==
    \A j \in Jobs :
        /\ calls[j] <= 1
        /\ calls[j] = 1 => reserved[j[1]].items >= j[2] /\ run[j] \in {"RUNNING"} \cup Terminal

\* Evidence is filed exactly by the runs that completed, for a provider call that
\* was made, and by the worker that holds the run.
EvidenceIsTheRuns ==
    \A j \in Jobs :
        /\ evidence[j] # NoWorker <=> run[j] = "COMPLETED"
        /\ evidence[j] # NoWorker => calls[j] = 1 /\ evidence[j] = owner[j]

\* What run_job returns is what the rows say, for good: COMPLETED only of a run
\* with evidence, a reason only of a run closed with that reason.
AnswersAreDurable ==
    \A w \in Workers :
        /\ answer[w] = "COMPLETED" => run[at[w]] = "COMPLETED"
        /\ answer[w] \in Reasons =>
              run[at[w]] = "CONTROL_INCOMPLETE" /\ why[at[w]] = answer[w]

\* A mission that was blocked before an item was claimed never buys it.
BlockComesFirst ==
    \A j \in Jobs : [](blocked /\ run[j] = "none" => [](calls[j] = 0))

\* An ended run keeps its state, reason and evidence; a reservation its place;
\* the block stays.
EndsAreFinal ==
    [][/\ \A j \in Jobs : run[j] \in Terminal =>
             run'[j] = run[j] /\ why'[j] = why[j] /\ evidence'[j] = evidence[j]
       /\ \A q \in Requests : IsReserved(q) => reserved'[q] = reserved[q]
       /\ blocked => blocked']_vars
\* An item is a job with one claim: it waits from the moment its arm is reserved,
\* is handed to one worker once, whatever becomes of that worker, and ends by what
\* its holder reports or by being closed for it.
Phase(j) ==
    CASE run[j] = "none"                  -> IF IsReserved(j[1]) THEN "waiting" ELSE "absent"
      [] run[j] \in {"CLAIMED", "RUNNING"} -> "held"
      [] run[j] = "COMPLETED"             -> "succeeded"
      [] run[j] = "CONTROL_INCOMPLETE"    -> "failed"

Lifecycle == INSTANCE JobLifecycle WITH
    Ceiling <- [j \in Jobs |-> 1],
    phase <- [j \in Jobs |-> Phase(j)],
    claims <- [j \in Jobs |-> IF run[j] = "none" THEN 0 ELSE 1]

KeepsLifecycle == Lifecycle!Spec

=============================================================================
