----------------------------- MODULE SurfaceQc -----------------------------
(***************************************************************************)
(* The catalogue of surfaces, the geometry verdicts P2 writes on it, and   *)
(* the queue of physical-QC jobs that hands surfaces to the ink model:     *)
(* `PostgresFleetStore` (fleet/postgres_store.py), the QC worker           *)
(* (qc_worker.py), the certification run (certifier.py) and the panel's    *)
(* defer, release and requeue routes.                                      *)
(*                                                                         *)
(* Every store method is one transaction and one action.  A certification  *)
(* run lists a surface, measures its bytes and records a verdict; a worker *)
(* claims, asks the route again, measures and reports; anything may happen *)
(* in between.  Several certification runs may overlap: P2 is a phase job  *)
(* like any other (module PhaseQueue), so two may be queued and one may be *)
(* run twice.                                                              *)
(***************************************************************************)
EXTENDS Integers

CONSTANTS
    Surfaces, Profiles, Artifacts,
    NoArtifact,   \* the row does not exist
    Areas,        \* measured areas
    Floor,        \* minimum_area_cm2 of the frozen routing policy
    Workers,      \* QC worker processes
    Lane,         \* per worker: the profiles it asks for
    NoJob,
    Runs,         \* certification runs, overlapping or not
    NoSurface,
    SampleOf,     \* per surface: its sample
    MaxClaims     \* bound on the claims of one job

\* area_cm2 IS NULL, or no routing receipt
Unmeasured == -1

Jobs == Surfaces \X Profiles

ASSUME SurfaceQcAssumption ==
    /\ NoArtifact \notin Artifacts
    /\ Areas \subseteq Nat
    /\ Floor \in Nat \ {0}
    /\ Lane \in [Workers -> SUBSET Profiles]
    /\ NoJob \notin Jobs
    /\ NoSurface \notin Surfaces
    /\ DOMAIN SampleOf = Surfaces
    /\ MaxClaims \in Nat

VARIABLES
    \* the row of segment_surfaces and its row of segment_surface_routing_receipts
    artifact, area, receipt, geometry, physical,
    predating, \* the surfaces that were queued before surfaces were routed
    \* the rows of segment_qc_jobs; a token is named by the claim that drew it
    state, claims, lapsed, held,
    \* the QC worker: where run_one is, what claim_qc handed it, the area it read
    pc, job, token, seen,
    \* the certification run: the surface it measures
    measuring

surfaceVars == <<artifact, area, receipt, geometry, physical, predating>>
jobVars     == <<state, claims, lapsed, held>>
workerVars  == <<pc, job, token, seen>>
vars == <<surfaceVars, jobVars, workerVars, measuring>>

\* The four named rejections are one: each of them keeps the surface back.
Geometries == {"UNMEASURED", "CERTIFIED", "REJECTED"}
\* SUPPORTED stands for the two admissible outcomes, INSUFFICIENT for the rest.
Outcomes  == {"SUPPORTED", "INSUFFICIENT"}
Physicals == {"UNVALIDATED"} \cup Outcomes

Unfinished == {"PENDING", "CLAIMED", "BLOCKED_CONFIGURATION", "WAITING_GEOMETRY"}
Finished   == {"COMPLETED", "FAILED", "SMALL_SURFACE_DIAGNOSTIC"}
JobStates  == {"absent"} \cup Unfinished \cup Finished

Known(s) == artifact[s] # NoArtifact

\* What a predating surface looks like: certified, of whatever area, with a
\* claimable job and no receipt, because nothing was routed when it was queued.
Init ==
    /\ predating \in SUBSET Surfaces
    /\ artifact \in [Surfaces -> Artifacts \cup {NoArtifact}]
    /\ \A s \in Surfaces : Known(s) <=> s \in predating
    /\ \A s, t \in predating : artifact[s] = artifact[t] => s = t
    /\ area \in [Surfaces -> Areas \cup {Unmeasured}]
    /\ \A s \in Surfaces \ predating : area[s] = Unmeasured
    /\ receipt = [s \in Surfaces |-> Unmeasured]
    /\ geometry = [s \in Surfaces |->
                     IF s \in predating THEN "CERTIFIED" ELSE "UNMEASURED"]
    /\ physical = [s \in Surfaces |-> "UNVALIDATED"]
    /\ state \in [Jobs -> {"absent", "PENDING"}]
    /\ \A s \in Surfaces, p \in Profiles :
         state[<<s, p>>] = "PENDING" => s \in predating
    /\ \A s \in predating : \E p \in Profiles :
         \A q \in Profiles : state[<<s, q>>] = "PENDING" <=> q = p
    /\ claims = [j \in Jobs |-> 0]
    /\ lapsed = [j \in Jobs |-> FALSE]
    /\ held = [j \in Jobs |-> FALSE]
    /\ pc = [w \in Workers |-> "idle"]
    /\ job = [w \in Workers |-> NoJob]
    /\ token = [w \in Workers |-> 0]
    /\ seen = [w \in Workers |-> Unmeasured]
    /\ measuring = [r \in Runs |-> NoSurface]

-----------------------------------------------------------------------------
(* Routing by size and by geometry. *)

\* enters_standard_qc of a receipt that says this area.
EntersStandardQc(a) == a >= Floor

\* Mutant: a stored receipt is trusted instead of decided again.
RoutableOnce(stored, measured) == stored # Unmeasured \/ measured # Unmeasured

\* _require_routing_receipt: a receipt is written once, from a measured area,
\* and a stored one must still agree with the area; otherwise it raises and the
\* transaction is undone.
Routable(stored, measured) ==
    IF stored = Unmeasured THEN measured # Unmeasured ELSE stored = measured

\* The receipt that call returns.
Receipted(stored, measured) == IF stored = Unmeasured THEN measured ELSE stored

\* Mutant: the job state before WAITING_GEOMETRY existed.
QcJobUnlessRejected(g) == IF g = "REJECTED" THEN "FAILED" ELSE "PENDING"

\* qc_job_state_for
QcJobStateFor(g) == CASE g = "REJECTED"   -> "FAILED"
                      [] g = "CERTIFIED"  -> "PENDING"
                      [] g = "UNMEASURED" -> "WAITING_GEOMETRY"

\* The size gate beside the geometry gate.
FirstState(g, a) ==
    IF EntersStandardQc(a) THEN QcJobStateFor(g) ELSE "SMALL_SURFACE_DIAGNOSTIC"

\* UNIQUE (source_snapshot_id, artifact_sha256), and find_duplicate before it.
Unshared(s, b) == \A t \in Surfaces \ {s} : artifact[t] # b

-----------------------------------------------------------------------------
(* Surfaces and their jobs come to exist. *)

\* import_surface: a catalogue row, routed when its area is measured; no job.
\* A catalogue may know the surface's physical state from elsewhere.
ImportSurface(s, b, a, v) ==
    /\ ~Known(s) /\ Unshared(s, b)
    /\ artifact' = [artifact EXCEPT ![s] = b]
    /\ area' = [area EXCEPT ![s] = a]
    /\ receipt' = [receipt EXCEPT ![s] = a]
    /\ physical' = [physical EXCEPT ![s] = v]
    /\ UNCHANGED <<geometry, predating, jobVars, workerVars, measuring>>

\* api_import: the panel writes the row itself, measured and unrouted.
PanelImport(s, b, a) ==
    /\ ~Known(s) /\ Unshared(s, b)
    /\ artifact' = [artifact EXCEPT ![s] = b]
    /\ area' = [area EXCEPT ![s] = a]
    /\ UNCHANGED <<receipt, geometry, physical, predating, jobVars, workerVars, measuring>>

\* backfill_routing_receipts: every measured surface without a receipt gets one.
BackfillReceipts ==
    /\ receipt' = [s \in Surfaces |-> Receipted(receipt[s], area[s])]
    /\ receipt' # receipt
    /\ UNCHANGED <<artifact, area, geometry, physical, predating,
                   jobVars, workerVars, measuring>>

\* A new row with its receipt and its first job, in one transaction.
Create(s, p, b, a, g, first) ==
    /\ ~Known(s) /\ Unshared(s, b)
    /\ artifact' = [artifact EXCEPT ![s] = b]
    /\ area' = [area EXCEPT ![s] = a]
    /\ receipt' = [receipt EXCEPT ![s] = a]
    /\ geometry' = [geometry EXCEPT ![s] = g]
    /\ state' = [state EXCEPT ![<<s, p>>] = first]
    /\ UNCHANGED <<physical, predating, claims, lapsed, held, workerVars, measuring>>

\* finalize: the finalizer certified the grown bytes, or could not.
Finalize(s, p, b, a) == \E g \in Geometries : Create(s, p, b, a, g, FirstState(g, a))

\* register_merged_surface: refused by its runner unless certified, so its job
\* asks for the size alone.  The id of a merged surface names its profile and its
\* bytes, so a replay changes nothing.
RegisterMerged(s, p, b, a) ==
    Create(s, p, b, a, "CERTIFIED",
           IF EntersStandardQc(a) THEN "PENDING" ELSE "SMALL_SURFACE_DIAGNOSTIC")

\* Mutant: the verdict the surface already carries is not consulted.
StateOfImport(s, a) == FirstState("UNMEASURED", Receipted(receipt[s], a))

\* The verdict a row already carries outranks the default.  A payload that named
\* one would outrank both; the one caller, command_qc_enqueue_backfill, writes the
\* payload itself and names none.
StateOfBackfill(s, a) == FirstState(geometry[s], Receipted(receipt[s], a))

\* enqueue_imported_surface_qc: the first job of one profile for a surface that
\* is inserted, or reconciled while no physical verdict exists.  With a job of
\* this profile already there it changes nothing.
EnqueueImported(s, p, b, a) ==
    /\ state[<<s, p>>] = "absent"
    /\ physical[s] = "UNVALIDATED"
    /\ Unshared(s, b)
    /\ Routable(receipt[s], a)
    /\ artifact' = [artifact EXCEPT ![s] = b]
    /\ area' = [area EXCEPT ![s] = a]
    /\ receipt' = [receipt EXCEPT ![s] = Receipted(@, a)]
    /\ state' = [state EXCEPT ![<<s, p>>] = StateOfBackfill(s, a)]
    /\ UNCHANGED <<geometry, physical, predating, claims, lapsed, held,
                   workerVars, measuring>>

-----------------------------------------------------------------------------
(* P2: a certification run gives verdicts to surfaces that have none. *)

\* surfaces_without_geometry_verdict
ListSurface(r, s) ==
    /\ measuring[r] = NoSurface
    /\ Known(s) /\ geometry[s] = "UNMEASURED"
    /\ measuring' = [measuring EXCEPT ![r] = s]
    /\ UNCHANGED <<surfaceVars, jobVars, workerVars>>

\* Promoted by a certificate, which is not a size verdict.
Promoted(s) == FirstState("CERTIFIED", Receipted(receipt[s], area[s]))

\* What a verdict does to the surface's job of one profile: certified promotes
\* what waits, if its size allows; rejected fails what is not yet claimed.
AfterVerdict(s, p, g) ==
    CASE g = "CERTIFIED" /\ state[<<s, p>>] = "WAITING_GEOMETRY" -> Promoted(s)
      [] g = "REJECTED" /\ state[<<s, p>>] \in {"PENDING", "WAITING_GEOMETRY"} -> "FAILED"
      [] OTHER -> state[<<s, p>>]

Waits(s) == \E p \in Profiles : state[<<s, p>>] = "WAITING_GEOMETRY"

RunLeaves(r) == measuring' = [measuring EXCEPT ![r] = NoSurface]

\* record_geometry_certification.  A run that could not fetch or finish the
\* bytes it listed records UNMEASURED.  Promotion needs a receipt that stands,
\* and writes one where there is none.
RecordVerdict(r, g) ==
    /\ measuring[r] # NoSurface
    /\ LET s == measuring[r]
           promotes == g = "CERTIFIED" /\ Waits(s)
       IN /\ promotes => Routable(receipt[s], area[s])
          /\ geometry' = [geometry EXCEPT ![s] = g]
          /\ receipt' = [receipt EXCEPT ![s] = IF promotes THEN Receipted(@, area[s]) ELSE @]
          /\ state' = [j \in Jobs |->
                         IF j[1] = s THEN AfterVerdict(s, j[2], g) ELSE state[j]]
    /\ held' = [j \in Jobs |-> held[j] /\ state'[j] = "PENDING"]
    /\ RunLeaves(r)
    /\ UNCHANGED <<artifact, area, physical, predating, claims, lapsed, workerVars>>

\* The run dies, or the transaction above is undone, before a verdict lands.
RunDies(r) ==
    /\ measuring[r] # NoSurface
    /\ RunLeaves(r)
    /\ UNCHANGED <<surfaceVars, jobVars, workerVars>>

-----------------------------------------------------------------------------
(* claim_qc and the leases. *)

Lapse(j) ==
    /\ state[j] = "CLAIMED" /\ ~lapsed[j]
    /\ lapsed' = [lapsed EXCEPT ![j] = TRUE]
    /\ UNCHANGED <<surfaceVars, state, claims, held, workerVars, measuring>>

\* The UPDATE claim_qc opens with: every lapsed lease goes back to PENDING.
Recycled == [j \in Jobs |->
               IF state[j] = "CLAIMED" /\ lapsed[j] THEN "PENDING" ELSE state[j]]

Ready(w, j) == j[2] \in Lane[w] /\ Recycled[j] = "PENDING" /\ ~held[j]

\* Nothing of w's profiles is ready: the recycling is all that commits.
ClaimNothing(w) ==
    /\ pc[w] = "idle"
    /\ \A j \in Jobs : ~Ready(w, j)
    /\ Recycled # state
    /\ state' = Recycled
    /\ lapsed' = [j \in Jobs |-> FALSE]
    /\ UNCHANGED <<surfaceVars, claims, held, workerVars, measuring>>

\* FOR UPDATE SKIP LOCKED may pass over any row another transaction holds, so
\* any ready job may be the first.
ClaimQc(w, j) ==
    /\ pc[w] = "idle" /\ Ready(w, j)
    /\ claims[j] < MaxClaims
    /\ state' = [Recycled EXCEPT ![j] = "CLAIMED"]
    /\ claims' = [claims EXCEPT ![j] = @ + 1]
    /\ lapsed' = [i \in Jobs |-> FALSE]
    /\ pc' = [pc EXCEPT ![w] = "reading"]
    /\ job' = [job EXCEPT ![w] = j]
    /\ token' = [token EXCEPT ![w] = claims[j] + 1]
    /\ UNCHANGED <<surfaceVars, held, seen, measuring>>

-----------------------------------------------------------------------------
(* SurfaceQcWorker.run_one. *)

\* Mutant: the lease is the job's, whoever holds it.
HoldsWithoutToken(w) ==
    job[w] \in Jobs /\ state[job[w]] = "CLAIMED" /\ ~lapsed[job[w]]

\* state='CLAIMED' AND lease_token_hash=%s AND lease_expires_at>now()
Holds(w) ==
    /\ job[w] \in Jobs
    /\ state[job[w]] = "CLAIMED" /\ ~lapsed[job[w]]
    /\ claims[job[w]] = token[w]

\* Mutant: the attempt's claim outlives it.
LeaveJobRemembered(w) ==
    /\ pc' = [pc EXCEPT ![w] = "idle"]
    /\ UNCHANGED <<job, token, seen>>

\* run_one returns or raises.
LeaveJob(w) ==
    /\ pc' = [pc EXCEPT ![w] = "idle"]
    /\ job' = [job EXCEPT ![w] = NoJob]
    /\ token' = [token EXCEPT ![w] = 0]
    /\ seen' = [seen EXCEPT ![w] = Unmeasured]

\* _current_surface: the row is read again, and with it the area.
ReadSurface(w) ==
    /\ pc[w] = "reading"
    /\ pc' = [pc EXCEPT ![w] = "routing"]
    /\ seen' = [seen EXCEPT ![w] = area[job[w][1]]]
    /\ UNCHANGED <<surfaceVars, jobVars, job, token, measuring>>

\* Mutant: the area that was read decides, and the receipt where there is none.
AdmitsTheAreaRead(w) ==
    EntersStandardQc(IF seen[w] # Unmeasured THEN seen[w] ELSE receipt[job[w][1]])

\* _current_route, a second read: the stored receipt decides, and where there is
\* none the area that the first read found.
Admits(w) ==
    LET stored == receipt[job[w][1]] IN
    EntersStandardQc(IF stored # Unmeasured THEN stored ELSE seen[w])

AskRoute(w) ==
    /\ pc[w] = "routing"
    /\ Admits(w)
    /\ pc' = [pc EXCEPT ![w] = "measuring"]
    /\ UNCHANGED <<surfaceVars, jobVars, job, token, seen, measuring>>

\* A store call of the worker that moves the job to st, if the lease is its own.
Settle(w, st) ==
    /\ Holds(w)
    /\ state' = [state EXCEPT ![job[w]] = st]
    /\ LeaveJob(w)
    /\ UNCHANGED <<claims, lapsed, artifact, area, receipt, geometry, predating, measuring>>

\* block_qc_configuration, for a surface the route refuses.
BlockMisrouted(w) ==
    /\ pc[w] = "routing"
    /\ ~Admits(w)
    /\ Settle(w, "BLOCKED_CONFIGURATION")
    /\ UNCHANGED <<held, physical>>

\* block_qc_configuration, for an adapter that exits with EX_CONFIG.
BlockConfiguration(w) ==
    /\ pc[w] = "measuring"
    /\ Settle(w, "BLOCKED_CONFIGURATION")
    /\ UNCHANGED <<held, physical>>

\* requeue_qc_unavailable: no GPU, no room on it, or an execution that failed.
RequeueUnavailable(w) ==
    /\ pc[w] = "measuring"
    /\ Settle(w, "PENDING")
    /\ held' = [held EXCEPT ![job[w]] = TRUE]
    /\ UNCHANGED physical

\* finalize_qc
FinalizeQc(w, outcome) ==
    /\ pc[w] = "measuring"
    /\ Settle(w, "COMPLETED")
    /\ physical' = [physical EXCEPT ![job[w][1]] = outcome]
    /\ UNCHANGED held

\* The process dies, its heartbeat was refused so ensure() stops it, or a store
\* call found the lease gone and raised: the worker leaves no trace.
Abandon(w) ==
    /\ pc[w] # "idle"
    /\ LeaveJob(w)
    /\ UNCHANGED <<surfaceVars, jobVars, measuring>>

-----------------------------------------------------------------------------
(* Time, and the panel. *)

RetryDue(j) ==
    /\ held[j] /\ state[j] = "PENDING"
    /\ held' = [held EXCEPT ![j] = FALSE]
    /\ UNCHANGED <<surfaceVars, state, claims, lapsed, workerVars, measuring>>

JobsOf(sample, st) == {j \in Jobs : SampleOf[j[1]] = sample /\ state[j] = st}

\* defer_qc_jobs
DeferQcJobs(sample) ==
    /\ held' = [j \in Jobs |-> held[j] \/ j \in JobsOf(sample, "PENDING")]
    /\ held' # held
    /\ UNCHANGED <<surfaceVars, state, claims, lapsed, workerVars, measuring>>

\* release_qc_jobs
ReleaseQcJobs(sample) ==
    /\ held' = [j \in Jobs |-> held[j] /\ j \notin JobsOf(sample, "PENDING")]
    /\ held' # held
    /\ UNCHANGED <<surfaceVars, state, claims, lapsed, workerVars, measuring>>

\* requeue_blocked_qc_jobs
RequeueBlocked(sample) ==
    LET blocked == JobsOf(sample, "BLOCKED_CONFIGURATION") IN
    /\ blocked # {}
    /\ state' = [j \in Jobs |-> IF j \in blocked THEN "PENDING" ELSE state[j]]
    /\ held' = [j \in Jobs |-> held[j] /\ j \notin blocked]
    /\ UNCHANGED <<surfaceVars, claims, lapsed, workerVars, measuring>>

-----------------------------------------------------------------------------
CatalogueStep(s) ==
    \E b \in Artifacts :
        \/ \E a \in Areas \cup {Unmeasured}, v \in Physicals : ImportSurface(s, b, a, v)
        \/ \E a \in Areas : PanelImport(s, b, a)
        \/ \E p \in Profiles, a \in Areas :
             \/ Finalize(s, p, b, a)
             \/ RegisterMerged(s, p, b, a)
             \/ EnqueueImported(s, p, b, a)

RunStep(r) ==
    \/ \E s \in Surfaces : ListSurface(r, s)
    \/ \E g \in Geometries : RecordVerdict(r, g)
    \/ RunDies(r)

WorkerStep(w) ==
    \/ ClaimNothing(w)
    \/ \E j \in Jobs : ClaimQc(w, j)
    \/ ReadSurface(w) \/ AskRoute(w) \/ BlockMisrouted(w)
    \/ BlockConfiguration(w) \/ RequeueUnavailable(w) \/ Abandon(w)
    \/ \E outcome \in Outcomes : FinalizeQc(w, outcome)

Samples == {SampleOf[s] : s \in Surfaces}

PanelStep(sample) == DeferQcJobs(sample) \/ ReleaseQcJobs(sample) \/ RequeueBlocked(sample)

Next == \/ \E s \in Surfaces : CatalogueStep(s)
        \/ BackfillReceipts
        \/ \E r \in Runs : RunStep(r)
        \/ \E w \in Workers : WorkerStep(w)
        \/ \E sample \in Samples : PanelStep(sample)
        \/ \E j \in Jobs : Lapse(j) \/ RetryDue(j)

Spec == Init /\ [][Next]_vars

-----------------------------------------------------------------------------
(* Properties. *)

\* Every variable stays in its type; a worker away from a job remembers none,
\* no job is held or claimed before it exists, and only a known surface has one.
TypeOK ==
    /\ artifact \in [Surfaces -> Artifacts \cup {NoArtifact}]
    /\ area \in [Surfaces -> Areas \cup {Unmeasured}]
    /\ receipt \in [Surfaces -> Areas \cup {Unmeasured}]
    /\ geometry \in [Surfaces -> Geometries]
    /\ physical \in [Surfaces -> Physicals]
    /\ predating \subseteq Surfaces
    /\ state \in [Jobs -> JobStates]
    /\ claims \in [Jobs -> Nat]
    /\ lapsed \in [Jobs -> BOOLEAN]
    /\ held \in [Jobs -> BOOLEAN]
    /\ pc \in [Workers -> {"idle", "reading", "routing", "measuring"}]
    /\ job \in [Workers -> Jobs \cup {NoJob}]
    /\ token \in [Workers -> Nat]
    /\ seen \in [Workers -> Areas \cup {Unmeasured}]
    /\ measuring \in [Runs -> Surfaces \cup {NoSurface}]
    /\ \A w \in Workers : pc[w] = "idle" <=> job[w] = NoJob
    /\ \A r \in Runs : measuring[r] # NoSurface => Known(measuring[r])
    /\ \A j \in Jobs : /\ state[j] # "absent" => Known(j[1])
                       /\ lapsed[j] => state[j] = "CLAIMED"
                       /\ held[j] => state[j] = "PENDING"

\* A job is never left waiting for a verdict its surface already has: whichever
\* of certifying and enqueueing comes first, and however runs overlap, "waiting
\* is not the same as stranded" (record_geometry_certification and
\* enqueue_imported_surface_qc).
WaitingIsNotStranded ==
    \A s \in Surfaces, p \in Profiles :
        state[<<s, p>>] = "WAITING_GEOMETRY" => geometry[s] = "UNMEASURED"

\* No surface below the floor has a job that can still be measured or ever was,
\* in any profile, whatever its geometry and however its row was reconciled: it
\* stays diagnostic for good (_require_routing_receipt at all three inserts and
\* at promotion).  Surfaces queued before routing existed are the exception.
SmallNeverEntersQc ==
    \A s \in Surfaces \ predating, p \in Profiles :
        state[<<s, p>>] \in Unfinished \cup {"COMPLETED"} =>
            receipt[s] = area[s] /\ EntersStandardQc(area[s])

\* No measurement of a surface below the floor is started, one queued before
\* routing existed included: the worker reads area and receipt again after the
\* claim, one after the other, and whatever a backfill for another profile does
\* to the surface before, between and after the two, what they say together
\* holds when it starts (SurfaceQcWorker._current_surface, _current_route).
\* While a surface is measured that backfill may still give it another area.
NothingSmallIsStarted ==
    [][\A w \in Workers :
         pc[w] # "measuring" /\ pc'[w] = "measuring" =>
             EntersStandardQc(area[job[w][1]])]_vars

\* However many certification runs overlap, a job becomes one that can be measured
\* only by a step that leaves its surface certified: what a second run can do is
\* take the certificate back later (qc_job_state_for, record_geometry_certification).
OffersFollowCertificates ==
    [][\A j \in Jobs :
         /\ state[j] \notin {"PENDING", "CLAIMED", "BLOCKED_CONFIGURATION"}
         /\ state'[j] \in {"PENDING", "CLAIMED", "BLOCKED_CONFIGURATION"}
         => geometry'[j[1]] = "CERTIFIED"]_vars

\* No step takes a job out of an end: a completed one is not measured again, a
\* refused one is not revived, a diagnostic one is not promoted in place.
FinishedForGood ==
    [][\A j \in Jobs : state[j] \in Finished => state'[j] = state[j]]_vars

\* The physical verdict of a known surface is written only while the job that measured it is still
\* that measurement's own: whoever lost the lease, to a lapse, a recycling or
\* another worker's claim, leaves the surface as it was (finalize_qc).
VerdictEndsItsJob ==
    [][\A s \in Surfaces : Known(s) /\ physical'[s] # physical[s] =>
         \E w \in Workers : LET j == job[w] IN
             /\ j \in Jobs /\ j[1] = s /\ claims[j] = token[w]
             /\ \A v \in Workers \ {w} : job[v] = j => token[v] # token[w]
             /\ state[j] = "CLAIMED" /\ state'[j] = "COMPLETED"]_vars

-----------------------------------------------------------------------------
(* What a test says of the queue, and overlapping runs do not keep. *)

\* "The queue must refuse to hand a geometrically rejected surface to QC"
\* (tests/test_geometry_certification.py): a job is claimed only while its
\* surface is not rejected.
RejectedIsNeverHanded ==
    [][\A j \in Jobs : claims'[j] # claims[j] => geometry[j[1]] # "REJECTED"]_vars

=============================================================================
