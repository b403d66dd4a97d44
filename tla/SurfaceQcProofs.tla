-------------------------- MODULE SurfaceQcProofs --------------------------
(***************************************************************************)
(* Proofs about SurfaceQc, for any surfaces, profiles, areas, workers and  *)
(* certification runs.                                                     *)
(***************************************************************************)
EXTENDS SurfaceQc, TLAPS

\* A catalogue row without a job, and one with its first job.
Imported(s, b, a) == PanelImport(s, b, a) \/ \E v \in Physicals : ImportSurface(s, b, a, v)
Created(s, p, b, a, g) == Create(s, p, b, a, g, FirstState(g, a))

\* The job of a merged surface is what geometry and size call for as well.
LEMMA MergedIsCreated ==
    ASSUME NEW s, NEW p, NEW b, NEW a, RegisterMerged(s, p, b, a)
    PROVE  Created(s, p, b, a, "CERTIFIED")
BY DEF RegisterMerged, Created, FirstState, QcJobStateFor

\* A job is the pair of its surface and its profile.
LEMMA JobParts ==
    /\ \A j \in Jobs : j[1] \in Surfaces /\ j[2] \in Profiles /\ j = <<j[1], j[2]>>
    /\ \A s \in Surfaces, p \in Profiles :
         <<s, p>> \in Jobs /\ <<s, p>>[1] = s /\ <<s, p>>[2] = p
BY DEF Jobs

\* A first state is a claimable, a waiting or a refused job's.
LEMMA FirstStates ==
    ASSUME NEW g \in Geometries, NEW a
    PROVE  /\ FirstState(g, a) \in
                {"PENDING", "WAITING_GEOMETRY", "FAILED", "SMALL_SURFACE_DIAGNOSTIC"}
           /\ FirstState(g, a) = "PENDING" => g = "CERTIFIED"
           /\ FirstState(g, a) = "WAITING_GEOMETRY" => g = "UNMEASURED"
           /\ FirstState(g, a) \in {"PENDING", "WAITING_GEOMETRY"} => EntersStandardQc(a)
BY DEF Geometries, FirstState, QcJobStateFor

\* What a verdict leaves of a job: itself, or a promotion or a refusal of one
\* that waited or was not yet claimed.
LEMMA VerdictOnJob ==
    ASSUME NEW s, NEW p, NEW g \in Geometries
    PROVE  \/ AfterVerdict(s, p, g) = state[<<s, p>>]
           \/ /\ state[<<s, p>>] \in {"PENDING", "WAITING_GEOMETRY"}
              /\ AfterVerdict(s, p, g) \in {"PENDING", "FAILED", "SMALL_SURFACE_DIAGNOSTIC"}
              /\ AfterVerdict(s, p, g) = "PENDING" => g = "CERTIFIED"
<1>1. /\ Promoted(s) \in {"PENDING", "WAITING_GEOMETRY", "FAILED", "SMALL_SURFACE_DIAGNOSTIC"}
      /\ Promoted(s) # "WAITING_GEOMETRY" /\ Promoted(s) # "FAILED"
  BY DEF Promoted, FirstState, QcJobStateFor
<1> HIDE DEF Promoted
<1> QED BY <1>1 DEF AfterVerdict

-----------------------------------------------------------------------------
\* The steps of a worker that settle or leave its job share these effects.
LEMMA SettleTypes ==
    ASSUME TypeOK, NEW w \in Workers, NEW st \in JobStates \ {"absent", "CLAIMED"},
           Settle(w, st), physical' \in [Surfaces -> Physicals],
           held' = held \/ (st = "PENDING" /\ held' = [held EXCEPT ![job[w]] = TRUE])
    PROVE  TypeOK'
<1> USE SurfaceQcAssumption DEF TypeOK
<1>1. job[w] \in Jobs /\ state[job[w]] = "CLAIMED" /\ ~lapsed[job[w]]
  BY DEF Settle, Holds
<1>2. /\ state' = [state EXCEPT ![job[w]] = st]
      /\ UNCHANGED <<claims, lapsed, artifact, area, receipt, geometry, predating>>
      /\ UNCHANGED measuring
  BY DEF Settle
<1>3. /\ pc' = [pc EXCEPT ![w] = "idle"] /\ job' = [job EXCEPT ![w] = NoJob]
      /\ token' = [token EXCEPT ![w] = 0] /\ seen' = [seen EXCEPT ![w] = Unmeasured]
  BY DEF Settle, LeaveJob
<1>4. \A j \in Jobs : /\ state'[j] # "absent" => Known(j[1])'
                      /\ lapsed'[j] => state'[j] = "CLAIMED"
                      /\ held'[j] => state'[j] = "PENDING"
  BY <1>1, <1>2 DEF Known
<1>5. \A v \in Workers : pc'[v] = "idle" <=> job'[v] = NoJob
  BY <1>3
<1>6. \A r \in Runs : measuring'[r] # NoSurface => Known(measuring[r])'
  BY <1>2 DEF Known
<1>7. state' \in [Jobs -> JobStates] /\ held' \in [Jobs -> BOOLEAN]
  BY <1>1, <1>2
<1>8. /\ pc' \in [Workers -> {"idle", "reading", "routing", "measuring"}]
      /\ job' \in [Workers -> Jobs \cup {NoJob}]
      /\ token' \in [Workers -> Nat]
      /\ seen' \in [Workers -> Areas \cup {Unmeasured}]
  BY <1>3
<1> QED BY <1>2, <1>4, <1>5, <1>6, <1>7, <1>8

\* A surface created with its first job is well typed.
LEMMA CreateTypes ==
    ASSUME TypeOK, NEW s \in Surfaces, NEW p \in Profiles, NEW b \in Artifacts,
           NEW a \in Areas, NEW g \in Geometries, Created(s, p, b, a, g)
    PROVE  TypeOK'
<1> USE SurfaceQcAssumption, JobParts DEF TypeOK
<1>1. FirstState(g, a) \in JobStates
  BY FirstStates DEF JobStates, Unfinished, Finished
<1>2. state' \in [Jobs -> JobStates] /\ state[<<s, p>>] = "absent"
  BY <1>1 DEF Created, Create, Known
<1>3. \A t \in Surfaces : Known(t) => Known(t)'
  BY DEF Created, Create, Known
<1>4. \A j \in Jobs : /\ state'[j] # "absent" => Known(j[1])'
                      /\ lapsed'[j] => state'[j] = "CLAIMED"
                      /\ held'[j] => state'[j] = "PENDING"
  BY <1>2, <1>3 DEF Created, Create, Known
<1> QED BY <1>2, <1>3, <1>4 DEF Created, Create, workerVars, Known, Geometries

\* So is whatever an import, a finalizer, a merge or a backfill writes.
LEMMA CatalogueTypes == ASSUME TypeOK, NEW s \in Surfaces, CatalogueStep(s) PROVE TypeOK'
<1> USE SurfaceQcAssumption, JobParts
<1>1. PICK b \in Artifacts :
        \/ \E a \in Areas \cup {Unmeasured} : Imported(s, b, a)
        \/ \E p \in Profiles, a \in Areas :
             Finalize(s, p, b, a) \/ RegisterMerged(s, p, b, a) \/ EnqueueImported(s, p, b, a)
  BY DEF CatalogueStep, Imported
<1>2. ASSUME NEW a \in Areas \cup {Unmeasured}, Imported(s, b, a)
      PROVE  TypeOK'
  <2>1. ASSUME NEW v \in Physicals, ImportSurface(s, b, a, v) PROVE TypeOK'
    BY <2>1 DEF ImportSurface, TypeOK, Known, jobVars, workerVars
  <2>2. CASE PanelImport(s, b, a)
    BY <2>2 DEF PanelImport, TypeOK, Known, jobVars, workerVars
  <2> QED BY <1>2, <2>1, <2>2 DEF Imported
<1>3. ASSUME NEW p \in Profiles, NEW a \in Areas,
             Finalize(s, p, b, a) \/ RegisterMerged(s, p, b, a)
      PROVE  TypeOK'
  BY <1>3, CreateTypes, MergedIsCreated DEF Finalize, Created, Geometries
<1>4. ASSUME NEW p \in Profiles, NEW a \in Areas, EnqueueImported(s, p, b, a)
      PROVE  TypeOK'
  <2> USE DEF TypeOK
  <2>1. StateOfBackfill(s, a) \in JobStates
    BY FirstStates DEF StateOfBackfill, JobStates, Unfinished, Finished
  <2>2. state' \in [Jobs -> JobStates] /\ state[<<s, p>>] = "absent"
    BY <1>4, <2>1 DEF EnqueueImported
  <2>3. Known(s)' /\ \A t \in Surfaces : Known(t) => Known(t)'
    BY <1>4 DEF EnqueueImported, Known
  <2>4. \A j \in Jobs : /\ state'[j] # "absent" => Known(j[1])'
                        /\ lapsed'[j] => state'[j] = "CLAIMED"
                        /\ held'[j] => state'[j] = "PENDING"
    <3>1. state' = [state EXCEPT ![<<s, p>>] = StateOfBackfill(s, a)] /\ UNCHANGED <<lapsed, held>>
      BY <1>4 DEF EnqueueImported
    <3> TAKE j \in Jobs
    <3>2. CASE j = <<s, p>>
      BY <2>2, <2>3, <3>1, <3>2
    <3>3. CASE j # <<s, p>>
      <4>1. state'[j] = state[j]
        BY <3>1, <3>3
      <4> QED BY <2>3, <3>1, <4>1
    <3> QED BY <3>2, <3>3
  <2>5. /\ artifact' \in [Surfaces -> Artifacts \cup {NoArtifact}]
        /\ area' \in [Surfaces -> Areas \cup {Unmeasured}]
        /\ receipt' \in [Surfaces -> Areas \cup {Unmeasured}]
    BY <1>4 DEF EnqueueImported, Receipted
  <2> QED BY <1>4, <2>2, <2>3, <2>4, <2>5
          DEF EnqueueImported, workerVars
<1> QED BY <1>1, <1>2, <1>3, <1>4

\* A certification run keeps the types: it lists, records, or dies.
LEMMA RunTypes == ASSUME TypeOK, NEW r \in Runs, RunStep(r) PROVE TypeOK'
<1> USE SurfaceQcAssumption, JobParts
<1>1. ASSUME NEW s \in Surfaces, ListSurface(r, s) PROVE TypeOK'
  BY <1>1 DEF ListSurface, TypeOK, Known, surfaceVars, jobVars, workerVars
<1>2. ASSUME NEW g \in Geometries, RecordVerdict(r, g) PROVE TypeOK'
  <2> USE DEF TypeOK
  <2> DEFINE s == measuring[r]
  <2>1. s \in Surfaces /\ Known(s)
    BY <1>2 DEF RecordVerdict
  <2>2. \A p \in Profiles :
          \/ AfterVerdict(s, p, g) = state[<<s, p>>]
          \/ /\ state[<<s, p>>] \in {"PENDING", "WAITING_GEOMETRY"}
             /\ AfterVerdict(s, p, g) \in {"PENDING", "FAILED", "SMALL_SURFACE_DIAGNOSTIC"}
    BY VerdictOnJob
  <2>3. state' = [j \in Jobs |-> IF j[1] = s THEN AfterVerdict(s, j[2], g) ELSE state[j]]
    BY <1>2 DEF RecordVerdict
  <2>4. \A j \in Jobs : \/ state'[j] = state[j]
                        \/ /\ state[j] \in {"PENDING", "WAITING_GEOMETRY"}
                           /\ state'[j] \in {"PENDING", "FAILED", "SMALL_SURFACE_DIAGNOSTIC"}
    BY <2>1, <2>2, <2>3
  <2>5. state' \in [Jobs -> JobStates]
    BY <2>3, <2>4 DEF JobStates, Unfinished, Finished
  <2>6. /\ UNCHANGED <<artifact, area, physical, predating, claims, lapsed, workerVars>>
        /\ held' = [j \in Jobs |-> held[j] /\ state'[j] = "PENDING"]
        /\ measuring' = [measuring EXCEPT ![r] = NoSurface]
    BY <1>2 DEF RecordVerdict, RunLeaves
  <2>7. /\ geometry' \in [Surfaces -> Geometries]
        /\ receipt' \in [Surfaces -> Areas \cup {Unmeasured}]
    BY <1>2, <2>1 DEF RecordVerdict, Receipted
  <2>8. \A j \in Jobs : /\ state'[j] # "absent" => Known(j[1])'
                        /\ lapsed'[j] => state'[j] = "CLAIMED"
                        /\ held'[j] => state'[j] = "PENDING"
    BY <2>4, <2>6 DEF Known
  <2> QED BY <2>5, <2>6, <2>7, <2>8 DEF workerVars, Known
<1>3. CASE RunDies(r)
  BY <1>3 DEF RunDies, RunLeaves, TypeOK, Known, surfaceVars, jobVars, workerVars
<1> QED BY <1>1, <1>2, <1>3 DEF RunStep

\* A QC worker keeps the types: it claims, routes, measures, reports or dies.
LEMMA WorkerTypes == ASSUME TypeOK, NEW w \in Workers, WorkerStep(w) PROVE TypeOK'
<1> USE SurfaceQcAssumption, JobParts
<1>1. CASE ClaimNothing(w)
  BY <1>1 DEF ClaimNothing, Recycled, TypeOK, Known, JobStates, Unfinished,
     surfaceVars, workerVars
<1>2. ASSUME NEW j \in Jobs, ClaimQc(w, j) PROVE TypeOK'
  <2> USE DEF TypeOK
  <2>1. /\ state' = [Recycled EXCEPT ![j] = "CLAIMED"]
        /\ lapsed' = [i \in Jobs |-> FALSE]
        /\ Recycled[j] = "PENDING" /\ ~held[j]
    BY <1>2 DEF ClaimQc, Ready
  <2>2. \A i \in Jobs : /\ state'[i] # "absent" => state[i] # "absent"
                        /\ held[i] => state'[i] = "PENDING"
    BY <2>1 DEF Recycled
  <2>3. state' \in [Jobs -> JobStates]
    BY <2>1 DEF Recycled, JobStates, Unfinished
  <2>4. UNCHANGED <<surfaceVars, held, measuring>>
    BY <1>2 DEF ClaimQc
  <2>5. /\ pc' \in [Workers -> {"idle", "reading", "routing", "measuring"}]
        /\ job' \in [Workers -> Jobs \cup {NoJob}]
        /\ token' \in [Workers -> Nat]
        /\ seen' \in [Workers -> Areas \cup {Unmeasured}]
        /\ claims' \in [Jobs -> Nat]
        /\ \A v \in Workers : pc'[v] = "idle" <=> job'[v] = NoJob
    BY <1>2 DEF ClaimQc
  <2> QED BY <2>1, <2>2, <2>3, <2>4, <2>5 DEF surfaceVars, Known
<1>3. CASE ReadSurface(w)
  <2>1. job[w] \in Jobs
    BY <1>3 DEF ReadSurface, TypeOK
  <2>2. area[job[w][1]] \in Areas \cup {Unmeasured}
    BY <2>1 DEF TypeOK
  <2>3. seen' \in [Workers -> Areas \cup {Unmeasured}]
    BY <1>3, <2>2 DEF ReadSurface, TypeOK
  <2>4. /\ pc' \in [Workers -> {"idle", "reading", "routing", "measuring"}]
        /\ \A v \in Workers : pc'[v] = "idle" <=> job'[v] = NoJob
    BY <1>3 DEF ReadSurface, TypeOK
  <2>5. UNCHANGED <<surfaceVars, jobVars, job, token, measuring>>
    BY <1>3 DEF ReadSurface
  <2> QED BY <2>3, <2>4, <2>5 DEF TypeOK, Known, surfaceVars, jobVars
<1>9. CASE AskRoute(w)
  BY <1>9 DEF AskRoute, TypeOK, Known, surfaceVars, jobVars
<1>4. CASE BlockMisrouted(w)
  BY <1>4, SettleTypes DEF BlockMisrouted, JobStates, Unfinished, TypeOK
<1>5. CASE BlockConfiguration(w)
  BY <1>5, SettleTypes DEF BlockConfiguration, JobStates, Unfinished, TypeOK
<1>6. CASE RequeueUnavailable(w)
  BY <1>6, SettleTypes DEF RequeueUnavailable, JobStates, Unfinished, TypeOK
<1>7. CASE Abandon(w)
  BY <1>7 DEF Abandon, LeaveJob, TypeOK, Known, surfaceVars, jobVars
<1>8. ASSUME NEW outcome \in Outcomes, FinalizeQc(w, outcome) PROVE TypeOK'
  <2>1. job[w] \in Jobs
    BY <1>8 DEF FinalizeQc, Settle, Holds
  <2>2. /\ physical' \in [Surfaces -> Physicals]
    BY <1>8, <2>1 DEF FinalizeQc, TypeOK, Physicals
  <2> QED BY <1>8, <2>2, SettleTypes DEF FinalizeQc, JobStates, Finished
<1> QED BY <1>1, <1>2, <1>3, <1>4, <1>5, <1>6, <1>7, <1>8, <1>9 DEF WorkerStep

\* Every step keeps the types.
LEMMA TypeStep == TypeOK /\ [Next]_vars => TypeOK'
<1> SUFFICES ASSUME TypeOK, [Next]_vars PROVE TypeOK'
  OBVIOUS
<1> USE SurfaceQcAssumption, JobParts
<1>1. ASSUME NEW sample, PanelStep(sample) PROVE TypeOK'
  <2>1. CASE DeferQcJobs(sample)
    BY <2>1 DEF DeferQcJobs, JobsOf, TypeOK, Known, surfaceVars, workerVars
  <2>2. CASE ReleaseQcJobs(sample)
    BY <2>2 DEF ReleaseQcJobs, TypeOK, Known, surfaceVars, workerVars
  <2>3. CASE RequeueBlocked(sample)
    <3>1. \A j \in Jobs : \/ state'[j] = state[j] /\ held'[j] = held[j]
                          \/ state[j] # "absent" /\ state'[j] = "PENDING" /\ ~lapsed[j]
      BY <2>3 DEF RequeueBlocked, JobsOf, TypeOK
    <3>2. state' \in [Jobs -> JobStates] /\ held' \in [Jobs -> BOOLEAN]
      BY <2>3 DEF RequeueBlocked, TypeOK, JobStates, Unfinished
    <3> QED BY <2>3, <3>1, <3>2
            DEF RequeueBlocked, TypeOK, Known, surfaceVars, workerVars
  <2> QED BY <1>1, <2>1, <2>2, <2>3 DEF PanelStep
<1>2. ASSUME NEW j \in Jobs, Lapse(j) \/ RetryDue(j) PROVE TypeOK'
  <2>1. CASE Lapse(j)
    BY <2>1 DEF Lapse, TypeOK, Known, surfaceVars, workerVars
  <2>2. CASE RetryDue(j)
    BY <2>2 DEF RetryDue, TypeOK, Known, surfaceVars, workerVars
  <2> QED BY <1>2, <2>1, <2>2
<1>3. CASE UNCHANGED vars
  BY <1>3 DEF vars, surfaceVars, jobVars, workerVars, TypeOK, Known
<1>4. CASE BackfillReceipts
  BY <1>4 DEF BackfillReceipts, Receipted, TypeOK, Known, jobVars, workerVars
<1> QED BY <1>1, <1>2, <1>3, <1>4, CatalogueTypes, RunTypes, WorkerTypes DEF Next

\* The initial states, predating surfaces included, are well typed.
LEMMA InitTypes == Init => TypeOK
<1> SUFFICES ASSUME Init PROVE TypeOK
  OBVIOUS
<1> USE SurfaceQcAssumption, JobParts DEF Init
<1>1. \A j \in Jobs : state[j] # "absent" => Known(j[1])
  <2> SUFFICES ASSUME NEW j \in Jobs, state[j] # "absent" PROVE Known(j[1])
    OBVIOUS
  <2>1. state[<<j[1], j[2]>>] = "PENDING"
    OBVIOUS
  <2> QED BY <2>1
<1> QED BY <1>1 DEF TypeOK, JobStates, Unfinished, Geometries, Physicals

\* The columns of segment_surfaces and segment_qc_jobs, and what the workers
\* and the runs carry, have their types.
THEOREM TypeCorrect == Spec => []TypeOK
BY InitTypes, TypeStep, PTL DEF Spec

-----------------------------------------------------------------------------
(* What the steps do to jobs. *)

Measurable == {"PENDING", "CLAIMED", "BLOCKED_CONFIGURATION"}

QueueStep ==
    \/ \E w \in Workers : WorkerStep(w)
    \/ \E sample \in Samples : PanelStep(sample)
    \/ \E j \in Jobs : Lapse(j) \/ RetryDue(j)

\* The queue, its workers, time and the panel move only measurable jobs, keep
\* them measurable or complete them, and leave the catalogue's routing alone.
LEMMA QueueMovesMeasurable ==
    ASSUME TypeOK, QueueStep
    PROVE  /\ UNCHANGED <<artifact, area, receipt, geometry, predating, measuring>>
           /\ \A j \in Jobs : \/ state'[j] = state[j]
                             \/ /\ state[j] \in Measurable
                                /\ state'[j] \in Measurable \cup {"COMPLETED"}
<1> USE SurfaceQcAssumption
<1> DEFINE Still == UNCHANGED <<artifact, area, receipt, geometry, predating, measuring>>
           Moves == \A j \in Jobs : \/ state'[j] = state[j]
                                    \/ /\ state[j] \in Measurable
                                       /\ state'[j] \in Measurable \cup {"COMPLETED"}
<1>1. ASSUME NEW w \in Workers, NEW st \in Measurable \cup {"COMPLETED"}, Settle(w, st)
      PROVE  Still /\ Moves
  BY <1>1 DEF Settle, Holds, TypeOK, Measurable
<1>2. ASSUME NEW w \in Workers, WorkerStep(w) PROVE Still /\ Moves
  <2>1. CASE ClaimNothing(w)
    BY <2>1 DEF ClaimNothing, Recycled, TypeOK, Measurable, surfaceVars
  <2>2. ASSUME NEW j \in Jobs, ClaimQc(w, j) PROVE Still /\ Moves
    BY <2>2 DEF ClaimQc, Ready, Recycled, TypeOK, Measurable, surfaceVars
  <2>3. CASE ReadSurface(w) \/ AskRoute(w) \/ Abandon(w)
    BY <2>3 DEF ReadSurface, AskRoute, Abandon, surfaceVars, jobVars
  <2>4. CASE BlockMisrouted(w) \/ BlockConfiguration(w)
    BY <2>4, <1>1 DEF BlockMisrouted, BlockConfiguration, Measurable
  <2>5. CASE RequeueUnavailable(w)
    BY <2>5, <1>1 DEF RequeueUnavailable, Measurable
  <2>6. ASSUME NEW outcome \in Outcomes, FinalizeQc(w, outcome) PROVE Still /\ Moves
    BY <2>6, <1>1 DEF FinalizeQc
  <2> QED BY <1>2, <2>1, <2>2, <2>3, <2>4, <2>5, <2>6 DEF WorkerStep
<1>3. ASSUME NEW sample, PanelStep(sample) PROVE Still /\ Moves
  <2>1. CASE DeferQcJobs(sample) \/ ReleaseQcJobs(sample)
    BY <2>1 DEF DeferQcJobs, ReleaseQcJobs, surfaceVars
  <2>2. CASE RequeueBlocked(sample)
    BY <2>2 DEF RequeueBlocked, JobsOf, TypeOK, Measurable, surfaceVars
  <2> QED BY <1>3, <2>1, <2>2 DEF PanelStep
<1>4. ASSUME NEW j \in Jobs, Lapse(j) \/ RetryDue(j) PROVE Still /\ Moves
  BY <1>4 DEF Lapse, RetryDue, surfaceVars
<1> QED BY <1>2, <1>3, <1>4 DEF QueueStep

\* Every step is the queue's, a stutter, or one of those that touch the
\* catalogue.
LEMMA StepKinds ==
    ASSUME [Next]_vars
    PROVE  \/ QueueStep
           \/ UNCHANGED vars
           \/ \E s \in Surfaces, b \in Artifacts, a \in Areas \cup {Unmeasured} :
                Imported(s, b, a)
           \/ BackfillReceipts
           \/ \E s \in Surfaces, p \in Profiles, b \in Artifacts, a \in Areas, g \in Geometries :
                Created(s, p, b, a, g)
           \/ \E s \in Surfaces, p \in Profiles, b \in Artifacts, a \in Areas :
                EnqueueImported(s, p, b, a)
           \/ \E r \in Runs : \/ \E s \in Surfaces : ListSurface(r, s)
                            \/ RunDies(r)
           \/ \E r \in Runs, g \in Geometries : RecordVerdict(r, g)
<1>1. ASSUME NEW s \in Surfaces, NEW p \in Profiles, NEW b \in Artifacts, NEW a \in Areas,
             Finalize(s, p, b, a) \/ RegisterMerged(s, p, b, a)
      PROVE  \E g \in Geometries : Created(s, p, b, a, g)
  BY <1>1, MergedIsCreated DEF Finalize, Created, Geometries
<1> QED BY <1>1 DEF Next, CatalogueStep, Imported, RunStep, QueueStep

\* Which surfaces predate routing never changes.
LEMMA PredatingKept == ASSUME [Next]_vars PROVE predating' = predating
<1>1. ASSUME NEW s \in Surfaces, CatalogueStep(s) PROVE predating' = predating
  BY <1>1 DEF CatalogueStep, ImportSurface, PanelImport, Finalize, RegisterMerged, Create,
     EnqueueImported
<1>2. ASSUME NEW r \in Runs, RunStep(r) PROVE predating' = predating
  BY <1>2 DEF RunStep, ListSurface, RecordVerdict, RunDies, surfaceVars
<1>3. ASSUME NEW w \in Workers, WorkerStep(w) PROVE predating' = predating
  BY <1>3 DEF WorkerStep, ClaimNothing, ClaimQc, ReadSurface, AskRoute, BlockMisrouted,
     BlockConfiguration, RequeueUnavailable, FinalizeQc, Abandon, Settle, surfaceVars
<1>4. ASSUME NEW sample, PanelStep(sample) PROVE predating' = predating
  BY <1>4 DEF PanelStep, DeferQcJobs, ReleaseQcJobs, RequeueBlocked, surfaceVars
<1>5. ASSUME NEW j \in Jobs, Lapse(j) \/ RetryDue(j) PROVE predating' = predating
  BY <1>5 DEF Lapse, RetryDue, surfaceVars
<1> QED BY <1>1, <1>2, <1>3, <1>4, <1>5 DEF Next, BackfillReceipts, vars, surfaceVars

\* A job not yet finished, or completed, was so before a verdict or is just
\* promoted from waiting.
LEMMA VerdictMoves ==
    ASSUME TypeOK, NEW r \in Runs, NEW g \in Geometries, RecordVerdict(r, g)
    PROVE  /\ measuring[r] \in Surfaces
           /\ UNCHANGED <<artifact, area>>
           /\ geometry' = [geometry EXCEPT ![measuring[r]] = g]
           /\ \A j \in Jobs : j[1] # measuring[r] => state'[j] = state[j]
           /\ \A p \in Profiles :
                state'[<<measuring[r], p>>] = AfterVerdict(measuring[r], p, g)
           /\ \A j \in Jobs :
                \/ state'[j] = state[j]
                \/ /\ state[j] \in {"PENDING", "WAITING_GEOMETRY"}
                   /\ state'[j] \in {"PENDING", "FAILED", "SMALL_SURFACE_DIAGNOSTIC"}
<1> USE SurfaceQcAssumption, JobParts
<1>1. /\ measuring[r] \in Surfaces
      /\ geometry' = [geometry EXCEPT ![measuring[r]] = g]
      /\ state' = [j \in Jobs |-> IF j[1] = measuring[r] THEN AfterVerdict(measuring[r], j[2], g)
                                                        ELSE state[j]]
      /\ UNCHANGED <<artifact, area>>
  BY DEF RecordVerdict, TypeOK
<1>2. \A p \in Profiles : state'[<<measuring[r], p>>] = AfterVerdict(measuring[r], p, g)
  BY <1>1
<1>3. \A j \in Jobs : j[1] # measuring[r] => state'[j] = state[j]
  BY <1>1
<1>4. ASSUME NEW j \in Jobs, j[1] = measuring[r]
      PROVE  \/ state'[j] = state[j]
             \/ /\ state[j] \in {"PENDING", "WAITING_GEOMETRY"}
                /\ state'[j] \in {"PENDING", "FAILED", "SMALL_SURFACE_DIAGNOSTIC"}
  <2>1. j = <<measuring[r], j[2]>> /\ j[2] \in Profiles
    BY <1>4
  <2> QED BY <1>2, <2>1, VerdictOnJob
<1> QED BY <1>1, <1>2, <1>3, <1>4

-----------------------------------------------------------------------------
\* A completed, failed or diagnostic job stays what it is, whatever is
\* reported, requeued, backfilled or certified after (finalize_qc,
\* requeue_blocked_qc_jobs, enqueue_imported_surface_qc,
\* record_geometry_certification).
THEOREM FinishedStaysFinished == Spec => FinishedForGood
<1> DEFINE Keeps == \A j \in Jobs : state[j] \in Finished => state'[j] = state[j]
<1>1. TypeOK /\ [Next]_vars => [Keeps]_vars
  <2> SUFFICES ASSUME TypeOK, [Next]_vars PROVE Keeps
    BY DEF vars
  <2> USE JobParts DEF Finished
  <2>1. CASE QueueStep
    BY <2>1, QueueMovesMeasurable DEF Measurable
  <2>2. CASE UNCHANGED vars
    BY <2>2 DEF vars, jobVars
  <2>3. ASSUME NEW s \in Surfaces, NEW b \in Artifacts, NEW a \in Areas \cup {Unmeasured},
               Imported(s, b, a)
        PROVE  Keeps
    BY <2>3 DEF Imported, ImportSurface, PanelImport, jobVars
  <2>4. ASSUME NEW s \in Surfaces, NEW p \in Profiles, NEW b \in Artifacts,
               NEW a \in Areas, NEW g \in Geometries, Created(s, p, b, a, g)
        PROVE  Keeps
    <3>1. state[<<s, p>>] = "absent"
      BY <2>4 DEF Created, Create, TypeOK, Known
    <3> QED BY <2>4, <3>1 DEF Created, Create, TypeOK
  <2>5. ASSUME NEW s \in Surfaces, NEW p \in Profiles, NEW b \in Artifacts,
               NEW a \in Areas, EnqueueImported(s, p, b, a)
        PROVE  Keeps
    BY <2>5 DEF EnqueueImported, TypeOK
  <2>6. ASSUME NEW r \in Runs, (\E s \in Surfaces : ListSurface(r, s)) \/ RunDies(r)
        PROVE  Keeps
    BY <2>6 DEF ListSurface, RunDies, jobVars
  <2>7. ASSUME NEW r \in Runs, NEW g \in Geometries, RecordVerdict(r, g)
        PROVE  Keeps
    BY <2>7, VerdictMoves
  <2>8. CASE BackfillReceipts
    BY <2>8 DEF BackfillReceipts, jobVars
  <2> HIDE DEF Keeps
  <2> QED BY <2>1, <2>2, <2>3, <2>4, <2>5, <2>6, <2>7, <2>8, StepKinds
<1> QED BY <1>1, TypeCorrect, PTL DEF Spec, FinishedForGood

-----------------------------------------------------------------------------
\* Waiting jobs wait for a verdict that is still missing.
LEMMA WaitingStep ==
    TypeOK /\ WaitingIsNotStranded /\ [Next]_vars => WaitingIsNotStranded'
<1> DEFINE Waiting == \A s \in Surfaces, p \in Profiles :
                        state'[<<s, p>>] = "WAITING_GEOMETRY" => geometry'[s] = "UNMEASURED"
<1> SUFFICES ASSUME TypeOK, WaitingIsNotStranded, [Next]_vars PROVE Waiting
  BY DEF WaitingIsNotStranded
<1> USE JobParts, SurfaceQcAssumption DEF WaitingIsNotStranded
<1>1. CASE QueueStep
  BY <1>1, QueueMovesMeasurable DEF Measurable
<1>2. CASE UNCHANGED vars
  BY <1>2 DEF vars, jobVars, surfaceVars
<1>3. ASSUME NEW s \in Surfaces, NEW b \in Artifacts, NEW a \in Areas \cup {Unmeasured},
             Imported(s, b, a)
      PROVE  Waiting
  BY <1>3 DEF Imported, ImportSurface, PanelImport, jobVars
<1>4. ASSUME NEW s \in Surfaces, NEW p \in Profiles, NEW b \in Artifacts,
             NEW a \in Areas, NEW g \in Geometries, Created(s, p, b, a, g)
      PROVE  Waiting
  <2>1. \A q \in Profiles : state[<<s, q>>] = "absent"
    BY <1>4 DEF Created, Create, TypeOK, Known
  <2>2. /\ state' = [state EXCEPT ![<<s, p>>] = FirstState(g, a)]
        /\ geometry' = [geometry EXCEPT ![s] = g]
    BY <1>4 DEF Created, Create
  <2>3. FirstState(g, a) = "WAITING_GEOMETRY" => g = "UNMEASURED"
    BY FirstStates
  <2>4. ASSUME NEW t \in Surfaces, NEW q \in Profiles, state'[<<t, q>>] = "WAITING_GEOMETRY"
        PROVE  geometry'[t] = "UNMEASURED"
    <3>1. CASE t = s /\ q = p
      BY <2>2, <2>3, <2>4, <3>1 DEF TypeOK
    <3>2. CASE ~(t = s /\ q = p)
      <4>1. <<t, q>> # <<s, p>>
        BY <3>2
      <4>2. state[<<t, q>>] = "WAITING_GEOMETRY"
        BY <2>2, <2>4, <4>1 DEF TypeOK
      <4> QED BY <2>1, <2>2, <4>2 DEF TypeOK
    <3> QED BY <3>1, <3>2
  <2> QED BY <2>4
<1>5. ASSUME NEW s \in Surfaces, NEW p \in Profiles, NEW b \in Artifacts,
             NEW a \in Areas, EnqueueImported(s, p, b, a)
      PROVE  Waiting
  <2>1. StateOfBackfill(s, a) = "WAITING_GEOMETRY" => geometry[s] = "UNMEASURED"
    BY FirstStates DEF StateOfBackfill, TypeOK
  <2>2. /\ state' = [state EXCEPT ![<<s, p>>] = StateOfBackfill(s, a)]
        /\ geometry' = geometry
    BY <1>5 DEF EnqueueImported
  <2>3. ASSUME NEW t \in Surfaces, NEW q \in Profiles, state'[<<t, q>>] = "WAITING_GEOMETRY"
        PROVE  geometry'[t] = "UNMEASURED"
    <3>1. CASE t = s /\ q = p
      BY <2>1, <2>2, <2>3, <3>1 DEF TypeOK
    <3>2. CASE ~(t = s /\ q = p)
      <4>1. <<t, q>> # <<s, p>>
        BY <3>2
      <4> QED BY <2>2, <2>3, <4>1 DEF TypeOK
    <3> QED BY <3>1, <3>2
  <2> QED BY <2>3
<1>6. ASSUME NEW r \in Runs, (\E s \in Surfaces : ListSurface(r, s)) \/ RunDies(r)
      PROVE  Waiting
  BY <1>6 DEF ListSurface, RunDies, jobVars, surfaceVars
<1>7. ASSUME NEW r \in Runs, NEW g \in Geometries, RecordVerdict(r, g)
      PROVE  Waiting
  <2> DEFINE m == measuring[r]
  <2>1. ASSUME NEW p \in Profiles, AfterVerdict(m, p, g) = "WAITING_GEOMETRY"
        PROVE  g = "UNMEASURED"
    <3>1. Promoted(m) # "WAITING_GEOMETRY"
      BY DEF Promoted, FirstState, QcJobStateFor
    <3> HIDE DEF Promoted
    <3> QED BY <2>1, <3>1 DEF AfterVerdict, Geometries
  <2>2. /\ m \in Surfaces
        /\ geometry' = [geometry EXCEPT ![m] = g]
        /\ \A j \in Jobs : j[1] # m => state'[j] = state[j]
        /\ \A p \in Profiles : state'[<<m, p>>] = AfterVerdict(m, p, g)
    BY <1>7, VerdictMoves
  <2> HIDE DEF m
  <2>3. ASSUME NEW t \in Surfaces, NEW p \in Profiles, state'[<<t, p>>] = "WAITING_GEOMETRY"
        PROVE  geometry'[t] = "UNMEASURED"
    <3>1. CASE t = m
      BY <2>1, <2>2, <2>3, <3>1 DEF TypeOK
    <3>2. CASE t # m
      BY <2>2, <2>3, <3>2 DEF TypeOK
    <3> QED BY <3>1, <3>2
  <2> QED BY <2>3
<1>8. CASE BackfillReceipts
  BY <1>8 DEF BackfillReceipts, jobVars
<1> HIDE DEF Waiting, WaitingIsNotStranded
<1> QED BY <1>1, <1>2, <1>3, <1>4, <1>5, <1>6, <1>7, <1>8, StepKinds

\* However verdicts and backfills are ordered, and however many certification
\* runs overlap, no job waits for a verdict its surface has.
THEOREM WaitingIsNeverStranded == Spec => []WaitingIsNotStranded
<1>1. Init => WaitingIsNotStranded
  <2> SUFFICES ASSUME Init, NEW s \in Surfaces, NEW p \in Profiles
               PROVE  state[<<s, p>>] # "WAITING_GEOMETRY"
    BY DEF WaitingIsNotStranded
  <2> QED BY JobParts DEF Init
<1> QED BY <1>1, TypeCorrect, WaitingStep, PTL DEF Spec

-----------------------------------------------------------------------------
Live == Unfinished \cup {"COMPLETED"}

\* A surface with a job that can be measured, or was, carries a receipt of its
\* present area, and that area is not small.
Sized(s) == receipt[s] = area[s] /\ EntersStandardQc(area[s])

\* A surface that is large enough is measured.
LEMMA SizedIsMeasured ==
    ASSUME TypeOK, NEW s \in Surfaces, Sized(s) PROVE receipt[s] # Unmeasured
BY SurfaceQcAssumption DEF TypeOK, Sized, EntersStandardQc, Unmeasured

\* A job becomes live only on a surface that is sized, and no step unsizes one.
LEMMA SmallStep ==
    TypeOK /\ SmallNeverEntersQc /\ [Next]_vars => SmallNeverEntersQc'
<1> DEFINE Sizes == \A s \in Surfaces \ predating, p \in Profiles :
                      state'[<<s, p>>] \in Live => Sized(s)'
<1> SUFFICES ASSUME TypeOK, SmallNeverEntersQc, [Next]_vars PROVE Sizes
  BY PredatingKept DEF SmallNeverEntersQc, Live, Sized
<1> USE JobParts, SurfaceQcAssumption
<1>0. \A s \in Surfaces \ predating, p \in Profiles : state[<<s, p>>] \in Live => Sized(s)
  BY DEF SmallNeverEntersQc, Live, Sized
<1>1. CASE QueueStep
  <2>1. \A j \in Jobs : state'[j] \in Live => state[j] \in Live
    BY <1>1, QueueMovesMeasurable DEF Measurable, Live, Unfinished
  <2>2. UNCHANGED <<receipt, area>>
    BY <1>1, QueueMovesMeasurable
  <2> QED BY <1>0, <2>1, <2>2 DEF Sized, EntersStandardQc
<1>2. CASE UNCHANGED vars
  BY <1>0, <1>2 DEF vars, jobVars, surfaceVars, Sized, EntersStandardQc
<1>3. ASSUME NEW s \in Surfaces, NEW b \in Artifacts, NEW a \in Areas \cup {Unmeasured},
             Imported(s, b, a)
      PROVE  Sizes
  <2>1. \A p \in Profiles : state[<<s, p>>] = "absent"
    BY <1>3 DEF Imported, ImportSurface, PanelImport, TypeOK, Known
  <2>2. UNCHANGED state /\ \A t \in Surfaces \ {s} : receipt'[t] = receipt[t] /\ area'[t] = area[t]
    BY <1>3 DEF Imported, ImportSurface, PanelImport, jobVars, TypeOK
  <2> QED BY <1>0, <2>1, <2>2 DEF Sized, EntersStandardQc, Live, Unfinished
<1>4. ASSUME NEW s \in Surfaces, NEW p \in Profiles, NEW b \in Artifacts,
             NEW a \in Areas, NEW g \in Geometries, Created(s, p, b, a, g)
      PROVE  Sizes
  <2>1. \A q \in Profiles : state[<<s, q>>] = "absent"
    BY <1>4 DEF Created, Create, TypeOK, Known
  <2>2. /\ state' = [state EXCEPT ![<<s, p>>] = FirstState(g, a)]
        /\ receipt' = [receipt EXCEPT ![s] = a] /\ area' = [area EXCEPT ![s] = a]
    BY <1>4 DEF Created, Create
  <2>3. FirstState(g, a) \in Live => EntersStandardQc(a)
    BY FirstStates DEF Live, Unfinished
  <2>4. ASSUME NEW t \in Surfaces \ predating, NEW q \in Profiles, state'[<<t, q>>] \in Live
        PROVE  Sized(t)'
    <3>1. CASE t = s /\ q = p
      BY <2>2, <2>3, <2>4, <3>1 DEF TypeOK, Sized, EntersStandardQc
    <3>2. CASE ~(t = s /\ q = p)
      <4>1. <<t, q>> # <<s, p>>
        BY <3>2
      <4>2. state[<<t, q>>] \in Live
        BY <2>2, <2>4, <4>1 DEF TypeOK
      <4>3. t # s
        BY <2>1, <4>2 DEF Live, Unfinished
      <4> QED BY <1>0, <2>2, <4>2, <4>3 DEF TypeOK, Sized, EntersStandardQc
    <3> QED BY <3>1, <3>2
  <2> QED BY <2>4
<1>5. ASSUME NEW s \in Surfaces, NEW p \in Profiles, NEW b \in Artifacts,
             NEW a \in Areas, EnqueueImported(s, p, b, a)
      PROVE  Sizes
  <2>1. /\ state' = [state EXCEPT ![<<s, p>>] = StateOfBackfill(s, a)]
        /\ receipt' = [receipt EXCEPT ![s] = Receipted(receipt[s], a)]
        /\ area' = [area EXCEPT ![s] = a]
        /\ Routable(receipt[s], a)
    BY <1>5 DEF EnqueueImported, TypeOK
  <2>2. Receipted(receipt[s], a) = a
    BY <2>1 DEF Routable, Receipted
  <2>3. StateOfBackfill(s, a) \in Live => EntersStandardQc(a)
    BY <2>2, FirstStates DEF StateOfBackfill, TypeOK, Live, Unfinished
  <2>4. ASSUME NEW t \in Surfaces \ predating, NEW q \in Profiles, state'[<<t, q>>] \in Live
        PROVE  Sized(t)'
    <3>1. CASE t = s /\ q = p
      BY <2>1, <2>2, <2>3, <2>4, <3>1 DEF TypeOK, Sized, EntersStandardQc
    <3>2. CASE ~(t = s /\ q = p)
      <4>1. <<t, q>> # <<s, p>>
        BY <3>2
      <4>2. state[<<t, q>>] \in Live
        BY <2>1, <2>4, <4>1 DEF TypeOK
      <4>3. Sized(t) /\ receipt[t] # Unmeasured
        BY <1>0, <4>2, SizedIsMeasured
      <4>4. CASE t = s
        <5>1. receipt[s] = a
          BY <2>1, <4>3, <4>4 DEF Routable
        <5> QED BY <2>1, <2>2, <4>3, <4>4, <5>1 DEF TypeOK, Sized, EntersStandardQc
      <4>5. CASE t # s
        BY <2>1, <4>3, <4>5 DEF TypeOK, Sized, EntersStandardQc
      <4> QED BY <4>4, <4>5
    <3> QED BY <3>1, <3>2
  <2> QED BY <2>4
<1>6. ASSUME NEW r \in Runs, (\E s \in Surfaces : ListSurface(r, s)) \/ RunDies(r)
      PROVE  Sizes
  BY <1>0, <1>6 DEF ListSurface, RunDies, jobVars, surfaceVars, Sized, EntersStandardQc
<1>7. ASSUME NEW r \in Runs, NEW g \in Geometries, RecordVerdict(r, g)
      PROVE  Sizes
  <2>1. \A j \in Jobs : state'[j] \in Live => state[j] \in Live
    BY <1>7, VerdictMoves DEF Live, Unfinished
  <2>2. UNCHANGED area
    BY <1>7, VerdictMoves
  <2>3. \A t \in Surfaces : receipt'[t] = receipt[t] \/ receipt[t] = Unmeasured
    BY <1>7 DEF RecordVerdict, Receipted, TypeOK
  <2> QED BY <1>0, <2>1, <2>2, <2>3, SizedIsMeasured DEF Sized, EntersStandardQc
<1>8. CASE BackfillReceipts
  <2>1. UNCHANGED <<area, state>>
    BY <1>8 DEF BackfillReceipts, jobVars
  <2>2. \A t \in Surfaces : receipt'[t] = receipt[t] \/ receipt[t] = Unmeasured
    BY <1>8 DEF BackfillReceipts, Receipted, TypeOK
  <2> QED BY <1>0, <2>1, <2>2, SizedIsMeasured DEF Sized, EntersStandardQc
<1> HIDE DEF Sizes
<1> QED BY <1>1, <1>2, <1>3, <1>4, <1>5, <1>6, <1>7, <1>8, StepKinds

\* No surface below the floor ever has a job that can be measured, unless it
\* was queued before surfaces were routed.
THEOREM SmallNeverEnters == Spec => []SmallNeverEntersQc
<1>1. Init => SmallNeverEntersQc
  <2> SUFFICES ASSUME Init, NEW s \in Surfaces \ predating, NEW p \in Profiles
               PROVE  state[<<s, p>>] = "absent"
    BY DEF SmallNeverEntersQc, Unfinished
  <2> QED BY JobParts DEF Init
<1> QED BY <1>1, TypeCorrect, SmallStep, PTL DEF Spec

-----------------------------------------------------------------------------
(* Offers, for any number of certification runs. *)

\* A job that was created, backfilled or promoted to be measured was so under a
\* certificate, for any number of certification runs that overlap in any way.
THEOREM OffersAlwaysFollowCertificates == Spec => OffersFollowCertificates
<1> DEFINE Certified == \A j \in Jobs :
               state[j] \notin Measurable /\ state'[j] \in Measurable => geometry'[j[1]] = "CERTIFIED"
<1>1. TypeOK /\ [Next]_vars => [Certified]_vars
  <2> SUFFICES ASSUME TypeOK, [Next]_vars PROVE Certified
    OBVIOUS
  <2> USE JobParts, SurfaceQcAssumption
  <2>1. CASE QueueStep
    BY <2>1, QueueMovesMeasurable DEF Measurable
  <2>2. CASE UNCHANGED state
    BY <2>2
  <2>3. ASSUME NEW s \in Surfaces, NEW p \in Profiles, NEW b \in Artifacts,
               NEW a \in Areas, NEW g \in Geometries, Created(s, p, b, a, g)
        PROVE  Certified
    <3>1. state' = [state EXCEPT ![<<s, p>>] = FirstState(g, a)] /\ geometry'[s] = g
      BY <2>3 DEF Created, Create, TypeOK
    <3>2. FirstState(g, a) \in Measurable => g = "CERTIFIED"
      BY FirstStates DEF Measurable
    <3>3. \A j \in Jobs : state'[j] = state[j] \/ (j = <<s, p>> /\ state'[j] = FirstState(g, a))
      BY <3>1 DEF TypeOK
    <3> QED BY <3>1, <3>2, <3>3
  <2>4. ASSUME NEW s \in Surfaces, NEW p \in Profiles, NEW b \in Artifacts,
               NEW a \in Areas, EnqueueImported(s, p, b, a)
        PROVE  Certified
    <3>1. state' = [state EXCEPT ![<<s, p>>] = StateOfBackfill(s, a)] /\ geometry' = geometry
      BY <2>4 DEF EnqueueImported
    <3>2. StateOfBackfill(s, a) \in Measurable => geometry[s] = "CERTIFIED"
      <4>1. geometry[s] \in Geometries
        BY DEF TypeOK
      <4> QED BY <4>1, FirstStates DEF StateOfBackfill, Measurable
    <3>3. \A j \in Jobs : state'[j] = state[j] \/ (j = <<s, p>> /\ state'[j] = StateOfBackfill(s, a))
      BY <3>1 DEF TypeOK
    <3> QED BY <3>1, <3>2, <3>3
  <2>5. ASSUME NEW r \in Runs, NEW g \in Geometries, RecordVerdict(r, g)
        PROVE  Certified
    <3>1. /\ measuring[r] \in Surfaces
          /\ geometry' = [geometry EXCEPT ![measuring[r]] = g]
          /\ \A j \in Jobs : j[1] # measuring[r] => state'[j] = state[j]
          /\ \A p \in Profiles : state'[<<measuring[r], p>>] = AfterVerdict(measuring[r], p, g)
      BY <2>5, VerdictMoves
    <3>2. \A p \in Profiles :
            \/ AfterVerdict(measuring[r], p, g) = state[<<measuring[r], p>>]
            \/ AfterVerdict(measuring[r], p, g) \in Measurable => g = "CERTIFIED"
      BY VerdictOnJob DEF Measurable
    <3>3. ASSUME NEW j \in Jobs, state[j] \notin Measurable, state'[j] \in Measurable
          PROVE  geometry'[j[1]] = "CERTIFIED"
      <4>1. j[1] = measuring[r] /\ j[2] \in Profiles /\ j = <<measuring[r], j[2]>>
        BY <3>1, <3>3
      <4>2. g = "CERTIFIED"
        BY <3>1, <3>2, <3>3, <4>1
      <4> QED BY <3>1, <4>1, <4>2 DEF TypeOK
    <3> QED BY <3>3
  <2>6. ASSUME NEW s \in Surfaces, NEW b \in Artifacts, NEW a \in Areas \cup {Unmeasured},
               Imported(s, b, a)
        PROVE  UNCHANGED state
    BY <2>6 DEF Imported, ImportSurface, PanelImport, jobVars
  <2>7. ASSUME NEW r \in Runs, (\E s \in Surfaces : ListSurface(r, s)) \/ RunDies(r)
        PROVE  UNCHANGED state
    BY <2>7 DEF ListSurface, RunDies, jobVars
  <2>8. BackfillReceipts \/ UNCHANGED vars => UNCHANGED state
    BY DEF BackfillReceipts, vars, jobVars
  <2> HIDE DEF Certified
  <2> QED BY <2>1, <2>2, <2>3, <2>4, <2>5, <2>6, <2>7, <2>8, StepKinds
<1>2. [Certified]_vars =>
        [\A j \in Jobs :
           /\ state[j] \notin {"PENDING", "CLAIMED", "BLOCKED_CONFIGURATION"}
           /\ state'[j] \in {"PENDING", "CLAIMED", "BLOCKED_CONFIGURATION"}
           => geometry'[j[1]] = "CERTIFIED"]_vars
  BY DEF Measurable
<1> QED BY <1>1, <1>2, TypeCorrect, PTL DEF Spec, OffersFollowCertificates

-----------------------------------------------------------------------------
(* Tokens. *)

\* A claim's token is never ahead of its job's claims, and no two workers carry
\* the same token of the same job.
TokensDiffer ==
    \A w \in Workers : job[w] \in Jobs =>
        /\ token[w] <= claims[job[w]]
        /\ \A v \in Workers \ {w} : job[v] = job[w] => token[v] # token[w]

\* No step hands one token of a job to two workers.
LEMMA TokensStep == TypeOK /\ TokensDiffer /\ [Next]_vars => TokensDiffer'
<1> SUFFICES ASSUME TypeOK, TokensDiffer, [Next]_vars PROVE TokensDiffer'
  OBVIOUS
<1> USE SurfaceQcAssumption DEF TypeOK
<1>1. CASE UNCHANGED <<job, token, claims>>
  BY <1>1 DEF TokensDiffer
<1>2. ASSUME NEW w \in Workers, LeaveJob(w), UNCHANGED claims PROVE TokensDiffer'
  <2>1. /\ job'[w] = NoJob
        /\ \A v \in Workers \ {w} : job'[v] = job[v] /\ token'[v] = token[v]
    BY <1>2 DEF LeaveJob
  <2> QED BY <1>2, <2>1 DEF TokensDiffer
<1>3. ASSUME NEW w \in Workers, NEW j \in Jobs, ClaimQc(w, j) PROVE TokensDiffer'
  <2>1. /\ job' = [job EXCEPT ![w] = j]
        /\ token' = [token EXCEPT ![w] = claims[j] + 1]
        /\ claims' = [claims EXCEPT ![j] = @ + 1]
    BY <1>3 DEF ClaimQc
  <2>2. claims'[j] = claims[j] + 1 /\ \A i \in Jobs \ {j} : claims'[i] = claims[i]
    BY <2>1
  <2>3. job'[w] = j /\ token'[w] = claims[j] + 1
    BY <2>1
  <2>4. \A v \in Workers \ {w} : job'[v] = job[v] /\ token'[v] = token[v]
    BY <2>1
  <2>5. \A v \in Workers \ {w} : job[v] = j => token[v] < claims[j] + 1
    BY DEF TokensDiffer
  <2>6. ASSUME NEW v \in Workers, job'[v] \in Jobs
        PROVE  /\ token'[v] <= claims'[job'[v]]
               /\ \A u \in Workers \ {v} : job'[u] = job'[v] => token'[u] # token'[v]
    <3>1. CASE v = w
      BY <2>2, <2>3, <2>4, <2>5, <3>1
    <3>2. CASE v # w
      <4>1. token[v] <= claims[job[v]]
        BY <2>4, <2>6, <3>2 DEF TokensDiffer
      <4>2. claims[job[v]] <= claims'[job[v]]
        BY <2>2, <2>4, <2>6, <3>2
      <4>3. token'[v] <= claims'[job'[v]]
        BY <2>1, <2>4, <3>2, <4>1, <4>2, <2>6
      <4>4. ASSUME NEW u \in Workers \ {v}, job'[u] = job'[v] PROVE token'[u] # token'[v]
        <5>1. CASE u = w
          BY <2>3, <2>4, <2>5, <3>2, <4>4, <5>1
        <5>2. CASE u # w
          BY <2>4, <2>6, <3>2, <4>4, <5>2 DEF TokensDiffer
        <5> QED BY <5>1, <5>2
      <4> QED BY <4>3, <4>4
    <3> QED BY <3>1, <3>2
  <2> QED BY <2>6 DEF TokensDiffer
<1>4. ASSUME NEW w \in Workers, WorkerStep(w) PROVE TokensDiffer'
  <2>1. \/ UNCHANGED <<job, token, claims>>
        \/ LeaveJob(w) /\ UNCHANGED claims
        \/ \E j \in Jobs : ClaimQc(w, j)
    BY <1>4 DEF WorkerStep, ClaimNothing, ReadSurface, AskRoute, BlockMisrouted, BlockConfiguration,
       RequeueUnavailable, FinalizeQc, Abandon, Settle, workerVars, jobVars
  <2> QED BY <1>1, <1>2, <1>3, <2>1
<1>5. ASSUME NEW s \in Surfaces, CatalogueStep(s) PROVE UNCHANGED <<job, token, claims>>
  BY <1>5 DEF CatalogueStep, ImportSurface, PanelImport, Finalize, RegisterMerged, Create,
     EnqueueImported, jobVars, workerVars
<1>6. ASSUME NEW r \in Runs, RunStep(r) PROVE UNCHANGED <<job, token, claims>>
  BY <1>6 DEF RunStep, ListSurface, RecordVerdict, RunDies, jobVars, workerVars
<1>7. ASSUME NEW sample, PanelStep(sample) PROVE UNCHANGED <<job, token, claims>>
  BY <1>7 DEF PanelStep, DeferQcJobs, ReleaseQcJobs, RequeueBlocked, workerVars
<1>8. ASSUME NEW j \in Jobs, Lapse(j) \/ RetryDue(j) PROVE UNCHANGED <<job, token, claims>>
  BY <1>8 DEF Lapse, RetryDue, workerVars
<1>9. CASE UNCHANGED vars
  BY <1>9, <1>1 DEF vars, jobVars, workerVars
<1>10. CASE BackfillReceipts
  BY <1>10, <1>1 DEF BackfillReceipts, jobVars, workerVars
<1> HIDE DEF TypeOK
<1> QED BY <1>1, <1>4, <1>5, <1>6, <1>7, <1>8, <1>9, <1>10 DEF Next

\* The physical verdict of a known surface is written only by the worker whose claim of the job is
\* the last one, while the job is claimed, and it completes the job: a worker
\* whose lease was recycled, or claimed by another, writes none.
THEOREM VerdictAlwaysEndsItsJob == Spec => VerdictEndsItsJob
<1> DEFINE Ends == \A s \in Surfaces : Known(s) /\ physical'[s] # physical[s] =>
         \E w \in Workers : LET j == job[w] IN
             /\ j \in Jobs /\ j[1] = s /\ claims[j] = token[w]
             /\ \A v \in Workers \ {w} : job[v] = j => token[v] # token[w]
             /\ state[j] = "CLAIMED" /\ state'[j] = "COMPLETED"
<1>1. TypeOK /\ TokensDiffer /\ [Next]_vars => [Ends]_vars
  <2> SUFFICES ASSUME TypeOK, TokensDiffer, [Next]_vars PROVE Ends
    OBVIOUS
  <2>1. CASE UNCHANGED physical
    BY <2>1
  <2>2. ASSUME NEW w \in Workers, NEW outcome \in Outcomes, FinalizeQc(w, outcome)
        PROVE  Ends
    <3>1. /\ job[w] \in Jobs /\ claims[job[w]] = token[w] /\ state[job[w]] = "CLAIMED"
          /\ state' = [state EXCEPT ![job[w]] = "COMPLETED"]
          /\ physical' = [physical EXCEPT ![job[w][1]] = outcome]
      BY <2>2 DEF FinalizeQc, Settle, Holds
    <3>2. state'[job[w]] = "COMPLETED"
      BY <3>1 DEF TypeOK
    <3>3. \A s \in Surfaces : physical'[s] # physical[s] => job[w][1] = s
      BY <3>1 DEF TypeOK
    <3>4. \A v \in Workers \ {w} : job[v] = job[w] => token[v] # token[w]
      BY <3>1 DEF TokensDiffer
    <3> QED BY <3>1, <3>2, <3>3, <3>4
  <2>3. ASSUME NEW w \in Workers, WorkerStep(w)
        PROVE  UNCHANGED physical \/ \E outcome \in Outcomes : FinalizeQc(w, outcome)
    BY <2>3 DEF WorkerStep, ClaimNothing, ClaimQc, ReadSurface, AskRoute, BlockMisrouted,
       BlockConfiguration, RequeueUnavailable, Abandon, surfaceVars
  <2>4. ASSUME NEW s \in Surfaces, CatalogueStep(s) PROVE Ends
    <3>1. ASSUME NEW b, NEW a, NEW v, ImportSurface(s, b, a, v) PROVE Ends
      BY <3>1 DEF ImportSurface, TypeOK
    <3>2. \/ UNCHANGED physical
          \/ \E b, a, v : ImportSurface(s, b, a, v)
      BY <2>4 DEF CatalogueStep, PanelImport, Finalize, RegisterMerged, Create, EnqueueImported
    <3> HIDE DEF Ends
    <3> QED BY <2>1, <3>1, <3>2
  <2>5. ASSUME NEW r \in Runs, RunStep(r) PROVE UNCHANGED physical
    BY <2>5 DEF RunStep, ListSurface, RecordVerdict, RunDies, surfaceVars
  <2>6. ASSUME NEW sample, PanelStep(sample) PROVE UNCHANGED physical
    BY <2>6 DEF PanelStep, DeferQcJobs, ReleaseQcJobs, RequeueBlocked, surfaceVars
  <2>7. ASSUME NEW j \in Jobs, Lapse(j) \/ RetryDue(j) PROVE UNCHANGED physical
    BY <2>7 DEF Lapse, RetryDue, surfaceVars
  <2>8. CASE UNCHANGED vars
    BY <2>8, <2>1 DEF vars, surfaceVars
  <2>9. CASE BackfillReceipts
    BY <2>9, <2>1 DEF BackfillReceipts
  <2> HIDE DEF Ends
  <2> QED BY <2>1, <2>2, <2>3, <2>4, <2>5, <2>6, <2>7, <2>8, <2>9 DEF Next
<1>2. Init => TokensDiffer
  BY SurfaceQcAssumption DEF Init, TokensDiffer
<1> QED BY <1>1, <1>2, TypeCorrect, TokensStep, PTL DEF Spec, VerdictEndsItsJob

-----------------------------------------------------------------------------
(* What is measured is large. *)

\* A receipt that is on file says the area that is on file; neither is there
\* before the surface is.
ReceiptAgrees ==
    \A s \in Surfaces :
        /\ receipt[s] # Unmeasured => receipt[s] = area[s]
        /\ ~Known(s) => area[s] = Unmeasured

\* A job stands on a receipt, or its surface was queued before there were any.
JobsRouted ==
    \A j \in Jobs : state[j] # "absent" => j[1] \in predating \/ receipt[j[1]] # Unmeasured

\* What a worker read stands until a receipt says otherwise.
SeenStands ==
    \A w \in Workers : pc[w] = "routing" /\ receipt[job[w][1]] = Unmeasured =>
        seen[w] = area[job[w][1]]

\* The job of a worker that is not idle exists.
JobInHand == \A w \in Workers : pc[w] # "idle" => state[job[w]] # "absent"

\* The surface of a job that predates routing was enqueued for another profile,
\* with an area of its own, and has a receipt of that.
Overtaken(j) ==
    /\ j[1] \in predating /\ receipt[j[1]] # Unmeasured
    /\ \E p \in Profiles \ {j[2]} : state[<<j[1], p>>] # "absent"

LargeOrOvertaken ==
    \A w \in Workers : pc[w] = "measuring" =>
        EntersStandardQc(area[job[w][1]]) \/ Overtaken(job[w])

LargeInv ==
    TypeOK /\ ReceiptAgrees /\ JobsRouted /\ JobInHand /\ SeenStands /\ LargeOrOvertaken

\* The only writers of areas and receipts: what each of them leaves of those that
\* were there.
RoutingKept ==
    \A s \in Surfaces :
        /\ Known(s) => Known(s)'
        /\ \/ receipt'[s] = receipt[s] /\ area'[s] = area[s]
           \/ ~Known(s) /\ Known(s)' /\ (receipt'[s] # Unmeasured => receipt'[s] = area'[s])
           \/ receipt[s] = Unmeasured /\ receipt'[s] = area'[s] /\ area'[s] = area[s]
           \/ /\ receipt[s] = Unmeasured /\ receipt'[s] = area'[s] /\ area'[s] \in Areas
              /\ Known(s)'
              /\ \E p \in Profiles : state[<<s, p>>] = "absent" /\ state'[<<s, p>>] # "absent"

\* No job returns to absent, and one appears only on a surface with a receipt.
JobsKept ==
    \A j \in Jobs :
        /\ state[j] # "absent" => state'[j] # "absent"
        /\ state[j] = "absent" /\ state'[j] # "absent" => receipt'[j[1]] # Unmeasured

\* A measured area is not Unmeasured.
LEMMA AreaIsMeasured == \A a \in Areas : a \in Nat /\ a # Unmeasured
BY SurfaceQcAssumption DEF Unmeasured

\* A first state is that of a job that exists.
LEMMA FirstStateExists ==
    ASSUME NEW g \in Geometries, NEW a PROVE FirstState(g, a) # "absent"
BY FirstStates

\* Whoever writes routing or jobs keeps what was there.
LEMMA RoutingStep == ASSUME TypeOK, ReceiptAgrees, [Next]_vars PROVE RoutingKept /\ JobsKept
<1> USE JobParts, SurfaceQcAssumption
<1>1. CASE QueueStep
  BY <1>1, QueueMovesMeasurable DEF Measurable, RoutingKept, JobsKept, Known
<1>2. CASE UNCHANGED vars
  BY <1>2 DEF vars, surfaceVars, jobVars, RoutingKept, JobsKept, Known
<1>3. ASSUME NEW s \in Surfaces, NEW b \in Artifacts, NEW a \in Areas \cup {Unmeasured},
             Imported(s, b, a)
      PROVE  RoutingKept /\ JobsKept
  <2>1. ~Known(s) /\ UNCHANGED state
    BY <1>3 DEF Imported, ImportSurface, PanelImport, jobVars
  <2>2. receipt'[s] = area'[s] \/ receipt'[s] = receipt[s]
    BY <1>3 DEF Imported, ImportSurface, PanelImport, TypeOK
  <2>3. \A t \in Surfaces \ {s} : receipt'[t] = receipt[t] /\ area'[t] = area[t]
    BY <1>3 DEF Imported, ImportSurface, PanelImport, TypeOK
  <2>4. receipt[s] = Unmeasured
    BY <2>1 DEF ReceiptAgrees
  <2>5. Known(s)' /\ \A t \in Surfaces : Known(t) => Known(t)'
    BY <1>3 DEF Imported, ImportSurface, PanelImport, TypeOK, Known
  <2> QED BY <2>1, <2>2, <2>3, <2>4, <2>5 DEF RoutingKept, JobsKept
<1>4. ASSUME NEW s \in Surfaces, NEW p \in Profiles, NEW b \in Artifacts,
             NEW a \in Areas, NEW g \in Geometries, Created(s, p, b, a, g)
      PROVE  RoutingKept /\ JobsKept
  <2>1. ~Known(s) /\ receipt'[s] = a /\ area'[s] = a
    BY <1>4 DEF Created, Create, TypeOK
  <2>2. \A t \in Surfaces \ {s} : receipt'[t] = receipt[t] /\ area'[t] = area[t]
    BY <1>4 DEF Created, Create, TypeOK
  <2>3. state' = [state EXCEPT ![<<s, p>>] = FirstState(g, a)] /\ FirstState(g, a) # "absent"
    BY <1>4, FirstStateExists DEF Created, Create
  <2>4. \A j \in Jobs : j # <<s, p>> => state'[j] = state[j]
    BY <2>3 DEF TypeOK
  <2>5. state'[<<s, p>>] # "absent"
    BY <2>3 DEF TypeOK
  <2>6. Known(s)' /\ \A t \in Surfaces : Known(t) => Known(t)'
    BY <1>4 DEF Created, Create, TypeOK, Known
  <2> QED BY <2>1, <2>2, <2>4, <2>5, <2>6, AreaIsMeasured DEF RoutingKept, JobsKept
<1>5. ASSUME NEW s \in Surfaces, NEW p \in Profiles, NEW b \in Artifacts,
             NEW a \in Areas, EnqueueImported(s, p, b, a)
      PROVE  RoutingKept /\ JobsKept
  <2>1. /\ state[<<s, p>>] = "absent" /\ Routable(receipt[s], a)
        /\ area' = [area EXCEPT ![s] = a]
        /\ receipt' = [receipt EXCEPT ![s] = Receipted(receipt[s], a)]
        /\ state' = [state EXCEPT ![<<s, p>>] = StateOfBackfill(s, a)]
    BY <1>5 DEF EnqueueImported, TypeOK
  <2>2. Receipted(receipt[s], a) = a
    BY <2>1 DEF Routable, Receipted
  <2>3. receipt'[s] = a /\ area'[s] = a
    BY <2>1, <2>2 DEF TypeOK
  <2>4. receipt[s] # Unmeasured => receipt[s] = a /\ area[s] = a
    BY <2>1 DEF Routable, ReceiptAgrees
  <2>5. \A t \in Surfaces \ {s} : receipt'[t] = receipt[t] /\ area'[t] = area[t]
    BY <2>1 DEF TypeOK
  <2>6. StateOfBackfill(s, a) # "absent"
    BY FirstStateExists DEF StateOfBackfill, TypeOK
  <2>7. \A j \in Jobs : j # <<s, p>> => state'[j] = state[j]
    BY <2>1 DEF TypeOK
  <2>8. state'[<<s, p>>] # "absent"
    BY <2>1, <2>6 DEF TypeOK
  <2>9. Known(s)' /\ \A t \in Surfaces : Known(t) => Known(t)'
    BY <1>5 DEF EnqueueImported, TypeOK, Known
  <2>10. RoutingKept
    BY <2>1, <2>3, <2>4, <2>5, <2>8, <2>9 DEF RoutingKept
  <2>11. JobsKept
    BY <2>1, <2>3, <2>7, <2>8, AreaIsMeasured DEF JobsKept
  <2> QED BY <2>10, <2>11
<1>6. ASSUME NEW r \in Runs, (\E s \in Surfaces : ListSurface(r, s)) \/ RunDies(r)
      PROVE  RoutingKept /\ JobsKept
  BY <1>6 DEF ListSurface, RunDies, jobVars, surfaceVars, RoutingKept, JobsKept, Known
<1>7. ASSUME NEW r \in Runs, NEW g \in Geometries, RecordVerdict(r, g)
      PROVE  RoutingKept /\ JobsKept
  <2>1. JobsKept
    BY <1>7, VerdictMoves DEF JobsKept
  <2>2. UNCHANGED <<artifact, area>>
    BY <1>7, VerdictMoves
  <2>3. \A t \in Surfaces : \/ receipt'[t] = receipt[t]
                            \/ receipt[t] = Unmeasured /\ receipt'[t] = area[t]
    BY <1>7 DEF RecordVerdict, Receipted, TypeOK
  <2> QED BY <2>1, <2>2, <2>3 DEF RoutingKept, Known
<1>8. CASE BackfillReceipts
  <2>1. UNCHANGED <<artifact, area, state>>
    BY <1>8 DEF BackfillReceipts, jobVars
  <2>2. \A t \in Surfaces : \/ receipt'[t] = receipt[t]
                            \/ receipt[t] = Unmeasured /\ receipt'[t] = area[t]
    BY <1>8 DEF BackfillReceipts, Receipted, TypeOK
  <2> QED BY <2>1, <2>2 DEF RoutingKept, JobsKept, Known
<1> QED BY <1>1, <1>2, <1>3, <1>4, <1>5, <1>6, <1>7, <1>8, StepKinds

\* How a worker comes to be where it is.
Reads(w) ==
    /\ pc[w] = "reading" /\ pc'[w] = "routing" /\ job'[w] = job[w]
    /\ seen'[w] = area[job[w][1]] /\ UNCHANGED <<surfaceVars, state>>

Starts(w) ==
    /\ pc[w] = "routing" /\ pc'[w] = "measuring" /\ job'[w] = job[w]
    /\ Admits(w) /\ UNCHANGED <<surfaceVars, state>>

LEMMA WorkerMoves ==
    ASSUME TypeOK, [Next]_vars, NEW w \in Workers
    PROVE  \/ pc'[w] = pc[w] /\ job'[w] = job[w] /\ seen'[w] = seen[w]
           \/ pc'[w] = "idle"
           \/ pc'[w] = "reading" /\ job'[w] \in Jobs /\ state[job'[w]] # "absent"
           \/ Reads(w)
           \/ Starts(w)
<1> DEFINE Moved ==
      \/ pc'[w] = pc[w] /\ job'[w] = job[w] /\ seen'[w] = seen[w]
      \/ pc'[w] = "idle"
      \/ pc'[w] = "reading" /\ job'[w] \in Jobs /\ state[job'[w]] # "absent"
      \/ Reads(w)
      \/ Starts(w)
<1>1. ASSUME UNCHANGED <<pc, job, seen>> PROVE Moved
  BY <1>1
<1>2. ASSUME NEW v \in Workers, LeaveJob(v) PROVE Moved
  BY <1>2 DEF LeaveJob, TypeOK
<1>3. ASSUME NEW v \in Workers, NEW j \in Jobs, ClaimQc(v, j) PROVE Moved
  <2>1. /\ pc' = [pc EXCEPT ![v] = "reading"] /\ job' = [job EXCEPT ![v] = j]
        /\ Recycled[j] = "PENDING" /\ UNCHANGED seen
    BY <1>3 DEF ClaimQc, Ready
  <2>2. state[j] # "absent"
    BY <2>1 DEF Recycled
  <2> QED BY <2>1, <2>2 DEF TypeOK
<1>4. ASSUME NEW v \in Workers, ReadSurface(v) \/ AskRoute(v) PROVE Moved
  <2>1. CASE ReadSurface(v)
    BY <2>1 DEF ReadSurface, Reads, jobVars, TypeOK
  <2>2. CASE AskRoute(v)
    BY <2>2 DEF AskRoute, Starts, jobVars, TypeOK
  <2> HIDE DEF Moved
  <2> QED BY <1>4, <2>1, <2>2
<1>5. ASSUME NEW v \in Workers, WorkerStep(v) PROVE Moved
  <2>1. \/ UNCHANGED <<pc, job, seen>> \/ LeaveJob(v) \/ ReadSurface(v) \/ AskRoute(v)
        \/ \E j \in Jobs : ClaimQc(v, j)
    BY <1>5 DEF WorkerStep, ClaimNothing, BlockMisrouted, BlockConfiguration,
       RequeueUnavailable, FinalizeQc, Abandon, Settle, workerVars
  <2> HIDE DEF Moved
  <2> QED BY <1>1, <1>2, <1>3, <1>4, <2>1
<1>6. ASSUME NEW s \in Surfaces, CatalogueStep(s) PROVE UNCHANGED <<pc, job, seen>>
  BY <1>6 DEF CatalogueStep, ImportSurface, PanelImport, Finalize, RegisterMerged, Create,
     EnqueueImported, workerVars
<1>7. ASSUME NEW r \in Runs, RunStep(r) PROVE UNCHANGED <<pc, job, seen>>
  BY <1>7 DEF RunStep, ListSurface, RecordVerdict, RunDies, workerVars
<1>8. ASSUME NEW sample, PanelStep(sample) PROVE UNCHANGED <<pc, job, seen>>
  BY <1>8 DEF PanelStep, DeferQcJobs, ReleaseQcJobs, RequeueBlocked, workerVars
<1>9. ASSUME NEW j \in Jobs, Lapse(j) \/ RetryDue(j) PROVE UNCHANGED <<pc, job, seen>>
  BY <1>9 DEF Lapse, RetryDue, workerVars
<1>10. UNCHANGED vars => UNCHANGED <<pc, job, seen>>
  BY DEF vars, workerVars
<1>11. BackfillReceipts => UNCHANGED <<pc, job, seen>>
  BY DEF BackfillReceipts, workerVars
<1> HIDE DEF Moved
<1>12. Moved
  BY <1>1, <1>5, <1>6, <1>7, <1>8, <1>9, <1>10, <1>11 DEF Next
<1> QED BY <1>12 DEF Moved

\* What receipt and area read say together is true of the area when a measurement
\* starts.
LEMMA StartsLarge ==
    ASSUME ReceiptAgrees, SeenStands, NEW w \in Workers, job[w] \in Jobs,
           pc[w] = "routing", Admits(w)
    PROVE  EntersStandardQc(area[job[w][1]])
BY JobParts DEF Admits, ReceiptAgrees, SeenStands

\* No step lets a small surface be measured, but one that overtakes it.
LEMMA LargeStep == LargeInv /\ [Next]_vars => LargeInv'
<1> SUFFICES ASSUME LargeInv, [Next]_vars PROVE LargeInv'
  OBVIOUS
<1> USE JobParts, SurfaceQcAssumption
<1>0. TypeOK /\ ReceiptAgrees /\ JobsRouted /\ JobInHand /\ SeenStands /\ LargeOrOvertaken
  BY DEF LargeInv
<1>1. TypeOK'
  BY <1>0, TypeStep
<1>2. RoutingKept /\ JobsKept
  BY <1>0, RoutingStep
<1>3. ReceiptAgrees'
  BY <1>0, <1>2 DEF ReceiptAgrees, RoutingKept
<1>4. \A s \in Surfaces : Known(s) /\ receipt[s] # Unmeasured =>
                            receipt'[s] # Unmeasured /\ area'[s] = area[s]
  BY <1>2 DEF RoutingKept
<1>5. \A j \in Jobs : state[j] # "absent" => Known(j[1])
  BY <1>0 DEF TypeOK
<1>6. JobsRouted'
  BY <1>0, <1>2, <1>4, <1>5, PredatingKept DEF JobsRouted, JobsKept
<1>7. \A w \in Workers : pc[w] # "idle" => job[w] \in Jobs /\ state[job[w]] # "absent"
  BY <1>0 DEF JobInHand, TypeOK
<1>8. JobInHand'
  <2> SUFFICES ASSUME NEW w \in Workers, pc'[w] # "idle" PROVE state'[job'[w]] # "absent"
    BY DEF JobInHand
  <2> QED BY <1>0, <1>2, <1>7, WorkerMoves DEF JobsKept, Reads, Starts
<1>9. ASSUME NEW j \in Jobs, state[j] # "absent", Overtaken(j) PROVE Overtaken(j)'
  <2>1. PICK p \in Profiles \ {j[2]} : state[<<j[1], p>>] # "absent"
    BY <1>9 DEF Overtaken
  <2>2. state'[<<j[1], p>>] # "absent"
    BY <1>2, <2>1 DEF JobsKept
  <2>3. j[1] \in predating /\ receipt[j[1]] # Unmeasured
    BY <1>9 DEF Overtaken
  <2>4. receipt'[j[1]] # Unmeasured
    BY <1>4, <1>5, <1>9, <2>3
  <2> QED BY <2>2, <2>3, <2>4, PredatingKept DEF Overtaken
<1>10. ASSUME NEW j \in Jobs, state[j] # "absent", EntersStandardQc(area[j[1]])
       PROVE  EntersStandardQc(area'[j[1]]) \/ Overtaken(j)'
  <2>1. Known(j[1])
    BY <1>5, <1>10
  <2>2. CASE area'[j[1]] = area[j[1]]
    BY <1>10, <2>2
  <2>3. CASE area'[j[1]] # area[j[1]]
    <3>1. /\ receipt[j[1]] = Unmeasured
          /\ receipt'[j[1]] = area'[j[1]] /\ area'[j[1]] \in Areas
          /\ \E p \in Profiles : /\ state[<<j[1], p>>] = "absent"
                               /\ state'[<<j[1], p>>] # "absent"
      BY <1>2, <2>1, <2>3 DEF RoutingKept
    <3>2. j[1] \in predating
      BY <1>0, <1>10, <3>1 DEF JobsRouted
    <3>3. \E p \in Profiles \ {j[2]} : state'[<<j[1], p>>] # "absent"
      BY <1>10, <3>1
    <3> QED BY <3>1, <3>2, <3>3, AreaIsMeasured, PredatingKept DEF Overtaken
  <2> QED BY <2>2, <2>3
<1>11. LargeOrOvertaken'
  <2> SUFFICES ASSUME NEW w \in Workers, pc'[w] = "measuring"
               PROVE  EntersStandardQc(area[job[w][1]])' \/ Overtaken(job[w])'
    BY DEF LargeOrOvertaken
  <2>1. CASE pc'[w] = pc[w] /\ job'[w] = job[w] /\ seen'[w] = seen[w]
    <3>1. PICK j \in Jobs : j = job[w]
      BY <1>7, <2>1
    <3>2. state[j] # "absent" /\ (EntersStandardQc(area[j[1]]) \/ Overtaken(j))
      BY <1>0, <1>7, <2>1, <3>1 DEF LargeOrOvertaken, Overtaken
    <3>3. EntersStandardQc(area'[j[1]]) \/ Overtaken(j)'
      BY <1>9, <1>10, <3>2
    <3> QED BY <2>1, <3>1, <3>3 DEF Overtaken, EntersStandardQc
  <2>2. CASE Starts(w)
    <3>1. job[w] \in Jobs
      BY <1>7, <2>2 DEF Starts
    <3>2. EntersStandardQc(area[job[w][1]])
      BY <1>0, <2>2, <3>1, StartsLarge DEF Starts
    <3> QED BY <2>2, <3>1, <3>2 DEF Starts, surfaceVars, EntersStandardQc
  <2> QED BY <1>0, <2>1, <2>2, WorkerMoves DEF Reads
<1>12. SeenStands'
  <2> SUFFICES ASSUME NEW w \in Workers, pc'[w] = "routing", receipt'[job'[w][1]] = Unmeasured
               PROVE  seen'[w] = area'[job'[w][1]]
    BY DEF SeenStands
  <2>1. CASE pc'[w] = pc[w] /\ job'[w] = job[w] /\ seen'[w] = seen[w]
    <3>1. PICK s \in Surfaces : s = job[w][1] /\ Known(s)
      BY <1>5, <1>7, <2>1
    <3>2. receipt[s] = Unmeasured /\ area'[s] = area[s]
      BY <1>2, <2>1, <3>1, AreaIsMeasured DEF RoutingKept
    <3> QED BY <1>0, <2>1, <3>1, <3>2 DEF SeenStands
  <2>2. CASE Reads(w)
    BY <2>2 DEF Reads, surfaceVars
  <2> QED BY <1>0, <2>1, <2>2, WorkerMoves DEF Starts
<1> QED BY <1>1, <1>3, <1>6, <1>8, <1>11, <1>12 DEF LargeInv

LEMMA LargeInit == Init => LargeInv
<1> SUFFICES ASSUME Init PROVE LargeInv
  OBVIOUS
<1>1. TypeOK
  BY InitTypes
<1>2. ReceiptAgrees
  BY DEF Init, ReceiptAgrees
<1>3. JobsRouted
  BY JobParts DEF Init, JobsRouted
<1>4. JobInHand /\ SeenStands /\ LargeOrOvertaken
  BY DEF Init, JobInHand, SeenStands, LargeOrOvertaken
<1> QED BY <1>1, <1>2, <1>3, <1>4 DEF LargeInv

\* However imports, backfills, claims and verdicts are ordered, a surface that is
\* measured is large; the one exception is a surface queued before surfaces were
\* routed that a backfill for another profile has given another area since, and
\* that one has a receipt, so it is not admitted again (_current_route).
THEOREM MeasuredIsLargeOrOvertaken == Spec => []LargeOrOvertaken
<1>1. LargeInv => LargeOrOvertaken
  BY DEF LargeInv
<1> QED BY <1>1, LargeInit, LargeStep, PTL DEF Spec

\* No measurement of a surface below the floor is started, in any number of
\* profiles and whether or not the surface was queued before routing: between the
\* worker's two reads a backfill may change the area, but then it writes the
\* receipt with it (_current_surface, _current_route, enqueue_imported_surface_qc).
THEOREM NothingSmallIsEverStarted == Spec => NothingSmallIsStarted
<1> DEFINE Large == \A w \in Workers :
             pc[w] # "measuring" /\ pc'[w] = "measuring" => EntersStandardQc(area[job[w][1]])
<1>1. LargeInv /\ [Next]_vars => [Large]_vars
  <2> SUFFICES ASSUME LargeInv, [Next]_vars, NEW w \in Workers,
                      pc[w] # "measuring", pc'[w] = "measuring"
               PROVE  EntersStandardQc(area[job[w][1]])
    OBVIOUS
  <2>1. TypeOK /\ ReceiptAgrees /\ SeenStands
    BY DEF LargeInv
  <2>2. Starts(w)
    BY <2>1, WorkerMoves DEF Reads
  <2>3. job[w] \in Jobs
    BY <2>1, <2>2 DEF Starts, TypeOK
  <2> QED BY <2>1, <2>2, <2>3, StartsLarge DEF Starts
<1> QED BY <1>1, LargeInit, LargeStep, PTL DEF Spec, NothingSmallIsStarted
=============================================================================
