--------------------------- MODULE ProbeRunsProofs ---------------------------
(***************************************************************************)
(* Proofs about ProbeRuns, for any number of candidates, workers, tries,   *)
(* requeues and attempts, whichever workers may die and whichever bytes    *)
(* the store may lose.                                                     *)
(***************************************************************************)
EXTENDS ProbeRuns, TLAPS

-----------------------------------------------------------------------------
(* Types. *)

TaskTypes ==
    /\ task \in {"PENDING", "ACTIVE"} \cup Ends
    /\ holder \in {None} \cup Attempts /\ latest \in {None} \cup Attempts
    /\ excused \in BOOLEAN /\ fetches \in Nat /\ publishes \in Nat

RunTypes ==
    /\ mode \in {"shadow", "select"} /\ run \in RunStates
    /\ action \in {"none"} \cup Actions /\ winner \in {None} \cup Trials

PromotionTypes ==
    /\ promotion \in {"none", "CONTINUING", "PROMOTED", "FAILED"}
    /\ bound \in {None} \cup Attempts /\ failedAs \in {"none"} \cup Ends

TrialStates == {"none", "PENDING"} \cup Leased \cup Over

TrialTypes ==
    /\ trial \in [Trials -> TrialStates]
    /\ trying \in [Trials -> Nat] /\ tries \in [Trials -> Nat]

StoreTypes == set \in [Trials -> Sets] /\ bytes \in [Trials -> BOOLEAN]

Grown == {"starting", "running", "reserved", "published"}

WorkerTypes ==
    /\ pc \in [Workers -> Places] /\ number \in [Workers -> {None} \cup Attempts]
    /\ on \in [Workers -> {None} \cup Trials] /\ try \in [Workers -> Nat]
    /\ \A w \in Workers : /\ pc[w] = "idle" <=> number[w] = None
                          /\ pc[w] \in Grown => on[w] # None

GcTypes == due \subseteq Trials /\ gone \in {None} \cup Trials

LEMMA TypeParts ==
    TypeOK <=> /\ TaskTypes /\ RunTypes /\ PromotionTypes /\ TrialTypes /\ StoreTypes
               /\ WorkerTypes /\ GcTypes
BY DEF TypeOK, TaskTypes, RunTypes, PromotionTypes, TrialTypes, TrialStates, StoreTypes,
       WorkerTypes, Grown, GcTypes

LEMMA TypePartsNext ==
    TypeOK' <=> /\ TaskTypes' /\ RunTypes' /\ PromotionTypes' /\ TrialTypes' /\ StoreTypes'
                /\ WorkerTypes' /\ GcTypes'
BY DEF TypeOK, TaskTypes, RunTypes, PromotionTypes, TrialTypes, TrialStates, StoreTypes,
       WorkerTypes, Grown, GcTypes

LEMMA NoneIsNothing == None \notin Trials /\ None \notin Attempts /\ None \in Nat
BY DEF None, Trials, Attempts

LEMMA TrialsHaveWinner == Winner \in {None} \cup Trials /\ (Winner # None => Wins(Winner))
<1>1. CASE \E t \in Trials : Wins(t)
  <2>1. Winner \in Trials /\ Wins(Winner)
    BY <1>1 DEF Winner
  <2> QED BY <2>1
<1>2. CASE ~\E t \in Trials : Wins(t)
  BY <1>2 DEF Winner
<1> QED BY <1>1, <1>2

LEMMA SetsToReview ==
    ASSUME StoreTypes, NEW st \in Sets
    PROVE  AllSets(st) \in [Trials -> Sets]
BY DEF AllSets, StoreTypes, Sets

\* A worker that leaves, or walks on without a trial of its own, keeps its types.
LEMMA LeaveTypes == ASSUME WorkerTypes, NEW w \in Workers, Leave(w) PROVE WorkerTypes'
<1>1. /\ pc' \in [Workers -> Places] /\ number' \in [Workers -> {None} \cup Attempts]
      /\ on' \in [Workers -> {None} \cup Trials] /\ try' \in [Workers -> Nat]
  BY NoneIsNothing DEF Leave, WorkerTypes, Places
<1>2. \A v \in Workers : /\ v # w => pc'[v] = pc[v] /\ number'[v] = number[v] /\ on'[v] = on[v]
                         /\ v = w => pc'[v] = "idle" /\ number'[v] = None
  BY DEF Leave, WorkerTypes
<1> QED BY <1>1, <1>2 DEF WorkerTypes, Grown

LEMMA GoesTypes ==
    ASSUME WorkerTypes, NEW w \in Workers, NEW from \in Places, NEW to \in Places,
           Goes(w, from, to), from # "idle", to # "idle",
           to \in Grown => on[w] # None
    PROVE  WorkerTypes'
<1>1. /\ pc' \in [Workers -> Places] /\ UNCHANGED <<number, on, try>>
      /\ pc[w] = from /\ pc'[w] = to
      /\ \A v \in Workers : v # w => pc'[v] = pc[v]
  BY DEF Goes, WorkerTypes
<1> QED BY <1>1 DEF WorkerTypes, Grown

LEMMA CloseRunTypes ==
    ASSUME RunTypes, PromotionTypes, StoreTypes, NEW st \in Ends, CloseRun(st)
    PROVE  RunTypes' /\ PromotionTypes' /\ set' \in [Trials -> Sets]
<1>1. AllSets("REVIEW_RETAINED") \in [Trials -> Sets] /\ set \in [Trials -> Sets]
  BY SetsToReview DEF Sets, StoreTypes
<1> QED BY <1>1 DEF CloseRun, RunTypes, PromotionTypes, RunStates

LEMMA TerminalTypes ==
    ASSUME TypeOK, NEW w \in Workers, NEW st \in Ends, NEW exact \in BOOLEAN,
           MarkTerminal(w, st, exact)
    PROVE  TypeOK'
<1>1. /\ TaskTypes /\ RunTypes /\ PromotionTypes /\ TrialTypes /\ StoreTypes /\ WorkerTypes
      /\ GcTypes
  BY TypeParts
<1>2. TaskTypes'
  BY <1>1 DEF MarkTerminal, TaskTypes
<1>3. RunTypes' /\ PromotionTypes' /\ StoreTypes'
  BY <1>1, CloseRunTypes DEF MarkTerminal, StoreTypes
<1>4. WorkerTypes'
  BY <1>1, LeaveTypes DEF MarkTerminal
<1>5. TrialTypes' /\ GcTypes'
  BY <1>1 DEF MarkTerminal, TrialTypes, GcTypes, trialVars, gcVars
<1> QED BY <1>2, <1>3, <1>4, <1>5, TypePartsNext

LEMMA ReturnsTypes ==
    ASSUME TypeOK, NEW w \in Workers, Returns(w), fetches' \in Nat, publishes' \in Nat
    PROVE  TypeOK'
<1>1. /\ TaskTypes /\ RunTypes /\ PromotionTypes /\ TrialTypes /\ StoreTypes /\ WorkerTypes
      /\ GcTypes
  BY TypeParts
<1>2. TaskTypes'
  BY <1>1 DEF Returns, TaskTypes
<1>3. WorkerTypes'
  BY <1>1, LeaveTypes DEF Returns
<1>4. /\ RunTypes' /\ PromotionTypes' /\ TrialTypes' /\ StoreTypes' /\ GcTypes'
  BY <1>1 DEF Returns, RunTypes, PromotionTypes, TrialTypes, StoreTypes, GcTypes, runVars,
              promoVars, trialVars, storeVars, gcVars
<1> QED BY <1>2, <1>3, <1>4, TypePartsNext

LEMMA RaisesTypes == ASSUME TypeOK, NEW w \in Workers, Raises(w) PROVE TypeOK'
<1>1. /\ TaskTypes /\ RunTypes /\ PromotionTypes /\ TrialTypes /\ StoreTypes /\ WorkerTypes
      /\ GcTypes
  BY TypeParts
<1>2. WorkerTypes'
  BY <1>1, LeaveTypes DEF Raises
<1>3. /\ TaskTypes' /\ RunTypes' /\ PromotionTypes' /\ TrialTypes' /\ StoreTypes' /\ GcTypes'
  BY <1>1 DEF Raises, TaskTypes, RunTypes, PromotionTypes, TrialTypes, StoreTypes, GcTypes,
              taskVars, runVars, promoVars, trialVars, storeVars, gcVars
<1> QED BY <1>2, <1>3, TypePartsNext

\* Where a worker is on its trials; the decision ends them.
TrialPlaces == Grown \cup {"probing", "failing", "too_small", "deciding"}

\* A worker moves on, begins no trial, and nothing else changes.
Walks(w) ==
    \E from, to \in Places \ {"idle"} :
        /\ Goes(w, from, to) /\ to \notin Grown /\ (to \in TrialPlaces => from \in TrialPlaces)
        /\ UNCHANGED <<taskVars, runVars, promoVars, trialVars, storeVars, gcVars>>

LEMMA WalksTypes == ASSUME TypeOK, NEW w \in Workers, Walks(w) PROVE TypeOK'
<1>1. /\ TaskTypes /\ RunTypes /\ PromotionTypes /\ TrialTypes /\ StoreTypes /\ WorkerTypes
      /\ GcTypes
  BY TypeParts
<1>2. PICK from, to \in Places \ {"idle"} : Goes(w, from, to) /\ to \notin Grown
  BY DEF Walks
<1>3. WorkerTypes'
  BY <1>1, <1>2, GoesTypes
<1>4. /\ TaskTypes' /\ RunTypes' /\ PromotionTypes' /\ TrialTypes' /\ StoreTypes' /\ GcTypes'
  BY <1>1 DEF Walks, TaskTypes, RunTypes, PromotionTypes, TrialTypes, StoreTypes, GcTypes,
              taskVars, runVars, promoVars, trialVars, storeVars, gcVars
<1> QED BY <1>3, <1>4, TypePartsNext

\* The ends a worker gives a task by mark_terminal.
Failures == Ends \ {"QC_PENDING", "BLOCKED_PROBE_ARTIFACT_UNAVAILABLE"}

\* The task goes back to the queue, and one of the bounded requeues may be spent.
Requeued(w) ==
    /\ Returns(w)
    /\ fetches' = fetches \/ (FetchAgain /\ fetches' = fetches + 1)
    /\ publishes' = publishes \/ (publishes < PublishBudget /\ publishes' = publishes + 1)

\* A worker's step walks, gives up or returns the task, or is one of the steps
\* that write what the others only pass by.
LEMMA WorkerKinds ==
    ASSUME TypeOK, NEW w \in Workers, WorkerStep(w)
    PROVE  \/ Walks(w) \/ Raises(w) \/ Requeued(w)
           \/ \E st \in Failures, exact \in BOOLEAN : MarkTerminal(w, st, exact)
           \/ Claim(w) \/ Prepare(w)
           \/ \E lapsed \in SUBSET Trials :
                NoTrial(w, lapsed) \/ \E t \in Trials : ClaimTrial(w, t, lapsed)
           \/ StartTrial(w) \/ ReserveArtifact(w) \/ PublishProbe(w)
           \/ \E verdict \in Evaluated, to \in {"probing", "failing"} :
                CompleteTrial(w, verdict, to)
           \/ FailTrial(w) \/ RecordDecision(w) \/ ReviewContinuation(w) \/ BeginPromotion(w)
           \/ Finalize(w)
<1> DEFINE Gives == \E st \in Failures, exact \in BOOLEAN : MarkTerminal(w, st, exact)
<1>0. pc[w] \in Places
  BY DEF TypeOK
<1>a. Requeue(w) => Requeued(w)
  BY DEF Requeue, Requeued
<1>b. /\ \A st \in Failures, exact \in BOOLEAN : MarkTerminal(w, st, exact) => Gives
      /\ {"GROW_FAILED", "POLICY_REJECTED", "PROBE_STOPPED", "FINALIZATION_FAILED"}
           \subseteq Failures
  BY DEF Failures, Ends
<1>1. SourceFails(w) \/ PlanFails(w) => Requeued(w) \/ Gives
  BY <1>a, <1>b DEF SourceFails, PlanFails
<1>2. StopWithoutWinner(w) \/ GrowFails(w) \/ FinalizationFails(w) => Gives
  BY <1>b DEF StopWithoutWinner, GrowFails, FinalizationFails
<1>3. PublishFails(w) => Requeued(w) \/ Gives
  BY <1>b DEF PublishFails, Requeued
<1>4. LargerGpu(w) => Requeued(w)
  BY <1>a DEF LargerGpu
<1>5. RunDiffers(w) \/ Abandon(w) \/ FindsLeaseLost(w) \/ TrialRefused(w) \/ ReviewRefused(w)
        => Raises(w)
  BY DEF RunDiffers, Abandon, FindsLeaseLost, TrialRefused, ReviewRefused
<1>6. GoOnFromShadow(w) \/ PlanShadow(w) \/ Grow(w) => Walks(w)
  BY DEF GoOnFromShadow, PlanShadow, Grow, Walks, Places, Grown, TrialPlaces
<1>7. FetchWinner(w) => Walks(w)
  BY DEF FetchWinner, Walks, Places, Grown, TrialPlaces
<1>8. TrialFails(w) => Walks(w)
  BY <1>0 DEF TrialFails, Walks, Places, Grown, TrialPlaces
<1>9. RequeueFetch(w) => Walks(w) \/ Requeued(w)
  BY DEF RequeueFetch, Walks, Requeued, Places, Grown, TrialPlaces
<1> QED BY <1>1, <1>2, <1>3, <1>4, <1>5, <1>6, <1>7, <1>8, <1>9 DEF WorkerStep, TrialStep

LEMMA ExpiryTypes ==
    ASSUME TrialTypes, NEW lapsed \in SUBSET Trials, NEW last
    PROVE  /\ AfterExpiry(lapsed) \in [Trials -> TrialStates]
           /\ FailedBefore(lapsed, last) \in [Trials -> TrialStates]
           /\ Unleased(lapsed) \in [Trials -> Nat]
<1>1. AfterExpiry(lapsed) \in [Trials -> TrialStates]
  BY DEF AfterExpiry, TrialTypes, TrialStates
<1>2. FailedBefore(lapsed, last) \in [Trials -> TrialStates]
  BY <1>1 DEF FailedBefore, TrialStates, Over
<1>3. Unleased(lapsed) \in [Trials -> Nat]
  BY NoneIsNothing DEF Unleased, TrialTypes
<1> QED BY <1>1, <1>2, <1>3

LEMMA TrialStepTypes ==
    ASSUME TypeOK, NEW w \in Workers,
           \/ Prepare(w)
           \/ \E lapsed \in SUBSET Trials :
                NoTrial(w, lapsed) \/ \E t \in Trials : ClaimTrial(w, t, lapsed)
           \/ StartTrial(w) \/ ReserveArtifact(w) \/ PublishProbe(w)
           \/ \E verdict \in Evaluated, to \in {"probing", "failing"} :
                CompleteTrial(w, verdict, to)
           \/ FailTrial(w)
    PROVE  TypeOK'
<1> USE DEF TrialStates
<1>0. /\ TaskTypes /\ RunTypes /\ PromotionTypes /\ TrialTypes /\ StoreTypes /\ WorkerTypes
      /\ GcTypes
  BY TypeParts
<1>1. TaskTypes' /\ PromotionTypes' /\ GcTypes'
  BY <1>0 DEF Prepare, NoTrial, ClaimTrial, StartTrial, ReserveArtifact, PublishProbe,
              CompleteTrial, FailTrial, taskVars, promoVars, gcVars, TaskTypes, PromotionTypes,
              GcTypes
<1>2. RunTypes'
  BY <1>0 DEF Prepare, NoTrial, ClaimTrial, StartTrial, ReserveArtifact, PublishProbe,
              CompleteTrial, FailTrial, runVars, RunTypes, RunStates
<1>a. pc[w] \in Grown => on[w] \in Trials
  BY <1>0 DEF WorkerTypes
<1>3. ASSUME NEW lapsed \in SUBSET Trials, NoTrial(w, lapsed) PROVE TypeOK'
  <2>1. TrialTypes'
    BY <1>0, <1>3, ExpiryTypes DEF NoTrial, TrialTypes
  <2>2. WorkerTypes'
    <3>1. Goes(w, "probing", "deciding") \/ Leave(w)
      BY <1>3 DEF NoTrial
    <3> QED BY <1>0, <3>1, LeaveTypes, GoesTypes DEF Places, Grown
  <2>3. StoreTypes'
    BY <1>0, <1>3 DEF NoTrial, StoreTypes, storeVars
  <2> QED BY <1>1, <1>2, <2>1, <2>2, <2>3, TypePartsNext
<1>4. ASSUME NEW lapsed \in SUBSET Trials, NEW t \in Trials, ClaimTrial(w, t, lapsed)
      PROVE  TypeOK'
  <2>1. TrialTypes'
    BY <1>0, <1>4, ExpiryTypes DEF ClaimTrial, TrialTypes, Leased
  <2>2. WorkerTypes'
    <3>1. tries[t] + 1 \in Nat
      BY <1>0 DEF TrialTypes
    <3>2. /\ pc' \in [Workers -> Places] /\ number' = number /\ pc[w] = "probing"
          /\ on' \in [Workers -> {None} \cup Trials] /\ try' \in [Workers -> Nat]
      BY <1>0, <1>4, <3>1 DEF ClaimTrial, WorkerTypes, Places
    <3>3. \A v \in Workers : /\ v # w => pc'[v] = pc[v] /\ on'[v] = on[v]
                             /\ v = w => pc'[v] = "starting" /\ on'[v] = t
      BY <1>0, <1>4 DEF ClaimTrial, WorkerTypes
    <3> QED BY <1>0, <3>2, <3>3, NoneIsNothing DEF WorkerTypes, Grown
  <2>3. StoreTypes'
    BY <1>0, <1>4 DEF ClaimTrial, StoreTypes, storeVars
  <2> QED BY <1>1, <1>2, <2>1, <2>2, <2>3, TypePartsNext
<1>5. ASSUME Prepare(w) PROVE TypeOK'
  <2>1. WorkerTypes'
    BY <1>0, <1>5, GoesTypes DEF Prepare, Places, Grown
  <2>2. TrialTypes' /\ StoreTypes'
    BY <1>0, <1>5 DEF Prepare, TrialTypes, StoreTypes, storeVars
  <2> QED BY <1>1, <1>2, <2>1, <2>2, TypePartsNext
<1>6. ASSUME StartTrial(w) PROVE TypeOK'
  <2>1. pc[w] = "starting"
    BY <1>6 DEF StartTrial, Goes
  <2>2. WorkerTypes'
    BY <1>0, <1>6, <1>a, <2>1, GoesTypes, NoneIsNothing DEF StartTrial, Places, Grown
  <2>3. TrialTypes' /\ StoreTypes'
    BY <1>0, <1>6 DEF StartTrial, TrialTypes, StoreTypes, storeVars, Leased
  <2> QED BY <1>1, <1>2, <2>2, <2>3, TypePartsNext
<1>7. ASSUME ReserveArtifact(w) PROVE TypeOK'
  <2>1. pc[w] = "running"
    BY <1>7 DEF ReserveArtifact, Goes
  <2>2. WorkerTypes'
    BY <1>0, <1>7, <1>a, <2>1, GoesTypes, NoneIsNothing DEF ReserveArtifact, Places, Grown
  <2>3. TrialTypes' /\ StoreTypes'
    BY <1>0, <1>7 DEF ReserveArtifact, TrialTypes, StoreTypes, Leased, Sets
  <2> QED BY <1>1, <1>2, <2>2, <2>3, TypePartsNext
<1>8. ASSUME PublishProbe(w) PROVE TypeOK'
  <2>1. pc[w] = "reserved"
    BY <1>8 DEF PublishProbe, Goes
  <2>2. WorkerTypes'
    BY <1>0, <1>8, <1>a, <2>1, GoesTypes, NoneIsNothing DEF PublishProbe, Places, Grown
  <2>3. TrialTypes' /\ StoreTypes'
    BY <1>0, <1>8 DEF PublishProbe, TrialTypes, StoreTypes, trialVars
  <2> QED BY <1>1, <1>2, <2>2, <2>3, TypePartsNext
<1>9. ASSUME NEW verdict \in Evaluated, NEW to \in {"probing", "failing"},
             CompleteTrial(w, verdict, to)
      PROVE  TypeOK'
  <2>1. WorkerTypes'
    <3>1. /\ pc[w] # "idle" /\ pc' = [pc EXCEPT ![w] = to] /\ UNCHANGED <<number, on, try>>
      BY <1>9 DEF CompleteTrial
    <3>2. Goes(w, pc[w], to) /\ pc[w] \in Places
      BY <1>0, <3>1 DEF Goes, WorkerTypes
    <3> QED BY <1>0, <3>1, <3>2, GoesTypes DEF Places, Grown
  <2>2. TrialTypes' /\ StoreTypes'
    BY <1>0, <1>9, NoneIsNothing DEF CompleteTrial, TrialTypes, StoreTypes, Over, Sets
  <2> QED BY <1>1, <1>2, <2>1, <2>2, TypePartsNext
<1>10. ASSUME FailTrial(w) PROVE TypeOK'
  <2>1. WorkerTypes'
    <3>1. Goes(w, "failing", "probing") \/ Goes(w, "too_small", "enlarging")
      BY <1>10 DEF FailTrial
    <3> QED BY <1>0, <3>1, GoesTypes DEF Places, Grown
  <2>2. TrialTypes' /\ StoreTypes'
    BY <1>0, <1>10, NoneIsNothing DEF FailTrial, TrialTypes, StoreTypes, storeVars, Over
  <2> QED BY <1>1, <1>2, <2>1, <2>2, TypePartsNext
<1> QED BY <1>3, <1>4, <1>5, <1>6, <1>7, <1>8, <1>9, <1>10

LEMMA LaterStepTypes ==
    ASSUME TypeOK, NEW w \in Workers,
           Claim(w) \/ RecordDecision(w) \/ ReviewContinuation(w) \/ BeginPromotion(w) \/ Finalize(w)
    PROVE  TypeOK'
<1>0. /\ TaskTypes /\ RunTypes /\ PromotionTypes /\ TrialTypes /\ StoreTypes /\ WorkerTypes
      /\ GcTypes
  BY TypeParts
<1>1. ASSUME Claim(w) PROVE TypeOK'
  <2>1. latest + 1 \in Attempts
    BY <1>0, <1>1, ProbeRunsAssumption DEF Claim, TaskTypes, Attempts, None
  <2>2. TaskTypes'
    BY <1>0, <1>1, <2>1 DEF Claim, TaskTypes
  <2>3. WorkerTypes'
    <3>1. /\ pc' \in [Workers -> Places] /\ number' \in [Workers -> {None} \cup Attempts]
          /\ pc[w] = "idle" /\ UNCHANGED <<on, try>>
      BY <1>0, <1>1, <2>1 DEF Claim, WorkerTypes, Places
    <3>2. \A v \in Workers : /\ v # w => pc'[v] = pc[v] /\ number'[v] = number[v]
                             /\ v = w => pc'[v] = "claimed" /\ number'[v] = latest + 1
      BY <1>0, <1>1 DEF Claim, WorkerTypes
    <3> QED BY <1>0, <2>1, <3>1, <3>2, NoneIsNothing DEF WorkerTypes, Grown
  <2>4. /\ RunTypes' /\ PromotionTypes' /\ TrialTypes' /\ StoreTypes' /\ GcTypes'
    BY <1>0, <1>1 DEF Claim, RunTypes, PromotionTypes, TrialTypes, StoreTypes, GcTypes, runVars,
                      promoVars, trialVars, storeVars, gcVars
  <2> QED BY <2>2, <2>3, <2>4, TypePartsNext
<1>2. ASSUME RecordDecision(w) PROVE TypeOK'
  <2>1. WorkerTypes'
    BY <1>0, <1>2, GoesTypes DEF RecordDecision, Places, Grown
  <2>2. RunTypes'
    BY <1>0, <1>2, TrialsHaveWinner
       DEF RecordDecision, Decision, DecidedRun, RunTypes, RunStates, Actions
  <2>3. StoreTypes'
    <3>1. DecidedSets \in [Trials -> Sets]
      BY <1>0, SetsToReview DEF DecidedSets, Sets
    <3> QED BY <1>0, <1>2, <3>1 DEF RecordDecision, StoreTypes
  <2>4. TaskTypes' /\ PromotionTypes' /\ TrialTypes' /\ GcTypes'
    BY <1>0, <1>2 DEF RecordDecision, TaskTypes, PromotionTypes, TrialTypes, GcTypes, taskVars,
                      promoVars, trialVars, gcVars
  <2> QED BY <2>1, <2>2, <2>3, <2>4, TypePartsNext
<1>3. ASSUME ReviewContinuation(w) PROVE TypeOK'
  <2>1. WorkerTypes'
    BY <1>0, <1>3, LeaveTypes DEF ReviewContinuation
  <2>2. StoreTypes'
    BY <1>0, <1>3, SetsToReview DEF ReviewContinuation, StoreTypes, Sets
  <2>3. TaskTypes' /\ RunTypes'
    BY <1>0, <1>3 DEF ReviewContinuation, TaskTypes, RunTypes, RunStates, Ends
  <2>4. PromotionTypes' /\ TrialTypes' /\ GcTypes'
    BY <1>0, <1>3 DEF ReviewContinuation, PromotionTypes, TrialTypes, GcTypes, promoVars,
                      trialVars, gcVars
  <2> QED BY <2>1, <2>2, <2>3, <2>4, TypePartsNext
<1>4. ASSUME BeginPromotion(w) PROVE TypeOK'
  <2>1. WorkerTypes'
    <3>1. CASE Goes(w, "planning", "growing")
      BY <1>0, <3>1, GoesTypes DEF Places, Grown
    <3>2. CASE UNCHANGED workerVars
      BY <1>0, <3>2 DEF WorkerTypes, workerVars
    <3> QED BY <1>4, <3>1, <3>2 DEF BeginPromotion
  <2>2. StoreTypes' /\ RunTypes'
    BY <1>0, <1>4 DEF BeginPromotion, StoreTypes, RunTypes, RunStates, Sets
  <2>3. PromotionTypes'
    BY <1>0, <1>4 DEF BeginPromotion, PromotionTypes, WorkerTypes
  <2>4. TaskTypes' /\ TrialTypes' /\ GcTypes'
    BY <1>0, <1>4 DEF BeginPromotion, TaskTypes, TrialTypes, GcTypes, taskVars, trialVars, gcVars
  <2> QED BY <2>1, <2>2, <2>3, <2>4, TypePartsNext
<1>5. ASSUME Finalize(w) PROVE TypeOK'
  <2>1. WorkerTypes'
    BY <1>0, <1>5, LeaveTypes DEF Finalize, WorkerTypes, workerVars
  <2>2. StoreTypes' /\ RunTypes'
    BY <1>0, <1>5 DEF Finalize, StoreTypes, RunTypes, RunStates, Sets
  <2>3. TaskTypes' /\ PromotionTypes'
    BY <1>0, <1>5 DEF Finalize, TaskTypes, PromotionTypes, Ends
  <2>4. TrialTypes' /\ GcTypes'
    BY <1>0, <1>5 DEF Finalize, TrialTypes, GcTypes, trialVars, gcVars
  <2> QED BY <2>1, <2>2, <2>3, <2>4, TypePartsNext
<1> QED BY <1>1, <1>2, <1>3, <1>4, <1>5

LEMMA OutsideTypes ==
    ASSUME TypeOK, Expire \/ OperatorStep \/ \E t \in Trials : Perish(t)
    PROVE  TypeOK'
<1>0. /\ TaskTypes /\ RunTypes /\ PromotionTypes /\ TrialTypes /\ StoreTypes /\ WorkerTypes
      /\ GcTypes
  BY TypeParts
<1>1. ASSUME Expire \/ RecoverOutage PROVE TypeOK'
  <2>1. TaskTypes'
    BY <1>0, <1>1 DEF Expire, RecoverOutage, TaskTypes
  <2>2. UNCHANGED <<runVars, promoVars, trialVars, storeVars, workerVars, gcVars>>
    BY <1>1 DEF Expire, RecoverOutage
  <2> QED BY <1>0, <2>1, <2>2, TypePartsNext
          DEF runVars, promoVars, trialVars, storeVars, workerVars, gcVars, RunTypes,
              PromotionTypes, TrialTypes, StoreTypes, WorkerTypes, GcTypes
<1>2. ASSUME RecoverFinalizer PROVE TypeOK'
  <2>1. TaskTypes'
    BY <1>0, <1>2 DEF RecoverFinalizer, TaskTypes
  <2>2. RunTypes' /\ PromotionTypes' /\ StoreTypes'
    BY <1>0, <1>2 DEF RecoverFinalizer, ReopenPromotion, RunTypes, RunStates, PromotionTypes,
                      StoreTypes, Sets
  <2>3. TrialTypes' /\ WorkerTypes' /\ GcTypes'
    BY <1>0, <1>2 DEF RecoverFinalizer, trialVars, workerVars, gcVars, TrialTypes, WorkerTypes,
                      GcTypes
  <2> QED BY <2>1, <2>2, <2>3, TypePartsNext
<1>3. ASSUME \/ ListDue \/ MarkExpired \/ GcStops
             \/ \E t \in Trials : DeleteProbe(t) \/ Perish(t)
      PROVE  TypeOK'
  <2>1. UNCHANGED <<taskVars, runVars, promoVars, trialVars, workerVars>>
    BY <1>3 DEF ListDue, MarkExpired, GcStops, DeleteProbe, Perish
  <2>2. StoreTypes'
    BY <1>0, <1>3 DEF ListDue, MarkExpired, GcStops, DeleteProbe, Perish, StoreTypes, storeVars,
                      Sets
  <2>3. GcTypes'
    BY <1>0, <1>3 DEF ListDue, MarkExpired, GcStops, DeleteProbe, Perish, GcTypes, gcVars
  <2> QED BY <1>0, <2>1, <2>2, <2>3, TypePartsNext
          DEF taskVars, runVars, promoVars, trialVars, workerVars, TaskTypes, RunTypes,
              PromotionTypes, TrialTypes, WorkerTypes
<1> QED BY <1>1, <1>2, <1>3 DEF OperatorStep

LEMMA TypeStep == TypeOK /\ [Next]_vars => TypeOK'
<1> SUFFICES ASSUME TypeOK, [Next]_vars PROVE TypeOK'
  OBVIOUS
<1>0. TaskTypes
  BY TypeParts
<1>1. ASSUME NEW w \in Workers, WorkerStep(w) PROVE TypeOK'
  <2>1. ASSUME Requeued(w) PROVE TypeOK'
    BY <1>0, <2>1, ReturnsTypes DEF Requeued, TaskTypes
  <2>2. ASSUME NEW st \in Failures, NEW exact \in BOOLEAN, MarkTerminal(w, st, exact)
        PROVE  TypeOK'
    BY <2>2, TerminalTypes DEF Failures
  <2> QED BY <1>1, <2>1, <2>2, WorkerKinds, WalksTypes, RaisesTypes, TrialStepTypes,
             LaterStepTypes
<1>2. CASE UNCHANGED vars
  BY <1>2 DEF vars, taskVars, runVars, promoVars, trialVars, storeVars, workerVars, gcVars, TypeOK
<1> QED BY <1>1, <1>2, OutsideTypes DEF Next

LEMMA InitTypes == Init => TypeOK
<1> SUFFICES ASSUME Init PROVE TypeOK
  OBVIOUS
<1>1. TaskTypes /\ RunTypes /\ PromotionTypes
  BY DEF Init, TaskTypes, RunTypes, RunStates, PromotionTypes, None
<1>2. TrialTypes /\ StoreTypes /\ GcTypes
  BY DEF Init, TrialTypes, TrialStates, StoreTypes, Sets, GcTypes, None
<1>3. WorkerTypes
  BY DEF Init, WorkerTypes, Places, Grown, None
<1> QED BY <1>1, <1>2, <1>3, TypeParts

\* The task, its run, promotion, trials, evidence and workers keep their types.
THEOREM TypeCorrect == Spec => []TypeOK
BY InitTypes, TypeStep, PTL DEF Spec

-----------------------------------------------------------------------------
(* The task's attempts. *)

\* A live attempt is the last one, of an active task, and no two workers have
\* the same.
Numbers ==
    /\ holder # None => holder = latest
    /\ task = "ACTIVE" <=> holder # None
    /\ \A w \in Workers : number[w] <= latest
    /\ \A w, v \in Workers : number[w] # None /\ number[w] = number[v] => w = v

\* What any step does to attempts: a claim takes the next, every other step
\* leaves the live one or ends it, and takes none from another worker.
Claimed(w) ==
    /\ task = "PENDING" /\ task' = "ACTIVE" /\ latest < MaxAttempts
    /\ holder' = latest + 1 /\ latest' = latest + 1
    /\ number' = [number EXCEPT ![w] = latest + 1]

Drops == \A w \in Workers : number'[w] \in {None, number[w]}

KeepsTask == UNCHANGED <<task, holder, latest>> /\ Drops

EndsAttempt ==
    /\ task = "ACTIVE" /\ holder' = None /\ latest' = latest /\ Drops
    /\ task' \in {"PENDING"} \cup Ends

Reopens ==
    /\ task \in {"POLICY_REJECTED", "FINALIZATION_FAILED"} /\ task' = "PENDING"
    /\ UNCHANGED <<holder, latest>> /\ Drops

LEMMA LeaveDrops == ASSUME WorkerTypes, NEW w \in Workers, Leave(w) PROVE Drops
BY DEF Leave, Drops, WorkerTypes

LEMMA AttemptMoves ==
    ASSUME TypeOK, Numbers, Next
    PROVE  KeepsTask \/ EndsAttempt \/ Reopens \/ \E w \in Workers : pc[w] = "idle" /\ Claimed(w)
<1>0. WorkerTypes /\ TaskTypes
  BY TypeParts
<1>1. ASSUME NEW w \in Workers, WorkerStep(w)
      PROVE  KeepsTask \/ EndsAttempt \/ \E v \in Workers : pc[v] = "idle" /\ Claimed(v)
  <2>a. Owns(w) => task = "ACTIVE"
    BY DEF Owns, Numbers
  <2>1. ASSUME Leave(w) \/ UNCHANGED number PROVE Drops
    BY <1>0, <2>1, LeaveDrops DEF Drops
  <2>2. Walks(w) \/ Raises(w) => KeepsTask
    BY <2>1 DEF Walks, Goes, Raises, KeepsTask, taskVars
  <2>3. Requeued(w) => EndsAttempt
    BY <2>a, <2>1 DEF Requeued, Returns, EndsAttempt
  <2>4. ASSUME NEW st \in Failures, NEW exact \in BOOLEAN, MarkTerminal(w, st, exact)
        PROVE  EndsAttempt
    BY <2>a, <2>1, <2>4 DEF MarkTerminal, EndsAttempt, Failures
  <2>5. Claim(w) => pc[w] = "idle" /\ Claimed(w)
    BY DEF Claim, Claimed
  <2>6. Prepare(w) \/ StartTrial(w) \/ ReserveArtifact(w) \/ PublishProbe(w) \/ FailTrial(w)
          => KeepsTask
    BY <2>1 DEF Prepare, StartTrial, ReserveArtifact, PublishProbe, FailTrial, Goes, KeepsTask,
                taskVars
  <2>7. ASSUME NEW lapsed \in SUBSET Trials,
               NoTrial(w, lapsed) \/ \E t \in Trials : ClaimTrial(w, t, lapsed)
        PROVE  KeepsTask
    BY <2>1, <2>7 DEF NoTrial, ClaimTrial, Goes, KeepsTask, taskVars
  <2>8. ASSUME NEW verdict \in Evaluated, NEW to \in {"probing", "failing"},
               CompleteTrial(w, verdict, to)
        PROVE  KeepsTask
    BY <2>1, <2>8 DEF CompleteTrial, KeepsTask, taskVars
  <2>9. RecordDecision(w) \/ BeginPromotion(w) => KeepsTask
    BY <2>1 DEF RecordDecision, BeginPromotion, Goes, KeepsTask, taskVars, workerVars
  <2>10. ReviewContinuation(w) \/ Finalize(w) => EndsAttempt
    BY <2>a, <2>1 DEF ReviewContinuation, Finalize, EndsAttempt, Ends, workerVars
  <2> QED BY <1>1, <2>2, <2>3, <2>4, <2>5, <2>6, <2>7, <2>8, <2>9, <2>10, WorkerKinds
<1>2. ASSUME Expire PROVE EndsAttempt
  BY <1>2 DEF Expire, EndsAttempt, Drops, workerVars
<1>3. ASSUME OperatorStep \/ \E t \in Trials : Perish(t) PROVE KeepsTask \/ Reopens
  BY <1>3 DEF OperatorStep, RecoverOutage, RecoverFinalizer, ListDue, MarkExpired, GcStops,
              DeleteProbe, Perish, KeepsTask, Reopens, Drops, taskVars, workerVars
<1> QED BY <1>1, <1>2, <1>3 DEF Next

LEMMA NumbersStep == TypeOK /\ Numbers /\ [Next]_vars => Numbers'
<1> SUFFICES ASSUME TypeOK, Numbers, [Next]_vars PROVE Numbers'
  OBVIOUS
<1>0. /\ TaskTypes /\ WorkerTypes /\ Attempts \subseteq Nat \ {None}
      /\ \A w \in Workers : number[w] \in Nat
      /\ latest \in Nat
  BY TypeParts DEF Attempts, None, TaskTypes, WorkerTypes
<1>1. CASE KeepsTask
  BY <1>0, <1>1 DEF KeepsTask, Drops, Numbers, None
<1>2. CASE EndsAttempt
  BY <1>0, <1>2 DEF EndsAttempt, Drops, Numbers, None, Ends
<1>3. CASE Reopens
  BY <1>0, <1>3 DEF Reopens, Drops, Numbers, None
<1>4. ASSUME NEW w \in Workers, Claimed(w) PROVE Numbers'
  <2>1. \A v \in Workers : /\ v # w => number'[v] = number[v] /\ number'[v] < latest + 1
                           /\ v = w => number'[v] = latest + 1
    BY <1>0, <1>4 DEF Claimed, Numbers, WorkerTypes
  <2> QED BY <1>0, <1>4, <2>1 DEF Claimed, Numbers, None
<1>5. CASE UNCHANGED vars
  BY <1>5 DEF vars, taskVars, workerVars, Numbers
<1> QED BY <1>1, <1>2, <1>3, <1>4, <1>5, AttemptMoves

LEMMA InitNumbers == Init => Numbers
BY DEF Init, Numbers, None

-----------------------------------------------------------------------------
(* Task, run, promotion and evidence. *)

Early   == {"none", "PENDING", "PROBING", "READY_TO_DECIDE"}
Settled == {"SHADOW_COMPLETE", "HUMAN_REVIEW", "REJECTED", "PROMOTED", "REVIEW_PENDING"}
Swept   == {"PROMOTED", "REJECTED"}

\* Before the decision the run is early and nothing is promoted; after it, the
\* run is one that mode and decision lead to.
RunFollows ==
    /\ action = "none" => run \in Early /\ promotion = "none"
    /\ mode = "shadow" /\ action # "none" => run = "SHADOW_COMPLETE" /\ promotion = "none"
    /\ mode = "select" /\ action = "HUMAN_REVIEW" =>
         run = "HUMAN_REVIEW" /\ promotion = "none"
    /\ mode = "select" /\ action = "REJECT_ALL" => run = "REJECTED" /\ promotion = "none"
    /\ mode = "select" /\ action = "CONTINUE_WINNER" =>
         run \in {"CONTINUATION_QUEUED", "CONTINUATION_FAILED", "REVIEW_PENDING",
                  "CONTINUING", "PROMOTED", "PROMOTION_FAILED"}
    /\ run = "REVIEW_PENDING" =>
         task = "BLOCKED_PROBE_ARTIFACT_UNAVAILABLE" /\ promotion = "none"
    /\ run = "CONTINUATION_QUEUED" => promotion = "none"

\* A decision is taken when no trial is left open, on bytes that are filed, and
\* no bytes are filed as retained before it.
Filed ==
    /\ action = "none" => \A t \in Trials : set[t] \in {"none", "RESERVED", "AVAILABLE"}
    /\ action # "none" => \A t \in Trials : trial[t] \in Over
    /\ \A t \in Trials : /\ trial[t] \in Evaluated => set[t] # "none"
                         /\ set[t] = "BENCHMARK_RETAINED" => mode = "shadow"

Recorded == action # "none" => action = Decision /\ winner = Winner

\* A worker on its trials that still owns the task works before the decision.
AtTrials == \A w \in Workers : Owns(w) /\ pc[w] \in TrialPlaces => action = "none"

\* The bytes a worker has published, and has not completed its trial with yet,
\* are there; and probe-gc is about a run that is settled.
Published ==
    \A w \in Workers : pc[w] = "published" /\ on[w] \notin Perishable =>
        bytes[on[w]] \/ run \in Swept

Due == due # {} \/ gone # None => run \in Swept

Story == RunFollows /\ Filed /\ Recorded /\ OneStory

\* The winner of a decision has filed evidence.
LEMMA WinnerFiled ==
    ASSUME TypeOK, Story, action = "CONTINUE_WINNER"
    PROVE  winner \in Trials /\ set[winner] # "none" /\ Wins(winner)
<1>1. action = Decision /\ winner = Winner
  BY DEF Story, Recorded
<1>2. \E t \in Trials : Wins(t)
  BY <1>1 DEF Decision
<1>3. Winner \in Trials /\ Wins(Winner)
  BY <1>2 DEF Winner
<1>4. trial[winner] \in Evaluated
  BY <1>1, <1>3 DEF Wins, Evaluated
<1> QED BY <1>1, <1>3, <1>4 DEF Story, Filed

\* The steps as the story knows them.  Nothing of it changes, ...
Calm ==
    /\ UNCHANGED <<runVars, promoVars, trialVars, set>>
    /\ \/ task' = task
       \/ /\ task \in {"PENDING", "ACTIVE", "POLICY_REJECTED", "FINALIZATION_FAILED"}
          /\ task' \in {"PENDING", "ACTIVE"}
    /\ latest' = latest \/ task = "PENDING"

\* ... a trial does, ...
Tries ==
    /\ action = "none" /\ run' \in Early
    /\ UNCHANGED <<taskVars, mode, action, winner, promoVars, bytes, gcVars>>
    /\ \A t \in Trials :
         /\ \/ set'[t] = set[t]
            \/ set[t] = "none" /\ set'[t] = "RESERVED"
            \/ set[t] = "RESERVED" /\ set'[t] = "AVAILABLE"
         /\ trial'[t] \in Evaluated /\ trial[t] \notin Evaluated => set[t] # "none"
         /\ trial'[t] \in Evaluated /\ trial[t] \notin Evaluated /\ t \notin Perishable => bytes[t]
         /\ tries'[t] = tries[t] \/ (~Spent(t) /\ tries'[t] = tries[t] + 1)

\* ... or the task ends and takes its run along.
GivesUp(st) ==
    /\ task = "ACTIVE" /\ task' = st /\ latest' = latest
    /\ CloseRun(st)
    /\ UNCHANGED <<trialVars, bytes, gcVars>>

\* A trial that is claimed, started, filed, completed or failed.
LEMMA TrialsMove ==
    ASSUME TypeOK, Story, AtTrials, Published, NEW w \in Workers,
           \/ \E lapsed \in SUBSET Trials :
                NoTrial(w, lapsed) \/ \E t \in Trials : ClaimTrial(w, t, lapsed)
           \/ StartTrial(w) \/ ReserveArtifact(w)
           \/ \E verdict \in Evaluated, to \in {"probing", "failing"} :
                CompleteTrial(w, verdict, to)
           \/ FailTrial(w)
    PROVE  Tries
<1>0. TrialTypes /\ StoreTypes /\ WorkerTypes
  BY TypeParts
<1>1. action = "none" /\ run \in Early
  <2>1. Owns(w) /\ pc[w] \in TrialPlaces
    BY DEF NoTrial, ClaimTrial, StartTrial, ReserveArtifact, CompleteTrial, FailTrial, Goes,
           OwnsTrial, TrialPlaces, Grown
  <2> QED BY <2>1 DEF AtTrials, Story, RunFollows
<1>2. ASSUME NEW lapsed \in SUBSET Trials,
             NoTrial(w, lapsed) \/ \E t \in Trials : ClaimTrial(w, t, lapsed)
      PROVE  Tries
  <2>1. \A last, t \in Trials \cup {NumTrials} :
          t \in Trials /\ FailedBefore(lapsed, last)[t] \in Evaluated => trial[t] \in Evaluated
    BY <1>0 DEF FailedBefore, AfterExpiry, TrialTypes, Evaluated
  <2>2. CASE NoTrial(w, lapsed)
    BY <1>1, <2>1, <2>2 DEF NoTrial, Tries, runVars, storeVars
  <2>3. ASSUME NEW t \in Trials, ClaimTrial(w, t, lapsed) PROVE Tries
    <3>1. \A u \in Trials : trial'[u] \in Evaluated => trial[u] \in Evaluated
      BY <1>0, <2>1, <2>3, ExpiryTypes DEF ClaimTrial, Evaluated
    <3>2. ~Spent(t)
      BY <2>3 DEF ClaimTrial, FirstOf, Open
    <3>3. \A u \in Trials : tries'[u] = tries[u] \/ (~Spent(u) /\ tries'[u] = tries[u] + 1)
      BY <1>0, <2>3, <3>2 DEF ClaimTrial, TrialTypes
    <3> QED BY <1>1, <2>3, <3>1, <3>3 DEF ClaimTrial, Tries, storeVars, Early
  <2> QED BY <1>2, <2>2, <2>3
<1>3. ASSUME StartTrial(w) \/ FailTrial(w) PROVE Tries
  <2>1. \A t \in Trials : trial'[t] \in Evaluated => trial[t] \in Evaluated
    BY <1>0, <1>3 DEF StartTrial, FailTrial, TrialTypes, Evaluated
  <2> QED BY <1>1, <1>3, <2>1 DEF StartTrial, FailTrial, Tries, runVars, storeVars
<1>4. ASSUME ReserveArtifact(w) PROVE Tries
  <2>1. \A t \in Trials : trial'[t] \in Evaluated => trial[t] \in Evaluated
    BY <1>0, <1>4 DEF ReserveArtifact, TrialTypes, Evaluated
  <2>2. \A t \in Trials : set'[t] = set[t] \/ (set[t] = "none" /\ set'[t] = "RESERVED")
    BY <1>0, <1>4 DEF ReserveArtifact, StoreTypes
  <2> QED BY <1>1, <1>4, <2>1, <2>2 DEF ReserveArtifact, Tries, runVars
<1>5. ASSUME NEW verdict \in Evaluated, NEW to \in {"probing", "failing"},
             CompleteTrial(w, verdict, to)
      PROVE  Tries
  <2>1. on[w] \in Trials /\ set[on[w]] = "RESERVED"
    BY <1>0, <1>5 DEF CompleteTrial, WorkerTypes, Grown
  <2>2. on[w] \notin Perishable => bytes[on[w]]
    BY <1>1, <1>5 DEF CompleteTrial, Published, Early, Swept
  <2>3. \A t \in Trials : /\ trial'[t] # trial[t] => t = on[w]
                          /\ set'[t] # set[t] => t = on[w] /\ set'[t] = "AVAILABLE"
    BY <1>0, <1>5 DEF CompleteTrial, TrialTypes, StoreTypes
  <2>4. run' \in Early
    BY <1>1, <1>5 DEF CompleteTrial, Early
  <2>5. UNCHANGED <<taskVars, mode, action, winner, promoVars, tries, bytes, gcVars>>
    BY <1>5 DEF CompleteTrial
  <2> QED BY <1>1, <2>1, <2>2, <2>3, <2>4, <2>5 DEF Tries
<1> QED BY <1>2, <1>3, <1>4, <1>5

Moves ==
    \/ Calm \/ Tries
    \/ \E w \in Workers :
         RecordDecision(w) \/ ReviewContinuation(w) \/ BeginPromotion(w) \/ Finalize(w)
    \/ \E st \in Failures : GivesUp(st)
    \/ RecoverFinalizer /\ promotion = "FAILED"
    \/ MarkExpired /\ gone # None /\ Expirable(gone)

\* Preparing a run opens it, or finds it decided and changes nothing.
LEMMA PrepareMoves ==
    ASSUME TypeOK, Story, NEW w \in Workers, Prepare(w)
    PROVE  Tries \/ Calm
<1>0. TrialTypes
  BY TypeParts
<1>1. CASE action = "none"
  <2>1. run' \in Early
    BY <1>1 DEF Prepare, Story, RunFollows, Early
  <2>2. \A t \in Trials : trial'[t] \in Evaluated => trial[t] \in Evaluated
    BY <1>0 DEF Prepare, TrialTypes, Evaluated
  <2> QED BY <1>1, <2>1, <2>2 DEF Prepare, Tries, storeVars
<1>2. CASE action # "none"
  <2>1. run # "none"
    BY <1>2 DEF Story, RunFollows, TypeOK, Actions
  <2>2. \A t \in Trials : trial[t] # "none"
    BY <1>2 DEF Story, Filed, Over, Evaluated
  <2>3. trial' = trial
    BY <1>0, <2>2 DEF Prepare, TrialTypes
  <2> QED BY <2>1, <2>3 DEF Prepare, Calm, taskVars, runVars, promoVars, trialVars, storeVars
<1> QED BY <1>1, <1>2

LEMMA StoryMoves ==
    ASSUME TypeOK, Numbers, Story, AtTrials, Published, Next
    PROVE  Moves
<1>1. ASSUME NEW w \in Workers, WorkerStep(w) PROVE Moves
  <2>a. Owns(w) => task = "ACTIVE"
    BY DEF Owns, Numbers
  <2>1. Walks(w) \/ Raises(w) \/ PublishProbe(w) => Calm
    BY DEF Walks, Raises, PublishProbe, Calm, taskVars, trialVars, storeVars
  <2>2. Requeued(w) \/ Claim(w) => Calm
    BY <2>a DEF Requeued, Returns, Claim, Calm, storeVars
  <2>3. ASSUME NEW st \in Failures, NEW exact \in BOOLEAN, MarkTerminal(w, st, exact)
        PROVE  GivesUp(st)
    BY <2>a, <2>3 DEF MarkTerminal, GivesUp
  <2> QED BY <1>1, <2>1, <2>2, <2>3, WorkerKinds, TrialsMove, PrepareMoves DEF Moves
<1>2. Expire => Calm
  BY DEF Expire, Calm, storeVars
<1>3. ASSUME OperatorStep \/ \E t \in Trials : Perish(t) PROVE Moves
  <2>1. RecoverOutage \/ ListDue \/ GcStops \/ (\E t \in Trials : DeleteProbe(t) \/ Perish(t))
          => Calm
    BY DEF RecoverOutage, ListDue, GcStops, DeleteProbe, Perish, Calm, taskVars, storeVars
  <2>2. MarkExpired => Calm \/ (gone # None /\ Expirable(gone))
    BY DEF MarkExpired, Calm, taskVars
  <2>3. RecoverFinalizer => Calm \/ promotion = "FAILED"
    BY DEF RecoverFinalizer, Calm, runVars, promoVars
  <2> QED BY <1>3, <2>1, <2>2, <2>3 DEF OperatorStep, Moves
<1> QED BY <1>1, <1>2, <1>3 DEF Next, Moves

\* The decision reads nothing but the trials.
LEMMA DecisionStays == UNCHANGED trial => Decision' = Decision /\ Winner' = Winner
BY DEF Decision, Winner, Wins, NoneEligible

\* What is filed after all evidence was moved.
LEMMA AllFiled ==
    ASSUME NEW st
    PROVE  \A t \in Trials : AllSets(st)[t] = IF set[t] = "none" THEN "none" ELSE st
BY DEF AllSets

LEMMA CalmStory == TypeOK /\ Story /\ Calm => Story'
<1> SUFFICES ASSUME TypeOK, Story, Calm PROVE Story'
  OBVIOUS
<1>1. /\ UNCHANGED <<mode, run, action, winner, promotion, bound, failedAs, trial, set>>
  BY DEF Calm, runVars, promoVars, trialVars
<1>2. task = "QC_PENDING" <=> task' = "QC_PENDING"
  BY DEF Calm
<1>3. run = "REVIEW_PENDING" => task' = "BLOCKED_PROBE_ARTIFACT_UNAVAILABLE"
  BY DEF Calm, Story, RunFollows
<1>4. promotion = "PROMOTED" => bound = latest'
  BY DEF Calm, Story, OneStory
<1>5. promotion = "CONTINUING" => task' \in {"PENDING", "ACTIVE"}
  BY DEF Calm, Story, OneStory
<1>6. RunFollows' /\ Filed' /\ Recorded'
  BY <1>1, <1>3, DecisionStays DEF Story, RunFollows, Filed, Recorded
<1>7. OneStory'
  BY <1>1, <1>2, <1>4, <1>5 DEF Story, OneStory
<1> QED BY <1>6, <1>7 DEF Story

LEMMA TriesStory == TypeOK /\ Story /\ Tries => Story'
<1> SUFFICES ASSUME TypeOK, Story, Tries PROVE Story'
  OBVIOUS
<1>1. /\ UNCHANGED <<task, latest, mode, action, winner, promotion, bound, failedAs>>
      /\ action = "none" /\ promotion = "none" /\ run \in Early /\ run' \in Early
  BY DEF Tries, Story, RunFollows, taskVars, promoVars
<1>2. RunFollows' /\ Recorded'
  BY <1>1 DEF RunFollows, Recorded, Early
<1>3. \A t \in Trials : /\ set'[t] \in {"none", "RESERVED", "AVAILABLE"}
                        /\ trial'[t] \in Evaluated => set'[t] # "none"
  BY <1>1 DEF Tries, Story, Filed
<1>4. Filed'
  BY <1>1, <1>3 DEF Filed
<1>5. OneStory'
  BY <1>1 DEF OneStory, Story, Early
<1> QED BY <1>2, <1>4, <1>5 DEF Story

LEMMA DecisionStory ==
    ASSUME TypeOK, Numbers, Story, NEW w \in Workers, RecordDecision(w)
    PROVE  Story'
<1>0. StoreTypes /\ RunTypes
  BY TypeParts
<1>1. /\ UNCHANGED <<task, latest, mode, promotion, bound, failedAs, trial>>
      /\ action = "none" /\ promotion = "none" /\ run \in Early
      /\ action' = Decision /\ winner' = Winner /\ run' = DecidedRun /\ set' = DecidedSets
      /\ \A t \in Trials : trial[t] \in Over
      /\ task = "ACTIVE"
  BY DEF RecordDecision, Story, RunFollows, taskVars, promoVars, trialVars, Owns, Numbers
<1>2. Decision \in Actions
  BY DEF Decision, Actions
<1>3. RunFollows'
  BY <1>0, <1>1, <1>2 DEF RunFollows, RunTypes, DecidedRun, Actions, Early
<1>4. Recorded'
  BY <1>1, DecisionStays DEF Recorded
<1>5. \A t \in Trials : /\ set'[t] = "none" <=> set[t] = "none"
                        /\ set'[t] = "BENCHMARK_RETAINED" => mode = "shadow"
  <2>1. \A t \in Trials : set[t] # "BENCHMARK_RETAINED"
    BY <1>1 DEF Story, Filed
  <2> QED BY <1>1, <2>1 DEF DecidedSets, AllSets
<1>6. Filed'
  BY <1>1, <1>2, <1>5 DEF Filed, Actions, Story
<1>7. OneStory'
  BY <1>0, <1>1, <1>2 DEF OneStory, Story, DecidedRun, Actions
<1> QED BY <1>3, <1>4, <1>6, <1>7 DEF Story

LEMMA GivesUpStory ==
    ASSUME TypeOK, Story, NEW st \in Failures, GivesUp(st)
    PROVE  Story'
<1>0. StoreTypes /\ RunTypes
  BY TypeParts
<1>1. /\ UNCHANGED <<mode, action, winner, bound, trial>>
      /\ task = "ACTIVE" /\ task' = st
      /\ st \notin {"QC_PENDING", "BLOCKED_PROBE_ARTIFACT_UNAVAILABLE", "PENDING", "ACTIVE"}
      /\ latest' = latest
  BY DEF GivesUp, CloseRun, trialVars, Failures, Ends
<1>2. Recorded'
  BY <1>1, DecisionStays DEF Story, Recorded
<1>3. run # "REVIEW_PENDING" /\ promotion # "PROMOTED"
  BY <1>1 DEF Story, RunFollows, OneStory
<1>4. CASE promotion = "CONTINUING"
  <2>1. /\ promotion' = "FAILED" /\ failedAs' = st /\ run' = "PROMOTION_FAILED"
        /\ set' = AllSets("REVIEW_RETAINED")
    BY <1>4 DEF GivesUp, CloseRun
  <2>2. mode = "select" /\ action = "CONTINUE_WINNER"
    BY <1>0, <1>4 DEF Story, RunFollows, RunTypes, Actions
  <2>3. set'[winner] = "REVIEW_RETAINED" /\ \A t \in Trials : set'[t] = "none" <=> set[t] = "none"
    BY <2>1, <2>2, AllFiled, WinnerFiled
  <2>4. \A t \in Trials : set'[t] # "BENCHMARK_RETAINED"
    BY <2>1, AllFiled
  <2>5. Filed'
    BY <1>1, <2>2, <2>3, <2>4 DEF Story, Filed
  <2>6. RunFollows' /\ OneStory'
    BY <1>1, <2>1, <2>2, <2>3 DEF RunFollows, OneStory
  <2> QED BY <1>2, <2>5, <2>6 DEF Story
<1>5. CASE promotion # "CONTINUING" /\ run = "CONTINUATION_QUEUED" /\ mode = "select"
  <2>1. /\ UNCHANGED promotion /\ run' = "CONTINUATION_FAILED" /\ set' = AllSets("REVIEW_RETAINED")
    BY <1>5 DEF GivesUp, CloseRun
  <2>2. promotion = "none" /\ action = "CONTINUE_WINNER"
    BY <1>0, <1>5 DEF Story, RunFollows, RunTypes, Actions, Early
  <2>3. \A t \in Trials : /\ set'[t] = "none" <=> set[t] = "none"
                          /\ set'[t] # "BENCHMARK_RETAINED"
    BY <2>1, AllFiled
  <2>4. Filed'
    BY <1>1, <2>2, <2>3 DEF Story, Filed
  <2>5. RunFollows' /\ OneStory'
    BY <1>1, <1>5, <2>1, <2>2 DEF RunFollows, OneStory
  <2> QED BY <1>2, <2>4, <2>5 DEF Story
<1>6. CASE promotion # "CONTINUING" /\ ~(run = "CONTINUATION_QUEUED" /\ mode = "select")
  <2>1. UNCHANGED <<promotion, failedAs, run, set>>
    BY <1>6 DEF GivesUp, CloseRun
  <2>2. Filed' /\ RunFollows' /\ OneStory'
    BY <1>1, <1>3, <1>6, <2>1 DEF Story, Filed, RunFollows, OneStory
  <2> QED BY <1>2, <2>2 DEF Story
<1> QED BY <1>4, <1>5, <1>6

LEMMA ReviewStory ==
    ASSUME TypeOK, Numbers, Story, NEW w \in Workers, ReviewContinuation(w)
    PROVE  Story'
<1>0. StoreTypes /\ RunTypes
  BY TypeParts
<1>1. /\ UNCHANGED <<mode, action, winner, bound, trial, promotion, failedAs, latest>>
      /\ promotion = "none" /\ action = "CONTINUE_WINNER" /\ run = "CONTINUATION_QUEUED"
      /\ task' = "BLOCKED_PROBE_ARTIFACT_UNAVAILABLE" /\ run' = "REVIEW_PENDING"
      /\ set' = AllSets("REVIEW_RETAINED") /\ task = "ACTIVE"
  BY DEF ReviewContinuation, Reviewable, trialVars, promoVars, Owns, Numbers
<1>2. mode = "select"
  BY <1>0, <1>1 DEF Story, RunFollows, RunTypes
<1>3. \A t \in Trials : /\ set'[t] = "none" <=> set[t] = "none"
                        /\ set'[t] # "BENCHMARK_RETAINED"
  BY <1>1, AllFiled
<1>4. Filed' /\ Recorded'
  BY <1>1, <1>3, DecisionStays DEF Story, Filed, Recorded
<1>5. RunFollows' /\ OneStory'
  BY <1>1, <1>2 DEF RunFollows, OneStory
<1> QED BY <1>4, <1>5 DEF Story

\* A promotion is begun of a winner that waits for it, or was given up before.
LEMMA BeginStory ==
    ASSUME TypeOK, Numbers, Story, NEW w \in Workers, BeginPromotion(w)
    PROVE  Story' /\ run \notin Settled
<1>0. StoreTypes /\ RunTypes
  BY TypeParts
<1>1. /\ UNCHANGED <<task, latest, mode, action, winner, trial>>
      /\ mode = "select" /\ action = "CONTINUE_WINNER" /\ task = "ACTIVE"
      /\ promotion' = "CONTINUING"
  BY DEF BeginPromotion, taskVars, trialVars, Owns, Numbers
<1>2. run \notin Settled
  BY <1>1 DEF Story, RunFollows, OneStory, Settled
<1>3. winner \in Trials /\ set[winner] # "none"
  BY <1>1, WinnerFiled
<1>4. run' = "CONTINUING" /\ set' = [set EXCEPT ![winner] = "WINNER_RETAINED"]
  <2>1. CASE promotion = "none"
    BY <2>1 DEF BeginPromotion
  <2>2. CASE promotion = "CONTINUING"
    BY <1>0, <1>3, <2>2 DEF BeginPromotion, Story, OneStory, StoreTypes
  <2> QED BY <2>1, <2>2 DEF BeginPromotion
<1>5. \A t \in Trials : /\ set'[t] = "none" <=> set[t] = "none"
                        /\ set'[t] # set[t] => set'[t] = "WINNER_RETAINED"
                        /\ set'[winner] = "WINNER_RETAINED"
  BY <1>0, <1>3, <1>4 DEF StoreTypes
<1>6. Filed' /\ Recorded'
  BY <1>1, <1>5, DecisionStays DEF Story, Filed, Recorded
<1>7. RunFollows' /\ OneStory'
  BY <1>1, <1>3, <1>4, <1>5 DEF RunFollows, OneStory
<1> QED BY <1>2, <1>6, <1>7 DEF Story

LEMMA FinalizeStory ==
    ASSUME TypeOK, Numbers, Story, NEW w \in Workers, Finalize(w)
    PROVE  Story'
<1>0. StoreTypes /\ RunTypes
  BY TypeParts
<1>1. /\ UNCHANGED <<latest, mode, action, winner, bound, trial>> /\ task' = "QC_PENDING"
      /\ task = "ACTIVE" /\ number[w] = latest
  BY DEF Finalize, trialVars, Owns, Numbers
<1>2. Recorded'
  BY <1>1, DecisionStays DEF Story, Recorded
<1>3. CASE promotion = "none"
  <2>1. UNCHANGED <<promotion, run, set>> /\ mode = "shadow"
    BY <1>3 DEF Finalize, Authority
  <2>2. Filed' /\ RunFollows' /\ OneStory'
    BY <1>1, <1>3, <2>1 DEF Story, Filed, RunFollows, OneStory
  <2> QED BY <1>2, <2>2 DEF Story
<1>4. CASE promotion # "none"
  <2>1. /\ promotion' = "PROMOTED" /\ run' = "PROMOTED" /\ run = "CONTINUING"
        /\ set' = [set EXCEPT ![winner] = "PROMOTED_RETAINED"]
        /\ mode = "select" /\ action = "CONTINUE_WINNER" /\ bound = latest
    BY <1>1, <1>4 DEF Finalize, Authority
  <2>2. winner \in Trials /\ set[winner] # "none"
    BY <2>1, WinnerFiled
  <2>3. \A t \in Trials : /\ set'[t] = "none" <=> set[t] = "none"
                          /\ set'[t] # set[t] => set'[t] = "PROMOTED_RETAINED"
                          /\ set'[winner] = "PROMOTED_RETAINED"
    BY <1>0, <2>1, <2>2 DEF StoreTypes
  <2>4. Filed'
    BY <1>1, <2>1, <2>3 DEF Story, Filed
  <2>5. RunFollows' /\ OneStory'
    BY <1>1, <2>1, <2>2, <2>3 DEF RunFollows, OneStory
  <2> QED BY <1>2, <2>4, <2>5 DEF Story
<1> QED BY <1>3, <1>4

LEMMA ReopenStory ==
    ASSUME TypeOK, Story, RecoverFinalizer, promotion = "FAILED"
    PROVE  Story'
<1>0. StoreTypes /\ RunTypes
  BY TypeParts
<1>1. /\ UNCHANGED <<latest, mode, action, winner, trial>>
      /\ task' = "PENDING" /\ promotion' = "CONTINUING" /\ run' = "CONTINUING"
      /\ set' = [set EXCEPT ![winner] = "WINNER_RETAINED"]
  BY DEF RecoverFinalizer, ReopenPromotion, trialVars
<1>2. mode = "select" /\ action = "CONTINUE_WINNER"
  BY <1>0 DEF Story, RunFollows, RunTypes, Actions
<1>3. winner \in Trials /\ set[winner] # "none"
  BY <1>2, WinnerFiled
<1>4. \A t \in Trials : /\ set'[t] = "none" <=> set[t] = "none"
                        /\ set'[t] # set[t] => set'[t] = "WINNER_RETAINED"
                        /\ set'[winner] = "WINNER_RETAINED"
  BY <1>0, <1>1, <1>3 DEF StoreTypes
<1>5. Filed' /\ Recorded'
  BY <1>1, <1>2, <1>4, DecisionStays DEF Story, Filed, Recorded
<1>6. RunFollows' /\ OneStory'
  BY <1>1, <1>2, <1>3, <1>4 DEF RunFollows, OneStory
<1> QED BY <1>5, <1>6 DEF Story

LEMMA ExpiredStory ==
    ASSUME TypeOK, Story, MarkExpired, gone # None, Expirable(gone)
    PROVE  Story'
<1>0. StoreTypes
  BY TypeParts
<1>1. /\ UNCHANGED <<task, latest, mode, run, action, winner, promotion, bound, failedAs, trial>>
      /\ set' = [set EXCEPT ![gone] = "EXPIRED"]
      /\ set[gone] \in {"LOSER_RETAINED", "PROMOTED_RETAINED"} /\ run \in Swept
      /\ gone \in Trials
  BY DEF MarkExpired, Expirable, Swept, taskVars, runVars, promoVars, trialVars, TypeOK
<1>2. \A t \in Trials : set'[t] # set[t] => /\ set'[t] = "EXPIRED"
                                            /\ set[t] \in {"LOSER_RETAINED", "PROMOTED_RETAINED"}
  BY <1>0, <1>1 DEF StoreTypes
<1>3. Filed' /\ Recorded'
  BY <1>1, <1>2, DecisionStays DEF Story, Filed, Recorded
<1>4. RunFollows'
  BY <1>1 DEF Story, RunFollows
<1>5. OneStory'
  <2>1. promotion = "PROMOTED" => winner \in Trials
    BY WinnerFiled DEF Story, OneStory, RunFollows, TypeOK, Actions, Early
  <2>2. promotion \notin {"CONTINUING", "FAILED"}
    BY <1>1 DEF Story, OneStory, Swept
  <2> QED BY <1>1, <1>2, <2>1, <2>2 DEF Story, OneStory
<1> QED BY <1>3, <1>4, <1>5 DEF Story

LEMMA StoryStep ==
    ASSUME TypeOK, Numbers, Story, AtTrials, Published, [Next]_vars
    PROVE  Story'
<1>1. CASE UNCHANGED vars
  <2>1. Calm
    BY <1>1 DEF vars, taskVars, storeVars, Calm
  <2> QED BY <2>1, CalmStory
<1>2. CASE Next
  BY <1>2, StoryMoves, CalmStory, TriesStory, DecisionStory, GivesUpStory, ReviewStory, BeginStory,
     FinalizeStory, ReopenStory, ExpiredStory DEF Moves
<1> QED BY <1>1, <1>2

LEMMA InitStory == Init => Story
BY DEF Init, Story, RunFollows, Filed, Recorded, OneStory, Early, Evaluated

-----------------------------------------------------------------------------
(* What is settled stays, and so does what was put to review. *)

\* The four conjuncts that say what a step does to run, decision and evidence.
Keeps ==
    /\ run \in Settled => run' = run
    /\ action # "none" => action' = action /\ winner' = winner
    /\ \A t \in Trials :
         set[t] \in {"REVIEW_RETAINED", "BENCHMARK_RETAINED"} /\ set'[t] # set[t] =>
             t = winner /\ set'[t] = "WINNER_RETAINED" /\ promotion' = "CONTINUING"
    /\ action # "none" => trial' = trial

LEMMA KeepsStep ==
    ASSUME TypeOK, Numbers, Story, AtTrials, Published, [Next]_vars
    PROVE  Keeps
<1>0. StoreTypes /\ RunTypes
  BY TypeParts
<1> USE DEF Settled
<1>1. ASSUME Calm PROVE Keeps
  BY <1>1 DEF Calm, Keeps, runVars, trialVars
<1>2. ASSUME Tries PROVE Keeps
  BY <1>2 DEF Tries, Keeps, Story, RunFollows, Early
<1>3. ASSUME NEW w \in Workers, RecordDecision(w) PROVE Keeps
  BY <1>3 DEF RecordDecision, Keeps, Story, RunFollows, Filed, Early
<1>4. ASSUME NEW st \in Failures, GivesUp(st) PROVE Keeps
  <2>1. run \in Settled => run' = run
    BY <1>4 DEF GivesUp, CloseRun, Story, OneStory
  <2>2. UNCHANGED <<action, winner, trial>>
    BY <1>4 DEF GivesUp, CloseRun, trialVars
  <2>3. ASSUME NEW t \in Trials, set[t] \in {"REVIEW_RETAINED", "BENCHMARK_RETAINED"},
               set'[t] # set[t]
        PROVE  FALSE
    <3>1. set' = AllSets("REVIEW_RETAINED") /\ set[t] = "BENCHMARK_RETAINED"
      BY <1>4, <2>3, AllFiled DEF GivesUp, CloseRun
    <3>2. mode = "shadow"
      BY <3>1 DEF Story, Filed
    <3>3. promotion # "CONTINUING"
      BY <3>2 DEF Story, RunFollows
    <3> QED BY <1>4, <2>3, <3>2, <3>3 DEF GivesUp, CloseRun
  <2> QED BY <2>1, <2>2, <2>3 DEF Keeps
<1>5. ASSUME NEW w \in Workers, ReviewContinuation(w) PROVE Keeps
  <2>1. /\ run = "CONTINUATION_QUEUED" /\ UNCHANGED <<action, winner, trial>>
        /\ set' = AllSets("REVIEW_RETAINED") /\ action = "CONTINUE_WINNER"
    BY <1>5 DEF ReviewContinuation, Reviewable, trialVars
  <2>2. mode = "select"
    BY <1>0, <2>1 DEF Story, RunFollows, RunTypes
  <2>3. \A t \in Trials : set[t] \in {"REVIEW_RETAINED", "BENCHMARK_RETAINED"} => set'[t] = set[t]
    BY <2>1, <2>2, AllFiled DEF Story, Filed
  <2> QED BY <2>1, <2>3 DEF Keeps
<1>6. ASSUME NEW w \in Workers, BeginPromotion(w) PROVE Keeps
  <2>1. /\ UNCHANGED <<action, winner, trial>> /\ promotion' = "CONTINUING"
        /\ set' = set \/ set' = [set EXCEPT ![winner] = "WINNER_RETAINED"]
    BY <1>6 DEF BeginPromotion, trialVars
  <2>2. run \notin Settled
    BY <1>6, BeginStory
  <2> QED BY <1>0, <2>1, <2>2 DEF Keeps, StoreTypes
<1>7. ASSUME NEW w \in Workers, Finalize(w) PROVE Keeps
  <2>1. UNCHANGED <<action, winner, trial>>
    BY <1>7 DEF Finalize, trialVars
  <2>2. CASE promotion = "none"
    BY <1>7, <2>1, <2>2 DEF Finalize, Keeps
  <2>3. CASE promotion # "none"
    <3>1. /\ run = "CONTINUING" /\ set' = [set EXCEPT ![winner] = "PROMOTED_RETAINED"]
          /\ promotion = "CONTINUING"
      BY <1>7, <2>3 DEF Finalize, Authority
    <3>2. set[winner] = "WINNER_RETAINED"
      BY <3>1 DEF Story, OneStory
    <3> QED BY <1>0, <2>1, <3>1, <3>2 DEF Keeps, StoreTypes
  <2> QED BY <2>2, <2>3
<1>8. ASSUME RecoverFinalizer, promotion = "FAILED" PROVE Keeps
  <2>1. /\ UNCHANGED <<action, winner, trial>> /\ promotion' = "CONTINUING"
        /\ set' = [set EXCEPT ![winner] = "WINNER_RETAINED"]
    BY <1>8 DEF RecoverFinalizer, ReopenPromotion, trialVars
  <2>2. run = "PROMOTION_FAILED"
    BY <1>8 DEF Story, OneStory
  <2> QED BY <1>0, <2>1, <2>2 DEF Keeps, StoreTypes
<1>9. ASSUME MarkExpired, gone # None, Expirable(gone) PROVE Keeps
  <2>1. /\ UNCHANGED <<run, action, winner, trial>> /\ set' = [set EXCEPT ![gone] = "EXPIRED"]
        /\ set[gone] \in {"LOSER_RETAINED", "PROMOTED_RETAINED"}
    BY <1>9 DEF MarkExpired, Expirable, runVars, trialVars
  <2> QED BY <1>0, <2>1 DEF Keeps, StoreTypes
<1>10. CASE UNCHANGED vars
  BY <1>10 DEF vars, runVars, trialVars, storeVars, Keeps
<1>11. CASE Next
  BY <1>1, <1>2, <1>3, <1>4, <1>5, <1>6, <1>7, <1>8, <1>9, <1>11, StoryMoves DEF Moves
<1> QED BY <1>10, <1>11

-----------------------------------------------------------------------------
(* Where the workers are, and the bytes they leave behind. *)

\* A worker that owns the task on its trials after a step did so before it, or
\* the run is undecided; and it stands at published bytes only if it stood
\* there or has just published them.
LEMMA PlacesMove ==
    ASSUME TypeOK, Numbers, Story, AtTrials, Next, NEW v \in Workers
    PROVE  /\ Owns(v)' /\ pc'[v] \in TrialPlaces /\ action' # "none" =>
                Owns(v) /\ pc[v] \in TrialPlaces /\ action' = action
           /\ pc'[v] = "published" =>
                \/ pc[v] = "published" /\ on'[v] = on[v]
                \/ bytes'[on'[v]]
<1> DEFINE P1 == Owns(v)' /\ pc'[v] \in TrialPlaces /\ action' # "none" =>
                   Owns(v) /\ pc[v] \in TrialPlaces /\ action' = action
           P2 == pc'[v] = "published" =>
                   (pc[v] = "published" /\ on'[v] = on[v]) \/ bytes'[on'[v]]
<1>0. WorkerTypes /\ StoreTypes /\ TaskTypes
  BY TypeParts
<1>a. ASSUME NEW w \in Workers, w # v, pc'[v] = pc[v], on'[v] = on[v], number'[v] = number[v],
             holder' = holder \/ holder' = None \/ Claimed(w),
             action' = action \/ (Owns(w) /\ holder' = holder)
      PROVE  P1 /\ P2
  <2>1. CASE holder' = None
    BY <1>a, <2>1 DEF Owns
  <2>2. CASE Claimed(w)
    <3>1. number'[v] < holder'
      BY <1>0, <1>a, <2>2 DEF Claimed, Numbers, WorkerTypes, TaskTypes, Attempts, None
    <3> QED BY <1>0, <1>a, <3>1 DEF Owns, WorkerTypes, Attempts, None
  <2>3. CASE holder' = holder
    BY <1>a, <2>3 DEF Owns, Numbers
  <2> QED BY <1>a, <2>1, <2>2, <2>3
<1>1. ASSUME NEW w \in Workers, WorkerStep(w) PROVE P1 /\ P2
  <2>1. ASSUME Walks(w) PROVE P1 /\ P2
    <3>1. PICK from, to \in Places \ {"idle"} :
            /\ Goes(w, from, to) /\ to \notin Grown
            /\ (to \in TrialPlaces => from \in TrialPlaces)
      BY <2>1 DEF Walks
    <3>2. UNCHANGED <<holder, action, number, on>>
      BY <2>1, <3>1 DEF Walks, Goes, taskVars, runVars
    <3>3. pc[w] = from /\ pc'[w] = to /\ (v # w => pc'[v] = pc[v])
      BY <1>0, <3>1 DEF Goes, WorkerTypes
    <3> QED BY <3>1, <3>2, <3>3 DEF Owns, Grown
  <2>2. ASSUME Leave(w), UNCHANGED holder \/ holder' = None, UNCHANGED action PROVE P1 /\ P2
    <3>1. /\ v = w => number'[v] = None /\ pc'[v] = "idle"
          /\ v # w => pc'[v] = pc[v] /\ on'[v] = on[v] /\ number'[v] = number[v]
      BY <1>0, <2>2 DEF Leave, WorkerTypes
    <3> QED BY <1>a, <2>2, <3>1 DEF Owns
  <2>3. Raises(w) \/ Requeued(w) \/ ReviewContinuation(w) => P1 /\ P2
    BY <2>2 DEF Raises, Requeued, Returns, ReviewContinuation, taskVars, runVars
  <2>4. ASSUME NEW st \in Failures, NEW exact \in BOOLEAN, MarkTerminal(w, st, exact)
        PROVE  P1 /\ P2
    BY <2>2, <2>4 DEF MarkTerminal, CloseRun
  <2>5. ASSUME Claim(w) PROVE P1 /\ P2
    <3>1. /\ v = w => pc'[v] = "claimed"
          /\ v # w => pc'[v] = pc[v] /\ on'[v] = on[v] /\ number'[v] = number[v]
      BY <1>0, <2>5 DEF Claim, WorkerTypes
    <3>2. Claimed(w) /\ UNCHANGED action
      BY <2>5 DEF Claim, Claimed, runVars
    <3> QED BY <1>a, <3>1, <3>2 DEF TrialPlaces, Grown
  <2>6. ASSUME NEW from \in Places, NEW to \in Places, Goes(w, from, to), UNCHANGED holder,
               UNCHANGED action, from \in TrialPlaces, to = "published" => bytes'[on[w]]
        PROVE  P1 /\ P2
    <3>1. pc[w] = from /\ pc'[w] = to /\ (v # w => pc'[v] = pc[v]) /\ UNCHANGED <<number, on>>
      BY <1>0, <2>6 DEF Goes, WorkerTypes
    <3> QED BY <2>6, <3>1 DEF Owns
  <2>7. StartTrial(w) \/ ReserveArtifact(w) \/ FailTrial(w) => P1 /\ P2
    BY <2>6 DEF StartTrial, ReserveArtifact, FailTrial, TrialPlaces, Grown, Places, taskVars,
                runVars
  <2>8. ASSUME PublishProbe(w) PROVE P1 /\ P2
    <3>1. Goes(w, "reserved", "published") /\ UNCHANGED <<holder, action>>
      BY <2>8 DEF PublishProbe, taskVars, runVars
    <3>2. on[w] \in Trials
      BY <1>0, <3>1 DEF Goes, WorkerTypes, Grown
    <3>3. bytes'[on[w]]
      BY <1>0, <2>8, <3>2 DEF PublishProbe, StoreTypes
    <3> QED BY <2>6, <3>1, <3>3 DEF TrialPlaces, Grown, Places
  <2>9. ASSUME NEW verdict \in Evaluated, NEW to \in {"probing", "failing"},
               CompleteTrial(w, verdict, to)
        PROVE  P1 /\ P2
    <3>1. Goes(w, "published", to) /\ UNCHANGED <<holder, action>>
      BY <2>9 DEF CompleteTrial, Goes, taskVars
    <3> QED BY <2>6, <3>1 DEF TrialPlaces, Grown, Places
  <2>10. ASSUME NEW lapsed \in SUBSET Trials, NoTrial(w, lapsed) PROVE P1 /\ P2
    <3>1. Goes(w, "probing", "deciding") \/ Leave(w)
      BY <2>10 DEF NoTrial
    <3>2. UNCHANGED <<holder, action>>
      BY <2>10 DEF NoTrial, taskVars, runVars
    <3> QED BY <2>2, <2>6, <3>1, <3>2 DEF TrialPlaces, Grown, Places
  <2>11. ASSUME NEW lapsed \in SUBSET Trials, NEW t \in Trials, ClaimTrial(w, t, lapsed)
         PROVE  P1 /\ P2
    <3>1. UNCHANGED <<holder, action, number>> /\ pc[w] = "probing"
      BY <2>11 DEF ClaimTrial, taskVars
    <3>2. /\ v = w => pc'[v] = "starting"
          /\ v # w => pc'[v] = pc[v] /\ on'[v] = on[v]
      BY <1>0, <2>11 DEF ClaimTrial, WorkerTypes
    <3> QED BY <3>1, <3>2 DEF Owns, TrialPlaces
  <2>12. ASSUME Prepare(w) PROVE P1 /\ P2
    <3>1. /\ UNCHANGED <<holder, action, number, on>>
          /\ pc'[w] = IF action = "none" THEN "probing" ELSE "decided"
          /\ v # w => pc'[v] = pc[v]
      BY <1>0, <2>12 DEF Prepare, Goes, taskVars, WorkerTypes
    <3> QED BY <3>1 DEF Owns, TrialPlaces, Grown
  <2>13. ASSUME RecordDecision(w) PROVE P1 /\ P2
    <3>1. /\ UNCHANGED <<holder, number, on>> /\ Owns(w) /\ pc'[w] = "decided"
          /\ v # w => pc'[v] = pc[v]
      BY <1>0, <2>13 DEF RecordDecision, Goes, taskVars, WorkerTypes
    <3> QED BY <1>a, <3>1 DEF TrialPlaces, Grown
  <2>14. ASSUME BeginPromotion(w) PROVE P1 /\ P2
    <3>1. UNCHANGED <<holder, action, number, on>>
      BY <2>14 DEF BeginPromotion, Goes, taskVars, workerVars
    <3>2. pc' = pc \/ (pc'[w] = "growing" /\ (v # w => pc'[v] = pc[v]))
      BY <1>0, <2>14 DEF BeginPromotion, Goes, WorkerTypes, workerVars
    <3> QED BY <3>1, <3>2 DEF Owns, TrialPlaces, Grown
  <2>15. ASSUME Finalize(w) PROVE P1 /\ P2
    <3>1. Leave(w) \/ UNCHANGED workerVars
      BY <2>15 DEF Finalize
    <3>2. holder' = None /\ UNCHANGED action
      BY <2>15 DEF Finalize
    <3> QED BY <2>2, <3>1, <3>2 DEF Owns, workerVars
  <2> QED BY <1>1, <2>1, <2>3, <2>4, <2>5, <2>7, <2>8, <2>9, <2>10, <2>11, <2>12, <2>13, <2>14,
             <2>15, WorkerKinds
<1>2. ASSUME Expire \/ OperatorStep \/ \E t \in Trials : Perish(t) PROVE P1 /\ P2
  <2>1. UNCHANGED <<pc, on, number, action>> /\ (holder' = None \/ UNCHANGED holder)
    BY <1>2 DEF Expire, OperatorStep, RecoverOutage, RecoverFinalizer, ListDue, MarkExpired,
                GcStops, DeleteProbe, Perish, taskVars, runVars, workerVars
  <2> QED BY <2>1 DEF Owns
<1> QED BY <1>1, <1>2 DEF Next

LEMMA AtTrialsStep ==
    ASSUME TypeOK, Numbers, Story, AtTrials, Published, [Next]_vars
    PROVE  AtTrials'
<1>1. CASE UNCHANGED vars
  BY <1>1 DEF vars, taskVars, runVars, workerVars, AtTrials, Owns
<1>2. CASE Next
  BY <1>2, PlacesMove DEF AtTrials
<1> QED BY <1>1, <1>2

\* Bytes go only when probe-gc deletes them, from a settled run, or the store
\* loses them; and probe-gc is about settled runs only.
LEMMA BytesMove ==
    ASSUME TypeOK, Due, Next
    PROVE  /\ \A t \in Trials \ Perishable : bytes[t] => bytes'[t] \/ run \in Swept
           /\ due' # {} \/ gone' # None => run \in Swept
<1> DEFINE Stay == bytes' = bytes \/ \E t \in Trials : bytes' = [bytes EXCEPT ![t] = TRUE]
<1>0. StoreTypes /\ WorkerTypes
  BY TypeParts
<1>1. ASSUME NEW w \in Workers, WorkerStep(w) PROVE Stay /\ UNCHANGED gcVars
  <2>1. Walks(w) \/ Raises(w) \/ Requeued(w) \/ Claim(w) \/ Prepare(w) => Stay /\ UNCHANGED gcVars
    BY DEF Walks, Raises, Requeued, Returns, Claim, Prepare, storeVars
  <2>2. ASSUME NEW st \in Failures, NEW exact \in BOOLEAN, MarkTerminal(w, st, exact)
        PROVE  Stay /\ UNCHANGED gcVars
    BY <2>2 DEF MarkTerminal
  <2>3. ASSUME NEW lapsed \in SUBSET Trials,
               NoTrial(w, lapsed) \/ \E t \in Trials : ClaimTrial(w, t, lapsed)
        PROVE  Stay /\ UNCHANGED gcVars
    BY <2>3 DEF NoTrial, ClaimTrial, storeVars
  <2>4. StartTrial(w) \/ ReserveArtifact(w) \/ FailTrial(w) => Stay /\ UNCHANGED gcVars
    BY DEF StartTrial, ReserveArtifact, FailTrial, storeVars
  <2>5. ASSUME PublishProbe(w) PROVE Stay /\ UNCHANGED gcVars
    <3>1. on[w] \in Trials
      BY <1>0, <2>5 DEF PublishProbe, Goes, WorkerTypes, Grown
    <3> QED BY <2>5, <3>1 DEF PublishProbe
  <2>6. ASSUME NEW verdict \in Evaluated, NEW to \in {"probing", "failing"},
               CompleteTrial(w, verdict, to)
        PROVE  Stay /\ UNCHANGED gcVars
    BY <2>6 DEF CompleteTrial
  <2>7. RecordDecision(w) \/ ReviewContinuation(w) \/ BeginPromotion(w) \/ Finalize(w)
          => Stay /\ UNCHANGED gcVars
    BY DEF RecordDecision, ReviewContinuation, BeginPromotion, Finalize
  <2> QED BY <1>1, <2>1, <2>2, <2>3, <2>4, <2>5, <2>6, <2>7, WorkerKinds
<1>2. Stay => \A t \in Trials : bytes[t] => bytes'[t]
  BY <1>0 DEF StoreTypes
<1>3. Expire \/ RecoverOutage \/ RecoverFinalizer => Stay /\ UNCHANGED gcVars
  BY DEF Expire, RecoverOutage, RecoverFinalizer, storeVars
<1>4. ListDue => Stay /\ gone' = None /\ run \in Swept
  BY DEF ListDue, Expirable, Swept, storeVars
<1>5. MarkExpired \/ GcStops => Stay /\ gone' = None /\ run \in Swept
  BY DEF MarkExpired, GcStops, Due, storeVars
<1>6. ASSUME NEW t \in Trials, DeleteProbe(t) PROVE run \in Swept
  BY <1>6 DEF DeleteProbe, Due
<1>7. ASSUME NEW t \in Trials, Perish(t)
      PROVE  UNCHANGED gcVars /\ \A u \in Trials \ Perishable : bytes'[u] = bytes[u]
  BY <1>0, <1>7 DEF Perish, StoreTypes
<1>8. UNCHANGED gcVars => (due' # {} \/ gone' # None => run \in Swept)
  BY DEF gcVars, Due
<1> QED BY <1>1, <1>2, <1>3, <1>4, <1>5, <1>6, <1>7, <1>8 DEF Next, OperatorStep

\* A trial becomes evaluated on bytes that are there.
LEMMA EvaluatedOnBytes ==
    ASSUME TypeOK, Numbers, Story, AtTrials, Published, Next,
           NEW t \in Trials \ Perishable, trial'[t] \in Evaluated, trial[t] \notin Evaluated
    PROVE  bytes[t]
<1>1. Tries => bytes[t]
  BY DEF Tries
<1>2. ~Tries => trial' = trial
  BY StoryMoves DEF Moves, Calm, GivesUp, trialVars, RecordDecision, ReviewContinuation,
                    BeginPromotion, Finalize, RecoverFinalizer, MarkExpired
<1> QED BY <1>1, <1>2

Kept == Published /\ Due /\ EvidenceOutlivesRun

LEMMA KeptStep ==
    ASSUME TypeOK, Numbers, Story, AtTrials, Kept, [Next]_vars
    PROVE  Kept'
<1>1. CASE UNCHANGED vars
  BY <1>1 DEF vars, runVars, trialVars, storeVars, workerVars, gcVars, Kept, Published, Due,
              EvidenceOutlivesRun
<1>2. CASE Next
  <2>a. run \in Swept => run' \in Swept
    BY KeepsStep DEF Keeps, Kept, Settled, Swept
  <2>b. WorkerTypes /\ WorkerTypes'
    BY TypeParts, TypePartsNext, TypeStep
  <2>1. Published'
    <3> SUFFICES ASSUME NEW w \in Workers, pc'[w] = "published", on'[w] \notin Perishable,
                        ~(run' \in Swept)
                 PROVE  bytes'[on'[w]]
      BY DEF Published
    <3>1. CASE pc[w] = "published" /\ on'[w] = on[w]
      <4>1. on[w] \in Trials \ Perishable
        BY <2>b, <3>1 DEF WorkerTypes, Grown
      <4>2. bytes[on[w]]
        BY <2>a, <3>1 DEF Kept, Published
      <4> QED BY <1>2, <2>a, <3>1, <4>1, <4>2, BytesMove DEF Kept
    <3> QED BY <1>2, <3>1, PlacesMove
  <2>2. Due'
    BY <1>2, <2>a, BytesMove DEF Kept, Due
  <2>3. EvidenceOutlivesRun'
    <3> SUFFICES ASSUME NEW t \in Trials \ Perishable, trial'[t] \in Evaluated,
                        run' \notin Swept
                 PROVE  bytes'[t]
      BY DEF EvidenceOutlivesRun, Swept
    <3>1. bytes[t]
      BY <1>2, <2>a, EvaluatedOnBytes DEF Kept, EvidenceOutlivesRun, Swept
    <3> QED BY <1>2, <2>a, <3>1, BytesMove DEF Kept
  <2> QED BY <2>1, <2>2, <2>3 DEF Kept
<1> QED BY <1>1, <1>2

LEMMA BudgetsStep ==
    ASSUME TypeOK, Numbers, Story, AtTrials, Published, BudgetsHold, [Next]_vars
    PROVE  BudgetsHold'
<1>0. TrialTypes /\ TaskTypes
  BY TypeParts
<1>1. CASE UNCHANGED vars
  BY <1>1 DEF vars, taskVars, trialVars, BudgetsHold
<1>2. CASE Next
  <2>1. \A t \in Trials : tries'[t] <= MaxTries
    <3>1. CASE Tries
      BY <1>0, <3>1, ProbeRunsAssumption DEF Tries, Spent, BudgetsHold, TrialTypes
    <3>2. CASE ~Tries
      <4>1. tries' = tries
        BY <1>2, <3>2, StoryMoves
           DEF Moves, Calm, GivesUp, trialVars, RecordDecision, ReviewContinuation,
               BeginPromotion, Finalize, RecoverFinalizer, MarkExpired
      <4> QED BY <4>1 DEF BudgetsHold
    <3> QED BY <3>1, <3>2
  <2>2. \/ UNCHANGED <<fetches, publishes>>
        \/ \E w \in Workers : Requeued(w)
    <3>1. ASSUME NEW w \in Workers, WorkerStep(w)
          PROVE  UNCHANGED <<fetches, publishes>> \/ Requeued(w)
      <4>1. ASSUME NEW st \in Failures, NEW exact \in BOOLEAN, MarkTerminal(w, st, exact)
            PROVE  UNCHANGED <<fetches, publishes>>
        BY <4>1 DEF MarkTerminal
      <4>2. ASSUME NEW lapsed \in SUBSET Trials,
                   NoTrial(w, lapsed) \/ \E t \in Trials : ClaimTrial(w, t, lapsed)
            PROVE  UNCHANGED <<fetches, publishes>>
        BY <4>2 DEF NoTrial, ClaimTrial, taskVars
      <4>3. ASSUME NEW verdict \in Evaluated, NEW to \in {"probing", "failing"},
                   CompleteTrial(w, verdict, to)
            PROVE  UNCHANGED <<fetches, publishes>>
        BY <4>3 DEF CompleteTrial, taskVars
      <4> QED BY <3>1, <4>1, <4>2, <4>3, WorkerKinds
              DEF Walks, Raises, Claim, Prepare, StartTrial, ReserveArtifact, PublishProbe,
                  FailTrial, RecordDecision, ReviewContinuation, BeginPromotion, Finalize,
                  taskVars
    <3>2. Expire \/ OperatorStep \/ (\E t \in Trials : Perish(t)) => UNCHANGED <<fetches, publishes>>
      BY DEF Expire, OperatorStep, RecoverOutage, RecoverFinalizer, ListDue, MarkExpired, GcStops,
             DeleteProbe, Perish, taskVars
    <3> QED BY <1>2, <3>1, <3>2 DEF Next
  <2>3. fetches' <= FetchBudget /\ publishes' <= PublishBudget
    BY <1>0, <2>2, ProbeRunsAssumption DEF Requeued, FetchAgain, BudgetsHold, TaskTypes
  <2> QED BY <2>1, <2>3 DEF BudgetsHold
<1> QED BY <1>1, <1>2

-----------------------------------------------------------------------------
(* The theorems. *)

\* All of it together is inductive: the story needs the attempts to know who
\* may write it, the workers' places to know a trial is not completed after the
\* decision, and the published bytes to know what the trial was completed on.
IInv == TypeOK /\ Numbers /\ Story /\ AtTrials /\ Kept /\ BudgetsHold

LEMMA Inductive == Spec => []IInv
<1>1. Init => IInv
  <2>1. Init => AtTrials /\ Kept /\ BudgetsHold
    BY ProbeRunsAssumption DEF Init, AtTrials, TrialPlaces, Grown, Kept, Published, Due,
                               EvidenceOutlivesRun, Evaluated, BudgetsHold
  <2> QED BY <2>1, InitTypes, InitNumbers, InitStory DEF IInv
<1>2. IInv /\ [Next]_vars => IInv'
  BY TypeStep, NumbersStep, StoryStep, AtTrialsStep, KeptStep, BudgetsStep DEF IInv, Kept
<1> QED BY <1>1, <1>2, PTL DEF Spec

\* Task, run, promotion and the winner's evidence agree after every step of
\* workers, recoveries and probe-gc.
THEOREM StoryAgrees == Spec => []OneStory
<1>1. IInv => OneStory
  BY DEF IInv, Story
<1> QED BY <1>1, Inductive, PTL

\* No select task has a surface but by one eligible candidate among rejected
\* ones, and a recorded decision is what its trials call for.
THEOREM SurfaceAlwaysHasWinner == Spec => []SurfaceNeedsWinner
<1>1. IInv => SurfaceNeedsWinner
  <2> SUFFICES ASSUME IInv PROVE SurfaceNeedsWinner
    OBVIOUS
  <2>1. task = "QC_PENDING" /\ mode = "select" => action = "CONTINUE_WINNER"
    BY DEF IInv, Story, OneStory, RunFollows, TypeOK, Actions, Early
  <2>2. action = "CONTINUE_WINNER" => winner \in Trials /\ Wins(winner)
    BY WinnerFiled DEF IInv
  <2>3. winner \in Trials => winner # None
    BY NoneIsNothing
  <2> QED BY <2>1, <2>2, <2>3 DEF SurfaceNeedsWinner, IInv, Story, Recorded, Wins
<1> QED BY <1>1, Inductive, PTL

\* probe-gc never deletes evidence of a run that is not settled.
THEOREM EvidenceAlwaysOutlivesRun == Spec => []EvidenceOutlivesRun
<1>1. IInv => EvidenceOutlivesRun
  BY DEF IInv, Kept
<1> QED BY <1>1, Inductive, PTL

\* Tries, and the requeues granted for fetches and publications, stay within their
\* budgets.
THEOREM BudgetsAlwaysHold == Spec => []BudgetsHold
<1>1. IInv => BudgetsHold
  BY DEF IInv
<1> QED BY <1>1, Inductive, PTL

\* Review and benchmark evidence is not taken away by anything but the
\* continuation of its winner.
THEOREM ReviewAlwaysKept == Spec => ReviewIsKept
<1>1. IInv /\ [Next]_vars =>
        [\A t \in Trials :
           set[t] \in {"REVIEW_RETAINED", "BENCHMARK_RETAINED"} /\ set'[t] # set[t] =>
             t = winner /\ set'[t] = "WINNER_RETAINED" /\ promotion' = "CONTINUING"]_vars
  BY KeepsStep DEF IInv, Kept, Keeps
<1> QED BY <1>1, Inductive, PTL DEF Spec, ReviewIsKept

\* Decisions are immutable and settled runs stay settled.
THEOREM AlwaysSettledForGood == Spec => SettledForGood
<1>1. IInv /\ [Next]_vars =>
        [/\ action # "none" => action' = action /\ winner' = winner
         /\ run \in {"SHADOW_COMPLETE", "HUMAN_REVIEW", "REJECTED", "PROMOTED", "REVIEW_PENDING"}
              => run' = run]_vars
  BY KeepsStep DEF IInv, Kept, Keeps, Settled
<1> QED BY <1>1, Inductive, PTL DEF Spec, SettledForGood

-----------------------------------------------------------------------------
(* The task keeps the lifecycle of the segmentation queue. *)

\* A task that left the queue has had an attempt.
Begun == task # "PENDING" => latest # None

LEMMA BegunStep == TypeOK /\ Numbers /\ Begun /\ [Next]_vars => Begun'
<1> SUFFICES ASSUME TypeOK, Numbers, Begun, [Next]_vars PROVE Begun'
  OBVIOUS
<1>0. latest \in Nat /\ None = 0
  BY DEF TypeOK, Attempts, None
<1>1. KeepsTask \/ UNCHANGED vars => Begun'
  BY DEF KeepsTask, vars, taskVars, Begun
<1>2. EndsAttempt \/ Reopens => Begun'
  BY <1>0 DEF EndsAttempt, Reopens, Begun
<1>3. ASSUME NEW w \in Workers, Claimed(w) PROVE Begun'
  BY <1>0, <1>3 DEF Claimed, Begun
<1> QED BY <1>1, <1>2, <1>3, AttemptMoves

\* The task's state as its lifecycle sees it, and the step that each kind of
\* move is there.
TaskState == IF task = "ACTIVE" THEN "held" ELSE IF latest = None THEN "none" ELSE task

LEMMA TaskFollows ==
    ASSUME TypeOK, Numbers, Begun, [Next]_vars
    PROVE  /\ TaskLifecycle!TaskNext("task")
           /\ latest' \in Nat /\ TaskState' \in TaskLifecycle!States
<1>0. /\ latest \in Nat /\ latest' \in Nat /\ None = 0
      /\ task \in {"PENDING", "ACTIVE"} \cup Ends /\ task' \in {"PENDING", "ACTIVE"} \cup Ends
  <2>1. TypeOK'
    BY TypeStep
  <2> QED BY <2>1 DEF TypeOK, Attempts, None
<1>1. Begun'
  BY BegunStep
<1>2. TaskState' \in TaskLifecycle!States
  BY <1>0 DEF TaskState, TaskLifecycle!States, TaskLifecycle!Waits
<1>3. CASE KeepsTask \/ UNCHANGED vars
  <2>1. latest' = latest /\ TaskState' = TaskState
    BY <1>3 DEF KeepsTask, vars, taskVars, TaskState
  <2>2. TaskLifecycle!Unmoved("task")
    BY <2>1 DEF TaskLifecycle!Unmoved, TaskLifecycle!Same, TaskState
  <2> QED BY <1>0, <1>2, <2>2 DEF TaskLifecycle!TaskNext
<1>4. CASE EndsAttempt
  <2>1. TaskState = "held" /\ latest' = latest /\ latest # None
    BY <1>4 DEF EndsAttempt, TaskState, Numbers
  <2>2. TaskState' = task' /\ task' \in {"PENDING"} \cup Ends
    BY <1>4, <2>1 DEF EndsAttempt, TaskState, Ends
  <2>3. CASE task' = "PENDING"
    BY <1>0, <1>2, <2>1, <2>2, <2>3
       DEF TaskLifecycle!TaskNext, TaskLifecycle!Lapses, TaskLifecycle!Same, TaskState
  <2>4. CASE task' \in Ends
    BY <1>0, <1>2, <2>1, <2>2, <2>4
       DEF TaskLifecycle!TaskNext, TaskLifecycle!Ended, TaskLifecycle!Same, TaskState
  <2> QED BY <2>2, <2>3, <2>4
<1>5. CASE Reopens
  <2>1. TaskState \in {"POLICY_REJECTED", "FINALIZATION_FAILED"} /\ TaskState' = "PENDING"
        /\ latest' = latest
    BY <1>5 DEF Reopens, TaskState, Begun
  <2> QED BY <1>0, <1>2, <2>1
          DEF TaskLifecycle!TaskNext, TaskLifecycle!Reopened, TaskLifecycle!Same, TaskState
<1>6. ASSUME NEW w \in Workers, Claimed(w) PROVE TaskLifecycle!TaskNext("task")
  <2>1. TaskState \in {"none", "PENDING"} /\ TaskState' = "held" /\ latest' = latest + 1
    BY <1>6 DEF Claimed, TaskState
  <2> QED BY <2>1
          DEF TaskLifecycle!TaskNext, TaskLifecycle!Taken, TaskLifecycle!Waits, TaskState
<1> QED BY <1>0, <1>2, <1>3, <1>4, <1>5, <1>6, AttemptMoves

\* Whatever the probe goes through inside it, the task keeps the lifecycle of
\* the segmentation queue: every attempt is numbered once, only the last holds
\* the task, and what ended stays ended but for the two recoveries.
THEOREM ProbeKeepsTaskLifecycle == Spec => TaskKeepsLifecycle
<1>1. Init => TaskLifecycle!Init
  BY DEF Init, TaskLifecycle!Init, None
<1>2. TypeOK /\ Numbers /\ Begun /\ [Next]_vars => [TaskLifecycle!Next]_(TaskLifecycle!vars)
  <2> SUFFICES ASSUME TypeOK, Numbers, Begun, [Next]_vars PROVE TaskLifecycle!Next
    OBVIOUS
  <2>1. /\ TaskLifecycle!TaskNext("task")
        /\ latest' \in Nat /\ TaskState' \in TaskLifecycle!States
    BY TaskFollows
  <2> QED BY <2>1 DEF TaskLifecycle!Next, TaskState
<1>3. Init => Begun
  BY DEF Init, Begun
<1>4. IInv => TypeOK /\ Numbers
  BY DEF IInv
<1> QED BY <1>1, <1>2, <1>3, <1>4, BegunStep, Inductive, PTL
        DEF Spec, TaskKeepsLifecycle, TaskLifecycle!Spec

-----------------------------------------------------------------------------
(* Each trial keeps the lifecycle of a job. *)

\* A live token is of a leased trial, and a worker on a trial has one in hand:
\* so the worker that owns a trial finds it leased, also where the code does
\* not ask for its state (fail_probe_trial).
Tokens ==
    /\ \A t \in Trials : trying[t] # None => trial[t] \in Leased
    /\ \A w \in Workers : on[w] # None => try[w] # None

LEMMA OwnedIsLeased ==
    ASSUME TypeOK, Tokens, NEW w \in Workers, OwnsTrial(w)
    PROVE  on[w] \in Trials /\ trial[on[w]] \in Leased
BY DEF TypeOK, Tokens, OwnsTrial

\* What a step may do to a trial.
TrialKept(t)   == trial'[t] = trial[t] /\ tries'[t] = tries[t]
TrialOpened(t) == trial[t] = "none" /\ trial'[t] = "PENDING" /\ tries'[t] = tries[t]
TrialTaken(t)  ==
    /\ trial[t] \in Leased \cup {"PENDING"} /\ ~Spent(t)
    /\ trial'[t] = "CLAIMED" /\ tries'[t] = tries[t] + 1
TrialLeft(t)   ==
    /\ trial[t] \in Leased /\ tries'[t] = tries[t]
    /\ trial'[t] \in {"PENDING"} \cup Leased \cup Evaluated
TrialGivenUp(t) ==
    /\ trial[t] \in Leased \cup {"PENDING"} /\ Spent(t)
    /\ trial'[t] = "FAILED" /\ tries'[t] = tries[t]

TrialMove(t) ==
    TrialKept(t) \/ TrialOpened(t) \/ TrialTaken(t) \/ TrialLeft(t) \/ TrialGivenUp(t)

TokenKept(t) == trying'[t] # None => trial'[t] \in Leased

\* Leases that lapse, and the spent trials that are failed on the way to the
\* one handed out.
LEMMA ExpiryMoves ==
    ASSUME TypeOK, Tokens, NEW lapsed \in SUBSET Lapsable, NEW last, NEW t \in Trials
    PROVE  LET to == FailedBefore(lapsed, last)[t] IN
           /\ \/ to = trial[t] /\ t \notin lapsed
              \/ trial[t] \in Leased /\ to = "PENDING"
              \/ trial[t] \in Leased \cup {"PENDING"} /\ Spent(t) /\ to = "FAILED"
           /\ Unleased(lapsed)[t] # None => to \in Leased
<1>1. t \in lapsed => trial[t] \in Leased
  BY DEF Lapsable
<1>2. AfterExpiry(lapsed)[t] = IF t \in lapsed THEN "PENDING" ELSE trial[t]
  BY DEF AfterExpiry
<1>3. Unleased(lapsed)[t] = IF t \in lapsed THEN None ELSE trying[t]
  BY DEF Unleased
<1>4. FailedBefore(lapsed, last)[t] =
        IF AfterExpiry(lapsed)[t] = "PENDING" /\ Spent(t) /\ t <= last
        THEN "FAILED" ELSE AfterExpiry(lapsed)[t]
  BY DEF FailedBefore
<1>5. "PENDING" \notin Leased
  BY DEF Leased
<1>6. CASE t \in lapsed
  BY <1>1, <1>2, <1>3, <1>4, <1>6
<1>7. CASE t \notin lapsed
  BY <1>2, <1>3, <1>4, <1>5, <1>7 DEF Tokens
<1> QED BY <1>6, <1>7

\* What claim_probe_trial does.
LEMMA ClaimMoves ==
    ASSUME TypeOK, Tokens, NEW w \in Workers, NEW lapsed \in SUBSET Trials,
           NoTrial(w, lapsed) \/ \E t \in Trials : ClaimTrial(w, t, lapsed)
    PROVE  (\A t \in Trials : TrialMove(t) /\ TokenKept(t)) /\ Tokens'
<1>0. TrialTypes /\ WorkerTypes /\ lapsed \subseteq Lapsable
  BY TypeParts DEF NoTrial, ClaimTrial
<1>1. CASE NoTrial(w, lapsed)
  <2>1. ASSUME NEW t \in Trials PROVE TrialMove(t) /\ TokenKept(t)
    <3>1. trial'[t] = FailedBefore(lapsed, NumTrials)[t] /\ trying'[t] = Unleased(lapsed)[t]
          /\ tries'[t] = tries[t]
      BY <1>1 DEF NoTrial
    <3> QED BY <1>0, <3>1, ExpiryMoves
            DEF TrialMove, TrialKept, TrialLeft, TrialGivenUp, TokenKept
  <2>2. Goes(w, "probing", "deciding") \/ Leave(w)
    BY <1>1 DEF NoTrial
  <2>3. \A v \in Workers : on'[v] # None => try'[v] # None
    BY <1>0, <2>2 DEF Goes, Leave, Tokens, WorkerTypes
  <2> QED BY <2>1, <2>3 DEF Tokens, TokenKept
<1>2. ASSUME NEW u \in Trials, ClaimTrial(w, u, lapsed)
      PROVE  (\A t \in Trials : TrialMove(t) /\ TokenKept(t)) /\ Tokens'
  <2>0. AfterExpiry(lapsed)[u] = "PENDING" /\ ~Spent(u) /\ trial[u] \in Leased \cup {"PENDING"}
    BY <1>0, <1>2 DEF ClaimTrial, FirstOf, Open, AfterExpiry, Lapsable
  <2>1. ASSUME NEW t \in Trials PROVE TrialMove(t) /\ TokenKept(t)
    <3>1. CASE t = u
      <4>1. trial'[u] = "CLAIMED" /\ tries'[u] = tries[u] + 1
        BY <1>0, <1>2, ExpiryTypes DEF ClaimTrial, TrialTypes
      <4> QED BY <2>0, <3>1, <4>1 DEF TrialMove, TrialTaken, TokenKept, Leased
    <3>2. CASE t # u
      <4>1. trial'[t] = FailedBefore(lapsed, u)[t] /\ trying'[t] = Unleased(lapsed)[t]
            /\ tries'[t] = tries[t]
        BY <1>0, <1>2, <3>2, ExpiryTypes DEF ClaimTrial, TrialTypes
      <4> QED BY <1>0, <4>1, ExpiryMoves
              DEF TrialMove, TrialKept, TrialLeft, TrialGivenUp, TokenKept
    <3> QED BY <3>1, <3>2
  <2>2. ASSUME NEW v \in Workers PROVE on'[v] # None => try'[v] # None
    <3>1. tries[u] + 1 # None
      BY <1>0 DEF TrialTypes, None
    <3>2. /\ v # w => on'[v] = on[v] /\ try'[v] = try[v]
          /\ v = w => try'[v] = tries[u] + 1
      BY <1>0, <1>2 DEF ClaimTrial, WorkerTypes
    <3> QED BY <3>1, <3>2 DEF Tokens
  <2> QED BY <2>1, <2>2 DEF Tokens, TokenKept
<1> QED BY <1>1, <1>2

\* The other steps of a worker on its trial, which hand none out.
LEMMA HolderMoves ==
    ASSUME TypeOK, Tokens, NEW w \in Workers,
           \/ StartTrial(w) \/ ReserveArtifact(w) \/ FailTrial(w)
           \/ \E verdict \in Evaluated, to \in {"probing", "failing"} :
                CompleteTrial(w, verdict, to)
    PROVE  (\A t \in Trials : TrialMove(t) /\ TokenKept(t)) /\ Tokens'
<1>0. TrialTypes /\ on[w] \in Trials /\ trial[on[w]] \in Leased
  BY TypeParts, OwnedIsLeased DEF StartTrial, ReserveArtifact, FailTrial, CompleteTrial
<1>1. UNCHANGED <<on, try, tries>>
  BY DEF StartTrial, ReserveArtifact, FailTrial, CompleteTrial, Goes
<1> DEFINE Becomes(to) ==
             /\ trial' = [trial EXCEPT ![on[w]] = to]
             /\ to = "FAILED" => Spent(on[w])
             /\ \/ to \in Leased /\ trying' = trying
                \/ trying' = [trying EXCEPT ![on[w]] = None]
<1>2. \E to \in {"PENDING", "FAILED"} \cup Leased \cup Evaluated : Becomes(to)
  <2>1. StartTrial(w) => Becomes("RUNNING")
    BY DEF StartTrial, Leased
  <2>2. ReserveArtifact(w) => Becomes("UPLOADED")
    BY DEF ReserveArtifact, Leased
  <2>3. FailTrial(w) => Becomes("FAILED") \/ Becomes("PENDING")
    BY DEF FailTrial
  <2>4. ASSUME NEW verdict \in Evaluated, NEW to \in {"probing", "failing"},
               CompleteTrial(w, verdict, to)
        PROVE  Becomes(verdict)
    BY <2>4 DEF CompleteTrial, Evaluated
  <2> HIDE DEF Becomes
  <2> QED BY <2>1, <2>2, <2>3, <2>4 DEF Leased
<1>p. PICK to \in {"PENDING", "FAILED"} \cup Leased \cup Evaluated : Becomes(to)
  BY <1>2
<1>3. ASSUME NEW t \in Trials PROVE TrialMove(t) /\ TokenKept(t)
  <2>1. CASE t # on[w]
    BY <1>0, <1>1, <1>p, <2>1 DEF TrialTypes, TrialMove, TrialKept, TokenKept, Tokens
  <2>2. CASE t = on[w]
    <3>1. trial'[t] = to /\ tries'[t] = tries[t]
          /\ \/ to \in Leased /\ trying' = trying
             \/ trying'[t] = None
      BY <1>0, <1>1, <1>p, <2>2 DEF TrialTypes
    <3> QED BY <1>0, <1>p, <2>2, <3>1
            DEF TrialMove, TrialLeft, TrialGivenUp, TokenKept
  <2> QED BY <2>1, <2>2
<1> QED BY <1>1, <1>3 DEF Tokens, TokenKept

\* Everything else leaves trials and tokens alone; a worker that goes drops
\* its own.
Aside == UNCHANGED trialVars /\ (UNCHANGED <<on, try>> \/ \E w \in Workers : Leave(w))

LEMMA AsideMoves ==
    ASSUME TypeOK, Tokens, Aside
    PROVE  (\A t \in Trials : TrialMove(t) /\ TokenKept(t)) /\ Tokens'
<1>0. WorkerTypes
  BY TypeParts
<1>1. UNCHANGED <<trial, trying, tries>>
  BY DEF Aside, trialVars
<1>2. \A v \in Workers : on'[v] # None => try'[v] # None
  BY <1>0 DEF Aside, Leave, Tokens, WorkerTypes
<1> QED BY <1>1, <1>2 DEF TrialMove, TrialKept, TokenKept, Tokens

LEMMA TrialMoves ==
    ASSUME TypeOK, Tokens, [Next]_vars
    PROVE  (\A t \in Trials : TrialMove(t)) /\ Tokens'
<1> DEFINE Goal == (\A t \in Trials : TrialMove(t) /\ TokenKept(t)) /\ Tokens'
<1>1. ASSUME NEW w \in Workers, WorkerStep(w) PROVE Goal
  <2>1. Walks(w) => Aside
    BY DEF Walks, Goes, Aside
  <2>2. Raises(w) \/ Requeued(w) => Aside
    BY DEF Raises, Requeued, Returns, Aside
  <2>3. ASSUME NEW st \in Failures, NEW exact \in BOOLEAN, MarkTerminal(w, st, exact)
        PROVE  Aside
    BY <2>3 DEF MarkTerminal, Aside
  <2>4. Claim(w) \/ PublishProbe(w) \/ RecordDecision(w) => Aside
    BY DEF Claim, PublishProbe, RecordDecision, Goes, Aside
  <2>5. ReviewContinuation(w) \/ BeginPromotion(w) \/ Finalize(w) => Aside
    BY DEF ReviewContinuation, BeginPromotion, Finalize, Goes, Aside, workerVars
  <2>6. ASSUME Prepare(w) PROVE Goal
    <3>1. UNCHANGED <<on, try, tries, trying>>
      BY <2>6 DEF Prepare, Goes
    <3>2. \A t \in Trials : trial'[t] = IF trial[t] = "none" THEN "PENDING" ELSE trial[t]
      BY <2>6 DEF Prepare
    <3>3. "none" \notin Leased
      BY DEF Leased
    <3>4. \A t \in Trials : TrialMove(t) /\ TokenKept(t)
      BY <3>1, <3>2, <3>3 DEF TrialMove, TrialKept, TrialOpened, TokenKept, Tokens
    <3> QED BY <3>1, <3>4 DEF Tokens, TokenKept
  <2>7. Aside => Goal
    BY AsideMoves
  <2>8. (\E lapsed \in SUBSET Trials :
           NoTrial(w, lapsed) \/ \E t \in Trials : ClaimTrial(w, t, lapsed)) => Goal
    BY ClaimMoves
  <2>9. \/ StartTrial(w) \/ ReserveArtifact(w) \/ FailTrial(w)
        \/ \E verdict \in Evaluated, to \in {"probing", "failing"} :
             CompleteTrial(w, verdict, to)
        => Goal
    BY HolderMoves
  <2> HIDE DEF Goal
  <2> QED BY <1>1, <2>1, <2>2, <2>3, <2>4, <2>5, <2>6, <2>7, <2>8, <2>9, WorkerKinds
<1>2. Expire \/ OperatorStep \/ (\E t \in Trials : Perish(t)) => Aside
  BY DEF Expire, OperatorStep, RecoverOutage, RecoverFinalizer, ListDue, MarkExpired, GcStops,
         DeleteProbe, Perish, Aside, workerVars
<1>3. UNCHANGED vars => Aside
  BY DEF vars, workerVars, Aside
<1>4. Aside => Goal
  BY AsideMoves
<1>5. Goal
  <2> HIDE DEF Goal
  <2> QED BY <1>1, <1>2, <1>3, <1>4 DEF Next
<1> QED BY <1>5

\* A trial is handed out to one try at a time and at most MaxTries times over
\* all attempts of the task, only the try that holds it ends it with a result,
\* it is given up only when its tries are spent, and it is never opened again.
THEOREM ProbeKeepsTrialLifecycle == Spec => TrialsKeepLifecycle
<1> DEFINE P == [t \in Trials |-> TrialPhase(t)]
<1>1. Init => TrialLifecycle!Init
  <2>1. Init => \A t \in Trials : TrialPhase(t) = "absent"
    BY DEF Init, TrialPhase, Leased, Evaluated
  <2> QED BY <2>1 DEF Init, TrialLifecycle!Init
<1>2. TypeOK /\ TypeOK' /\ Tokens /\ [Next]_vars => [TrialLifecycle!Next]_(TrialLifecycle!vars)
  <2> SUFFICES ASSUME TypeOK, TypeOK', Tokens, [Next]_vars PROVE TrialLifecycle!Next
    OBVIOUS
  <2>0. TrialTypes /\ TrialTypes'
    BY TypeParts, TypePartsNext
  <2>1. ASSUME NEW t \in Trials PROVE TrialPhase(t)' \in TrialLifecycle!Phases
    <3>1. trial'[t] \in TrialStates
      BY <2>0 DEF TrialTypes
    <3> QED BY <3>1 DEF TrialPhase, TrialStates, Over, Leased, Evaluated, TrialLifecycle!Phases,
                        TrialLifecycle!Ends
  <2>2. ASSUME NEW t \in Trials PROVE TrialLifecycle!JobNext(t)
    <3>0. TrialMove(t) /\ tries[t] \in Nat /\ MaxTries \in Nat
      BY <2>0, TrialMoves, ProbeRunsAssumption DEF TrialTypes
    <3>1. P[t] = TrialPhase(t) /\ P'[t] = TrialPhase(t)' /\ [u \in Trials |-> MaxTries][t] = MaxTries
      OBVIOUS
    <3>2. CASE TrialKept(t)
      <4>1. TrialPhase(t)' = TrialPhase(t)
        BY <3>2 DEF TrialKept, TrialPhase
      <4> QED BY <3>2, <4>1 DEF TrialKept, TrialLifecycle!JobNext, TrialLifecycle!Unmoved,
                                TrialLifecycle!Stays
    <3>3. CASE TrialOpened(t)
      <4>1. TrialPhase(t) = "absent" /\ TrialPhase(t)' = "waiting"
        BY <3>3 DEF TrialOpened, TrialPhase, Leased, Evaluated
      <4> QED BY <3>3, <4>1 DEF TrialOpened, TrialLifecycle!JobNext, TrialLifecycle!Submitted,
                                TrialLifecycle!Stays
    <3>4. CASE TrialTaken(t)
      <4>1. TrialPhase(t) \in {"waiting", "held"} /\ TrialPhase(t)' = "held"
        BY <3>4 DEF TrialTaken, TrialPhase, Leased, Evaluated
      <4>2. tries[t] < MaxTries /\ tries'[t] = tries[t] + 1
        BY <3>0, <3>4 DEF TrialTaken, Spent
      <4> QED BY <4>1, <4>2 DEF TrialLifecycle!JobNext, TrialLifecycle!Taken
    <3>5. CASE TrialLeft(t)
      <4>1. TrialPhase(t) = "held" /\ TrialPhase(t)' \in {"waiting", "held", "succeeded"}
        BY <3>5 DEF TrialLeft, TrialPhase, Leased, Evaluated
      <4> QED BY <3>5, <4>1 DEF TrialLeft, TrialLifecycle!JobNext, TrialLifecycle!Returned,
                                TrialLifecycle!Reported, TrialLifecycle!Unmoved,
                                TrialLifecycle!Ends, TrialLifecycle!Stays
    <3>6. CASE TrialGivenUp(t)
      <4>1. TrialPhase(t) \in {"waiting", "held"} /\ TrialPhase(t)' = "failed"
        BY <3>6 DEF TrialGivenUp, TrialPhase, Leased, Evaluated
      <4>2. tries[t] >= MaxTries /\ tries'[t] = tries[t]
        BY <3>0, <3>6 DEF TrialGivenUp, Spent
      <4> QED BY <4>1, <4>2 DEF TrialLifecycle!JobNext, TrialLifecycle!GivenUp,
                                TrialLifecycle!Stays
    <3> QED BY <3>0, <3>2, <3>3, <3>4, <3>5, <3>6 DEF TrialMove
  <2> QED BY <2>0, <2>1, <2>2 DEF TrialLifecycle!Next, TrialTypes
<1>3. Init => Tokens
  BY DEF Init, Tokens
<1>4. TypeOK /\ Tokens /\ [Next]_vars => Tokens'
  BY TrialMoves
<1>5. IInv => TypeOK
  BY DEF IInv
<1> QED BY <1>1, <1>2, <1>3, <1>4, <1>5, Inductive, PTL
        DEF Spec, TrialsKeepLifecycle, TrialLifecycle!Spec

=============================================================================
