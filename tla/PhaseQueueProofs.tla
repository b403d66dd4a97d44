-------------------------- MODULE PhaseQueueProofs --------------------------
(***************************************************************************)
(* Proofs about PhaseQueue, for any number of jobs and workers, any        *)
(* attempt ceilings, priorities, runtimes and candidate window.            *)
(***************************************************************************)
EXTENDS PhaseQueue, TLAPS

\* Every step keeps the types: no handler writes a state outside the CHECK
\* constraint, or a token that is not a claim's.
LEMMA TypeStep == TypeOK /\ [Next]_vars => TypeOK'
<1> SUFFICES ASSUME TypeOK, [Next]_vars PROVE TypeOK'
  OBVIOUS
<1> USE PhaseQueueAssumption DEF TypeOK, rowVars, workerVars, Settling
<1>1. ASSUME NEW w \in Workers, NEW locked \in SUBSET Jobs, Claim(w, locked)
      PROVE  TypeOK'
  <2>1. CASE ClaimNothing(w, locked)
    BY <2>1 DEF ClaimNothing, RecycleRows, JobStates, NoToken
  <2>2. CASE ClaimExhausted(w, locked)
    <3>1. PICK j \in Jobs :
             state' = [i \in Jobs |-> IF i = j THEN "failed"
                                      ELSE IF i \in Recycled(locked) THEN "pending"
                                      ELSE state[i]]
      BY <2>2 DEF ClaimExhausted, Chosen, Candidates
    <3>2. state' \in [Jobs -> JobStates]
      BY <3>1 DEF JobStates, Terminal
    <3> QED BY <2>2, <3>2 DEF ClaimExhausted, RecycleRows, NoToken
  <2>3. CASE ClaimJob(w, locked)
    BY <2>3 DEF ClaimJob, Chosen, Candidates, FreshToken, JobStates, Active, Places, NoToken, Idle
  <2> QED BY <1>1, <2>1, <2>2, <2>3 DEF Claim
<1>2. ASSUME NEW w \in Workers, NEW final \in Terminal, Finish(w, final),
             standing' = standing, asking' = asking
      PROVE  TypeOK'
  <2>1. CASE Holds(w) /\ FinishRow(w, final) /\ LeaveJob(w, "polling")
    BY <1>2, <2>1 DEF Holds, FinishRow, LeaveJob, JobStates, Places, Idle, NoJob, NoToken
  <2>2. CASE LeaveJob(w, "down") /\ UNCHANGED rowVars
    BY <1>2, <2>2 DEF LeaveJob, Places, Idle, NoJob, NoToken
  <2> QED BY <1>2, <2>1, <2>2 DEF Finish
<1>3. ASSUME NEW w \in Workers, WorkerStep(w) PROVE TypeOK'
  <2>1. CASE GuardsPass(w)
    BY <2>1 DEF GuardsPass, Places
  <2>2. CASE GuardsRefuse(w)
    BY <2>2 DEF GuardsRefuse, LeaveJob, Places, Idle, NoJob, NoToken
  <2>3. CASE PrepareFails(w)
    BY <2>3, <1>2 DEF PrepareFails, Terminal
  <2>4. CASE MarkRunning(w)
    BY <2>4 DEF MarkRunning, Places, JobStates, Active
  <2>5. CASE MarkRunningLost(w)
    BY <2>5 DEF MarkRunningLost, LeaveJob, Places, Idle, NoJob, NoToken
  <2>6. CASE Beat(w)
    BY <2>6 DEF Beat
  <2>7. CASE BeatEnds(w)
    BY <2>7 DEF BeatEnds
  <2>8. ASSUME NEW outcome \in {"succeeded", "failed"}, ChildEnds(w, outcome)
        PROVE  TypeOK'
    BY <2>8 DEF ChildEnds, Places, Settling, Terminal
  <2>9. CASE ChildErrs(w)
    BY <2>9 DEF ChildErrs, Places, Settling, Terminal
  <2>10. CASE Report(w)
    BY <2>10, <1>2 DEF Report
  <2>11. CASE ReportBlips(w)
    <3>1. (UNCHANGED rowVars) \/ (Holds(w) /\ FinishRow(w, verdict[w]))
      BY <2>11 DEF ReportBlips
    <3>2. CASE UNCHANGED rowVars
      BY <2>11, <3>2 DEF ReportBlips, Places, Settling, Terminal
    <3>3. CASE Holds(w) /\ FinishRow(w, verdict[w])
      BY <2>11, <3>3
      DEF ReportBlips, Holds, FinishRow, Places, Settling, Terminal, JobStates, NoToken
    <3> QED BY <3>1, <3>2, <3>3
  <2>12. CASE Restart(w)
    BY <2>12 DEF Restart, Places, Idle
  <2> QED BY <1>1, <1>3, <2>1, <2>2, <2>3, <2>4, <2>5, <2>6, <2>7, <2>8, <2>9,
             <2>10, <2>11, <2>12 DEF WorkerStep
<1>4. ASSUME NEW j \in Jobs, JobStep(j) PROVE TypeOK'
  <2>1. CASE Enqueue(j)
    BY <2>1 DEF Enqueue, JobStates
  <2>2. CASE CancelQueued(j)
    BY <2>2 DEF CancelQueued, JobStates, Terminal
  <2>3. CASE CancelMissed(j) \/ CancelConflict(j)
    BY <2>3 DEF CancelMissed, CancelConflict
  <2>4. CASE RequestCancel(j)
    BY <2>4 DEF RequestCancel
  <2>5. CASE Lapse(j)
    BY <2>5 DEF Lapse
  <2>6. CASE StandingChanges(j)
    BY <2>6 DEF StandingChanges, Standings
  <2> QED BY <1>4, <2>1, <2>2, <2>3, <2>4, <2>5, <2>6 DEF JobStep
<1>5. ASSUME NEW w \in Workers, Crash(w) PROVE TypeOK'
  BY <1>5 DEF Crash, LeaveJob, Places, Idle, NoJob, NoToken
<1>6. CASE UNCHANGED vars
  BY <1>6 DEF vars
<1> QED BY <1>3, <1>4, <1>5, <1>6 DEF Next, Calm

\* Row and worker fields have the types ink_jobs and run_job give them.
THEOREM TypeCorrect == Spec => []TypeOK
<1>1. Init => TypeOK
  BY PhaseQueueAssumption
  DEF Init, TypeOK, Settling, JobStates, Standings, Places, Idle, NoToken, NoJob
<1> QED BY <1>1, TypeStep, PTL DEF Spec

-----------------------------------------------------------------------------
\* The safety invariants are not inductive one by one: that a holder finds its
\* row as it left it needs tokens to be unique, which needs every token to be
\* at most the attempt count of its row, which needs the row's own token to be
\* that count.
IInv == TypeOK /\ TokensFollowClaims /\ RowFollowsHolder /\ AttemptsBounded

\* Two workers that hold a valid token hold different jobs.
LEMMA HoldersDiffer == ASSUME TypeOK, TokensFollowClaims PROVE OneHolder
BY DEF TypeOK, TokensFollowClaims, OneHolder, Holds

\* A worker with a job in hand has a job, and a token that some claim drew.
LEMMA BusyHasToken ==
    ASSUME TokensFollowClaims, NEW w \in Workers, pc[w] \notin Idle
    PROVE  job[w] \in Jobs /\ token[w] \in 1 .. attempts[job[w]]
BY DEF TokensFollowClaims

\* A holder's row is leased or running: the token is there for nobody else.
LEMMA HeldIsActive ==
    ASSUME TypeOK, TokensFollowClaims, NEW w \in Workers, Holds(w), pc[w] \notin Idle
    PROVE  state[job[w]] \in Active
<1>1. job[w] \in Jobs /\ token[w] \in 1 .. attempts[job[w]]
  BY BusyHasToken
<1>2. token[w] # NoToken
  BY <1>1 DEF TypeOK, NoToken
<1> QED BY <1>1, <1>2 DEF TokensFollowClaims, Holds

LEMMA InitIInv == Init => IInv
BY PhaseQueueAssumption
DEF Init, IInv, TypeOK, TokensFollowClaims, RowFollowsHolder, AttemptsBounded, Holds,
    Settling, JobStates, Active, Standings, Places, Idle, NoToken, NoJob, Jobs

\* What a step that hands nothing out does to a row and to a worker: the row is
\* as it was or is taken from its holder for good, the worker is as it was, or
\* between its two ways to finish(), or has left its job.
RowKept(j) == /\ state'[j] = state[j] /\ leaseToken'[j] = leaseToken[j]
              /\ workerId'[j] = workerId[j]
RowFreed(j) == leaseToken'[j] = NoToken /\ state'[j] \notin Active
WorkerKept(v) == /\ job'[v] = job[v] /\ token'[v] = token[v]
                 /\ pc'[v] = pc[v] \/ {pc[v], pc'[v]} \subseteq Settling
WorkerLeft(v) == pc'[v] \in Idle /\ job'[v] = NoJob

\* Such a step keeps the invariant.
LEMMA ReleaseIInv ==
    ASSUME IInv, TypeOK', attempts' = attempts,
           \A j \in Jobs : RowKept(j) \/ RowFreed(j),
           \A v \in Workers : WorkerKept(v) \/ WorkerLeft(v)
    PROVE  IInv'
<1>1. NoJob \notin Jobs
  BY DEF NoJob, Jobs
<1>2. TokensFollowClaims'
  <2>1. ASSUME NEW j \in Jobs
        PROVE  (IF state[j] \in Active THEN attempts[j] > 0 /\ leaseToken[j] = attempts[j]
                                      ELSE leaseToken[j] = NoToken)'
    BY DEF RowKept, RowFreed, IInv, TokensFollowClaims
  <2>2. ASSUME NEW v \in Workers
        PROVE  (IF pc[v] \in Idle THEN job[v] = NoJob
                  ELSE job[v] \in Jobs /\ token[v] \in 1 .. attempts[job[v]])'
    BY DEF WorkerKept, WorkerLeft, IInv, TokensFollowClaims, Settling, Idle
  <2>3. ASSUME NEW v \in Workers, NEW w \in Workers, v # w,
               job'[v] \in Jobs, job'[v] = job'[w]
        PROVE  token'[v] # token'[w]
    BY <1>1, <2>3 DEF WorkerKept, WorkerLeft, IInv, TokensFollowClaims
  <2> QED BY <2>1, <2>2, <2>3 DEF TokensFollowClaims
<1>3. ASSUME NEW w \in Workers, Holds(w)'
      PROVE  (/\ workerId[job[w]] = w
              /\ state[job[w]] = IF pc[w] \in {"claimed", "preparing"} THEN "leased"
                                                                      ELSE "running")'
  <2>1. job'[w] \in Jobs /\ WorkerKept(w)
    BY <1>1, <1>3 DEF Holds, WorkerLeft
  <2>2. token'[w] # NoToken
    BY <1>2, <2>1, <1>1 DEF TokensFollowClaims, TypeOK, NoToken
  <2>3. RowKept(job[w])
    BY <1>3, <2>1, <2>2 DEF Holds, WorkerKept, RowFreed
  <2>4. Holds(w)
    BY <1>3, <2>1, <2>3 DEF Holds, WorkerKept, RowKept
  <2> QED BY <2>1, <2>3, <2>4
          DEF WorkerKept, RowKept, IInv, RowFollowsHolder, Settling
<1> QED BY <1>2, <1>3 DEF IInv, RowFollowsHolder, AttemptsBounded

LEMMA StepIInv == IInv /\ [Next]_vars => IInv'
<1> SUFFICES ASSUME IInv, [Next]_vars PROVE IInv'
  OBVIOUS
<1>0. TypeOK' /\ OneHolder
  BY TypeStep, HoldersDiffer DEF IInv
<1>n. NoJob \notin Jobs
  BY DEF NoJob, Jobs
<1> USE <1>0, <1>n, PhaseQueueAssumption
    DEF IInv, TypeOK, TokensFollowClaims, RowFollowsHolder, AttemptsBounded, Holds,
        rowVars, workerVars, NoToken
<1>1. ASSUME NEW w \in Workers, NEW locked \in SUBSET Jobs, ClaimNothing(w, locked)
      PROVE  IInv'
  BY <1>1, ReleaseIInv
  DEF ClaimNothing, RecycleRows, Recycled, Active, RowKept, RowFreed, WorkerKept
<1>2. ASSUME NEW w \in Workers, NEW locked \in SUBSET Jobs, ClaimExhausted(w, locked)
      PROVE  IInv'
  <2>1. PICK j \in Jobs :
           /\ state[j] = "pending" \/ j \in Recycled(locked)
           /\ state' = [i \in Jobs |-> IF i = j THEN "failed"
                                        ELSE IF i \in Recycled(locked) THEN "pending"
                                        ELSE state[i]]
    BY <1>2 DEF ClaimExhausted, Chosen, Candidates
  <2>2. \A i \in Jobs : RowKept(i) \/ RowFreed(i)
    BY <1>2, <2>1 DEF ClaimExhausted, RecycleRows, Recycled, Active, RowKept, RowFreed
  <2> QED BY <1>2, <2>2, ReleaseIInv DEF ClaimExhausted, WorkerKept
<1>3. ASSUME NEW w \in Workers, NEW locked \in SUBSET Jobs, ClaimJob(w, locked)
      PROVE  IInv'
  <2> DEFINE Back == Recycled(locked)
  <2>1. PICK j \in Chosen(w, locked) :
           /\ ~Spent(j)
           /\ state' = [i \in Jobs |-> IF i = j THEN "leased"
                                        ELSE IF i \in Back THEN "pending" ELSE state[i]]
           /\ leaseToken' = [i \in Jobs |-> IF i = j THEN FreshToken(j)
                                             ELSE IF i \in Back THEN NoToken
                                             ELSE leaseToken[i]]
           /\ workerId' = [i \in Jobs |-> IF i = j THEN w
                                           ELSE IF i \in Back THEN NoWorker
                                           ELSE workerId[i]]
           /\ attempts' = [attempts EXCEPT ![j] = @ + 1]
           /\ job' = [job EXCEPT ![w] = j]
           /\ token' = [token EXCEPT ![w] = FreshToken(j)]
    BY <1>3 DEF ClaimJob
  <2>a. j \in Jobs
    BY DEF Chosen, Candidates
  <2>b. attempts[j] < Ceiling[j] /\ FreshToken(j) = attempts[j] + 1
    BY <2>1, <2>a DEF Spent, FreshToken
  <2>2. pc[w] = "polling" /\ pc' = [pc EXCEPT ![w] = "claimed"]
    BY <1>3 DEF ClaimJob
  <2>3. \A i \in Back : i \in Jobs /\ state[i] \in Active
    BY DEF Recycled
  <2> HIDE DEF Back
  <2>4. TokensFollowClaims'
    <3>1. ASSUME NEW i \in Jobs
          PROVE  (IF state[i] \in Active THEN attempts[i] > 0 /\ leaseToken[i] = attempts[i]
                                        ELSE leaseToken[i] = NoToken)'
      BY <2>1, <2>a, <2>b, <2>3 DEF Active
    <3>2. ASSUME NEW v \in Workers
          PROVE  (IF pc[v] \in Idle THEN job[v] = NoJob
                    ELSE job[v] \in Jobs /\ token[v] \in 1 .. attempts[job[v]])'
      BY <2>1, <2>a, <2>b, <2>2 DEF Idle
    <3>3. ASSUME NEW u \in Workers, NEW v \in Workers, u # v,
                 job'[u] \in Jobs, job'[u] = job'[v]
          PROVE  token'[u] # token'[v]
      <4>1. \A x \in Workers : x # w /\ job[x] = j => token[x] < attempts[j] + 1
        <5>1. SUFFICES ASSUME NEW x \in Workers, x # w, job[x] = j
                       PROVE  token[x] < attempts[j] + 1
          OBVIOUS
        <5>2. pc[x] \notin Idle
          BY <5>1, <2>a
        <5>3. token[x] \in 1 .. attempts[j]
          BY <5>1, <5>2
        <5> QED BY <5>3, <2>a
      <4> QED BY <2>1, <2>a, <2>b, <3>3, <4>1
    <3> QED BY <3>1, <3>2, <3>3
  <2>5. RowFollowsHolder'
    <3>1. ASSUME NEW v \in Workers, Holds(v)', v # w
          PROVE  Holds(v) /\ job[v] # j /\ job[v] \notin Back /\ job'[v] = job[v] /\ pc'[v] = pc[v]
      BY <2>1, <2>a, <2>b, <2>2, <2>3, <3>1 DEF Idle
    <3>2. ASSUME NEW v \in Workers, Holds(v)'
          PROVE  (/\ workerId[job[v]] = v
                  /\ state[job[v]] = IF pc[v] \in {"claimed", "preparing"} THEN "leased"
                                                                          ELSE "running")'
      <4>1. CASE v = w
        BY <2>1, <2>a, <2>b, <2>2, <4>1
      <4>2. CASE v # w
        BY <2>1, <2>a, <2>b, <2>2, <3>1, <3>2, <4>2
      <4> QED BY <4>1, <4>2
    <3> QED BY <3>2
  <2>6. AttemptsBounded'
    BY <2>1, <2>a, <2>b
  <2> QED BY <2>4, <2>5, <2>6
<1>4. ASSUME NEW w \in Workers, NEW final \in Terminal, pc[w] \notin Idle, Finish(w, final)
      PROVE  IInv'
  <2>1. CASE Holds(w) /\ FinishRow(w, final) /\ LeaveJob(w, "polling")
    BY <2>1, ReleaseIInv
    DEF FinishRow, LeaveJob, Terminal, Active, Idle, RowKept, RowFreed, WorkerKept, WorkerLeft
  <2>2. CASE LeaveJob(w, "down") /\ UNCHANGED rowVars
    BY <2>2, ReleaseIInv DEF LeaveJob, Idle, RowKept, WorkerKept, WorkerLeft
  <2> QED BY <1>4, <2>1, <2>2 DEF Finish
<1>5. ASSUME NEW w \in Workers, WorkerStep(w) PROVE IInv'
  <2>1. CASE GuardsPass(w)
    BY <2>1 DEF GuardsPass, Idle
  <2>2. CASE GuardsRefuse(w)
    BY <2>2 DEF GuardsRefuse, LeaveJob, Idle
  <2>3. CASE PrepareFails(w)
    BY <2>3, <1>4 DEF PrepareFails, Terminal, Idle
  <2>4. CASE MarkRunning(w)
    BY <2>4 DEF MarkRunning, Idle, Active, OneHolder
  <2>5. CASE MarkRunningLost(w)
    BY <2>5 DEF MarkRunningLost, LeaveJob, Idle
  <2>6. CASE Beat(w)
    BY <2>6 DEF Beat
  <2>7. CASE BeatEnds(w)
    BY <2>7 DEF BeatEnds
  <2>8. ASSUME NEW outcome \in {"succeeded", "failed"}, ChildEnds(w, outcome)
        PROVE  IInv'
    BY <2>8 DEF ChildEnds, Idle
  <2>9. CASE ChildErrs(w)
    BY <2>9 DEF ChildErrs, Idle
  <2>10. CASE Report(w)
    BY <2>10, <1>4 DEF Report, Settling, Idle
  <2>11. CASE ReportBlips(w)
    <3>1. \A v \in Workers : WorkerKept(v)
      BY <2>11 DEF ReportBlips, WorkerKept, Settling
    <3>2. \A j \in Jobs : RowKept(j) \/ RowFreed(j)
      <4>1. CASE UNCHANGED rowVars
        BY <4>1 DEF RowKept
      <4>2. CASE Holds(w) /\ FinishRow(w, verdict[w])
        BY <2>11, <4>2 DEF ReportBlips, FinishRow, RowKept, RowFreed, Settling, Terminal, Active
      <4> QED BY <2>11, <4>1, <4>2 DEF ReportBlips
    <3> QED BY <2>11, <3>1, <3>2, ReleaseIInv DEF ReportBlips, FinishRow
  <2>12. CASE Restart(w)
    BY <2>12 DEF Restart, Idle
  <2> QED BY <1>1, <1>2, <1>3, <1>5, <2>1, <2>2, <2>3, <2>4, <2>5, <2>6, <2>7, <2>8,
             <2>9, <2>10, <2>11, <2>12 DEF WorkerStep, Claim
<1>6. ASSUME NEW j \in Jobs, JobStep(j) PROVE IInv'
  <2>1. CASE Enqueue(j)
    BY <2>1 DEF Enqueue, Active
  <2>2. CASE CancelQueued(j)
    BY <2>2 DEF CancelQueued, Active
  <2>3. CASE CancelMissed(j) \/ CancelConflict(j)
    BY <2>3 DEF CancelMissed, CancelConflict
  <2>4. CASE RequestCancel(j)
    BY <2>4 DEF RequestCancel
  <2>5. CASE Lapse(j)
    BY <2>5 DEF Lapse
  <2>6. CASE StandingChanges(j)
    BY <2>6 DEF StandingChanges
  <2> QED BY <1>6, <2>1, <2>2, <2>3, <2>4, <2>5, <2>6 DEF JobStep
<1>7. ASSUME NEW w \in Workers, Crash(w) PROVE IInv'
  BY <1>7 DEF Crash, LeaveJob, Idle
<1>8. CASE UNCHANGED vars
  BY <1>8 DEF vars
<1> QED BY <1>5, <1>6, <1>7, <1>8 DEF Next, Calm

LEMMA Invariance == Spec => []IInv
BY InitIInv, StepIInv, PTL DEF Spec

\* However often a lease lapses, is recycled and is claimed again, two workers
\* never both hold a token the row accepts.
THEOREM OneHolderAlways == Spec => []OneHolder
<1>1. IInv => OneHolder
  BY HoldersDiffer DEF IInv
<1> QED BY <1>1, Invariance, PTL

\* The token on a row is the one its latest claim drew, and no claim draws a
\* token that somebody has.
THEOREM TokensAlwaysFollowClaims == Spec => []TokensFollowClaims
<1>1. IInv => TokensFollowClaims
  BY DEF IInv
<1> QED BY <1>1, Invariance, PTL

\* A worker whose token is still on the row finds it leased in its own name
\* before mark_running, and running after.
THEOREM RowAlwaysFollowsHolder == Spec => []RowFollowsHolder
<1>1. IInv => RowFollowsHolder
  BY DEF IInv
<1> QED BY <1>1, Invariance, PTL

\* No job is handed out more often than its max_attempts.
THEOREM AttemptsAlwaysBounded == Spec => []AttemptsBounded
<1>1. IInv => AttemptsBounded
  BY DEF IInv
<1> QED BY <1>1, Invariance, PTL

-----------------------------------------------------------------------------
\* All that a step of the queue may do to one row.
RowStep(j) ==
    \/ /\ attempts'[j] = attempts[j]
       /\ \/ state'[j] = state[j]
          \/ state[j] = "absent" /\ state'[j] = "pending"
          \/ state[j] = "pending" /\ state'[j] = "cancelled"
          \/ state[j] \in Active /\ state'[j] \in Active \cup Terminal \cup {"pending"}
          \/ /\ state[j] \in Active \cup {"pending"} /\ state'[j] = "failed"
             /\ attempts[j] >= Ceiling[j]
    \/ /\ attempts'[j] = attempts[j] + 1 /\ attempts[j] < Ceiling[j]
       /\ state[j] \in Active \cup {"pending"} /\ state'[j] = "leased"

\* Every step keeps to it: the statements of the store are guarded by the
\* row's state where no token guards them, and a token means an active row.
LEMMA RowsStep ==
    ASSUME IInv, [Next]_vars, NEW j \in Jobs
    PROVE  RowStep(j)
<1> USE DEF IInv, TypeOK
<1>1. ASSUME NEW w \in Workers, NEW locked \in SUBSET Jobs, Claim(w, locked)
      PROVE  RowStep(j)
  <2>1. CASE ClaimNothing(w, locked)
    BY <2>1 DEF ClaimNothing, Recycled, RowStep
  <2>2. CASE ClaimExhausted(w, locked)
    BY <2>2 DEF ClaimExhausted, Chosen, Candidates, Recycled, Spent, RowStep
  <2>3. CASE ClaimJob(w, locked)
    <3>1. PICK i \in Chosen(w, locked) :
             /\ ~Spent(i)
             /\ state' = [k \in Jobs |-> IF k = i THEN "leased"
                                          ELSE IF k \in Recycled(locked) THEN "pending"
                                          ELSE state[k]]
             /\ attempts' = [attempts EXCEPT ![i] = @ + 1]
      BY <2>3 DEF ClaimJob
    <3>2. CASE j = i
      <4>1. j \in Jobs /\ state[j] \in Active \cup {"pending"}
        BY <3>2 DEF Chosen, Candidates, Recycled
      <4>2. attempts[j] < Ceiling[j]
        <5>1. attempts[j] \in Nat /\ Ceiling[j] \in Nat
          BY <4>1, PhaseQueueAssumption
        <5> QED BY <3>1, <3>2, <5>1 DEF Spent
      <4> QED BY <3>1, <3>2, <4>1, <4>2 DEF RowStep
    <3>3. CASE j # i
      BY <3>1, <3>3 DEF Recycled, RowStep
    <3> QED BY <3>2, <3>3
  <2> QED BY <1>1, <2>1, <2>2, <2>3 DEF Claim
<1>2. ASSUME NEW w \in Workers, NEW final \in Terminal, pc[w] \notin Idle,
             (Holds(w) /\ FinishRow(w, final)) \/ UNCHANGED rowVars
      PROVE  RowStep(j)
  <2>1. CASE Holds(w) /\ FinishRow(w, final)
    BY <1>2, <2>1, HeldIsActive DEF FinishRow, RowStep
  <2>2. CASE UNCHANGED rowVars
    BY <2>2 DEF rowVars, RowStep
  <2> QED BY <1>2, <2>1, <2>2
<1>3. ASSUME NEW w \in Workers, WorkerStep(w) PROVE RowStep(j)
  <2>1. CASE GuardsPass(w) \/ GuardsRefuse(w) \/ MarkRunningLost(w) \/ Beat(w)
             \/ BeatEnds(w) \/ ChildErrs(w) \/ Restart(w)
    BY <2>1 DEF GuardsPass, GuardsRefuse, MarkRunningLost, Beat, BeatEnds, ChildErrs,
                Restart, rowVars, RowStep
  <2>2. CASE PrepareFails(w)
    BY <2>2, <1>2 DEF PrepareFails, Finish, Terminal, Idle
  <2>3. CASE MarkRunning(w)
    BY <2>3 DEF MarkRunning, Active, RowStep
  <2>4. ASSUME NEW outcome \in {"succeeded", "failed"}, ChildEnds(w, outcome)
        PROVE  RowStep(j)
    BY <2>4 DEF ChildEnds, rowVars, RowStep
  <2>5. CASE Report(w)
    BY <2>5, <1>2 DEF Report, Finish, Settling, Idle
  <2>6. CASE ReportBlips(w)
    BY <2>6, <1>2 DEF ReportBlips, Settling, Idle
  <2> QED BY <1>1, <1>3, <2>1, <2>2, <2>3, <2>4, <2>5, <2>6 DEF WorkerStep
<1>4. ASSUME NEW i \in Jobs, JobStep(i) PROVE RowStep(j)
  BY <1>4 DEF JobStep, Enqueue, CancelQueued, CancelMissed, RequestCancel, CancelConflict,
              Lapse, StandingChanges, rowVars, RowStep
<1>5. ASSUME NEW w \in Workers, Crash(w) PROVE RowStep(j)
  BY <1>5 DEF Crash, rowVars, RowStep
<1>6. CASE UNCHANGED vars
  BY <1>6 DEF vars, rowVars, RowStep
<1> QED BY <1>3, <1>4, <1>5, <1>6 DEF Next, Calm

\* A terminal row is final, whoever reports, recycles, claims or cancels later.
THEOREM SettledStaysSettled == Spec => SettledForGood
<1>1. IInv /\ [Next]_vars =>
        [\A j \in Jobs : state[j] \in Terminal =>
            state'[j] = state[j] /\ attempts'[j] = attempts[j]]_vars
  <2> SUFFICES ASSUME IInv, [Next]_vars, NEW j \in Jobs, state[j] \in Terminal
               PROVE  state'[j] = state[j] /\ attempts'[j] = attempts[j]
    OBVIOUS
  <2> QED BY RowsStep DEF RowStep, Terminal, Active
<1> QED BY <1>1, Invariance, PTL DEF Spec, SettledForGood

\* The queue implements JobLifecycle: every transaction moves every job along
\* its lifecycle or leaves it where it is.
THEOREM QueueKeepsLifecycle == Spec => KeepsLifecycle
<1>1. Init => Lifecycle!Init
  BY DEF Init, Lifecycle!Init, Active
<1>2. IInv /\ [Next]_vars => [Lifecycle!Next]_(Lifecycle!vars)
  <2> SUFFICES ASSUME IInv, [Next]_vars PROVE Lifecycle!Next
    OBVIOUS
  <2>1. TypeOK'
    BY TypeStep DEF IInv
  <2>2. ASSUME NEW j \in Jobs PROVE Lifecycle!JobNext(j)
    BY <2>1, <2>2, RowsStep
    DEF RowStep, IInv, TypeOK, JobStates, Active, Terminal, Lifecycle!JobNext,
        Lifecycle!Submitted, Lifecycle!Taken, Lifecycle!Returned, Lifecycle!Reported,
        Lifecycle!Withdrawn, Lifecycle!GivenUp, Lifecycle!Unmoved, Lifecycle!Stays,
        Lifecycle!Ends
  <2> QED BY <2>1, <2>2
          DEF TypeOK, JobStates, Active, Terminal, Lifecycle!Next, Lifecycle!Phases,
              Lifecycle!Ends
<1> QED BY <1>1, <1>2, Invariance, PTL DEF Spec, KeepsLifecycle, Lifecycle!Spec

-----------------------------------------------------------------------------
\* What a worker is about to report comes from the run it is in: the except
\* branch reports `failed` only, and a cancellation it heard or reports was
\* asked for the job it has in hand.
VerdictsFollowRun ==
    \A w \in Workers :
        /\ pc[w] = "excusing" => verdict[w] = "failed"
        /\ heard[w] \/ verdict[w] = "cancelled" =>
               pc[w] \notin Idle /\ cancelRequested[job[w]]

LEMMA VerdictStep == IInv /\ VerdictsFollowRun /\ [Next]_vars => VerdictsFollowRun'
<1> SUFFICES ASSUME IInv, VerdictsFollowRun, [Next]_vars PROVE VerdictsFollowRun'
  OBVIOUS
<1> USE DEF IInv, TypeOK, VerdictsFollowRun, rowVars, workerVars, Idle
<1>n. \A v \in Workers : pc[v] \notin Idle => job[v] \in Jobs
  BY DEF TokensFollowClaims
<1>1. ASSUME NEW w \in Workers, NEW locked \in SUBSET Jobs, Claim(w, locked)
      PROVE  VerdictsFollowRun'
  BY <1>1 DEF Claim, ClaimNothing, ClaimExhausted, ClaimJob
<1>2. ASSUME NEW w \in Workers, NEW place \in Idle, LeaveJob(w, place),
             UNCHANGED cancelRequested
      PROVE  VerdictsFollowRun'
  BY <1>2 DEF LeaveJob
<1>3. ASSUME NEW w \in Workers, WorkerStep(w) PROVE VerdictsFollowRun'
  <2>1. CASE GuardsPass(w)
    BY <2>1 DEF GuardsPass
  <2>2. CASE GuardsRefuse(w) \/ MarkRunningLost(w)
    BY <2>2, <1>2 DEF GuardsRefuse, MarkRunningLost
  <2>3. CASE PrepareFails(w) \/ Report(w)
    BY <2>3, <1>2 DEF PrepareFails, Report, Finish, FinishRow
  <2>4. CASE MarkRunning(w)
    BY <2>4 DEF MarkRunning
  <2>5. CASE Beat(w)
    BY <2>5, <1>n DEF Beat, BeatAlive, Settling
  <2>6. CASE BeatEnds(w)
    BY <2>6 DEF BeatEnds
  <2>7. ASSUME NEW outcome \in {"succeeded", "failed"}, ChildEnds(w, outcome)
        PROVE  VerdictsFollowRun'
    BY <2>7 DEF ChildEnds
  <2>8. CASE ChildErrs(w)
    BY <2>8 DEF ChildErrs
  <2>9. CASE ReportBlips(w)
    BY <2>9 DEF ReportBlips, FinishRow
  <2>10. CASE Restart(w)
    BY <2>10 DEF Restart
  <2> QED BY <1>1, <1>3, <2>1, <2>2, <2>3, <2>4, <2>5, <2>6, <2>7, <2>8, <2>9, <2>10
          DEF WorkerStep
<1>4. ASSUME NEW j \in Jobs, JobStep(j) PROVE VerdictsFollowRun'
  BY <1>4, <1>n DEF JobStep, Enqueue, CancelQueued, CancelMissed, RequestCancel, CancelConflict,
                    Lapse, StandingChanges
<1>5. ASSUME NEW w \in Workers, Crash(w) PROVE VerdictsFollowRun'
  BY <1>5, <1>2 DEF Crash
<1>6. CASE UNCHANGED vars
  BY <1>6 DEF vars
<1> QED BY <1>3, <1>4, <1>5, <1>6 DEF Next, Calm

LEMMA VerdictInvariance == Spec => [](IInv /\ VerdictsFollowRun)
<1>1. Init => VerdictsFollowRun
  BY DEF Init, VerdictsFollowRun
<1> QED BY <1>1, InitIInv, StepIInv, VerdictStep, PTL DEF Spec

\* A row becomes succeeded or, from a worker's hands, cancelled in one way: the
\* worker that holds it writes its verdict with finish().
LEMMA EndedByFinish ==
    ASSUME IInv, VerdictsFollowRun, [Next]_vars, NEW j \in Jobs,
           \/ state[j] # "succeeded" /\ state'[j] = "succeeded"
           \/ state[j] \in Active /\ state'[j] = "cancelled"
    PROVE  \E w \in Workers : /\ pc[w] = "reporting" /\ job[w] = j /\ Holds(w)
                             /\ state'[j] = verdict[w]
<1> USE DEF IInv, TypeOK, Active, Terminal
<1>1. ASSUME NEW w \in Workers, WorkerStep(w)
      PROVE  /\ pc[w] = "reporting" /\ job[w] = j /\ Holds(w)
             /\ state'[j] = verdict[w]
  <2>1. ASSUME NEW locked \in SUBSET Jobs
        PROVE  ~Claim(w, locked)
    <3>1. Claim(w, locked) => state'[j] \in {state[j], "pending", "failed", "leased"}
      BY DEF Claim, ClaimNothing, ClaimExhausted, ClaimJob
    <3> QED BY <3>1
  <2>2. ~(GuardsPass(w) \/ GuardsRefuse(w) \/ MarkRunningLost(w) \/ Beat(w)
             \/ BeatEnds(w) \/ ChildErrs(w) \/ Restart(w) \/ MarkRunning(w))
    BY DEF GuardsPass, GuardsRefuse, MarkRunningLost, Beat, BeatEnds, ChildErrs,
           Restart, MarkRunning, rowVars
  <2>3. ~PrepareFails(w)
    BY DEF PrepareFails, Finish, FinishRow, rowVars
  <2>4. ASSUME NEW outcome \in {"succeeded", "failed"}
        PROVE  ~ChildEnds(w, outcome)
    BY DEF ChildEnds, rowVars
  <2>5. CASE Report(w)
    BY <2>5 DEF Report, Finish, FinishRow, Holds, Settling, VerdictsFollowRun, rowVars
  <2>6. CASE ReportBlips(w)
    BY <2>6 DEF ReportBlips, FinishRow, Holds, rowVars
  <2> QED BY <1>1, <2>1, <2>2, <2>3, <2>4, <2>5, <2>6 DEF WorkerStep
<1>2. ASSUME NEW i \in Jobs PROVE ~JobStep(i)
  BY DEF JobStep, Enqueue, CancelQueued, CancelMissed, RequestCancel, CancelConflict,
         Lapse, StandingChanges, rowVars
<1>3. ASSUME NEW w \in Workers PROVE ~Crash(w)
  BY DEF Crash, rowVars
<1>4. ~UNCHANGED vars
  BY DEF vars, rowVars
<1> QED BY <1>1, <1>2, <1>3, <1>4 DEF Next, Calm

\* Success is reported by the worker of the latest claim, on a row it had marked
\* running: a worker that lost its lease cannot record one.
THEOREM SuccessIsAlwaysTheHolders == Spec => SuccessIsTheHolders
<1>1. IInv /\ VerdictsFollowRun /\ [Next]_vars =>
        [\A j \in Jobs : state[j] # "succeeded" /\ state'[j] = "succeeded" =>
           \E w \in Workers :
               /\ job[w] = j /\ token[w] = attempts[j]
               /\ pc[w] = "reporting" /\ verdict[w] = "succeeded"
               /\ state[j] = "running"]_vars
  <2> SUFFICES ASSUME IInv, VerdictsFollowRun, [Next]_vars, NEW j \in Jobs,
                      state[j] # "succeeded", state'[j] = "succeeded"
               PROVE  \E w \in Workers :
                          /\ job[w] = j /\ token[w] = attempts[j]
                          /\ pc[w] = "reporting" /\ verdict[w] = "succeeded"
                          /\ state[j] = "running"
    OBVIOUS
  <2>1. PICK w \in Workers : /\ pc[w] = "reporting" /\ job[w] = j /\ Holds(w)
                             /\ state'[j] = verdict[w]
    BY EndedByFinish
  <2>2. state[j] = "running"
    BY <2>1 DEF IInv, RowFollowsHolder
  <2>3. token[w] = attempts[j]
    BY <2>1, <2>2 DEF IInv, TokensFollowClaims, Holds, Active
  <2> QED BY <2>1, <2>2, <2>3
<1> QED BY <1>1, VerdictInvariance, PTL DEF Spec, SuccessIsTheHolders

\* A job ends cancelled in a worker's hands only if a stop was asked for it.
THEOREM CancelledWasAlwaysAsked == Spec => CancelledWasAsked
<1>1. IInv /\ VerdictsFollowRun /\ [Next]_vars =>
        [\A j \in Jobs : state[j] \in Active /\ state'[j] = "cancelled" =>
            cancelRequested[j]]_vars
  <2> SUFFICES ASSUME IInv, VerdictsFollowRun, [Next]_vars, NEW j \in Jobs,
                      state[j] \in Active, state'[j] = "cancelled"
               PROVE  cancelRequested[j]
    OBVIOUS
  <2>1. PICK w \in Workers : /\ pc[w] = "reporting" /\ job[w] = j /\ Holds(w)
                             /\ state'[j] = verdict[w]
    BY EndedByFinish
  <2> QED BY <2>1 DEF VerdictsFollowRun
<1> QED BY <1>1, VerdictInvariance, PTL DEF Spec, CancelledWasAsked

-----------------------------------------------------------------------------
\* No attempt is ever spent on a job the claiming image cannot run: the filter
\* of claim() implies the check of require_runtime().
THEOREM AlwaysClaimsWhatItCanRun == Spec => []ClaimsWhatItCanRun
<1>1. Init => ClaimsWhatItCanRun
  BY DEF Init, ClaimsWhatItCanRun, Idle
<1>2. TypeOK /\ ClaimsWhatItCanRun /\ [Next]_vars => ClaimsWhatItCanRun'
  <2> SUFFICES ASSUME TypeOK, ClaimsWhatItCanRun, [Next]_vars PROVE ClaimsWhatItCanRun'
    OBVIOUS
  <2> USE PhaseQueueAssumption
      DEF TypeOK, ClaimsWhatItCanRun, RuntimeAccepts, workerVars
  <2>1. ASSUME NEW w \in Workers, NEW locked \in SUBSET Jobs, Claim(w, locked)
        PROVE  ClaimsWhatItCanRun'
    <3>1. CASE ClaimNothing(w, locked) \/ ClaimExhausted(w, locked)
      BY <3>1 DEF ClaimNothing, ClaimExhausted
    <3>2. CASE ClaimJob(w, locked)
      <4>1. PICK j \in Chosen(w, locked) : job' = [job EXCEPT ![w] = j]
        BY <3>2 DEF ClaimJob
      <4>2. j \in Jobs /\ Runnable(w, j)
        BY DEF Chosen, Candidates
      <4>3. pc' = [pc EXCEPT ![w] = "claimed"]
        BY <3>2 DEF ClaimJob
      <4> QED BY <4>1, <4>2, <4>3 DEF Runnable
    <3> QED BY <2>1, <3>1, <3>2 DEF Claim
  <2>2. ASSUME NEW w \in Workers, NEW place \in Idle, LeaveJob(w, place)
        PROVE  ClaimsWhatItCanRun'
    BY <2>2 DEF LeaveJob
  <2>3. ASSUME NEW w \in Workers, WorkerStep(w) PROVE ClaimsWhatItCanRun'
    <3>1. CASE GuardsRefuse(w) \/ MarkRunningLost(w) \/ PrepareFails(w) \/ Report(w)
      BY <3>1, <2>2 DEF GuardsRefuse, MarkRunningLost, PrepareFails, Report, Finish, Idle
    <3>2. CASE GuardsPass(w) \/ MarkRunning(w) \/ Beat(w) \/ BeatEnds(w)
               \/ ChildErrs(w) \/ ReportBlips(w)
      BY <3>2 DEF GuardsPass, MarkRunning, Beat, BeatEnds, ChildErrs, ReportBlips,
                  BeatAlive, Idle, Settling
    <3>3. ASSUME NEW outcome \in {"succeeded", "failed"}, ChildEnds(w, outcome)
          PROVE  ClaimsWhatItCanRun'
      BY <3>3 DEF ChildEnds, Idle
    <3>4. CASE Restart(w)
      BY <3>4 DEF Restart, Idle
    <3> QED BY <2>1, <2>3, <3>1, <3>2, <3>3, <3>4 DEF WorkerStep
  <2>4. ASSUME NEW j \in Jobs, JobStep(j) PROVE ClaimsWhatItCanRun'
    BY <2>4 DEF JobStep, Enqueue, CancelQueued, CancelMissed, RequestCancel,
                CancelConflict, Lapse, StandingChanges
  <2>5. ASSUME NEW w \in Workers, Crash(w) PROVE ClaimsWhatItCanRun'
    BY <2>2, <2>5 DEF Crash, Idle
  <2>6. CASE UNCHANGED vars
    BY <2>6 DEF vars
  <2> QED BY <2>3, <2>4, <2>5, <2>6 DEF Next, Calm
<1> QED BY <1>1, <1>2, TypeCorrect, PTL DEF Spec
=============================================================================
