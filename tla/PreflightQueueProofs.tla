------------------------ MODULE PreflightQueueProofs ------------------------
(***************************************************************************)
(* Proofs about PreflightQueue, for any requests, panel requests, workers, *)
(* requeue and failure limits, ordinals and faults.                        *)
(***************************************************************************)
EXTENDS PreflightQueue, FiniteSetTheorems, TLAPS

\* The jobs are finitely many, so a request's rows can be counted.
LEMMA JobsFinite == IsFiniteSet(Jobs)
<1>1. IsFiniteSet(0 .. MaxOrdinal)
  BY FS_Interval, PreflightQueueAssumption
<1> QED BY <1>1, FS_Product, PreflightQueueAssumption DEF Jobs

LEMMA JobsOfFinite ==
    ASSUME NEW r
    PROVE  IsFiniteSet(JobsOf(r)) /\ Cardinality(JobsOf(r)) \in Nat
<1>1. JobsOf(r) \in SUBSET Jobs
  BY DEF JobsOf
<1>2. IsFiniteSet(JobsOf(r))
  BY <1>1, JobsFinite, FS_Subset
<1> QED BY <1>2, FS_CardinalityType

\* A job is its request with an ordinal.
LEMMA JobParts ==
    /\ \A j \in Jobs : j[1] \in Requests /\ j[2] \in 0 .. MaxOrdinal /\ j = <<j[1], j[2]>>
    /\ \A r \in Requests, n \in 0 .. MaxOrdinal :
         <<r, n>> \in Jobs /\ <<r, n>>[1] = r /\ <<r, n>>[2] = n
    /\ NoJob \notin Jobs
BY DEF Jobs, NoJob

-----------------------------------------------------------------------------
(* Types. *)

WorkerTypes ==
    /\ pc \in [Workers -> {"idle", "claimed", "measuring", "failing", "down"}]
    /\ job \in [Workers -> Jobs \cup {NoJob}] /\ mine \in [Workers -> Nat]
    /\ code \in [Workers -> {"none"} \cup Codes] /\ failures \in [Workers -> 0 .. MaxFailures]
    /\ \A w \in Workers : pc[w] \in {"idle", "down"} <=> job[w] = NoJob

RowTypes ==
    /\ state \in [Jobs -> States] /\ token \in [Jobs -> Nat]
    /\ lapsed \in [Jobs -> BOOLEAN] /\ waits \in [Jobs -> BOOLEAN]
    /\ attempts \in [Jobs -> Nat] /\ requeues \in [Jobs -> Nat]
    /\ reason \in [Jobs -> {"none"} \cup Codes] /\ receipt \in [Jobs -> Nat]

\* A worker that returns, done or not, or goes on to report, keeps its types.
LEMMA WorkerMoves ==
    ASSUME WorkerTypes, NEW w \in Workers, job[w] \in Jobs,
           \/ \E stops \in BOOLEAN : ReturnsFailed(w, stops)
           \/ ReturnsDone(w)
           \/ \E c \in Codes : Failing(w, c)
    PROVE  WorkerTypes'
<1> USE PreflightQueueAssumption, JobParts
<1>1. ASSUME NEW stops \in BOOLEAN, ReturnsFailed(w, stops) PROVE WorkerTypes'
  <2>1. failures' \in [Workers -> 0 .. MaxFailures]
    BY <1>1 DEF ReturnsFailed, WorkerTypes
  <2>2. /\ pc' \in [Workers -> {"idle", "claimed", "measuring", "failing", "down"}]
        /\ pc'[w] \in {"idle", "down"} /\ \A v \in Workers \ {w} : pc'[v] = pc[v]
    BY <1>1 DEF ReturnsFailed, WorkerTypes
  <2> QED BY <1>1, <2>1, <2>2 DEF ReturnsFailed, WorkerTypes, None
<1>2. CASE ReturnsDone(w)
  BY <1>2 DEF ReturnsDone, WorkerTypes, None
<1>3. ASSUME NEW c \in Codes, Failing(w, c) PROVE WorkerTypes'
  BY <1>3 DEF Failing, WorkerTypes
<1> QED BY <1>1, <1>2, <1>3

\* Every step keeps the types: no statement of the store writes a state outside
\* the CHECK constraint, and no worker forgets a job it has not returned from.
LEMMA TypeStep == TypeOK /\ [Next]_vars => TypeOK'
<1> SUFFICES ASSUME TypeOK, [Next]_vars PROVE TypeOK'
  OBVIOUS
<1> USE PreflightQueueAssumption
<1>0. RowTypes /\ WorkerTypes
  BY DEF TypeOK, RowTypes, WorkerTypes
<1>a. /\ step \in [Askers -> {"idle", "looked", "counted"}]
      /\ wants \in [Askers -> Requests] /\ counted \in [Askers -> 0 .. MaxOrdinal]
      /\ faults \in 0 .. MaxFaults
  BY DEF TypeOK
<1>b. ASSUME RowTypes', WorkerTypes', UNCHANGED askVars, faults' \in 0 .. MaxFaults
      PROVE  TypeOK'
  BY <1>a, <1>b DEF askVars, TypeOK, RowTypes, WorkerTypes
<1>c. Fault => faults' \in 0 .. MaxFaults
  BY <1>a DEF Fault
<1>d. /\ NoJob \notin Jobs
      /\ \A w \in Workers : pc[w] \in {"claimed", "measuring", "failing"} => job[w] \in Jobs
  BY <1>0, JobParts DEF WorkerTypes
<1>1. ASSUME NEW a \in Askers, Look(a) PROVE TypeOK'
  BY <1>1, <1>0, <1>a DEF Look, TypeOK, RowTypes, WorkerTypes, rowVars, workerVars
<1>2. ASSUME NEW a \in Askers, Count(a) PROVE TypeOK'
  <2>1. Cardinality(JobsOf(wants[a])) \in 0 .. MaxOrdinal
    BY <1>2, JobsOfFinite DEF Count
  <2> QED BY <1>2, <1>0, <1>a, <2>1 DEF Count, TypeOK, RowTypes, WorkerTypes, rowVars, workerVars
<1>3. ASSUME NEW a \in Askers, Insert(a) PROVE TypeOK'
  <2>1. state' \in [Jobs -> States]
    BY <1>3, <1>0 DEF Insert, RowTypes, States
  <2> QED BY <1>3, <1>0, <1>a, <2>1 DEF Insert, TypeOK, RowTypes, WorkerTypes, workerVars
<1>4. ASSUME NEW w \in Workers, NEW j \in Jobs, Claim(w, j) PROVE TypeOK'
  <2>1. RowTypes'
    <3>1. /\ state' \in [Jobs -> States] /\ token' \in [Jobs -> Nat]
          /\ lapsed' \in [Jobs -> BOOLEAN] /\ attempts' \in [Jobs -> Nat]
      BY <1>4, <1>0 DEF Claim, RowTypes, States, None
    <3> QED BY <1>4, <1>0, <3>1 DEF Claim, RowTypes
  <2>2. WorkerTypes'
    BY <1>4, <1>0, <1>d DEF Claim, WorkerTypes, RowTypes
  <2> QED BY <1>4, <1>a, <1>b, <2>1, <2>2 DEF Claim
<1>5. ASSUME NEW w \in Workers, StillOurs(w) \/ Beat(w) PROVE TypeOK'
  <2>1. RowTypes'
    BY <1>5, <1>0 DEF StillOurs, Beat, RowTypes
  <2>2. WorkerTypes'
    BY <1>5, <1>0 DEF StillOurs, Beat, WorkerTypes, workerVars
  <2> QED BY <1>5, <1>a, <1>b, <2>1, <2>2 DEF StillOurs, Beat
<1>6. ASSUME NEW w \in Workers, StandDown(w) \/ TakenForLost(w) PROVE TypeOK'
  <2>1. RowTypes' /\ UNCHANGED askVars
    BY <1>6, <1>0 DEF StandDown, TakenForLost, RowTypes, rowVars
  <2>2. WorkerTypes'
    <3>1. job[w] \in Jobs /\ ReturnsFailed(w, FALSE)
      BY <1>6, <1>d DEF StandDown, TakenForLost
    <3> QED BY <3>1, <1>0, WorkerMoves
  <2>3. faults' \in 0 .. MaxFaults
    BY <1>6, <1>a, <1>c DEF StandDown, TakenForLost
  <2> QED BY <1>b, <2>1, <2>2, <2>3
<1>7. ASSUME NEW w \in Workers, Fail(w) PROVE TypeOK'
  <2>1. \E c \in Codes : job[w] \in Jobs /\ Failing(w, c)
    BY <1>7, <1>d DEF Fail, Codes
  <2>2. WorkerTypes'
    BY <2>1, <1>0, WorkerMoves
  <2> QED BY <1>7, <1>0, <1>a, <1>b, <2>2 DEF Fail, RowTypes, rowVars
<1>8. ASSUME NEW w \in Workers, Finalize(w) PROVE TypeOK'
  <2>1. job[w] \in Jobs
    BY <1>8, <1>d DEF Finalize
  <2>2. RowTypes'
    <3>1. mine[w] \in Nat
      BY <1>0 DEF WorkerTypes
    <3>2. CASE Holds(w)
      <4>1. /\ state' = [state EXCEPT ![job[w]] = "COMPLETED"]
            /\ receipt' = [receipt EXCEPT ![job[w]] = mine[w]]
            /\ token' = [token EXCEPT ![job[w]] = None]
            /\ lapsed' = [lapsed EXCEPT ![job[w]] = FALSE]
            /\ UNCHANGED <<waits, attempts, requeues, reason>>
        BY <1>8, <3>2 DEF Finalize
      <4> QED BY <1>0, <2>1, <3>1, <4>1 DEF RowTypes, States, None
    <3>3. CASE ~Holds(w)
      BY <1>8, <1>0, <3>3 DEF Finalize, RowTypes
    <3> QED BY <3>2, <3>3
  <2>3. ReturnsDone(w) \/ \E c \in Codes : Failing(w, c)
    BY <1>8 DEF Finalize, Codes
  <2>4. WorkerTypes'
    BY <1>0, <2>1, <2>3, WorkerMoves
  <2> QED BY <1>8, <1>a, <1>b, <2>2, <2>4 DEF Finalize
<1>9. ASSUME NEW w \in Workers, Report(w) PROVE TypeOK'
  <2>1. job[w] \in Jobs /\ mine[w] \in Nat /\ code[w] \in {"none"} \cup Codes
    BY <1>9, <1>0, <1>d DEF Report, FailJob, Requeue, WorkerTypes
  <2>2. RowTypes'
    <3>1. CASE FailJob(w)
      BY <3>1, <1>0, <2>1 DEF FailJob, Released, RowTypes, States, None
    <3>2. CASE Requeue(w)
      <4>1. /\ receipt' = [receipt EXCEPT ![job[w]] = mine[w]]
            /\ token' = [token EXCEPT ![job[w]] = None]
            /\ lapsed' = [lapsed EXCEPT ![job[w]] = FALSE]
            /\ UNCHANGED attempts
            /\ \/ /\ state' = [state EXCEPT ![job[w]] = "FAILED"]
                  /\ reason' = [reason EXCEPT ![job[w]] = "outage"]
                  /\ UNCHANGED <<waits, requeues>>
               \/ /\ state' = [state EXCEPT ![job[w]] = "PENDING"]
                  /\ requeues' = [requeues EXCEPT ![job[w]] = @ + 1]
                  /\ waits' = [waits EXCEPT ![job[w]] = TRUE]
                  /\ UNCHANGED reason
        BY <3>2 DEF Requeue, Released
      <4>2. /\ receipt' \in [Jobs -> Nat] /\ token' \in [Jobs -> Nat]
            /\ lapsed' \in [Jobs -> BOOLEAN] /\ attempts' \in [Jobs -> Nat]
        BY <1>0, <2>1, <4>1 DEF RowTypes, None
      <4>3. state' \in [Jobs -> States] /\ requeues' \in [Jobs -> Nat]
        BY <1>0, <2>1, <4>1 DEF RowTypes, States
      <4>4. reason' \in [Jobs -> {"none"} \cup Codes]
        BY <1>0, <2>1, <4>1 DEF RowTypes, Codes
      <4>5. waits' \in [Jobs -> BOOLEAN]
        BY <1>0, <2>1, <4>1 DEF RowTypes
      <4> QED BY <4>2, <4>3, <4>4, <4>5 DEF RowTypes
    <3> QED BY <1>9, <3>1, <3>2 DEF Report
  <2>3. \E stops \in BOOLEAN : ReturnsFailed(w, stops)
    BY <1>9 DEF Report, FailJob, Requeue
  <2>4. WorkerTypes'
    BY <1>0, <2>1, <2>3, WorkerMoves
  <2> QED BY <1>9, <1>a, <1>b, <2>2, <2>4 DEF Report, FailJob, Requeue, Released
<1>10. ASSUME NEW w \in Workers, Restart(w) \/ Die(w) PROVE TypeOK'
  <2>1. RowTypes' /\ UNCHANGED askVars
    BY <1>10, <1>0 DEF Restart, Die, RowTypes, rowVars
  <2>2. WorkerTypes'
    BY <1>10, <1>0, <1>d DEF Restart, Die, WorkerTypes, None
  <2>3. faults' \in 0 .. MaxFaults
    BY <1>10, <1>a, <1>c DEF Restart, Die
  <2> QED BY <1>b, <2>1, <2>2, <2>3
<1>11. ASSUME NEW j \in Jobs, RetryDue(j) \/ Lapse(j) \/ Stall(j) PROVE TypeOK'
  <2>1. RowTypes'
    BY <1>11, <1>0 DEF RetryDue, Lapse, Stall, RowTypes
  <2>2. WorkerTypes' /\ UNCHANGED askVars
    BY <1>11, <1>0 DEF RetryDue, Lapse, Stall, WorkerTypes, workerVars
  <2>3. faults' \in 0 .. MaxFaults
    BY <1>11, <1>a, <1>c DEF RetryDue, Lapse, Stall
  <2> QED BY <1>b, <2>1, <2>2, <2>3
<1>12. CASE UNCHANGED vars
  BY <1>12 DEF vars, rowVars, workerVars, askVars, TypeOK
<1> QED BY <1>1, <1>2, <1>3, <1>4, <1>5, <1>6, <1>7, <1>8, <1>9, <1>10, <1>11, <1>12 DEF Next

LEMMA InitTypes == Init => TypeOK
BY PreflightQueueAssumption, JobParts DEF Init, TypeOK, States, None

\* The rows of segment_preflight_jobs and what their workers carry have their types.
THEOREM TypeCorrect == Spec => []TypeOK
BY InitTypes, TypeStep, PTL DEF Spec

-----------------------------------------------------------------------------
(* Leases and tokens. *)

\* A row carries a token exactly while it is claimed, and then the number of
\* its last claim; a worker's token is not newer than its job's last claim, and
\* no two workers carry the same one; only a failed row names a reason.
Leases ==
    /\ \A j \in Jobs :
         /\ state[j] = "CLAIMED" => token[j] = attempts[j] /\ attempts[j] > 0
         /\ state[j] # "CLAIMED" => token[j] = None /\ ~lapsed[j]
         /\ reason[j] # "none" => state[j] = "FAILED"
    /\ \A w \in Workers : job[w] \in Jobs =>
         /\ mine[w] \in 1 .. attempts[job[w]]
         /\ \A v \in Workers \ {w} : job[v] = job[w] => mine[v] # mine[w]

\* What one step may do to a row.  Nothing but time, a renewal, ...
RowStays(j) ==
    /\ UNCHANGED <<state[j], token[j], attempts[j], requeues[j], reason[j], receipt[j]>>
    /\ state[j] = "CLAIMED" \/ lapsed'[j] = lapsed[j]

\* ... an insertion, ...
RowAppears(j) ==
    /\ state[j] = "absent" /\ state'[j] = "PENDING"
    /\ UNCHANGED <<token[j], lapsed[j], attempts[j], requeues[j], reason[j], receipt[j]>>

\* ... a claim, ...
RowTaken(j) ==
    /\ Claimable(j)
    /\ state'[j] = "CLAIMED"
    /\ attempts'[j] = attempts[j] + 1 /\ token'[j] = attempts[j] + 1
    /\ ~lapsed'[j]
    /\ UNCHANGED <<requeues[j], reason[j], receipt[j]>>

\* ... a recycling, ...
RowRecycled(j) ==
    /\ j \in Recycled
    /\ state'[j] = "PENDING" /\ token'[j] = None /\ ~lapsed'[j]
    /\ UNCHANGED <<attempts[j], requeues[j], reason[j], receipt[j]>>

\* ... or a report of the worker that holds it.
RowReported(j) ==
    \E w \in Workers :
        /\ job[w] = j /\ Holds(w)
        /\ token'[j] = None /\ ~lapsed'[j] /\ attempts'[j] = attempts[j]
        /\ \/ /\ state'[j] = "COMPLETED" /\ receipt'[j] = mine[w]
              /\ UNCHANGED <<requeues[j], reason[j]>>
           \/ /\ state'[j] = "FAILED" /\ reason'[j] # "outage"
              /\ UNCHANGED requeues[j]
           \/ /\ state'[j] = "FAILED" /\ reason'[j] = "outage" /\ Spent(j)
              /\ UNCHANGED requeues[j]
           \/ /\ state'[j] = "PENDING" /\ ~Spent(j)
              /\ requeues'[j] = requeues[j] + 1 /\ UNCHANGED reason[j]

\* Whoever acts, every row follows one of these.
LEMMA RowsStep ==
    ASSUME TypeOK, [Next]_vars, NEW i \in Jobs
    PROVE  RowStays(i) \/ RowAppears(i) \/ RowTaken(i) \/ RowRecycled(i) \/ RowReported(i)
<1>0. RowTypes
  BY DEF TypeOK, RowTypes
<1>d. \A w \in Workers : pc[w] \in {"claimed", "measuring", "failing"} => job[w] \in Jobs
  BY DEF TypeOK
<1> USE <1>0 DEF RowTypes
<1>1. CASE UNCHANGED rowVars
  BY <1>1 DEF rowVars, RowStays
<1>2. ASSUME NEW a \in Askers, Insert(a) PROVE RowStays(i) \/ RowAppears(i)
  <2> DEFINE j == <<wants[a], counted[a]>>
  <2>1. CASE Free(j) /\ i = j
    BY <1>2, <2>1 DEF Insert, Free, RowAppears
  <2>2. CASE ~(Free(j) /\ i = j)
    <3>1. state'[i] = state[i]
      BY <1>2, <2>2 DEF Insert
    <3> QED BY <1>2, <3>1 DEF Insert, RowStays
  <2> QED BY <2>1, <2>2
<1>3. ASSUME NEW w \in Workers, NEW j \in Jobs, Claim(w, j)
      PROVE  RowStays(i) \/ RowTaken(i) \/ RowRecycled(i)
  <2>1. CASE i = j
    BY <1>3, <2>1 DEF Claim, RowTaken
  <2>2. CASE i # j /\ i \in Recycled
    BY <1>3, <2>2 DEF Claim, RowRecycled
  <2>3. CASE i # j /\ i \notin Recycled
    BY <1>3, <2>3 DEF Claim, RowStays
  <2> QED BY <2>1, <2>2, <2>3
<1>4. ASSUME NEW w \in Workers, job[w] \in Jobs, Holds(w),
             StillOurs(w) \/ Beat(w) \/ Finalize(w) \/ Report(w)
      PROVE  RowStays(i) \/ RowReported(i)
  <2>1. CASE i # job[w]
    <3>1. StillOurs(w) \/ Beat(w) \/ Finalize(w) => RowStays(i)
      BY <1>4, <2>1 DEF StillOurs, Beat, Finalize, RowStays
    <3>2. Report(w) => RowStays(i)
      BY <1>4, <2>1 DEF Report, FailJob, Requeue, Released, RowStays
    <3> QED BY <1>4, <3>1, <3>2
  <2>2. CASE i = job[w] /\ (StillOurs(w) \/ Beat(w))
    BY <1>4, <2>2 DEF StillOurs, Beat, RowStays, Holds
  <2>3. CASE i = job[w] /\ Finalize(w)
    BY <1>4, <2>3 DEF Finalize, RowReported
  <2>4. CASE i = job[w] /\ FailJob(w)
    BY <1>4, <2>4 DEF FailJob, Released, RowReported
  <2>5. CASE i = job[w] /\ Requeue(w)
    BY <1>4, <2>5 DEF Requeue, Released, RowReported
  <2> QED BY <1>4, <2>1, <2>2, <2>3, <2>4, <2>5 DEF Report
<1>5. ASSUME NEW w \in Workers, StillOurs(w) \/ Beat(w) \/ Finalize(w) \/ Report(w)
      PROVE  (job[w] \in Jobs /\ Holds(w)) \/ RowStays(i)
  BY <1>5, <1>d DEF StillOurs, Beat, Finalize, Report, FailJob, Requeue, RowStays
<1>6. ASSUME NEW j \in Jobs, RetryDue(j) \/ Lapse(j) \/ Stall(j) PROVE RowStays(i)
  BY <1>6 DEF RetryDue, Lapse, Stall, RowStays
<1>7. \/ UNCHANGED rowVars
      \/ \E a \in Askers : Insert(a)
      \/ \E w \in Workers : \/ \E j \in Jobs : Claim(w, j)
                            \/ StillOurs(w) \/ Beat(w) \/ Finalize(w) \/ Report(w)
      \/ \E j \in Jobs : RetryDue(j) \/ Lapse(j) \/ Stall(j)
  BY DEF Next, Look, Count, StandDown, Fail, Restart, Die, TakenForLost, vars
<1> QED BY <1>1, <1>2, <1>3, <1>4, <1>5, <1>6, <1>7

\* A worker keeps its claim, returns, or has just made one.
LEMMA WorkersStep ==
    ASSUME TypeOK, [Next]_vars
    PROVE  \/ \E w \in Workers, j \in Jobs : Claim(w, j)
           \/ \A v \in Workers : \/ job'[v] = job[v] /\ mine'[v] = mine[v]
                                 \/ job'[v] = NoJob
<1> DEFINE Keeps == \A v \in Workers : \/ job'[v] = job[v] /\ mine'[v] = mine[v]
                                       \/ job'[v] = NoJob
<1>1. ASSUME UNCHANGED <<job, mine>> PROVE Keeps
  BY <1>1
<1>2. ASSUME NEW w \in Workers,
             (\E stops \in BOOLEAN : ReturnsFailed(w, stops)) \/ ReturnsDone(w) \/ Die(w)
      PROVE  Keeps
  BY <1>2 DEF ReturnsFailed, ReturnsDone, Die, TypeOK
<1>3. ASSUME NEW w \in Workers, StandDown(w) \/ TakenForLost(w) \/ Report(w)
      PROVE  \E stops \in BOOLEAN : ReturnsFailed(w, stops)
  BY <1>3 DEF StandDown, TakenForLost, Report, FailJob, Requeue
<1>4. ASSUME NEW w \in Workers, Finalize(w) PROVE ReturnsDone(w) \/ UNCHANGED <<job, mine>>
  BY <1>4 DEF Finalize, Failing
<1>5. ASSUME NEW w \in Workers, StillOurs(w) \/ Beat(w) \/ Fail(w) \/ Restart(w)
      PROVE  UNCHANGED <<job, mine>>
  BY <1>5 DEF StillOurs, Beat, Fail, Failing, Restart, workerVars
<1>6. ASSUME \/ \E a \in Askers : Look(a) \/ Count(a) \/ Insert(a)
             \/ \E j \in Jobs : RetryDue(j) \/ Lapse(j) \/ Stall(j)
             \/ UNCHANGED vars
      PROVE  UNCHANGED <<job, mine>>
  BY <1>6 DEF Look, Count, Insert, RetryDue, Lapse, Stall, workerVars, vars
<1> HIDE DEF Keeps
<1>7. ASSUME NEW w \in Workers,
             \/ StillOurs(w) \/ Beat(w) \/ StandDown(w) \/ Fail(w) \/ Finalize(w)
             \/ Report(w) \/ Restart(w) \/ Die(w) \/ TakenForLost(w)
      PROVE  Keeps
  <2>1. CASE StandDown(w) \/ TakenForLost(w) \/ Report(w)
    BY <1>2, <1>3, <2>1
  <2>2. CASE Finalize(w)
    BY <1>1, <1>2, <1>4, <2>2
  <2>3. CASE StillOurs(w) \/ Beat(w) \/ Fail(w) \/ Restart(w)
    BY <1>1, <1>5, <2>3
  <2> QED BY <1>2, <1>7, <2>1, <2>2, <2>3
<1> QED BY <1>1, <1>6, <1>7 DEF Next, Keeps

\* No step gives one token to two workers or leaves one on a row nobody claimed.
LEMMA LeasesStep == TypeOK /\ Leases /\ [Next]_vars => Leases'
<1> SUFFICES ASSUME TypeOK, Leases, [Next]_vars PROVE Leases'
  OBVIOUS
<1> USE PreflightQueueAssumption, JobParts
<1>0. TypeOK'
  BY TypeStep
<1>1. ASSUME NEW j \in Jobs
      PROVE  /\ state'[j] = "CLAIMED" => token'[j] = attempts'[j] /\ attempts'[j] > 0
             /\ state'[j] # "CLAIMED" => token'[j] = None /\ ~lapsed'[j]
             /\ reason'[j] # "none" => state'[j] = "FAILED"
             /\ attempts[j] <= attempts'[j]
  <2> USE DEF Leases, TypeOK
  <2>1. CASE RowStays(j)
    BY <2>1 DEF RowStays
  <2>2. CASE RowAppears(j)
    BY <2>2 DEF RowAppears
  <2>3. CASE RowTaken(j)
    BY <2>3 DEF RowTaken, Claimable, Recycled
  <2>4. CASE RowRecycled(j)
    BY <2>4 DEF RowRecycled, Recycled
  <2>5. CASE RowReported(j)
    BY <2>5 DEF RowReported, Holds
  <2> QED BY <2>1, <2>2, <2>3, <2>4, <2>5, RowsStep
<1>2. ASSUME NEW w \in Workers, job'[w] \in Jobs
      PROVE  /\ mine'[w] \in 1 .. attempts'[job'[w]]
             /\ \A v \in Workers \ {w} : job'[v] = job'[w] => mine'[v] # mine'[w]
  <2>1. CASE \A v \in Workers : (job'[v] = job[v] /\ mine'[v] = mine[v]) \/ job'[v] = NoJob
    <3>1. job'[w] = job[w] /\ mine'[w] = mine[w]
      BY <1>2, <2>1
    <3>2. mine[w] \in 1 .. attempts[job[w]]
      BY <1>2, <3>1 DEF Leases
    <3>3. attempts[job[w]] \in Nat /\ attempts'[job[w]] \in Nat
      BY <1>0, <1>2, <3>1 DEF TypeOK
    <3>4. attempts[job[w]] <= attempts'[job[w]]
      BY <1>1, <1>2, <3>1
    <3>5. mine'[w] \in 1 .. attempts'[job'[w]]
      BY <3>1, <3>2, <3>3, <3>4
    <3> QED BY <1>2, <2>1, <3>1, <3>5 DEF Leases
  <2>2. ASSUME NEW u \in Workers, NEW j \in Jobs, Claim(u, j)
        PROVE  /\ mine'[w] \in 1 .. attempts'[job'[w]]
               /\ \A v \in Workers \ {w} : job'[v] = job'[w] => mine'[v] # mine'[w]
    <3>1. /\ job'[u] = j /\ mine'[u] = attempts[j] + 1 /\ attempts'[j] = attempts[j] + 1
          /\ \A v \in Workers \ {u} : job'[v] = job[v] /\ mine'[v] = mine[v]
          /\ \A i \in Jobs \ {j} : attempts'[i] = attempts[i]
      BY <2>2 DEF Claim, TypeOK
    <3>2. \A v \in Workers \ {u} : job[v] = j => mine[v] <= attempts[j] /\ mine[v] \in Nat
      BY DEF Leases, TypeOK
    <3>3. attempts[j] \in Nat
      BY DEF TypeOK
    <3>4. CASE w = u
      BY <3>1, <3>2, <3>3, <3>4
    <3>5. CASE w # u
      <4>1. /\ mine[w] \in 1 .. attempts[job[w]]
            /\ \A v \in Workers \ {w} : job[v] = job[w] => mine[v] # mine[w]
        BY <1>2, <3>1, <3>5 DEF Leases
      <4>2. attempts[job[w]] <= attempts'[job[w]] /\ attempts'[job[w]] \in Nat
        BY <1>0, <1>1, <1>2, <3>1, <3>5 DEF TypeOK
      <4>3. mine'[w] \in 1 .. attempts'[job'[w]]
        <5>1. mine'[w] = mine[w] /\ job'[w] = job[w] /\ attempts[job[w]] \in Nat
          BY <1>2, <3>1, <3>5 DEF TypeOK
        <5> QED BY <4>1, <4>2, <5>1
      <4>4. ASSUME NEW v \in Workers \ {w}, job'[v] = job'[w] PROVE mine'[v] # mine'[w]
        <5>1. CASE v = u
          BY <3>1, <3>2, <3>3, <3>5, <4>4, <5>1
        <5>2. CASE v # u
          BY <3>1, <3>5, <4>1, <4>4, <5>2
        <5> QED BY <5>1, <5>2
      <4> QED BY <4>3, <4>4
    <3> QED BY <3>4, <3>5
  <2> QED BY <2>1, <2>2, WorkersStep
<1> QED BY <1>1, <1>2 DEF Leases

-----------------------------------------------------------------------------
(* Receipts and requeues. *)

\* The receipt of a completed job is its last claim's.
LEMMA ReceiptStep ==
    TypeOK /\ Leases /\ ReceiptFromLastClaim /\ [Next]_vars => ReceiptFromLastClaim'
<1> SUFFICES ASSUME TypeOK, Leases, ReceiptFromLastClaim, [Next]_vars, NEW j \in Jobs,
                    state'[j] = "COMPLETED"
             PROVE  receipt'[j] = attempts'[j]
  BY DEF ReceiptFromLastClaim
<1>1. CASE RowStays(j)
  BY <1>1 DEF RowStays, ReceiptFromLastClaim
<1>2. CASE RowReported(j)
  BY <1>2 DEF RowReported, Holds, Leases
<1> QED BY <1>1, <1>2, RowsStep DEF RowAppears, RowTaken, RowRecycled

\* An outage is given up only with its retries spent.
LEMMA RetriesStep ==
    TypeOK /\ Leases /\ OutageGetsItsRetries /\ [Next]_vars => OutageGetsItsRetries'
<1> SUFFICES ASSUME TypeOK, Leases, OutageGetsItsRetries, [Next]_vars, NEW j \in Jobs
             PROVE  /\ requeues'[j] <= MaximumRequeues
                    /\ reason'[j] = "outage" => requeues'[j] = MaximumRequeues
  BY DEF OutageGetsItsRetries
<1> USE PreflightQueueAssumption DEF TypeOK, OutageGetsItsRetries
<1>1. CASE RowReported(j)
  BY <1>1 DEF RowReported, Holds, Leases, Spent
<1>2. CASE ~RowReported(j)
  <2>1. UNCHANGED <<requeues[j], reason[j]>>
    BY <1>2, RowsStep DEF RowStays, RowAppears, RowTaken, RowRecycled
  <2> QED BY <2>1
<1> QED BY <1>1, <1>2

LEMMA InitLeases == Init => Leases /\ ReceiptFromLastClaim /\ OutageGetsItsRetries
BY PreflightQueueAssumption, JobParts
   DEF Init, Leases, ReceiptFromLastClaim, OutageGetsItsRetries, None

\* A receipt is written by the claim that is the job's last, whatever lapsed,
\* was recycled or came late.
THEOREM ReceiptAlwaysFromLastClaim == Spec => []ReceiptFromLastClaim
BY InitTypes, TypeStep, InitLeases, LeasesStep, ReceiptStep, PTL DEF Spec

\* A job is given up for an outage after exactly the retries it is granted.
THEOREM OutageAlwaysGetsItsRetries == Spec => []OutageGetsItsRetries
BY InitTypes, TypeStep, InitLeases, LeasesStep, RetriesStep, PTL DEF Spec

-----------------------------------------------------------------------------
(* One live job per request. *)

\* A row is never removed, a failed one stays failed, and a new one is the one
\* some enqueue inserts.
LEMMA RowsRemain ==
    ASSUME TypeOK, Leases, [Next]_vars, NEW i \in Jobs
    PROVE  /\ state[i] # "absent" => state'[i] # "absent"
           /\ state[i] = "FAILED" => state'[i] = "FAILED"
           /\ state[i] = "absent" => state'[i] = "absent" \/ RowAppears(i)
BY RowsStep
   DEF RowStays, RowAppears, RowTaken, RowRecycled, RowReported, Holds, Claimable, Recycled

LEMMA OnlyInsertAdds ==
    ASSUME TypeOK, [Next]_vars, NEW i \in Jobs, RowAppears(i)
    PROVE  \E a \in Askers : Insert(a) /\ Free(i) /\ i = <<wants[a], counted[a]>>
<1>1. state[i] = "absent" /\ state'[i] = "PENDING"
  BY DEF RowAppears
<1>2. ASSUME NEW a \in Askers, Insert(a) PROVE Free(i) /\ i = <<wants[a], counted[a]>>
  BY <1>1, <1>2 DEF Insert, TypeOK
<1>3. ASSUME NEW w \in Workers, NEW j \in Jobs, Claim(w, j) PROVE FALSE
  BY <1>1, <1>3 DEF Claim, Recycled, TypeOK
<1>4. ASSUME NEW w \in Workers, Finalize(w) PROVE FALSE
  BY <1>1, <1>4 DEF Finalize, Holds, TypeOK
<1>5. ASSUME NEW w \in Workers, Report(w) PROVE FALSE
  BY <1>1, <1>5 DEF Report, FailJob, Requeue, Released, Holds, TypeOK
<1>6. ASSUME UNCHANGED state PROVE FALSE
  BY <1>1, <1>6
<1>7. \/ UNCHANGED state
      \/ \E a \in Askers : Insert(a)
      \/ \E w \in Workers : (\E j \in Jobs : Claim(w, j)) \/ Finalize(w) \/ Report(w)
  BY DEF Next, Look, Count, StillOurs, Beat, StandDown, Fail, Restart, Die, TakenForLost,
     RetryDue, Lapse, Stall, vars, rowVars
<1> QED BY <1>2, <1>3, <1>4, <1>5, <1>6, <1>7

\* Where the ordinals of a request have no gap, the number of its jobs is the
\* first that is free.
LEMMA CountIsNextOrdinal ==
    ASSUME NEW r \in Requests, NEW n \in Nat, n < Cardinality(JobsOf(r)),
           \A j \in JobsOf(r) : \A k \in 0 .. j[2] : state[<<r, k>>] # "absent"
    PROVE  state[<<r, n>>] # "absent"
<1> SUFFICES ASSUME state[<<r, n>>] = "absent" PROVE FALSE
  OBVIOUS
<1> DEFINE f == [j \in JobsOf(r) |-> j[2]]
<1>1. \A j \in JobsOf(r) : j[1] = r /\ j[2] \in 0 .. MaxOrdinal /\ j = <<r, j[2]>>
  BY JobParts DEF JobsOf
<1>2. \A j \in JobsOf(r) : j[2] \in 0 .. (n - 1)
  <2> SUFFICES ASSUME NEW j \in JobsOf(r), j[2] >= n PROVE FALSE
    BY <1>1
  <2>1. n \in 0 .. j[2]
    BY <1>1
  <2> QED BY <2>1
<1>3. \A i, j \in JobsOf(r) : i[2] = j[2] => i = j
  BY <1>1
<1>4. f \in Injection(JobsOf(r), 0 .. (n - 1))
  BY <1>2, <1>3 DEF Injection, IsInjective
<1>5. IsFiniteSet(0 .. (n - 1)) /\ Cardinality(0 .. (n - 1)) = n
  BY FS_Interval
<1>6. Cardinality(JobsOf(r)) <= n
  BY <1>4, <1>5, FS_Injection
<1> QED BY <1>6, JobsOfFinite

\* What an enqueue has counted is still there when it inserts.
Ordinals ==
    \A a \in Askers : step[a] = "counted" =>
        \A n \in Nat : n < counted[a] => state[<<wants[a], n>>] # "absent"

LEMMA OrdinalsStep ==
    TypeOK /\ Leases /\ OneLivePerRequest /\ Ordinals /\ [Next]_vars => Ordinals'
<1> SUFFICES ASSUME TypeOK, Leases, OneLivePerRequest, Ordinals, [Next]_vars,
                    NEW a \in Askers, step'[a] = "counted", NEW n \in Nat, n < counted'[a]
             PROVE  state'[<<wants'[a], n>>] # "absent"
  BY DEF Ordinals
<1>1. TypeOK'
  BY TypeStep
<1>2. wants'[a] \in Requests /\ n \in 0 .. MaxOrdinal
  BY <1>1, PreflightQueueAssumption DEF TypeOK
<1>3. <<wants'[a], n>> \in Jobs
  BY <1>2, JobParts
<1>4. ASSUME state[<<wants'[a], n>>] # "absent" PROVE state'[<<wants'[a], n>>] # "absent"
  BY <1>3, <1>4, RowsRemain
<1>5. CASE Count(a)
  <2>1. wants' = wants /\ counted'[a] = Cardinality(JobsOf(wants[a]))
    BY <1>5 DEF Count, TypeOK
  <2>2. \A j \in JobsOf(wants[a]) : \A k \in 0 .. j[2] : state[<<wants[a], k>>] # "absent"
    BY <1>2, <2>1 DEF OneLivePerRequest
  <2> QED BY <1>2, <1>4, <2>1, <2>2, CountIsNextOrdinal
<1>6. CASE ~Count(a)
  <2>1. ASSUME NEW b \in Askers, Look(b) \/ Insert(b) \/ (Count(b) /\ b # a)
        PROVE  step[a] = "counted" /\ wants' = wants /\ counted'[a] = counted[a]
    BY <2>1 DEF Look, Count, Insert, TypeOK
  <2>2. ASSUME UNCHANGED askVars
        PROVE  step[a] = "counted" /\ wants' = wants /\ counted'[a] = counted[a]
    BY <2>2 DEF askVars
  <2>3. UNCHANGED askVars \/ \E b \in Askers : Look(b) \/ Insert(b) \/ (Count(b) /\ b # a)
    BY <1>6 DEF Next, Claim, StillOurs, Beat, StandDown, Fail, Finalize, Report, FailJob,
       Requeue, Released, Restart, Die, TakenForLost, RetryDue, Lapse, Stall, vars
  <2> QED BY <1>4, <2>1, <2>2, <2>3 DEF Ordinals
<1> QED BY <1>5, <1>6

LEMMA OneLiveStep ==
    TypeOK /\ Leases /\ OneLivePerRequest /\ Ordinals /\ [Next]_vars => OneLivePerRequest'
<1> SUFFICES ASSUME TypeOK, Leases, OneLivePerRequest, Ordinals, [Next]_vars,
                    NEW r \in Requests
             PROVE  /\ \A i, j \in LiveOf(r)' : i = j
                    /\ \A j \in JobsOf(r)' : \A n \in 0 .. j[2] :
                         state'[<<r, n>>] # "absent"
                         /\ (n < j[2] => state'[<<r, n>>] = "FAILED")
  BY DEF OneLivePerRequest
<1> DEFINE Added(i) == state[i] = "absent" /\ state'[i] # "absent"
<1>1. \A i, j \in LiveOf(r) : i = j
  BY DEF OneLivePerRequest
<1>2. \A j \in JobsOf(r) : \A n \in 0 .. j[2] :
        state[<<r, n>>] # "absent" /\ (n < j[2] => state[<<r, n>>] = "FAILED")
  BY DEF OneLivePerRequest
<1>3. ASSUME NEW i \in Jobs, i[1] = r, Added(i)
      PROVE  /\ LiveOf(r) = {}
             /\ \A n \in Nat : n < i[2] => state[<<r, n>>] # "absent"
             /\ \A k \in Jobs : k # i /\ state[k] = "absent" => state'[k] = "absent"
  <2>1. RowAppears(i)
    BY <1>3, RowsRemain
  <2>2. PICK a \in Askers : Insert(a) /\ Free(i) /\ i = <<wants[a], counted[a]>>
    BY <2>1, OnlyInsertAdds
  <2>3. wants[a] = r /\ counted[a] = i[2] /\ step[a] = "counted"
    BY <1>3, <2>2 DEF Insert
  <2>4. \A n \in Nat : n < i[2] => state[<<r, n>>] # "absent"
    BY <2>3 DEF Ordinals
  <2>5. \A k \in Jobs : k # i => state'[k] = state[k]
    BY <2>2 DEF Insert, TypeOK
  <2> QED BY <1>3, <2>2, <2>4, <2>5 DEF Free
<1>4. ASSUME NEW i \in LiveOf(r)'
      PROVE  i \in Jobs /\ i[1] = r /\ (Added(i) \/ i \in LiveOf(r))
  BY <1>4, RowsRemain DEF LiveOf, JobsOf
<1>5. ASSUME NEW i \in LiveOf(r)', NEW j \in LiveOf(r)' PROVE i = j
  <2>1. CASE Added(i) \/ Added(j)
    BY <1>3, <1>4, <1>5, <2>1
  <2>2. CASE ~Added(i) /\ ~Added(j)
    BY <1>1, <1>4, <1>5, <2>2
  <2> QED BY <2>1, <2>2
<1>6. ASSUME NEW j \in JobsOf(r)', NEW n \in 0 .. j[2]
      PROVE  state'[<<r, n>>] # "absent" /\ (n < j[2] => state'[<<r, n>>] = "FAILED")
  <2>1. j \in Jobs /\ j[1] = r /\ state'[j] # "absent" /\ j[2] \in 0 .. MaxOrdinal /\ j = <<r, j[2]>>
    BY <1>6, JobParts DEF JobsOf
  <2>2. n \in Nat /\ <<r, n>> \in Jobs /\ <<r, n>>[1] = r
    BY <2>1, JobParts, PreflightQueueAssumption
  <2>3. CASE j \in JobsOf(r)
    BY <1>2, <2>2, <2>3, RowsRemain
  <2>4. CASE j \notin JobsOf(r)
    <3>1. Added(j)
      BY <2>1, <2>4 DEF JobsOf
    <3>2. LiveOf(r) = {} /\ (n < j[2] => state[<<r, n>>] # "absent")
      BY <1>3, <2>1, <2>2, <3>1
    <3>3. CASE n = j[2]
      BY <2>1, <3>3
    <3>4. CASE n < j[2]
      <4>1. state[<<r, n>>] = "FAILED"
        BY <2>2, <3>2, <3>4 DEF LiveOf, JobsOf
      <4> QED BY <2>2, <4>1, RowsRemain
    <3> QED BY <2>1, <2>2, <3>3, <3>4
  <2> QED BY <2>3, <2>4
<1> QED BY <1>5, <1>6

LEMMA InitOrdinals == Init => OneLivePerRequest /\ Ordinals
BY DEF Init, OneLivePerRequest, Ordinals, LiveOf, JobsOf

\* However the statements of two enqueues and the job's own failure interleave,
\* a request has one live job, and its ordinals have no gap.
THEOREM OneLiveAlways == Spec => []OneLivePerRequest
BY InitTypes, TypeStep, InitLeases, LeasesStep, InitOrdinals, OrdinalsStep, OneLiveStep,
   PTL DEF Spec

-----------------------------------------------------------------------------
(* The refinement of JobLifecycle. *)

\* A job has been claimed no more often than its first ask, its requeues and
\* the faults explain, and one less while nobody holds it in time.
InHand(j) == state[j] = "CLAIMED" /\ ~lapsed[j] /\ Held(j)

Explained ==
    \A j \in Jobs :
        attempts[j] <= requeues[j] + faults
                       + (IF state[j] \in Ended \/ InHand(j) THEN 1 ELSE 0)

\* A claim that is held in time is lost without a report only to a fault.
LEMMA HeldUntilFault ==
    ASSUME TypeOK, Leases, [Next]_vars, NEW i \in Jobs, InHand(i), RowStays(i)
    PROVE  faults' = faults + 1 \/ InHand(i)'
<1> SUFFICES ASSUME faults' # faults + 1 PROVE InHand(i)'
  OBVIOUS
<1>0. PICK w \in Workers : job[w] = i /\ mine[w] = token[i]
  BY DEF InHand, Held
<1>1. Holds(w) /\ pc[w] \notin {"idle", "down"}
  BY <1>0, JobParts DEF InHand, Holds, TypeOK
<1>2. state'[i] = "CLAIMED" /\ token'[i] = token[i]
  BY DEF RowStays, InHand
<1>3. ASSUME job'[w] = job[w], mine'[w] = mine[w], ~lapsed'[i] PROVE InHand(i)'
  BY <1>0, <1>2, <1>3 DEF InHand, Held
<1> USE DEF TypeOK
<1>4. ASSUME NEW v \in Workers, NEW j \in Jobs, Claim(v, j) PROVE InHand(i)'
  <2>1. v # w /\ ~lapsed'[i]
    BY <1>1, <1>4 DEF Claim, InHand
  <2> QED BY <1>3, <1>4, <2>1 DEF Claim
<1>5. ASSUME NEW v \in Workers, (\E stops \in BOOLEAN : ReturnsFailed(v, stops)) \/ ReturnsDone(v),
             v # w, ~lapsed'[i]
      PROVE  InHand(i)'
  BY <1>3, <1>5 DEF ReturnsFailed, ReturnsDone
<1>6. ASSUME NEW v \in Workers, StandDown(v) PROVE InHand(i)'
  <2>1. v # w /\ ~lapsed'[i]
    BY <1>1, <1>6 DEF StandDown, rowVars, InHand
  <2> QED BY <1>5, <1>6, <2>1 DEF StandDown
<1>7. ASSUME NEW v \in Workers, Finalize(v) PROVE InHand(i)'
  <2>1. v # w \/ ~Holds(v)
    BY <1>0, <1>2, <1>7 DEF Finalize
  <2>2. v # w
    BY <1>1, <2>1
  <2>3. ~lapsed'[i]
    BY <1>7 DEF Finalize, InHand
  <2>4. ReturnsDone(v) \/ UNCHANGED <<job, mine>>
    BY <1>7 DEF Finalize, Failing
  <2> QED BY <1>3, <1>5, <2>2, <2>3, <2>4
<1>8. ASSUME NEW v \in Workers, Report(v) PROVE InHand(i)'
  <2>1. v # w
    BY <1>0, <1>1, <1>2, <1>8 DEF Report, FailJob, Requeue, Released
  <2>2. ~lapsed'[i]
    BY <1>8 DEF Report, FailJob, Requeue, Released, InHand
  <2>3. \E stops \in BOOLEAN : ReturnsFailed(v, stops)
    BY <1>8 DEF Report, FailJob, Requeue
  <2> QED BY <1>5, <2>1, <2>2, <2>3
<1>9. ASSUME NEW v \in Workers, StillOurs(v) \/ Beat(v) \/ Fail(v) \/ Restart(v) PROVE InHand(i)'
  <2>1. UNCHANGED <<job, mine>>
    BY <1>9 DEF StillOurs, Beat, Fail, Failing, Restart, workerVars
  <2>2. ~lapsed'[i]
    BY <1>9 DEF StillOurs, Beat, Fail, Restart, rowVars, InHand
  <2> QED BY <1>3, <2>1, <2>2
<1>10. ASSUME NEW j \in Jobs, RetryDue(j) \/ Lapse(j) PROVE InHand(i)'
  <2>1. UNCHANGED <<job, mine>>
    BY <1>10 DEF RetryDue, Lapse, workerVars
  <2>2. ~lapsed'[i]
    BY <1>10 DEF RetryDue, Lapse, InHand
  <2> QED BY <1>3, <2>1, <2>2
<1>11. ASSUME \/ \E a \in Askers : Look(a) \/ Count(a) \/ Insert(a)
              \/ UNCHANGED vars
       PROVE  InHand(i)'
  BY <1>3, <1>11 DEF Look, Count, Insert, rowVars, workerVars, vars, InHand
<1>12. ASSUME \/ \E v \in Workers : Die(v) \/ TakenForLost(v)
              \/ \E j \in Jobs : Stall(j)
       PROVE  FALSE
  BY <1>12 DEF Die, TakenForLost, Stall, Fault
<1> HIDE DEF TypeOK
<1> QED BY <1>4, <1>6, <1>7, <1>8, <1>9, <1>10, <1>11, <1>12 DEF Next

\* The claim just made is in hand.
LEMMA TakenIsInHand ==
    ASSUME TypeOK, Leases, [Next]_vars, NEW i \in Jobs, RowTaken(i)
    PROVE  InHand(i)'
<1>1. attempts'[i] = attempts[i] + 1 /\ attempts[i] \in Nat
  BY DEF RowTaken, TypeOK
<1>2. ASSUME UNCHANGED attempts PROVE FALSE
  BY <1>1, <1>2
<1>3. PICK w \in Workers, j \in Jobs : Claim(w, j)
  BY <1>2 DEF Next, Look, Count, Insert, StillOurs, Beat, StandDown, Fail, Finalize, Report,
     FailJob, Requeue, Released, Restart, Die, TakenForLost, RetryDue, Lapse, Stall, vars, rowVars
<1>4. i = j
  BY <1>1, <1>3 DEF Claim, TypeOK
<1>5. job'[w] = i /\ mine'[w] = attempts[i] + 1
  BY <1>3, <1>4 DEF Claim, TypeOK
<1> QED BY <1>5 DEF RowTaken, InHand, Held

LEMMA FaultsGrow ==
    ASSUME TypeOK, [Next]_vars
    PROVE  faults' \in Nat /\ faults \in Nat /\ faults <= faults' /\ faults' <= MaxFaults
<1>1. faults' \in 0 .. MaxFaults /\ faults \in 0 .. MaxFaults
  BY TypeStep DEF TypeOK
<1>2. faults' = faults \/ faults' = faults + 1
  BY DEF Next, Look, Count, Insert, Claim, StillOurs, Beat, StandDown, Fail, Finalize, Report,
     FailJob, Requeue, Released, Restart, Die, TakenForLost, RetryDue, Lapse, Stall, vars, Fault
<1> QED BY <1>1, <1>2, PreflightQueueAssumption

LEMMA ExplainedStep == TypeOK /\ Leases /\ Explained /\ [Next]_vars => Explained'
<1> SUFFICES ASSUME TypeOK, Leases, Explained, [Next]_vars, NEW j \in Jobs
             PROVE  attempts'[j] <= requeues'[j] + faults'
                       + (IF state'[j] \in Ended \/ InHand(j)' THEN 1 ELSE 0)
  BY DEF Explained
<1>1. /\ faults' \in Nat /\ faults \in Nat /\ faults <= faults'
      /\ attempts[j] \in Nat /\ requeues[j] \in Nat
  BY FaultsGrow DEF TypeOK
<1>2. attempts[j] <= requeues[j] + faults
                       + (IF state[j] \in Ended \/ InHand(j) THEN 1 ELSE 0)
  BY DEF Explained
<1>3. CASE RowStays(j)
  <2>1. UNCHANGED <<state[j], attempts[j], requeues[j]>>
    BY <1>3 DEF RowStays
  <2>2. CASE InHand(j)
    <3>1. state[j] \notin Ended
      BY <2>2 DEF InHand, Ended
    <3>2. faults' = faults + 1 \/ InHand(j)'
      BY <1>3, <2>2, HeldUntilFault
    <3>3. CASE InHand(j)'
      BY <1>1, <1>2, <2>1, <2>2, <3>3
    <3>4. CASE faults' = faults + 1
      BY <1>1, <1>2, <2>1, <2>2, <3>4
    <3> QED BY <3>2, <3>3, <3>4
  <2>3. CASE ~InHand(j)
    BY <1>1, <1>2, <2>1, <2>3
  <2> QED BY <2>2, <2>3
<1>4. CASE RowAppears(j) \/ RowRecycled(j)
  <2>1. ~InHand(j) /\ state[j] \notin Ended /\ UNCHANGED <<attempts[j], requeues[j]>>
    BY <1>4 DEF RowAppears, RowRecycled, Recycled, InHand, Ended
  <2> QED BY <1>1, <1>2, <2>1
<1>5. CASE RowTaken(j)
  <2>1. ~InHand(j) /\ state[j] \notin Ended
    BY <1>5 DEF RowTaken, Claimable, Recycled, InHand, Ended
  <2>2. attempts'[j] = attempts[j] + 1 /\ requeues'[j] = requeues[j] /\ InHand(j)'
    BY <1>5, TakenIsInHand DEF RowTaken
  <2> QED BY <1>1, <1>2, <2>1, <2>2
<1>6. CASE RowReported(j)
  <2>1. attempts'[j] = attempts[j] /\ attempts[j] <= requeues[j] + faults + 1
    BY <1>1, <1>2, <1>6 DEF RowReported
  <2>2. \/ state'[j] \in Ended /\ requeues'[j] \in {requeues[j]}
        \/ requeues'[j] = requeues[j] + 1
    BY <1>6 DEF RowReported, Ended
  <2> QED BY <1>1, <2>1, <2>2
<1> QED BY <1>3, <1>4, <1>5, <1>6, RowsStep

LEMMA InitExplained == Init => Explained
BY PreflightQueueAssumption DEF Init, Explained

\* The preflight queue implements JobLifecycle: one holder at a time, ends that
\* are final, and no more claims than first ask, requeues and faults explain.
THEOREM PreflightKeepsLifecycle == Spec => KeepsLifecycle
<1> DEFINE IInv == TypeOK /\ Leases /\ OutageGetsItsRetries /\ Explained
<1>1. Init => Lifecycle!Init
  BY DEF Init, Lifecycle!Init
<1>2. IInv /\ [Next]_vars => [Lifecycle!Next]_(Lifecycle!vars)
  <2> SUFFICES ASSUME IInv, [Next]_vars PROVE Lifecycle!Next
    OBVIOUS
  <2>1. TypeOK'
    BY TypeStep
  <2>2. ASSUME NEW j \in Jobs PROVE Lifecycle!JobNext(j)
    <3> USE DEF Lifecycle!JobNext, Lifecycle!Stays
    <3>0. attempts[j] \in Nat /\ requeues[j] \in Nat /\ faults \in Nat
      BY FaultsGrow DEF TypeOK
    <3>1. CASE RowStays(j)
      <4>1. state'[j] = state[j] /\ attempts'[j] = attempts[j]
        BY <3>1 DEF RowStays
      <4>2. Lifecycle!Unmoved(j)
        BY <4>1 DEF TypeOK, States, Lifecycle!Unmoved
      <4> QED BY <4>2
    <3>2. CASE RowAppears(j)
      BY <3>2 DEF RowAppears, Lifecycle!Submitted
    <3>3. CASE RowTaken(j)
      <4>1. attempts[j] < 1 + MaximumRequeues + MaxFaults
        <5>1. ~InHand(j) /\ state[j] \notin Ended
          BY <3>3 DEF RowTaken, Claimable, Recycled, InHand, Ended
        <5>2. attempts[j] <= requeues[j] + faults
          BY <3>0, <5>1 DEF Explained
        <5>3. requeues[j] <= MaximumRequeues /\ faults <= MaxFaults
          BY FaultsGrow DEF OutageGetsItsRetries, TypeOK
        <5> QED BY <3>0, <5>2, <5>3, PreflightQueueAssumption
      <4>2. state[j] \in {"PENDING", "CLAIMED"} /\ state'[j] = "CLAIMED"
        BY <3>3 DEF RowTaken, Claimable, Recycled
      <4>3. attempts'[j] = attempts[j] + 1
        BY <3>3 DEF RowTaken
      <4> QED BY <4>1, <4>2, <4>3 DEF Lifecycle!Taken
    <3>4. CASE RowRecycled(j)
      BY <3>4 DEF RowRecycled, Recycled, Lifecycle!Returned
    <3>5. CASE RowReported(j)
      <4>1. /\ state[j] = "CLAIMED" /\ attempts'[j] = attempts[j]
            /\ state'[j] \in {"PENDING", "COMPLETED", "FAILED"}
        BY <3>5 DEF RowReported, Holds
      <4> QED BY <4>1 DEF Lifecycle!Returned, Lifecycle!Reported, Lifecycle!Ends
    <3> QED BY <3>1, <3>2, <3>3, <3>4, <3>5, RowsStep
  <2> QED BY <2>1, <2>2 DEF TypeOK, States, Lifecycle!Next, Lifecycle!Phases, Lifecycle!Ends
<1>3. Init => IInv
  BY InitTypes, InitLeases, InitExplained
<1>4. IInv /\ [Next]_vars => IInv'
  BY TypeStep, LeasesStep, RetriesStep, ExplainedStep
<1> HIDE DEF IInv
<1> QED BY <1>1, <1>2, <1>3, <1>4, PTL DEF Spec, KeepsLifecycle, Lifecycle!Spec

=============================================================================
