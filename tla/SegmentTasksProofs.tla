------------------------- MODULE SegmentTasksProofs -------------------------
(***************************************************************************)
(* Proofs about SegmentTasks, for any tasks, workers, cards, floors,       *)
(* budgets, digests and attempts.                                          *)
(***************************************************************************)
EXTENDS SegmentTasks, FiniteSetTheorems, TLAPS

\* An attempt is the pair of its task and its number.
LEMMA AttemptParts ==
    /\ \A a \in Attempts : a[1] \in Tasks /\ a[2] \in Numbers /\ a = <<a[1], a[2]>>
    /\ \A t \in Tasks, n \in Numbers :
         <<t, n>> \in Attempts /\ <<t, n>>[1] = t /\ <<t, n>>[2] = n
BY DEF Attempts

\* A number of an attempt is not the number of none.
LEMMA NumbersAreCounted ==
    /\ \A n \in Numbers : n \in Nat /\ n # NoAttempt
    /\ NoAttempt \in Nat
BY SegmentTasksAssumption DEF Numbers, NoAttempt

-----------------------------------------------------------------------------
\* Who owns a task has it in hand, with the number of its attempt.
LEMMA OwnersHaveTasks ==
    ASSUME TypeOK, NEW w \in Workers, Owns(w)
    PROVE  task[w] \in Tasks /\ number[w] \in Numbers /\ Mine(w) \in Attempts /\ pc[w] # "idle"
<1> USE SegmentTasksAssumption
<1>1. task[w] \in Tasks /\ pc[w] # "idle"
  BY DEF Owns, TypeOK
<1>2. number[w] \in Numbers
  BY <1>1 DEF TypeOK
<1> QED BY <1>1, <1>2, AttemptParts DEF Mine

\* Leaving a task leaves a well-typed worker.
LEMMA LeavingTypes ==
    ASSUME TypeOK, NEW w \in Workers, LeaveTask(w)
    PROVE  /\ pc' \in [Workers -> Places]
           /\ task' \in [Workers -> Tasks \cup {NoTask}]
           /\ number' \in [Workers -> Numbers \cup {NoAttempt}]
           /\ grown' \in [Workers -> Digests \cup {NoDigest}]
           /\ \A v \in Workers : IF pc'[v] = "idle" THEN task'[v] = NoTask
                                 ELSE task'[v] \in Tasks /\ number'[v] \in Numbers
BY DEF TypeOK, LeaveTask, Places

\* So does going on to another place with the same task in hand.
LEMMA MovingTypes ==
    ASSUME TypeOK, NEW w \in Workers, NEW to \in Places \ {"idle"}, pc[w] # "idle",
           pc' = [pc EXCEPT ![w] = to], UNCHANGED <<task, number>>
    PROVE  /\ pc' \in [Workers -> Places]
           /\ task' \in [Workers -> Tasks \cup {NoTask}]
           /\ number' \in [Workers -> Numbers \cup {NoAttempt}]
           /\ \A v \in Workers : IF pc'[v] = "idle" THEN task'[v] = NoTask
                                 ELSE task'[v] \in Tasks /\ number'[v] \in Numbers
BY DEF TypeOK

\* The states an owner may write.
TaskStates    == {"PENDING"} \cup ActiveStates \cup Terminal
AttemptStates == {"none"} \cup ActiveStates \cup Terminal \cup Returned

\* A write of an owner keeps the two columns it writes.
LEMMA WriteTypes ==
    ASSUME TypeOK, NEW w \in Workers, NEW ts \in TaskStates, NEW as \in AttemptStates,
           Write(w, ts, as)
    PROVE  state' \in [Tasks -> TaskStates] /\ attempt' \in [Attempts -> AttemptStates]
BY DEF TypeOK, Write, TaskStates, AttemptStates

\* A transition keeps the types of everything but the artifact sets.
LEMMA TransitionTypes ==
    ASSUME TypeOK, NEW w \in Workers, NEW from \in Places \ {"idle"}, NEW st \in ActiveStates,
           NEW to \in Places \ {"idle"}, Transition(w, from, st, to),
           upload' \in [Attempts -> {"none", "UPLOADED", "PROMOTED", "DUPLICATE"}],
           UNCHANGED surface
    PROVE  TypeOK'
<1>1. state' \in [Tasks -> TaskStates] /\ attempt' \in [Attempts -> AttemptStates]
  BY WriteTypes DEF Transition, TaskStates, AttemptStates
<1>2. pc' = [pc EXCEPT ![w] = to] /\ pc[w] # "idle"
      /\ UNCHANGED <<active, token, lapsed, held, floor, latest, by, excused, task, number, grown>>
  BY DEF Transition
<1> QED BY <1>1, <1>2, MovingTypes DEF TypeOK, TaskStates, AttemptStates

\* The end of a task keeps the types of its row and its attempt.
LEMMA EndTypes ==
    ASSUME TypeOK, NEW w \in Workers, NEW st \in Terminal, Ends(w, st)
    PROVE  /\ state' \in [Tasks -> TaskStates] /\ attempt' \in [Attempts -> AttemptStates]
           /\ token' \in [Tasks -> Numbers \cup {NoAttempt}] /\ lapsed' \in [Tasks -> BOOLEAN]
           /\ UNCHANGED <<active, held, latest, by, floor>>
BY WriteTypes DEF TypeOK, Ends, TaskStates, AttemptStates

\* A refusal keeps the types.
LEMMA TerminalTypes ==
    ASSUME TypeOK, NEW w \in Workers, NEW st \in Terminal, NEW exact \in BOOLEAN,
           MarkTerminal(w, st, exact)
    PROVE  TypeOK'
<1>1. Ends(w, st) /\ LeaveTask(w) /\ UNCHANGED storeVars
      /\ excused' = [excused EXCEPT ![Mine(w)] = exact]
  BY DEF MarkTerminal
<1>2. excused' \in [Attempts -> BOOLEAN]
  BY <1>1 DEF TypeOK
<1> QED BY <1>1, <1>2, EndTypes, LeavingTypes DEF TypeOK, TaskStates, AttemptStates, storeVars

\* The return of a task to the queue keeps the types.
LEMMA ReturnTypes ==
    ASSUME TypeOK, NEW w \in Workers, NEW st \in Returned, Returns(w, st),
           held' \in [Tasks -> BOOLEAN], floor' \in [Tasks -> Nat]
    PROVE  TypeOK'
<1>1. /\ Write(w, "PENDING", st) /\ LeaveTask(w)
      /\ active' = [active EXCEPT ![task[w]] = NoAttempt]
      /\ token' = [token EXCEPT ![task[w]] = NoAttempt]
      /\ lapsed' = [lapsed EXCEPT ![task[w]] = FALSE]
      /\ UNCHANGED <<latest, by, excused, upload, surface>>
  BY DEF Returns, storeVars
<1>2. state' \in [Tasks -> TaskStates] /\ attempt' \in [Attempts -> AttemptStates]
  BY <1>1, WriteTypes DEF TaskStates, AttemptStates
<1>3. /\ active' \in [Tasks -> Numbers \cup {NoAttempt}]
      /\ token' \in [Tasks -> Numbers \cup {NoAttempt}]
      /\ lapsed' \in [Tasks -> BOOLEAN]
  BY <1>1 DEF TypeOK
<1> QED BY <1>1, <1>2, <1>3, LeavingTypes DEF TypeOK, TaskStates, AttemptStates

\* A requeue after an outage keeps the types.
LEMMA RequeueTypes ==
    ASSUME TypeOK, NEW w \in Workers, NEW st \in Returned, Requeue(w, st) PROVE TypeOK'
<1>1. Returns(w, st) /\ held' \in [Tasks -> BOOLEAN] /\ floor' \in [Tasks -> Nat]
  BY DEF Requeue, TypeOK
<1> QED BY <1>1, ReturnTypes

\* The transaction of finalize keeps the types of all it writes.
LEMMA RegisterTypes ==
    ASSUME TypeOK, NEW w \in Workers, Registers(w)
    PROVE  /\ state' \in [Tasks -> TaskStates] /\ attempt' \in [Attempts -> AttemptStates]
           /\ token' \in [Tasks -> Numbers \cup {NoAttempt}] /\ lapsed' \in [Tasks -> BOOLEAN]
           /\ upload' \in [Attempts -> {"none", "UPLOADED", "PROMOTED", "DUPLICATE"}]
           /\ surface' \in [Digests -> Tasks \cup {NoTask}]
           /\ UNCHANGED <<active, held, latest, by, floor, excused>>
<1>1. Outcome(grown[w]) \in Terminal
  BY DEF Outcome, Terminal, Outcomes
<1>2. Ends(w, Outcome(grown[w])) /\ Owns(w)
  BY DEF Registers, Ends, Write
<1>3. task[w] \in Tasks
  BY <1>2 DEF Owns
<1>4. upload' \in [Attempts -> {"none", "UPLOADED", "PROMOTED", "DUPLICATE"}]
  BY DEF Registers, TypeOK
<1>5. surface' \in [Digests -> Tasks \cup {NoTask}]
  BY <1>3 DEF Registers, TypeOK
<1>6. UNCHANGED excused
  BY DEF Registers
<1> QED BY <1>1, <1>2, <1>4, <1>5, <1>6, EndTypes

\* A claim keeps the types, with the tasks it expires and the one it takes.
LEMMA ClaimTypes ==
    ASSUME TypeOK, NEW w \in Workers, NEW locked \in SUBSET Tasks,
           ClaimNothing(w, locked) \/ \E t \in Tasks : Claim(w, t, locked)
    PROVE  TypeOK'
<1> USE AttemptParts, NumbersAreCounted
<1> DEFINE expired == Expired(locked)
<1>1. /\ Freed(state, expired, "PENDING") \in [Tasks -> TaskStates]
      /\ Freed(active, expired, NoAttempt) \in [Tasks -> Numbers \cup {NoAttempt}]
      /\ Freed(token, expired, NoAttempt) \in [Tasks -> Numbers \cup {NoAttempt}]
      /\ Freed(lapsed, expired, FALSE) \in [Tasks -> BOOLEAN]
      /\ \A a \in Attempts : AttemptExpired(a, expired) \in AttemptStates
  <2> HIDE DEF expired
  <2>1. Freed(state, expired, "PENDING") \in [Tasks -> TaskStates]
    BY DEF TypeOK, Freed, TaskStates
  <2>2. /\ Freed(active, expired, NoAttempt) \in [Tasks -> Numbers \cup {NoAttempt}]
        /\ Freed(token, expired, NoAttempt) \in [Tasks -> Numbers \cup {NoAttempt}]
        /\ Freed(lapsed, expired, FALSE) \in [Tasks -> BOOLEAN]
    BY DEF TypeOK, Freed
  <2>3. \A a \in Attempts : AttemptExpired(a, expired) \in AttemptStates
    BY DEF TypeOK, AttemptExpired, AttemptStates, Returned
  <2> QED BY <2>1, <2>2, <2>3
<1> HIDE DEF expired
<1>2. CASE ClaimNothing(w, locked)
  <2>1. /\ state' = Freed(state, expired, "PENDING")
        /\ active' = Freed(active, expired, NoAttempt)
        /\ token' = Freed(token, expired, NoAttempt)
        /\ lapsed' = Freed(lapsed, expired, FALSE)
        /\ attempt' = [a \in Attempts |-> AttemptExpired(a, expired)]
        /\ UNCHANGED <<held, floor, latest, by, excused, upload, surface, pc, task, number, grown>>
    BY <1>2 DEF ClaimNothing, storeVars, workerVars, expired
  <2>2. attempt' \in [Attempts -> AttemptStates]
    BY <1>1, <2>1
  <2> QED BY <1>1, <2>1, <2>2 DEF TypeOK, TaskStates, AttemptStates
<1>3. ASSUME NEW t \in Tasks, Claim(w, t, locked) PROVE TypeOK'
  <2> DEFINE n == latest[t] + 1
  <2>1. /\ n \in Numbers
        /\ state' = [Freed(state, expired, "PENDING") EXCEPT ![t] = "CLAIMED"]
        /\ active' = [Freed(active, expired, NoAttempt) EXCEPT ![t] = n]
        /\ token' = [Freed(token, expired, NoAttempt) EXCEPT ![t] = n]
        /\ lapsed' = Freed(lapsed, expired, FALSE)
        /\ latest' = [latest EXCEPT ![t] = n]
        /\ attempt' = [a \in Attempts |->
                         IF a = <<t, n>> THEN "CLAIMED" ELSE AttemptExpired(a, expired)]
        /\ by' = [by EXCEPT ![<<t, n>>] = w]
        /\ pc' = [pc EXCEPT ![w] = "claimed"]
        /\ task' = [task EXCEPT ![w] = t]
        /\ number' = [number EXCEPT ![w] = n]
        /\ UNCHANGED <<held, floor, excused, upload, surface, grown>>
    BY <1>3 DEF Claim, storeVars, expired
  <2> HIDE DEF n
  <2>2. "CLAIMED" \in TaskStates /\ "CLAIMED" \in AttemptStates
    BY DEF TaskStates, AttemptStates, ActiveStates
  <2>3. state' \in [Tasks -> TaskStates] /\ attempt' \in [Attempts -> AttemptStates]
    BY <1>1, <2>1, <2>2
  <2>4. /\ active' \in [Tasks -> Numbers \cup {NoAttempt}]
        /\ token' \in [Tasks -> Numbers \cup {NoAttempt}]
        /\ lapsed' \in [Tasks -> BOOLEAN]
        /\ latest' \in [Tasks -> Numbers \cup {NoAttempt}]
        /\ by' \in [Attempts -> Workers]
    BY <1>1, <2>1 DEF TypeOK
  <2>5. /\ pc' \in [Workers -> Places]
        /\ task' \in [Workers -> Tasks \cup {NoTask}]
        /\ number' \in [Workers -> Numbers \cup {NoAttempt}]
        /\ \A v \in Workers : IF pc'[v] = "idle" THEN task'[v] = NoTask
                              ELSE task'[v] \in Tasks /\ number'[v] \in Numbers
    BY <1>3, <2>1 DEF TypeOK, Places
  <2> QED BY <2>1, <2>3, <2>4, <2>5 DEF TypeOK, TaskStates, AttemptStates
<1> QED BY <1>2, <1>3

\* Every step of a worker's run keeps the types.
LEMMA RunTypes == ASSUME TypeOK, NEW w \in Workers, WorkerStep(w) PROVE TypeOK'
<1>1. ASSUME NEW locked \in SUBSET Tasks,
             ClaimNothing(w, locked) \/ \E t \in Tasks : Claim(w, t, locked)
      PROVE  TypeOK'
  BY <1>1, ClaimTypes
<1>2. CASE Heartbeat(w) \/ Outage(w) \/ \E d \in Digests : Grow(w, d)
  <2>1. CASE Heartbeat(w)
    BY <2>1 DEF Heartbeat, TypeOK, attemptVars, storeVars, workerVars
  <2>2. CASE Outage(w)
    <3>1. /\ pc' = [pc EXCEPT ![w] = "excusing"] /\ pc[w] # "idle" /\ "excusing" \in Places \ {"idle"}
          /\ UNCHANGED <<taskVars, attemptVars, storeVars, task, number, grown>>
      BY <2>2 DEF Outage, Publishing, Places
    <3> QED BY <3>1, MovingTypes DEF TypeOK, taskVars, attemptVars, storeVars
  <2>3. ASSUME NEW d \in Digests, Grow(w, d) PROVE TypeOK'
    <3>1. /\ pc' = [pc EXCEPT ![w] = "grown"] /\ pc[w] # "idle" /\ "grown" \in Places \ {"idle"}
          /\ grown' = [grown EXCEPT ![w] = d]
          /\ UNCHANGED <<taskVars, attemptVars, storeVars, task, number>>
      BY <2>3 DEF Grow, Places
    <3> QED BY <3>1, MovingTypes DEF TypeOK, taskVars, attemptVars, storeVars
  <2> QED BY <1>2, <2>1, <2>2, <2>3
<1>3. CASE StartPlanning(w) \/ LockPlan(w) \/ StartGrowing(w) \/ StartFinalizing(w) \/ Upload(w)
  <2>1. /\ {"PLANNING", "LOCKED_READY", "RUNNING", "FINALIZING", "UPLOADED"} \subseteq ActiveStates
        /\ {"claimed", "planning", "locked", "growing", "grown", "uploaded", "finalizing"}
             \subseteq Places \ {"idle"}
    BY DEF ActiveStates, Places
  <2>2. upload' \in [Attempts -> {"none", "UPLOADED", "PROMOTED", "DUPLICATE"}] /\ UNCHANGED surface
    BY <1>3 DEF StartPlanning, LockPlan, StartGrowing, StartFinalizing, Upload, storeVars, TypeOK
  <2> QED BY <1>3, <2>1, <2>2, TransitionTypes
          DEF StartPlanning, LockPlan, StartGrowing, StartFinalizing, Upload
<1>4. CASE RefuseClaim(w) \/ PlanningEnds(w) \/ GrowFails(w) \/ FinalizationFails(w)
  <2>1. Refusals \subseteq Terminal
    BY DEF Terminal
  <2> QED BY <1>4, <2>1, TerminalTypes
          DEF RefuseClaim, PlanningEnds, GrowFails, FinalizationFails, Refusals
<1>5. CASE SourceUnavailable(w) \/ ProviderUnavailable(w)
  BY <1>5, RequeueTypes DEF SourceUnavailable, ProviderUnavailable, Returned
<1>6. CASE LargerGpu(w)
  <2>1. NextFloor(w) \in Nat
    BY SegmentTasksAssumption DEF NextFloor
  <2>2. held' \in [Tasks -> BOOLEAN] /\ floor' \in [Tasks -> Nat]
    BY <1>6, <2>1 DEF LargerGpu, TypeOK
  <2> QED BY <1>6, <2>2, ReturnTypes DEF LargerGpu, Returned
<1>7. CASE Finalize(w)
  BY <1>7, RegisterTypes, LeavingTypes DEF Finalize, TypeOK, TaskStates, AttemptStates
<1>8. CASE FinalizeUnheard(w)
  <2>1. /\ Registers(w) /\ pc' = [pc EXCEPT ![w] = "excusing"] /\ UNCHANGED <<task, number, grown>>
        /\ pc[w] # "idle" /\ "excusing" \in Places \ {"idle"}
    BY <1>8 DEF FinalizeUnheard, Registers, Places
  <2> QED BY <2>1, RegisterTypes, MovingTypes DEF TypeOK, TaskStates, AttemptStates
<1>9. CASE ExcuseFinalization(w)
  <2>1. CASE Requeue(w, "RETRYABLE_FINALIZATION_UNAVAILABLE")
    BY <2>1, RequeueTypes DEF Returned
  <2>2. CASE /\ Ends(w, "FINALIZATION_FAILED") /\ LeaveTask(w)
             /\ UNCHANGED <<excused, storeVars>>
    <3>1. "FINALIZATION_FAILED" \in Terminal
      BY DEF Terminal, Refusals
    <3> QED BY <2>2, <3>1, EndTypes, LeavingTypes
            DEF TypeOK, TaskStates, AttemptStates, storeVars
  <2> QED BY <1>9, <2>1, <2>2 DEF ExcuseFinalization
<1>10. CASE Abandon(w)
  BY <1>10, LeavingTypes DEF Abandon, TypeOK, taskVars, attemptVars, storeVars
<1> QED BY <1>1, <1>2, <1>3, <1>4, <1>5, <1>6, <1>7, <1>8, <1>9, <1>10 DEF WorkerStep

\* The initial rows are typed.
LEMMA InitTypes == Init => TypeOK
BY SegmentTasksAssumption DEF Init, TypeOK, Places

\* Every step keeps the types.
LEMMA StepTypes == TypeOK /\ [Next]_vars => TypeOK'
<1> SUFFICES ASSUME TypeOK, [Next]_vars PROVE TypeOK'
  OBVIOUS
<1>1. ASSUME NEW w \in Workers, WorkerStep(w) PROVE TypeOK'
  BY <1>1, RunTypes
<1>2. ASSUME NEW t \in Tasks, Lapse(t) \/ RetryDue(t) PROVE TypeOK'
  BY <1>2 DEF Lapse, RetryDue, TypeOK, attemptVars, storeVars, workerVars
<1>3. ASSUME NEW a \in Attempts, Recover(a) PROVE TypeOK'
  BY <1>3 DEF Recover, TypeOK, Returned, storeVars, workerVars
<1>4. CASE UNCHANGED vars
  BY <1>4 DEF vars, taskVars, attemptVars, storeVars, workerVars, TypeOK
<1> QED BY <1>1, <1>2, <1>3, <1>4 DEF Next

\* Every row, attempt and worker keeps its type through every claim, write,
\* requeue, recovery and crash.
THEOREM TypeCorrect == Spec => []TypeOK
<1>1. Init => TypeOK
  BY InitTypes
<1>2. TypeOK /\ [Next]_vars => TypeOK'
  BY StepTypes
<1> QED BY <1>1, <1>2, PTL DEF Spec

-----------------------------------------------------------------------------
(* The inductive invariant. *)

\* A row has a token exactly while it is active, the one of its attempt, and
\* no attempt exactly while it is pending.
Rows ==
    \A t \in Tasks :
        /\ state[t] = "PENDING" <=> active[t] = NoAttempt
        /\ token[t] = IF state[t] \in ActiveStates THEN active[t] ELSE NoAttempt

\* What a worker has in hand was handed to it, late or not.
Bearers ==
    \A w \in Workers : pc[w] # "idle" => number[w] <= latest[task[w]] /\ by[Mine(w)] = w

IInv == TypeOK /\ Rows /\ AttemptsMirrorTask /\ Bearers

\* The kinds of state are apart.
LEMMA StatesApart ==
    /\ ActiveStates \cap Terminal = {} /\ ActiveStates \cap Returned = {}
    /\ Terminal \cap Returned = {}
    /\ {"PENDING", "none"} \cap (ActiveStates \cup Terminal \cup Returned) = {}
BY DEF ActiveStates, Terminal, Outcomes, Refusals, Returned

\* Only the owner of an active task passes _assert_owner, and the attempt it
\* names is the task's latest, in the task's state.
LEMMA OwnersRow ==
    ASSUME IInv, NEW w \in Workers, Owns(w)
    PROVE  /\ task[w] \in Tasks /\ number[w] \in Numbers /\ Mine(w) \in Attempts
           /\ Mine(w) = <<task[w], number[w]>> /\ pc[w] # "idle"
           /\ state[task[w]] \in ActiveStates
           /\ active[task[w]] = number[w] /\ latest[task[w]] = number[w]
           /\ attempt[Mine(w)] = state[task[w]]
<1>1. task[w] \in Tasks /\ number[w] \in Numbers /\ Mine(w) \in Attempts /\ pc[w] # "idle"
  BY OwnersHaveTasks DEF IInv
<1>2. active[task[w]] = number[w] /\ token[task[w]] = number[w]
  BY DEF Owns
<1>3. state[task[w]] \in ActiveStates
  BY <1>1, <1>2, NumbersAreCounted DEF IInv, Rows
<1> QED BY <1>1, <1>2, <1>3 DEF IInv, AttemptsMirrorTask, Mine

\* What one write of an owner does to the row and the attempt.
WritesAs(w, ts, as) ==
    /\ Write(w, ts, as)
    /\ \/ ts = as /\ ts \in ActiveStates \cup Terminal
       \/ ts = "PENDING" /\ as \in Returned
    /\ active' = [active EXCEPT ![task[w]] = IF ts = "PENDING" THEN NoAttempt ELSE @]
    /\ token' = [token EXCEPT ![task[w]] = IF ts \in ActiveStates THEN @ ELSE NoAttempt]
    /\ UNCHANGED <<latest, by>>

\* No worker has anything new in hand.
NothingTaken ==
    \A v \in Workers : pc'[v] # "idle" =>
        pc[v] # "idle" /\ task'[v] = task[v] /\ number'[v] = number[v]

\* How a holder gives an attempt back.
GivenBack == Returned \ {"LEASE_EXPIRED", "RECOVERED"}

\* No result but that of the attempt w has in hand is written.
OthersExcused(w) == \A a \in Attempts \ {Mine(w)} : excused'[a] = excused[a]

Still == UNCHANGED <<state, active, token, floor, latest, attempt, by, excused, upload, surface>>

\* A step of a worker is a claim, leaves the rows alone, or is one write of an
\* owner: a transition, an upload, a refusal, a registration or a return.
Kinds(w) ==
    \/ Still
    \/ \E st \in ActiveStates :
         /\ WritesAs(w, st, st) /\ UNCHANGED <<floor, excused, surface>>
         /\ upload' = upload \/ upload' = [upload EXCEPT ![Mine(w)] = "UPLOADED"]
    \/ \E st \in Refusals :
         WritesAs(w, st, st) /\ UNCHANGED <<floor, upload, surface>> /\ OthersExcused(w)
    \/ \E st \in Outcomes :
         WritesAs(w, st, st) /\ Registers(w) /\ st = Outcome(grown[w]) /\ UNCHANGED floor
    \/ \E st \in GivenBack :
         /\ WritesAs(w, "PENDING", st) /\ UNCHANGED <<excused, upload, surface>>
         /\ st = "RETRYABLE_FINALIZATION_UNAVAILABLE" => WithinBudget(task[w])
         /\ IF st = "RETRY_ON_LARGER_GPU"
            THEN floor' = [floor EXCEPT ![task[w]] = IF @ > NextFloor(w) THEN @ ELSE NextFloor(w)]
            ELSE floor' = floor

ClaimStep(w, locked) == ClaimNothing(w, locked) \/ \E t \in Tasks : Claim(w, t, locked)

\* Leaving a task, or going on with it, takes nothing.
LEMMA TakesNothing ==
    ASSUME TypeOK, NEW w \in Workers, NEW to \in Places \ {"idle"},
           \/ LeaveTask(w)
           \/ pc[w] # "idle" /\ pc' = [pc EXCEPT ![w] = to] /\ UNCHANGED <<task, number>>
    PROVE  NothingTaken
BY DEF TypeOK, LeaveTask, NothingTaken

\* A transition writes an active state.
LEMMA TransitionKind ==
    ASSUME TypeOK, NEW w \in Workers, NEW from \in Places \ {"idle"}, NEW st \in ActiveStates,
           NEW to \in Places \ {"idle"}, Transition(w, from, st, to)
    PROVE  WritesAs(w, st, st) /\ NothingTaken /\ UNCHANGED <<floor, excused>>
<1>1. Write(w, st, st) /\ UNCHANGED <<active, token, latest, by, floor, excused>>
  BY DEF Transition
<1>2. st # "PENDING"
  BY StatesApart
<1>3. WritesAs(w, st, st)
  BY <1>1, <1>2 DEF WritesAs, TypeOK
<1>4. NothingTaken
  BY TakesNothing DEF Transition
<1> QED BY <1>1, <1>3, <1>4

\* A terminal write writes the end and takes the token.
LEMMA EndKind ==
    ASSUME TypeOK, NEW w \in Workers, NEW st \in Terminal, Ends(w, st)
    PROVE  WritesAs(w, st, st) /\ UNCHANGED floor
<1>1. /\ Write(w, st, st) /\ UNCHANGED <<active, latest, by, floor>>
      /\ token' = [token EXCEPT ![task[w]] = NoAttempt]
  BY DEF Ends
<1>2. st # "PENDING" /\ st \notin ActiveStates
  BY StatesApart
<1> QED BY <1>1, <1>2 DEF WritesAs, TypeOK

\* A refusal is an end that registers nothing.
LEMMA RefusalKind ==
    ASSUME TypeOK, NEW w \in Workers, NEW st \in Refusals, NEW exact \in BOOLEAN,
           MarkTerminal(w, st, exact)
    PROVE  /\ WritesAs(w, st, st) /\ NothingTaken /\ UNCHANGED <<floor, upload, surface>>
           /\ OthersExcused(w)
<1>1. st \in Terminal /\ Ends(w, st) /\ LeaveTask(w) /\ UNCHANGED <<upload, surface>>
  BY DEF MarkTerminal, storeVars, Terminal
<1>3. OthersExcused(w)
  BY DEF MarkTerminal, TypeOK, OthersExcused
<1>2. "claimed" \in Places \ {"idle"}
  BY DEF Places
<1> QED BY <1>1, <1>2, <1>3, EndKind, TakesNothing

\* A return writes a pending row and a finished attempt.
LEMMA ReturnKind ==
    ASSUME TypeOK, NEW w \in Workers, NEW st \in Returned, Returns(w, st)
    PROVE  WritesAs(w, "PENDING", st) /\ NothingTaken /\ UNCHANGED <<excused, upload, surface>>
<1>1. /\ Write(w, "PENDING", st) /\ LeaveTask(w)
      /\ active' = [active EXCEPT ![task[w]] = NoAttempt]
      /\ token' = [token EXCEPT ![task[w]] = NoAttempt]
      /\ UNCHANGED <<latest, by, excused, upload, surface>>
  BY DEF Returns, storeVars
<1>2. "PENDING" \notin ActiveStates /\ "claimed" \in Places \ {"idle"}
  BY StatesApart DEF Places
<1> QED BY <1>1, <1>2, TakesNothing DEF WritesAs

\* Every step of a worker that is not a claim is of one of the kinds.
LEMMA WorkerKinds ==
    ASSUME TypeOK, NEW w \in Workers, WorkerStep(w)
    PROVE  \/ \E locked \in SUBSET Tasks : ClaimStep(w, locked)
           \/ Kinds(w) /\ NothingTaken
<1>1. CASE \E locked \in SUBSET Tasks :
             ClaimNothing(w, locked) \/ \E t \in Tasks : Claim(w, t, locked)
  BY <1>1 DEF ClaimStep
<1>2. CASE Heartbeat(w) \/ Outage(w) \/ Abandon(w) \/ \E d \in Digests : Grow(w, d)
  <2>1. Still
    BY <1>2 DEF Heartbeat, Outage, Abandon, Grow, Still, taskVars, attemptVars, storeVars
  <2>2. /\ {"excusing", "grown"} \subseteq Places \ {"idle"}
        /\ Publishing \subseteq Places \ {"idle"}
    BY DEF Places, Publishing
  <2>3. NothingTaken
    <3>1. CASE Heartbeat(w)
      BY <3>1 DEF Heartbeat, NothingTaken, workerVars
    <3>2. CASE Outage(w)
      BY <3>2, <2>2, TakesNothing DEF Outage
    <3>3. CASE Abandon(w)
      BY <3>3, <2>2, TakesNothing DEF Abandon
    <3>4. CASE \E d \in Digests : Grow(w, d)
      BY <3>4, <2>2, TakesNothing DEF Grow
    <3> QED BY <1>2, <3>1, <3>2, <3>3, <3>4
  <2> QED BY <2>1, <2>3 DEF Kinds
<1>3. CASE StartPlanning(w) \/ LockPlan(w) \/ StartGrowing(w) \/ StartFinalizing(w) \/ Upload(w)
  <2>1. /\ {"PLANNING", "LOCKED_READY", "RUNNING", "FINALIZING", "UPLOADED"} \subseteq ActiveStates
        /\ {"claimed", "planning", "locked", "growing", "grown", "uploaded", "finalizing"}
             \subseteq Places \ {"idle"}
    BY DEF ActiveStates, Places
  <2>2. /\ upload' = upload \/ upload' = [upload EXCEPT ![Mine(w)] = "UPLOADED"]
        /\ UNCHANGED surface
    BY <1>3 DEF StartPlanning, LockPlan, StartGrowing, StartFinalizing, Upload, storeVars
  <2>3. PICK st \in ActiveStates : WritesAs(w, st, st) /\ NothingTaken /\ UNCHANGED <<floor, excused>>
    BY <1>3, <2>1, TransitionKind
       DEF StartPlanning, LockPlan, StartGrowing, StartFinalizing, Upload
  <2> QED BY <2>2, <2>3 DEF Kinds
<1>4. CASE RefuseClaim(w) \/ PlanningEnds(w) \/ GrowFails(w) \/ FinalizationFails(w)
  <2>1. PICK st \in Refusals, exact \in BOOLEAN : MarkTerminal(w, st, exact)
    BY <1>4 DEF RefuseClaim, PlanningEnds, GrowFails, FinalizationFails, Refusals
  <2> QED BY <2>1, RefusalKind DEF Kinds
<1>5. CASE SourceUnavailable(w) \/ ProviderUnavailable(w)
  <2>1. PICK st \in {"RETRYABLE_SOURCE_UNAVAILABLE", "RETRYABLE_PROVIDER_UNAVAILABLE"} :
          Returns(w, st) /\ UNCHANGED floor
    BY <1>5 DEF SourceUnavailable, ProviderUnavailable, Requeue
  <2>2. st \in Returned /\ st \in GivenBack
    BY DEF Returned, GivenBack
  <2>3. WritesAs(w, "PENDING", st) /\ NothingTaken /\ UNCHANGED <<excused, upload, surface>>
    BY <2>1, <2>2, ReturnKind
  <2> QED BY <2>1, <2>2, <2>3 DEF Kinds
<1>6. CASE LargerGpu(w)
  <2> DEFINE st == "RETRY_ON_LARGER_GPU"
  <2>1. st \in Returned /\ st \in GivenBack /\ st # "RETRYABLE_FINALIZATION_UNAVAILABLE"
    BY DEF Returned, GivenBack
  <2>2. WritesAs(w, "PENDING", st) /\ NothingTaken /\ UNCHANGED <<excused, upload, surface>>
    BY <1>6, <2>1, ReturnKind DEF LargerGpu
  <2>3. floor' = [floor EXCEPT ![task[w]] = IF @ > NextFloor(w) THEN @ ELSE NextFloor(w)]
    BY <1>6 DEF LargerGpu
  <2> QED BY <2>1, <2>2, <2>3 DEF Kinds
<1>7. CASE Finalize(w) \/ FinalizeUnheard(w)
  <2>1. Registers(w) /\ Ends(w, Outcome(grown[w])) /\ Outcome(grown[w]) \in Outcomes
    BY <1>7 DEF Finalize, FinalizeUnheard, Registers, Outcome, Outcomes
  <2>2. "excusing" \in Places \ {"idle"} /\ pc[w] # "idle" /\ Outcomes \subseteq Terminal
    BY <2>1 DEF Places, Registers, Terminal
  <2>3. NothingTaken
    BY <1>7, <2>2, TakesNothing DEF Finalize, FinalizeUnheard
  <2>4. WritesAs(w, Outcome(grown[w]), Outcome(grown[w])) /\ UNCHANGED floor
    BY <2>1, <2>2, EndKind
  <2> QED BY <2>1, <2>3, <2>4 DEF Kinds
<1>8. CASE ExcuseFinalization(w)
  <2>1. CASE WithinBudget(task[w])
    <3>1. Returns(w, "RETRYABLE_FINALIZATION_UNAVAILABLE") /\ UNCHANGED floor
      BY <1>8, <2>1 DEF ExcuseFinalization, Requeue
    <3>2. /\ "RETRYABLE_FINALIZATION_UNAVAILABLE" \in Returned
          /\ "RETRYABLE_FINALIZATION_UNAVAILABLE" \in GivenBack
      BY DEF Returned, GivenBack
    <3>3. /\ WritesAs(w, "PENDING", "RETRYABLE_FINALIZATION_UNAVAILABLE") /\ NothingTaken
          /\ UNCHANGED <<excused, upload, surface>>
      BY <3>1, <3>2, ReturnKind
    <3> QED BY <2>1, <3>1, <3>2, <3>3 DEF Kinds
  <2>2. CASE ~WithinBudget(task[w])
    <3>1. /\ Ends(w, "FINALIZATION_FAILED") /\ LeaveTask(w) /\ UNCHANGED <<upload, surface>>
          /\ OthersExcused(w)
      BY <1>8, <2>2 DEF ExcuseFinalization, storeVars, OthersExcused
    <3>2. /\ "FINALIZATION_FAILED" \in Refusals /\ Refusals \subseteq Terminal
          /\ "claimed" \in Places \ {"idle"}
      BY DEF Refusals, Terminal, Places
    <3> QED BY <3>1, <3>2, EndKind, TakesNothing DEF Kinds
  <2> QED BY <2>1, <2>2
<1> QED BY <1>1, <1>2, <1>3, <1>4, <1>5, <1>6, <1>7, <1>8 DEF WorkerStep

-----------------------------------------------------------------------------
\* One attempt of AttemptsMirrorTask.
Mirrors(t, n) ==
    /\ n = active[t] => n = latest[t] /\ attempt[<<t, n>>] = state[t]
    /\ n # active[t] /\ n <= latest[t] => attempt[<<t, n>>] \in Returned
    /\ n > latest[t] => attempt[<<t, n>>] = "none"

\* A write of an owner keeps the two tables in step.
LEMMA WriteKeepsRows ==
    ASSUME IInv, NEW w \in Workers, NEW ts, NEW as, WritesAs(w, ts, as)
    PROVE  Rows' /\ AttemptsMirrorTask'
<1> USE NumbersAreCounted
<1>1. Owns(w)
  BY DEF WritesAs, Write
<1>2. /\ task[w] \in Tasks /\ number[w] \in Numbers /\ latest[task[w]] = number[w]
      /\ active[task[w]] = number[w] /\ token[task[w]] = number[w]
      /\ Mine(w) = <<task[w], number[w]>> /\ Mine(w) \in Attempts
  BY <1>1, OwnersRow DEF Owns
<1>3. latest' = latest
  BY DEF WritesAs
<1>4. \A t \in Tasks \ {task[w]} : /\ state'[t] = state[t] /\ active'[t] = active[t]
                                    /\ token'[t] = token[t]
  BY DEF WritesAs, Write, IInv, TypeOK
<1>5. \A n \in Numbers, t \in Tasks :
        <<t, n>> # Mine(w) => attempt'[<<t, n>>] = attempt[<<t, n>>]
  BY AttemptParts DEF WritesAs, Write, IInv, TypeOK
<1>6. \/ /\ state'[task[w]] \in ActiveStates /\ attempt'[Mine(w)] = state'[task[w]]
         /\ active'[task[w]] = number[w] /\ token'[task[w]] = number[w]
      \/ /\ state'[task[w]] \in Terminal /\ attempt'[Mine(w)] = state'[task[w]]
         /\ active'[task[w]] = number[w] /\ token'[task[w]] = NoAttempt
      \/ /\ state'[task[w]] = "PENDING" /\ attempt'[Mine(w)] \in Returned
         /\ active'[task[w]] = NoAttempt /\ token'[task[w]] = NoAttempt
  <2>1. /\ state'[task[w]] = ts /\ attempt'[Mine(w)] = as
        /\ active'[task[w]] = IF ts = "PENDING" THEN NoAttempt ELSE number[w]
        /\ token'[task[w]] = IF ts \in ActiveStates THEN number[w] ELSE NoAttempt
    BY <1>2 DEF WritesAs, Write, IInv, TypeOK
  <2>2. CASE ts = as /\ ts \in ActiveStates
    <3>1. ts # "PENDING"
      BY <2>2, StatesApart
    <3>2. active'[task[w]] = number[w] /\ token'[task[w]] = number[w]
      BY <2>1, <2>2, <3>1
    <3> QED BY <2>1, <2>2, <3>2
  <2>3. CASE ts = as /\ ts \in Terminal
    <3>1. ts # "PENDING" /\ ts \notin ActiveStates
      BY <2>3, StatesApart
    <3>2. active'[task[w]] = number[w] /\ token'[task[w]] = NoAttempt
      BY <2>1, <3>1
    <3> QED BY <2>1, <2>3, <3>2
  <2>4. CASE ts = "PENDING" /\ as \in Returned
    BY <2>1, <2>4, StatesApart
  <2> QED BY <2>2, <2>3, <2>4 DEF WritesAs
<1>7. Rows'
  BY <1>2, <1>4, <1>6, StatesApart DEF IInv, Rows
<1>8. AttemptsMirrorTask'
  <2> SUFFICES ASSUME NEW t \in Tasks, NEW n \in Numbers
               PROVE  Mirrors(t, n)'
    BY DEF AttemptsMirrorTask, Mirrors
  <2>1. Mirrors(t, n)
    BY DEF IInv, AttemptsMirrorTask, Mirrors
  <2>2. CASE t = task[w] /\ n = number[w]
    BY <1>2, <1>3, <1>6, <2>2 DEF Mirrors
  <2>3. CASE t = task[w] /\ n # number[w]
    <3>1. attempt'[<<t, n>>] = attempt[<<t, n>>]
      BY <1>2, <1>5, <2>3
    <3> QED BY <1>2, <1>3, <1>6, <2>1, <2>3, <3>1 DEF Mirrors
  <2>4. CASE t # task[w]
    <3>1. attempt'[<<t, n>>] = attempt[<<t, n>>]
      BY <1>2, <1>5, <2>4
    <3> QED BY <1>3, <1>4, <2>1, <2>4, <3>1 DEF Mirrors
  <2> QED BY <2>2, <2>3, <2>4
<1> QED BY <1>7, <1>8

\* What a step takes nothing of, its bearers keep.
LEMMA BearersKept ==
    ASSUME IInv, NothingTaken, UNCHANGED <<latest, by>> PROVE Bearers'
BY DEF IInv, Bearers, NothingTaken, Mine, TypeOK

\* The rows a claim's expiry leaves behind, before it takes one.
LEMMA ExpiryEffect ==
    ASSUME IInv, NEW locked \in SUBSET Tasks
    PROVE  /\ \A t \in Expired(locked) : t \in Tasks /\ state[t] \in ActiveStates
           /\ \A t \in Tasks \ Expired(locked), n \in Numbers :
                AttemptExpired(<<t, n>>, Expired(locked)) = attempt[<<t, n>>]
           /\ \A t \in Expired(locked), n \in Numbers :
                /\ n <= latest[t] => AttemptExpired(<<t, n>>, Expired(locked)) \in Returned
                /\ n > latest[t] => AttemptExpired(<<t, n>>, Expired(locked)) = "none"
<1>1. \A t \in Expired(locked) : t \in Tasks /\ state[t] \in ActiveStates
  BY DEF Expired
<1>2. \A t \in Tasks, n \in Numbers :
        AttemptExpired(<<t, n>>, Expired(locked)) =
            IF t \in Expired(locked) /\ active[t] = n THEN "LEASE_EXPIRED" ELSE attempt[<<t, n>>]
  BY AttemptParts DEF AttemptExpired
<1>3. ASSUME NEW t \in Expired(locked), NEW n \in Numbers
      PROVE  /\ n <= latest[t] => AttemptExpired(<<t, n>>, Expired(locked)) \in Returned
             /\ n > latest[t] => AttemptExpired(<<t, n>>, Expired(locked)) = "none"
  <2>1. Mirrors(t, n) /\ n \in Nat /\ latest[t] \in Nat
    BY <1>1, NumbersAreCounted DEF IInv, TypeOK, AttemptsMirrorTask, Mirrors
  <2>2. CASE active[t] = n
    BY <1>1, <1>2, <2>1, <2>2 DEF Returned, Mirrors
  <2>3. CASE active[t] # n
    BY <1>1, <1>2, <2>1, <2>3 DEF Mirrors
  <2> QED BY <2>2, <2>3
<1> QED BY <1>1, <1>2, <1>3

\* A claim that finds nothing keeps the two tables in step.
LEMMA ClaimNothingKeeps ==
    ASSUME IInv, NEW w \in Workers, NEW locked \in SUBSET Tasks, ClaimNothing(w, locked)
    PROVE  Rows' /\ AttemptsMirrorTask' /\ Bearers'
<1> DEFINE E == Expired(locked)
<1>1. /\ state' = Freed(state, E, "PENDING") /\ active' = Freed(active, E, NoAttempt)
      /\ token' = Freed(token, E, NoAttempt)
      /\ attempt' = [a \in Attempts |-> AttemptExpired(a, E)]
      /\ UNCHANGED <<latest, by, pc, task, number>>
  BY DEF ClaimNothing, workerVars
<1>2. \A t \in Tasks :
        IF t \in E THEN state'[t] = "PENDING" /\ active'[t] = NoAttempt /\ token'[t] = NoAttempt
        ELSE state'[t] = state[t] /\ active'[t] = active[t] /\ token'[t] = token[t]
  BY <1>1 DEF Freed
<1>3. \A t \in Tasks, n \in Numbers : attempt'[<<t, n>>] = AttemptExpired(<<t, n>>, E)
  BY <1>1, AttemptParts
<1>4. Rows'
  BY <1>2, StatesApart DEF IInv, Rows
<1>5. AttemptsMirrorTask'
  <2> SUFFICES ASSUME NEW t \in Tasks, NEW n \in Numbers
               PROVE  Mirrors(t, n)'
    BY DEF AttemptsMirrorTask, Mirrors
  <2>1. CASE t \in E
    BY <1>1, <1>2, <1>3, <2>1, ExpiryEffect, NumbersAreCounted DEF Mirrors
  <2>2. CASE t \notin E
    <3>1. Mirrors(t, n)
      BY DEF IInv, AttemptsMirrorTask, Mirrors
    <3>2. attempt'[<<t, n>>] = attempt[<<t, n>>]
      BY <1>3, <2>2, ExpiryEffect
    <3> QED BY <1>1, <1>2, <2>2, <3>1, <3>2 DEF Mirrors
  <2> QED BY <2>1, <2>2
<1>6. Bearers'
  BY <1>1, BearersKept DEF NothingTaken
<1> QED BY <1>4, <1>5, <1>6

\* A claim opens an attempt nobody has in hand, after the latest.
LEMMA ClaimKeeps ==
    ASSUME IInv, NEW w \in Workers, NEW locked \in SUBSET Tasks, NEW t \in Tasks,
           Claim(w, t, locked)
    PROVE  Rows' /\ AttemptsMirrorTask' /\ Bearers'
<1> DEFINE E == Expired(locked)
           n == latest[t] + 1
<1>1. /\ n \in Numbers /\ (state[t] = "PENDING" \/ t \in E)
      /\ state' = [Freed(state, E, "PENDING") EXCEPT ![t] = "CLAIMED"]
      /\ active' = [Freed(active, E, NoAttempt) EXCEPT ![t] = n]
      /\ token' = [Freed(token, E, NoAttempt) EXCEPT ![t] = n]
      /\ latest' = [latest EXCEPT ![t] = n]
      /\ attempt' = [a \in Attempts |-> IF a = <<t, n>> THEN "CLAIMED" ELSE AttemptExpired(a, E)]
      /\ by' = [by EXCEPT ![<<t, n>>] = w]
      /\ pc' = [pc EXCEPT ![w] = "claimed"]
      /\ task' = [task EXCEPT ![w] = t]
      /\ number' = [number EXCEPT ![w] = n]
  BY DEF Claim
<1>2. latest[t] \in Nat /\ n > latest[t] /\ \A m \in Numbers : m \in Nat
  BY NumbersAreCounted DEF IInv, TypeOK
<1>3. \A u \in Tasks :
        /\ u = t => state'[u] = "CLAIMED" /\ active'[u] = n /\ token'[u] = n /\ latest'[u] = n
        /\ u # t => /\ latest'[u] = latest[u]
                    /\ IF u \in E THEN /\ state'[u] = "PENDING" /\ active'[u] = NoAttempt
                                       /\ token'[u] = NoAttempt
                       ELSE state'[u] = state[u] /\ active'[u] = active[u] /\ token'[u] = token[u]
  BY <1>1 DEF Freed, IInv, TypeOK
<1>4. /\ attempt'[<<t, n>>] = "CLAIMED"
      /\ \A u \in Tasks, m \in Numbers :
           u # t \/ m # n => attempt'[<<u, m>>] = AttemptExpired(<<u, m>>, E)
  <2> HIDE DEF n, E
  <2> QED BY <1>1, AttemptParts
<1>5. "CLAIMED" \in ActiveStates /\ "CLAIMED" # "PENDING"
  BY DEF ActiveStates
<1>6. Rows'
  <2> HIDE DEF n, E
  <2> QED BY <1>1, <1>3, <1>5, StatesApart, NumbersAreCounted DEF IInv, Rows
<1>7. AttemptsMirrorTask'
  <2> SUFFICES ASSUME NEW u \in Tasks, NEW m \in Numbers
               PROVE  Mirrors(u, m)'
    BY DEF AttemptsMirrorTask, Mirrors
  <2>1. Mirrors(u, m)
    BY DEF IInv, AttemptsMirrorTask, Mirrors
  <2>2. CASE u = t /\ m = n
    BY <1>2, <1>3, <1>4, <2>2 DEF Mirrors
  <2>3. CASE u = t /\ m # n
    <3>1. attempt'[<<u, m>>] = AttemptExpired(<<u, m>>, E)
      BY <1>4, <2>3
    <3>2. /\ m <= latest[t] => AttemptExpired(<<u, m>>, E) \in Returned
          /\ m > latest[t] => AttemptExpired(<<u, m>>, E) = "none"
      <4>1. CASE t \in E
        BY <2>3, <4>1, ExpiryEffect
      <4>2. CASE t \notin E
        <5>1. m # active[u]
          BY <1>1, <2>3, <4>2, NumbersAreCounted DEF IInv, Rows
        <5> QED BY <2>1, <2>3, <4>2, <5>1, ExpiryEffect DEF Mirrors
      <4> QED BY <4>1, <4>2
    <3>3. latest'[u] = latest[t] + 1 /\ active'[u] = latest[t] + 1
      BY <1>3, <2>3
    <3>4. m # latest[t] + 1
      BY <2>3
    <3> HIDE DEF n
    <3> QED BY <1>2, <2>3, <3>1, <3>2, <3>3, <3>4 DEF Mirrors
  <2>4. CASE u # t
    <3> HIDE DEF n
    <3>1. attempt'[<<u, m>>] = AttemptExpired(<<u, m>>, E)
      BY <1>4, <2>4
    <3>2. CASE u \in E
      BY <1>3, <2>4, <3>1, <3>2, ExpiryEffect, NumbersAreCounted DEF Mirrors
    <3>3. CASE u \notin E
      BY <1>3, <2>1, <2>4, <3>1, <3>3, ExpiryEffect DEF Mirrors
    <3> QED BY <3>2, <3>3
  <2> QED BY <2>2, <2>3, <2>4
<1>8. Bearers'
  <2> SUFFICES ASSUME NEW v \in Workers, pc'[v] # "idle"
               PROVE  number'[v] <= latest'[task'[v]] /\ by'[<<task'[v], number'[v]>>] = v
    BY DEF Bearers, Mine
  <2>1. CASE v = w
    <3>1. task'[v] = t /\ number'[v] = n
      BY <1>1, <2>1 DEF IInv, TypeOK
    <3>2. by'[<<t, n>>] = w
      BY <1>1, AttemptParts DEF IInv, TypeOK
    <3> QED BY <1>2, <1>3, <2>1, <3>1, <3>2
  <2>2. CASE v # w
    <3>1. task'[v] = task[v] /\ number'[v] = number[v] /\ pc[v] # "idle"
      BY <1>1, <2>2 DEF IInv, TypeOK
    <3>2. task[v] \in Tasks /\ number[v] \in Numbers
      BY <3>1 DEF IInv, TypeOK
    <3>3. number[v] <= latest[task[v]] /\ by[<<task[v], number[v]>>] = v
      BY <3>1 DEF IInv, Bearers, Mine
    <3>4. <<task[v], number[v]>> # <<t, n>>
      BY <1>2, <3>2, <3>3
    <3>5. by'[<<task[v], number[v]>>] = v
      BY <1>1, <3>2, <3>3, <3>4, AttemptParts DEF IInv, TypeOK
    <3>6. number[v] <= latest'[task[v]]
      BY <1>2, <1>3, <3>2, <3>3
    <3> QED BY <3>1, <3>5, <3>6
  <2> QED BY <2>1, <2>2
<1> QED BY <1>6, <1>7, <1>8

\* What an operator recovers is the latest attempt of a task that ended.
LEMMA RecoveredRow ==
    ASSUME IInv, NEW a \in Attempts, Recover(a)
    PROVE  /\ a[1] \in Tasks /\ a[2] \in Numbers /\ a = <<a[1], a[2]>>
           /\ state[a[1]] \in Recoverable /\ Recoverable \subseteq Terminal
           /\ active[a[1]] = a[2] /\ latest[a[1]] = a[2] /\ excused[a]
<1>1. a[1] \in Tasks /\ a[2] \in Numbers /\ a = <<a[1], a[2]>>
  BY AttemptParts
<1>2. state[a[1]] \in Recoverable /\ attempt[a] = state[a[1]] /\ excused[a]
  BY DEF Recover, Exact
<1>3. Recoverable \subseteq Terminal
  BY DEF Recoverable, Terminal, Refusals
<1>4. attempt[a] \notin Returned /\ attempt[a] # "none"
  BY <1>2, <1>3, StatesApart
<1>5. Mirrors(a[1], a[2]) /\ a[2] \in Nat /\ latest[a[1]] \in Nat
  BY <1>1, NumbersAreCounted DEF IInv, TypeOK, AttemptsMirrorTask, Mirrors
<1>6. a[2] = active[a[1]] /\ a[2] = latest[a[1]]
  BY <1>1, <1>4, <1>5 DEF Mirrors
<1> QED BY <1>1, <1>2, <1>3, <1>6

\* A recovery keeps the two tables in step.
LEMMA RecoverKeeps ==
    ASSUME IInv, NEW a \in Attempts, Recover(a)
    PROVE  Rows' /\ AttemptsMirrorTask' /\ Bearers'
<1>1. /\ state' = [state EXCEPT ![a[1]] = "PENDING"]
      /\ active' = [active EXCEPT ![a[1]] = NoAttempt]
      /\ token' = [token EXCEPT ![a[1]] = NoAttempt]
      /\ attempt' = [attempt EXCEPT ![a] = "RECOVERED"]
      /\ UNCHANGED <<latest, by, pc, task, number>>
  BY DEF Recover, workerVars
<1>2. Rows'
  BY <1>1, RecoveredRow, StatesApart DEF IInv, Rows, TypeOK
<1>3. AttemptsMirrorTask'
  <2> SUFFICES ASSUME NEW t \in Tasks, NEW n \in Numbers
               PROVE  Mirrors(t, n)'
    BY DEF AttemptsMirrorTask, Mirrors
  <2>1. Mirrors(t, n)
    BY DEF IInv, AttemptsMirrorTask, Mirrors
  <2>2. <<t, n>> \in Attempts
    BY AttemptParts
  <2>3. CASE <<t, n>> = a
    <3>1. t = a[1] /\ n = a[2]
      BY <2>3, AttemptParts
    <3>2. attempt'[<<t, n>>] \in Returned /\ active'[t] = NoAttempt /\ n <= latest'[t]
      BY <1>1, <2>3, <3>1, RecoveredRow, NumbersAreCounted DEF Returned, IInv, TypeOK
    <3> QED BY <1>1, <2>3, <3>1, <3>2, RecoveredRow, NumbersAreCounted DEF Mirrors
  <2>4. CASE <<t, n>> # a /\ t = a[1]
    <3>1. attempt'[<<t, n>>] = attempt[<<t, n>>] /\ active'[t] = NoAttempt
      BY <1>1, <2>2, <2>4 DEF IInv, TypeOK
    <3>2. n # active[t]
      BY <2>4, RecoveredRow
    <3> QED BY <1>1, <2>1, <3>1, <3>2, NumbersAreCounted DEF Mirrors
  <2>5. CASE t # a[1]
    <3>1. attempt'[<<t, n>>] = attempt[<<t, n>>] /\ active'[t] = active[t] /\ state'[t] = state[t]
      BY <1>1, <2>2, <2>5, AttemptParts DEF IInv, TypeOK
    <3> QED BY <1>1, <2>1, <3>1 DEF Mirrors
  <2> QED BY <2>3, <2>4, <2>5
<1>4. Bearers'
  BY <1>1, BearersKept DEF NothingTaken
<1> QED BY <1>2, <1>3, <1>4

\* A step is a claim, a worker's step of one of the kinds, a recovery, or
\* leaves the rows alone.
LEMMA NextKinds ==
    ASSUME TypeOK, [Next]_vars
    PROVE  \/ \E w \in Workers, locked \in SUBSET Tasks : ClaimStep(w, locked)
           \/ \E w \in Workers : Kinds(w) /\ NothingTaken
           \/ \E a \in Attempts : Recover(a)
           \/ Still /\ NothingTaken
<1>1. ASSUME NEW w \in Workers, WorkerStep(w)
      PROVE  \/ \E locked \in SUBSET Tasks : ClaimStep(w, locked)
             \/ Kinds(w) /\ NothingTaken
  BY <1>1, WorkerKinds
<1>2. ASSUME NEW t \in Tasks, Lapse(t) \/ RetryDue(t) PROVE Still /\ NothingTaken
  BY <1>2 DEF Lapse, RetryDue, Still, NothingTaken, attemptVars, storeVars, workerVars
<1>3. CASE UNCHANGED vars
  BY <1>3 DEF vars, taskVars, attemptVars, storeVars, workerVars, Still, NothingTaken
<1> QED BY <1>1, <1>2, <1>3 DEF Next

\* The inductive invariant holds at the start and is kept by every step.
LEMMA InitIInv == Init => IInv
<1> SUFFICES ASSUME Init PROVE IInv
  OBVIOUS
<1>1. Rows
  BY StatesApart DEF Init, Rows
<1>2. AttemptsMirrorTask
  <2> SUFFICES ASSUME NEW t \in Tasks, NEW n \in Numbers
               PROVE  Mirrors(t, n)
    BY DEF AttemptsMirrorTask, Mirrors
  <2>1. <<t, n>> \in Attempts /\ n \in Nat /\ n # 0 /\ n >= 0
    BY AttemptParts, NumbersAreCounted DEF NoAttempt
  <2>2. active[t] = 0 /\ latest[t] = 0 /\ attempt[<<t, n>>] = "none"
    BY <2>1 DEF Init, NoAttempt
  <2> QED BY <2>1, <2>2 DEF Mirrors
<1>3. Bearers
  BY DEF Init, Bearers
<1> QED BY <1>1, <1>2, <1>3, InitTypes DEF IInv

\* Every step of the system, and a stutter, preserves the inductive invariant.
LEMMA StepIInv == IInv /\ [Next]_vars => IInv'
<1> SUFFICES ASSUME IInv, [Next]_vars PROVE IInv'
  OBVIOUS
<1>1. TypeOK'
  BY StepTypes DEF IInv
<1>2. ASSUME NEW w \in Workers, NEW locked \in SUBSET Tasks, ClaimStep(w, locked)
      PROVE  Rows' /\ AttemptsMirrorTask' /\ Bearers'
  BY <1>2, ClaimNothingKeeps, ClaimKeeps DEF ClaimStep
<1>3. CASE Still /\ NothingTaken
  <2>1. Rows' /\ AttemptsMirrorTask'
    BY <1>3 DEF Still, IInv, Rows, AttemptsMirrorTask
  <2> QED BY <1>1, <1>3, <2>1, BearersKept DEF Still, IInv
<1>4. ASSUME NEW w \in Workers, NEW ts, NEW as, WritesAs(w, ts, as), NothingTaken
      PROVE  Rows' /\ AttemptsMirrorTask' /\ Bearers'
  BY <1>4, WriteKeepsRows, BearersKept DEF WritesAs
<1>5. ASSUME NEW w \in Workers, Kinds(w) /\ NothingTaken
      PROVE  Rows' /\ AttemptsMirrorTask' /\ Bearers'
  BY <1>3, <1>4, <1>5 DEF Kinds, IInv
<1>6. ASSUME NEW a \in Attempts, Recover(a) PROVE Rows' /\ AttemptsMirrorTask' /\ Bearers'
  BY <1>6, RecoverKeeps
<1>7. TypeOK
  BY DEF IInv
<1> QED BY <1>1, <1>2, <1>3, <1>5, <1>6, <1>7, NextKinds DEF IInv

\* The two tables agree, whatever expires, is written late, requeued or
\* recovered.
THEOREM AttemptsAlwaysMirrorTask == Spec => []AttemptsMirrorTask
<1>1. Init => IInv
  BY InitIInv
<1>2. IInv /\ [Next]_vars => IInv'
  BY StepIInv
<1>3. IInv => AttemptsMirrorTask
  BY DEF IInv
<1> QED BY <1>1, <1>2, <1>3, PTL DEF Spec

\* What every later invariant starts from.
LEMMA AlwaysIInv == Spec => []IInv
<1>1. Init => IInv
  BY InitIInv
<1>2. IInv /\ [Next]_vars => IInv'
  BY StepIInv
<1> QED BY <1>1, <1>2, PTL DEF Spec

-----------------------------------------------------------------------------
(* What follows from it. *)

\* The states a step may change: those of active rows, by their owner or an
\* expiry; of pending rows, by a claim; and of recoverable ends, by a recovery.
LEMMA EndsChange ==
    ASSUME IInv, [Next]_vars, NEW t \in Tasks, state[t] \in Terminal, state'[t] # state[t]
    PROVE  \E a \in Attempts : Recover(a) /\ a[1] = t
<1>1. ASSUME NEW w \in Workers, NEW locked \in SUBSET Tasks, ClaimStep(w, locked) PROVE FALSE
  <2>1. t \notin Expired(locked) /\ state[t] # "PENDING"
    BY StatesApart DEF Expired
  <2>2. CASE ClaimNothing(w, locked)
    BY <2>1, <2>2 DEF ClaimNothing, Freed
  <2>3. ASSUME NEW u \in Tasks, Claim(w, u, locked) PROVE FALSE
    <3>1. /\ state' = [Freed(state, Expired(locked), "PENDING") EXCEPT ![u] = "CLAIMED"]
          /\ state[u] = "PENDING" \/ u \in Expired(locked)
      BY <2>3 DEF Claim
    <3>2. u # t
      BY <2>1, <3>1
    <3> QED BY <2>1, <3>1, <3>2 DEF Freed
  <2> QED BY <1>1, <2>2, <2>3 DEF ClaimStep
<1>2. ASSUME NEW w \in Workers, NEW ts, NEW as, WritesAs(w, ts, as) PROVE FALSE
  <2>1. Owns(w) /\ state' = [state EXCEPT ![task[w]] = ts]
    BY <1>2 DEF WritesAs, Write
  <2>2. task[w] # t
    BY <2>1, OwnersRow, StatesApart
  <2> QED BY <2>1, <2>2 DEF IInv, TypeOK
<1>3. ASSUME NEW w \in Workers, Kinds(w) PROVE FALSE
  BY <1>2, <1>3 DEF Kinds, Still
<1>4. ASSUME NEW a \in Attempts, Recover(a) PROVE a[1] = t
  BY <1>4 DEF Recover, IInv, TypeOK
<1> QED BY <1>1, <1>3, <1>4, NextKinds DEF IInv, Still

\* A task that ended is reopened only by a recovery whose exact outage its last
\* attempt recorded; a task with a surface never is.
THEOREM EndsAreAlwaysFinal == Spec => EndsAreFinal
<1> DEFINE Reopened ==
      \A t \in Tasks : state[t] \in Terminal /\ state'[t] # state[t] =>
         /\ state[t] \in Recoverable
         /\ state'[t] = "PENDING"
         /\ excused[<<t, latest[t]>>]
<1>1. IInv /\ [Next]_vars => [Reopened]_vars
  <2> SUFFICES ASSUME IInv, [Next]_vars, NEW t \in Tasks,
                      state[t] \in Terminal, state'[t] # state[t]
               PROVE  /\ state[t] \in Recoverable
                      /\ state'[t] = "PENDING"
                      /\ excused[<<t, latest[t]>>]
    OBVIOUS
  <2>1. PICK a \in Attempts : Recover(a) /\ a[1] = t
    BY EndsChange
  <2>2. state[t] \in Recoverable /\ excused[a] /\ a = <<t, latest[t]>>
    BY <2>1, RecoveredRow
  <2>3. state'[t] = "PENDING"
    BY <2>1 DEF Recover, IInv, TypeOK
  <2> QED BY <2>2, <2>3
<1> HIDE DEF Reopened
<1>2. Spec => [][Reopened]_vars
  BY <1>1, AlwaysIInv, PTL DEF Spec
<1> QED BY <1>2 DEF EndsAreFinal, Reopened

-----------------------------------------------------------------------------
\* An attempt that is returned in some way was returned before, or is so by
\* this step: the write of its owner, an expiry, or a recovery.
LEMMA AttemptsChange ==
    ASSUME IInv, [Next]_vars, NEW a \in Attempts, attempt'[a] # attempt[a]
    PROVE  \/ attempt'[a] \in {"CLAIMED", "LEASE_EXPIRED", "RECOVERED"}
           \/ \E w \in Workers : /\ Owns(w) /\ a = Mine(w) /\ Kinds(w)
                                 /\ \E ts \in TaskStates : WritesAs(w, ts, attempt'[a])
<1>1. ASSUME NEW w \in Workers, NEW locked \in SUBSET Tasks, ClaimStep(w, locked)
      PROVE  attempt'[a] \in {"CLAIMED", "LEASE_EXPIRED"}
  BY <1>1 DEF ClaimStep, ClaimNothing, Claim, AttemptExpired
<1>2. ASSUME NEW w \in Workers, NEW ts \in TaskStates, NEW as, WritesAs(w, ts, as), Kinds(w)
      PROVE  \E v \in Workers : /\ Owns(v) /\ a = Mine(v) /\ Kinds(v)
                                /\ \E us \in TaskStates : WritesAs(v, us, attempt'[a])
  <2>1. Owns(w) /\ attempt' = [attempt EXCEPT ![Mine(w)] = as]
    BY <1>2 DEF WritesAs, Write
  <2>2. a = Mine(w) /\ attempt'[a] = as
    BY <2>1, OwnersRow DEF IInv, TypeOK
  <2> QED BY <1>2, <2>1, <2>2
<1>3. ASSUME NEW w \in Workers, Kinds(w)
      PROVE  \E v \in Workers : /\ Owns(v) /\ a = Mine(v) /\ Kinds(v)
                                /\ \E us \in TaskStates : WritesAs(v, us, attempt'[a])
  <2>1. ~Still
    BY DEF Still
  <2>2. PICK ts \in TaskStates, as \in AttemptStates : WritesAs(w, ts, as)
    BY <1>3, <2>1 DEF Kinds, TaskStates, AttemptStates, Terminal, GivenBack
  <2> QED BY <1>2, <1>3, <2>2
<1>4. ASSUME NEW b \in Attempts, Recover(b) PROVE attempt'[a] = "RECOVERED"
  BY <1>4 DEF Recover, IInv, TypeOK
<1> QED BY <1>1, <1>3, <1>4, NextKinds DEF IInv, Still

\* An attempt returned to a larger card, or after an outage of publishing, was
\* so before or is made so by its owner.
LEMMA RequeuedBy ==
    ASSUME IInv, [Next]_vars, NEW a \in Attempts, attempt'[a] # attempt[a],
           attempt'[a] \in {"RETRY_ON_LARGER_GPU", "RETRYABLE_FINALIZATION_UNAVAILABLE"}
    PROVE  \E w \in Workers :
              /\ Owns(w) /\ a = Mine(w) /\ WritesAs(w, "PENDING", attempt'[a])
              /\ attempt'[a] = "RETRYABLE_FINALIZATION_UNAVAILABLE" =>
                   WithinBudget(task[w]) /\ floor' = floor
              /\ attempt'[a] = "RETRY_ON_LARGER_GPU" =>
                   floor' = [floor EXCEPT ![task[w]] =
                               IF @ > NextFloor(w) THEN @ ELSE NextFloor(w)]
<1>1. PICK w \in Workers : /\ Owns(w) /\ a = Mine(w) /\ Kinds(w)
                           /\ \E ts \in TaskStates : WritesAs(w, ts, attempt'[a])
  BY AttemptsChange
<1>2. ASSUME NEW ts, NEW as, WritesAs(w, ts, as) PROVE as = attempt'[a]
  <2>1. attempt' = [attempt EXCEPT ![Mine(w)] = as]
    BY <1>2 DEF WritesAs, Write
  <2> QED BY <1>1, <2>1 DEF IInv, TypeOK
<1>3. attempt'[a] \notin ActiveStates \cup Outcomes \cup Refusals
  BY DEF ActiveStates, Outcomes, Refusals
<1>4. ~Still
  BY DEF Still
<1>5. PICK st \in GivenBack :
         /\ WritesAs(w, "PENDING", st)
         /\ st = "RETRYABLE_FINALIZATION_UNAVAILABLE" => WithinBudget(task[w])
         /\ IF st = "RETRY_ON_LARGER_GPU"
            THEN floor' = [floor EXCEPT ![task[w]] = IF @ > NextFloor(w) THEN @ ELSE NextFloor(w)]
            ELSE floor' = floor
  BY <1>1, <1>2, <1>3, <1>4 DEF Kinds
<1>6. st = attempt'[a]
  BY <1>2, <1>5
<1> QED BY <1>1, <1>5, <1>6

\* Floors never sink.
LEMMA FloorsRise ==
    ASSUME IInv, [Next]_vars, NEW t \in Tasks
    PROVE  floor'[t] >= floor[t] /\ floor[t] \in Nat /\ floor'[t] \in Nat
<1>1. floor \in [Tasks -> Nat] /\ floor' \in [Tasks -> Nat]
  BY StepTypes DEF IInv, TypeOK
<1>2. ASSUME NEW w \in Workers,
             floor' = [floor EXCEPT ![task[w]] = IF @ > NextFloor(w) THEN @ ELSE NextFloor(w)]
      PROVE  floor'[t] >= floor[t]
  <2>1. NextFloor(w) \in Nat
    BY SegmentTasksAssumption DEF NextFloor
  <2> QED BY <1>1, <1>2, <2>1
<1>3. \/ floor' = floor
      \/ \E w \in Workers : floor' = [floor EXCEPT ![task[w]] =
                                        IF @ > NextFloor(w) THEN @ ELSE NextFloor(w)]
  <2>1. ASSUME NEW w \in Workers, NEW locked \in SUBSET Tasks, ClaimStep(w, locked)
        PROVE  floor' = floor
    BY <2>1 DEF ClaimStep, ClaimNothing, Claim
  <2>2. ASSUME NEW w \in Workers, Kinds(w)
        PROVE  \/ floor' = floor
               \/ floor' = [floor EXCEPT ![task[w]] = IF @ > NextFloor(w) THEN @ ELSE NextFloor(w)]
    BY <2>2 DEF Kinds, Still
  <2>3. ASSUME NEW a \in Attempts, Recover(a) PROVE floor' = floor
    BY <2>3 DEF Recover
  <2>4. Still => floor' = floor
    BY DEF Still
  <2> QED BY <2>1, <2>2, <2>3, <2>4, NextKinds DEF IInv
<1> QED BY <1>1, <1>2, <1>3

\* Who was handed an attempt that exists does not change.
LEMMA HandedOnce ==
    ASSUME IInv, [Next]_vars, NEW a \in Attempts, attempt[a] # "none"
    PROVE  by'[a] = by[a]
<1>1. ASSUME NEW w \in Workers, NEW locked \in SUBSET Tasks, NEW t \in Tasks, Claim(w, t, locked)
      PROVE  by'[a] = by[a]
  <2> DEFINE n == latest[t] + 1
  <2>1. n \in Numbers /\ by' = [by EXCEPT ![<<t, n>>] = w]
    BY <1>1 DEF Claim
  <2>2. latest[t] \in Nat /\ n > latest[t]
    BY NumbersAreCounted DEF IInv, TypeOK
  <2>3. attempt[<<t, n>>] = "none"
    BY <2>1, <2>2 DEF IInv, AttemptsMirrorTask
  <2>4. a # <<t, n>>
    BY <2>3
  <2> HIDE DEF n
  <2> QED BY <2>1, <2>4 DEF IInv, TypeOK
<1>2. ASSUME NEW w \in Workers, Kinds(w) PROVE by' = by
  BY <1>2 DEF Kinds, Still, WritesAs
<1> QED BY <1>1, <1>2, NextKinds DEF IInv, ClaimStep, ClaimNothing, Recover, Still

\* A worker too small for a task stays too small for it.
THEOREM OutgrownStaysOutgrown == Spec => []OutgrownForGood
<1>1. Init => OutgrownForGood
  BY DEF Init, OutgrownForGood
<1>2. IInv /\ OutgrownForGood /\ [Next]_vars => OutgrownForGood'
  <2> SUFFICES ASSUME IInv, OutgrownForGood, [Next]_vars, NEW a \in Attempts,
                      attempt'[a] = "RETRY_ON_LARGER_GPU"
               PROVE  Vram[by'[a]] < floor'[a[1]]
    BY DEF OutgrownForGood
  <2>1. a[1] \in Tasks /\ floor'[a[1]] >= floor[a[1]] /\ floor[a[1]] \in Nat /\ floor'[a[1]] \in Nat
    BY AttemptParts, FloorsRise
  <2>2. CASE attempt'[a] = attempt[a]
    <3>1. Vram[by[a]] < floor[a[1]] /\ by'[a] = by[a]
      BY <2>2, HandedOnce DEF OutgrownForGood
    <3>2. Vram[by[a]] \in Nat
      BY SegmentTasksAssumption DEF IInv, TypeOK
    <3> QED BY <2>1, <3>1, <3>2
  <2>3. CASE attempt'[a] # attempt[a]
    <3>1. PICK w \in Workers :
            /\ Owns(w) /\ a = Mine(w) /\ WritesAs(w, "PENDING", attempt'[a])
            /\ floor' = [floor EXCEPT ![task[w]] = IF @ > NextFloor(w) THEN @ ELSE NextFloor(w)]
      BY <2>3, RequeuedBy
    <3>2. task[w] \in Tasks /\ a[1] = task[w] /\ pc[w] # "idle"
      BY <3>1, OwnersRow, AttemptParts
    <3>3. by'[a] = w
      BY <3>1, <3>2 DEF IInv, Bearers, WritesAs
    <3>4. Vram[w] \in Nat /\ NextFloor(w) \in Nat /\ Vram[w] < NextFloor(w)
      BY SegmentTasksAssumption DEF NextFloor
    <3>5. floor'[task[w]] >= NextFloor(w)
      BY <2>1, <3>1, <3>2, <3>4 DEF IInv, TypeOK
    <3> QED BY <2>1, <3>2, <3>3, <3>4, <3>5
  <2> QED BY <2>2, <2>3
<1> QED BY <1>1, <1>2, AlwaysIInv, PTL DEF Spec

-----------------------------------------------------------------------------
\* The attempts a task lost to outages of publishing are finitely many.
Retried(t) == {n \in Numbers : attempt[<<t, n>>] = "RETRYABLE_FINALIZATION_UNAVAILABLE"}

\* A task's retries are the cardinality of a finite set, so a number.
LEMMA RetriesAreCounted ==
    ASSUME NEW t
    PROVE  /\ IsFiniteSet(Retried(t)) /\ FinalizationRetries(t) = Cardinality(Retried(t))
           /\ FinalizationRetries(t) \in Nat
<1>1. IsFiniteSet(Numbers)
  BY FS_Interval, SegmentTasksAssumption DEF Numbers
<1>2. IsFiniteSet(Retried(t))
  BY <1>1, FS_Subset DEF Retried
<1> QED BY <1>2, FS_CardinalityType DEF FinalizationRetries, Retried

\* Outages of publishing return a task at most Budget times, whoever had it.
THEOREM RetriesStayWithinBudget == Spec => []RetriesWithinBudget
<1>1. Init => RetriesWithinBudget
  <2> SUFFICES ASSUME Init, NEW t \in Tasks PROVE FinalizationRetries(t) <= Budget
    BY DEF RetriesWithinBudget
  <2>1. Retried(t) = {}
    BY AttemptParts DEF Init, Retried
  <2> QED BY <2>1, RetriesAreCounted, FS_EmptySet, SegmentTasksAssumption
<1>2. IInv /\ RetriesWithinBudget /\ [Next]_vars => RetriesWithinBudget'
  <2> SUFFICES ASSUME IInv, RetriesWithinBudget, [Next]_vars, NEW t \in Tasks
               PROVE  FinalizationRetries(t)' <= Budget
    BY DEF RetriesWithinBudget
  <2> USE SegmentTasksAssumption
  <2>1. /\ IsFiniteSet(Retried(t)) /\ FinalizationRetries(t) = Cardinality(Retried(t))
        /\ FinalizationRetries(t) \in Nat
    BY RetriesAreCounted
  <2>2. IsFiniteSet(Retried(t)') /\ FinalizationRetries(t)' = Cardinality(Retried(t)')
    <3>1. IsFiniteSet(Numbers)
      BY FS_Interval DEF Numbers
    <3> QED BY <3>1, FS_Subset DEF Retried, FinalizationRetries
  <2>3. CASE Retried(t)' \subseteq Retried(t)
    <3>1. Cardinality(Retried(t)') <= Cardinality(Retried(t))
      BY <2>1, <2>3, FS_Subset
    <3>2. FinalizationRetries(t) <= Budget /\ Cardinality(Retried(t)') \in Nat
      BY <2>2, FS_CardinalityType DEF RetriesWithinBudget
    <3> QED BY <2>1, <2>2, <3>1, <3>2
  <2>4. ASSUME NEW n \in Retried(t)', n \notin Retried(t) PROVE FinalizationRetries(t)' <= Budget
    <3> DEFINE a == <<t, n>>
    <3>1. /\ n \in Numbers /\ a \in Attempts /\ attempt'[a] # attempt[a]
          /\ attempt'[a] = "RETRYABLE_FINALIZATION_UNAVAILABLE"
      BY <2>4, AttemptParts DEF Retried
    <3>2. PICK w \in Workers : /\ Owns(w) /\ a = Mine(w) /\ WithinBudget(task[w])
                               /\ WritesAs(w, "PENDING", attempt'[a])
      BY <3>1, RequeuedBy
    <3>3. task[w] = t /\ number[w] = n
      BY <3>2 DEF Mine
    <3>4. Retried(t)' = Retried(t) \cup {n}
      <4>1. attempt' = [attempt EXCEPT ![a] = "RETRYABLE_FINALIZATION_UNAVAILABLE"]
        BY <3>1, <3>2 DEF WritesAs, Write
      <4>2. \A m \in Numbers : attempt'[<<t, m>>] =
              IF m = n THEN "RETRYABLE_FINALIZATION_UNAVAILABLE" ELSE attempt[<<t, m>>]
        BY <3>1, <4>1, AttemptParts DEF IInv, TypeOK
      <4> QED BY <3>1, <4>2 DEF Retried
    <3>5. Cardinality(Retried(t)') = Cardinality(Retried(t)) + 1
      BY <2>1, <2>4, <3>4, FS_AddElement
    <3>6. FinalizationRetries(t) < Budget
      BY <3>2, <3>3 DEF WithinBudget
    <3> QED BY <2>1, <2>2, <3>5, <3>6
  <2> QED BY <2>3, <2>4
<1> QED BY <1>1, <1>2, AlwaysIInv, PTL DEF Spec

-----------------------------------------------------------------------------
(* The surface of a task. *)

\* The kinds of state the catalogue tells apart.
LEMMA OutcomesApart ==
    /\ Outcomes \cap (ActiveStates \cup Refusals \cup Recoverable \cup {"PENDING"}) = {}
    /\ "QC_PENDING" \in Outcomes /\ "CLAIMED" \notin Outcomes
BY DEF Outcomes, ActiveStates, Refusals, Recoverable

Registered == {"PROMOTED", "DUPLICATE"}

\* SurfaceFromLastAttempt for the surface of one digest, and one attempt.
SurfaceOk(d) ==
    surface[d] # NoTask =>
        /\ state[surface[d]] = "QC_PENDING"
        /\ upload[<<surface[d], latest[surface[d]]>>] = "PROMOTED"

UploadOk(t, n) ==
    upload[<<t, n>>] \in Registered => n = latest[t] /\ state[t] \in Outcomes

\* SurfaceFromLastAttempt, taken apart by digest and by attempt.
LEMMA SurfaceParts ==
    SurfaceFromLastAttempt <=>
        /\ \A d \in Digests : SurfaceOk(d)
        /\ \A t \in Tasks, n \in Numbers : UploadOk(t, n)
        /\ \A c, d \in Digests : surface[c] # NoTask /\ surface[c] = surface[d] => c = d
BY DEF SurfaceFromLastAttempt, SurfaceOk, UploadOk, Registered

\* A task that is not at an outcome has registered nothing.
LEMMA NothingRegistered ==
    ASSUME IInv, SurfaceFromLastAttempt, NEW t \in Tasks, state[t] \notin Outcomes
    PROVE  /\ \A n \in Numbers : upload[<<t, n>>] \notin Registered
           /\ \A d \in Digests : surface[d] # t
<1>1. \A n \in Numbers : upload[<<t, n>>] \notin Registered
  BY SurfaceParts DEF UploadOk
<1>2. \A d \in Digests : surface[d] # t
  <2> SUFFICES ASSUME NEW d \in Digests, surface[d] = t PROVE FALSE
    OBVIOUS
  <2>1. t # NoTask
    BY SegmentTasksAssumption
  <2>2. state[t] = "QC_PENDING"
    BY <2>1, SurfaceParts DEF SurfaceOk
  <2> QED BY <2>2, OutcomesApart
<1> QED BY <1>1, <1>2

\* A step moves, and returns to, no outcome; it uploads, and registers nothing.
KeepsOutcomes ==
    \A t \in Tasks : \/ state'[t] = state[t] /\ latest'[t] = latest[t]
                     \/ state[t] \notin Outcomes

KeepsUploads ==
    \A a \in Attempts : \/ upload'[a] = upload[a]
                        \/ upload'[a] \notin Registered /\ state[a[1]] \notin Outcomes

\* Such a step keeps what was registered.
LEMMA UnregisteredKeeps ==
    ASSUME IInv, SurfaceFromLastAttempt, surface' = surface, KeepsOutcomes, KeepsUploads
    PROVE  SurfaceFromLastAttempt'
<1>1. \A d \in Digests : SurfaceOk(d)'
  <2> SUFFICES ASSUME NEW d \in Digests, surface[d] # NoTask
               PROVE  /\ state'[surface[d]] = "QC_PENDING"
                      /\ upload'[<<surface[d], latest'[surface[d]]>>] = "PROMOTED"
    BY DEF SurfaceOk
  <2> DEFINE t == surface[d]
  <2>1. t \in Tasks
    BY DEF IInv, TypeOK
  <2>2. state[t] = "QC_PENDING" /\ upload[<<t, latest[t]>>] = "PROMOTED"
    BY SurfaceParts DEF SurfaceOk
  <2>3. state'[t] = state[t] /\ latest'[t] = latest[t]
    BY <2>1, <2>2, OutcomesApart DEF KeepsOutcomes
  <2>4. latest[t] \in Numbers
    <3>1. active[t] # NoAttempt /\ active[t] \in Numbers \cup {NoAttempt}
      BY <2>1, <2>2 DEF IInv, Rows, TypeOK
    <3> QED BY <2>1, <3>1 DEF IInv, AttemptsMirrorTask
  <2>5. upload'[<<t, latest[t]>>] = upload[<<t, latest[t]>>]
    BY <2>1, <2>2, <2>4, AttemptParts, OutcomesApart DEF KeepsUploads
  <2> QED BY <2>2, <2>3, <2>5
<1>2. \A t \in Tasks, n \in Numbers : UploadOk(t, n)'
  <2> SUFFICES ASSUME NEW t \in Tasks, NEW n \in Numbers, upload'[<<t, n>>] \in Registered
               PROVE  n = latest'[t] /\ state'[t] \in Outcomes
    BY DEF UploadOk
  <2>1. upload[<<t, n>>] \in Registered
    BY AttemptParts DEF KeepsUploads
  <2>2. n = latest[t] /\ state[t] \in Outcomes
    BY <2>1, SurfaceParts DEF UploadOk
  <2> QED BY <2>2 DEF KeepsOutcomes
<1>3. \A c, d \in Digests : surface'[c] # NoTask /\ surface'[c] = surface'[d] => c = d
  BY SurfaceParts
<1> QED BY <1>1, <1>2, <1>3 DEF SurfaceFromLastAttempt, SurfaceOk, UploadOk, Registered

\* A registration is the first of its task, by its latest attempt.
LEMMA RegistrationKeeps ==
    ASSUME IInv, SurfaceFromLastAttempt, TypeOK', NEW w \in Workers, Registers(w),
           WritesAs(w, Outcome(grown[w]), Outcome(grown[w]))
    PROVE  SurfaceFromLastAttempt'
<1> DEFINE t == task[w]
           g == grown[w]
<1>1. /\ Owns(w) /\ t \in Tasks /\ Mine(w) = <<t, number[w]>> /\ number[w] \in Numbers
      /\ latest[t] = number[w] /\ state[t] \in ActiveStates
  BY OwnersRow DEF WritesAs, Write
<1>2. /\ \A n \in Numbers : upload[<<t, n>>] \notin Registered
      /\ \A d \in Digests : surface[d] # t
  BY <1>1, NothingRegistered, OutcomesApart
<1>3. /\ state' = [state EXCEPT ![t] = Outcome(g)] /\ latest' = latest
      /\ upload' = [upload EXCEPT ![Mine(w)] = IF surface[g] = NoTask THEN "PROMOTED" ELSE "DUPLICATE"]
      /\ surface' = [surface EXCEPT ![g] = IF @ = NoTask THEN t ELSE @]
  BY DEF WritesAs, Write, Registers
<1>4. /\ state'[t] = Outcome(g) /\ Outcome(g) \in Outcomes
      /\ surface[g] = NoTask => Outcome(g) = "QC_PENDING"
  BY <1>1, <1>3 DEF Outcome, Outcomes, IInv, TypeOK
<1>5. \A u \in Tasks, n \in Numbers :
        /\ u # t => state'[u] = state[u] /\ upload'[<<u, n>>] = upload[<<u, n>>]
        /\ n # number[w] => upload'[<<u, n>>] = upload[<<u, n>>]
  <2> HIDE DEF t, g
  <2> TAKE u \in Tasks, n \in Numbers
  <2>1. <<u, n>> \in Attempts /\ (u # t \/ n # number[w] => <<u, n>> # Mine(w))
    BY <1>1, AttemptParts
  <2> QED BY <1>3, <2>1 DEF IInv, TypeOK
<1>6. upload'[<<t, number[w]>>] = IF surface[g] = NoTask THEN "PROMOTED" ELSE "DUPLICATE"
  BY <1>1, <1>3 DEF IInv, TypeOK
<1>7. \A d \in Digests : surface'[d] = IF d = g /\ surface[g] = NoTask THEN t ELSE surface[d]
  BY <1>3 DEF IInv, TypeOK
<1>8. \A d \in Digests : SurfaceOk(d)'
  <2> SUFFICES ASSUME NEW d \in Digests, surface'[d] # NoTask
               PROVE  /\ state'[surface'[d]] = "QC_PENDING"
                      /\ upload'[<<surface'[d], latest[surface'[d]]>>] = "PROMOTED"
    BY <1>3 DEF SurfaceOk
  <2>1. CASE d = g /\ surface[g] = NoTask
    <3>1. surface'[d] = t
      BY <1>7, <2>1
    <3> QED BY <1>1, <1>4, <1>6, <2>1, <3>1
  <2>2. CASE ~(d = g /\ surface[g] = NoTask)
    <3> DEFINE u == surface[d]
    <3>1. surface'[d] = u /\ u \in Tasks /\ u # t
      BY <1>2, <1>7, <2>2 DEF IInv, TypeOK
    <3>2. state[u] = "QC_PENDING" /\ upload[<<u, latest[u]>>] = "PROMOTED"
      BY <3>1, SurfaceParts DEF SurfaceOk
    <3>3. latest[u] \in Numbers
      <4>1. active[u] # NoAttempt /\ active[u] \in Numbers \cup {NoAttempt}
        BY <3>1, <3>2 DEF IInv, Rows, TypeOK
      <4> QED BY <3>1, <4>1 DEF IInv, AttemptsMirrorTask
    <3> QED BY <1>5, <3>1, <3>2, <3>3
  <2> QED BY <2>1, <2>2
<1>9. \A u \in Tasks, n \in Numbers : UploadOk(u, n)'
  <2> SUFFICES ASSUME NEW u \in Tasks, NEW n \in Numbers, upload'[<<u, n>>] \in Registered
               PROVE  n = latest[u] /\ state'[u] \in Outcomes
    BY <1>3 DEF UploadOk
  <2>1. CASE u = t
    BY <1>1, <1>2, <1>4, <1>5, <2>1
  <2>2. CASE u # t
    BY <1>5, <2>2, SurfaceParts DEF UploadOk
  <2> QED BY <2>1, <2>2
<1>10. ASSUME NEW c \in Digests, NEW d \in Digests, surface'[c] # NoTask, surface'[c] = surface'[d]
       PROVE  c = d
  <2>1. surface[c] # t /\ surface[d] # t /\ t # NoTask
    BY <1>1, <1>2, SegmentTasksAssumption
  <2>2. \A e \in Digests : surface[c] # NoTask /\ surface[c] = surface[d] => c = d
    BY SurfaceParts
  <2> QED BY <1>7, <1>10, <2>1, <2>2
<1> QED BY <1>8, <1>9, <1>10 DEF SurfaceFromLastAttempt, SurfaceOk, UploadOk, Registered

\* Whatever was lost, requeued, recovered or compared, the catalogue's surface
\* of a task comes from the attempt the task ended with, and from no other.
THEOREM SurfacesComeFromLastAttempts == Spec => []SurfaceFromLastAttempt
<1>1. Init => SurfaceFromLastAttempt
  BY AttemptParts DEF Init, SurfaceFromLastAttempt
<1>2. IInv /\ SurfaceFromLastAttempt /\ [Next]_vars => SurfaceFromLastAttempt'
  <2> SUFFICES ASSUME IInv, SurfaceFromLastAttempt, [Next]_vars PROVE SurfaceFromLastAttempt'
    OBVIOUS
  <2>1. ASSUME NEW w \in Workers, NEW locked \in SUBSET Tasks, ClaimStep(w, locked)
        PROVE  SurfaceFromLastAttempt'
    <3>1. \A t \in Expired(locked) : state[t] \notin Outcomes
      BY OutcomesApart DEF Expired
    <3>2. UNCHANGED <<surface, upload>>
      BY <2>1 DEF ClaimStep, ClaimNothing, Claim, storeVars
    <3>3. ASSUME NEW t \in Tasks
          PROVE  (state'[t] = state[t] /\ latest'[t] = latest[t]) \/ state[t] \notin Outcomes
      <4>1. CASE ClaimNothing(w, locked)
        BY <3>1, <4>1 DEF ClaimNothing, Freed
      <4>2. ASSUME NEW u \in Tasks, Claim(w, u, locked)
            PROVE  (state'[t] = state[t] /\ latest'[t] = latest[t]) \/ state[t] \notin Outcomes
        <5>1. /\ state' = [Freed(state, Expired(locked), "PENDING") EXCEPT ![u] = "CLAIMED"]
              /\ latest' = [latest EXCEPT ![u] = latest[u] + 1]
              /\ state[u] = "PENDING" \/ u \in Expired(locked)
          BY <4>2 DEF Claim
        <5>2. CASE t = u
          BY <3>1, <5>1, <5>2, OutcomesApart
        <5>3. CASE t # u
          BY <3>1, <5>1, <5>3 DEF Freed, IInv, TypeOK
        <5> QED BY <5>2, <5>3
      <4> QED BY <2>1, <4>1, <4>2 DEF ClaimStep
    <3> QED BY <3>2, <3>3, UnregisteredKeeps DEF KeepsOutcomes, KeepsUploads
  <2>2. ASSUME NEW w \in Workers, NEW ts, NEW as, WritesAs(w, ts, as), UNCHANGED surface,
               upload' = upload \/ upload' = [upload EXCEPT ![Mine(w)] = "UPLOADED"]
        PROVE  SurfaceFromLastAttempt'
    <3>1. /\ task[w] \in Tasks /\ Mine(w) = <<task[w], number[w]>> /\ Mine(w) \in Attempts
          /\ state[task[w]] \notin Outcomes
      BY <2>2, OwnersRow, OutcomesApart DEF WritesAs, Write
    <3>2. KeepsOutcomes
      BY <2>2, <3>1 DEF WritesAs, Write, IInv, TypeOK, KeepsOutcomes
    <3>3. KeepsUploads
      <4> SUFFICES ASSUME NEW a \in Attempts, upload'[a] # upload[a]
                   PROVE  upload'[a] \notin Registered /\ state[a[1]] \notin Outcomes
        BY DEF KeepsUploads
      <4>1. a = Mine(w) /\ upload'[a] = "UPLOADED"
        BY <2>2, <3>1 DEF IInv, TypeOK
      <4>2. a[1] = task[w]
        BY <3>1, <4>1, AttemptParts
      <4> QED BY <3>1, <4>1, <4>2 DEF Registered
    <3> QED BY <2>2, <3>2, <3>3, UnregisteredKeeps
  <2>3. ASSUME NEW w \in Workers, Kinds(w) PROVE SurfaceFromLastAttempt'
    <3>1. CASE Still
      BY <3>1 DEF Still, SurfaceFromLastAttempt
    <3>2. CASE \E st \in Outcomes : WritesAs(w, st, st) /\ Registers(w) /\ st = Outcome(grown[w])
      BY <3>2, StepTypes, RegistrationKeeps DEF IInv
    <3> QED BY <2>2, <2>3, <3>1, <3>2 DEF Kinds
  <2>4. ASSUME NEW a \in Attempts, Recover(a) PROVE SurfaceFromLastAttempt'
    <3>1. /\ state' = [state EXCEPT ![a[1]] = "PENDING"] /\ UNCHANGED <<latest, upload, surface>>
          /\ state[a[1]] \notin Outcomes
      BY <2>4, OutcomesApart DEF Recover, storeVars
    <3>2. KeepsOutcomes /\ KeepsUploads
      BY <3>1 DEF IInv, TypeOK, KeepsOutcomes, KeepsUploads
    <3> QED BY <3>1, <3>2, UnregisteredKeeps
  <2>5. CASE Still
    BY <2>5 DEF Still, SurfaceFromLastAttempt
  <2> QED BY <2>1, <2>3, <2>4, <2>5, NextKinds DEF IInv
<1> QED BY <1>1, <1>2, AlwaysIInv, PTL DEF Spec

\* Requeues for publishing stay within their budget, and those for a larger card
\* rise; the other ways a task is returned have no limit.
THEOREM RequeuesAlwaysLimited == Spec => []RequeuesAreLimited
BY RetriesStayWithinBudget, OutgrownStaysOutgrown, PTL DEF RequeuesAreLimited

-----------------------------------------------------------------------------
(* What is past. *)

\* A task is active by its latest attempt or by none.
LEMMA ActiveIsLatest ==
    ASSUME IInv, NEW t \in Tasks PROVE active[t] = NoAttempt \/ active[t] = latest[t]
<1>1. active[t] \in Numbers \cup {NoAttempt}
  BY DEF IInv, TypeOK
<1>2. \A n \in Numbers : n = active[t] => n = latest[t]
  BY DEF IInv, AttemptsMirrorTask
<1> QED BY <1>1, <1>2

\* An attempt that is not the latest keeps all that is recorded of it.
PastStays(a) == UNCHANGED <<attempt[a], by[a], excused[a], upload[a]>>

LEMMA PastStep ==
    ASSUME IInv, [Next]_vars, NEW t \in Tasks, NEW n \in Numbers, n < latest[t]
    PROVE  PastStays(<<t, n>>)
<1> DEFINE a == <<t, n>>
<1>1. a \in Attempts /\ n \in Nat /\ n # NoAttempt /\ latest[t] \in Nat /\ n # active[t]
  BY AttemptParts, NumbersAreCounted, ActiveIsLatest DEF IInv, TypeOK
<1>2. ASSUME NEW w \in Workers, NEW locked \in SUBSET Tasks, ClaimStep(w, locked)
      PROVE  PastStays(a)
  <2>1. AttemptExpired(a, Expired(locked)) = attempt[a]
    BY <1>1 DEF AttemptExpired
  <2>2. CASE ClaimNothing(w, locked)
    BY <1>1, <2>1, <2>2 DEF ClaimNothing, PastStays, storeVars
  <2>3. ASSUME NEW u \in Tasks, Claim(w, u, locked) PROVE PastStays(a)
    <3> DEFINE b == <<u, latest[u] + 1>>
    <3>1. a # b
      BY <1>1
    <3>2. /\ attempt' = [c \in Attempts |->
                           IF c = b THEN "CLAIMED" ELSE AttemptExpired(c, Expired(locked))]
          /\ by' = [by EXCEPT ![b] = w] /\ UNCHANGED <<excused, upload>>
      BY <2>3 DEF Claim, storeVars
    <3> HIDE DEF a, b
    <3> QED BY <1>1, <2>1, <3>1, <3>2 DEF PastStays, IInv, TypeOK
  <2> QED BY <1>2, <2>2, <2>3 DEF ClaimStep
<1>3. ASSUME NEW w \in Workers, Kinds(w) PROVE PastStays(a)
  <2>1. ASSUME NEW ts, NEW as, WritesAs(w, ts, as)
        PROVE  /\ attempt'[a] = attempt[a] /\ by'[a] = by[a]
               /\ a # Mine(w) /\ a \in Attempts \ {Mine(w)}
    <3>1. a # Mine(w)
      BY <1>1, <2>1, OwnersRow DEF WritesAs, Write
    <3> HIDE DEF a
    <3> QED BY <1>1, <2>1, <3>1 DEF WritesAs, Write, IInv, TypeOK
  <2> HIDE DEF a
  <2>2. CASE Still
    BY <2>2 DEF Still, PastStays
  <2>3. ASSUME NEW st \in ActiveStates, WritesAs(w, st, st), UNCHANGED excused,
               upload' = upload \/ upload' = [upload EXCEPT ![Mine(w)] = "UPLOADED"]
        PROVE  PastStays(a)
    BY <2>1, <2>3 DEF PastStays, IInv, TypeOK
  <2>4. ASSUME NEW st \in Refusals, WritesAs(w, st, st), UNCHANGED upload, OthersExcused(w)
        PROVE  PastStays(a)
    BY <2>1, <2>4 DEF PastStays, OthersExcused
  <2>5. ASSUME NEW st \in Outcomes, WritesAs(w, st, st), Registers(w) PROVE PastStays(a)
    BY <2>1, <2>5 DEF PastStays, Registers, IInv, TypeOK
  <2>6. ASSUME NEW st \in GivenBack, WritesAs(w, "PENDING", st), UNCHANGED <<excused, upload>>
        PROVE  PastStays(a)
    BY <2>1, <2>6 DEF PastStays
  <2> QED BY <1>3, <2>2, <2>3, <2>4, <2>5, <2>6 DEF Kinds
<1>4. ASSUME NEW b \in Attempts, Recover(b) PROVE PastStays(a)
  <2>1. a # b
    BY <1>1, <1>4, RecoveredRow
  <2> HIDE DEF a
  <2> QED BY <1>1, <1>4, <2>1 DEF Recover, PastStays, storeVars, IInv, TypeOK
<1>5. CASE Still
  BY <1>5 DEF Still, PastStays
<1> QED BY <1>2, <1>3, <1>4, <1>5, NextKinds DEF IInv

\* A worker that comes back late, an operator and an expiry leave every
\* attempt but the last of its task as it was.
THEOREM PastStaysFixed == Spec => PastIsFixed
<1> DEFINE Fixed ==
      \A t \in Tasks, n \in Numbers : n < latest[t] =>
         UNCHANGED <<attempt[<<t, n>>], by[<<t, n>>], excused[<<t, n>>], upload[<<t, n>>]>>
<1>1. IInv /\ [Next]_vars => [Fixed]_vars
  BY PastStep DEF PastStays
<1> HIDE DEF Fixed
<1>2. Spec => [][Fixed]_vars
  BY <1>1, AlwaysIInv, PTL DEF Spec
<1> QED BY <1>2 DEF PastIsFixed, Fixed

-----------------------------------------------------------------------------
(* The queue implements AttemptLifecycle. *)

\* What the lifecycle sees of a task: no attempt yet, an attempt that was
\* given back, one that is held, or one that ended the task.
LEMMA LastRow ==
    ASSUME IInv, NEW t \in Tasks
    PROVE  \/ latest[t] = NoAttempt /\ state[t] = "PENDING" /\ LastState(t) = "none"
           \/ /\ latest[t] \in Numbers
              /\ \/ /\ state[t] = "PENDING" /\ LastState(t) \in Returned
                    /\ LastState(t) = attempt[<<t, latest[t]>>]
                 \/ /\ state[t] \in ActiveStates /\ LastState(t) = "held"
                    /\ active[t] = latest[t]
                 \/ /\ state[t] \in Terminal /\ LastState(t) = state[t]
                    /\ active[t] = latest[t] /\ LastState(t) = attempt[<<t, latest[t]>>]
<1>1. latest[t] \in Numbers \cup {NoAttempt} /\ active[t] \in Numbers \cup {NoAttempt}
      /\ state[t] \in {"PENDING"} \cup ActiveStates \cup Terminal
  BY DEF IInv, TypeOK
<1>2. CASE latest[t] = NoAttempt
  <2>1. active[t] = NoAttempt
    BY <1>2, ActiveIsLatest
  <2> QED BY <1>2, <2>1 DEF IInv, Rows, LastState
<1>3. CASE latest[t] # NoAttempt /\ active[t] = NoAttempt
  <2>1. latest[t] \in Numbers /\ latest[t] # active[t] /\ latest[t] <= latest[t]
    BY <1>1, <1>3, NumbersAreCounted
  <2>2. attempt[<<t, latest[t]>>] \in Returned
    BY <2>1 DEF IInv, AttemptsMirrorTask
  <2> QED BY <1>3, <2>1, <2>2, StatesApart DEF IInv, Rows, LastState
<1>4. CASE latest[t] # NoAttempt /\ active[t] = latest[t]
  <2>1. attempt[<<t, latest[t]>>] = state[t] /\ state[t] # "PENDING"
    BY <1>1, <1>4 DEF IInv, AttemptsMirrorTask, Rows
  <2> QED BY <1>1, <1>4, <2>1, StatesApart DEF LastState
<1> QED BY <1>2, <1>3, <1>4, ActiveIsLatest

\* The last attempt of a task that a step leaves alone stays as it is.
LEMMA LastKept ==
    ASSUME NEW t \in Tasks, latest'[t] = latest[t],
           latest[t] # NoAttempt => attempt'[<<t, latest[t]>>] = attempt[<<t, latest[t]>>]
    PROVE  LastState(t)' = LastState(t)
BY DEF LastState

\* A claim takes one task, and lets the others it finds lapsed go.
LEMMA ClaimLifecycle ==
    ASSUME IInv, NEW w \in Workers, NEW locked \in SUBSET Tasks, ClaimStep(w, locked),
           NEW t \in Tasks
    PROVE  \/ /\ Claim(w, t, locked) /\ latest'[t] = latest[t] + 1
              /\ LastState(t) \in Returned \cup {"none", "held"} /\ LastState(t)' = "held"
           \/ /\ \A u \in Tasks : Claim(w, u, locked) => latest'[u] = latest[u] + 1 /\ u # t
              /\ latest'[t] = latest[t]
              /\ \/ LastState(t)' = LastState(t)
                 \/ LastState(t) = "held" /\ LastState(t)' = "LEASE_EXPIRED"
<1> DEFINE E == Expired(locked)
           a == <<t, latest[t]>>
<1>1. CASE \A u \in Tasks : Claim(w, u, locked) => u # t
  <2>1. /\ latest'[t] = latest[t]
        /\ latest[t] # NoAttempt => attempt'[a] = AttemptExpired(a, E)
        /\ \A u \in Tasks : Claim(w, u, locked) => latest'[u] = latest[u] + 1
    <3>1. latest[t] # NoAttempt => a \in Attempts
      BY AttemptParts DEF IInv, TypeOK
    <3>2. CASE ClaimNothing(w, locked)
      BY <3>1, <3>2, <1>1 DEF ClaimNothing, Claim, IInv, TypeOK
    <3>3. ASSUME NEW u \in Tasks, Claim(w, u, locked)
          PROVE  /\ latest'[t] = latest[t]
                 /\ latest[t] # NoAttempt => attempt'[a] = AttemptExpired(a, E)
      <4>1. a # <<u, latest[u] + 1>> /\ u # t
        BY <1>1, <3>3
      <4> HIDE DEF a, E
      <4>2. latest' = [latest EXCEPT ![u] = latest[u] + 1]
            /\ attempt' = [c \in Attempts |->
                             IF c = <<u, latest[u] + 1>> THEN "CLAIMED" ELSE AttemptExpired(c, E)]
        BY <3>3 DEF Claim, E
      <4> QED BY <3>1, <4>1, <4>2 DEF IInv, TypeOK
    <3>4. \A u \in Tasks : Claim(w, u, locked) => latest'[u] = latest[u] + 1
      BY DEF Claim, IInv, TypeOK
    <3> QED BY <3>2, <3>3, <3>4 DEF ClaimStep
  <2>2. CASE t \in E /\ latest[t] # NoAttempt
    <3>1. LastState(t) = "held" /\ active[t] = latest[t]
      BY <2>2, LastRow, StatesApart DEF Expired
    <3>2. attempt'[a] = "LEASE_EXPIRED"
      BY <2>1, <2>2, <3>1 DEF AttemptExpired
    <3>3. "LEASE_EXPIRED" \notin ActiveStates
      BY DEF ActiveStates
    <3> QED BY <1>1, <2>1, <2>2, <3>1, <3>2, <3>3 DEF LastState
  <2>3. CASE t \notin E \/ latest[t] = NoAttempt
    <3>1. latest[t] # NoAttempt => attempt'[a] = attempt[a]
      BY <2>1, <2>3 DEF AttemptExpired
    <3>2. LastState(t)' = LastState(t)
      BY <2>1, <3>1, LastKept
    <3> QED BY <1>1, <2>1, <3>2
  <2> QED BY <2>2, <2>3
<1>2. CASE Claim(w, t, locked)
  <2> DEFINE n == latest[t] + 1
  <2>1. /\ n \in Numbers /\ (state[t] = "PENDING" \/ t \in E)
        /\ latest' = [latest EXCEPT ![t] = n]
        /\ attempt' = [c \in Attempts |-> IF c = <<t, n>> THEN "CLAIMED" ELSE AttemptExpired(c, E)]
    BY <1>2 DEF Claim
  <2>2. <<t, n>> \in Attempts /\ n # NoAttempt /\ "CLAIMED" \in ActiveStates
    BY <2>1, AttemptParts, NumbersAreCounted DEF ActiveStates
  <2>3. LastState(t) \in Returned \cup {"none", "held"}
    BY <2>1, LastRow, StatesApart DEF Expired
  <2> HIDE DEF n
  <2>4. latest'[t] = n /\ attempt'[<<t, n>>] = "CLAIMED"
    BY <2>1, <2>2 DEF IInv, TypeOK
  <2>5. LastState(t)' = "held"
    BY <2>2, <2>4 DEF LastState
  <2> QED BY <1>2, <2>3, <2>4, <2>5 DEF n
<1> QED BY <1>1, <1>2

\* A write of the owner takes a held attempt on, gives it back or ends it; the
\* last attempts of the other tasks stay as they are.
LEMMA WriteLifecycle ==
    ASSUME IInv, NEW w \in Workers, Kinds(w), NEW t \in Tasks
    PROVE  /\ latest'[t] = latest[t]
           /\ \/ LastState(t)' = LastState(t)
              \/ LastState(t) = "held" /\ LastState(t)' \in GivenBack \cup Terminal
<1>1. CASE Still
  BY <1>1 DEF Still, LastState
<1>2. ASSUME NEW ts, NEW as \in ActiveStates \cup GivenBack \cup Terminal, WritesAs(w, ts, as)
      PROVE  /\ latest'[t] = latest[t]
             /\ \/ LastState(t)' = LastState(t)
                \/ LastState(t) = "held" /\ LastState(t)' \in GivenBack \cup Terminal
  <2>1. /\ Owns(w) /\ attempt' = [attempt EXCEPT ![Mine(w)] = as] /\ latest' = latest
    BY <1>2 DEF WritesAs, Write
  <2>2. /\ task[w] \in Tasks /\ Mine(w) = <<task[w], latest[task[w]]>> /\ Mine(w) \in Attempts
        /\ state[task[w]] \in ActiveStates /\ latest[task[w]] \in Numbers
    BY <2>1, OwnersRow
  <2>3. CASE t # task[w]
    <3>1. latest[t] # NoAttempt => attempt'[<<t, latest[t]>>] = attempt[<<t, latest[t]>>]
      BY <2>1, <2>2, <2>3, AttemptParts DEF IInv, TypeOK
    <3> QED BY <2>1, <3>1, LastKept
  <2>4. CASE t = task[w]
    <3>1. LastState(t) = "held" /\ latest[t] # NoAttempt
      BY <2>2, <2>4, LastRow, StatesApart, NumbersAreCounted
    <3>2. attempt'[<<t, latest[t]>>] = as
      BY <2>1, <2>2, <2>4 DEF IInv, TypeOK
    <3>3. LastState(t)' = IF as \in ActiveStates THEN "held" ELSE as
      BY <2>1, <3>1, <3>2 DEF LastState
    <3> QED BY <2>1, <3>1, <3>3
  <2> QED BY <2>3, <2>4
<1> QED BY <1>1, <1>2 DEF Kinds, Terminal

\* A recovery reopens the last attempt of one task that ended recoverably.
LEMMA RecoveryLifecycle ==
    ASSUME IInv, NEW a \in Attempts, Recover(a), NEW t \in Tasks
    PROVE  /\ latest'[t] = latest[t]
           /\ \/ LastState(t)' = LastState(t)
              \/ LastState(t) \in Recoverable /\ LastState(t)' = "RECOVERED"
<1>1. /\ a = <<a[1], latest[a[1]]>> /\ a[1] \in Tasks /\ a[2] \in Numbers /\ latest[a[1]] = a[2]
      /\ state[a[1]] \in Recoverable /\ Recoverable \subseteq Terminal
  BY RecoveredRow
<1>2. attempt' = [attempt EXCEPT ![a] = "RECOVERED"] /\ latest' = latest
  BY DEF Recover
<1>3. CASE t # a[1]
  <2>1. latest[t] # NoAttempt => attempt'[<<t, latest[t]>>] = attempt[<<t, latest[t]>>]
    BY <1>1, <1>2, <1>3, AttemptParts DEF IInv, TypeOK
  <2> QED BY <1>2, <2>1, LastKept
<1>4. CASE t = a[1]
  <2>1. LastState(t) = state[t] /\ latest[t] # NoAttempt
    BY <1>1, <1>4, LastRow, StatesApart, NumbersAreCounted
  <2>2. attempt'[<<t, latest[t]>>] = "RECOVERED"
    BY <1>1, <1>2, <1>4 DEF IInv, TypeOK
  <2>3. "RECOVERED" \notin ActiveStates
    BY DEF ActiveStates
  <2> QED BY <1>1, <1>2, <1>4, <2>1, <2>2, <2>3 DEF LastState
<1> QED BY <1>3, <1>4

\* Every step of the queue is a step of the lifecycle, or a stutter.
LEMMA LifecycleStep == IInv /\ [Next]_vars => [Lifecycle!Next]_(Lifecycle!vars)
<1> SUFFICES ASSUME IInv, [Next]_vars PROVE Lifecycle!Next
  OBVIOUS
<1> USE DEF Lifecycle!TaskNext, Lifecycle!Same
<1>1. IInv'
  BY StepIInv
<1>2. ASSUME NEW w \in Workers, NEW locked \in SUBSET Tasks, ClaimStep(w, locked)
      PROVE  /\ \A t \in Tasks : Lifecycle!TaskNext(t)
             /\ \A t, u \in Tasks : latest'[t] # latest[t] /\ latest'[u] # latest[u] => t = u
  <2>1. ASSUME NEW t \in Tasks PROVE Lifecycle!TaskNext(t)
    <3>1. CASE /\ latest'[t] = latest[t] + 1
               /\ LastState(t) \in Returned \cup {"none", "held"} /\ LastState(t)' = "held"
      <4>1. Lifecycle!Taken(t)
        BY <3>1 DEF Lifecycle!Taken, Lifecycle!Waits
      <4> QED BY <4>1
    <3>2. CASE latest'[t] = latest[t] /\ LastState(t)' = LastState(t)
      BY <3>2 DEF Lifecycle!Unmoved
    <3>3. CASE /\ latest'[t] = latest[t]
               /\ LastState(t) = "held" /\ LastState(t)' = "LEASE_EXPIRED"
      BY <3>3 DEF Lifecycle!Lapses
    <3> QED BY <1>2, <3>1, <3>2, <3>3, ClaimLifecycle
  <2>2. ASSUME NEW t \in Tasks, NEW u \in Tasks, latest'[t] # latest[t], latest'[u] # latest[u]
        PROVE  t = u
    <3>1. Claim(w, t, locked) /\ latest'[t] = latest[t] + 1
      BY <1>2, <2>2, ClaimLifecycle
    <3>2. latest' = [latest EXCEPT ![t] = latest[t] + 1]
      BY <3>1 DEF Claim
    <3> QED BY <2>2, <3>2 DEF IInv, TypeOK
  <2> QED BY <2>1, <2>2
<1>3. ASSUME NEW w \in Workers, Kinds(w)
      PROVE  \A t \in Tasks : Lifecycle!TaskNext(t) /\ latest'[t] = latest[t]
  <2> SUFFICES ASSUME NEW t \in Tasks PROVE Lifecycle!TaskNext(t) /\ latest'[t] = latest[t]
    OBVIOUS
  <2>1. CASE LastState(t)' = LastState(t)
    BY <1>3, <2>1, WriteLifecycle DEF Lifecycle!Unmoved
  <2>2. CASE LastState(t) = "held" /\ LastState(t)' \in GivenBack
    BY <1>3, <2>2, WriteLifecycle DEF Lifecycle!Returned, GivenBack
  <2>3. CASE LastState(t) = "held" /\ LastState(t)' \in Terminal
    BY <1>3, <2>3, WriteLifecycle DEF Lifecycle!Ended
  <2> QED BY <1>3, <2>1, <2>2, <2>3, WriteLifecycle
<1>4. ASSUME NEW a \in Attempts, Recover(a)
      PROVE  \A t \in Tasks : Lifecycle!TaskNext(t) /\ latest'[t] = latest[t]
  <2> SUFFICES ASSUME NEW t \in Tasks PROVE Lifecycle!TaskNext(t) /\ latest'[t] = latest[t]
    OBVIOUS
  <2>1. CASE LastState(t)' = LastState(t)
    BY <1>4, <2>1, RecoveryLifecycle DEF Lifecycle!Unmoved
  <2>2. CASE LastState(t) \in Recoverable /\ LastState(t)' = "RECOVERED"
    BY <1>4, <2>2, RecoveryLifecycle DEF Lifecycle!Reopened
  <2> QED BY <1>4, <2>1, <2>2, RecoveryLifecycle
<1>5. ASSUME Still PROVE \A t \in Tasks : Lifecycle!TaskNext(t) /\ latest'[t] = latest[t]
  <2> SUFFICES ASSUME NEW t \in Tasks PROVE Lifecycle!TaskNext(t) /\ latest'[t] = latest[t]
    OBVIOUS
  <2>1. LastState(t)' = LastState(t) /\ latest'[t] = latest[t]
    BY <1>5 DEF Still, LastState
  <2> QED BY <2>1 DEF Lifecycle!Unmoved
<1>6. /\ \A t \in Tasks : Lifecycle!TaskNext(t)
      /\ \A t, u \in Tasks : latest'[t] # latest[t] /\ latest'[u] # latest[u] => t = u
  <2>1. CASE \E w \in Workers, locked \in SUBSET Tasks : ClaimStep(w, locked)
    BY <1>2, <2>1
  <2>2. CASE \E w \in Workers : Kinds(w)
    BY <1>3, <2>2
  <2>3. CASE \E a \in Attempts : Recover(a)
    BY <1>4, <2>3
  <2>4. CASE Still
    BY <1>5, <2>4
  <2> QED BY <2>1, <2>2, <2>3, <2>4, NextKinds DEF IInv
<1>7. latest' \in [Tasks -> Nat]
  BY <1>1, NumbersAreCounted DEF IInv, TypeOK
<1>8. \A t \in Tasks : LastState(t)' \in Lifecycle!States
  <2> SUFFICES ASSUME NEW t \in Tasks PROVE LastState(t)' \in Lifecycle!States
    OBVIOUS
  <2>1. attempt'[<<t, latest'[t]>>] \in {"none"} \cup ActiveStates \cup Terminal \cup Returned
        \/ latest'[t] = NoAttempt
    BY <1>1, AttemptParts DEF IInv, TypeOK
  <2> QED BY <2>1 DEF LastState, Lifecycle!States, Lifecycle!Waits
<1> QED BY <1>6, <1>7, <1>8 DEF Lifecycle!Next

\* The segmentation queue implements AttemptLifecycle: attempts one after the
\* other, only the last one held, held once, and ends that stay, but for those
\* a recovery undoes.
THEOREM QueueKeepsLifecycle == Spec => KeepsLifecycle
<1>1. Init => Lifecycle!Init
  BY DEF Init, Lifecycle!Init, LastState, NoAttempt
<1>2. IInv /\ [Next]_vars => [Lifecycle!Next]_(Lifecycle!vars)
  BY LifecycleStep
<1> QED BY <1>1, <1>2, AlwaysIInv, PTL DEF Spec, KeepsLifecycle, Lifecycle!Spec

=============================================================================
