--------------------------- MODULE LifecycleProofs ---------------------------
(***************************************************************************)
(* What the two abstract lifecycles promise, for any jobs, ceilings, tasks *)
(* and states: so what every queue promises that implements one of them.   *)
(***************************************************************************)
EXTENDS Integers, TLAPS

CONSTANTS Jobs, Ceiling, Tasks, EndStates, Reopenable, Requeues, Lapsed, Recovered

VARIABLES phase, claims, number, state

Job     == INSTANCE JobLifecycle
Attempt == INSTANCE AttemptLifecycle

-----------------------------------------------------------------------------
(* Jobs. *)

Counted == phase \in [Jobs -> Job!Phases] /\ claims \in [Jobs -> Nat]

\* A job is handed out within its ceiling, and has nothing to show before that.
THEOREM JobsAreHandedOut ==
    ASSUME Ceiling \in [Jobs -> Nat]
    PROVE  Job!Spec => []Job!HandedOut
<1>1. Job!Init => Counted /\ Job!HandedOut
  BY DEF Job!Init, Counted, Job!HandedOut, Job!Phases
<1>2. Counted /\ Job!HandedOut /\ [Job!Next]_(Job!vars) => Counted' /\ Job!HandedOut'
  <2> SUFFICES ASSUME Counted, Job!HandedOut, [Job!Next]_(Job!vars)
               PROVE  Counted' /\ Job!HandedOut'
    OBVIOUS
  <2>1. CASE UNCHANGED Job!vars
    BY <2>1 DEF Job!vars, Counted, Job!HandedOut
  <2>2. CASE Job!Next
    <3>1. ASSUME NEW j \in Jobs
          PROVE  /\ claims'[j] <= Ceiling[j]
                 /\ phase'[j] \in {"held", "succeeded"} => claims'[j] > 0
                 /\ phase'[j] = "failed" => claims'[j] > 0 \/ Ceiling[j] = 0
      <4>1. /\ claims[j] \in Nat /\ Ceiling[j] \in Nat /\ claims[j] <= Ceiling[j]
            /\ phase[j] \in {"held", "succeeded"} => claims[j] > 0
            /\ phase[j] = "failed" => claims[j] > 0 \/ Ceiling[j] = 0
        BY DEF Counted, Job!HandedOut
      <4>2. Job!JobNext(j)
        BY <2>2 DEF Job!Next
      <4>3. CASE Job!Submitted(j) \/ Job!Returned(j) \/ Job!Withdrawn(j) \/ Job!Unmoved(j)
        BY <4>1, <4>3 DEF Job!Submitted, Job!Returned, Job!Withdrawn, Job!Unmoved, Job!Stays
      <4>4. CASE Job!Taken(j) \/ Job!Reported(j) \/ Job!GivenUp(j)
        BY <4>1, <4>4 DEF Job!Taken, Job!Reported, Job!GivenUp, Job!Stays, Job!Ends
      <4> QED BY <4>2, <4>3, <4>4 DEF Job!JobNext
    <3> QED BY <2>2, <3>1 DEF Job!Next, Counted, Job!HandedOut
  <2> QED BY <2>1, <2>2
<1> QED BY <1>1, <1>2, PTL DEF Job!Spec

\* A job that ended is never handed out again.
THEOREM JobsEndForGood == Job!Spec => Job!EndsForGood
<1>1. [Job!Next]_(Job!vars) =>
        [\A j \in Jobs : phase[j] \in Job!Ends =>
           phase'[j] = phase[j] /\ claims'[j] = claims[j]]_(Job!vars)
  <2> SUFFICES ASSUME Job!Next, NEW j \in Jobs, phase[j] \in Job!Ends
               PROVE  phase'[j] = phase[j] /\ claims'[j] = claims[j]
    OBVIOUS
  <2>1. Job!JobNext(j)
    BY DEF Job!Next
  <2> QED BY <2>1 DEF Job!JobNext, Job!Submitted, Job!Taken, Job!Returned, Job!Reported,
                      Job!Withdrawn, Job!GivenUp, Job!Unmoved, Job!Stays, Job!Ends
<1> QED BY <1>1, PTL DEF Job!Spec, Job!EndsForGood

-----------------------------------------------------------------------------
(* Attempts. *)

\* The states of an attempt that was left are none of an attempt in hand, nor of
\* a task without one, an end is not a return, and only an end is reopened.
Distinct ==
    /\ Reopenable \subseteq EndStates
    /\ {"none", "held"} \cap (EndStates \cup Requeues \cup {Lapsed, Recovered}) = {}
    /\ EndStates \cap (Requeues \cup {Lapsed, Recovered}) = {}

LEMMA AttemptKinds ==
    ASSUME Attempt!Next, NEW t \in Tasks
    PROVE  \/ Attempt!Unmoved(t) \/ Attempt!Taken(t) \/ Attempt!Lapses(t)
           \/ Attempt!Returned(t) \/ Attempt!Ended(t) \/ Attempt!Reopened(t)
BY DEF Attempt!Next, Attempt!TaskNext

\* A task has no attempt exactly until it is first handed out.
THEOREM AttemptsAreNumbered ==
    ASSUME Distinct
    PROVE  Attempt!Spec => []Attempt!Numbered
<1> DEFINE Counting == number \in [Tasks -> Nat]
<1>1. Attempt!Init => Counting /\ Attempt!Numbered
  BY DEF Attempt!Init, Attempt!Numbered
<1>2. Counting /\ Attempt!Numbered /\ [Attempt!Next]_(Attempt!vars)
        => Counting' /\ Attempt!Numbered'
  <2> SUFFICES ASSUME Counting, Attempt!Numbered, [Attempt!Next]_(Attempt!vars)
               PROVE  Counting' /\ Attempt!Numbered'
    OBVIOUS
  <2>1. CASE UNCHANGED Attempt!vars
    BY <2>1 DEF Attempt!vars, Attempt!Numbered
  <2>2. CASE Attempt!Next
    <3>1. ASSUME NEW t \in Tasks PROVE number'[t] = 0 <=> state'[t] = "none"
      <4>1. number[t] \in Nat /\ (number[t] = 0 <=> state[t] = "none")
        BY DEF Attempt!Numbered
      <4>2. CASE Attempt!Unmoved(t)
        BY <4>1, <4>2 DEF Attempt!Unmoved, Attempt!Same
      <4>3. CASE Attempt!Taken(t)
        BY <4>1, <4>3 DEF Attempt!Taken
      <4>4. CASE Attempt!Lapses(t) \/ Attempt!Returned(t) \/ Attempt!Ended(t)
        BY <4>1, <4>4 DEF Attempt!Lapses, Attempt!Returned, Attempt!Ended, Attempt!Same, Distinct
      <4>5. CASE Attempt!Reopened(t) /\ state[t] # "none"
        BY <4>1, <4>5 DEF Attempt!Reopened, Attempt!Same, Distinct
      <4>6. CASE Attempt!Reopened(t) /\ state[t] = "none"
        BY <4>6 DEF Attempt!Reopened, Distinct
      <4> QED BY <2>2, <4>2, <4>3, <4>4, <4>5, <4>6, AttemptKinds
    <3> QED BY <2>2, <3>1 DEF Attempt!Next, Attempt!Numbered
  <2> QED BY <2>1, <2>2
<1> QED BY <1>1, <1>2, PTL DEF Attempt!Spec

\* Nobody gets an attempt back that was left: work goes on under a new number.
THEOREM AttemptsAreLeftForGood ==
    ASSUME Distinct
    PROVE  Attempt!Spec => Attempt!LeftForGood
<1>1. number \in [Tasks -> Nat] /\ [Attempt!Next]_(Attempt!vars) =>
        [\A t \in Tasks :
           /\ number'[t] \in {number[t], number[t] + 1}
           /\ state[t] # "held" /\ number'[t] = number[t] => state'[t] # "held"]_(Attempt!vars)
  <2> SUFFICES ASSUME number \in [Tasks -> Nat], Attempt!Next, NEW t \in Tasks
               PROVE  /\ number'[t] \in {number[t], number[t] + 1}
                      /\ state[t] # "held" /\ number'[t] = number[t] => state'[t] # "held"
    OBVIOUS
  <2>1. number[t] \in Nat
    OBVIOUS
  <2>2. CASE Attempt!Unmoved(t)
    BY <2>2 DEF Attempt!Unmoved, Attempt!Same
  <2>3. CASE Attempt!Taken(t)
    BY <2>1, <2>3 DEF Attempt!Taken
  <2>4. CASE Attempt!Lapses(t) \/ Attempt!Returned(t) \/ Attempt!Ended(t) \/ Attempt!Reopened(t)
    BY <2>4 DEF Attempt!Lapses, Attempt!Returned, Attempt!Ended, Attempt!Reopened, Attempt!Same,
                Distinct
  <2> QED BY <2>2, <2>3, <2>4, AttemptKinds
<1>2. Attempt!Init => number \in [Tasks -> Nat]
  BY DEF Attempt!Init
<1>3. number \in [Tasks -> Nat] /\ [Attempt!Next]_(Attempt!vars) => (number \in [Tasks -> Nat])'
  BY DEF Attempt!Next, Attempt!vars
<1> QED BY <1>1, <1>2, <1>3, PTL DEF Attempt!Spec, Attempt!LeftForGood

\* An end is undone by a recovery, where it may be, and by nothing else.
THEOREM AttemptsEndForGood ==
    ASSUME Distinct
    PROVE  Attempt!Spec => Attempt!EndsForGood
<1>1. [Attempt!Next]_(Attempt!vars) =>
        [\A t \in Tasks : state[t] \in EndStates =>
           \/ state'[t] = state[t] /\ number'[t] = number[t]
           \/ state[t] \in Reopenable /\ state'[t] = Recovered /\ number'[t] = number[t]
        ]_(Attempt!vars)
  <2> SUFFICES ASSUME Attempt!Next, NEW t \in Tasks, state[t] \in EndStates
               PROVE  \/ state'[t] = state[t] /\ number'[t] = number[t]
                      \/ /\ state[t] \in Reopenable /\ state'[t] = Recovered
                         /\ number'[t] = number[t]
    OBVIOUS
  <2>1. state[t] # "held" /\ state[t] \notin Attempt!Waits
    BY DEF Distinct, Attempt!Waits
  <2> QED BY <2>1, AttemptKinds
          DEF Attempt!Unmoved, Attempt!Taken, Attempt!Lapses, Attempt!Returned, Attempt!Ended,
              Attempt!Reopened, Attempt!Same
<1> QED BY <1>1, PTL DEF Attempt!Spec, Attempt!EndsForGood

=============================================================================
