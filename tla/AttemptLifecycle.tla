-------------------------- MODULE AttemptLifecycle --------------------------
(***************************************************************************)
(* What the segmentation queue promises of a task, whoever claims, dies,   *)
(* requeues, recovers or reports: its attempts are numbered as they are    *)
(* handed out, one after the other; only the last of them is ever held; it *)
(* is held once; and it ends the task, gives it back or runs out of time.  *)
(* An end is final, except that some ends may be undone, which never gives *)
(* the old attempt its work back.                                          *)
(*                                                                         *)
(* Unlike a job of JobLifecycle a task has no ceiling of claims, and keeps *)
(* how its last attempt came out.                                          *)
(***************************************************************************)
EXTENDS Integers

CONSTANTS
    Tasks,
    EndStates,   \* the states of an attempt that ended its task
    Reopenable,  \* those of them a recovery may undo
    Requeues,    \* the states of an attempt its holder gave back
    Lapsed,      \* the state of one whose time ran out
    Recovered    \* the state of one whose end was undone

VARIABLES
    number,  \* the number of the last attempt, 0 before the first
    state    \* its state, "none" before the first

vars == <<number, state>>

Waits  == {"none", Lapsed, Recovered} \cup Requeues
States == Waits \cup {"held"} \cup EndStates

Init ==
    /\ number = [t \in Tasks |-> 0]
    /\ state = [t \in Tasks |-> "none"]

Same(t) == number'[t] = number[t]

\* A new attempt: of a task that waits, or of one whose holder's time ran out.
Taken(t) ==
    /\ state[t] \in Waits \cup {"held"}
    /\ number'[t] = number[t] + 1
    /\ state'[t] = "held"

Lapses(t) == state[t] = "held" /\ state'[t] = Lapsed /\ Same(t)

Returned(t) == state[t] = "held" /\ state'[t] \in Requeues /\ Same(t)

Ended(t) == state[t] = "held" /\ state'[t] \in EndStates /\ Same(t)

Reopened(t) == state[t] \in Reopenable /\ state'[t] = Recovered /\ Same(t)

Unmoved(t) == state'[t] = state[t] /\ Same(t)

TaskNext(t) ==
    Unmoved(t) \/ Taken(t) \/ Lapses(t) \/ Returned(t) \/ Ended(t) \/ Reopened(t)

\* Leases may lapse together; attempts are handed out one at a time.
Next ==
    /\ number' \in [Tasks -> Nat]
    /\ state' \in [Tasks -> States]
    /\ \A t \in Tasks : TaskNext(t)
    /\ \A t, u \in Tasks : number'[t] # number[t] /\ number'[u] # number[u] => t = u

Spec == Init /\ [][Next]_vars
-----------------------------------------------------------------------------
(* What follows from it, for whatever implements it. *)

\* A task has no attempt exactly until it is first handed out.
Numbered == \A t \in Tasks : number[t] = 0 <=> state[t] = "none"

\* An attempt that was left, by its holder, its time or its end, is never held
\* again: work goes on only under a new number.
LeftForGood ==
    [][\A t \in Tasks :
         /\ number'[t] \in {number[t], number[t] + 1}
         /\ state[t] # "held" /\ number'[t] = number[t] => state'[t] # "held"]_vars

\* An end is undone by a recovery or not at all.
EndsForGood ==
    [][\A t \in Tasks : state[t] \in EndStates =>
         \/ state'[t] = state[t] /\ number'[t] = number[t]
         \/ state[t] \in Reopenable /\ state'[t] = Recovered /\ number'[t] = number[t]]_vars
=============================================================================
