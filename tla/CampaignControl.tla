--------------------------- MODULE CampaignControl ---------------------------
(***************************************************************************)
(* The stopping rule of a controlled mission.  A batch of P1 tasks enters  *)
(* under a registered budget admission; each time one of them ends, the    *)
(* store derives decisions from all the attempts of its policy and writes  *)
(* them once: a block of attempts that found no candidate pauses the       *)
(* policy, and a pause is left only by a successor policy that an operator *)
(* authorised (fleet/postgres_store.py, campaign_decision.py).             *)
(*                                                                         *)
(* The tasks are those of SegmentTasks, seen from the attempts: the row of *)
(* a task mirrors its last attempt, so that one is all that is kept here.  *)
(* One mission; every task of it is bound to its admission.                *)
(***************************************************************************)
EXTENDS Integers, Sequences, FiniteSets

CONSTANTS
    Tasks, Admissions, Policies, Samples,
    AdmissionOf,  \* per task: the admission its envelope names
    PolicyOf,     \* per admission: execution_bindings.policy_version
    SampleOf,     \* per admission: sample_id
    BlockSize,    \* evaluation_block_size: 8
    PauseCount,   \* pause_no_m7_count: 7
    MaxAttempts,  \* bound on the attempts of one task
    MaxNow,       \* bound on the transactions that stamp a row
    MaxReports    \* bound on the ends that wait for the lock at one time

ASSUME CampaignAssumption ==
    /\ IsFiniteSet(Tasks)
    /\ AdmissionOf \in [Tasks -> Admissions]
    /\ PolicyOf \in [Admissions -> Policies]
    /\ SampleOf \in [Admissions -> Samples]
    /\ BlockSize \in Nat \ {0} /\ PauseCount \in 1 .. BlockSize
    /\ MaxAttempts \in Nat /\ MaxNow \in Nat \ {0} /\ MaxReports \in Nat

VARIABLES
    registered,     \* segment_campaign_budget_admissions, in order of created_at
    attested,       \* segment_campaign_resume_principal_attestations
    authorizations, \* segment_campaign_resume_authorizations
    receipts,       \* segment_campaign_decisions
    stamps,         \* their created_at
    created,        \* the tasks that have a row in segment_tasks
    row,            \* the last row of segment_attempts: number, state, updated_at
    reports,        \* transactions that end an attempt and wait for the mission lock
    now             \* now(), the time a transaction started

authorityVars == <<registered, attested, authorizations>>
vars == <<authorityVars, receipts, stamps, created, row, reports, now>>

\* What ends a task: NO_SEED without a raw candidate; any other scientific
\* end; one of the failures the rule leaves out of its count; any of these with
\* a diagnosis or a failure class that does not agree with it.
Scientific == {"NO_M7", "OTHER"}
Failures   == {"FAILED", "MALFORMED"}
Ends       == Scientific \cup Failures

\* What sends it back: the retryable outages of _requeue_unavailable, a larger
\* card, a lease that lapsed, a recovery command.
Requeues == {"RETRYABLE", "RETRY_ON_LARGER_GPU"}
Returned == Requeues \cup {"LEASE_EXPIRED", "RECOVERED"}

\* _scientific_terminal_attempt: left out with a canonical reason, or with one
\* that says the state is not known or the evidence makes no sense, which leaves
\* the evidence of its block incomplete.
\* Whatever else is not scientific is still active and not looked at.
Canonical == {"FAILED", "LEASE_EXPIRED"}
Unknown   == {"RETRYABLE", "RECOVERED", "MALFORMED"}

RowStates == {"none", "CLAIMED"} \cup Ends \cup Returned
Blocking  == {"PAUSE_CANDIDATE_STARVATION", "CONTROL_INCOMPLETE"}

Authorizations == [prior : Admissions, new : Admissions, receipt : receipts]

Held(t)    == row[t].state = "CLAIMED"
Waiting(t) == t \in created /\ row[t].state \in Returned \cup {"none"}

Init ==
    /\ registered = <<>> /\ attested = {} /\ authorizations = {}
    /\ receipts = {} /\ stamps = [r \in {} |-> 0] /\ created = {} /\ reports = {}
    /\ row = [t \in Tasks |-> [number |-> 0, state |-> "none", at |-> 0]]
    /\ now = 1

-----------------------------------------------------------------------------
(* derive_campaign_decision_receipts: the decisions of policy p if the last *)
(* attempts are `last`.                                                     *)

TasksOf(p)         == {t \in Tasks : PolicyOf[AdmissionOf[t]] = p}
Counted(p, last)   == {t \in TasksOf(p) : last[t].state \in Scientific}
LeftOut(p, last)   == {t \in TasksOf(p) : last[t].state \in Canonical \cup Unknown}
Attempts(ts, last) == {<<t, last[t].number>> : t \in ts}

\* Every attempt that a later one of its task replaced, whenever it ended.
Superseded(p, last) == {x \in TasksOf(p) \X (1 .. MaxAttempts) : x[2] < last[x[1]].number}

\* The k-th block of the attempts counted, in the order they ended.
Place(t, p, last) == Cardinality({u \in Counted(p, last) : last[u].at <= last[t].at})

Block(p, k, last) ==
    {t \in Counted(p, last) : Place(t, p, last) \in (k - 1) * BlockSize + 1 .. k * BlockSize}

Window(p, k, last) ==
    {t \in LeftOut(p, last) :
        /\ \E u \in Block(p, k, last) : last[t].at <= last[u].at
        /\ \A u \in Block(p, k - 1, last) : last[u].at < last[t].at}

Barren(ts, last) == {t \in ts : last[t].state = "NO_M7"}

\* Two admissions in a row, of two samples, whose budgets were spent on nothing.
BudgetOf(a) == {t \in Tasks : AdmissionOf[t] = a}

Spent(a, last) == \A t \in BudgetOf(a) : last[t].state = "NO_M7"

Follows(p, i, j) ==
    /\ i < j /\ PolicyOf[registered[i]] = p /\ PolicyOf[registered[j]] = p
    /\ \A k \in i + 1 .. j - 1 : PolicyOf[registered[k]] # p

SpentPairs(p, last) ==
    {ij \in (DOMAIN registered) \X (DOMAIN registered) :
        /\ Follows(p, ij[1], ij[2])
        /\ SampleOf[registered[ij[1]]] # SampleOf[registered[ij[2]]]
        /\ Spent(registered[ij[1]], last) /\ Spent(registered[ij[2]], last)}

FirstPair(p, last) ==
    {ij \in SpentPairs(p, last) : \A other \in SpentPairs(p, last) : ij[1] <= other[1]}

PairTasks(ij) == BudgetOf(registered[ij[1]]) \cup BudgetOf(registered[ij[2]])

\* The receipt without its time and its wording: what its hash is taken of.
Receipt(p, kind, index, cited, left, governing, decision, last) ==
    [policy |-> p, kind |-> kind, index |-> index,
     cited |-> Attempts(cited, last), barren |-> Attempts(Barren(cited, last), last),
     excluded |-> {<<t, last[t].number, last[t].state>> : t \in left},
     governing |-> governing,
     superseded |-> Superseded(p, last), decision |-> decision]

BlockDecision(cited, left, last) ==
    IF \/ \E t \in left : last[t].state \in Unknown
       \/ /\ Cardinality(Barren(cited, last)) >= PauseCount
          /\ Cardinality({AdmissionOf[t] : t \in Barren(cited, last)}) # 1
    THEN "CONTROL_INCOMPLETE"
    ELSE IF Cardinality(Barren(cited, last)) >= PauseCount
         THEN "PAUSE_CANDIDATE_STARVATION" ELSE "CONTINUE"

BlockReceipt(p, k, last) ==
    LET cited == Block(p, k, last)
        left  == Window(p, k, last)
        decision == BlockDecision(cited, left, last)
    IN  Receipt(p, "BLOCK", k, cited, left,
                IF decision = "PAUSE_CANDIDATE_STARVATION"
                THEN {AdmissionOf[t] : t \in Barren(cited, last)} ELSE {},
                decision, last)

PairReceipt(p, ij, last) ==
    Receipt(p, "PAIR",
            Cardinality({k \in 1 .. ij[1] : PolicyOf[registered[k]] = p}),
            PairTasks(ij), {}, {registered[ij[2]]}, "PAUSE_CANDIDATE_STARVATION", last)

\* Whole blocks, up to the first that pauses, and only those that were whole
\* before the second budget of a pair was spent.
Upto(p, k, last) == UNION {Block(p, i, last) : i \in 1 .. k}

Pauses(p, k, last) == BlockReceipt(p, k, last).decision = "PAUSE_CANDIDATE_STARVATION"

Blocks(p, last) ==
    {k \in 1 .. Cardinality(Tasks) :
        /\ k * BlockSize <= Cardinality(Counted(p, last))
        /\ \A ij \in FirstPair(p, last) :
              \E u \in PairTasks(ij) : \A t \in Upto(p, k, last) : last[t].at < last[u].at
        /\ \A j \in 1 .. k - 1 : ~Pauses(p, j, last)}

BlockReceipts(p, last) == {BlockReceipt(p, k, last) : k \in Blocks(p, last)}
PairReceipts(p, last)  == {PairReceipt(p, ij, last) : ij \in FirstPair(p, last)}

\* A pair is reported only if no block pauses.
Derived(p, last) ==
    IF \E k \in Blocks(p, last) : Pauses(p, k, last)
    THEN BlockReceipts(p, last)
    ELSE BlockReceipts(p, last) \cup PairReceipts(p, last)

\* _refresh_campaign_decisions: written once; one that is there must be the same.
SameSlot(r, d) == r.policy = d.policy /\ r.kind = d.kind /\ r.index = d.index

\* Mutant: a decision that is there is not compared.
Unread(derived) == TRUE

Agrees(derived) == \A d \in derived, r \in receipts : SameSlot(r, d) => r = d

Written(derived) == receipts \cup {d \in derived : \A r \in receipts : ~SameSlot(r, d)}

\* created_at DEFAULT now(), of a transaction that started at `at`.
Stamped(at) == [r \in receipts' |-> IF r \in receipts THEN stamps[r] ELSE at]

-----------------------------------------------------------------------------
(* register_campaign_budget_admission, under the mission lock. *)

Registered == {registered[i] : i \in DOMAIN registered}

\* derive_campaign_active_policy_chain: q is where the one chain of all the
\* policies ends; there is none once it forks or closes.
KnownPolicies == {PolicyOf[a] : a \in Registered}

Succeeds(p, q) == \E z \in authorizations : PolicyOf[z.prior] = p /\ PolicyOf[z.new] = q

ChainOf(c) ==
    /\ {c[i] : i \in DOMAIN c} = KnownPolicies
    /\ \A i, j \in DOMAIN c : Succeeds(c[i], c[j]) <=> j = i + 1

Active(q) ==
    LET n == Cardinality(KnownPolicies) IN
    n > 0 /\ \E c \in [1 .. n -> KnownPolicies] : ChainOf(c) /\ c[n] = q

BlockingReceipts(p) == {r \in receipts : r.policy = p /\ r.decision \in Blocking}

\* active_blocking_decision, where none is CONTROL_INCOMPLETE: the pause that was
\* recorded first.  What was recorded at one time is in the order of its hashes.
FirstPause(p, r) ==
    /\ r \in BlockingReceipts(p)
    /\ \A q \in BlockingReceipts(p) :
         q.decision # "CONTROL_INCOMPLETE" /\ stamps[r] <= stamps[q]

RegisterFirst(a) ==
    /\ registered = <<>>
    /\ registered' = <<a>>
    /\ UNCHANGED <<attested, authorizations, receipts, stamps, created, row, reports, now>>

\* No pause: another sample of the policy that is active.
RegisterSample(a) ==
    /\ a \notin Registered
    /\ Active(PolicyOf[a]) /\ BlockingReceipts(PolicyOf[a]) = {}
    /\ \A b \in Registered : SampleOf[b] # SampleOf[a]
    /\ registered' = Append(registered, a)
    /\ UNCHANGED <<attested, authorizations, receipts, stamps, created, row, reports, now>>

\* validate_campaign_resume_authorization; the material change is data.
Resumes(z, r) ==
    /\ z.receipt = r /\ z.prior \in r.governing
    /\ r.decision = "PAUSE_CANDIDATE_STARVATION"
    /\ r \in Derived(r.policy, row)

\* Mutant: whoever signed.
Anyone(z) == TRUE

Trusted(z) == z \in attested

RegisterSuccessor(z) ==
    /\ Trusted(z)
    /\ z.new \notin Registered /\ z.prior \in Registered
    /\ Active(PolicyOf[z.prior]) /\ PolicyOf[z.new] # PolicyOf[z.prior]
    /\ \E r \in receipts : FirstPause(PolicyOf[z.prior], r) /\ Resumes(z, r)
    /\ \A other \in authorizations : PolicyOf[other.prior] # PolicyOf[z.prior]
    /\ registered' = Append(registered, z.new)
    /\ authorizations' = authorizations \cup {z}
    /\ UNCHANGED <<attested, receipts, stamps, created, row, reports, now>>

\* register_campaign_resume_principal_attestation: the panel attests what an
\* operator signed, for a pause that may no longer stand when it is used.  What
\* no registration could use is left out.
Attest(z) ==
    /\ z.receipt.decision = "PAUSE_CANDIDATE_STARVATION"
    /\ z.prior \in z.receipt.governing /\ z.new \notin Registered
    /\ PolicyOf[z.new] # PolicyOf[z.prior]
    /\ attested' = attested \cup {z}
    /\ UNCHANGED <<registered, authorizations, receipts, stamps, created, row, reports, now>>

-----------------------------------------------------------------------------
(* create_tasks, under the mission lock. *)

\* Mutant: only the decisions that this refresh wrote are looked at.
ThisRefresh(p) == \A r \in receipts' \ receipts : r.decision \notin Blocking

Unblocked(p) == \A r \in receipts' : r.policy = p => r.decision \notin Blocking

\* `ts` are the tasks of a batch that have no row yet; with the others it does
\* nothing.  A decision that blocks is committed all the same; the tasks are not.
\* The transaction may have waited for the lock since it started.
Create(a, ts) ==
    LET p == PolicyOf[a]
        derived == Derived(p, row)
    IN
    /\ a \in Registered /\ ts \subseteq BudgetOf(a)
    /\ Agrees(derived)
    /\ receipts' = Written(derived)
    /\ \E at \in 1 .. now : stamps' = Stamped(at)
    /\ created' = IF Unblocked(p) THEN created \cup ts ELSE created
    /\ UNCHANGED <<authorityVars, row, reports, now>>

-----------------------------------------------------------------------------
(* The queue: claim and the requeues do not take the mission lock. *)

Tick == now < MaxNow /\ now' = now + 1

Marked(t, s, at) == [row[t] EXCEPT !.state = s, !.at = at]

Singletons == {{}} \cup {{t} : t \in Tasks}

\* claim recycles the leases that lapsed and takes one task, if there is one.
\* The time of a claim is never read, and left out.
Claim(lapsed, taken) ==
    /\ lapsed \cup taken # {}
    /\ IF lapsed = {} THEN UNCHANGED now ELSE Tick
    /\ \A t \in lapsed : Held(t)
    /\ \A t \in taken : (Waiting(t) \/ t \in lapsed) /\ row[t].number < MaxAttempts
    /\ row' = [t \in Tasks |->
                 CASE t \in taken -> [number |-> row[t].number + 1, state |-> "CLAIMED", at |-> 0]
                   [] t \in lapsed \ taken -> Marked(t, "LEASE_EXPIRED", now)
                   [] OTHER -> row[t]]
    /\ UNCHANGED <<authorityVars, receipts, stamps, created, reports>>

Requeue(t, s) ==
    /\ Tick /\ Held(t)
    /\ row' = [row EXCEPT ![t] = Marked(t, s, now)]
    /\ UNCHANGED <<authorityVars, receipts, stamps, created, reports>>

\* recover_terminal_*: an operator reopens a task that failed; its state and its
\* error decide, and not the class of the failure.
Recover(t) ==
    /\ Tick /\ row[t].state \in Failures
    /\ row' = [row EXCEPT ![t] = Marked(t, "RECOVERED", now)]
    /\ UNCHANGED <<authorityVars, receipts, stamps, created, reports>>

\* mark_terminal, finalize: the transaction starts, and its time is taken,
\* before the mission lock is granted.
Report(t) ==
    /\ Tick /\ Held(t)
    /\ \A r \in reports : r.task # t
    /\ Cardinality(reports) < MaxReports
    /\ reports' = reports \cup {[task |-> t, number |-> row[t].number, at |-> now]}
    /\ UNCHANGED <<authorityVars, receipts, stamps, created, row>>

Owns(r) == Held(r.task) /\ row[r.task].number = r.number

Ended(r, s) == [row EXCEPT ![r.task] = Marked(r.task, s, r.at)]

\* Mutant: the end is written and the decisions are left as they were.
EndUnwatched(r, s) ==
    /\ Owns(r)
    /\ row' = Ended(r, s)
    /\ reports' = reports \ {r}
    /\ UNCHANGED <<authorityVars, receipts, stamps, created, now>>

End(r, s) ==
    LET p == PolicyOf[AdmissionOf[r.task]]
        derived == Derived(p, Ended(r, s))
    IN
    /\ Owns(r)
    /\ Agrees(derived)
    /\ row' = Ended(r, s)
    /\ receipts' = Written(derived)
    /\ stamps' = Stamped(r.at)
    /\ reports' = reports \ {r}
    /\ UNCHANGED <<authorityVars, created, now>>

\* The attempt is no longer the task's, or a decision differs: nothing is kept.
EndRefused(r, s) ==
    /\ Owns(r) => ~Agrees(Derived(PolicyOf[AdmissionOf[r.task]], Ended(r, s)))
    /\ reports' = reports \ {r}
    /\ UNCHANGED <<authorityVars, receipts, stamps, created, row, now>>

Next ==
    \/ \E a \in Admissions : RegisterFirst(a) \/ RegisterSample(a)
    \/ \E z \in Authorizations : Attest(z) \/ RegisterSuccessor(z)
    \/ \E a \in Admissions : \E ts \in SUBSET (BudgetOf(a) \ created) : Create(a, ts)
    \/ \E lapsed \in SUBSET {t \in Tasks : Held(t)}, taken \in Singletons : Claim(lapsed, taken)
    \/ \E t \in Tasks : Recover(t) \/ Report(t) \/ \E s \in Requeues : Requeue(t, s)
    \/ \E r \in reports, s \in Ends : End(r, s) \/ EndRefused(r, s)

Spec == Init /\ [][Next]_vars

-----------------------------------------------------------------------------
Rows    == [number : 0 .. MaxAttempts, state : RowStates, at : 0 .. MaxNow]
Reports == [task : Tasks, number : 1 .. MaxAttempts, at : 1 .. MaxNow]

\* Types, and where authority comes from: a succession in force was attested,
\* for a decision on record, and both its admissions are registered.
TypeOK ==
    /\ Registered \subseteq Admissions
    /\ attested \subseteq Authorizations
    /\ authorizations \subseteq attested
    /\ stamps \in [receipts -> 1 .. MaxNow]
    /\ \A z \in authorizations : {z.prior, z.new} \subseteq Registered
    /\ created \subseteq Tasks
    /\ row \in [Tasks -> Rows]
    /\ reports \subseteq Reports
    /\ now \in 1 .. MaxNow

\* "Only the latest terminal attempt per task enters a block": no attempt is
\* evidence of two blocks of its policy, though the blocks are derived anew at
\* every end, from attempts whose order may have changed since.
NoAttemptCountedTwice ==
    \A r, q \in receipts :
        r.kind = "BLOCK" /\ q.kind = "BLOCK" /\ r.policy = q.policy /\ r # q
            => r.cited \cap q.cited = {}

\* Whenever the attempts on record show a starved policy, it is blocked on
\* record as well: no way an attempt ends, lapses, returns or is reopened leaves
\* a pause for the next caller of create_tasks to find.
StarvationIsSeen ==
    \A p \in Policies :
        (\E d \in Derived(p, row) : d.decision = "PAUSE_CANDIDATE_STARVATION")
            => BlockingReceipts(p) # {}

\* Once a policy has a successor no task enters under it again, however the
\* planner's batch and the operator's resumption are ordered.
OnlyActiveGrows ==
    [][\A t \in created' \ created :
          ~ \E z \in authorizations : PolicyOf[z.prior] = PolicyOf[AdmissionOf[t]]]_vars

\* The part of the queue that is kept here is still the queue: the rows follow the
\* lifecycle SegmentTasks follows, whatever reports wait, meet or are refused.
Lifecycle == INSTANCE AttemptLifecycle WITH
    number <- [t \in Tasks |-> row[t].number],
    state <- [t \in Tasks |-> IF Held(t) THEN "held" ELSE row[t].state],
    EndStates <- Ends,
    Reopenable <- Failures,
    Lapsed <- "LEASE_EXPIRED",
    Recovered <- "RECOVERED"

KeepsLifecycle == Lifecycle!Spec

-----------------------------------------------------------------------------
(* What the receipt says of itself, and the code does not do. *)

\* "BLOCK_NEW_P1_WITHOUT_CANCELLING_OR_REPRIORITIZING_EXISTING_WORK": while its
\* policy is paused, a worker that holds a task and reports its end ends it.
PauseLetsWorkEnd ==
    [][\A r \in reports \ reports' :
         /\ Owns(r)
         /\ \E q \in BlockingReceipts(PolicyOf[AdmissionOf[r.task]]) :
               q.decision = "PAUSE_CANDIDATE_STARVATION"
         => row'[r.task].state \in Ends]_vars
=============================================================================
