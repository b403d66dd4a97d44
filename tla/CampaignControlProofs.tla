------------------------ MODULE CampaignControlProofs ------------------------
(***************************************************************************)
(* Proofs about CampaignControl, for any tasks, budgets, policies and      *)
(* samples, any size of a block and any count that pauses it.              *)
(***************************************************************************)
EXTENDS CampaignControl, FiniteSetTheorems, WellFoundedInduction, TLAPS

-----------------------------------------------------------------------------
(* How the decisions on record change. *)

\* A decision is written by a creation or an end, from decisions that agree with
\* what is there; every other step leaves the record alone.
LEMMA ReceiptSteps ==
    ASSUME [Next]_vars
    PROVE  \/ UNCHANGED receipts
           \/ \E p, last : /\ Agrees(Derived(p, last))
                           /\ receipts' = Written(Derived(p, last))
<1>1. CASE \E a \in Admissions : \E ts \in SUBSET (BudgetOf(a) \ created) : Create(a, ts)
  BY <1>1 DEF Create
<1>2. CASE \E r \in reports, s \in Ends : End(r, s)
  BY <1>2 DEF End
<1>3. CASE UNCHANGED receipts
  BY <1>3
<1>4. QED
  BY <1>1, <1>2, <1>3 DEF Next, vars, RegisterFirst, RegisterSample, RegisterSuccessor,
     Attest, Claim, Requeue, Recover, Report, EndRefused

LEMMA ReceiptsGrow ==
    ASSUME [Next]_vars PROVE receipts \subseteq receipts'
BY ReceiptSteps DEF Written

-----------------------------------------------------------------------------
(* Types. *)

\* A task that is held has been claimed; the admissions are a sequence.
Rooted ==
    /\ registered \in Seq(Admissions)
    /\ \A t \in Tasks : Held(t) => row[t].number >= 1

TypeInv == TypeOK /\ Rooted

LEMMA RegisterOne ==
    ASSUME registered \in Seq(Admissions), NEW a \in Admissions,
           registered' = Append(registered, a)
    PROVE  /\ registered' \in Seq(Admissions)
           /\ Registered' = Registered \cup {a}
<1>1. registered' \in Seq(Admissions) /\ Len(registered') = Len(registered) + 1
  OBVIOUS
<1>2. \A i \in 1 .. Len(registered) : registered'[i] = registered[i]
  OBVIOUS
<1>3. registered'[Len(registered) + 1] = a
  OBVIOUS
<1>4. DOMAIN registered = 1 .. Len(registered)
      /\ DOMAIN registered' = 1 .. Len(registered) + 1
  BY <1>1
<1>5. Len(registered) \in Nat
  OBVIOUS
<1>6. Registered' = Registered \cup {a}
  BY <1>2, <1>3, <1>4, <1>5, SMT DEF Registered
<1>7. QED
  BY <1>1, <1>6

LEMMA AuthoritiesStay ==
    ASSUME attested \subseteq Authorizations, [Next]_vars
    PROVE  attested \subseteq Authorizations'
BY ReceiptsGrow DEF Authorizations

LEMMA Marking ==
    ASSUME TypeOK, NEW t \in Tasks, NEW s \in RowStates, NEW at \in 0 .. MaxNow
    PROVE  /\ Marked(t, s, at) \in Rows
           /\ Marked(t, s, at).number = row[t].number
           /\ Marked(t, s, at).state = s
BY DEF TypeOK, Rows, Marked

LEMMA RowsKept ==
    ASSUME TypeInv, NEW t \in Tasks, NEW s \in RowStates \ {"CLAIMED"}, NEW at \in 0 .. MaxNow,
           row' = [row EXCEPT ![t] = Marked(t, s, at)]
    PROVE  /\ row' \in [Tasks -> Rows]
           /\ \A u \in Tasks : Held(u)' => row'[u].number >= 1
<1>1. row \in [Tasks -> Rows] /\ Marked(t, s, at) \in Rows /\ Marked(t, s, at).state = s
  BY Marking DEF TypeInv, TypeOK
<1>2. \A u \in Tasks : row'[u] = IF u = t THEN Marked(t, s, at) ELSE row[u]
  BY <1>1
<1>3. QED
  BY <1>1, <1>2 DEF TypeInv, Rooted, Held

LEMMA ClaimTypes ==
    ASSUME TypeInv, NEW lapsed \in SUBSET {t \in Tasks : Held(t)}, NEW taken \in Singletons,
           Claim(lapsed, taken)
    PROVE  /\ row' \in [Tasks -> Rows] /\ now' \in 1 .. MaxNow
           /\ \A t \in Tasks : Held(t)' => row'[t].number >= 1
<1> USE CampaignAssumption DEF TypeInv, TypeOK
<1>1. now \in 0 .. MaxNow /\ now' \in 1 .. MaxNow
  BY DEF Claim, Tick
<1>2. ASSUME NEW t \in Tasks
      PROVE  row'[t] \in Rows /\ (Held(t)' => row'[t].number >= 1)
  <2>0. row[t] \in Rows
    OBVIOUS
  <2>1. row'[t] = CASE t \in taken -> [number |-> row[t].number + 1, state |-> "CLAIMED", at |-> 0]
                    [] t \in lapsed \ taken -> Marked(t, "LEASE_EXPIRED", now)
                    [] OTHER -> row[t]
    BY DEF Claim
  <2>2. CASE t \in taken
    <3>1. row'[t] = [number |-> row[t].number + 1, state |-> "CLAIMED", at |-> 0]
      BY <2>1, <2>2
    <3>2. row[t].number \in 0 .. MaxAttempts /\ row[t].number < MaxAttempts
      BY <2>0, <2>2 DEF Claim, Rows
    <3>3. row[t].number + 1 \in 1 .. MaxAttempts
      BY <3>2
    <3>4. QED
      BY <3>1, <3>3 DEF Rows, RowStates, Held
  <2>3. CASE t \in lapsed \ taken
    <3>1. row'[t] = Marked(t, "LEASE_EXPIRED", now)
      BY <2>1, <2>3
    <3>2. Marked(t, "LEASE_EXPIRED", now) \in Rows
      BY <1>1, Marking DEF RowStates, Returned
    <3>3. Marked(t, "LEASE_EXPIRED", now).state = "LEASE_EXPIRED"
      BY <1>1, Marking DEF RowStates, Returned
    <3>4. QED
      BY <3>1, <3>2, <3>3 DEF Held
  <2>4. CASE t \notin taken /\ t \notin lapsed \ taken
    <3>1. row'[t] = row[t]
      BY <2>1, <2>4
    <3>2. QED
      BY <3>1, <2>0 DEF Held, Rooted
  <2>5. QED
    BY <2>2, <2>3, <2>4
<1>3. row' \in [Tasks -> Rows]
  BY <1>2 DEF Claim
<1>4. QED
  BY <1>1, <1>2, <1>3

\* What was recorded keeps its time, and what is new gets that of its transaction.
LEMMA StampsTyped ==
    ASSUME TypeInv, [Next]_vars
    PROVE  stamps' \in [receipts' -> 1 .. MaxNow]
<1>0. /\ stamps \in [receipts -> 1 .. MaxNow]
      /\ reports \subseteq Reports /\ now \in 1 .. MaxNow
  BY DEF TypeInv, TypeOK
<1>1. ASSUME NEW at \in 1 .. MaxNow, stamps' = Stamped(at)
      PROVE  stamps' \in [receipts' -> 1 .. MaxNow]
  BY <1>0, <1>1 DEF Stamped
<1>2. CASE \E a \in Admissions : \E ts \in SUBSET (BudgetOf(a) \ created) : Create(a, ts)
  <2>1. PICK at \in 1 .. now : stamps' = Stamped(at)
    BY <1>2 DEF Create
  <2>2. at \in 1 .. MaxNow
    BY <1>0, <2>1, CampaignAssumption
  <2>3. QED
    BY <1>1, <2>1, <2>2
<1>3. CASE \E r \in reports, s \in Ends : End(r, s)
  <2>1. PICK r \in reports : stamps' = Stamped(r.at)
    BY <1>3 DEF End
  <2>2. r.at \in 1 .. MaxNow
    BY <1>0, <2>1 DEF Reports
  <2>3. QED
    BY <1>1, <2>1, <2>2
<1>4. CASE UNCHANGED <<receipts, stamps>>
  BY <1>0, <1>4
<1>5. QED
  BY <1>2, <1>3, <1>4 DEF Next, vars, RegisterFirst, RegisterSample, RegisterSuccessor,
     Attest, Claim, Requeue, Recover, Report, EndRefused

LEMMA TypesStep ==
    ASSUME TypeInv, [Next]_vars
    PROVE  TypeInv'
<1> USE CampaignAssumption
<1>15. stamps' \in [receipts' -> 1 .. MaxNow]
  BY StampsTyped
<1>0. /\ registered \in Seq(Admissions) /\ Registered \subseteq Admissions
      /\ attested \subseteq Authorizations /\ authorizations \subseteq attested
      /\ \A z \in authorizations : {z.prior, z.new} \subseteq Registered
      /\ created \subseteq Tasks /\ row \in [Tasks -> Rows]
      /\ reports \subseteq Reports /\ now \in 1 .. MaxNow
      /\ \A t \in Tasks : Held(t) => row[t].number >= 1
  BY DEF TypeInv, TypeOK, Rooted
<1>1. attested \subseteq Authorizations'
  BY <1>0, AuthoritiesStay
<1>2. ASSUME NEW a \in Admissions, RegisterFirst(a) \/ RegisterSample(a) PROVE TypeInv'
  <2>1. registered' \in Seq(Admissions) /\ Registered' = Registered \cup {a}
    <3>1. CASE RegisterFirst(a)
      <4>1. registered' = Append(registered, a)
        BY <3>1, <1>0 DEF RegisterFirst
      <4>2. QED
        BY <4>1, <1>0, RegisterOne
    <3>2. CASE RegisterSample(a)
      <4>1. registered' = Append(registered, a)
        BY <3>2 DEF RegisterSample
      <4>2. QED
        BY <4>1, <1>0, RegisterOne
    <3>3. QED
      BY <1>2, <3>1, <3>2
  <2>2. UNCHANGED <<attested, authorizations, receipts, stamps, created, row, reports, now>>
    BY <1>2 DEF RegisterFirst, RegisterSample
  <2>3. QED
    BY <1>0, <1>1, <2>1, <2>2, <1>15 DEF TypeInv, TypeOK, Rooted, Held
<1>3. ASSUME NEW z \in Authorizations, Attest(z) PROVE TypeInv'
  <2>1. attested' = attested \cup {z}
        /\ UNCHANGED <<registered, authorizations, receipts, stamps, created, row, reports, now>>
    BY <1>3 DEF Attest
  <2>2. Authorizations' = Authorizations /\ Registered' = Registered
    BY <2>1 DEF Authorizations, Registered
  <2>3. QED
    BY <1>0, <2>1, <2>2, <1>15 DEF TypeInv, TypeOK, Rooted, Held
<1>4. ASSUME NEW z \in Authorizations, RegisterSuccessor(z) PROVE TypeInv'
  <2>1. /\ z \in attested /\ z.prior \in Registered
        /\ registered' = Append(registered, z.new)
        /\ authorizations' = authorizations \cup {z}
        /\ UNCHANGED <<attested, receipts, stamps, created, row, reports, now>>
    BY <1>4 DEF RegisterSuccessor, Trusted
  <2>2. z.new \in Admissions
    BY DEF Authorizations
  <2>3. registered' \in Seq(Admissions) /\ Registered' = Registered \cup {z.new}
    BY <1>0, <2>1, <2>2, RegisterOne
  <2>4. \A y \in authorizations' : {y.prior, y.new} \subseteq Registered'
    BY <1>0, <2>1, <2>3
  <2>5. QED
    BY <1>0, <1>1, <2>1, <2>2, <2>3, <2>4, <1>15 DEF TypeInv, TypeOK, Rooted, Held
<1>5. ASSUME NEW a \in Admissions, NEW ts \in SUBSET (BudgetOf(a) \ created), Create(a, ts)
      PROVE  TypeInv'
  <2>1. created' \subseteq Tasks
    BY <1>0, <1>5 DEF Create, BudgetOf
  <2>2. UNCHANGED <<registered, attested, authorizations, row, reports, now>>
    BY <1>5 DEF Create, authorityVars
  <2>3. Registered' = Registered
    BY <2>2 DEF Registered
  <2>4. QED
    BY <1>0, <1>1, <2>1, <2>2, <2>3, <1>15 DEF TypeInv, TypeOK, Rooted, Held
<1>6. ASSUME UNCHANGED <<registered, attested, authorizations>>,
             created' \subseteq Tasks, row' \in [Tasks -> Rows], reports' \subseteq Reports,
             now' \in 1 .. MaxNow, \A t \in Tasks : Held(t)' => row'[t].number >= 1
      PROVE  TypeInv'
  <2>1. Registered' = Registered
    BY <1>6 DEF Registered
  <2>2. QED
    BY <1>0, <1>1, <1>6, <2>1, <1>15 DEF TypeInv, TypeOK, Rooted
<1>7. ASSUME NEW lapsed \in SUBSET {t \in Tasks : Held(t)}, NEW taken \in Singletons,
             Claim(lapsed, taken)
      PROVE  TypeInv'
  <2>1. /\ row' \in [Tasks -> Rows] /\ now' \in 1 .. MaxNow
        /\ \A t \in Tasks : Held(t)' => row'[t].number >= 1
    BY <1>7, ClaimTypes
  <2>2. UNCHANGED <<registered, attested, authorizations, created, reports>>
    BY <1>7 DEF Claim, authorityVars
  <2>3. QED
    BY <1>0, <1>6, <2>1, <2>2
<1>8. ASSUME NEW t \in Tasks, NEW s \in Requeues, Requeue(t, s) PROVE TypeInv'
  <2>1. /\ row' = [row EXCEPT ![t] = Marked(t, s, now)]
        /\ UNCHANGED <<registered, attested, authorizations, created, reports>>
        /\ now' = now + 1 /\ now < MaxNow
    BY <1>8 DEF Requeue, Tick, authorityVars
  <2>2. s \in RowStates \ {"CLAIMED"} /\ now \in 0 .. MaxNow /\ now' \in 1 .. MaxNow
    BY <1>0, <2>1 DEF RowStates, Returned, Requeues
  <2>3. QED
    BY <1>0, <1>6, <2>1, <2>2, RowsKept
<1>9. ASSUME NEW t \in Tasks, Recover(t) PROVE TypeInv'
  <2>1. /\ row' = [row EXCEPT ![t] = Marked(t, "RECOVERED", now)]
        /\ UNCHANGED <<registered, attested, authorizations, created, reports>>
        /\ now' = now + 1 /\ now < MaxNow
    BY <1>9 DEF Recover, Tick, authorityVars
  <2>2. "RECOVERED" \in RowStates \ {"CLAIMED"} /\ now \in 0 .. MaxNow /\ now' \in 1 .. MaxNow
    BY <1>0, <2>1 DEF RowStates, Returned
  <2>3. QED
    BY <1>0, <1>6, <2>1, <2>2, RowsKept
<1>10. ASSUME NEW t \in Tasks, Report(t) PROVE TypeInv'
  <2>1. /\ reports' = reports \cup {[task |-> t, number |-> row[t].number, at |-> now]}
        /\ UNCHANGED <<registered, attested, authorizations, created, row>>
        /\ now' = now + 1 /\ now < MaxNow /\ Held(t)
    BY <1>10 DEF Report, Tick, authorityVars
  <2>2. row[t].number \in 1 .. MaxAttempts
    BY <1>0, <2>1 DEF Rows
  <2>3. reports' \subseteq Reports
    BY <1>0, <2>1, <2>2 DEF Reports
  <2>4. now' \in 1 .. MaxNow
    BY <1>0, <2>1
  <2>5. QED
    BY <1>0, <1>6, <2>1, <2>3, <2>4 DEF Held
<1>11. ASSUME NEW r \in reports, NEW s \in Ends, End(r, s) PROVE TypeInv'
  <2>1. /\ row' = [row EXCEPT ![r.task] = Marked(r.task, s, r.at)]
        /\ reports' = reports \ {r}
        /\ UNCHANGED <<registered, attested, authorizations, created, now>>
    BY <1>11 DEF End, Ended, authorityVars
  <2>2. r.task \in Tasks /\ r.at \in 0 .. MaxNow /\ s \in RowStates \ {"CLAIMED"}
    BY <1>0 DEF Reports, RowStates, Ends, Scientific, Failures
  <2>3. QED
    BY <1>0, <1>6, <2>1, <2>2, RowsKept
<1>12. ASSUME NEW r \in reports, NEW s \in Ends, EndRefused(r, s) PROVE TypeInv'
  BY <1>0, <1>6, <1>12 DEF EndRefused, Held, authorityVars
<1>13. CASE UNCHANGED vars
  BY <1>0, <1>6, <1>13 DEF vars, Held, authorityVars
<1>14. QED
  BY <1>2, <1>3, <1>4, <1>5, <1>7, <1>8, <1>9, <1>10, <1>11, <1>12, <1>13 DEF Next

LEMMA TypesInit == Init => TypeInv
BY CampaignAssumption DEF Init, TypeInv, TypeOK, Rooted, Registered, Rows, RowStates, Held,
   Authorizations

\* Types, and where authority comes from, for every set of tasks: a succession in
\* force was attested for a decision on record.
THEOREM TypeCorrect == Spec => []TypeOK
<1>1. Init => TypeInv
  BY TypesInit
<1>2. TypeInv /\ [Next]_vars => TypeInv'
  BY TypesStep
<1>3. TypeInv => TypeOK
  BY DEF TypeInv
<1>4. QED
  BY <1>1, <1>2, <1>3, PTL DEF Spec

-----------------------------------------------------------------------------
(* A policy that was succeeded stays blocked. *)

\* What a succession resumed from is on record, and so stays there.
Paused == \A z \in authorizations : BlockingReceipts(PolicyOf[z.prior]) # {}

LEMMA PausedStep ==
    ASSUME Paused, [Next]_vars PROVE Paused'
<1>1. receipts \subseteq receipts'
  BY ReceiptsGrow
<1>2. \A p : BlockingReceipts(p) # {} => BlockingReceipts(p)' # {}
  BY <1>1 DEF BlockingReceipts
<1>3. ASSUME NEW z \in authorizations'
      PROVE  BlockingReceipts(PolicyOf[z.prior]) # {}
  <2>1. CASE z \in authorizations
    BY <2>1 DEF Paused
  <2>2. CASE \E y \in Authorizations : RegisterSuccessor(y)
    BY <2>2, <1>3 DEF RegisterSuccessor, FirstPause, Paused
  <2>3. CASE UNCHANGED authorizations
    BY <2>3, <1>3 DEF Paused
  <2>4. QED
    BY <2>1, <2>2, <2>3 DEF Next, vars, authorityVars, RegisterFirst, RegisterSample, Attest,
       Create, Claim, Requeue, Recover, Report, End, EndRefused
<1>4. QED
  BY <1>2, <1>3 DEF Paused

\* No task enters under a policy that has a successor, whatever the order in
\* which planners, workers and operators reach the mission lock.
THEOREM SucceededNeverGrows == Spec => OnlyActiveGrows
<1>1. Init => Paused
  BY DEF Init, Paused
<1>2. Paused /\ [Next]_vars => Paused'
  BY PausedStep
<1>3. Paused /\ [Next]_vars =>
        [\A t \in created' \ created :
            ~ \E z \in authorizations : PolicyOf[z.prior] = PolicyOf[AdmissionOf[t]]]_vars
  <2> SUFFICES ASSUME Paused, Next, NEW t \in created' \ created,
                      NEW z \in authorizations, PolicyOf[z.prior] = PolicyOf[AdmissionOf[t]]
               PROVE  FALSE
    BY DEF vars, authorityVars
  <2>1. PICK a \in Admissions : \E ts \in SUBSET BudgetOf(a) : Create(a, ts)
    BY DEF Next, RegisterFirst, RegisterSample, RegisterSuccessor, Attest, Claim, Requeue,
       Recover, Report, End, EndRefused
  <2>2. t \in BudgetOf(a) /\ Unblocked(PolicyOf[a])
    BY <2>1 DEF Create
  <2>3. PICK r \in receipts : r.policy = PolicyOf[a] /\ r.decision \in Blocking
    BY <2>2 DEF Paused, BlockingReceipts, BudgetOf
  <2>4. r \in receipts'
    BY <2>3, ReceiptsGrow
  <2>5. QED
    BY <2>2, <2>3, <2>4 DEF Unblocked
<1>4. QED
  BY <1>1, <1>2, <1>3, PTL DEF Spec, OnlyActiveGrows

-----------------------------------------------------------------------------
(* Blocks do not overlap. *)

\* The places of a block follow those of every earlier one.
LEMMA Multiples ==
    ASSUME NEW i \in Nat, NEW j \in Nat, i <= j
    PROVE  /\ i * BlockSize \in Nat /\ j * BlockSize \in Nat
           /\ i * BlockSize <= j * BlockSize
<1>0. BlockSize \in Nat
  BY CampaignAssumption
<1>1. PICK d \in Nat : j = i + d
  <2>1. j - i \in Nat /\ j = i + (j - i)
    OBVIOUS
  <2>2. QED
    BY <2>1
<1>2. j * BlockSize = i * BlockSize + d * BlockSize
  BY <1>0, <1>1, SMT
<1>3. i * BlockSize \in Nat /\ d * BlockSize \in Nat /\ j * BlockSize \in Nat
  BY <1>0, SMT
<1>4. QED
  BY <1>2, <1>3

LEMMA BlocksApart ==
    ASSUME NEW p, NEW last, NEW j \in Nat \ {0}, NEW k \in Nat \ {0}, j < k
    PROVE  Block(p, j, last) \cap Block(p, k, last) = {}
<1>1. SUFFICES ASSUME NEW t, t \in Block(p, j, last), t \in Block(p, k, last) PROVE FALSE
  OBVIOUS
<1>2. /\ j * BlockSize \in Nat /\ (k - 1) * BlockSize \in Nat
      /\ j * BlockSize <= (k - 1) * BlockSize
  <2>1. k - 1 \in Nat /\ j <= k - 1
    OBVIOUS
  <2>2. QED
    BY <2>1, Multiples
<1>3. k * BlockSize \in Nat /\ (j - 1) * BlockSize \in Nat
  <2>1. k <= k /\ j - 1 \in Nat /\ j - 1 <= j
    OBVIOUS
  <2>2. QED
    BY <2>1, Multiples
<1>4. Place(t, p, last) \in Int /\ Place(t, p, last) <= j * BlockSize
  BY <1>1, <1>2, <1>3 DEF Block
<1>5. Place(t, p, last) >= (k - 1) * BlockSize + 1
  BY <1>1, <1>2, <1>3 DEF Block
<1>6. QED
  BY <1>2, <1>4, <1>5

LEMMA CitedApart ==
    ASSUME NEW p, NEW last, NEW j \in Nat \ {0}, NEW k \in Nat \ {0}, j # k
    PROVE  BlockReceipt(p, j, last).cited \cap BlockReceipt(p, k, last).cited = {}
<1>1. Block(p, j, last) \cap Block(p, k, last) = {}
  <2>1. j < k \/ k < j
    OBVIOUS
  <2>2. QED
    BY <2>1, BlocksApart
<1>2. \A i : BlockReceipt(p, i, last).cited = Attempts(Block(p, i, last), last)
  BY DEF BlockReceipt, Receipt
<1>3. QED
  BY <1>1, <1>2 DEF Attempts

\* Whoever derives a block derives the ones before it.
LEMMA BlocksFromFirst ==
    ASSUME NEW p, NEW last, NEW k \in Blocks(p, last), NEW j \in 1 .. k - 1
    PROVE  j \in Blocks(p, last)
<1>1. Cardinality(Tasks) \in Nat /\ Cardinality(Counted(p, last)) \in Nat
  <2>1. IsFiniteSet(Tasks) /\ IsFiniteSet(Counted(p, last))
    BY CampaignAssumption, FS_Subset DEF Counted, TasksOf
  <2>2. QED
    BY <2>1, FS_CardinalityType
<1>2. /\ k \in 1 .. Cardinality(Tasks) /\ k * BlockSize <= Cardinality(Counted(p, last))
      /\ \A ij \in FirstPair(p, last) :
            \E u \in PairTasks(ij) : \A t \in Upto(p, k, last) : last[t].at < last[u].at
      /\ \A i \in 1 .. k - 1 : ~Pauses(p, i, last)
  BY DEF Blocks
<1>3. j \in 1 .. Cardinality(Tasks) /\ j \in Nat /\ k \in Nat /\ j <= k
  BY <1>1, <1>2
<1>4. j * BlockSize <= Cardinality(Counted(p, last))
  BY <1>1, <1>2, <1>3, Multiples
<1>5. Upto(p, j, last) \subseteq Upto(p, k, last)
  <2>1. 1 .. j \subseteq 1 .. k
    BY <1>3
  <2>2. QED
    BY <2>1 DEF Upto
<1>6. \A ij \in FirstPair(p, last) :
         \E u \in PairTasks(ij) : \A t \in Upto(p, j, last) : last[t].at < last[u].at
  BY <1>2, <1>5
<1>7. \A i \in 1 .. j - 1 : ~Pauses(p, i, last)
  BY <1>2, <1>3
<1>8. QED
  BY <1>3, <1>4, <1>6, <1>7 DEF Blocks

\* What the derived blocks look like.
LEMMA DerivedBlocks ==
    ASSUME NEW p, NEW last
    PROVE  /\ \A d \in Derived(p, last) : d.policy = p
           /\ \A d \in Derived(p, last) : d.kind = "BLOCK" =>
                \E k \in Blocks(p, last) : d = BlockReceipt(p, k, last)
           /\ \A k \in Blocks(p, last) :
                /\ BlockReceipt(p, k, last) \in Derived(p, last)
                /\ BlockReceipt(p, k, last).kind = "BLOCK"
                /\ BlockReceipt(p, k, last).policy = p
                /\ BlockReceipt(p, k, last).index = k
                /\ k \in Nat \ {0}
<1>1. \A d \in PairReceipts(p, last) : d.policy = p /\ d.kind = "PAIR"
  <2>1. \A ij : PairReceipt(p, ij, last).policy = p /\ PairReceipt(p, ij, last).kind = "PAIR"
    BY DEF PairReceipt, Receipt
  <2>2. QED
    BY <2>1 DEF PairReceipts
<1>2. \A d \in BlockReceipts(p, last) :
        \E k \in Blocks(p, last) : d = BlockReceipt(p, k, last)
  BY DEF BlockReceipts
<1>3. \A k : /\ BlockReceipt(p, k, last).kind = "BLOCK" /\ BlockReceipt(p, k, last).policy = p
             /\ BlockReceipt(p, k, last).index = k
  BY DEF BlockReceipt, Receipt
<1>4. /\ BlockReceipts(p, last) \subseteq Derived(p, last)
      /\ Derived(p, last) \subseteq BlockReceipts(p, last) \cup PairReceipts(p, last)
  BY DEF Derived
<1>5. \A k \in Blocks(p, last) : k \in Nat \ {0}
  <2>1. IsFiniteSet(Tasks)
    BY CampaignAssumption
  <2>2. Cardinality(Tasks) \in Nat
    BY <2>1, FS_CardinalityType
  <2>3. QED
    BY <2>2 DEF Blocks
<1>6. \A k \in Blocks(p, last) : BlockReceipt(p, k, last) \in Derived(p, last)
  BY <1>4 DEF BlockReceipts
<1>7. \A d \in Derived(p, last) : d.policy = p
  BY <1>1, <1>2, <1>3, <1>4
<1>8. \A d \in Derived(p, last) : d.kind = "BLOCK" =>
         \E k \in Blocks(p, last) : d = BlockReceipt(p, k, last)
  BY <1>1, <1>2, <1>4
<1>9. QED
  BY <1>3, <1>5, <1>6, <1>7, <1>8

\* The blocks on record of a policy are its first ones.
Consecutive ==
    \A r \in receipts : r.kind = "BLOCK" =>
        /\ r.index \in Nat \ {0}
        /\ \A j \in 1 .. r.index - 1 :
              \E q \in receipts : q.kind = "BLOCK" /\ q.policy = r.policy /\ q.index = j

LEMMA ConsecutiveStep ==
    ASSUME Consecutive, [Next]_vars PROVE Consecutive'
<1>1. CASE UNCHANGED receipts
  BY <1>1 DEF Consecutive
<1>2. ASSUME NEW p, NEW last, Agrees(Derived(p, last)), receipts' = Written(Derived(p, last))
      PROVE  Consecutive'
  <2>1. receipts \subseteq receipts'
    BY <1>2 DEF Written
  <2>2. ASSUME NEW k \in Blocks(p, last)
        PROVE  \E q \in receipts' : q.kind = "BLOCK" /\ q.policy = p /\ q.index = k
    <3>1. /\ BlockReceipt(p, k, last) \in Derived(p, last)
          /\ BlockReceipt(p, k, last).kind = "BLOCK"
          /\ BlockReceipt(p, k, last).policy = p /\ BlockReceipt(p, k, last).index = k
      BY DerivedBlocks
    <3>2. CASE \E q \in receipts : SameSlot(q, BlockReceipt(p, k, last))
      BY <2>1, <3>1, <3>2 DEF SameSlot
    <3>3. CASE \A q \in receipts : ~SameSlot(q, BlockReceipt(p, k, last))
      BY <1>2, <3>1, <3>3 DEF Written
    <3>4. QED
      BY <3>2, <3>3
  <2>3. ASSUME NEW r \in receipts', r.kind = "BLOCK"
        PROVE  /\ r.index \in Nat \ {0}
               /\ \A j \in 1 .. r.index - 1 :
                    \E q \in receipts' : q.kind = "BLOCK" /\ q.policy = r.policy /\ q.index = j
    <3>1. CASE r \in receipts
      BY <2>1, <2>3, <3>1 DEF Consecutive
    <3>2. CASE r \in Derived(p, last)
      <4>1. PICK k \in Blocks(p, last) : r = BlockReceipt(p, k, last)
        BY <2>3, <3>2, DerivedBlocks
      <4>2. r.index = k /\ r.policy = p /\ k \in Nat \ {0}
        BY <4>1, DerivedBlocks
      <4>3. \A j \in 1 .. k - 1 : j \in Blocks(p, last)
        BY BlocksFromFirst
      <4>4. QED
        BY <2>2, <4>2, <4>3
    <3>3. QED
      BY <1>2, <3>1, <3>2 DEF Written
  <2>4. QED
    BY <2>3 DEF Consecutive
<1>3. QED
  BY <1>1, <1>2, ReceiptSteps

LEMMA ApartStep ==
    ASSUME Consecutive, NoAttemptCountedTwice, [Next]_vars
    PROVE  NoAttemptCountedTwice'
<1>1. CASE UNCHANGED receipts
  BY <1>1 DEF NoAttemptCountedTwice
<1>2. ASSUME NEW p, NEW last, Agrees(Derived(p, last)), receipts' = Written(Derived(p, last))
      PROVE  NoAttemptCountedTwice'
  <2>1. ASSUME NEW r \in Derived(p, last), NEW q \in Derived(p, last),
               r.kind = "BLOCK", q.kind = "BLOCK", r # q
        PROVE  r.cited \cap q.cited = {}
    <3>1. PICK j \in Blocks(p, last) : r = BlockReceipt(p, j, last)
      BY <2>1, DerivedBlocks
    <3>2. PICK k \in Blocks(p, last) : q = BlockReceipt(p, k, last)
      BY <2>1, DerivedBlocks
    <3>3. j \in Nat \ {0} /\ k \in Nat \ {0} /\ j # k
      BY <2>1, <3>1, <3>2, DerivedBlocks
    <3>4. QED
      BY <3>1, <3>2, <3>3, CitedApart
  <2>2. ASSUME NEW r \in receipts, NEW q \in receipts', q \notin receipts,
               r.kind = "BLOCK", q.kind = "BLOCK", r.policy = q.policy
        PROVE  r.cited \cap q.cited = {}
    <3>1. q \in Derived(p, last) /\ \A x \in receipts : ~SameSlot(x, q)
      BY <1>2, <2>2 DEF Written
    <3>2. PICK k \in Blocks(p, last) : q = BlockReceipt(p, k, last)
      BY <2>2, <3>1, DerivedBlocks
    <3>3. q.index = k /\ q.policy = p /\ k \in Nat \ {0}
      BY <3>2, DerivedBlocks
    <3>4. r.index \in Nat \ {0} /\ r.index < k
      <4>1. /\ r.index \in Nat \ {0}
            /\ \A j \in 1 .. r.index - 1 :
                 \E x \in receipts : x.kind = "BLOCK" /\ x.policy = r.policy /\ x.index = j
        BY <2>2 DEF Consecutive
      <4>2. r.index # k
        BY <2>2, <3>1, <3>3 DEF SameSlot
      <4>3. ~(k < r.index)
        <5>1. SUFFICES ASSUME k < r.index PROVE FALSE
          OBVIOUS
        <5>2. k \in 1 .. r.index - 1
          BY <3>3, <4>1, <5>1
        <5>3. PICK x \in receipts : x.kind = "BLOCK" /\ x.policy = r.policy /\ x.index = k
          BY <4>1, <5>2
        <5>4. QED
          BY <2>2, <3>1, <3>3, <5>3 DEF SameSlot
      <4>4. QED
        BY <3>3, <4>1, <4>2, <4>3
    <3>5. r.index \in Blocks(p, last)
      BY <3>3, <3>4, BlocksFromFirst
    <3>6. r = BlockReceipt(p, r.index, last)
      <4>1. /\ BlockReceipt(p, r.index, last) \in Derived(p, last)
            /\ SameSlot(r, BlockReceipt(p, r.index, last))
        <5>1. LET d == BlockReceipt(p, r.index, last) IN
              d \in Derived(p, last) /\ d.kind = "BLOCK" /\ d.policy = p /\ d.index = r.index
          BY <3>5, DerivedBlocks
        <5>2. QED
          BY <2>2, <3>3, <5>1 DEF SameSlot
      <4>2. QED
        BY <1>2, <4>1 DEF Agrees
    <3>7. r \in Derived(p, last)
      BY <3>5, <3>6, DerivedBlocks
    <3>8. QED
      BY <2>1, <2>2, <3>1, <3>7
  <2>3. ASSUME NEW r \in receipts', NEW q \in receipts',
               r.kind = "BLOCK", q.kind = "BLOCK", r.policy = q.policy, r # q
        PROVE  r.cited \cap q.cited = {}
    <3>1. CASE r \in receipts /\ q \in receipts
      BY <2>3, <3>1 DEF NoAttemptCountedTwice
    <3>2. CASE r \in receipts /\ q \notin receipts
      BY <2>2, <2>3, <3>2
    <3>3. CASE r \notin receipts /\ q \in receipts
      BY <2>2, <2>3, <3>3
    <3>4. CASE r \notin receipts /\ q \notin receipts
      <4>1. r \in Derived(p, last) /\ q \in Derived(p, last)
        BY <1>2, <3>4 DEF Written
      <4>2. QED
        BY <2>1, <2>3, <4>1
    <3>5. QED
      BY <3>1, <3>2, <3>3, <3>4
  <2>4. QED
    BY <2>3 DEF NoAttemptCountedTwice
<1>3. QED
  BY <1>1, <1>2, ReceiptSteps

\* No attempt is evidence of two blocks of its policy, although every end derives
\* all blocks anew from attempts whose order may have changed: a block is written
\* only where every earlier one came out as it is on record.
THEOREM NeverCountedTwice == Spec => []NoAttemptCountedTwice
<1>1. Init => Consecutive /\ NoAttemptCountedTwice
  BY DEF Init, Consecutive, NoAttemptCountedTwice
<1>2. Consecutive /\ NoAttemptCountedTwice /\ [Next]_vars
        => Consecutive' /\ NoAttemptCountedTwice'
  BY ConsecutiveStep, ApartStep
<1>3. QED
  BY <1>1, <1>2, PTL DEF Spec

-----------------------------------------------------------------------------
(* Starvation is seen. *)

LEMMA Least ==
    ASSUME NEW S \in SUBSET Nat, S # {} PROVE \E x \in S : \A y \in S : x <= y
<1>1. PICK R : R = OpToRel(<, Nat)
  OBVIOUS
<1>2. IsWellFoundedOn(R, Nat)
  BY <1>1, NatLessThanWellFounded
<1>3. \A x, y \in Nat : y < x => <<y, x>> \in R
  BY <1>1 DEF OpToRel
<1>4. PICK x \in S : \A y \in S : ~ (<<y, x>> \in R)
  BY <1>2, WFMin
<1>5. \A y \in S : ~(y < x)
  BY <1>3, <1>4
<1>6. QED
  BY <1>5

\* A policy is starved when some whole block or some pair is, whatever the rules
\* make of the attempts that are left out and of the order of the two.
WholeBarren(p, k, last) ==
    /\ k * BlockSize <= Cardinality(Counted(p, last))
    /\ Cardinality(Barren(Block(p, k, last), last)) >= PauseCount

Starved(p, last) ==
    \/ \E k \in 1 .. Cardinality(Tasks) : WholeBarren(p, k, last)
    \/ SpentPairs(p, last) # {}

LEMMA PausedIsStarved ==
    ASSUME NEW p, NEW last, NEW d \in Derived(p, last),
           d.decision = "PAUSE_CANDIDATE_STARVATION"
    PROVE  Starved(p, last)
<1>1. CASE d \in BlockReceipts(p, last)
  <2>1. PICK k \in Blocks(p, last) : d = BlockReceipt(p, k, last)
    BY <1>1 DEF BlockReceipts
  <2>2. d.decision = BlockDecision(Block(p, k, last), Window(p, k, last), last)
    BY <2>1 DEF BlockReceipt, Receipt
  <2>3. Cardinality(Barren(Block(p, k, last), last)) >= PauseCount
    BY <2>2 DEF BlockDecision
  <2>4. QED
    BY <2>3 DEF Blocks, Starved, WholeBarren
<1>2. CASE d \in PairReceipts(p, last)
  BY <1>2 DEF PairReceipts, FirstPair, Starved
<1>3. QED
  BY <1>1, <1>2 DEF Derived

LEMMA FirstPairExists ==
    ASSUME NEW p, NEW last, registered \in Seq(Admissions), SpentPairs(p, last) # {}
    PROVE  FirstPair(p, last) # {}
<1> DEFINE S == {ij[1] : ij \in SpentPairs(p, last)}
<1>1. S \in SUBSET Nat
  BY DEF SpentPairs
<1>2. PICK x \in S : \A y \in S : x <= y
  <2>1. S # {}
    OBVIOUS
  <2> HIDE DEF S
  <2>2. QED
    BY <1>1, <2>1, Least
<1>3. QED
  BY <1>2 DEF FirstPair

\* Whoever derives the decisions of a starved policy derives one that blocks it.
LEMMA StarvedIsBlocked ==
    ASSUME NEW p, NEW last, registered \in Seq(Admissions), Starved(p, last)
    PROVE  \E d \in Derived(p, last) : d.policy = p /\ d.decision \in Blocking
<1>0. IsFiniteSet(Tasks) /\ Cardinality(Tasks) \in Nat
  BY CampaignAssumption, FS_CardinalityType
<1>1. CASE \E k \in Blocks(p, last) : Pauses(p, k, last)
  BY <1>1, DerivedBlocks DEF Pauses, Blocking
<1>2. CASE /\ \A k \in Blocks(p, last) : ~Pauses(p, k, last)
           /\ SpentPairs(p, last) # {}
  <2>1. PICK ij \in FirstPair(p, last) : TRUE
    BY <1>2, FirstPairExists
  <2>2. PairReceipt(p, ij, last) \in Derived(p, last)
    BY <1>2 DEF Derived, PairReceipts
  <2>3. PairReceipt(p, ij, last).policy = p
        /\ PairReceipt(p, ij, last).decision = "PAUSE_CANDIDATE_STARVATION"
    BY DEF PairReceipt, Receipt
  <2>4. QED
    BY <2>2, <2>3 DEF Blocking
<1>3. CASE /\ \A k \in Blocks(p, last) : ~Pauses(p, k, last)
           /\ SpentPairs(p, last) = {}
  <2> DEFINE S == {k \in 1 .. Cardinality(Tasks) : WholeBarren(p, k, last)}
  <2>1. S \in SUBSET Nat /\ S # {}
    BY <1>0, <1>3 DEF Starved
  <2>2. PICK k \in S : \A y \in S : k <= y
    BY <2>1, Least
  <2>3. k \in Nat \ {0} /\ k \in 1 .. Cardinality(Tasks) /\ WholeBarren(p, k, last)
    BY <1>0, <2>2
  <2>4. FirstPair(p, last) = {}
    BY <1>3 DEF FirstPair
  <2>5. ASSUME NEW j \in 1 .. k - 1 PROVE ~Pauses(p, j, last)
    <3>1. j \in Nat /\ j <= k /\ j \in 1 .. Cardinality(Tasks) /\ ~(k <= j)
      BY <1>0, <2>3
    <3>2. ~WholeBarren(p, j, last)
      BY <2>2, <3>1
    <3>3. IsFiniteSet(Counted(p, last))
      BY <1>0, FS_Subset DEF Counted, TasksOf
    <3>4. Cardinality(Counted(p, last)) \in Nat
      BY <3>3, FS_CardinalityType
    <3>5. j * BlockSize <= Cardinality(Counted(p, last))
      BY <2>3, <3>1, <3>4, Multiples DEF WholeBarren
    <3>6. ~(Cardinality(Barren(Block(p, j, last), last)) >= PauseCount)
      BY <3>2, <3>5 DEF WholeBarren
    <3>7. BlockReceipt(p, j, last).decision
            = BlockDecision(Block(p, j, last), Window(p, j, last), last)
      BY DEF BlockReceipt, Receipt
    <3>8. QED
      BY <3>6, <3>7 DEF Pauses, BlockDecision
  <2>6. k \in Blocks(p, last)
    BY <2>3, <2>4, <2>5 DEF Blocks, WholeBarren
  <2>7. BlockReceipt(p, k, last).decision
          = BlockDecision(Block(p, k, last), Window(p, k, last), last)
    BY DEF BlockReceipt, Receipt
  <2>8. BlockReceipt(p, k, last).decision \in Blocking
    BY <2>3, <2>7 DEF BlockDecision, Blocking, WholeBarren
  <2>9. QED
    BY <2>6, <2>8, DerivedBlocks
<1>4. QED
  BY <1>1, <1>2, <1>3

\* Only attempts that count can starve a policy.
LEMMA CountedDecide ==
    ASSUME NEW p, NEW old, NEW new, Starved(p, new),
           \A t \in TasksOf(p) :
              old[t].state \in Scientific \/ new[t].state \in Scientific => new[t] = old[t]
    PROVE  Starved(p, old)
<1>1. Counted(p, new) = Counted(p, old)
  BY DEF Counted
<1>2. \A t \in Counted(p, new) : new[t] = old[t]
  BY DEF Counted
<1>3. ASSUME NEW t \in Counted(p, new) PROVE Place(t, p, new) = Place(t, p, old)
  <2>1. {u \in Counted(p, new) : new[u].at <= new[t].at}
          = {u \in Counted(p, old) : old[u].at <= old[t].at}
    BY <1>1, <1>2
  <2>2. QED
    BY <2>1 DEF Place
<1>4. \A k : Block(p, k, new) = Block(p, k, old)
  BY <1>1, <1>3 DEF Block
<1>5. \A k : Barren(Block(p, k, new), new) = Barren(Block(p, k, old), old)
  BY <1>2, <1>4 DEF Barren, Block
<1>6. SpentPairs(p, new) \subseteq SpentPairs(p, old)
  <2>1. ASSUME NEW a, PolicyOf[a] = p, Spent(a, new) PROVE Spent(a, old)
    BY <2>1 DEF Spent, BudgetOf, TasksOf, Scientific
  <2>2. QED
    BY <2>1 DEF SpentPairs, Follows
<1>7. QED
  BY <1>1, <1>5, <1>6 DEF Starved, WholeBarren

\* What is derived is on record once it is written.
LEMMA DerivedIsWritten ==
    ASSUME NEW D, Agrees(D), receipts' = Written(D)
    PROVE  D \subseteq receipts'
BY DEF Agrees, Written

\* A task that was ever claimed has entered, under a registered admission.
Entered ==
    /\ \A t \in Tasks : row[t].state # "none" => t \in created
    /\ \A t \in created : AdmissionOf[t] \in Registered

LEMMA EnteredStep ==
    ASSUME TypeInv, Entered, [Next]_vars PROVE Entered'
<1>1. /\ registered \in Seq(Admissions) /\ created \subseteq Tasks
      /\ row \in [Tasks -> Rows] /\ reports \subseteq Reports
  BY DEF TypeInv, TypeOK, Rooted
<1>2. Registered \subseteq Registered'
  <2>1. ASSUME NEW a \in Admissions, registered' = Append(registered, a)
        PROVE  Registered \subseteq Registered'
    BY <1>1, <2>1, RegisterOne
  <2>2. CASE UNCHANGED registered
    BY <2>2 DEF Registered
  <2>3. CASE \E a \in Admissions : RegisterFirst(a)
    BY <2>3 DEF RegisterFirst, Registered
  <2>4. CASE \E a \in Admissions : RegisterSample(a)
    BY <2>1, <2>4 DEF RegisterSample
  <2>5. CASE \E z \in Authorizations : RegisterSuccessor(z)
    BY <2>1, <2>5 DEF RegisterSuccessor, Authorizations
  <2>6. QED
    BY <2>2, <2>3, <2>4, <2>5 DEF Next, vars, authorityVars, Attest, Create, Claim, Requeue,
       Recover, Report, End, EndRefused
<1>3. created \subseteq created' /\ \A t \in created' \ created : AdmissionOf[t] \in Registered
  BY DEF Next, vars, authorityVars, RegisterFirst, RegisterSample, RegisterSuccessor, Attest,
     Create, BudgetOf, Claim, Requeue, Recover, Report, End, EndRefused
<1>4. ASSUME NEW t \in Tasks, row'[t].state # "none", row[t].state = "none"
      PROVE  t \in created
  <2>1. CASE UNCHANGED row
    BY <1>4, <2>1
  <2>2. CASE \E lapsed \in SUBSET {u \in Tasks : Held(u)}, taken \in Singletons :
                Claim(lapsed, taken)
    <3>1. PICK lapsed \in SUBSET {u \in Tasks : Held(u)}, taken \in Singletons :
             Claim(lapsed, taken)
      BY <2>2
    <3>2. ~Held(t)
      BY <1>4 DEF Held
    <3>3. CASE t \in taken
      BY <3>1, <3>2, <3>3 DEF Claim, Waiting
    <3>4. CASE t \notin taken
      <4>1. row'[t] = row[t]
        <5>1. row'[t] = CASE t \in taken ->
                             [number |-> row[t].number + 1, state |-> "CLAIMED", at |-> 0]
                          [] t \in lapsed \ taken -> Marked(t, "LEASE_EXPIRED", now)
                          [] OTHER -> row[t]
          BY <3>1 DEF Claim
        <5>2. t \notin lapsed
          BY <3>2
        <5>3. QED
          BY <3>4, <5>1, <5>2
      <4>2. QED
        BY <1>4, <4>1
    <3>5. QED
      BY <3>3, <3>4
  <2>3. ASSUME NEW u \in Tasks, NEW s, NEW at, row[u].state # "none",
               row' = [row EXCEPT ![u] = Marked(u, s, at)]
        PROVE  FALSE
    BY <1>1, <1>4, <2>3
  <2>4. CASE \E u \in Tasks : Recover(u) \/ \E s \in Requeues : Requeue(u, s)
    BY <2>3, <2>4 DEF Recover, Requeue, Held, Failures
  <2>5. CASE \E r \in reports, s \in Ends : End(r, s)
    BY <1>1, <2>3, <2>5 DEF End, Ended, Owns, Held, Reports
  <2>6. QED
    BY <2>1, <2>2, <2>4, <2>5 DEF Next, vars, authorityVars, RegisterFirst, RegisterSample,
       RegisterSuccessor, Attest, Create, Report, EndRefused
<1>5. QED
  BY <1>2, <1>3, <1>4 DEF Entered

\* Every starved policy is blocked on record.
Watched == \A p \in Policies : Starved(p, row) => BlockingReceipts(p) # {}

LEMMA RegisteringStarvesNone ==
    ASSUME TypeInv, Entered, NEW a \in Admissions, BudgetOf(a) # {}, a \notin Registered,
           registered' = Append(registered, a), row' = row,
           NEW p, Starved(p, row)'
    PROVE  Starved(p, row)
<1> DEFINE n == Len(registered)
<1>1. registered \in Seq(Admissions) /\ created \subseteq Tasks
  BY DEF TypeInv, TypeOK, Rooted
<1>2. /\ n \in Nat /\ DOMAIN registered = 1 .. n /\ DOMAIN registered' = 1 .. n + 1
      /\ \A i \in 1 .. n : registered'[i] = registered[i]
      /\ registered'[n + 1] = a
  BY <1>1
<1>3. ~Spent(a, row)
  BY DEF Spent, Entered, BudgetOf
<1>4. SpentPairs(p, row)' \subseteq SpentPairs(p, row)
  <2> SUFFICES ASSUME NEW ij \in SpentPairs(p, row)' PROVE ij \in SpentPairs(p, row)
    OBVIOUS
  <2>1. /\ ij \in (1 .. n + 1) \X (1 .. n + 1) /\ ij[1] < ij[2]
        /\ Follows(p, ij[1], ij[2])'
        /\ SampleOf[registered'[ij[1]]] # SampleOf[registered'[ij[2]]]
        /\ Spent(registered'[ij[1]], row) /\ Spent(registered'[ij[2]], row)
    BY <1>2 DEF SpentPairs, Follows, Spent
  <2>2. ij[2] # n + 1
    BY <1>2, <1>3, <2>1
  <2>3. ij[1] \in 1 .. n /\ ij[2] \in 1 .. n
    BY <1>2, <2>1, <2>2
  <2>4. Follows(p, ij[1], ij[2])
    <3>1. /\ PolicyOf[registered'[ij[1]]] = p /\ PolicyOf[registered'[ij[2]]] = p
          /\ \A k \in ij[1] + 1 .. ij[2] - 1 : PolicyOf[registered'[k]] # p
      BY <2>1 DEF Follows
    <3>2. \A k \in ij[1] + 1 .. ij[2] - 1 : k \in 1 .. n
      BY <1>2, <2>3
    <3>3. QED
      BY <1>2, <2>1, <2>3, <3>1, <3>2 DEF Follows
  <2>5. ij \in (DOMAIN registered) \X (DOMAIN registered)
    BY <1>2, <2>1, <2>3
  <2>6. QED
    BY <1>2, <2>1, <2>3, <2>4, <2>5 DEF SpentPairs
<1>5. QED
  BY <1>4 DEF Starved, WholeBarren

LEMMA WatchedStep ==
    ASSUME TypeInv, Entered, Watched, [Next]_vars,
           \A a \in Admissions : BudgetOf(a) # {}
    PROVE  Watched'
<1>0. /\ registered \in Seq(Admissions) /\ created \subseteq Tasks
      /\ row \in [Tasks -> Rows] /\ reports \subseteq Reports
  BY DEF TypeInv, TypeOK, Rooted
<1>1. \A p : BlockingReceipts(p) # {} => BlockingReceipts(p)' # {}
  BY ReceiptsGrow DEF BlockingReceipts
<1>2. SUFFICES ASSUME NEW p \in Policies, Starved(p, row)'
               PROVE  Starved(p, row) \/ BlockingReceipts(p)' # {}
  BY <1>1 DEF Watched
<1>3. ASSUME UNCHANGED registered PROVE Starved(p, row')
  BY <1>2, <1>3 DEF Starved, SpentPairs, Follows, WholeBarren
<1>4. ASSUME NEW a \in Admissions, a \notin Registered,
             registered' = Append(registered, a), row' = row
      PROVE  Starved(p, row)
  BY <1>2, <1>4, RegisteringStarvesNone
<1>5. CASE \E a \in Admissions : RegisterFirst(a) \/ RegisterSample(a)
  <2>1. PICK a \in Admissions : RegisterFirst(a) \/ RegisterSample(a)
    BY <1>5
  <2>2. a \notin Registered /\ registered' = Append(registered, a) /\ row' = row
    <3>1. CASE RegisterFirst(a)
      <4>1. registered = <<>> /\ registered' = <<a>> /\ row' = row
        BY <3>1 DEF RegisterFirst
      <4>2. registered' = Append(registered, a)
        BY <1>0, <4>1
      <4>3. Registered = {}
        BY <4>1 DEF Registered
      <4>4. QED
        BY <4>1, <4>2, <4>3
    <3>2. CASE RegisterSample(a)
      BY <3>2 DEF RegisterSample
    <3>3. QED
      BY <2>1, <3>1, <3>2
  <2>3. QED
    BY <1>4, <2>2
<1>6. CASE \E z \in Authorizations : RegisterSuccessor(z)
  BY <1>4, <1>6 DEF RegisterSuccessor, Authorizations
<1>7. ASSUME UNCHANGED <<registered, row>> PROVE Starved(p, row)
  BY <1>3, <1>7
<1>8. ASSUME UNCHANGED registered,
             \A t \in Tasks : row[t].state \in Scientific \/ row'[t].state \in Scientific
                                => row'[t] = row[t]
      PROVE  Starved(p, row)
  BY <1>3, <1>8, CountedDecide DEF TasksOf
<1>9. CASE \E lapsed \in SUBSET {t \in Tasks : Held(t)}, taken \in Singletons :
              Claim(lapsed, taken)
  <2>1. PICK lapsed \in SUBSET {t \in Tasks : Held(t)}, taken \in Singletons :
           Claim(lapsed, taken)
    BY <1>9
  <2>2. ASSUME NEW t \in Tasks, row[t].state \in Scientific \/ row'[t].state \in Scientific
        PROVE  row'[t] = row[t]
    <3>1. row'[t] = CASE t \in taken ->
                         [number |-> row[t].number + 1, state |-> "CLAIMED", at |-> 0]
                      [] t \in lapsed \ taken -> Marked(t, "LEASE_EXPIRED", now)
                      [] OTHER -> row[t]
      BY <2>1 DEF Claim
    <3>2. CASE t \in taken
      <4>1. row'[t].state = "CLAIMED"
        BY <3>1, <3>2
      <4>2. row[t].state \notin Scientific
        BY <2>1, <3>2 DEF Claim, Waiting, Held, Scientific, Returned, Requeues
      <4>3. QED
        BY <2>2, <4>1, <4>2 DEF Scientific
    <3>3. CASE t \in lapsed \ taken
      <4>1. row'[t] = Marked(t, "LEASE_EXPIRED", now)
        BY <3>1, <3>3
      <4>2. row'[t].state = "LEASE_EXPIRED"
        BY <1>0, <4>1 DEF Marked, Rows
      <4>3. row[t].state \notin Scientific
        BY <3>3 DEF Held, Scientific
      <4>4. QED
        BY <2>2, <4>2, <4>3 DEF Scientific
    <3>4. CASE t \notin taken /\ t \notin lapsed \ taken
      BY <3>1, <3>4
    <3>5. QED
      BY <3>2, <3>3, <3>4
  <2>3. UNCHANGED registered
    BY <2>1 DEF Claim, authorityVars
  <2>4. QED
    BY <1>8, <2>2, <2>3
<1>10. ASSUME NEW u \in Tasks, NEW s, NEW at, UNCHANGED registered,
              row[u].state \notin Scientific, s \notin Scientific,
              row' = [row EXCEPT ![u] = Marked(u, s, at)]
       PROVE  Starved(p, row)
  <2>1. Marked(u, s, at).state = s
    BY <1>0 DEF Marked, Rows
  <2>2. \A t \in Tasks : row'[t] = IF t = u THEN Marked(u, s, at) ELSE row[t]
    BY <1>0, <1>10
  <2>3. QED
    BY <1>8, <1>10, <2>1, <2>2
<1>11. CASE \E t \in Tasks : Recover(t) \/ \E s \in Requeues : Requeue(t, s)
  BY <1>10, <1>11 DEF Recover, Requeue, Held, Requeues, Scientific, Failures, authorityVars
<1>12. CASE \E r \in reports, s \in Ends : End(r, s)
  <2>1. PICK r \in reports, s \in Ends : End(r, s)
    BY <1>12
  <2> DEFINE q == PolicyOf[AdmissionOf[r.task]]
  <2>2. /\ r.task \in Tasks /\ UNCHANGED registered /\ row' = Ended(r, s)
        /\ Agrees(Derived(q, row')) /\ receipts' = Written(Derived(q, row'))
    BY <1>0, <2>1 DEF End, Reports, authorityVars
  <2>3. CASE p = q
    <3>1. PICK d \in Derived(p, row') : d.policy = p /\ d.decision \in Blocking
      BY <1>0, <1>3, <2>2, StarvedIsBlocked
    <3>2. d \in receipts'
      BY <2>2, <2>3, <3>1, DerivedIsWritten
    <3>3. QED
      BY <3>1, <3>2 DEF BlockingReceipts
  <2>4. CASE p # q
    <3>1. \A t \in TasksOf(p) : t \in Tasks /\ t # r.task
      BY <2>4 DEF TasksOf
    <3>2. \A t \in TasksOf(p) : row'[t] = row[t]
      BY <1>0, <2>2, <3>1 DEF Ended
    <3>3. Starved(p, row')
      BY <1>3, <2>2
    <3>4. QED
      BY <3>2, <3>3, CountedDecide
  <2>5. QED
    BY <2>3, <2>4
<1>13. QED
  BY <1>5, <1>6, <1>7, <1>9, <1>11, <1>12 DEF Next, vars, authorityVars, Attest, Create,
     Report, EndRefused

\* No pause is left for the next caller to find: whatever lapses, returns, is
\* reopened or is registered between two ends, a policy whose attempts on record
\* show it starved has a decision on record that blocks it.
THEOREM StarvationAlwaysSeen ==
    ASSUME \A a \in Admissions : BudgetOf(a) # {}
    PROVE  Spec => []StarvationIsSeen
<1> DEFINE IInv == TypeInv /\ Entered /\ Watched
<1>1. Init => IInv
  <2> SUFFICES ASSUME Init PROVE IInv
    OBVIOUS
  <2>1. Entered
    BY DEF Init, Entered
  <2>2. ASSUME NEW p \in Policies, Starved(p, row) PROVE FALSE
    <3>1. Counted(p, row) = {} /\ SpentPairs(p, row) = {}
      BY DEF Init, Counted, TasksOf, Scientific, SpentPairs
    <3>2. PICK k \in 1 .. Cardinality(Tasks) : k * BlockSize <= Cardinality({})
      BY <2>2, <3>1 DEF Starved, WholeBarren
    <3>3. k \in Nat \ {0} /\ Cardinality({}) = 0 /\ BlockSize \in Nat \ {0}
      <4>1. Cardinality(Tasks) \in Nat
        BY CampaignAssumption, FS_CardinalityType
      <4>2. QED
        BY <4>1, FS_EmptySet, CampaignAssumption
    <3>4. 1 * BlockSize <= k * BlockSize
      BY <3>3, Multiples
    <3>5. k * BlockSize \in Nat /\ k * BlockSize <= 0
      BY <3>2, <3>3, Multiples
    <3>6. QED
      BY <3>3, <3>4, <3>5
  <2>3. QED
    BY <2>1, <2>2, TypesInit DEF Watched
<1>2. IInv /\ [Next]_vars => IInv'
  BY TypesStep, EnteredStep, WatchedStep DEF BudgetOf
<1>3. IInv => StarvationIsSeen
  BY PausedIsStarved DEF StarvationIsSeen, Watched
<1>4. QED
  BY <1>1, <1>2, <1>3, PTL DEF Spec

-----------------------------------------------------------------------------
(* The rows follow the lifecycle of the queue. *)

LastState(t) == IF Held(t) THEN "held" ELSE row[t].state

\* What a step does to one row.
RowStays(t) == row'[t] = row[t]

RowTaken(t) ==
    /\ LastState(t) \in Returned \cup {"none", "held"}
    /\ row'[t].number = row[t].number + 1
    /\ row'[t].state = "CLAIMED"

RowMarked(t, s) == row'[t].number = row[t].number /\ row'[t].state = s

RowLeft(t) == Held(t) /\ \E s \in Requeues \cup Ends \cup {"LEASE_EXPIRED"} : RowMarked(t, s)

RowReopened(t) == row[t].state \in Failures /\ RowMarked(t, "RECOVERED")

\* A row is opened, left, reopened or stays; one at a time is opened.
LEMMA RowsMove ==
    ASSUME TypeInv, [Next]_vars
    PROVE  /\ \A t \in Tasks : RowStays(t) \/ RowTaken(t) \/ RowLeft(t) \/ RowReopened(t)
           /\ \A t, u \in Tasks : row'[t].number # row[t].number /\ row'[u].number # row[u].number
                                 => t = u
<1>0. row \in [Tasks -> Rows] /\ reports \subseteq Reports /\ now \in 1 .. MaxNow
      /\ \A t \in Tasks : row[t].number \in Nat
  BY DEF TypeInv, TypeOK, Rows
<1>1. ASSUME NEW lapsed \in SUBSET {t \in Tasks : Held(t)}, NEW taken \in Singletons,
             Claim(lapsed, taken)
      PROVE  /\ \A t \in Tasks : RowStays(t) \/ RowTaken(t) \/ RowLeft(t)
             /\ \A t \in Tasks : row'[t].number # row[t].number => t \in taken
  <2> SUFFICES ASSUME NEW t \in Tasks
               PROVE  /\ RowStays(t) \/ RowTaken(t) \/ RowLeft(t)
                      /\ row'[t].number # row[t].number => t \in taken
    OBVIOUS
  <2>1. row'[t] = CASE t \in taken -> [number |-> row[t].number + 1, state |-> "CLAIMED", at |-> 0]
                    [] t \in lapsed \ taken -> Marked(t, "LEASE_EXPIRED", now)
                    [] OTHER -> row[t]
    BY <1>1 DEF Claim
  <2>2. CASE t \in taken
    <3>1. row'[t] = [number |-> row[t].number + 1, state |-> "CLAIMED", at |-> 0]
      BY <2>1, <2>2
    <3>2. Waiting(t) \/ t \in lapsed
      BY <1>1, <2>2 DEF Claim
    <3>3. LastState(t) \in Returned \cup {"none", "held"}
      BY <3>2 DEF LastState, Waiting
    <3> QED BY <2>2, <3>1, <3>3 DEF RowTaken
  <2>3. CASE t \in lapsed \ taken
    <3>1. row'[t] = Marked(t, "LEASE_EXPIRED", now) /\ Held(t)
      BY <2>1, <2>3
    <3>2. RowMarked(t, "LEASE_EXPIRED")
      BY <1>0, <3>1, Marking DEF RowMarked, RowStates, Returned, TypeInv
    <3> QED BY <3>1, <3>2 DEF RowLeft, RowMarked
  <2>4. CASE t \notin taken /\ t \notin lapsed \ taken
    BY <2>1, <2>4 DEF RowStays
  <2> QED BY <2>2, <2>3, <2>4
<1>2. ASSUME NEW t \in Tasks, NEW s \in RowStates, NEW at \in 0 .. MaxNow,
             row' = [row EXCEPT ![t] = Marked(t, s, at)]
      PROVE  /\ RowMarked(t, s)
             /\ \A u \in Tasks \ {t} : RowStays(u)
             /\ \A u \in Tasks : row'[u].number = row[u].number
  <2>1. \A u \in Tasks : row'[u] = IF u = t THEN Marked(t, s, at) ELSE row[u]
    BY <1>0, <1>2
  <2>2. Marked(t, s, at).number = row[t].number /\ Marked(t, s, at).state = s
    BY Marking DEF TypeInv
  <2> QED BY <2>1, <2>2 DEF RowMarked, RowStays
<1>3. ASSUME NEW t \in Tasks, NEW s \in Requeues, Requeue(t, s)
      PROVE  RowLeft(t) /\ (\A u \in Tasks \ {t} : RowStays(u))
             /\ \A u \in Tasks : row'[u].number = row[u].number
  <2>1. row' = [row EXCEPT ![t] = Marked(t, s, now)] /\ Held(t)
        /\ s \in RowStates /\ now \in 0 .. MaxNow
    BY <1>0, <1>3 DEF Requeue, RowStates, Returned
  <2> QED BY <2>1, <1>2 DEF RowLeft
<1>4. ASSUME NEW t \in Tasks, Recover(t)
      PROVE  RowReopened(t) /\ (\A u \in Tasks \ {t} : RowStays(u))
             /\ \A u \in Tasks : row'[u].number = row[u].number
  <2>1. row' = [row EXCEPT ![t] = Marked(t, "RECOVERED", now)] /\ row[t].state \in Failures
        /\ "RECOVERED" \in RowStates /\ now \in 0 .. MaxNow
    BY <1>0, <1>4 DEF Recover, RowStates, Returned
  <2> QED BY <2>1, <1>2 DEF RowReopened
<1>5. ASSUME NEW r \in reports, NEW s \in Ends, End(r, s)
      PROVE  RowLeft(r.task) /\ (\A u \in Tasks \ {r.task} : RowStays(u))
             /\ \A u \in Tasks : row'[u].number = row[u].number
  <2>1. /\ row' = [row EXCEPT ![r.task] = Marked(r.task, s, r.at)] /\ Held(r.task)
        /\ s \in RowStates /\ r.at \in 0 .. MaxNow /\ r.task \in Tasks
    BY <1>0, <1>5 DEF End, Ended, Owns, RowStates, Reports
  <2> QED BY <2>1, <1>2 DEF RowLeft
<1>6. CASE UNCHANGED row
  BY <1>6 DEF RowStays
<1>7. CASE \E lapsed \in SUBSET {t \in Tasks : Held(t)}, taken \in Singletons : Claim(lapsed, taken)
  BY <1>1, <1>7 DEF Singletons
<1>8. CASE \E t \in Tasks : Recover(t) \/ \E s \in Requeues : Requeue(t, s)
  <2>1. \E t \in Tasks : /\ RowLeft(t) \/ RowReopened(t)
                         /\ \A u \in Tasks \ {t} : RowStays(u)
                         /\ \A u \in Tasks : row'[u].number = row[u].number
    BY <1>3, <1>4, <1>8
  <2> QED BY <2>1
<1>9. CASE \E r \in reports, s \in Ends : End(r, s)
  BY <1>5, <1>9
<1> QED BY <1>6, <1>7, <1>8, <1>9
        DEF Next, vars, authorityVars, RegisterFirst, RegisterSample, Attest,
            RegisterSuccessor, Create, Report, EndRefused

\* The rows implement AttemptLifecycle: the decisions are taken from a queue that
\* numbers, holds, ends and reopens attempts as the queue of tasks does.
THEOREM CampaignKeepsLifecycle == Spec => KeepsLifecycle
<1>1. Init => Lifecycle!Init
  BY DEF Init, Lifecycle!Init, Held
<1>2. TypeInv /\ [Next]_vars => [Lifecycle!Next]_(Lifecycle!vars)
  <2> SUFFICES ASSUME TypeInv, [Next]_vars PROVE Lifecycle!Next
    OBVIOUS
  <2>1. TypeInv'
    BY TypesStep
  <2>2. ASSUME NEW t \in Tasks PROVE Lifecycle!TaskNext(t)
    <3> USE DEF Lifecycle!TaskNext, Lifecycle!Same
    <3>1. CASE RowStays(t)
      BY <3>1 DEF RowStays, Held, Lifecycle!Unmoved
    <3>2. CASE RowTaken(t)
      BY <3>2 DEF RowTaken, LastState, Held, Lifecycle!Taken, Lifecycle!Waits, Returned
    <3>3. CASE RowLeft(t)
      <4>1. PICK s \in Requeues \cup Ends \cup {"LEASE_EXPIRED"} : RowMarked(t, s) /\ Held(t)
        BY <3>3 DEF RowLeft
      <4>2. s # "CLAIMED"
        BY DEF Requeues, Ends, Scientific, Failures
      <4>3. ~Held(t)' /\ row'[t].state = s /\ row'[t].number = row[t].number
        BY <4>1, <4>2 DEF RowMarked, Held
      <4> QED BY <4>1, <4>3 DEF Lifecycle!Lapses, Lifecycle!Returned, Lifecycle!Ended
    <3>4. CASE RowReopened(t)
      BY <3>4 DEF RowReopened, RowMarked, Held, Failures, Lifecycle!Reopened
    <3> QED BY <3>1, <3>2, <3>3, <3>4, RowsMove
  <2>3. \A t \in Tasks : row'[t].number \in Nat /\ row'[t].state \in RowStates
    BY <2>1 DEF TypeInv, TypeOK, Rows
  <2>4. \A t \in Tasks : (IF Held(t) THEN "held" ELSE row[t].state)' \in Lifecycle!States
    BY <2>3 DEF Held, RowStates, Returned, Lifecycle!States, Lifecycle!Waits
  <2>5. \A t, u \in Tasks : row'[t].number # row[t].number /\ row'[u].number # row[u].number
                            => t = u
    BY RowsMove
  <2> QED BY <2>2, <2>3, <2>4, <2>5 DEF Lifecycle!Next
<1>3. Init => TypeInv
  BY TypesInit
<1>4. TypeInv /\ [Next]_vars => TypeInv'
  BY TypesStep
<1> QED BY <1>1, <1>2, <1>3, <1>4, PTL DEF Spec, KeepsLifecycle, Lifecycle!Spec

=============================================================================
