------------------------- MODULE DiscoveryRunsProofs -------------------------
(***************************************************************************)
(* Proofs about DiscoveryRuns and the ledger it runs over, for any arms,   *)
(* children, sizes, units, caps and workers.                               *)
(***************************************************************************)
EXTENDS DiscoveryRuns, TLAPS

LEMMA Constants ==
    /\ Units \in Nat \ {0} /\ Caps \subseteq Nat /\ Size \in [Requests -> Nat \ {0}]
    /\ Arms \subseteq Requests /\ Children \subseteq Requests /\ Arms \cap Children = {}
    /\ MaxMoves \in Nat /\ NoCap \notin Nat
BY DiscoveryLedgerAssumption DEF Requests, NoCap

\* What a number of items is charged.
LEMMA Charge ==
    ASSUME NEW n \in Nat \ {0}
    PROVE  n * Units \in Nat \ {0}
BY Constants

\* As many items as fit are charged no more than is left.
LEMMA FitsCharge ==
    ASSUME NEW left \in Nat, NEW n \in Nat, n <= left \div Units
    PROVE  n * Units <= left
<1>1. (left \div Units) \in Nat /\ (left \div Units) * Units <= left
  BY Constants
<1>2. n * Units <= (left \div Units) * Units
  BY <1>1, Constants
<1> QED BY <1>1, <1>2, Constants

\* A job is an item of an arm.
LEMMA JobParts ==
    /\ \A j \in Jobs : j[1] \in Arms /\ j[2] \in 1 .. Size[j[1]]
    /\ NoJob \notin Jobs
BY DEF Jobs, NoJob

-----------------------------------------------------------------------------
(* The ledger. *)

\* An entry with its place: a reservation is made of at least one item.
LEMMA RowParts ==
    /\ NoRow \notin Rows
    /\ \A r \in Rows : /\ r.items \in Nat \ {0} /\ r.before \in Nat
                       /\ Charged(r) \in Nat \ {0}
BY Charge DEF NoRow, Rows, Charged

\* A step's reservation: q gets its row at the end of what was reserved.
Reserves(q, n) ==
    /\ q \in Requests /\ n \in Nat \ {0} /\ ~IsReserved(q)
    /\ cap \in Nat /\ total + n * Units <= cap
    /\ \E mode \in Modes : Reserve(q, n, mode)

LEMMA LedgerMoves ==
    ASSUME LedgerTypeOK, LedgerNext, cap \in Nat => total <= cap
    PROVE  /\ kept' = kept
           /\ blocked => blocked'
           /\ \/ /\ UNCHANGED <<total, reserved>>
                 /\ cap' = cap \/ (cap = NoCap /\ cap' \in Caps)
              \/ /\ cap' = cap
                 /\ \/ \E q \in Arms : Reserves(q, Size[q])
                    \/ \E q \in Children, n \in Nat \ {0} : Reserves(q, n)
<1>a. cap \in Nat \cup {NoCap} /\ total \in Nat
  BY Constants DEF LedgerTypeOK
<1>1. ASSUME NEW c \in Caps, RegisterCap(c)
      PROVE  UNCHANGED <<kept, blocked, total, reserved>> /\ cap = NoCap /\ cap' \in Caps
  BY <1>1 DEF RegisterCap
<1>2. ASSUME \/ ReconcileHistory \/ RefuseIncomplete \/ AttemptMoves
             \/ EarlierRowsChange \/ EarlierWorkEnds \/ ProbeRunAppears
      PROVE  UNCHANGED <<kept, cap, total, reserved>> /\ (blocked => blocked')
  <2>1. FileHistory => (blocked => blocked')
    BY DEF FileHistory
  <2>2. UNCHANGED <<kept, cap, total, reserved>>
    BY <1>2 DEF ReconcileHistory, RefuseIncomplete, AttemptMoves, EarlierRowsChange,
                 EarlierWorkEnds, ProbeRunAppears
  <2>3. FileHistory \/ UNCHANGED blocked
    BY <1>2 DEF ReconcileHistory, RefuseIncomplete, AttemptMoves, EarlierRowsChange,
                 EarlierWorkEnds, ProbeRunAppears
  <2> QED BY <2>1, <2>2, <2>3
<1>3. ASSUME NEW q \in Arms, ReadbackFails(q) \/ WriteBlock(q) \/ LoseBlock(q)
      PROVE  UNCHANGED <<kept, cap, total, reserved>> /\ (blocked => blocked')
  BY <1>3 DEF ReadbackFails, WriteBlock, LoseBlock
<1>4. ASSUME NEW q \in Arms, ReserveArm(q)
      PROVE  /\ UNCHANGED <<kept, cap>> /\ (blocked => blocked')
             /\ UNCHANGED <<total, reserved>> \/ Reserves(q, Size[q])
  <2>1. q \in Requests /\ Size[q] \in Nat \ {0}
    BY Constants
  <2>2. cap \in Nat
    BY <1>4, <1>a DEF ReserveArm
  <2>3. UNCHANGED <<kept, cap>> /\ (blocked => blocked')
    BY <1>4 DEF ReserveArm, FileHistory
  <2>4. UNCHANGED <<total, reserved>> \/ (~IsReserved(q) /\ ArmFits(q) /\ Reserve(q, Size[q], "EXACT"))
    BY <1>4 DEF ReserveArm
  <2> QED BY <2>1, <2>2, <2>3, <2>4 DEF ArmFits, Reserves, Modes
<1>5. ASSUME NEW q \in Children, NEW mode \in Modes, ReserveChildren(q, mode)
      PROVE  /\ UNCHANGED <<kept, cap, blocked>>
             /\ \E n \in Nat \ {0} : Reserves(q, n)
  <2>1. q \in Requests /\ Size[q] \in Nat \ {0} /\ ~IsReserved(q)
    BY <1>5, Constants DEF ReserveChildren
  <2>2. cap \in Nat /\ cap - total \in Nat
    BY <1>5, <1>a DEF ReserveChildren
  <2>3. Fits \in Nat
    BY <2>2, Constants DEF Fits
  <2>4. PICK n \in Nat \ {0} : n <= Fits /\ Reserve(q, n, mode)
    BY <1>5, <2>1, <2>3 DEF ReserveChildren, AnyFits
  <2>5. n * Units <= cap - total
    BY <2>2, <2>4, FitsCharge DEF Fits
  <2>6. total + n * Units <= cap
    BY <1>a, <2>2, <2>5, Charge
  <2> QED BY <1>5, <2>1, <2>2, <2>4, <2>6 DEF Reserves, ReserveChildren
<1> QED BY <1>1, <1>2, <1>3, <1>4, <1>5 DEF LedgerNext

LEMMA LedgerTypeStep ==
    ASSUME LedgerTypeOK, LedgerNext, cap \in Nat => total <= cap
    PROVE  LedgerTypeOK'
<1>1. kept' \in {0, Units} /\ cap' \in Caps \cup {NoCap}
  BY LedgerMoves DEF LedgerTypeOK
<1>2. total' \in Nat /\ reserved' \in [Requests -> Rows \cup {NoRow}]
  <2>1. ASSUME NEW q \in Requests, NEW n \in Nat \ {0}, Reserves(q, n)
        PROVE  total' \in Nat /\ reserved' \in [Requests -> Rows \cup {NoRow}]
    <3>1. PICK mode \in Modes : Reserve(q, n, mode)
      BY <2>1 DEF Reserves
    <3>2. [items |-> n, before |-> total, mode |-> mode, attempt |-> attempt, history |-> history]
            \in Rows
      BY DEF LedgerTypeOK, Rows
    <3>3. total' \in Nat
      BY <3>1, Charge DEF Reserve, LedgerTypeOK
    <3> QED BY <3>1, <3>2, <3>3 DEF Reserve, LedgerTypeOK
  <2>2. CASE UNCHANGED <<total, reserved>>
    BY <2>2 DEF LedgerTypeOK
  <2> QED BY <2>1, <2>2, LedgerMoves, Constants DEF Reserves
<1>3. /\ blocked' \in BOOLEAN /\ history' \in Histories /\ first' \in Filings
      /\ attempt' \in 0 .. MaxMoves /\ doomed' \subseteq Arms
  <2>1. ASSUME FileCut PROVE first' \in Filings
    BY <2>1 DEF FileCut, Filings, LedgerTypeOK, HistoryComplete
  <2>2. HistoryComplete \in BOOLEAN
    BY DEF HistoryComplete
  <2>3. ASSUME ReconcileHistory \/ RefuseIncomplete \/ (\E q \in Arms : ReserveArm(q))
        PROVE  /\ first' \in Filings /\ blocked' \in BOOLEAN
               /\ UNCHANGED <<history, attempt, doomed>>
    BY <2>1, <2>2, <2>3 DEF ReconcileHistory, RefuseIncomplete, ReserveArm, FileHistory, LedgerTypeOK
  <2>4. ASSUME NEW q \in Arms, ReadbackFails(q) \/ WriteBlock(q) \/ LoseBlock(q)
        PROVE  /\ UNCHANGED <<history, first, attempt>> /\ blocked' \in BOOLEAN
               /\ doomed' \subseteq Arms
    BY <2>4 DEF ReadbackFails, WriteBlock, LoseBlock, Doubt, LedgerTypeOK
  <2>5. ASSUME \/ \E c \in Caps : RegisterCap(c)
               \/ \E q \in Children, mode \in Modes : ReserveChildren(q, mode)
        PROVE  UNCHANGED <<blocked, history, first, attempt, doomed>>
    BY <2>5 DEF RegisterCap, ReserveChildren
  <2>6. ASSUME AttemptMoves \/ EarlierRowsChange \/ EarlierWorkEnds \/ ProbeRunAppears
        PROVE  /\ UNCHANGED <<blocked, first, doomed>>
               /\ history' \in Histories /\ attempt' \in 0 .. MaxMoves
    BY <2>6, Constants DEF AttemptMoves, EarlierRowsChange, Rewritten, EarlierWorkEnds,
                           ProbeRunAppears, LedgerTypeOK, Histories, Whole
  <2> QED BY <2>3, <2>4, <2>5, <2>6 DEF LedgerNext, LedgerTypeOK
<1> QED BY <1>1, <1>2, <1>3 DEF LedgerTypeOK

LEMMA LedgerInitTypes == LedgerInit => LedgerTypeOK
<1> SUFFICES ASSUME LedgerInit PROVE LedgerTypeOK
  OBVIOUS
<1>1. cap \in Caps \cup {NoCap} /\ history \in Histories /\ kept \in {0, Units} /\ total \in Nat
  BY Constants DEF LedgerInit, Histories, Whole
<1>2. first \in Filings
  BY DEF LedgerInit, NotFiled, Filings, Histories, Whole
<1>3. blocked \in BOOLEAN /\ doomed \subseteq Arms
  BY DEF LedgerInit
<1>5. attempt \in 0 .. MaxMoves
  BY Constants DEF LedgerInit
<1>4. reserved \in [Requests -> Rows \cup {NoRow}]
  BY DEF LedgerInit
<1> QED BY <1>1, <1>2, <1>3, <1>4, <1>5 DEF LedgerTypeOK

StartOf(q) == reserved[q].before
EndOf(q)   == reserved[q].before + Charged(reserved[q])

\* The total is where the last reservation ends, at most the cap; the
\* reservations lie apart between what the earlier schema took and the total.
Tiled ==
    /\ kept <= total
    /\ cap = NoCap => total = 0
    /\ cap \in Nat => total <= cap
    /\ total = kept \/ \E q \in Requests : IsReserved(q) /\ EndOf(q) = total
    /\ \A q \in Requests : IsReserved(q) =>
         /\ cap \in Nat /\ StartOf(q) < EndOf(q) /\ EndOf(q) <= total
         /\ StartOf(q) = kept \/ \E p \in Requests : p # q /\ IsReserved(p) /\ StartOf(q) = EndOf(p)
    /\ \A p, q \in Requests : IsReserved(p) /\ IsReserved(q) /\ p # q =>
         EndOf(p) <= StartOf(q) \/ EndOf(q) <= StartOf(p)
    /\ \A q \in Arms : IsReserved(q) => reserved[q].items = Size[q]

LEMMA TiledStep ==
    ASSUME LedgerTypeOK, Tiled, LedgerNext
    PROVE  Tiled' /\ \A q \in Requests : IsReserved(q) => reserved'[q] = reserved[q]
<1>0. /\ total \in Nat /\ kept \in Nat /\ cap \in Nat \cup {NoCap}
      /\ \A q \in Requests : reserved[q] \in Rows \cup {NoRow}
  BY Constants DEF LedgerTypeOK
<1>1. CASE UNCHANGED <<total, reserved>>
  BY <1>0, <1>1, LedgerMoves, Constants DEF Tiled, IsReserved, StartOf, EndOf
<1>2. ASSUME NEW r \in Requests, NEW n \in Nat \ {0}, Reserves(r, n), UNCHANGED <<kept, cap>>,
             r \in Arms => n = Size[r]
      PROVE  Tiled' /\ \A q \in Requests : IsReserved(q) => reserved'[q] = reserved[q]
  <2>1. /\ ~IsReserved(r) /\ cap \in Nat /\ total + n * Units <= cap
        /\ n * Units \in Nat \ {0}
    BY <1>2, Charge DEF Reserves
  <2>2. PICK mode \in Modes : Reserve(r, n, mode)
    BY <1>2 DEF Reserves
  <2>3. /\ total' = total + n * Units
        /\ \A q \in Requests : q # r => reserved'[q] = reserved[q]
        /\ reserved'[r] = [items |-> n, before |-> total, mode |-> mode,
                           attempt |-> attempt, history |-> history]
    BY <2>2 DEF Reserve, LedgerTypeOK
  <2>4. /\ StartOf(r)' = total /\ EndOf(r)' = total + n * Units /\ IsReserved(r)'
        /\ reserved'[r].items = n
    BY <2>3 DEF StartOf, EndOf, Charged, IsReserved, NoRow
  <2>5. \A q \in Requests : q # r => /\ IsReserved(q)' <=> IsReserved(q)
                                     /\ StartOf(q)' = StartOf(q) /\ EndOf(q)' = EndOf(q)
    BY <2>3 DEF StartOf, EndOf, IsReserved
  <2>6. \A q \in Requests : IsReserved(q) => StartOf(q) \in Nat /\ EndOf(q) \in Nat
    BY <1>0, RowParts DEF IsReserved, StartOf, EndOf
  <2>7. /\ kept' <= total' /\ (cap' = NoCap => total' = 0) /\ (cap' \in Nat => total' <= cap')
    BY <1>0, <1>2, <2>1, <2>3, Constants DEF Tiled
  <2>8. \A q \in Requests : IsReserved(q)' =>
          /\ cap' \in Nat /\ StartOf(q)' < EndOf(q)' /\ EndOf(q)' <= total'
          /\ StartOf(q)' = kept' \/ \E p \in Requests : p # q /\ IsReserved(p)' /\ StartOf(q)' = EndOf(p)'
    <3> SUFFICES ASSUME NEW q \in Requests, IsReserved(q)'
                 PROVE  /\ cap' \in Nat /\ StartOf(q)' < EndOf(q)' /\ EndOf(q)' <= total'
                        /\ \/ StartOf(q)' = kept'
                           \/ \E p \in Requests : p # q /\ IsReserved(p)' /\ StartOf(q)' = EndOf(p)'
      OBVIOUS
    <3>1. CASE q = r
      <4>1. total = kept \/ \E p \in Requests : p # r /\ IsReserved(p) /\ EndOf(p) = total
        BY <2>1 DEF Tiled
      <4> QED BY <1>0, <1>2, <2>1, <2>3, <2>4, <2>5, <3>1, <4>1
    <3>2. CASE q # r
      <4>1. /\ StartOf(q) < EndOf(q) /\ EndOf(q) <= total
            /\ \/ StartOf(q) = kept
               \/ \E p \in Requests : p # q /\ p # r /\ IsReserved(p) /\ StartOf(q) = EndOf(p)
        BY <2>1, <2>5, <3>2 DEF Tiled
      <4> QED BY <1>0, <1>2, <2>1, <2>3, <2>5, <2>6, <3>2, <4>1
    <3> QED BY <3>1, <3>2
  <2>9. \A p, q \in Requests : IsReserved(p)' /\ IsReserved(q)' /\ p # q =>
          EndOf(p)' <= StartOf(q)' \/ EndOf(q)' <= StartOf(p)'
    BY <2>4, <2>5 DEF Tiled
  <2>10. \A q \in Arms : IsReserved(q)' => reserved'[q].items = Size[q]
    BY <1>2, <2>3, <2>4, <2>5, Constants DEF Tiled
  <2> QED BY <2>1, <2>3, <2>4, <2>7, <2>8, <2>9, <2>10 DEF Tiled
<1> QED BY <1>1, <1>2, LedgerMoves, Constants DEF Reserves, Tiled

LEMMA TiledWithinCap == LedgerTypeOK /\ Tiled => WithinCap
<1> SUFFICES ASSUME LedgerTypeOK, Tiled PROVE WithinCap
  OBVIOUS
<1>1. total \in Nat /\ \A q \in Requests : IsReserved(q) => EndOf(q) \in Nat /\ StartOf(q) \in Nat
  BY RowParts DEF LedgerTypeOK, IsReserved, StartOf, EndOf
<1>2. \A q \in Requests : IsReserved(q) => StartOf(q) < EndOf(q) /\ EndOf(q) <= cap
  BY <1>1 DEF Tiled
<1> QED BY <1>1, <1>2 DEF Tiled, WithinCap, StartOf, EndOf

LEMMA InitTiled == LedgerInit => Tiled
<1> SUFFICES ASSUME LedgerInit PROVE Tiled
  OBVIOUS
<1>1. \A q \in Requests : ~IsReserved(q)
  BY DEF LedgerInit, IsReserved
<1>2. /\ kept <= total /\ total = kept /\ (cap = NoCap => total = 0)
      /\ (cap \in Nat => total <= cap)
  <2>1. \A c \in Caps : c \in Nat /\ c # NoCap
    BY Constants
  <2>2. total = kept
    BY DEF LedgerInit
  <2>3. \/ cap = NoCap /\ kept = 0
        \/ cap \in Caps /\ cap >= Units /\ kept = Units
    BY DEF LedgerInit
  <2>4. CASE cap = NoCap /\ kept = 0
    <3>1. NoCap \notin Nat
      BY Constants
    <3> QED BY <2>2, <2>4, <3>1
  <2>5. CASE cap \in Caps /\ cap >= Units /\ kept = Units
    <3>1. cap \in Nat /\ cap # NoCap /\ Units \in Nat
      BY <2>1, <2>5, Constants
    <3> QED BY <2>2, <2>5, <3>1
  <2> QED BY <2>3, <2>4, <2>5
<1> QED BY <1>1, <1>2, Constants DEF Tiled

-----------------------------------------------------------------------------
(* Types of the runs and workers. *)

RunTypes ==
    /\ run \in [Jobs -> RunStates] /\ live \in [Jobs -> BOOLEAN]
    /\ owner \in [Jobs -> Workers \cup {NoWorker}]
    /\ why \in [Jobs -> Reasons \cup {Lost, "none"}]
    /\ evidence \in [Jobs -> Workers \cup {NoWorker}]
    /\ calls \in [Jobs -> Nat]

WorkerTypes ==
    /\ pc \in [Workers -> Places]
    /\ at \in [Workers -> Jobs \cup {NoJob}]
    /\ say \in [Workers -> Reasons \cup {"none"}]
    /\ again \in [Workers -> BOOLEAN]
    /\ answer \in [Workers -> Reasons \cup {"COMPLETED", "none"}]

LEMMA TypeParts == TypeOK <=> LedgerTypeOK /\ RunTypes /\ WorkerTypes
BY DEF TypeOK, RunTypes, WorkerTypes

LEMMA TypePartsNext == TypeOK' <=> LedgerTypeOK' /\ RunTypes' /\ WorkerTypes'
BY DEF TypeOK, RunTypes, WorkerTypes

\* Where a worker goes, and that its job stays, unless it takes one.
Walks(w) ==
    \/ \E place \in Places : Goto(w, place)
    \/ Raise(w)
    \/ \E what \in Reasons \cup {"COMPLETED", "none"} : Return(w, what)
    \/ \E reason \in Reasons : End(w, reason)

LEMMA WalksTypes ==
    ASSUME WorkerTypes, NEW w \in Workers, Walks(w)
    PROVE  /\ WorkerTypes' /\ at' = at
           /\ \A v \in Workers \ {w} : UNCHANGED <<pc[v], answer[v]>>
<1>1. ASSUME NEW place \in Places, Goto(w, place)
      PROVE  WorkerTypes' /\ at' = at /\ \A v \in Workers \ {w} : UNCHANGED <<pc[v], answer[v]>>
  BY <1>1 DEF Goto, WorkerTypes
<1>2. ASSUME Raise(w)
      PROVE  WorkerTypes' /\ at' = at /\ \A v \in Workers \ {w} : UNCHANGED <<pc[v], answer[v]>>
  BY <1>2 DEF Raise, WorkerTypes, Places
<1>3. ASSUME NEW what \in Reasons \cup {"COMPLETED", "none"}, Return(w, what)
      PROVE  WorkerTypes' /\ at' = at /\ \A v \in Workers \ {w} : UNCHANGED <<pc[v], answer[v]>>
  BY <1>3 DEF Return, WorkerTypes, Places
<1>4. ASSUME NEW reason \in Reasons, End(w, reason)
      PROVE  WorkerTypes' /\ at' = at /\ \A v \in Workers \ {w} : UNCHANGED <<pc[v], answer[v]>>
  BY <1>4 DEF End, WorkerTypes, Places
<1> QED BY <1>1, <1>2, <1>3, <1>4 DEF Walks

\* Every step of a worker but the one that takes a job and the one that marks
\* a run once more is such a walk.
LEMMA StepWalks ==
    ASSUME TypeOK, NEW w \in Workers, Step(w)
    PROVE  \/ Walks(w)
           \/ \E j \in Jobs : TakeJob(w, j)
           \/ /\ CheckStatus(w)
              /\ pc' = [pc EXCEPT ![w] = "ending"] /\ again' = [again EXCEPT ![w] = TRUE]
              /\ UNCHANGED <<at, say, answer>>
<1> USE DEF Places, Reasons
<1>1. Begin(w) \/ Revalidate(w) \/ ReadAgain(w) \/ ReadRefused(w) \/ Prepare(w) \/ Die(w) => Walks(w)
  BY DEF Begin, Revalidate, ReadAgain, ReadRefused, Prepare, Die, Walks
<1>2. Start(w) \/ Beat(w) \/ CallProvider(w) \/ ProviderReturns(w) \/ ReadEvidence(w) \/ Complete(w)
        => Walks(w)
  BY DEF Start, Beat, CallProvider, ProviderReturns, ReadEvidence, Complete, Walks
<1>3. say[w] \in Reasons \cup {"COMPLETED", "none"}
  BY DEF TypeOK
<1>4. MarkIncomplete(w) => Walks(w)
  BY <1>3 DEF MarkIncomplete, Walks
<1>5. CheckStatus(w) =>
        \/ Walks(w)
        \/ /\ pc' = [pc EXCEPT ![w] = "ending"] /\ again' = [again EXCEPT ![w] = TRUE]
           /\ UNCHANGED <<at, say, answer>>
  BY <1>3 DEF CheckStatus, Walks
<1> QED BY <1>1, <1>2, <1>4, <1>5 DEF Step

LEMMA StepRunTypes ==
    ASSUME TypeOK, NEW w \in Workers, at[w] \in Jobs \/ pc[w] = "idle", Step(w)
    PROVE  RunTypes'
<1>0. RunTypes /\ WorkerTypes
  BY TypeParts
<1>1. UNCHANGED runVars => RunTypes'
  BY <1>0 DEF runVars, RunTypes
<1>2. (\E j \in Jobs : TakeJob(w, j)) \/ Revalidate(w) \/ ReadAgain(w) \/ ReadRefused(w) \/ Prepare(w)
        \/ Beat(w) \/ ProviderReturns(w) \/ ReadEvidence(w) \/ CheckStatus(w) \/ Die(w)
        => UNCHANGED runVars
  BY DEF TakeJob, Revalidate, ReadAgain, ReadRefused, Prepare, Beat, ProviderReturns, ReadEvidence,
         CheckStatus, Die
<1>3. ASSUME Begin(w) PROVE RunTypes'
  BY <1>0, <1>1, <1>3 DEF Begin, RunTypes, RunStates
<1>4. ASSUME Start(w) PROVE RunTypes'
  BY <1>0, <1>1, <1>4 DEF Start, RunTypes, RunStates
<1>5. ASSUME CallProvider(w) PROVE RunTypes'
  BY <1>0, <1>5 DEF CallProvider, RunTypes
<1>6. ASSUME Complete(w) PROVE RunTypes'
  BY <1>0, <1>1, <1>6 DEF Complete, RunTypes, RunStates
<1>7. ASSUME MarkIncomplete(w) PROVE RunTypes'
  <2>1. say[w] \in Reasons \cup {Lost, "none"}
    BY <1>0 DEF WorkerTypes
  <2> QED BY <1>0, <1>1, <1>7, <2>1 DEF MarkIncomplete, RunTypes, RunStates
<1> QED BY <1>1, <1>2, <1>3, <1>4, <1>5, <1>6, <1>7 DEF Step

\* What a worker's step does to the ledger.
LEMMA StepLedger ==
    ASSUME TypeOK, NEW w \in Workers, at[w] \in Jobs \/ pc[w] = "idle", Step(w)
    PROVE  /\ LedgerTypeOK'
           /\ UNCHANGED <<cap, kept, total, reserved>>
           /\ blocked => blocked'
<1>0. LedgerTypeOK /\ WorkerTypes
  BY TypeParts
<1>1. UNCHANGED ledgerVars =>
        LedgerTypeOK' /\ UNCHANGED <<cap, kept, total, reserved>> /\ (blocked => blocked')
  BY <1>0 DEF ledgerVars, LedgerTypeOK
<1>2. ASSUME Revalidate(w)
      PROVE  LedgerTypeOK' /\ UNCHANGED <<cap, kept, total, reserved>> /\ (blocked => blocked')
  <2>1. UNCHANGED <<cap, history, kept, total, attempt, reserved, doomed>>
    BY <1>2 DEF Revalidate
  <2>2. HistoryComplete \in BOOLEAN
    BY DEF HistoryComplete
  <2>3. FileCut => first' \in Filings
    BY <1>0, <2>2 DEF FileCut, Filings, LedgerTypeOK
  <2>4. \/ FileHistory
        \/ FileCut /\ blocked' = TRUE
        \/ UNCHANGED <<first, blocked>>
    BY <1>2 DEF Revalidate
  <2>5. FileHistory => FileCut /\ blocked' \in BOOLEAN /\ (blocked => blocked')
    BY DEF FileHistory
  <2>6. first' \in Filings
    BY <1>0, <2>3, <2>4, <2>5 DEF LedgerTypeOK
  <2>7. blocked' \in BOOLEAN /\ (blocked => blocked')
    BY <1>0, <2>4, <2>5 DEF LedgerTypeOK
  <2> QED BY <1>0, <2>1, <2>6, <2>7 DEF LedgerTypeOK
<1>3. ASSUME ReadRefused(w)
      PROVE  LedgerTypeOK' /\ UNCHANGED <<cap, kept, total, reserved>> /\ (blocked => blocked')
  <2>1. at[w] \in Jobs
    BY <1>3 DEF ReadRefused
  <2>2. at[w][1] \in Arms
    BY <2>1, JobParts
  <2>3. doomed' \subseteq Arms
    BY <1>0, <1>3, <2>2 DEF ReadRefused, Doubt, LedgerTypeOK
  <2> QED BY <1>0, <1>3, <2>3 DEF ReadRefused, LedgerTypeOK
<1>4. (\E j \in Jobs : TakeJob(w, j)) \/ Begin(w) \/ ReadAgain(w) \/ Prepare(w) \/ Start(w)
        \/ Beat(w) \/ CallProvider(w) \/ ProviderReturns(w) \/ ReadEvidence(w) \/ Complete(w)
        \/ MarkIncomplete(w) \/ CheckStatus(w) \/ Die(w)
        => UNCHANGED ledgerVars
  BY DEF TakeJob, Begin, ReadAgain, Prepare, Start, Beat, CallProvider, ProviderReturns,
         ReadEvidence, Complete, MarkIncomplete, CheckStatus, Die
<1> QED BY <1>1, <1>2, <1>3, <1>4 DEF Step

\* A worker that is not idle has a job, of an arm the ledger has charged.
Assigned == \A w \in Workers : pc[w] # "idle" => at[w] \in Jobs /\ IsReserved(at[w][1])

Base == TypeOK /\ Tiled /\ Assigned

LEMMA BaseStep == Base /\ [Next]_vars => Base'
<1> SUFFICES ASSUME Base, [Next]_vars PROVE Base'
  OBVIOUS
<1>0. TypeOK /\ LedgerTypeOK /\ RunTypes /\ WorkerTypes /\ Tiled /\ Assigned
  BY TypeParts DEF Base
<1>1. ASSUME NEW w \in Workers, Step(w) PROVE Base'
  <2>1. at[w] \in Jobs \/ pc[w] = "idle"
    BY <1>0 DEF Assigned
  <2>2. Tiled'
    BY <1>0, <1>1, <2>1, StepLedger DEF Tiled, IsReserved, StartOf, EndOf
  <2>3. \A q \in Requests : IsReserved(q)' <=> IsReserved(q)
    BY <1>0, <1>1, <2>1, StepLedger DEF IsReserved
  <2>a. \A j \in Jobs : j[1] \in Requests
    BY JobParts, Constants
  <2>4. ASSUME NEW j \in Jobs, TakeJob(w, j) PROVE Base'
    <3>1. /\ pc' = [pc EXCEPT ![w] = "found"] /\ at' = [at EXCEPT ![w] = j]
          /\ answer' = [answer EXCEPT ![w] = "none"] /\ UNCHANGED <<say, again>>
          /\ IsReserved(j[1])
      BY <2>4 DEF TakeJob
    <3>2. WorkerTypes'
      BY <1>0, <3>1 DEF WorkerTypes, Places
    <3>3. Assigned'
      BY <1>0, <2>3, <2>a, <3>1 DEF Assigned, WorkerTypes
    <3> QED BY <1>0, <1>1, <2>1, <2>2, <3>2, <3>3, StepRunTypes, StepLedger, TypePartsNext DEF Base
  <2>5. ASSUME \A j \in Jobs : ~TakeJob(w, j) PROVE Base'
    <3>1. pc[w] # "idle"
      BY <1>1, <2>5 DEF Step, Begin, Revalidate, ReadAgain, ReadRefused, Prepare, Start, Beat,
                        CallProvider, ProviderReturns, Complete, ReadEvidence, MarkIncomplete,
                        CheckStatus, Die
    <3>2. WorkerTypes' /\ at' = at /\ \A v \in Workers \ {w} : pc'[v] = pc[v]
      <4>1. CASE Walks(w)
        BY <1>0, <4>1, WalksTypes
      <4>2. CASE /\ pc' = [pc EXCEPT ![w] = "ending"] /\ again' = [again EXCEPT ![w] = TRUE]
                 /\ UNCHANGED <<at, say, answer>>
        BY <1>0, <4>2 DEF WorkerTypes, Places
      <4> QED BY <1>0, <1>1, <2>5, <4>1, <4>2, StepWalks
    <3>3. Assigned'
      BY <1>0, <2>3, <2>a, <3>1, <3>2 DEF Assigned
    <3> QED BY <1>0, <1>1, <2>1, <2>2, <3>2, <3>3, StepRunTypes, StepLedger, TypePartsNext DEF Base
  <2> QED BY <2>4, <2>5
<1>2. ASSUME LedgerNext, UNCHANGED <<runVars, workerVars>> PROVE Base'
  <2>1. cap \in Nat => total <= cap
    BY <1>0 DEF Tiled
  <2>2. Tiled' /\ \A q \in Requests : IsReserved(q) => reserved'[q] = reserved[q]
    BY <1>0, <1>2, TiledStep
  <2>3. LedgerTypeOK' /\ RunTypes' /\ WorkerTypes'
    BY <1>0, <1>2, <2>1, LedgerTypeStep DEF runVars, workerVars, RunTypes, WorkerTypes
  <2>4. Assigned'
    BY <1>0, <1>2, <2>2, JobParts, Constants DEF Assigned, IsReserved, workerVars
  <2> QED BY <2>2, <2>3, <2>4, TypePartsNext DEF Base
<1>3. ASSUME NEW j \in Jobs, Lapse(j) \/ ReconcileExpired(j) PROVE Base'
  <2>1. UNCHANGED <<ledgerVars, workerVars>>
    BY <1>3 DEF Lapse, ReconcileExpired
  <2>2. RunTypes'
    BY <1>0, <1>3 DEF Lapse, ReconcileExpired, RunTypes, RunStates
  <2>3. LedgerTypeOK' /\ Tiled' /\ WorkerTypes' /\ Assigned'
    BY <1>0, <2>1 DEF ledgerVars, workerVars, LedgerTypeOK, Tiled, IsReserved, StartOf, EndOf,
                      WorkerTypes, Assigned
  <2> QED BY <2>2, <2>3, TypePartsNext DEF Base
<1>4. CASE UNCHANGED vars
  <2>1. UNCHANGED <<cap, blocked, history, kept, total, first, attempt, reserved, doomed>>
    BY <1>4 DEF vars, ledgerVars
  <2>2. LedgerTypeOK' /\ Tiled'
    BY <1>0, <2>1 DEF LedgerTypeOK, Tiled, IsReserved, StartOf, EndOf
  <2>3. RunTypes' /\ WorkerTypes' /\ Assigned'
    BY <1>0, <1>4, <2>1 DEF vars, runVars, workerVars, RunTypes, WorkerTypes, Assigned, IsReserved
  <2> QED BY <2>2, <2>3, TypePartsNext DEF Base
<1> QED BY <1>1, <1>2, <1>3, <1>4 DEF Next

LEMMA InitBase == Init => Base
<1> SUFFICES ASSUME Init PROVE Base
  OBVIOUS
<1>1. LedgerTypeOK /\ Tiled
  BY LedgerInitTypes, InitTiled DEF Init
<1>2. RunTypes
  BY DEF Init, RunTypes, RunStates
<1>3. WorkerTypes /\ Assigned
  BY DEF Init, WorkerTypes, Places, Assigned
<1> QED BY <1>1, <1>2, <1>3, TypeParts DEF Base

LEMMA BaseAlways == Spec => []Base
BY InitBase, BaseStep, PTL DEF Spec

\* The rows of the ledger and its runs, and what workers carry, keep their types.
THEOREM TypeCorrect == Spec => []TypeOK
<1>1. Base => TypeOK
  BY DEF Base
<1> QED BY <1>1, BaseAlways, PTL

\* The reservations of a mission tile what is charged and stay below its cap.
THEOREM AlwaysWithinCap == Spec => []WithinCap
<1>1. Base => WithinCap
  BY TiledWithinCap DEF Base, TypeOK
<1> QED BY <1>1, BaseAlways, PTL

-----------------------------------------------------------------------------
(* The runs. *)

\* Where a worker is before the provider may be called, and after.
Before  == {"begun", "rechecked", "claimed", "reclaimed", "preparing", "starting"}
Waiting == {"started", "ready"}
After   == {"calling", "answered", "completing", "reading"}

\* What a row says of itself: it is owned once it is claimed, nothing is called
\* for it before it runs, and evidence is its owner's, of a completed run.
RowOK(j) ==
    /\ run[j] = "none" => owner[j] = NoWorker
    /\ run[j] # "none" => IsReserved(j[1])
    /\ run[j] \in {"none", "CLAIMED"} => calls[j] = 0
    /\ calls[j] \in {0, 1}
    /\ evidence[j] # NoWorker <=> run[j] = "COMPLETED"
    /\ evidence[j] # NoWorker => calls[j] = 1 /\ evidence[j] = owner[j]

\* What a worker's place says of its row: past the claim it is the owner, ever
\* the only one; it calls the provider for a run that was not called for.
PlaceOK(w) ==
    LET j == at[w] IN
    /\ pc[w] \notin {"idle", "found"} => owner[j] = w
    /\ pc[w] \in Before => run[j] = "CLAIMED"
    /\ pc[w] \in Waiting => calls[j] = 0
    /\ pc[w] \notin Before \cup {"idle", "found", "ending", "checking"} =>
         run[j] \notin {"none", "CLAIMED"}
    /\ pc[w] \in After => calls[j] = 1
    /\ pc[w] # "idle" => answer[w] = "none"
    /\ answer[w] # "none" => at[w] \in Jobs

RowsOK == (\A j \in Jobs : RowOK(j)) /\ (\A w \in Workers : PlaceOK(w))

\* An answer that was given.
AnswerOK(w) ==
    /\ answer[w] = "COMPLETED" => run[at[w]] = "COMPLETED"
    /\ answer[w] \in Reasons => run[at[w]] = "CONTROL_INCOMPLETE" /\ why[at[w]] = answer[w]

\* The steps as the rows know them: nothing, or one of one row.
Claims(w, j) ==
    /\ pc[w] = "found" /\ at[w] = j /\ run[j] = "none"
    /\ run' = [run EXCEPT ![j] = "CLAIMED"] /\ owner' = [owner EXCEPT ![j] = w]
    /\ UNCHANGED <<why, evidence, calls>>

Starts(w, j) ==
    /\ pc[w] = "starting" /\ at[w] = j /\ run[j] = "CLAIMED"
    /\ run' = [run EXCEPT ![j] = "RUNNING"]
    /\ UNCHANGED <<owner, why, evidence, calls>>

Buys(w, j) ==
    /\ pc[w] = "ready" /\ at[w] = j
    /\ calls' = [calls EXCEPT ![j] = @ + 1]
    /\ UNCHANGED <<run, owner, why, evidence>>

Completes(w, j) ==
    /\ pc[w] = "completing" /\ at[w] = j /\ run[j] = "RUNNING" /\ owner[j] = w
    /\ run' = [run EXCEPT ![j] = "COMPLETED"] /\ evidence' = [evidence EXCEPT ![j] = w]
    /\ UNCHANGED <<owner, why, calls>>

Closes(j, reason) ==
    /\ run[j] = "RUNNING"
    /\ run' = [run EXCEPT ![j] = "CONTROL_INCOMPLETE"] /\ why' = [why EXCEPT ![j] = reason]
    /\ UNCHANGED <<owner, evidence, calls>>

RowsRest == UNCHANGED <<run, owner, why, evidence, calls>>

\* A step of a worker is about its own row, and leaves the worker where its row
\* has it and with an answer its row bears out.
LEMMA StepSorts ==
    ASSUME Base, RowsOK, NEW w \in Workers, Step(w)
    PROVE  /\ RowsRest
              \/ (at[w] \in Jobs /\ \/ Claims(w, at[w]) \/ Starts(w, at[w])
                                    \/ Buys(w, at[w]) \/ Completes(w, at[w])
                                    \/ owner[at[w]] = w /\ Closes(at[w], say[w]))
           /\ PlaceOK(w)'
           /\ \/ at'[w] = at[w] /\ answer'[w] = answer[w]
              \/ answer'[w] = "none"
              \/ at'[w] = at[w] /\ AnswerOK(w)'
           /\ \A v \in Workers \ {w} : UNCHANGED <<pc[v], at[v], answer[v]>>
<1> DEFINE Goal ==
      /\ RowsRest
         \/ (at[w] \in Jobs /\ \/ Claims(w, at[w]) \/ Starts(w, at[w])
                               \/ Buys(w, at[w]) \/ Completes(w, at[w])
                               \/ owner[at[w]] = w /\ Closes(at[w], say[w]))
      /\ PlaceOK(w)'
      /\ \/ at'[w] = at[w] /\ answer'[w] = answer[w]
         \/ answer'[w] = "none"
         \/ at'[w] = at[w] /\ AnswerOK(w)'
<1>0. TypeOK /\ RunTypes /\ WorkerTypes /\ PlaceOK(w) /\ (pc[w] # "idle" => at[w] \in Jobs)
      /\ NoWorker \notin Workers
  BY TypeParts, DiscoveryRunsAssumption DEF Base, RowsOK, Assigned
<1>r. pc[w] # "idle" => RowOK(at[w])
  BY <1>0 DEF RowsOK
<1> USE DEF Before, Waiting, After
<1>1. ASSUME NEW j \in Jobs, TakeJob(w, j)
      PROVE  Goal /\ \A v \in Workers \ {w} : UNCHANGED <<pc[v], at[v], answer[v]>>
  <2>1. pc'[w] = "found" /\ answer'[w] = "none" /\ UNCHANGED runVars
        /\ \A v \in Workers \ {w} : UNCHANGED <<pc[v], at[v], answer[v]>>
    BY <1>0, <1>1 DEF TakeJob, WorkerTypes
  <2> QED BY <2>1 DEF PlaceOK, RowsRest, runVars
<1>2. ASSUME \A j \in Jobs : ~TakeJob(w, j)
      PROVE  /\ pc[w] # "idle" /\ at' = at
             /\ \A v \in Workers \ {w} : UNCHANGED <<pc[v], at[v], answer[v]>>
  <2>1. pc[w] # "idle"
    BY <1>2 DEF Step, Begin, Revalidate, ReadAgain, ReadRefused, Prepare, Start, Beat,
                CallProvider, ProviderReturns, Complete, ReadEvidence, MarkIncomplete,
                CheckStatus, Die
  <2>2. CASE Walks(w)
    BY <1>0, <2>1, <2>2, WalksTypes
  <2>3. CASE /\ pc' = [pc EXCEPT ![w] = "ending"] /\ again' = [again EXCEPT ![w] = TRUE]
             /\ UNCHANGED <<at, say, answer>>
    BY <1>0, <2>1, <2>3 DEF WorkerTypes
  <2> QED BY <1>0, <1>2, <2>1, <2>2, <2>3, StepWalks
<1>a. ASSUME NEW place, Goto(w, place) PROVE pc'[w] = place /\ UNCHANGED <<at, answer>>
  BY <1>0, <1>a DEF Goto, WorkerTypes
<1>b. ASSUME Raise(w) PROVE pc'[w] = "idle" /\ UNCHANGED <<at, answer>>
  BY <1>0, <1>b DEF Raise, WorkerTypes
<1>c. ASSUME NEW reason, End(w, reason) PROVE pc'[w] = "ending" /\ UNCHANGED <<at, answer>>
  BY <1>0, <1>c DEF End, WorkerTypes
<1>d. ASSUME NEW what, Return(w, what) PROVE pc'[w] = "idle" /\ answer'[w] = what /\ at' = at
  BY <1>0, <1>d DEF Return, WorkerTypes
<1>e. ASSUME RowsRest, UNCHANGED <<at, answer>>, pc[w] # "idle",
             pc'[w] \in {"idle", "ending", "checking"},
             pc'[w] \in {"ending", "checking"} => pc[w] # "found"
      PROVE  Goal
  BY <1>0, <1>e DEF RowsRest, PlaceOK
<1>3. ASSUME Begin(w) PROVE Goal
  <2>1. CASE UNCHANGED runVars /\ Raise(w)
    BY <1>3, <1>b, <1>e, <2>1 DEF RowsRest, runVars, Begin
  <2>2. CASE Claims(w, at[w]) /\ pc'[w] \in {"begun", "idle"} /\ UNCHANGED <<at, answer>>
    <3>1. run'[at[w]] = "CLAIMED" /\ owner'[at[w]] = w /\ pc[w] = "found"
      BY <1>0, <2>2 DEF Claims, RunTypes
    <3> QED BY <1>0, <2>2, <3>1 DEF PlaceOK
  <2>3. pc[w] = "found"
    BY <1>3 DEF Begin
  <2>4. Goto(w, "begun") \/ Raise(w) => pc'[w] \in {"begun", "idle"} /\ UNCHANGED <<at, answer>>
    BY <1>a, <1>b
  <2> QED BY <1>3, <2>1, <2>2, <2>3, <2>4 DEF Begin, Claims, Unclaimed
<1>4. ASSUME Revalidate(w) \/ ReadAgain(w) \/ ReadRefused(w) \/ Prepare(w) PROVE Goal
  <2>1. RowsRest /\ pc[w] \in Before
    BY <1>4 DEF Revalidate, ReadAgain, ReadRefused, Prepare, RowsRest, runVars
  <2>2. pc'[w] \in Before \cup {"idle"} /\ UNCHANGED <<at, answer>>
    BY <1>4, <1>a, <1>b DEF Revalidate, ReadAgain, ReadRefused, Prepare
  <2> QED BY <1>0, <2>1, <2>2 DEF RowsRest, PlaceOK
<1>5. ASSUME Start(w) PROVE Goal
  <2>1. CASE UNCHANGED runVars /\ End(w, "START_RESPONSE_AMBIGUOUS")
    BY <1>5, <1>c, <1>e, <2>1 DEF RowsRest, runVars, Start
  <2>2. CASE Starts(w, at[w]) /\ pc'[w] \in {"started", "ending"} /\ UNCHANGED <<at, answer>>
    <3>1. run'[at[w]] = "RUNNING" /\ UNCHANGED <<owner, calls>> /\ pc[w] = "starting"
          /\ run[at[w]] = "CLAIMED"
      BY <1>0, <2>2 DEF Starts, RunTypes
    <3> QED BY <1>0, <1>r, <2>2, <3>1 DEF PlaceOK, RowOK
  <2>3. Goto(w, "started") \/ End(w, "START_RESPONSE_AMBIGUOUS") =>
          pc'[w] \in {"started", "ending"} /\ UNCHANGED <<at, answer>>
    BY <1>a, <1>c
  <2> QED BY <1>5, <2>1, <2>2, <2>3 DEF Start, Starts, HoldsLive, Holds
<1>6. ASSUME Beat(w) PROVE Goal
  <2>1. RowsRest /\ pc[w] \in {"started", "answered"} /\ UNCHANGED <<at, answer>>
        /\ pc'[w] \in {"ending", IF pc[w] = "started" THEN "ready" ELSE "completing"}
    BY <1>6, <1>a, <1>c DEF Beat, RowsRest, runVars
  <2> QED BY <1>0, <2>1 DEF RowsRest, PlaceOK
<1>7. ASSUME CallProvider(w) PROVE Goal
  <2>1. Buys(w, at[w]) /\ pc'[w] = "calling" /\ UNCHANGED <<at, answer>>
    BY <1>7, <1>a DEF CallProvider, Buys
  <2>2. calls'[at[w]] = calls[at[w]] + 1 /\ UNCHANGED <<run, owner>> /\ pc[w] = "ready"
    BY <1>0, <2>1 DEF Buys, RunTypes
  <2> QED BY <1>0, <2>1, <2>2 DEF PlaceOK
<1>8. ASSUME ProviderReturns(w) PROVE Goal
  <2>1. RowsRest /\ pc[w] = "calling" /\ UNCHANGED <<at, answer>>
        /\ pc'[w] \in {"ending", "answered"}
    BY <1>8, <1>a, <1>c DEF ProviderReturns, RowsRest, runVars
  <2> QED BY <1>0, <2>1 DEF RowsRest, PlaceOK
<1>9. ASSUME Complete(w) PROVE Goal
  <2>1. CASE UNCHANGED runVars /\ Goto(w, "reading")
    <3>1. RowsRest /\ pc[w] = "completing" /\ pc'[w] = "reading" /\ UNCHANGED <<at, answer>>
      BY <1>9, <1>a, <2>1 DEF RowsRest, runVars, Complete
    <3> QED BY <1>0, <3>1 DEF RowsRest, PlaceOK
  <2>2. CASE Completes(w, at[w])
    <3>1. run'[at[w]] = "COMPLETED" /\ UNCHANGED <<owner, calls>> /\ pc[w] = "completing"
      BY <1>0, <2>2 DEF Completes, RunTypes
    <3>2. CASE Return(w, "COMPLETED")
      BY <1>0, <1>d, <2>2, <3>1, <3>2 DEF PlaceOK, AnswerOK, Reasons
    <3>3. CASE Goto(w, "reading")
      BY <1>0, <1>a, <2>2, <3>1, <3>3 DEF PlaceOK
    <3> QED BY <1>9, <2>1, <3>2, <3>3 DEF Complete
  <2> QED BY <1>9, <2>1, <2>2 DEF Complete, Completes, HoldsLive, Holds
<1>10. ASSUME ReadEvidence(w) PROVE Goal
  <2>1. RowsRest /\ pc[w] = "reading"
    BY <1>10 DEF ReadEvidence, RowsRest, runVars
  <2>2. CASE evidence[at[w]] # NoWorker /\ Return(w, "COMPLETED")
    BY <1>0, <1>d, <1>r, <2>1, <2>2 DEF RowsRest, PlaceOK, RowOK, AnswerOK, Reasons
  <2>3. CASE \E reason : End(w, reason)
    BY <1>0, <1>c, <1>e, <2>1, <2>3
  <2> QED BY <1>10, <2>2, <2>3 DEF ReadEvidence
<1>11. ASSUME MarkIncomplete(w) PROVE Goal
  <2>0. pc[w] = "ending"
    BY <1>11 DEF MarkIncomplete
  <2>1. CASE UNCHANGED runVars /\ Goto(w, "checking")
    BY <1>a, <1>e, <2>0, <2>1 DEF RowsRest, runVars
  <2>2. CASE owner[at[w]] = w /\ Closes(at[w], say[w])
    <3>1. /\ run'[at[w]] = "CONTROL_INCOMPLETE" /\ why'[at[w]] = say[w]
          /\ UNCHANGED <<owner, calls>>
      BY <1>0, <2>0, <2>2 DEF Closes, RunTypes
    <3>2. CASE Return(w, say[w])
      <4>1. pc'[w] = "idle" /\ answer'[w] = say[w] /\ at' = at /\ at[w] \in Jobs
            /\ say[w] # "COMPLETED"
        BY <1>0, <1>d, <2>0, <3>2 DEF WorkerTypes, Reasons
      <4> QED BY <1>0, <2>2, <3>1, <4>1 DEF PlaceOK, AnswerOK
    <3>3. CASE Goto(w, "checking")
      BY <1>0, <1>a, <2>0, <2>2, <3>1, <3>3 DEF PlaceOK
    <3> QED BY <1>11, <2>1, <3>2, <3>3 DEF MarkIncomplete
  <2> QED BY <1>11, <2>1, <2>2 DEF MarkIncomplete, Closes, MayMark, Holds
<1>12. ASSUME CheckStatus(w) PROVE Goal
  <2>1. RowsRest /\ pc[w] = "checking" /\ at[w] \in Jobs
    BY <1>0, <1>12 DEF CheckStatus, RowsRest, runVars
  <2>2. CASE ClosedAsSaid(w) /\ Return(w, say[w])
    <3>1. pc'[w] = "idle" /\ answer'[w] = say[w] /\ at' = at /\ say[w] # "COMPLETED"
      BY <1>0, <1>d, <2>2 DEF WorkerTypes, Reasons
    <3> QED BY <2>1, <2>2, <3>1 DEF ClosedAsSaid, RowsRest, PlaceOK, AnswerOK
  <2>3. CASE run[at[w]] = "COMPLETED" /\ Return(w, "COMPLETED")
    BY <1>d, <2>1, <2>3 DEF RowsRest, PlaceOK, AnswerOK, Reasons
  <2>4. CASE pc' = [pc EXCEPT ![w] = "ending"] /\ UNCHANGED <<at, say, answer>>
    <3>1. pc'[w] = "ending" /\ UNCHANGED <<at, answer>>
      BY <1>0, <2>4 DEF WorkerTypes
    <3> QED BY <1>e, <2>1, <3>1
  <2>5. CASE Raise(w)
    BY <1>b, <1>e, <2>1, <2>5
  <2> QED BY <1>12, <2>2, <2>3, <2>4, <2>5 DEF CheckStatus
<1>13. ASSUME Die(w) PROVE Goal
  BY <1>13, <1>b, <1>e DEF Die, RowsRest, runVars
<1> QED BY <1>1, <1>2, <1>3, <1>4, <1>5, <1>6, <1>7, <1>8, <1>9, <1>10, <1>11, <1>12, <1>13 DEF Step

\* One row moves, and the others rest.
OneRow(j) ==
    \/ \E w \in Workers : Claims(w, j) \/ Starts(w, j) \/ Buys(w, j) \/ Completes(w, j)
    \/ \E reason : Closes(j, reason)

\* A row keeps what it says of itself, and an ended one does not move.
LEMMA RowMovesOn ==
    ASSUME Base, RowsOK, NEW j \in Jobs, OneRow(j), NEW i \in Jobs, RowOK(i),
           IsReserved(j[1])', IsReserved(i[1]) => IsReserved(i[1])'
    PROVE  /\ RowOK(i)'
           /\ run[i] \in Terminal => UNCHANGED <<run[i], why[i], evidence[i]>>
<1>0. RunTypes /\ NoWorker \notin Workers
  BY TypeParts, DiscoveryRunsAssumption DEF Base
<1>1. CASE i # j
  <2>1. UNCHANGED <<run[i], owner[i], why[i], evidence[i], calls[i]>>
    BY <1>0, <1>1 DEF OneRow, Claims, Starts, Buys, Completes, Closes, RunTypes
  <2> QED BY <2>1 DEF RowOK
<1>2. ASSUME i = j, NEW w \in Workers, Claims(w, j) PROVE RowOK(i)' /\ run[i] = "none"
  <2>1. /\ run[j] = "none" /\ run'[j] = "CLAIMED" /\ owner'[j] = w
        /\ UNCHANGED <<evidence, calls>>
    BY <1>0, <1>2 DEF Claims, RunTypes
  <2> QED BY <1>2, <2>1 DEF RowOK
<1>3. ASSUME i = j, NEW w \in Workers, Starts(w, j) PROVE RowOK(i)' /\ run[i] = "CLAIMED"
  <2>1. /\ run[j] = "CLAIMED" /\ run'[j] = "RUNNING" /\ UNCHANGED <<owner, evidence, calls>>
    BY <1>0, <1>3 DEF Starts, RunTypes
  <2> QED BY <1>3, <2>1 DEF RowOK
<1>4. ASSUME i = j, NEW w \in Workers, Buys(w, j)
      PROVE  RowOK(i)' /\ UNCHANGED <<run[i], why[i], evidence[i]>>
  <2>1. /\ calls'[j] = calls[j] + 1 /\ UNCHANGED <<run, owner, why, evidence>>
        /\ pc[w] = "ready" /\ at[w] = j
    BY <1>0, <1>4 DEF Buys, RunTypes
  <2>2. calls[j] = 0 /\ run[j] \notin {"none", "CLAIMED"}
    BY <2>1 DEF RowsOK, PlaceOK, Waiting, Before
  <2> QED BY <1>4, <2>1, <2>2 DEF RowOK
<1>5. ASSUME i = j, NEW w \in Workers, Completes(w, j) PROVE RowOK(i)' /\ run[i] = "RUNNING"
  <2>1. /\ run[j] = "RUNNING" /\ run'[j] = "COMPLETED" /\ evidence'[j] = w
        /\ owner[j] = w /\ UNCHANGED <<owner, calls>>
        /\ pc[w] = "completing" /\ at[w] = j
    BY <1>0, <1>5 DEF Completes, RunTypes
  <2>2. calls[j] = 1
    BY <2>1 DEF RowsOK, PlaceOK, After
  <2> QED BY <1>0, <1>5, <2>1, <2>2 DEF RowOK
<1>6. ASSUME i = j, NEW reason, Closes(j, reason) PROVE RowOK(i)' /\ run[i] = "RUNNING"
  <2>1. /\ run[j] = "RUNNING" /\ run'[j] = "CONTROL_INCOMPLETE"
        /\ UNCHANGED <<owner, evidence, calls>>
    BY <1>0, <1>6 DEF Closes, RunTypes
  <2> QED BY <1>6, <2>1 DEF RowOK
<1>7. CASE i = j
  BY <1>2, <1>3, <1>4, <1>5, <1>6, <1>7 DEF OneRow, Terminal
<1>8. i # j => UNCHANGED <<run[i], why[i], evidence[i]>>
  BY <1>0 DEF OneRow, Claims, Starts, Buys, Completes, Closes, RunTypes
<1> QED BY <1>1, <1>7, <1>8

\* A worker that does not move stays where its row has it: the row of a worker
\* past the claim is moved by itself alone, but for its end.
LEMMA OthersStay ==
    ASSUME Base, RowsOK, NEW v \in Workers, UNCHANGED <<pc[v], at[v], answer[v]>>,
           \/ RowsRest
           \/ \E w \in Workers \ {v}, j \in Jobs :
                \/ Claims(w, j)
                \/ owner[j] = w /\ \/ Starts(w, j) \/ Buys(w, j) \/ Completes(w, j)
                                   \/ \E reason : Closes(j, reason)
           \/ \E j \in Jobs, w \in Workers : Closes(j, Lost)
    PROVE  PlaceOK(v)'
<1>0. RunTypes /\ NoWorker \notin Workers /\ PlaceOK(v) /\ (pc[v] # "idle" => at[v] \in Jobs)
  BY TypeParts, DiscoveryRunsAssumption DEF Base, RowsOK, Assigned
<1> USE DEF Before, Waiting, After
<1>1. CASE pc[v] \in {"idle", "found"} \/ RowsRest
  BY <1>0, <1>1 DEF PlaceOK, RowsRest
<1>2. ASSUME pc[v] \notin {"idle", "found"}, NEW w \in Workers \ {v}, NEW j \in Jobs,
             \/ Claims(w, j)
             \/ owner[j] = w /\ \/ Starts(w, j) \/ Buys(w, j) \/ Completes(w, j)
                                \/ \E reason : Closes(j, reason)
      PROVE  PlaceOK(v)'
  <2>1. owner[at[v]] = v /\ at[v] \in Jobs
    BY <1>0, <1>2 DEF PlaceOK
  <2>2. Claims(w, j) => owner[j] = NoWorker
    BY DEF Claims, RowsOK, RowOK
  <2>3. at[v] # j
    BY <1>0, <1>2, <2>1, <2>2
  <2>4. UNCHANGED <<run[at[v]], owner[at[v]], calls[at[v]]>>
    BY <1>0, <1>2, <2>1, <2>3 DEF Claims, Starts, Buys, Completes, Closes, RunTypes
  <2> QED BY <1>0, <2>4 DEF PlaceOK
<1>3. ASSUME pc[v] \notin {"idle", "found"}, NEW j \in Jobs, Closes(j, Lost) PROVE PlaceOK(v)'
  <2>1. UNCHANGED <<owner, calls>> /\ at[v] \in Jobs
    BY <1>0, <1>3 DEF Closes
  <2>2. run'[at[v]] = run[at[v]] \/ (run[at[v]] = "RUNNING" /\ run'[at[v]] = "CONTROL_INCOMPLETE")
    BY <1>0, <1>3, <2>1 DEF Closes, RunTypes
  <2> QED BY <1>0, <2>1, <2>2 DEF PlaceOK
<1> QED BY <1>1, <1>2, <1>3

Answers == \A w \in Workers : AnswerOK(w)

RunsInv == Base /\ RowsOK /\ Answers

\* What a step does to the rows that ended.
EndsStay ==
    \A j \in Jobs : run[j] \in Terminal => UNCHANGED <<run[j], why[j], evidence[j]>>

LEMMA RunsStep == RunsInv /\ [Next]_vars => RowsOK' /\ Answers' /\ EndsStay
<1> SUFFICES ASSUME RunsInv, [Next]_vars PROVE RowsOK' /\ Answers' /\ EndsStay
  OBVIOUS
<1>0. Base /\ Base' /\ RowsOK /\ Answers
  BY BaseStep DEF RunsInv
<1>1. \A q \in Requests : IsReserved(q) => IsReserved(q)'
  <2>1. ASSUME NEW w \in Workers, Step(w) PROVE UNCHANGED reserved
    BY <1>0, <2>1, StepLedger DEF Base, Assigned
  <2>2. LedgerNext => \A q \in Requests : IsReserved(q) => reserved'[q] = reserved[q]
    BY <1>0, TiledStep DEF Base, TypeOK
  <2>3. (\E j \in Jobs : Lapse(j) \/ ReconcileExpired(j)) \/ UNCHANGED vars => UNCHANGED reserved
    BY DEF Lapse, ReconcileExpired, vars, ledgerVars
  <2> QED BY <2>1, <2>2, <2>3 DEF Next, IsReserved
<1>2. \A j \in Jobs : j[1] \in Requests
  BY JobParts, Constants
<1>3. ASSUME RowsRest PROVE (\A j \in Jobs : RowOK(j)') /\ EndsStay
  BY <1>0, <1>1, <1>2, <1>3 DEF RowsRest, RowsOK, RowOK, EndsStay
<1>4. ASSUME NEW j \in Jobs, OneRow(j), IsReserved(j[1])
      PROVE  (\A i \in Jobs : RowOK(i)') /\ EndsStay
  BY <1>0, <1>1, <1>2, <1>4, RowMovesOn DEF RowsOK, EndsStay
<1>5. ASSUME EndsStay, NEW v \in Workers, UNCHANGED <<at[v], answer[v]>>, PlaceOK(v)
      PROVE  AnswerOK(v)'
  <2>1. AnswerOK(v) /\ (answer[v] # "none" => at[v] \in Jobs)
    BY <1>0, <1>5 DEF Answers, PlaceOK
  <2>2. CASE answer[v] = "none"
    BY <1>5, <2>2 DEF AnswerOK, Reasons
  <2>3. CASE answer[v] # "none"
    <3>1. answer[v] = "COMPLETED" \/ answer[v] \in Reasons =>
            run[at[v]] \in Terminal /\ UNCHANGED <<run[at[v]], why[at[v]]>>
      BY <1>5, <2>1, <2>3 DEF AnswerOK, Terminal, EndsStay
    <3> QED BY <1>5, <2>1, <3>1 DEF AnswerOK
  <2> QED BY <2>2, <2>3
<1>6. ASSUME NEW w \in Workers, Step(w) PROVE RowsOK' /\ Answers' /\ EndsStay
  <2> DEFINE j == at[w]
  <2>1. /\ RowsRest
           \/ (j \in Jobs /\ \/ Claims(w, j) \/ Starts(w, j) \/ Buys(w, j) \/ Completes(w, j)
                             \/ owner[j] = w /\ Closes(j, say[w]))
        /\ PlaceOK(w)'
        /\ \/ at'[w] = at[w] /\ answer'[w] = answer[w]
           \/ answer'[w] = "none"
           \/ at'[w] = at[w] /\ AnswerOK(w)'
        /\ \A v \in Workers \ {w} : UNCHANGED <<pc[v], at[v], answer[v]>>
    BY <1>0, <1>6, StepSorts
  <2> HIDE DEF j
  <2>2. (\A i \in Jobs : RowOK(i)') /\ EndsStay
    <3>1. CASE RowsRest
      BY <1>3, <3>1
    <3>2. CASE /\ j \in Jobs
               /\ \/ Claims(w, j) \/ Starts(w, j) \/ Buys(w, j) \/ Completes(w, j)
                  \/ Closes(j, say[w])
      <4>1. IsReserved(j[1])
        <5>1. pc[w] # "idle" \/ run[j] # "none"
          BY <3>2 DEF Claims, Starts, Buys, Completes, Closes
        <5>2. pc[w] # "idle" => IsReserved(j[1])
          BY <1>0 DEF Base, Assigned, j
        <5>3. run[j] # "none" => IsReserved(j[1])
          BY <1>0, <3>2 DEF RowsOK, RowOK
        <5> QED BY <5>1, <5>2, <5>3
      <4> QED BY <1>4, <3>2, <4>1 DEF OneRow
    <3> QED BY <2>1, <3>1, <3>2
  <2>3. RowsRest \/ (j \in Jobs /\ (Claims(w, j) \/ (owner[j] = w /\
          (Starts(w, j) \/ Buys(w, j) \/ Completes(w, j) \/ \E reason : Closes(j, reason)))))
    <3>1. Starts(w, j) \/ Buys(w, j) => owner[j] = w
      BY <1>0 DEF Starts, Buys, RowsOK, PlaceOK
    <3> QED BY <2>1, <3>1 DEF Completes
  <2>4. \A v \in Workers : PlaceOK(v)'
    <3>1. ASSUME NEW v \in Workers \ {w} PROVE PlaceOK(v)'
      BY <1>0, <2>1, <2>3, OthersStay
    <3> QED BY <2>1, <3>1
  <2>5. Answers'
    <3>1. ASSUME NEW v \in Workers \ {w} PROVE AnswerOK(v)'
      BY <1>0, <1>5, <2>1, <2>2 DEF RowsOK
    <3>2. AnswerOK(w)'
      <4>1. answer'[w] = "none" => AnswerOK(w)'
        BY DEF AnswerOK, Reasons
      <4> QED BY <1>0, <1>5, <2>1, <2>2, <4>1 DEF RowsOK
    <3> QED BY <3>1, <3>2 DEF Answers
  <2> QED BY <2>2, <2>4, <2>5 DEF RowsOK
<1>7. ASSUME UNCHANGED workerVars, RowsRest \/ \E j \in Jobs : Closes(j, Lost)
      PROVE  RowsOK' /\ Answers' /\ EndsStay
  <2>1. \A v \in Workers : UNCHANGED <<pc[v], at[v], answer[v]>>
    BY <1>7 DEF workerVars
  <2>2. (\A i \in Jobs : RowOK(i)') /\ EndsStay
    <3>1. ASSUME NEW j \in Jobs, Closes(j, Lost) PROVE OneRow(j) /\ IsReserved(j[1])
      BY <1>0, <3>1 DEF OneRow, Closes, RowsOK, RowOK
    <3> QED BY <1>3, <1>4, <1>7, <3>1
  <2>3. \A v \in Workers : PlaceOK(v)'
    BY <1>0, <1>7, <2>1, OthersStay
  <2>4. Answers'
    BY <1>0, <1>5, <2>1, <2>2 DEF Answers, RowsOK
  <2> QED BY <2>2, <2>3, <2>4 DEF RowsOK
<1>8. ASSUME UNCHANGED <<runVars, workerVars>> PROVE RowsOK' /\ Answers' /\ EndsStay
  BY <1>7, <1>8 DEF runVars, RowsRest
<1>9. ASSUME NEW j \in Jobs, Lapse(j) \/ ReconcileExpired(j) PROVE RowsOK' /\ Answers' /\ EndsStay
  <2>1. UNCHANGED workerVars /\ (RowsRest \/ Closes(j, Lost))
    BY <1>9 DEF Lapse, ReconcileExpired, Expired, Closes, RowsRest
  <2> QED BY <1>7, <2>1
<1>10. CASE UNCHANGED vars
  BY <1>8, <1>10 DEF vars
<1> QED BY <1>6, <1>8, <1>9, <1>10 DEF Next

LEMMA InitRuns == Init => RowsOK /\ Answers
<1> SUFFICES ASSUME Init PROVE RowsOK /\ Answers
  OBVIOUS
<1>1. \A j \in Jobs : RowOK(j)
  BY DEF Init, RowOK
<1>2. \A w \in Workers : PlaceOK(w) /\ AnswerOK(w)
  BY DEF Init, PlaceOK, AnswerOK, Before, Waiting, After, Reasons
<1> QED BY <1>1, <1>2 DEF RowsOK, Answers

LEMMA RunsAlways == Spec => []RunsInv
<1>1. Init => RunsInv
  BY InitBase, InitRuns DEF RunsInv
<1>2. RunsInv /\ [Next]_vars => RunsInv'
  BY BaseStep, RunsStep DEF RunsInv
<1> QED BY <1>1, <1>2, PTL DEF Spec

\* A generation is bought at most once for an item, and only for one the ledger
\* has charged.
THEOREM BoughtOnce == Spec => []ProviderOnce
<1>1. RunsInv => ProviderOnce
  <2> SUFFICES ASSUME RunsInv, NEW j \in Jobs
               PROVE  /\ calls[j] <= 1
                      /\ calls[j] = 1 => /\ reserved[j[1]].items >= j[2]
                                         /\ run[j] \in {"RUNNING"} \cup Terminal
    BY DEF ProviderOnce
  <2>1. RowOK(j) /\ run[j] \in RunStates
    BY DEF RunsInv, RowsOK, Base, TypeOK
  <2>2. calls[j] = 1 => run[j] \in {"RUNNING"} \cup Terminal /\ IsReserved(j[1])
    BY <2>1 DEF RowOK, RunStates, Terminal
  <2>3. IsReserved(j[1]) => reserved[j[1]].items = Size[j[1]]
    BY JobParts DEF RunsInv, Base, Tiled
  <2>4. j[2] \in 1 .. Size[j[1]] /\ Size[j[1]] \in Nat
    BY JobParts, Constants
  <2> QED BY <2>1, <2>2, <2>3, <2>4 DEF RowOK
<1> QED BY <1>1, RunsAlways, PTL

\* Evidence belongs to completed runs, their owner and a call that was made.
THEOREM EvidenceAlwaysTheRuns == Spec => []EvidenceIsTheRuns
<1>1. RunsInv => EvidenceIsTheRuns
  BY DEF RunsInv, RowsOK, RowOK, EvidenceIsTheRuns
<1> QED BY <1>1, RunsAlways, PTL

\* What run_job returned stays what the rows say.
THEOREM AnswersAlwaysDurable == Spec => []AnswersAreDurable
<1>1. RunsInv => AnswersAreDurable
  BY DEF RunsInv, Answers, AnswerOK, AnswersAreDurable
<1> QED BY <1>1, RunsAlways, PTL

\* Ended runs, reservations and blocks are final.
THEOREM EndsAlwaysFinal == Spec => EndsAreFinal
<1>1. RunsInv /\ [Next]_vars =>
        [/\ \A j \in Jobs : run[j] \in Terminal =>
              run'[j] = run[j] /\ why'[j] = why[j] /\ evidence'[j] = evidence[j]
         /\ \A q \in Requests : IsReserved(q) => reserved'[q] = reserved[q]
         /\ blocked => blocked']_vars
  <2> SUFFICES ASSUME RunsInv, [Next]_vars
               PROVE  /\ \A j \in Jobs : run[j] \in Terminal =>
                           run'[j] = run[j] /\ why'[j] = why[j] /\ evidence'[j] = evidence[j]
                      /\ \A q \in Requests : IsReserved(q) => reserved'[q] = reserved[q]
                      /\ blocked => blocked'
    OBVIOUS
  <2>1. EndsStay
    BY RunsStep
  <2>2. ASSUME NEW w \in Workers, Step(w) PROVE UNCHANGED reserved /\ (blocked => blocked')
    BY <2>2, StepLedger DEF RunsInv, Base, Assigned
  <2>3. ASSUME LedgerNext
        PROVE  /\ \A q \in Requests : IsReserved(q) => reserved'[q] = reserved[q]
               /\ blocked => blocked'
    BY <2>3, TiledStep, LedgerMoves DEF RunsInv, Base, TypeOK, Tiled
  <2>4. (\E j \in Jobs : Lapse(j) \/ ReconcileExpired(j)) \/ UNCHANGED vars
          => UNCHANGED <<reserved, blocked>>
    BY DEF Lapse, ReconcileExpired, vars, ledgerVars
  <2> QED BY <2>1, <2>2, <2>3, <2>4 DEF Next, EndsStay
<1> QED BY <1>1, RunsAlways, PTL DEF Spec, EndsAreFinal

\* An item that was not claimed when its mission was blocked: nobody gets past
\* the claim of it.
Stuck(j) ==
    /\ blocked /\ run[j] \in {"none", "CLAIMED"}
    /\ \A w \in Workers : at[w] = j => pc[w] \in {"idle", "found", "begun"}

LEMMA StuckStep ==
    ASSUME RunsInv, NEW j \in Jobs, Stuck(j), [Next]_vars
    PROVE  Stuck(j)'
<1>0. Base /\ RowsOK /\ RunTypes /\ WorkerTypes
  BY TypeParts DEF RunsInv, Base
<1>1. ASSUME NEW w \in Workers, Step(w) PROVE Stuck(j)'
  <2>1. blocked'
    BY <1>0, <1>1, StepLedger DEF Base, Assigned, Stuck
  <2>2. /\ RowsRest
           \/ (at[w] \in Jobs /\ \/ Claims(w, at[w]) \/ Starts(w, at[w])
                                 \/ Buys(w, at[w]) \/ Completes(w, at[w])
                                 \/ (owner[at[w]] = w /\ Closes(at[w], say[w])))
        /\ \A v \in Workers \ {w} : UNCHANGED <<pc[v], at[v], answer[v]>>
    BY <1>0, <1>1, StepSorts
  <2>3. run'[j] \in {"none", "CLAIMED"}
    <3>1. CASE at[w] = j
      <4>1. ~Starts(w, j) /\ ~Buys(w, j) /\ ~Completes(w, j)
        BY <3>1 DEF Stuck, Starts, Buys, Completes
      <4>2. ~Closes(j, say[w])
        BY DEF Stuck, Closes
      <4>3. RowsRest \/ Claims(w, j)
        BY <2>2, <3>1, <4>1, <4>2
      <4> QED BY <1>0, <4>3 DEF Stuck, RowsRest, Claims, RunTypes
    <3>2. CASE at[w] # j
      <4>1. run'[j] = run[j]
        BY <1>0, <2>2, <3>2 DEF RowsRest, Claims, Starts, Buys, Completes, Closes, RunTypes
      <4> QED BY <4>1 DEF Stuck
    <3> QED BY <3>1, <3>2
  <2>4. at'[w] = j => pc'[w] \in {"idle", "found", "begun"}
    <3>1. ASSUME NEW i \in Jobs, TakeJob(w, i) PROVE pc'[w] = "found"
      BY <1>0, <3>1 DEF TakeJob, WorkerTypes
    <3>2. ASSUME \A i \in Jobs : ~TakeJob(w, i), at[w] = j
          PROVE  pc'[w] \in {"idle", "begun"}
      <4>1. pc[w] \in {"idle", "found", "begun"} /\ blocked
        BY <3>2 DEF Stuck
      <4>2. Begin(w) \/ Revalidate(w) \/ Die(w)
        BY <1>1, <3>2, <4>1
           DEF Step, ReadAgain, ReadRefused, Prepare, Start, Beat, CallProvider,
               ProviderReturns, Complete, ReadEvidence, MarkIncomplete, CheckStatus
      <4>3. Goto(w, "begun") \/ Raise(w)
        BY <4>1, <4>2 DEF Begin, Revalidate, Die, Refused
      <4> QED BY <1>0, <4>3 DEF Goto, Raise, WorkerTypes
    <3>3. ASSUME \A i \in Jobs : ~TakeJob(w, i) PROVE at'[w] = at[w]
      BY <1>0, <1>1, <3>3, StepWalks, WalksTypes DEF Base
    <3> QED BY <3>1, <3>2, <3>3
  <2> QED BY <2>1, <2>2, <2>3, <2>4 DEF Stuck
<1>2. ASSUME LedgerNext, UNCHANGED <<runVars, workerVars>> PROVE Stuck(j)'
  <2>1. blocked'
    BY <1>0, <1>2, LedgerMoves DEF Base, TypeOK, Tiled, Stuck
  <2> QED BY <1>2, <2>1 DEF Stuck, runVars, workerVars
<1>3. ASSUME NEW i \in Jobs, Lapse(i) \/ ReconcileExpired(i) PROVE Stuck(j)'
  <2>1. UNCHANGED <<blocked, pc, at>>
    BY <1>3 DEF Lapse, ReconcileExpired, ledgerVars, workerVars
  <2>2. run'[j] = run[j]
    BY <1>0, <1>3 DEF Lapse, ReconcileExpired, Expired, Stuck, RunTypes
  <2> QED BY <2>1, <2>2 DEF Stuck
<1>4. CASE UNCHANGED vars
  BY <1>4 DEF vars, ledgerVars, runVars, workerVars, Stuck
<1> QED BY <1>1, <1>2, <1>3, <1>4 DEF Next

\* An item that was not claimed when its mission was blocked is never bought.
THEOREM BlockAlwaysComesFirst == Spec => BlockComesFirst
<1> SUFFICES ASSUME NEW j \in Jobs
             PROVE  Spec => [](blocked /\ run[j] = "none" => [](calls[j] = 0))
  BY DEF BlockComesFirst
<1>1. RunsInv /\ blocked /\ run[j] = "none" => Stuck(j)
  <2> SUFFICES ASSUME RunsInv, blocked, run[j] = "none", NEW w \in Workers, at[w] = j
               PROVE  pc[w] \in {"idle", "found", "begun"}
    BY DEF Stuck
  <2>1. owner[j] = NoWorker /\ NoWorker \notin Workers
    BY DiscoveryRunsAssumption DEF RunsInv, RowsOK, RowOK
  <2> QED BY <2>1 DEF RunsInv, RowsOK, PlaceOK
<1>2. RunsInv /\ Stuck(j) => calls[j] = 0
  BY DEF RunsInv, RowsOK, RowOK, Stuck
<1>3. RunsInv /\ Stuck(j) /\ [Next]_vars => Stuck(j)'
  BY StuckStep
<1> QED BY <1>1, <1>2, <1>3, RunsAlways, PTL DEF Spec

-----------------------------------------------------------------------------
(* The runs keep to the ledger. *)

\* A mission whose first cut is incomplete is blocked; of any other, the cut on
\* file is the history its arms were drawn from.
Drawn ==
    /\ first.filed /\ ~first.complete => blocked
    /\ \A q \in Arms : IsReserved(q) =>
         first.filed /\ (first.complete => reserved[q].history = first.history)

LEMMA DrawnLedger ==
    ASSUME LedgerTypeOK, Drawn, LedgerNext
    PROVE  Drawn'
<1>0. first \in Filings /\ blocked \in BOOLEAN /\ HistoryComplete \in BOOLEAN
  BY DEF LedgerTypeOK, HistoryComplete
<1>1. ASSUME FileHistory
      PROVE  /\ first'.filed /\ (~first'.complete => blocked')
             /\ first.filed => first' = first
             /\ HistoryComplete /\ first'.complete => first'.history = history
  <2>1. first' = IF first.filed THEN first
                 ELSE [history |-> history, complete |-> HistoryComplete, filed |-> TRUE]
    BY <1>1 DEF FileHistory, FileCut
  <2>2. blocked' = (blocked \/ ~HistoryComplete)
    BY <1>1 DEF FileHistory
  <2>3. CASE first.filed
    BY <2>1, <2>2, <2>3 DEF Drawn, HistoryComplete
  <2>4. CASE ~first.filed
    <3>1. first'.history = history /\ first'.complete = HistoryComplete /\ first'.filed = TRUE
      BY <2>1, <2>4
    <3> QED BY <2>2, <2>4, <3>1
  <2> QED BY <2>3, <2>4
<1>2. ASSUME UNCHANGED reserved, FileHistory PROVE Drawn'
  BY <1>1, <1>2 DEF Drawn, IsReserved
<1>3. ASSUME NEW q \in Requests, NEW n, NEW mode, Reserve(q, n, mode)
      PROVE  /\ reserved'[q].history = history
             /\ \A p \in Requests \ {q} : reserved'[p] = reserved[p]
  BY <1>3 DEF Reserve, LedgerTypeOK
<1>4. ASSUME NEW q \in Arms, ReserveArm(q) PROVE Drawn'
  <2>1. HistoryComplete /\ FileHistory
    BY <1>4 DEF ReserveArm
  <2>2. CASE UNCHANGED reserved
    BY <1>2, <2>1, <2>2
  <2>3. CASE Reserve(q, Size[q], "EXACT")
    <3>1. ASSUME NEW p \in Arms, IsReserved(p)'
          PROVE  first'.complete => reserved'[p].history = first'.history
      <4>1. q \in Requests /\ p \in Requests
        BY Constants
      <4>2. CASE p = q
        BY <1>1, <1>3, <2>1, <2>3, <4>1, <4>2
      <4>3. CASE p # q
        <5>1. IsReserved(p) /\ reserved'[p] = reserved[p]
          BY <1>3, <2>3, <3>1, <4>1, <4>3 DEF IsReserved
        <5> QED BY <1>1, <2>1, <5>1 DEF Drawn
      <4> QED BY <4>2, <4>3
    <3> QED BY <1>1, <2>1, <3>1 DEF Drawn
  <2> QED BY <1>4, <2>2, <2>3 DEF ReserveArm
<1>5. ASSUME NEW q \in Children, NEW mode \in Modes, ReserveChildren(q, mode) PROVE Drawn'
  <2>1. q \in Requests /\ q \notin Arms /\ Arms \subseteq Requests
    BY Constants
  <2>2. UNCHANGED <<first, blocked>> /\ \A p \in Arms : reserved'[p] = reserved[p]
    BY <1>3, <1>5, <2>1 DEF ReserveChildren
  <2> QED BY <2>2 DEF Drawn, IsReserved
<1>6. ASSUME UNCHANGED <<reserved, first>>, blocked => blocked' PROVE Drawn'
  BY <1>6 DEF Drawn, IsReserved
<1>7. (\E c \in Caps : RegisterCap(c)) \/ AttemptMoves \/ EarlierRowsChange \/ EarlierWorkEnds
        \/ ProbeRunAppears \/ (\E q \in Arms : ReadbackFails(q) \/ WriteBlock(q) \/ LoseBlock(q))
        => UNCHANGED <<reserved, first>> /\ (blocked => blocked')
  BY DEF RegisterCap, AttemptMoves, EarlierRowsChange, EarlierWorkEnds, ProbeRunAppears,
         ReadbackFails, WriteBlock, LoseBlock
<1>8. ReconcileHistory \/ RefuseIncomplete => UNCHANGED reserved /\ FileHistory
  BY DEF ReconcileHistory, RefuseIncomplete
<1> QED BY <1>2, <1>4, <1>5, <1>6, <1>7, <1>8 DEF LedgerNext

\* A worker's step is one of the ledger's, or none: what a claim's second look
\* at the history commits is what a reconciliation would, and a readback of the
\* worker's is a readback.
LEMMA StepKeepsLedger ==
    ASSUME Base, Drawn, NEW w \in Workers, Step(w)
    PROVE  LedgerNext \/ UNCHANGED ledgerVars
<1>1. ASSUME Revalidate(w)
      PROVE  ReconcileHistory \/ UNCHANGED ledgerVars
  <2> DEFINE q == at[w][1]
  <2>0. q \in Arms /\ IsReserved(q) /\ blocked \in BOOLEAN
    <3>1. at[w] \in Jobs /\ IsReserved(q)
      BY <1>1 DEF Revalidate, Base, Assigned
    <3> QED BY <3>1, JobParts DEF Base, TypeOK, LedgerTypeOK
  <2>1. HistoryComplete => AccountedFor(q) \/ blocked
    BY <2>0 DEF Drawn, AccountedFor, HistoryComplete
  <2>2. UNCHANGED <<cap, history, kept, total, attempt, reserved, doomed>>
    BY <1>1 DEF Revalidate
  <2>3. \/ FileHistory
        \/ ~AccountedFor(q) /\ FileCut /\ blocked' = TRUE
        \/ UNCHANGED <<first, blocked>>
    BY <1>1 DEF Revalidate
  <2>4. ~AccountedFor(q) /\ FileCut /\ blocked' = TRUE => FileHistory
    BY <2>0, <2>1 DEF FileHistory, AccountedFor
  <2> HIDE DEF q
  <2> QED BY <2>2, <2>3, <2>4 DEF ReconcileHistory, ledgerVars
<1>2. ASSUME ReadRefused(w)
      PROVE  \E q \in Arms : ReadbackFails(q)
  <2>1. at[w] \in Jobs /\ IsReserved(at[w][1])
    BY <1>2 DEF ReadRefused, Base, Assigned
  <2>2. at[w][1] \in Arms /\ ReadbackFails(at[w][1])
    BY <1>2, <2>1, JobParts DEF ReadRefused, ReadbackFails
  <2> QED BY <2>2
<1>3. (\E j \in Jobs : TakeJob(w, j)) \/ Begin(w) \/ ReadAgain(w) \/ Prepare(w) \/ Start(w)
        \/ Beat(w) \/ CallProvider(w) \/ ProviderReturns(w) \/ ReadEvidence(w) \/ Complete(w)
        \/ MarkIncomplete(w) \/ CheckStatus(w) \/ Die(w)
        => UNCHANGED ledgerVars
  BY DEF TakeJob, Begin, ReadAgain, Prepare, Start, Beat, CallProvider, ProviderReturns,
         ReadEvidence, Complete, MarkIncomplete, CheckStatus, Die
<1> QED BY <1>1, <1>2, <1>3 DEF Step, LedgerNext

LEMMA LedgerSteps ==
    ASSUME Base, Drawn, [Next]_vars
    PROVE  Drawn' /\ [LedgerNext]_ledgerVars
<1>1. LedgerNext => Drawn'
  BY DrawnLedger DEF Base, TypeOK
<1>2. ASSUME UNCHANGED ledgerVars PROVE Drawn'
  BY <1>2 DEF ledgerVars, Drawn, IsReserved
<1>3. ASSUME NEW w \in Workers, Step(w) PROVE Drawn' /\ [LedgerNext]_ledgerVars
  <2>1. LedgerNext \/ UNCHANGED ledgerVars
    BY <1>3, StepKeepsLedger
  <2> QED BY <1>1, <1>2, <2>1
<1>4. (\E j \in Jobs : Lapse(j) \/ ReconcileExpired(j)) \/ UNCHANGED vars => UNCHANGED ledgerVars
  BY DEF Lapse, ReconcileExpired, vars
<1> QED BY <1>1, <1>2, <1>3, <1>4 DEF Next

\* Whatever the workers do, the ledger sees its own steps only: a claim that is
\* revalidated, refused or abandoned reserves nothing, frees nothing, lifts no
\* block, and blocks only where the ledger would have blocked.
THEOREM RunsKeepLedger == Spec => LedgerSpec
<1>1. Init => LedgerInit /\ Drawn
  BY Constants DEF Init, LedgerInit, NotFiled, Drawn, IsReserved
<1>2. Base /\ Drawn /\ [Next]_vars => Drawn' /\ [LedgerNext]_ledgerVars
  BY LedgerSteps
<1> QED BY <1>1, <1>2, BaseAlways, PTL DEF Spec, LedgerSpec

\* The cap is the ledger's own promise, with these runs over it or any others
\* that keep to its steps.
THEOREM LedgerWithinCap == LedgerSpec => []WithinCap
<1>1. LedgerInit => LedgerTypeOK /\ Tiled
  BY LedgerInitTypes, InitTiled
<1>2. LedgerTypeOK /\ Tiled /\ [LedgerNext]_ledgerVars => LedgerTypeOK' /\ Tiled'
  <2> SUFFICES ASSUME LedgerTypeOK, Tiled, [LedgerNext]_ledgerVars
               PROVE  LedgerTypeOK' /\ Tiled'
    OBVIOUS
  <2>1. CASE UNCHANGED ledgerVars
    BY <2>1 DEF ledgerVars, LedgerTypeOK, Tiled, IsReserved, StartOf, EndOf
  <2>2. CASE LedgerNext
    BY <2>2, TiledStep, LedgerTypeStep DEF Tiled
  <2> QED BY <2>1, <2>2
<1> QED BY <1>1, <1>2, TiledWithinCap, PTL DEF LedgerSpec

-----------------------------------------------------------------------------
(* Each item keeps the lifecycle of a job with one claim. *)

\* What a step may do to a run.
RunMoves(j) ==
    \/ run'[j] = run[j]
    \/ run[j] = "none" /\ run'[j] = "CLAIMED" /\ IsReserved(j[1])
    \/ run[j] = "CLAIMED" /\ run'[j] = "RUNNING"
    \/ run[j] = "RUNNING" /\ run'[j] \in Terminal

LEMMA OneRowMoves ==
    ASSUME RunTypes, NEW i \in Jobs, OneRow(i), IsReserved(i[1]), NEW j \in Jobs
    PROVE  RunMoves(j)
<1>1. CASE j # i
  <2>1. run'[j] = run[j]
    BY <1>1 DEF OneRow, Claims, Starts, Buys, Completes, Closes, RunTypes
  <2> QED BY <2>1 DEF RunMoves
<1>2. CASE j = i
  <2>1. ASSUME NEW w \in Workers, Claims(w, i) \/ Starts(w, i) \/ Buys(w, i) \/ Completes(w, i)
        PROVE  RunMoves(j)
    BY <1>2, <2>1 DEF Claims, Starts, Buys, Completes, RunTypes, RunMoves, Terminal
  <2>2. ASSUME NEW reason, Closes(i, reason) PROVE RunMoves(j)
    BY <1>2, <2>2 DEF Closes, RunTypes, RunMoves, Terminal
  <2> QED BY <2>1, <2>2 DEF OneRow
<1> QED BY <1>1, <1>2

LEMMA RunSteps ==
    ASSUME RunsInv, [Next]_vars, NEW j \in Jobs
    PROVE  RunMoves(j) /\ (IsReserved(j[1]) => IsReserved(j[1])')
<1>0. Base /\ RowsOK /\ RunTypes
  BY TypeParts DEF RunsInv, Base
<1>1. IsReserved(j[1]) => IsReserved(j[1])'
  <2>0. j[1] \in Requests
    BY JobParts, Constants
  <2>1. ASSUME NEW w \in Workers, Step(w) PROVE UNCHANGED reserved
    BY <1>0, <2>1, StepLedger DEF Base, Assigned
  <2>2. LedgerNext => \A q \in Requests : IsReserved(q) => reserved'[q] = reserved[q]
    BY <1>0, TiledStep DEF Base, TypeOK
  <2>3. (\E i \in Jobs : Lapse(i) \/ ReconcileExpired(i)) \/ UNCHANGED vars => UNCHANGED reserved
    BY DEF Lapse, ReconcileExpired, vars, ledgerVars
  <2> QED BY <2>0, <2>1, <2>2, <2>3 DEF Next, IsReserved
<1>2. ASSUME NEW w \in Workers, Step(w) PROVE RunMoves(j)
  <2> DEFINE i == at[w]
  <2>1. RowsRest \/ (i \in Jobs /\ OneRow(i))
    BY <1>0, <1>2, StepSorts DEF OneRow
  <2>2. i \in Jobs /\ ~RowsRest => IsReserved(i[1])
    <3>1. pc[w] # "idle" => IsReserved(i[1])
      BY <1>0 DEF Base, Assigned
    <3>2. pc[w] = "idle" => RowsRest
      BY <1>2 DEF Step, TakeJob, Begin, Revalidate, ReadAgain, ReadRefused, Prepare, Start, Beat,
                  CallProvider, ProviderReturns, Complete, ReadEvidence, MarkIncomplete,
                  CheckStatus, Die, RowsRest, runVars
    <3> QED BY <3>1, <3>2
  <2>3. RowsRest => RunMoves(j)
    BY DEF RowsRest, RunMoves
  <2> HIDE DEF i
  <2> QED BY <1>0, <2>1, <2>2, <2>3, OneRowMoves
<1>3. ASSUME NEW i \in Jobs, Lapse(i) \/ ReconcileExpired(i) PROVE RunMoves(j)
  <2>1. UNCHANGED run \/ Closes(i, Lost)
    BY <1>3 DEF Lapse, ReconcileExpired, Expired, Closes
  <2>2. ASSUME Closes(i, Lost) PROVE RunMoves(j)
    <3>1. IsReserved(i[1])
      BY <1>0, <2>2 DEF Closes, RowsOK, RowOK
    <3> QED BY <1>0, <2>2, <3>1, OneRowMoves DEF OneRow
  <2> QED BY <2>1, <2>2 DEF RunMoves
<1>4. UNCHANGED runVars => RunMoves(j)
  BY DEF runVars, RunMoves
<1> QED BY <1>1, <1>2, <1>3, <1>4 DEF Next, vars

\* An item of an arm waits from its reservation, is claimed once and by one
\* worker, and ends once: neither a worker that comes back nor the closing of
\* what a lost one left hands it out again.
THEOREM ItemsKeepLifecycle == Spec => KeepsLifecycle
<1>1. Init => Lifecycle!Init
  <2>1. Init => \A j \in Jobs : Phase(j) = "absent" /\ run[j] = "none"
    <3>1. Init => \A j \in Jobs : run[j] = "none" /\ ~IsReserved(j[1])
      BY JobParts, Constants DEF Init, LedgerInit, IsReserved
    <3> QED BY <3>1 DEF Phase
  <2> QED BY <2>1 DEF Lifecycle!Init
<1>2. RunsInv /\ RunsInv' /\ [Next]_vars => [Lifecycle!Next]_(Lifecycle!vars)
  <2> SUFFICES ASSUME RunsInv, RunsInv', [Next]_vars PROVE Lifecycle!Next
    OBVIOUS
  <2>0. (\A j \in Jobs : run[j] \in RunStates) /\ (\A j \in Jobs : run'[j] \in RunStates)
    BY DEF RunsInv, Base, TypeOK
  <2>1. ASSUME NEW j \in Jobs PROVE Phase(j)' \in Lifecycle!Phases
    BY <2>0 DEF Phase, RunStates, Lifecycle!Phases, Lifecycle!Ends
  <2>2. ASSUME NEW j \in Jobs PROVE Lifecycle!JobNext(j)
    <3>0. run[j] \in RunStates /\ RunMoves(j) /\ (IsReserved(j[1]) => IsReserved(j[1])')
      BY <2>0, RunSteps
    <3>1. CASE run'[j] = run[j] /\ Phase(j)' = Phase(j)
      BY <3>1 DEF Lifecycle!JobNext, Lifecycle!Unmoved, Lifecycle!Stays
    <3>2. CASE run'[j] = run[j] /\ Phase(j)' # Phase(j)
      <4>1. Phase(j) = "absent" /\ Phase(j)' = "waiting"
        BY <3>0, <3>2 DEF Phase, RunStates
      <4> QED BY <3>2, <4>1 DEF Lifecycle!JobNext, Lifecycle!Submitted, Lifecycle!Stays
    <3>3. CASE run[j] = "none" /\ run'[j] = "CLAIMED" /\ IsReserved(j[1])
      <4>1. Phase(j) = "waiting" /\ Phase(j)' = "held"
        BY <3>3 DEF Phase
      <4> QED BY <3>3, <4>1 DEF Lifecycle!JobNext, Lifecycle!Taken
    <3>4. CASE run[j] = "CLAIMED" /\ run'[j] = "RUNNING"
      <4>1. Phase(j) = "held" /\ Phase(j)' = "held"
        BY <3>4 DEF Phase
      <4> QED BY <3>4, <4>1 DEF Lifecycle!JobNext, Lifecycle!Unmoved, Lifecycle!Stays
    <3>5. CASE run[j] = "RUNNING" /\ run'[j] \in Terminal
      <4>1. Phase(j) = "held" /\ Phase(j)' \in {"succeeded", "failed"}
        BY <3>5 DEF Phase, Terminal
      <4> QED BY <3>5, <4>1 DEF Lifecycle!JobNext, Lifecycle!Reported, Lifecycle!Ends,
                                Lifecycle!Stays, Terminal
    <3> QED BY <3>0, <3>1, <3>2, <3>3, <3>4, <3>5 DEF RunMoves
  <2> QED BY <2>1, <2>2 DEF Lifecycle!Next
<1> QED BY <1>1, <1>2, RunsAlways, PTL DEF Spec, KeepsLifecycle, Lifecycle!Spec

=============================================================================
