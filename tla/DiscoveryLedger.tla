-------------------------- MODULE DiscoveryLedger --------------------------
(***************************************************************************)
(* The compute ledger of First Letters discovery for one mission           *)
(* (fleet/postgres_store.py).  A cap is registered once; a request for     *)
(* work reserves its units against it before anything runs, and nothing is *)
(* ever given back.  A mission whose history cannot be accounted for, or   *)
(* whose work no longer agrees with the state it was drawn from, is        *)
(* blocked, and a block is never lifted.                                   *)
(*                                                                         *)
(* Every writer holds the two advisory locks of the mission, so a writer's *)
(* transaction is one step.  What is not one step is a readback: it takes  *)
(* the rows, derives the work again in a second transaction, and writes    *)
(* the block in a third, whatever made the second fail.                    *)
(***************************************************************************)
EXTENDS Integers, FiniteSets

CONSTANTS
    Arms,       \* requests for a baseline or an alternative-source arm
    Children,   \* requests for adaptive children
    Size,       \* the number of items a request names
    Units,      \* units_per_item: 24 in the code
    Caps,       \* the caps an operator may register, in units
    MaxMoves    \* bound on the times the parent task changes its attempt

Requests == Arms \cup Children

ASSUME DiscoveryLedgerAssumption ==
    /\ IsFiniteSet(Requests)
    /\ Arms \cap Children = {}
    /\ Size \in [Requests -> Nat \ {0}]
    /\ Units \in Nat \ {0}
    /\ Caps \subseteq Nat
    /\ MaxMoves \in Nat

VARIABLES
    cap,       \* discovery_compute_caps
    blocked,   \* a row of discovery_compute_blocks
    history,   \* what the earlier schema left: nothing, one execution without or
               \* with an outcome, that one with rows written since, or a run of
               \* the probe pipeline
    kept,      \* units of the reservation that execution had
    total,     \* SUM(reserved_units): the table only grows
    first,     \* the oldest discovery_history_reconciliations row
    attempt,   \* the active attempt of the parent task, by number
    reserved,  \* discovery_compute_reservations with their work, by request
    doomed     \* requests whose readback failed, their block still to be written

ledgerVars == <<cap, blocked, history, kept, total, first, attempt, reserved, doomed>>

NoCap == -1
Whole == {"empty", "finished", "rewritten"}
Histories == Whole \cup {"unfinished", "legacy"}
Modes == {"EXACT", "PREFIX_TO_CAP"}
NoRow == [items |-> 0, before |-> 0, mode |-> "none", attempt |-> 0, history |-> "empty"]
Rows == [items : Nat \ {0}, before : Nat, mode : Modes,
         attempt : 0 .. MaxMoves, history : Histories]
NotFiled == [history |-> "empty", complete |-> FALSE, filed |-> FALSE]
Filings == [history : Histories, complete : BOOLEAN, filed : BOOLEAN]

\* A reservation of the earlier schema refers to a registered cap.
LedgerInit ==
    /\ \/ cap = NoCap /\ history = "empty" /\ kept = 0
       \/ cap \in {c \in Caps : c >= Units} /\ history = "unfinished" /\ kept = Units
    /\ total = kept
    /\ blocked = FALSE
    /\ first = NotFiled
    /\ attempt = 0
    /\ reserved = [q \in Requests |-> NoRow]
    /\ doomed = {}

IsReserved(q) == reserved[q] # NoRow
Charged(row) == row.items * Units

-----------------------------------------------------------------------------
(***************************************************************************)
(* The history is complete when nothing of the probe pipeline ran for the  *)
(* mission and what the earlier schema kept is whole; once it was filed as *)
(* complete it must also be the same.  The cut is filed, and an incomplete *)
(* one blocks the mission.                                                 *)
(***************************************************************************)
HistoryComplete ==
    /\ history \in Whole
    /\ first.complete => first.history = history

FileCut ==
    first' = IF first.filed THEN first
             ELSE [history |-> history, complete |-> HistoryComplete, filed |-> TRUE]

FileHistory ==
    /\ FileCut
    /\ blocked' = (blocked \/ ~HistoryComplete)

RegisterCap(c) ==
    /\ cap = NoCap
    /\ cap' = c
    /\ UNCHANGED <<blocked, history, kept, total, first, attempt, reserved, doomed>>

ReconcileHistory ==
    /\ FileHistory
    /\ UNCHANGED <<cap, history, kept, total, attempt, reserved, doomed>>

\* The incomplete cut is committed although the reservation is refused.
RefuseIncomplete ==
    /\ ~HistoryComplete
    /\ FileHistory
    /\ UNCHANGED <<cap, history, kept, total, attempt, reserved, doomed>>

Reserve(q, n, mode) ==
    /\ reserved' = [reserved EXCEPT ![q] =
           [items |-> n, before |-> total, mode |-> mode,
            attempt |-> attempt, history |-> history]]
    /\ total' = total + n * Units

\* Mutant: the request is held against the cap, not the mission's total.
ArmFitsAlone(q) == Size[q] * Units <= cap

ArmFits(q) == total + Size[q] * Units <= cap

\* An arm takes all its items or nothing.  A second ask for the same work
\* finds the row and files the history once more; of changed work it is a
\* conflict and rolls back.  The readback that follows is Doubt's.
ReserveArm(q) ==
    /\ HistoryComplete
    /\ cap # NoCap
    /\ \/ /\ ~IsReserved(q)
          /\ ArmFits(q)
          /\ Reserve(q, Size[q], "EXACT")
       \/ /\ IsReserved(q)
          /\ reserved[q].attempt = attempt /\ reserved[q].history = history
          /\ UNCHANGED <<total, reserved>>
    /\ FileHistory
    /\ UNCHANGED <<cap, history, kept, attempt, doomed>>

Fits == (cap - total) \div Units

\* Mutant: a prefix of nothing is a prefix.
AnyLeft == cap >= total

AnyFits == Fits > 0

\* A child's request is refused once the mission is blocked.  In one mode it
\* takes all its items, in the other as many of the first as still fit.
ReserveChildren(q, mode) ==
    /\ ~blocked
    /\ cap # NoCap
    /\ ~IsReserved(q)
    /\ \/ mode = "EXACT" /\ Size[q] <= Fits /\ Reserve(q, Size[q], mode)
       \/ /\ mode = "PREFIX_TO_CAP" /\ AnyFits
          /\ Reserve(q, IF Size[q] < Fits THEN Size[q] ELSE Fits, mode)
    /\ UNCHANGED <<cap, blocked, history, kept, first, attempt, doomed>>

-----------------------------------------------------------------------------
\* A readback derives the arm again from the current rows: it agrees while the
\* parent's attempt is the one it was drawn from.
Agrees(q) == reserved[q].attempt = attempt

\* When it does not, or when the second transaction fails for any other reason,
\* the block is next.
Doubt(q) == doomed' = doomed \cup {q}

ReadbackFails(q) ==
    /\ IsReserved(q)
    /\ Doubt(q)
    /\ UNCHANGED <<cap, blocked, history, kept, total, first, attempt, reserved>>

WriteBlock(q) ==
    /\ q \in doomed
    /\ blocked' = TRUE
    /\ doomed' = doomed \ {q}
    /\ UNCHANGED <<cap, history, kept, total, first, attempt, reserved>>

\* The process ends, or the database refuses the third transaction too.
LoseBlock(q) ==
    /\ q \in doomed
    /\ doomed' = doomed \ {q}
    /\ UNCHANGED <<cap, blocked, history, kept, total, first, attempt, reserved>>

\* What other components do to the rows the ledger reads: the parent task is
\* claimed again, a task or attempt that the earlier execution belongs to is
\* written (its rows are in the manifest whole), that execution gets its outcome,
\* the probe pipeline runs for the mission.  A manifest is only compared with the
\* one filed and the one drawn from, so one rewriting stands for any number.
Rewritten == history = "finished" /\ history' = "rewritten"

AttemptMoves ==
    /\ attempt < MaxMoves
    /\ attempt' = attempt + 1
    /\ Rewritten \/ UNCHANGED history
    /\ UNCHANGED <<cap, blocked, kept, total, first, reserved, doomed>>

EarlierRowsChange ==
    /\ Rewritten
    /\ UNCHANGED <<cap, blocked, kept, total, first, attempt, reserved, doomed>>

EarlierWorkEnds ==
    /\ history = "unfinished"
    /\ history' = "finished"
    /\ UNCHANGED <<cap, blocked, kept, total, first, attempt, reserved, doomed>>

ProbeRunAppears ==
    /\ history # "legacy"
    /\ history' = "legacy"
    /\ UNCHANGED <<cap, blocked, kept, total, first, attempt, reserved, doomed>>

LedgerNext ==
    \/ \E c \in Caps : RegisterCap(c)
    \/ ReconcileHistory
    \/ RefuseIncomplete
    \/ \E q \in Arms : ReserveArm(q) \/ ReadbackFails(q) \/ WriteBlock(q) \/ LoseBlock(q)
    \/ \E q \in Children, mode \in Modes : ReserveChildren(q, mode)
    \/ AttemptMoves
    \/ EarlierRowsChange
    \/ EarlierWorkEnds
    \/ ProbeRunAppears

LedgerSpec == LedgerInit /\ [][LedgerNext]_ledgerVars
-----------------------------------------------------------------------------
LedgerTypeOK ==
    /\ cap \in Caps \cup {NoCap}
    /\ blocked \in BOOLEAN
    /\ history \in Histories
    /\ kept \in {0, Units}
    /\ total \in Nat
    /\ first \in Filings
    /\ attempt \in 0 .. MaxMoves
    /\ reserved \in [Requests -> Rows \cup {NoRow}]
    /\ doomed \subseteq Arms

\* The ledger tiles: the reservations follow one another from what the earlier
\* schema had taken, each starts where another ended and no two cover the same
\* unit, and none ends above the cap, however arms and children interleave.
WithinCap ==
    LET Start(q) == reserved[q].before
        End(q) == reserved[q].before + Charged(reserved[q])
        Held == {q \in Requests : IsReserved(q)}
    IN  /\ \A q \in Held : Start(q) < End(q) /\ End(q) <= cap
        /\ \A q \in Held : Start(q) \in {kept} \cup {End(p) : p \in Held \ {q}}
        /\ \A p, q \in Held : p # q => End(p) <= Start(q) \/ End(q) <= Start(p)

=============================================================================
