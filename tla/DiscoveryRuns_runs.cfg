\* One arm of one item that two workers want, children that may take two, a cap
\* that is a multiple of nothing, and an execution the earlier schema may have left.
SPECIFICATION Spec
CONSTANTS
    q1 = q1
    c1 = c1
    w1 = w1
    w2 = w2
    Arms = {q1}
    Children = {c1}
    Size <- SizeDef
    Units = 2
    Caps = {3, 5}
    MaxMoves = 1
    Workers = {w1, w2}
    NoWorker = NoWorker
INVARIANTS
    TypeOK
    WithinCap
    ProviderOnce
    EvidenceIsTheRuns
    AnswersAreDurable
PROPERTIES
    BlockComesFirst
CHECK_DEADLOCK FALSE
