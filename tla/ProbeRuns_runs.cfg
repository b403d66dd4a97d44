\* Two candidates of two tries each, two workers that may die, three attempts; the
\* artifact store may lose the bytes of the second.
SPECIFICATION Spec
CONSTANTS
    NumTrials = 2
    w1 = w1
    w2 = w2
    Workers = {w1, w2}
    MaxTries = 2
    FetchBudget = 1
    PublishBudget = 1
    Mortal = {w1, w2}
    Perishable = {2}
    MaxAttempts = 3
SYMMETRY WorkerSymmetry
INVARIANTS
    TypeOK
    OneStory
    SurfaceNeedsWinner
    EvidenceOutlivesRun
    BudgetsHold
PROPERTIES
    ReviewIsKept
CHECK_DEADLOCK FALSE
