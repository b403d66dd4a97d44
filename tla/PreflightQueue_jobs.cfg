\* One request asked for twice at once and again after it failed, two workers,
\* one requeue, one fault.
SPECIFICATION FairSpec
CONSTANTS
    r1 = r1
    a1 = a1
    a2 = a2
    w1 = w1
    w2 = w2
    Requests = {r1}
    Askers = {a1, a2}
    Workers = {w1, w2}
    MaximumRequeues = 1
    MaxFailures = 2
    MaxOrdinal = 1
    MaxFaults = 1
INVARIANTS
    TypeOK
    OneLivePerRequest
    ReceiptFromLastClaim
    OutageGetsItsRetries
PROPERTIES
    KeepsLifecycle
    EveryJobEnds
CHECK_DEADLOCK FALSE
