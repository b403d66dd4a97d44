\* A controlled job at the head of the queue: each claim of it rolls back, and the expired leases with it.
CONSTANTS
    NumJobs = 2
    general = general
    specialist = specialist
    Workers = {general}
    NoWorker = NoWorker
    LaneImages = {"lane9um"}
    AnyImage = "any"
    Unlabelled = "unlabelled"
    Needs <- NoneNeeds
    Runtime <- BlindRuntime
    Admits <- AdmitAll
    Priority <- SamePriority
    Ceiling <- TwoAttempts
    Window = 2
    Unruly = {1}
SPECIFICATION FairSpec
PROPERTY DeadHostReturnsWork
CHECK_DEADLOCK FALSE
