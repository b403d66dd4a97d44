\* Three jobs and one specialist worker; the head of the queue is an ordinary
\* job, which a specialist must leave alone, and the worker looks past it.  A
\* worker of another phase polls the same table: its claims take nothing but
\* recycle what has lapsed.
CONSTANTS
    NumJobs = 3
    general = general
    specialist = specialist
    Workers = {general, specialist}
    NoWorker = NoWorker
    LaneImages = {"lane9um"}
    AnyImage = "any"
    Unlabelled = "unlabelled"
    Needs <- AllButFirstNeed9um
    Runtime <- BothRuntimes
    Admits <- SpecialistOnly
    Priority <- SamePriority
    Ceiling <- TwoAttempts
    Window = 2
    Unruly = {}
SPECIFICATION FairSpec
INVARIANT ClaimsWhatItCanRun
PROPERTIES EveryServedJobSettles CancelledWasAsked
CHECK_DEADLOCK FALSE
