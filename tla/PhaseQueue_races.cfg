\* One job that both workers may claim, three attempts: lease races, zombies,
\* cancellation and retried reports.
CONSTANTS
    NumJobs = 1
    general = general
    specialist = specialist
    Workers = {general, specialist}
    NoWorker = NoWorker
    LaneImages = {"lane9um"}
    AnyImage = "any"
    Unlabelled = "unlabelled"
    Needs <- NoneNeeds
    Runtime <- BlindRuntime
    Admits <- AdmitAll
    Priority <- SamePriority
    Ceiling <- ThreeAttempts
    Window = 1
    Unruly = {1}
SPECIFICATION Spec
INVARIANTS TypeOK OneHolder
PROPERTIES SuccessIsTheHolders KeepsLifecycle
CHECK_DEADLOCK FALSE
