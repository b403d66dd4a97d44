\* One surface, one profile, one worker and two certification runs that list the
\* surface before either of them judges it.
SPECIFICATION Spec
CONSTANTS
    s1 = s1
    s2 = s2
    p1 = p1
    p2 = p2
    w1 = w1
    w2 = w2
    Surfaces = {s1}
    Profiles = {p1}
    Artifacts = {b1, b2}
    NoArtifact = NoArtifact
    Areas <- BelowAtAbove
    Floor = 2
    Workers = {w1}
    Lane <- EveryProfile
    NoJob = NoJob
    Runs = {r1, r2}
    NoSurface = NoSurface
    SampleOf <- OneSample
    MaxClaims = 2
PROPERTIES
    RejectedIsNeverHanded
CHECK_DEADLOCK FALSE
