\* A surface that is new, or was queued before routing existed; two certification
\* runs that may list and judge it at the same time, two profiles, two workers, one
\* of them of a single profile.
SPECIFICATION Spec
CONSTANTS
    s1 = s1
    s2 = s2
    p1 = p1
    p2 = p2
    w1 = w1
    w2 = w2
    Surfaces = {s1}
    Profiles = {p1, p2}
    Artifacts = {b1, b2}
    NoArtifact = NoArtifact
    Areas <- BelowAtAbove
    Floor = 2
    Workers = {w1, w2}
    Lane <- FirstAsksForOne
    NoJob = NoJob
    Runs = {r1, r2}
    NoSurface = NoSurface
    SampleOf <- OneSample
    MaxClaims = 2
INVARIANTS
    TypeOK
    WaitingIsNotStranded
    SmallNeverEntersQc
PROPERTIES
    
    VerdictEndsItsJob
    OffersFollowCertificates
CHECK_DEADLOCK FALSE
