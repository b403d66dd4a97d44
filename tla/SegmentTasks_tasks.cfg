\* Two tasks whose grows may meet in one surface; a worker without a card that
\* may take one of them, a worker with a card that may take both.
SPECIFICATION Spec
CONSTANTS
    small = small
    large = large
    t1 = t1
    t2 = t2
    Tasks = {t1, t2}
    Workers = {small, large}
    NoTask = NoTask
    Vram <- CpuAndCard
    Admits <- OneSharedTask
    FirstFloor <- NoFloor
    BlindFloor = 1
    Budget = 1
    Digests = {d1, d2}
    NoDigest = NoDigest
    MaxAttempts = 2
    MaxClaims = 3
SYMMETRY DigestSymmetry
INVARIANTS
    TypeOK
    AttemptsMirrorTask
    SurfaceFromLastAttempt
    RequeuesAreLimited
PROPERTY KeepsLifecycle
CHECK_DEADLOCK FALSE
