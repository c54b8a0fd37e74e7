SPECIFICATION RemoteBuildSpec
CONSTANTS
    r1 = r1
    t1 = t1
    BuildRequest = {r1}
    Tick = {t1}
    MaxBuild = 1
    MaxAttempts = 2
    MaxBatch = 2
    MaxPending = 3
    MaxRetries = 1
    PieceSize = 1
    MaxFailures = 1
    Installs = {2}
    MaxOutput = 1
    c1 = c1
    Controller = {c1}
    NoController = NoController
    MaxJob = 1
    MaxTries = 2
    MaxMishaps = 2
INVARIANTS
    RemoteBuildTypeOK
    CompletedIsLive
    AttemptsBounded
    Accounted
    OutcomeTruthful
PROPERTIES
    ImplementsBuildQueue
    Finishes
    JobsEnd
    InOrder
    Completes
CHECK_DEADLOCK FALSE
