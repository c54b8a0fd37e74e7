SPECIFICATION UsageContentSpec
CONSTANTS
    w1 = w1
    Worker = {w1}
    Junk = Junk
    Key = {1, 2}
    DrainBatch = 1
    DrainMax = 2
    MaxFiles = 1
    MaxEvents = 1
    MaxFaults = 1
    b1 = b1
    b2 = b2
    r1 = r1
    r2 = r2
    Batch = {b1, b2}
    Record = {r1, r2}
    MaxBody = 2
    MaxLost = 1
    Client = {1, 2}
    Deployment = {1, 2}
    Content = {1, 2, 3}
    Candidates <- Path
    Image = {"logo.png"}
    Manifests <- ManifestsChosen
    Files <- FilesChosen
    Accepts <- AcceptsChosen
    Size <- Sizes
    Capacity = 2
    MaxCacheSize = 2
    MaxRequests = 3
INVARIANTS
    UsageContentTypeOK
    CountedOnce
    ServedAsResolved
    CacheBounded
PROPERTIES
    ImplementsUsageLedger
    NothingForgotten
    FoldedUnlessBlocked
CHECK_DEADLOCK FALSE
