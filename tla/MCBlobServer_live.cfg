SPECIFICATION BlobServerSpec
CONSTANTS
    s1 = s1
    r1 = r1
    r2 = r2
    g1 = g1
    g2 = g2
    g3 = g3
    Server = {s1}
    Request = {r1, r2}
    NoServer = NoServer
    MaxVersion = 2
    Lossy = TRUE
    HourPasses = TRUE
    LoadRequest = {r1, r2}
    Group = {g1, g2, g3}
    NoGroup = NoGroup
    Cancel = TRUE
INVARIANTS
    BlobServerTypeOK
    CacheAfterCommit
    OneFetch
    NoStampede
PROPERTIES
    Converges
    AnswersEventually
