SPECIFICATION FairSpec
CONSTANTS
    A = A
    h1 = h1
    s1 = s1
    s2 = s2
    NoHash = NoHash
    Page = {A}
    Hash = {h1}
    Slot = {s1, s2}
    MaxDeploy = 1
    Retention = 0
    MaxAttempts = 2
    Handlers = {"deploy", "delete", "rollback"}
    Overlap = TRUE
PROPERTIES
    QueueDrains
CHECK_DEADLOCK FALSE
