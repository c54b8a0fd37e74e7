SPECIFICATION Spec
CONSTANTS
    A = A
    h1 = h1
    s1 = s1
    NoHash = NoHash
    Page = {A}
    Hash = {h1}
    Slot = {s1}
    MaxDeploy = 3
    Retention = 1
    MaxAttempts = 1
    Handlers = {"deploy", "rollback"}
    Overlap = TRUE
SYMMETRY Symmetry
PROPERTIES
    ActiveNeverPurged
CHECK_DEADLOCK FALSE
