SPECIFICATION Spec
CONSTANTS
    A = A
    B = B
    h1 = h1
    s1 = s1
    s2 = s2
    NoHash = NoHash
    Page = {A, B}
    Hash = {h1}
    Slot = {s1, s2}
    MaxDeploy = 2
    Retention = 0
    MaxAttempts = 1
    Handlers = {"deploy", "delete"}
    Overlap = FALSE
SYMMETRY Symmetry
INVARIANTS
    TypeOK
    RetainedServable
PROPERTIES
    PurgedWasExpired
CHECK_DEADLOCK FALSE
