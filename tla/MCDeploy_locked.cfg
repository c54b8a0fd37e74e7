SPECIFICATION Spec
CONSTANTS
    p1 = p1
    p2 = p2
    k1 = k1
    k2 = k2
    Proc = {p1, p2}
    Key = {k1, k2}
    NoKey = NoKey
    AnyKey = FALSE
    MaxVersion = 2
    Lapse = FALSE
    Dup = FALSE
    Handlers = {"prepare", "commit", "rollback"}
    MaxLate = 0
SYMMETRY Symmetry
INVARIANTS
    LockedAlone
    StatusAgrees
PROPERTIES
    NoStaleActivation
    PublishesActive
    NoRedeploy
CHECK_DEADLOCK FALSE
