SPECIFICATION FairSpec
CONSTANTS
    p1 = p1
    p2 = p2
    k1 = k1
    k2 = k2
    Proc = {p1, p2}
    Key = {k1}
    NoKey = NoKey
    AnyKey = FALSE
    MaxVersion = 1
    Lapse = FALSE
    Dup = FALSE
    Handlers = {"prepare", "commit", "rollback", "delete"}
    MaxLate = 1
PROPERTIES
    LockFreed
CHECK_DEADLOCK FALSE
