SPECIFICATION Spec
CONSTANTS
    p1 = p1
    p2 = p2
    k1 = k1
    k2 = k2
    Proc = {p1, p2}
    Key = {k1}
    NoKey = NoKey
    AnyKey = TRUE
    MaxVersion = 2
    Lapse = TRUE
    Dup = TRUE
    Handlers = {"prepare", "commit", "rollback"}
    MaxLate = 0
SYMMETRY Symmetry
INVARIANTS
    TypeOK
    OneActive
    ActiveReady
    OneWriterPerRow
    CompletedWasDeployed
    PointerFollowsCommit
PROPERTIES
    ImplementsPageLive
CHECK_DEADLOCK FALSE
