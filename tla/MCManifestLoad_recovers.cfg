SPECIFICATION LoadFairSpec
CONSTANTS
    LoadRequest = {r1,r2}
    Group = {g1,g2}
    NoGroup = NoGroup
    Cancel = FALSE
    r1 = r1
    r2 = r2
    g1 = g1
    g2 = g2
PROPERTIES
    Recovers
