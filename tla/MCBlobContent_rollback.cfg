SPECIFICATION ContentSpec
CONSTANTS
    c1 = c1
    Client = {c1}
    Deployment = {1, 2}
    Content = {1, 2}
    Candidates <- Path
    Image = {}
    Manifests <- ManifestsChosen
    Files <- FilesChosen
    Accepts <- AcceptsChosen
    Size <- Sizes
    Capacity = 4
    MaxCacheSize = 4
    MaxRequests = 3
INVARIANTS
    ClientsGetActive
CHECK_DEADLOCK FALSE
