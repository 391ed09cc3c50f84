CONSTANTS
    Writers = {w1, w2, w3}
    Orgs = {o1, o2}
    Ids <- MCIds
    ZeroId = 0
    NoValue = NoValue
    MaxTime = 3
    IdAssigned = TRUE
SPECIFICATION Spec
SYMMETRY Symmetry
INVARIANTS
    TypeOK
    QuietChainVerifies
    IntactMeansOneLine
PROPERTIES
    LinksPointBack
