CONSTANTS
    Calls = {c1, c2, c3}
    Deploys = {d1}
    Users = {u1, u2}
    Ids = {i0, i1, i2}
    ZeroId = i0
    NoValue = NoValue
    MaxTime = 1
    GeneratorSet = TRUE
    Deadlines = {0}
SPECIFICATION Spec
SYMMETRY Symmetry
INVARIANTS
    TypeOK
    OneOfEachStatus
    EvidenceIsWhole
PROPERTIES
    NeverReopened
    OverwritesAreOverlaps
    KeepsTheLedger
