CONSTANTS
    Calls = {c1, c2}
    Deploys = {d1}
    Users = {u1, u2}
    Ids = {i0, i1}
    ZeroId = i0
    NoValue = NoValue
    MaxTime = 0
    GeneratorSet = TRUE
    Deadlines = {0}
SPECIFICATION Spec
PROPERTY DecidedIsFinal
