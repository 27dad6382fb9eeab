SPECIFICATION Spec
CONSTANTS
    Clients = {c1, c2, c3}
    Keys = {k1, k2}
    Datas = {d1, d2}
    MaxSets = 5
    MaxGcs = 2
SYMMETRY Symmetry
CHECK_DEADLOCK FALSE
INVARIANTS
    OneEntryEach
    CleanupIsComplete
PROPERTIES
    OnlyOwnerOrGc
