SPECIFICATION Spec
CONSTANTS
    Workers = {w1, w2}
    Strategies = {"lww", "crdt-text"}
    Ops = {"GET", "SET", "INC", "COMPACT"}
    Threshold = 2
    SizeFloor = 0
    MaxCommands = 8
SYMMETRY Symmetry
CHECK_DEADLOCK FALSE
INVARIANTS
    VersionCountsWrites
    HistoryBounded
