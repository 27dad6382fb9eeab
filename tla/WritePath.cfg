SPECIFICATION PSpec
CONSTANTS
    Workers = {w1, w2}
    Strategies = {"crdt-text"}
    Ops = {"SET"}
    Threshold = 9
    SizeFloor = 9
    MaxCommands = 3
    NoRow = NoRow
    StoresMayFail = TRUE
    MaxRestarts = 1
SYMMETRY Symmetry
CHECK_DEADLOCK FALSE
INVARIANTS
    RowCoversItsVersion
    DeltasCoverTheirVersion
    SessionDeltasIncrease
