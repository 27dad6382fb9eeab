SPECIFICATION Spec
CONSTANTS
    Workers = {w1, w2}
    Strategies = {"crdt-text"}
    Ops = {"SET", "COMPACT"}
    Threshold = 2
    SizeFloor = 1
    MaxCommands = 4
SYMMETRY Symmetry
CHECK_DEADLOCK FALSE
PROPERTIES
    CompactionKeepsContent
