SPECIFICATION Spec
CONSTANTS
    Callers = {c1, c2}
    r1 = r1
    r2 = r2
    NoRow = NoRow
    Ids <- MCIds
    Rows <- MCRows
    Patterns <- MCPatterns
    Lower <- MCLower
    RowSize <- MCRowSize
    WordSize = 8
SYMMETRY Symmetry
INVARIANTS
    SizeIsExact
PROPERTIES
    ImplementsStorage
