SPECIFICATION OSpec
CONSTANTS
    Clients = {c1, c2, c3}
    Keys = {k1}
    DocRefs = {d1, d2, d3}
    None = None
    Ops = {"CREATE", "GET", "SET", "INC", "DEL", "DELPATH", "EXPIRE"}
    TTLs = {1}
    MaxNow = 2
    MaxCommands = 3
SYMMETRY Symmetry
INVARIANTS
    Linearized
