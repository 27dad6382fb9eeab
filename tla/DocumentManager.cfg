SPECIFICATION FairSpec
CONSTANTS
    Clients = {c1, c2}
    Keys = {k1}
    DocRefs = {d1, d2, d3}
    None = None
    Ops = {"CREATE", "GET", "SET", "INC", "DEL", "DELPATH", "EXPIRE"}
    TTLs = {1}
    MaxNow = 2
    MaxCommands = 3
INVARIANTS
    IInv
    GcOnlyRaces
PROPERTIES
    OnlyEvictionsLose
    ExpiredIsCollected
