SPECIFICATION Spec
CONSTANTS
    RequestsPerSecond = 400
    BurstSize = 2
    UnitsPerMs = 3
    MaxNow = 24
INVARIANTS
    RateLimited
    AtLeastHalfRate
