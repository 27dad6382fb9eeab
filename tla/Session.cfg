SPECIFICATION SSpec
CONSTANTS
    Half = 4
    MaxCommands = 3
    Ids <- MCIds
    Commands <- MCCommands
    Probes <- MCProbes
    PathProbe = 5
    PatternProbe = 4
CONSTRAINT
    Writes
CHECK_DEADLOCK FALSE
INVARIANTS
    Understood
    CountersAdd
    PathsRoundTrip
    PatternsAgree
PROPERTIES
    WriteIsReadBack
    OthersKept
    RefusedChangesNothing
