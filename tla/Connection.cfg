SPECIFICATION Spec
CONSTANTS
    Transports = {"tcp", "text", "binary"}
    Kinds = {"PING", "QUIT", "AUTH", "WRONG", "SET", "SUB", "UNSUB", "JUNK"}
    RequireAuth = TRUE
    RateLimit = TRUE
    BufferSize = 4
    RingSize = 2
    MaxLines = 3
    MaxDeltas = 4
CONSTRAINT
    DeltasApart
    FewMangled
CHECK_DEADLOCK FALSE
INVARIANTS
    TypeOK
    OneAnswerEach
    AuthGate
    StrandedOnlyByErrors
    DueArrives
