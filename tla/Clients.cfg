SPECIFICATION Spec
CONSTANTS
    Kinds = {"get", "keys", "sub"}
    Keys = 2
    MaxCommands = 4
    MaxConnections = 2
    MaxDeltas = 1
    Sockets = 2
    MaxReconnectAttempts = 1
    MaxCalls = 3
    MaxSends = 2
    BulkLines = 3
INVARIANTS AnswersMatch OrderKept PromisesMatch ConnectedIsUsable StaysDisconnected
PROPERTIES SendsSettle GivesUpOrConnects
CHECK_DEADLOCK FALSE
