SPECIFICATION FairSpec
CONSTANTS
    Channels = {c1, c2}
    BatchSize = 1
    MaxAttempts = 2
    MaxOperations = 3
    MaxStamps = 2
    MaxSessions = 2
CONSTRAINT Alive
INVARIANTS
    OneAtATime
    FlushedIsSent
    SessionsStayApart
    TokenIsOfSession
PROPERTIES
    DirectActsInOrder
    ComesToRest
CHECK_DEADLOCK FALSE
