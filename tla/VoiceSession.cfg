SPECIFICATION FairSpec
CONSTANTS
    MaxSessions = 5
    MaxAttempts = 3
    MaxFaults = 4
    MaxWrites = 1
    Tolerance = 2
CONSTRAINT Alive
INVARIANTS
    ReadyHasTransport
    ResumesLivePath
    TerminalIsQuiet
PROPERTIES
    Settles
    TellsItsStages
CHECK_DEADLOCK FALSE
