SPECIFICATION FairSpec
CONSTANTS
    MaxUnits = 4
    Capacity = 2
    MaxFormatChanges = 2
    MaxFaults = 1
    Stamped = TRUE
INVARIANTS
    ShownIsWhole
    FreedAfterWorker
PROPERTIES
    ReturnsToQueue
    ImplementsContract
CHECK_DEADLOCK FALSE
