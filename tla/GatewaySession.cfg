SPECIFICATION Spec
CONSTANTS
    MaxSockets = 2
    MaxSessions = 1
    MaxEvents = 3
    MaxQueue = 1
    MaxFaults = 2
    MaxConnects = 3
    MaxToggles = 0
    Tolerance = 1
    Rooms = {}
    Channels = {}
INVARIANTS
    CountedIsDelivered
    QuietAfterClose
    NeverStranded
CONSTRAINT Alive
CHECK_DEADLOCK FALSE
