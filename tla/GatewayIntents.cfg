SPECIFICATION Spec
CONSTANTS
    MaxSockets = 2
    MaxSessions = 2
    MaxEvents = 2
    MaxQueue = 1
    MaxFaults = 1
    MaxConnects = 1
    MaxToggles = 1
    Tolerance = 1
    Rooms = {"room"}
    Channels = {"channel"}
INVARIANT FreshSessionIsTold
CONSTRAINT Alive
CHECK_DEADLOCK FALSE
