SPECIFICATION FairSpec
CONSTANTS
    MaxSockets = 2
    MaxSessions = 3
    MaxEvents = 2
    MaxQueue = 1
    MaxFaults = 1
    MaxConnects = 1
    MaxToggles = 0
    Tolerance = 2
    Rooms = {}
    Channels = {}
PROPERTIES
    KeepsFeed
    Recovers
CONSTRAINT Alive
CHECK_DEADLOCK FALSE
