SPECIFICATION FairSpec
CONSTANTS
    Channels = {c1, c2}
    NoChannel = NoChannel
    MaxForced = 1
    Kinds = {"press", "moderator", "server", "client", "network", "close"}
    MaxEvents = 3
INVARIANTS
    ClosedFirst
    SeatAgrees
    NothingAfterClose
    WantedIsServed
PROPERTY Settles
CHECK_DEADLOCK FALSE
