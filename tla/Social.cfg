SPECIFICATION BridgeFairSpec
CONSTANT MaxChains = 4
INVARIANTS
    BusyIsHonest
PROPERTY EveryCallAnswered
CHECK_DEADLOCK FALSE
