SPECIFICATION BridgeFairSpec
CONSTANT MaxChains = 3
INVARIANT PublishesItsSecret
CHECK_DEADLOCK FALSE
