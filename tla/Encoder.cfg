SPECIFICATION FairSpec
CONSTANTS
    Sources = {"display", "window", "camera"}
    Slots = 2
    FallbackMayFail = FALSE
INVARIANTS
    NeverStarves
    KeyframeOwed
    EndIsTold
PROPERTY ImplementsContract
CHECK_DEADLOCK FALSE
