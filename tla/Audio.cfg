SPECIFICATION FairSpec
CONSTANTS
    Outputs = {o1, o2}
    Apps = {a1}
    Full = 2
    UserLevels = {1, 2}
    NoOutput = NoOutput
    FollowDefault = FollowDefault
INVARIANTS
    LevelsReturn
    LineIsOfItsOutput
PROPERTIES
    FollowsTheDefault
    ImplementsContract
CHECK_DEADLOCK FALSE
