SPECIFICATION FairSpec
CONSTANTS
    Textures = {t1, t2}
    NoTexture = NoTexture
    MaxSizes = 2
INVARIANTS
    HandedIsLive
    SurfaceLives
    MarksReady
PROPERTIES
    ImplementsContract
CHECK_DEADLOCK FALSE
