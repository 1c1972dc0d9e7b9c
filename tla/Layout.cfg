SPECIFICATION Spec
CONSTANTS
    Clients = {c1, c2}
    Areas <- MCAreas
    Grips <- MCGrips
    Motions <- MCMotions
    MIN_FLOAT_WIDTH = 2
    MIN_FLOAT_HEIGHT = 2
    WidthPercent = 60
    HeightPercent = 60
    MaxPane = 3
    MaxTab = 2
CHECK_DEADLOCK FALSE
SYMMETRY Symmetry
INVARIANTS
    LayoutPanesLive
    FloatsFitHost
    EditTargetsLive
PROPERTIES
    PanesKept
    TiledFocusKept
