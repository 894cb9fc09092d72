SPECIFICATION MCSpec
CONSTANTS
    Half = 4
    Bounds <- FewBounds
    Places = {p, q}
    Scales = {0, 1}
    UNSET = UNSET
    GIVEN = GIVEN
    HalfTurn = 12
    Columns <- MCColumns
    Even <- MCEven
    NRowMax = 8
    Num <- MCNum
    Beyond <- MCBeyond
    files <- MCfiles
    Written <- MCWritten
    Path <- MCPath
    Names <- OnlyLeft
    Faults <- NoFault
    Stack = {1, 2}
    NewScales = {1, 2}
    NewMeridians <- MCMeridians
    Radius = 4
    ZoneWidth = 4
    MaxCalls = 2
    NULL = NULL
PROPERTY CenterAtOrigin
CHECK_DEADLOCK FALSE
