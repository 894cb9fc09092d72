SPECIFICATION MCSpec
CONSTANTS
    Half = 6
    Bounds <- MCBounds
    Places = {p}
    Scales = {1}
    UNSET = UNSET
    GIVEN = GIVEN
    HalfTurn = 12
    Columns <- MCColumns
    Even <- MCEven
    NRowMax = 8
    Num <- MCNum
    Beyond <- MCBeyond
    files <- MCfiles
    Written <- MCWritten
    Path <- MCPath
    Names <- MCNames
    Faults <- MCFaults
    Stack = {1, 2}
    NewScales = {1, 2}
    NewMeridians <- MCMeridians
    Radius = 4
    ZoneWidth = 4
    MaxCalls = 2
    NULL = NULL
INVARIANTS WindowRight GraticuleMatches CoastlinesCover Owned FieldsRead CellsComeBack IsinComesBack
CHECK_DEADLOCK FALSE
