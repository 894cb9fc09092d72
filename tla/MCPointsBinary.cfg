SPECIFICATION Spec
CONSTANTS
    Rows = 2
    Cols = 3
    Files <- MCFiles
    CommandLines <- OnlyBinary
    Fill = 0
    Inputs <- NoInputs
    Off = Off
    Garbage = Garbage
    Unread = Unread
    NotANumber = NotANumber
    Lines <- MCIrregular
    MaxLines = 0
    Methods = {"cressman", "cressman -c", "drop", "inv_dist", "near"}
    Radii = {0, 1, 2}
    Fills = {0, 9}
    Unit = 720720
    IMPOSSIBLY_LARGE = 1000
    Q = 4
    Cell = 8
    Half = 32
    Sources <- MCSources
    Areas <- MCAreas
    Missing = Missing
    MaxRay = 3
    SimpleOver = 2
    Gaps = {0, 2}
    Detail = 2
    RankVectors <- MCRankVectors
    NanLats <- MCNanLats
PROPERTIES BinaryEnds
CHECK_DEADLOCK FALSE
