SPECIFICATION MCSpec
CONSTANTS
    FromRows = 2
    FromCols = 4
    ToRows = 1
    ToCols = 2
    Values <- MCValues
    Spots <- MCSpots
    Fill = 1
    Mask <- MCMask
    Mask2 = 1
    CommandLines <- MCCommandLines
    MayFail = TRUE
    Unread = Unread
    OutCells = {1}
    Input <- MCInput
    RowSpots <- MCRowSpots
    ColSpots <- MCColSpots
    Samples <- MCSamples
    Fills <- MCFills
    DatumLow <- MCDatumLow
    DatumSize = 8
    MaxRuns = 3
    Absent = Absent
    Short = Short
INVARIANTS MeanNear PercentsAddUp  Between RunsAddUp 
CHECK_DEADLOCK FALSE
