SPECIFICATION Spec
CONSTANTS
    Half = 4
    Grain = 2
    NSegments = 3
    Indexes <- MCIndexes
    Windows <- MCWindows
INVARIANTS IndexHonest DrawComplete DrawTight SearchSucceeds
PROPERTY DrawEnds
CHECK_DEADLOCK FALSE
