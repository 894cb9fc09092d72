SPECIFICATION Spec
CONSTANTS
    Half = 20
    StrokeLimit = 16
    Tolerance = 1
    MaxPoints = 5
    Inputs <- MCInputs
    Maps <- MCMaps
    Options <- MCOptions
INVARIANTS AtMostOnce  JointsNear  
CHECK_DEADLOCK FALSE
