SPECIFICATION Spec
CONSTANTS
    Handles = {h1, h2}
    Address = {a1, a2, a3, a4, a5}
    NULL = NULL
    SegCount = 2
    Faults <- AllFaults
SYMMETRY Symmetry
INVARIANTS Owned LoadedHoldsAll
PROPERTY Independent
CHECK_DEADLOCK FALSE
