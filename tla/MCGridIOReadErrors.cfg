SPECIFICATION Spec
CONSTANTS
    Height = 3
    Width = 1
    DatumMin = 0
    DatumMax = 1
    Inputs <- MCInputs
    Undef = Undef
    Incr = 2
    Faults <- ReadErrors
    Disciplined = TRUE
INVARIANT AssertInBuffer
