SPECIFICATION Spec
CONSTANTS
    N = 2
    ThreadCount = 2
    InOrder = FALSE
    Unset = Unset
INVARIANT PushedIsConverted
CHECK_DEADLOCK FALSE
