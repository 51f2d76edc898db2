SPECIFICATION Spec
CONSTANTS
    c1 = c1
    c2 = c2
    c3 = c3
    Caller <- Calls
    Life = 5
    SKEW = 3
    Age = 1
    Delay = 1
    MaxClock = 10
SYMMETRY Symmetry
INVARIANTS IInv TokenIsAlive
CHECK_DEADLOCK FALSE
