SPECIFICATION Spec
CONSTANTS
    Intent = {i1}
    Kind <- TableKinds
    MaxAttempts = 4
    MaxSends = 1
CHECK_DEADLOCK FALSE
INVARIANT RepeatingIsSafe
