SPECIFICATION Spec
CONSTANTS
    Intent = {i1, i2}
    Kind <- TableKinds
    MaxAttempts = 2
    MaxSends = 2
SYMMETRY SymmetryOfIntents
INVARIANTS IInv OncePerCall OncePerIntent AnswerIsEarned
CHECK_DEADLOCK FALSE
