SPECIFICATION Spec
CONSTANTS
    c1 = c1
    c2 = c2
    Caller <- Callers
    Board = {"b1", "b2"}
    Flows <- SomeFlows
    Edits <- SomeEdits
    MaxItems = 4
    MaxSpent = 3
SYMMETRY SymmetryOfCallers
CHECK_DEADLOCK FALSE
INVARIANT FlowGoesInWhole
