SPECIFICATION Spec
CONSTANTS
    Request = {r1, r2}
    User = {u1, u2}
    Account = {a1}
    Op <- RaceOps
    UseCase <- RaceTable
    Inbound <- RaceRequests
    CoreError <- RaceErrors
    MaxChanges = 1
SYMMETRY Symmetric
INVARIANTS IInv RoleWasHeld OwnIdentity ContextBrackets
CHECK_DEADLOCK FALSE
