SPECIFICATION Spec
CONSTANTS
    Request = {r1}
    User = {u1}
    Account = {a1}
    Op <- AllOps
    UseCase <- AllTable
    Inbound <- AnyRequest
    CoreError <- AnyError
    MaxChanges = 0
CHECK_DEADLOCK FALSE
INVARIANT RecordedUsageAnswersOK
