SPECIFICATION FairSpec
CONSTANTS
    Request = {r1}
    User = {u1}
    Account = {a1}
    Op <- AllOps
    UseCase <- AllTable
    Inbound <- AnyRequest
    CoreError <- AnyError
    MaxChanges = 0
INVARIANTS TypeOK AnswerMatchesEffect TransportParity NoCoreDetailOn5xx
PROPERTY EveryRequestEnds
CHECK_DEADLOCK FALSE
