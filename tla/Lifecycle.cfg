SPECIFICATION FairSpec
CONSTANTS
    Call <- Calls
    GRACE_S = 2
    Limit = 4
INVARIANTS LifeInv ChannelIsThere
PROPERTIES ShortCallsFinish StopCompletes
CHECK_DEADLOCK FALSE
