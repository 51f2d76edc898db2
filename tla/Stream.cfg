SPECIFICATION FairSpec
CONSTANTS
    Clients <- Resuming
    Cursors <- Starts
    CoreError <- SomeError
    MaxEvents = 2
    MaxConns = 3
INVARIANTS TypeOK NoOrphanCall WireFollows
PROPERTIES ImplementsFeed SubscriptionDies EveryEventArrives
CHECK_DEADLOCK FALSE
