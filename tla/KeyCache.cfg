SPECIFICATION FairSpec
CONSTANTS
    Task <- Tasks
    Kid <- Kids
    Brake = 2
    MaxFetch = 2
INVARIANT IInv
PROPERTIES RefusalIsRecent PublishedIsAccepted
