SPECIFICATION FairSpec
CONSTANTS
    Clients <- Fetching
    Cursors <- Starts
    CoreError <- SomeError
    MaxEvents = 3
    MaxConns = 3
PROPERTY FetchResumes
CHECK_DEADLOCK FALSE
