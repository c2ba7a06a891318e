SPECIFICATION FairSpec
CONSTANTS
    N = 2
    QueueLength = 1
    MaxSubmit = 2
INVARIANT InOrderExactlyOnce
INVARIANT NothingLost
PROPERTY ImplementsAsyncCall
PROPERTY SubmittedCompletes
PROPERTY StopEndsWorker
CHECK_DEADLOCK FALSE
