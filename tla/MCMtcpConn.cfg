CONSTANTS
    MaxConcurrency = 2
    Wide = 1024
    Starts = {2}
    MaxSockets = 2
    MaxPackets = 4
    MaxSends = 1
SPECIFICATION FairSpec
CHECK_DEADLOCK FALSE
INVARIANTS
    TypeOK
    QueuedOnce
    OwnsSocket
    StaleEventsNeedFailure
    ConnectedMeansEstablished
PROPERTIES
    ClosedForGood
    InputIsRead
