SPECIFICATION Spec
CONSTANTS
    N = 2
    QueueLength = 1
    MaxSubmit = 3
INVARIANT FlushedAtExit
CHECK_DEADLOCK FALSE
