CONSTANTS
    Workers = {w1, w2}
    MaxReqs = 1
    Word = 4
SPECIFICATION FairSpec
PROPERTY AllFinishedThenDone
CHECK_DEADLOCK FALSE
