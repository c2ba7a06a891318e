SPECIFICATION FairSpec
CONSTANTS
    Timers = {t1, t2}
    MaxTime = 3
    Intervals = {1, 2}
    Repeats <- MCRepeats
INVARIANTS Accounting NeverEarly
PROPERTY DueFires
