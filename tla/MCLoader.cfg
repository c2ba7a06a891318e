\* Two workers, at most three requests each; the adder overflows at 6.
CONSTANTS
    Workers = {w1, w2}
    MaxReqs = 3
    Word = 6
SPECIFICATION FairSpec
INVARIANTS
    DoneOnlyWhenAllFinished
    DoneOnceUnlessRaced
    ReportWithinTotal
    InstanceBeforeUse
CHECK_DEADLOCK FALSE
PROPERTY DoneThenStops
