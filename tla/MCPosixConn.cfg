SPECIFICATION FairSpec
CONSTANTS
    Conns = {c1}
    Word = 8
CHECK_DEADLOCK FALSE
INVARIANTS
    ConnectedIsExact
    WatchesPassiveClose
    ReconnectsOnlyBroken
    NoLostWakeup
PROPERTY DroppedIsRetried
