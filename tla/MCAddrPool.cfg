\* Two reactors, two ip addresses, the ports 1 to 3.
CONSTANTS
    Reactors = {r1, r2}
    Other = Other
    NumIps = 2
    PortStart = 1
    PortEnd = 3
SPECIFICATION FairSpec
INVARIANTS
    NoAddressTwice
    OutOnlyWhenUsedUp
PROPERTY LoopEnds
