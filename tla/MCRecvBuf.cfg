CONSTANTS
    Word = 32
    Size = 4
    Irs = 29
    InitWnd = 5
    Scale = 2
    MaxField = 1
    Mss = 2
    Length = 5
SPECIFICATION FairSpec
CHECK_DEADLOCK FALSE
INVARIANTS
    TypeOK
    HoldsStream
    FragmentsApart
    InWindowFits
PROPERTIES
    NothingForgotten
    DeliversStream
    AllArrives
