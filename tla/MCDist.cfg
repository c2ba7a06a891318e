CONSTANTS
    N = 2
    MaxConns = 3
    MaxReports = 1
    MaxResets = 1
    Word = 8
SPECIFICATION FairSpec
CHECK_DEADLOCK FALSE
INVARIANTS
    TableIsTrue
    LoadsOnce
PROPERTIES
    MasterSurvives
    CommandNeedsAll
    AllLoad
