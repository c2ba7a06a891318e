SPECIFICATION Spec
CONSTANTS
    Conns = {c1, c2}
    Word = 8
CHECK_DEADLOCK FALSE
PROPERTY AttachFindsNoPollfd
