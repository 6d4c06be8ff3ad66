SPECIFICATION Spec
CONSTANTS
    MsgCount = 3
    Kinds = {"NORMAL"}
    Callers = {t1, t2}
    WordBits = 2
    Blank = Blank
    Foreign = Foreign
INVARIANT TypeOK
PROPERTIES
    LinearUntilOverlap
    SweepLeavesNothing
