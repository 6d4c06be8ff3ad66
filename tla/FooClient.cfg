SPECIFICATION FairSpec
CONSTANTS
    Tracks = {t1, t2}
    Changes = 2
    Losses = 1
    Blank = Blank
    Torn = Torn
    Dark = Dark
INVARIANTS
    TypeOK
    ShowsPlayed
PROPERTY IsShown
CHECK_DEADLOCK FALSE
