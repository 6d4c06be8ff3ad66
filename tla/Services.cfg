SPECIFICATION Spec
CONSTANTS
    Room = 2
    Changes = 3
    Versions = 2
    Restarts = 2
INVARIANTS
    TypeOK
    SomeoneRetries
    ShownWhole
    ShownCurrent
    IntervalsKept
PROPERTIES
    SetupGoesOn
    Refreshed
CHECK_DEADLOCK FALSE
