SPECIFICATION Spec
CONSTANTS
    MailCount = 3
    LineIds = 2
    World = {"reset", "closed", "outage", "refuse", "split", "delete"}
    Drops = 2
INVARIANTS
    TypeOK
    OwnReply
    IdleIsEnded
    Accurate
CHECK_DEADLOCK FALSE
