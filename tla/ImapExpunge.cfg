SPECIFICATION Spec
CONSTANTS
    MailCount = 3
    LineIds = 3
    World = {"delete"}
    Drops = 0
PROPERTIES
    GoneIsGone
CHECK_DEADLOCK FALSE
