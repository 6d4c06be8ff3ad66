SPECIFICATION FairSpec
CONSTANTS
    MailCount = 1
    LineIds = 1
    World = {"outage"}
    Drops = 1
PROPERTIES
    WillReconnect
CHECK_DEADLOCK FALSE
