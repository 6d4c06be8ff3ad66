SPECIFICATION HeadersSpec
CONSTANTS
    MailCount = 3
    LineIds = 3
    World = {"reset"}
    Drops = 1
    Texts <- MCTexts
    Sizes = {1, 2, 4, 5, 6, 64}
INVARIANT DecodesBack
PROPERTIES
    MailAnnounced
    ReadIsWithdrawn
CHECK_DEADLOCK FALSE
