SPECIFICATION FairSpec
CONSTANTS
    WordBits = 32
    MsgCount = 3
    Kinds <- AllKinds
    Accounts = {}
    MailIds = {}
    IdsOf <- AnyMail
    RawLines <- TwoLines
    Order <- OneView
    Dates = {FALSE}
    Blank = Blank
    Foreign = Foreign
    a1 = a1
    a2 = a2
    i1 = i1
    i2 = i2
PROPERTIES
    UsesManager
    Quiesces
    TimeReturns
