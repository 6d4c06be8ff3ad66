SPECIFICATION Spec
CONSTANTS
    WordBits = 32
    MsgCount = 2
    Kinds <- AllKinds
    Accounts = {a1}
    MailIds = {i1}
    IdsOf <- AnyMail
    RawLines = {}
    Order <- OneView
    Dates = {FALSE}
    Blank = Blank
    Foreign = Blank
    a1 = a1
    a2 = a2
    i1 = i1
    i2 = i2
CONSTRAINT Solo
INVARIANTS
    SweepsFindAll
PROPERTIES
    UpdateStays
    DisplayFrozen
