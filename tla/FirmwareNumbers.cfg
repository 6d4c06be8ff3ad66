SPECIFICATION NumbersSpec
CONSTANTS
    WordBits = 32
    MsgCount = 4
    Kinds <- AllKinds
    Accounts = {a1, a2}
    MailIds = {i1, i2}
    IdsOf <- AnyMail
    RawLines = {}
    Order <- TwoViews
    Dates = {TRUE, FALSE}
    Blank = Blank
    Foreign = Blank
    a1 = a1
    a2 = a2
    i1 = i1
    i2 = i2
SYMMETRY Alike
CONSTRAINT Undisturbed
INVARIANTS
    TypeOK
    NoSharing
    SlotShowsOwner
