SPECIFICATION Spec
CONSTANTS
    MsgCount = 3
    Kinds = {"NORMAL", "EMERGENCY"}
    Contents = {c1}
    Blank = Blank
    Foreign = Foreign
INVARIANTS
    TypeOK
    ShownIsReserved
PROPERTIES
    GrantsAreNew
    ImplementsSlots
