SPECIFICATION SystemSpec
CONSTANTS
    Lines <- MCLines
    LinesTyped = 2
    Length <- MCLength
    Packets <- MCPackets
    long = long
    short = short
    over = over
    TooLong <- MCTooLong
    PacketRoom = 2
    drawing = drawing
    BufSize = 3
    RxRoom = 2
    Room = 1
    Restarts = 1
    console = console
    view = view
    Writers = {console, view}
    Console = console
    Drawn = {drawing}
    NoPacket = NoPacket
INVARIANTS
    SystemTypeOK
    NeverJoins
    UntornArrives
PROPERTIES
    SendReturns
    Echoed
CHECK_DEADLOCK FALSE
