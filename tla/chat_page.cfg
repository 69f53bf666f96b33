\* A page that opens up to three sockets and renames its user once.
SPECIFICATION Spec
CONSTANTS
    Rooms = {ra, rb}
    Msgs = {m1}
    MaxSockets = 3
    MaxSelections = 2
    MaxRenames = 1
    HistoryLimit = 1
    None = None
SYMMETRY MCSymmetry
INVARIANTS
    TypeOK
    LiveFramesOfRoom
    StraysAreLate
    NothingMissed
    SocketsBounded
    NewMessagesUseName
    PageInv
CHECK_DEADLOCK FALSE
