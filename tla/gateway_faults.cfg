\* Failing calls, stale reads, killed invocations, lost $disconnects; one room.
SPECIFICATION Spec
CONSTANTS
    c1 = c1
    c2 = c2
    u1 = u1
    u2 = u2
    Conns = {c1, c2}
    Users = {u1, u2}
    Owner <- MCOwner
    RoomIds = {ra}
    Rooms = {ra}
    Msgs = {m1}
    Invs = {i1, i2}
    PageLimit = 2
    Faults = {"db", "post", "kill", "drop", "stale"}
    SdkErrors = {"bare", "wrapped"}
    None = None
    NoRow = NoRow
SYMMETRY MCSymmetry
INVARIANTS
    TypeOK
    IInv
    LiveConnectionKept
    MessagesAttributed
    FramesTruthful
PROPERTIES
    PromiseKept
CHECK_DEADLOCK FALSE
