\* A join and a $disconnect of one connection overlap.
SPECIFICATION Spec
CONSTANTS
    c1 = c1
    c2 = c2
    u1 = u1
    u2 = u2
    Conns = {c1}
    Users = {u1}
    Owner <- MCOwner
    RoomIds = {ra}
    Rooms = {ra}
    Msgs = {m1}
    Invs = {i1, i2}
    PageLimit = 2
    Faults = {}
    SdkErrors = {"bare", "wrapped"}
    None = None
    NoRow = NoRow
PROPERTIES
    DepartureAnnounced
CHECK_DEADLOCK FALSE
