\* Two rooms; clients stall, read again, ping, move and close; the process may end.
SPECIFICATION FairSpec
CONSTANTS
    dev = dev
    c1 = c1
    ra = ra
    Conns = {c1, c2}
    Invs = {c1, c2}
    Users = {dev}
    Owner <- MCOwner
    RoomIds = {ra, rb}
    Rooms = {ra, rb}
    Msgs = {m1}
    Pingers = {c1}
    Senders = {c2}
    Asks <- MCAsks
    PageLimit = 2
    Faults = {"kill"}
    None = None
    NoRow = NoRow
INVARIANTS
    TypeOK
    OwnersNamed
    AddresseesRegistered
    MutexesInUse
    EndedWithoutRow
    IInv
PROPERTIES
    DepartureAnnounced
    MovesAnnounced
    PromiseKept
    MessageReachesMembers
    ClosedSocketsEnd
CHECK_DEADLOCK FALSE
