\* An authorizer, an HTTP API container and a local server, two requests at a time.
SPECIFICATION FairSpec
CONSTANTS
    az = az
    api = api
    ws = ws
    loc = loc
    k1 = k1
    k2 = k2
    Procs = {az, api, loc}
    Kind <- MCKind
    Keys = {k1, k2}
    FirstKey = k1
    Tokens <- MCTokens
    Reqs = {i1, i2}
    Faults = {"net", "config", "kill"}
    Failed = Failed
    Client = Client
    None = None
INVARIANTS
    TypeOK
    AcceptedGenuine
    OneVerdict
    LocalHasClient
    CellsSound
PROPERTIES
    CellsKept
    EveryRequestEnds
CHECK_DEADLOCK FALSE
