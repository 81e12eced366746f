SPECIFICATION Spec
CONSTANTS
    Names = {"s1", "s2"}
    ApiServer = "s1"
    Keys = {"k1", "k2"}
    Claims = {"de", "us"}
    Apps = {"app", "web"}
    Backends = {"memory", "mongo", "cassandra"}
    Stored <- MCStored
    Loader = loader
    Handlers = {h1, h2}
    Callers <- MCCallers
    Requests <- MCRequests
    Visits = {v1, v2}
    Tokens <- MCTokens
    MaxOps <- MCMaxOps
    MaxLoads = 2
    Attempts = 2
    MaxFailures = 2
INVARIANTS TypeOK RoutesFollowStore DenyHolds PostedStays
CHECK_DEADLOCK FALSE
SYMMETRY MCSymmetry
