CONSTANTS
    c1 = c1
    c2 = c2
    Clients = {c1, c2}
    MaxConnections = 2
    MaxRequests = 1
    MaxBody = 2
    Budget = 2
    UrlAuth = FALSE
    Requests <- AllRequests
    MaxServed = 3
    MaxChunks = 2
    Scenarios = {"requests", "mixed", "overlap", "limits", "dotenv"}
SPECIFICATION MCSpec
SYMMETRY Clientele
INVARIANTS
    ProxySafe
    CleanEndIsComplete
    ScrubSafe
    LimiterSafe
