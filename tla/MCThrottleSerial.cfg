\* Four requests of one client, one at a time; commands fail and requests are cancelled.
CONSTANTS
    client = client
    user = user
    Requests = {r1, r2, r3, r4}
    Clients = {client}
    Scopes = {user}
    Authenticated = {client}
    AnonScopes = {}
    UnratedScopes = {}
    Client <- MCClient
    Order <- MCOrder
    NumRequests <- MCNumRequests
    Duration <- MCDuration
    num = 2
    duration = 2
    PoolSize = 2
    Concurrency = 1
    Faults = TRUE
    Second = 1
    MaxTime = 3
SPECIFICATION Spec
SYMMETRY Symmetry
INVARIANTS
    RateIsLimited
PROPERTIES
    RefinesLimiter
