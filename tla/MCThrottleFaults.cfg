\* Three requests of one client, all in flight at once; commands fail and requests are cancelled.
CONSTANTS
    client = client
    user = user
    Requests = {r1, r2, r3}
    Clients = {client}
    Scopes = {user}
    Authenticated = {client}
    AnonScopes = {}
    UnratedScopes = {}
    Client <- MCClient
    Order <- MCOrder
    NumRequests <- MCNumRequests
    Duration <- MCDuration
    num = 1
    duration = 2
    PoolSize = 2
    Concurrency = 3
    Faults = TRUE
    Second = 1
    MaxTime = 4
SPECIFICATION Spec
SYMMETRY Symmetry
INVARIANTS
    TypeOK
    ThrottleInv
    ExpiryForgivesNothing
    NoConnectionLeak
PROPERTIES
    RefinesLooseLimiter
