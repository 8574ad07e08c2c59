\* Five requests of one client, two per window of two seconds, two in flight at once;
\* the clock runs in half seconds.
CONSTANTS
    client = client
    user = user
    Requests = {r1, r2, r3, r4, r5}
    Clients = {client}
    Scopes = {user}
    Authenticated = {client}
    AnonScopes = {}
    UnratedScopes = {}
    Client <- MCClient
    Order <- MCOrder
    NumRequests <- MCNumRequests
    Duration <- MCDuration
    num = 2
    duration = 4
    PoolSize = 2
    Concurrency = 2
    Faults = FALSE
    Second = 2
    MaxTime = 5
SPECIFICATION Spec
SYMMETRY Symmetry
INVARIANTS
    HistoryBounded
    NewestFirst
    NoFalseDenial
    WaitIsEnough
    WaitIsLeast
