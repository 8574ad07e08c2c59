\* Two requests of one client, one per window, both in flight.
CONSTANTS
    client = client
    user = user
    Requests = {r1, r2}
    Clients = {client}
    Scopes = {user}
    Authenticated = {client}
    AnonScopes = {}
    UnratedScopes = {}
    Client <- MCClient
    Order <- MCOrder
    NumRequests <- MCNumRequests
    Duration <- MCDuration
    num = 1
    duration = 2
    PoolSize = 2
    Concurrency = 2
    Faults = FALSE
    Second = 1
    MaxTime = 3
SPECIFICATION Spec
SYMMETRY Symmetry
INVARIANTS
    RateIsLimited
