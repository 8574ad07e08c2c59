\* Two requests on one connection: the pool is exhausted by any one command.  Commands
\* fail and requests are cancelled; the clock runs in half seconds.
CONSTANTS
    anon = anon
    free = free
    burst = burst
    user = user
    member = member
    Requests = {1, 2}
    Clients = {member}
    Scopes = {anon, free, burst, user}
    Authenticated = {member}
    AnonScopes = {anon}
    UnratedScopes = {free}
    Client <- MCClient
    Order <- MCOrder
    NumRequests <- MCNumRequests
    Duration <- MCDuration
    PoolSize = 1
    Concurrency = 2
    Faults = TRUE
    Second = 2
    MaxTime = 1
SPECIFICATION FairSpec
INVARIANTS
    WaitIsAnnounced
    HandledWasRecorded
PROPERTIES
    EveryRequestAnswered
