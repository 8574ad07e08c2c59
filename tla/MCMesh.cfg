\* Three services, one connection to each, at most four services on a path.
\* A mesh stops when the ping has ended.
CONSTANTS
    a = a
    b = b
    c = c
    Services = {a, b, c}
    First = a
    Meshes <- MCMeshes
    MaxConnections = 1
    MaxHops = 4
SPECIFICATION FairSpec
INVARIANTS
    TypeOK
    AnswersAreWhole
PROPERTIES
    PingEnds
CHECK_DEADLOCK FALSE
