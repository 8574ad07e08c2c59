\* Three tasks over three runs of the server.
CONSTANTS
    throttle = throttle
    application = application
    Tasks = {t1, t2, t3}
    Aliases = {throttle, application}
    NoPool = NoPool
    MaxRuns = 3
SYMMETRY Symmetry
SPECIFICATION Spec
INVARIANTS
    TypeOK
    StopClosesTheRest
    CleanSlate
    RunsAreSeparate
PROPERTIES
    RefusedOnlyIfLate
