\* Two tasks in one run of the server.
CONSTANTS
    throttle = throttle
    application = application
    Tasks = {t1, t2}
    Aliases = {throttle}
    NoPool = NoPool
    MaxRuns = 1
SPECIFICATION Spec
INVARIANTS
    StopClosesAll
