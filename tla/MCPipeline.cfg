\* Two requests in one process; views with up to two throttles.
CONSTANTS
    r1 = r1
    r2 = r2
    ada = ada
    eve = eve
    Nothing = Nothing
    Refused = Refused
    Broken = Broken
    SERVICE_NAME = "here"
    JWT_AUTH_VERIFY = FALSE
    AccessLog = TRUE
    Ttl = 0
    DEPRECATION_WARNING_FREQUENCY = 2
    MaxTime = 2
    Requests = {r1, r2}
    Inputs <- MCInputs
    MaxThrottles = 2
    Waits = {0, 7}
    Returned = {200, 500}
    Exceptions <- MCExceptions
SPECIFICATION Spec
INVARIANTS
    TypeOK
    IdentityTravels
    OnlyTheEntitledEnter
    RefusalsAreTold
    AnsweredOnce
    WarnedOncePerPeriod
