\* Two services, two runs of a server, two connection handlers.
CONSTANTS
    s1 = s1
    s2 = s2
    Empty = Empty
    NoVersion = NoVersion
    Names = {"SERVICE_NAME", "SERVICE_CONNECTIONS", "APPLICATION_VERSION"}
    SanicConfig <- NoNames
    GlobalSettings <- MCGlobalSettings
    SettingsModule <- MCSettingsModule
    Environment <- NoNames
    Services = {s1, s2}
    REQUIRED_SERVICE_CONNECTIONS = {}
    Connections <- MCConnections
    Deletable = {"SERVICE_NAME"}
    Options <- MCOptions
    AppNames = {"app"}
    Versions = {NoVersion, "", "1"}
    AppConfigs <- MCAppConfigs
    ENFORCE_APPLICATION_VERSION = TRUE
    Handlers = {h1, h2}
    TheConnections = h1
    CacheSettings <- MCCacheSettings
    InsanicAliases = {"insanic", "throttle"}
    MaxRuns = 2
SPECIFICATION Spec
INVARIANTS
    TypeOK
    StopClosesClients
    CachesAreWhole
PROPERTIES
    StaleOnlyPastTheCache
