------------------------------ MODULE Process ------------------------------
(***************************************************************************)
(* What lives as long as the process, while applications are created in it *)
(* and servers run and stop: the settings (insanic/conf), the registry of  *)
(* services with a client each (services/registry.py, services/client.py), *)
(* and the caches that connection handlers merge (connections.py).         *)
(* The applications are those of app.py, the stop that of listeners.py.    *)
(*                                                                         *)
(* Closing the Redis connections is in module Connections, what a call     *)
(* does in ServiceClient; here a call finds or creates its service and the *)
(* client.  httpx is external: a closed client stays closed.               *)
(***************************************************************************)
EXTENDS Settings, Naturals, Sequences, Functions

CONSTANTS
    Services,
    REQUIRED_SERVICE_CONNECTIONS,   \* services named by that setting
    Connections,                    \* values SERVICE_CONNECTIONS is set to
    Deletable,                      \* the settings that are deleted, none that is
                                    \* needed below
    Options,                        \* what `configure` is called with
    AppNames, Versions, AppConfigs, \* arguments of Insanic(...): its name, its
                                    \* version and objects of its app_config
    NoVersion,                      \* None
    ENFORCE_APPLICATION_VERSION,
    Handlers,                       \* connection handlers
    TheConnections,                 \* the one that the listeners use: _connections
    CacheSettings,                  \* values of CACHES: sequences of aliases
    InsanicAliases,                 \* the aliases in INSANIC_CACHES
    MaxRuns                         \* bound on the servers run

\* Whoever sets SERVICE_CONNECTIONS sets it to some of the services.
NamesServices(f) == "SERVICE_CONNECTIONS" \in DOMAIN f => f["SERVICE_CONNECTIONS"] \in SUBSET Services

ASSUME ProcessAssumption ==
    /\ REQUIRED_SERVICE_CONNECTIONS \subseteq Services
    /\ \A names \in SUBSET Services : names # Empty
    /\ Connections \subseteq SUBSET Services
    /\ {"SERVICE_NAME", "SERVICE_CONNECTIONS", "APPLICATION_VERSION"} \subseteq Names
    /\ "SERVICE_CONNECTIONS" \in DOMAIN GlobalSettings /\ NamesServices(GlobalSettings)
    /\ SettingsModule # Empty => NamesServices(SettingsModule)
    /\ NamesServices(Environment)
    /\ \A object \in Options \cup AppConfigs : NamesServices(object)
    /\ Deletable \subseteq Names \ {"SERVICE_CONNECTIONS"}
    /\ \A setting \in CacheSettings : setting \in Seq(Range(setting))
    /\ ENFORCE_APPLICATION_VERSION \in BOOLEAN
    /\ TheConnections \in Handlers
    /\ MaxRuns \in Nat

VARIABLES
    settings,   \* the settings
    app,        \* whether there is an application to run
    server,     \* "down", "serving", "stopping" or "closing"
    run,        \* how many servers have been run
    registry,   \* the names in the registry, Empty before its first use
    client,     \* [Services -> {"none", "open", "closed"}]: _client
    due,        \* the services whose clients the stop is to close yet
    calls,      \* the calls: of what, in which run and through which client
    missed,     \* services whose client a stop did not find: no longer named by
                \* the settings, or created after it had passed
    CACHES,     \* the setting of the application
    caches,     \* the dictionary in the setting INSANIC_CACHES: whose an alias is
    merged      \* the handlers that have their caches

vars == <<settings, app, server, run, registry, client, due, calls, missed, CACHES, caches, merged>>
serving == <<app, server, run, registry, client, due, calls, missed>>
cached == <<CACHES, caches, merged>>

Init ==
    /\ settings = NoSettings
    /\ app = FALSE
    /\ server = "down"
    /\ run = 0
    /\ registry = Empty
    /\ client = [s \in Services |-> "none"]
    /\ due = {}
    /\ calls = {}
    /\ missed = {}
    /\ CACHES \in CacheSettings
    /\ caches = [a \in InsanicAliases |-> "insanic"]
    /\ merged = {}
-----------------------------------------------------------------------------
(* Settings and applications, between the runs of a server.                *)

Change(s) == /\ server = "down"
             /\ settings' = s
             /\ UNCHANGED <<serving, cached>>

\* Anyone reads a setting, at any time.
ReadSetting(n) ==
    /\ settings' = Read(settings, n)
    /\ UNCHANGED <<serving, cached>>

\* SERVICE_CONNECTIONS is changed while a server runs, too.
SetConnections(names) ==
    /\ settings' = Assign(settings, "SERVICE_CONNECTIONS", names)
    /\ UNCHANGED <<serving, cached>>

Unset(n) == Change(Delete(settings, n))

\* The same names written past the cache: as items, or by loading an object into
\* what is wrapped.
SetItem(n, v) ==
    /\ settings' = PutItem(settings, n, v)
    /\ UNCHANGED <<serving, cached>>

DelItem(n) == Change(PutItem(settings, n, Empty))

LoadSettings(object) == Change(FromObject(settings, object))

ConfigureSettings(options) == Change(Configure(settings, options))

\* configure_version: the argument, else the setting, else "UNKNOWN"; an empty one
\* is none.
NoVersions == {NoVersion, ""}

VersionOf(s, version) ==
    IF version \notin NoVersions THEN version
    ELSE IF ValueOf(s, "APPLICATION_VERSION") \notin NoVersions THEN ValueOf(s, "APPLICATION_VERSION")
    ELSE "UNKNOWN"

VersionMissing(s, version) ==
    /\ ENFORCE_APPLICATION_VERSION
    /\ version = NoVersion
    /\ ValueOf(s, "APPLICATION_VERSION") = NoVersion

\* Insanic.__init__: the app_config goes to what is wrapped, the name through the
\* settings; without a version it fails with both in place.
CreateApplication(name, version, object) ==
    LET named == Assign(FromObject(settings, object), "SERVICE_NAME", name)
        asked == IF version \in NoVersions THEN Read(named, "APPLICATION_VERSION") ELSE named
        versioned == Assign(asked, "APPLICATION_VERSION", VersionOf(asked, version))
    IN /\ server = "down"
       /\ IF SetUp(settings).wrapped = Unwrapped THEN UNCHANGED <<settings, app>>
          ELSE IF VersionMissing(asked, version) THEN settings' = asked /\ UNCHANGED app
          ELSE /\ settings' = Read(Read(versioned, "SERVICE_NAME"), "APPLICATION_VERSION")
               /\ app' = TRUE
       /\ UNCHANGED <<server, run, registry, client, due, calls, missed, cached>>
-----------------------------------------------------------------------------
(* The registry.                                                           *)

\* available_services.
Available == ValueOf(settings, "SERVICE_CONNECTIONS") \cup REQUIRED_SERVICE_CONNECTIONS

\* Its names are those available at the first use.
BugNamesFollow == Available
Registered == IF registry = Empty THEN Available ELSE registry

\* The first use of it, and a name that it lacks, read the settings.
ReadsAvailable(s) == registry = Empty \/ s \notin registry

\* get_service and a call: RuntimeError or LookupError for a name that the registry
\* lacks; the client is created by the first call of a service and kept.
Call(s) ==
    /\ server \in {"serving", "stopping", "closing"}
    /\ registry' = Registered
    /\ settings' = IF ReadsAvailable(s) THEN Read(settings, "SERVICE_CONNECTIONS") ELSE settings
    /\ IF s \notin Registered THEN UNCHANGED <<client, calls, missed>>
       ELSE /\ client' = [client EXCEPT ![s] = IF @ = "none" THEN "open" ELSE @]
            /\ calls' = calls \cup {[service |-> s, run |-> run, through |-> client[s]]}
            /\ missed' = IF client[s] = "none" /\ server = "closing" /\ s \notin due
                         THEN missed \cup {s} ELSE missed
    /\ UNCHANGED <<app, server, run, due, cached>>
-----------------------------------------------------------------------------
(* ConnectionHandler.caches.                                               *)

\* CACHES goes alias by alias into the dictionary of INSANIC_CACHES itself, up to
\* the first that is there already, which raises ImproperlyConfigured.
Clashes == {i \in DOMAIN CACHES : CACHES[i] \in DOMAIN caches}
Mergeable == {CACHES[i] : i \in {j \in DOMAIN CACHES : \A k \in Clashes : j < k}}

BugReservedTaken(h) ==
    /\ caches' = [a \in DOMAIN caches \cup Range(CACHES) |->
                     IF a \in Range(CACHES) THEN "application" ELSE caches[a]]
    /\ merged' = merged \cup {h}

Merge(h) ==
    /\ caches' = [a \in DOMAIN caches \cup Mergeable |->
                     IF a \in Mergeable THEN "application" ELSE caches[a]]
    /\ merged' = IF Clashes = {} THEN merged \cup {h} ELSE merged

ReadCaches(h) ==
    /\ h \notin merged
    /\ Merge(h)
    /\ UNCHANGED <<settings, serving, CACHES>>
-----------------------------------------------------------------------------
(* The server.                                                             *)

Start ==
    /\ server = "down" /\ app /\ run < MaxRuns
    /\ server' = "serving"
    /\ run' = run + 1
    /\ UNCHANGED <<settings, app, registry, client, due, calls, missed, cached>>

\* after_server_stop_clean_up begins with close_all, which reads the caches: if that
\* raises, the server is down and the clean-up never gets to the registry.
CleanUpFails == TheConnections \notin merged /\ Clashes # {}

Stop ==
    /\ server = "serving"
    /\ server' = IF CleanUpFails THEN "down" ELSE "stopping"
    /\ IF TheConnections \in merged THEN UNCHANGED <<caches, merged>> ELSE Merge(TheConnections)
    /\ UNCHANGED <<settings, app, run, registry, client, due, calls, missed, CACHES>>

\* It has closed the Redis connections and goes through the registry: the services
\* in it that the settings still name.
SweepServices ==
    /\ server = "stopping"
    /\ server' = "closing"
    /\ registry' = Registered
    /\ settings' = Read(settings, "SERVICE_CONNECTIONS")
    /\ due' = Registered \cap Available
    /\ missed' = missed \cup {s \in Services : client[s] = "open" /\ s \notin Registered \cap Available}
    /\ UNCHANGED <<app, run, client, calls, cached>>

\* close_client.
CloseClient(s) ==
    /\ s \in due
    /\ due' = due \ {s}
    /\ client' = [client EXCEPT ![s] = IF @ = "open" THEN "closed" ELSE @]
    /\ UNCHANGED <<settings, app, server, run, registry, calls, missed, cached>>

BugNotAwaited == server = "closing"

\* The gather of all close_client has returned.
Swept == server = "closing" /\ due = {}

Stopped ==
    /\ Swept
    /\ server' = "down"
    /\ due' = {}
    /\ UNCHANGED <<settings, app, run, registry, client, calls, missed, cached>>
-----------------------------------------------------------------------------
Next ==
    \/ \E n \in Names : ReadSetting(n)
    \/ \E n \in Deletable : Unset(n)
    \/ \E names \in Connections :
          SetConnections(names) \/ SetItem("SERVICE_CONNECTIONS", names)
    \/ \E n \in Deletable : DelItem(n)
    \/ \E object \in AppConfigs : LoadSettings(object)
    \/ \E options \in Options : ConfigureSettings(options)
    \/ \E name \in AppNames, version \in Versions, object \in AppConfigs :
          CreateApplication(name, version, object)
    \/ \E s \in Services : Call(s) \/ CloseClient(s)
    \/ Start \/ Stop \/ SweepServices \/ Stopped
    \/ \E h \in Handlers : ReadCaches(h)

Spec == Init /\ [][Next]_vars
-----------------------------------------------------------------------------
(* Properties.                                                             *)

\* The type invariant; nothing is cached before something is wrapped, and the
\* registry has a client only for names it has.
TypeOK ==
    /\ settings.wrapped = Unwrapped => settings.cache = Nowhere
    /\ app \in BOOLEAN
    /\ server \in {"down", "serving", "stopping", "closing"}
    /\ run \in 0..MaxRuns
    /\ client \in [Services -> {"none", "open", "closed"}]
    /\ \A s \in Services : client[s] # "none" => registry # Empty /\ s \in registry
    /\ due \subseteq Services /\ (due # {} => server = "closing")
    /\ missed \subseteq Services
    /\ merged \subseteq Handlers

\* The steps that write n past the cache.
WritesPast(n) ==
    \/ \E name \in AppNames, version \in Versions, object \in AppConfigs :
          n \in DOMAIN object /\ CreateApplication(name, version, object)
    \/ \E object \in AppConfigs : n \in DOMAIN object /\ LoadSettings(object)
    \/ \E names \in Connections : SetItem(n, names)
    \/ n \in Deletable /\ DelItem(n)

\* A setting that has been read goes stale only if something writes that very name
\* past the cache: an application created with an app_config that sets it, another
\* load of what is wrapped, or an item set or deleted.  Assigning, deleting and
\* configuring are seen by all, and the write of one name touches no other.
StaleOnlyPastTheCache ==
    [][\A n \in Names : Stale(settings, n)' /\ ~Stale(settings, n) => WritesPast(n)]_vars

\* "Clean up all connections and close service client connections"
\* (listeners.py:30): when the server is down, no client is open but of a service
\* that the settings do not name any more, or one created behind the clean-up;
\* unless close_all cannot read the caches, which ends every clean-up of this
\* process before it gets to the clients.  A closed client is never replaced:
\* whoever calls the service in a later run gets it, and nobody gets a client that
\* is open on the loop of an earlier run.
StopClosesClients ==
    \/ CleanUpFails
    \/ /\ server = "down" => \A s \in Services : client[s] = "open" => s \in missed
       /\ \A c, d \in calls :
             c.service = d.service /\ c.run > d.run /\ c.service \notin missed => c.through = "closed"

\* A handler that has caches has insanic's own, as insanic defines them, and all
\* of the application's; it gets none if they clash, as they do for every handler
\* after the first: it never finds the dictionary as insanic defines it.
CachesAreWhole ==
    /\ \A g, h \in merged : g = h \/ DOMAIN CACHES = {}
    /\ \A h \in merged :
          /\ \A a \in InsanicAliases : caches[a] = "insanic"
          /\ \A i \in DOMAIN CACHES : caches[CACHES[i]] = "application"
=============================================================================
