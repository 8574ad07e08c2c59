------------------------------ MODULE Settings ------------------------------
(***************************************************************************)
(* The lazy settings (insanic/conf): names looked up in a wrapped          *)
(* configuration, the first time each, and then in a cache of their own.   *)
(* The state is a record of the two; the operators below are what the      *)
(* operations of LazySettings make of it.                                  *)
(*                                                                         *)
(* What is wrapped is an InsanicConfig, loaded at the first use, or the    *)
(* UserSettingsHolder of `configure`: the names it was given itself        *)
(* (`own`), those deleted, and the defaults underneath (`base`).  Sanic's  *)
(* Config is external: a dictionary with attributes, which from_object     *)
(* updates and from which no attribute can be deleted.                     *)
(***************************************************************************)
CONSTANTS
    Names,            \* the settings that matter
    Empty,            \* no such setting, nothing cached
    SanicConfig,      \* Sanic's defaults and SANIC_ variables, by name
    GlobalSettings,   \* insanic.conf.global_settings
    SettingsModule,   \* the module of INSANIC_SETTINGS_MODULE, Empty if it is
                      \* not defined or cannot be imported
    Environment       \* INSANIC_ variables

Nowhere == [n \in Names |-> Empty]

\* What is wrapped before the first use.
Unwrapped == <<>>

NoSettings == [wrapped |-> Unwrapped, cache |-> Nowhere]

\* A dictionary updated with another: f over g.
Over(f, g) == [n \in DOMAIN f \cup DOMAIN g |-> IF n \in DOMAIN f THEN f[n] ELSE g[n]]

\* InsanicConfig.__init__: what is loaded later overwrites what was earlier.
InsanicConfig ==
    [holder |-> FALSE, own |-> Nowhere, deleted |-> {},
     base |-> Over(Environment, Over(SettingsModule,
                   Over(GlobalSettings, Over(SanicConfig, Nowhere))))]

UserSettingsHolder(options) ==
    [holder |-> TRUE, own |-> Over(options, Nowhere), deleted |-> {},
     base |-> Over(GlobalSettings, Over(SanicConfig, Nowhere))]

Lookup(config, n) ==
    IF config.own[n] # Empty THEN config.own[n]
    ELSE IF n \in config.deleted THEN Empty ELSE config.base[n]

\* _setup at the first use, or ImproperlyConfigured; wrapping clears the cache.
SetUp(s) ==
    IF s.wrapped # Unwrapped \/ SettingsModule = Empty THEN s
    ELSE [wrapped |-> InsanicConfig, cache |-> Nowhere]

\* What getattr returns, Empty for an exception; an empty SERVICE_NAME is one.
ValueOf(s, n) ==
    IF s.cache[n] # Empty THEN s.cache[n]
    ELSE IF SetUp(s).wrapped = Unwrapped THEN Empty
    ELSE LET value == Lookup(SetUp(s).wrapped, n)
         IN IF n = "SERVICE_NAME" /\ value = "" THEN Empty ELSE value

Read(s, n) == [SetUp(s) EXCEPT !.cache[n] = ValueOf(s, n)]

\* A configuration with n set to v.
Set(config, n, v) ==
    IF config.holder THEN [config EXCEPT !.own[n] = v, !.deleted = @ \ {n}]
    ELSE [config EXCEPT !.base[n] = v]

\* __setattr__ forgets the cached value and sets the wrapped one.
BugCacheKept(s, n, v) == [SetUp(s) EXCEPT !.wrapped = Set(@, n, v)]

Assign(s, n, v) ==
    IF SetUp(s).wrapped = Unwrapped THEN [s EXCEPT !.cache[n] = Empty]
    ELSE [SetUp(s) EXCEPT !.wrapped = Set(@, n, v), !.cache[n] = Empty]

\* __delattr__ fails, before it forgets the cached value, on an InsanicConfig.
Delete(s, n) ==
    IF s.wrapped = Unwrapped \/ ~s.wrapped.holder THEN SetUp(s)
    ELSE [s EXCEPT !.wrapped.own[n] = Empty, !.wrapped.deleted = @ \cup {n}, !.cache[n] = Empty]

\* `configure`, once: RuntimeError when something is wrapped already.
Configure(s, options) ==
    IF s.wrapped # Unwrapped THEN s
    ELSE [wrapped |-> UserSettingsHolder(options), cache |-> Nowhere]

\* settings.from_object is that of what is wrapped, and so are update, from_pyfile
\* and the like: the cache knows nothing of them.
FromObject(s, object) ==
    IF SetUp(s).wrapped = Unwrapped THEN s ELSE [SetUp(s) EXCEPT !.wrapped.base = Over(object, @)]

\* So are settings[n] = v and del settings[n], which an InsanicConfig has, being a
\* dictionary, and a UserSettingsHolder has not: TypeError.
PutItem(s, n, v) ==
    IF SetUp(s).wrapped = Unwrapped \/ SetUp(s).wrapped.holder THEN SetUp(s)
    ELSE [SetUp(s) EXCEPT !.wrapped.base[n] = v]

\* A cached value is stale if looking it up again gives another.
Stale(s, n) == s.cache[n] # Empty /\ s.cache[n] # Lookup(s.wrapped, n)
=============================================================================
