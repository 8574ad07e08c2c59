---------------------------- MODULE ProcessProofs ----------------------------
(***************************************************************************)
(* Proofs about Process.  Three parts of the state do not know of each     *)
(* other: the settings, which every operation keeps what they are          *)
(* (IsSettings) and none makes stale but those that write past the cache;  *)
(* the caches; and the registry with its clients, which takes its names    *)
(* from the settings and is not swept once the caches clash.               *)
(***************************************************************************)
EXTENDS Process, TLAPS

\* What is wrapped: a configuration that has SERVICE_CONNECTIONS.
IsConfig(c) ==
    /\ DOMAIN c = {"holder", "own", "deleted", "base"}
    /\ Names \subseteq DOMAIN c.own /\ Names \subseteq DOMAIN c.base
    /\ c.own["SERVICE_CONNECTIONS"] \in (SUBSET Services) \cup {Empty}
    /\ c.base["SERVICE_CONNECTIONS"] \in SUBSET Services
    /\ "SERVICE_CONNECTIONS" \notin c.deleted

IsSettings(s) ==
    /\ DOMAIN s = {"wrapped", "cache"}
    /\ IF s.wrapped = Unwrapped THEN s.cache = Nowhere ELSE IsConfig(s.wrapped)
    /\ DOMAIN s.cache = Names
    /\ s.cache["SERVICE_CONNECTIONS"] \in (SUBSET Services) \cup {Empty}

\* Nothing but one of these names gets stale on the way from s to t.
FreshBut(names, s, t) == \A m \in Names \ names : Stale(t, m) => Stale(s, m)
-----------------------------------------------------------------------------
(* The operations of the settings.                                         *)

\* A configuration is not the absence of one.
LEMMA ConfigsAreWrapped ==
    ASSUME NEW c, IsConfig(c)
    PROVE  c # Unwrapped
<1>1. DOMAIN <<>> = {}
  OBVIOUS
<1>2. QED
  BY <1>1 DEF IsConfig, Unwrapped

\* What insanic loads is a configuration that names services.
LEMMA InsanicConfigOK ==
    ASSUME SettingsModule # Empty
    PROVE  IsConfig(InsanicConfig)
<1> DEFINE inner == Over(SanicConfig, Nowhere)
           middle == Over(GlobalSettings, inner)
           outer == Over(SettingsModule, middle)
<1>1. Names \subseteq DOMAIN inner
  BY DEF Over, Nowhere
<1>2. /\ Names \subseteq DOMAIN middle
      /\ middle["SERVICE_CONNECTIONS"] = GlobalSettings["SERVICE_CONNECTIONS"]
  BY <1>1, ProcessAssumption DEF Over
<1>3. /\ Names \subseteq DOMAIN outer
      /\ outer["SERVICE_CONNECTIONS"] \in SUBSET Services
  <2> HIDE DEF middle
  <2>1. QED
    BY <1>2, ProcessAssumption DEF Over, NamesServices
<1>4. /\ Names \subseteq DOMAIN Over(Environment, outer)
      /\ Over(Environment, outer)["SERVICE_CONNECTIONS"] \in SUBSET Services
  <2> HIDE DEF outer
  <2>1. QED
    BY <1>3, ProcessAssumption DEF Over, NamesServices
<1>5. InsanicConfig = [holder |-> FALSE, own |-> Nowhere, deleted |-> {},
                       base |-> Over(Environment, outer)]
  BY DEF InsanicConfig
<1> HIDE DEF inner, middle, outer
<1>6. QED
  BY <1>4, <1>5, ProcessAssumption DEF IsConfig, Nowhere

\* So is what an application configures itself.
LEMMA UserSettingsHolderOK ==
    ASSUME NEW options \in Options
    PROVE  IsConfig(UserSettingsHolder(options))
<1>1. /\ Names \subseteq DOMAIN Over(options, Nowhere)
      /\ Over(options, Nowhere)["SERVICE_CONNECTIONS"] \in (SUBSET Services) \cup {Empty}
  BY ProcessAssumption DEF Over, Nowhere, NamesServices
<1>2. /\ Names \subseteq DOMAIN Over(GlobalSettings, Over(SanicConfig, Nowhere))
      /\ Over(GlobalSettings, Over(SanicConfig, Nowhere))["SERVICE_CONNECTIONS"] \in SUBSET Services
  BY ProcessAssumption DEF Over, Nowhere, NamesServices
<1>3. QED
  BY <1>1, <1>2 DEF UserSettingsHolder, IsConfig

\* The first use wraps a configuration, with nothing cached.
LEMMA SetUpOK ==
    ASSUME NEW s, IsSettings(s)
    PROVE  /\ IsSettings(SetUp(s)) /\ FreshBut({}, s, SetUp(s))
           /\ s.wrapped # Unwrapped => SetUp(s) = s
<1>1. CASE s.wrapped # Unwrapped \/ SettingsModule = Empty
  BY <1>1 DEF SetUp, FreshBut
<1>2. CASE s.wrapped = Unwrapped /\ SettingsModule # Empty
  <2>1. SetUp(s) = [wrapped |-> InsanicConfig, cache |-> Nowhere]
    BY <1>2 DEF SetUp
  <2>2. IsConfig(InsanicConfig) /\ InsanicConfig # Unwrapped
    BY <1>2, InsanicConfigOK, ConfigsAreWrapped
  <2>3. \A m \in Names : Nowhere[m] = Empty
    BY DEF Nowhere
  <2>4. DOMAIN Nowhere = Names /\ "SERVICE_CONNECTIONS" \in Names
    BY ProcessAssumption DEF Nowhere
  <2>5. IsSettings(SetUp(s))
    BY <2>1, <2>2, <2>3, <2>4 DEF IsSettings
  <2>6. FreshBut({}, s, SetUp(s))
    BY <2>1, <2>3 DEF FreshBut, Stale
  <2>7. QED
    BY <1>2, <2>5, <2>6
<1>3. QED
  BY <1>1, <1>2

\* Looking a name up finds the services, if anything is wrapped.
LEMMA ServicesAreNamed ==
    ASSUME NEW s, IsSettings(s), s.wrapped # Unwrapped
    PROVE  ValueOf(s, "SERVICE_CONNECTIONS") \in SUBSET Services
<1>1. SetUp(s) = s
  BY SetUpOK
<1>2. Lookup(s.wrapped, "SERVICE_CONNECTIONS") \in SUBSET Services
  BY DEF IsSettings, IsConfig, Lookup
<1>3. QED
  BY <1>1, <1>2 DEF IsSettings, ValueOf

\* Assigning SetUp's result: what is wrapped stays unwrapped only without a module.
LEMMA NothingToSetUp ==
    ASSUME NEW s, IsSettings(s), SetUp(s).wrapped = Unwrapped
    PROVE  SetUp(s) = s /\ s.cache = Nowhere
<1>1. CASE s.wrapped # Unwrapped \/ SettingsModule = Empty
  BY <1>1 DEF SetUp, IsSettings
<1>2. CASE s.wrapped = Unwrapped /\ SettingsModule # Empty
  <2>1. SetUp(s).wrapped = InsanicConfig
    BY <1>2 DEF SetUp
  <2>2. QED
    BY <1>2, <2>1, InsanicConfigOK, ConfigsAreWrapped
<1>3. QED
  BY <1>1, <1>2

\* A read makes nothing stale and unwraps nothing.
LEMMA ReadOK ==
    ASSUME NEW s, IsSettings(s), NEW n \in Names
    PROVE  /\ IsSettings(Read(s, n)) /\ FreshBut({}, s, Read(s, n))
           /\ s.wrapped # Unwrapped => Read(s, n).wrapped = s.wrapped
           /\ SetUp(s).wrapped # Unwrapped => Read(s, n).wrapped # Unwrapped
<1>1. PICK u : u = SetUp(s)
  OBVIOUS
<1>2. IsSettings(u) /\ FreshBut({}, s, u) /\ (s.wrapped # Unwrapped => u = s)
  BY <1>1, SetUpOK
<1>3. PICK v : v = ValueOf(s, n)
  OBVIOUS
<1>4. PICK t : t = Read(s, n)
  OBVIOUS
<1>5. t = [u EXCEPT !.cache[n] = v]
  BY <1>1, <1>3, <1>4 DEF Read
<1>6. /\ DOMAIN t = {"wrapped", "cache"}
      /\ t.wrapped = u.wrapped
      /\ t.cache = [u.cache EXCEPT ![n] = v]
      /\ DOMAIN t.cache = Names
      /\ t.cache[n] = v
      /\ \A m \in Names \ {n} : t.cache[m] = u.cache[m]
  BY <1>2, <1>5 DEF IsSettings
<1>7. CASE u.wrapped = Unwrapped
  <2>1. u = s /\ u.cache = Nowhere
    BY <1>1, <1>7, NothingToSetUp
  <2>2. v = Empty
    BY <1>1, <1>3, <1>7, <2>1 DEF ValueOf, Nowhere
  <2>3. [Nowhere EXCEPT ![n] = Empty] = Nowhere
    BY DEF Nowhere
  <2>4. t.cache = Nowhere
    BY <1>6, <2>1, <2>2, <2>3
  <2>5. \A m \in Names : t.cache[m] = Empty
    BY <2>4 DEF Nowhere
  <2>6. IsSettings(t)
    BY <1>6, <1>7, <2>4, <2>5, ProcessAssumption DEF IsSettings
  <2>7. FreshBut({}, s, t)
    BY <2>5 DEF FreshBut, Stale
  <2>8. QED
    BY <1>1, <1>4, <1>6, <1>7, <2>1, <2>6, <2>7
<1>8. CASE u.wrapped # Unwrapped
  <2>1. v \in {u.cache[n], Lookup(u.wrapped, n), Empty}
    <3>1. CASE s.cache[n] # Empty
      <4>1. s.wrapped # Unwrapped
        BY <3>1 DEF IsSettings, Nowhere
      <4>2. QED
        BY <1>2, <1>3, <3>1, <4>1 DEF ValueOf
    <3>2. CASE s.cache[n] = Empty
      BY <1>1, <1>3, <1>8, <3>2 DEF ValueOf
    <3>3. QED
      BY <3>1, <3>2
  <2>2. FreshBut({}, u, t)
    BY <1>6, <2>1 DEF FreshBut, Stale
  <2>3. FreshBut({}, s, t)
    BY <1>2, <2>2 DEF FreshBut
  <2>4. Lookup(u.wrapped, "SERVICE_CONNECTIONS") \in SUBSET Services
    BY <1>2, <1>8 DEF IsSettings, IsConfig, Lookup
  <2>5. t.cache["SERVICE_CONNECTIONS"] \in (SUBSET Services) \cup {Empty}
    BY <1>2, <1>6, <2>1, <2>4, ProcessAssumption DEF IsSettings
  <2>6. IsSettings(t)
    BY <1>2, <1>6, <1>8, <2>5 DEF IsSettings
  <2>7. QED
    BY <1>2, <1>4, <1>6, <1>8, <2>3, <2>6
<1>9. QED
  BY <1>7, <1>8

\* Setting a name changes what is found under that name only.
LEMMA SetOK ==
    ASSUME NEW c, IsConfig(c), NEW n \in Names, NEW v,
           n = "SERVICE_CONNECTIONS" => v \in SUBSET Services
    PROVE  /\ IsConfig(Set(c, n, v))
           /\ \A m \in Names \ {n} : Lookup(Set(c, n, v), m) = Lookup(c, m)
<1>1. PICK d : d = Set(c, n, v)
  OBVIOUS
<1>2. CASE c.holder
  <2>1. d = [c EXCEPT !.own[n] = v, !.deleted = @ \ {n}]
    BY <1>1, <1>2 DEF Set
  <2>2. /\ DOMAIN d = {"holder", "own", "deleted", "base"}
        /\ d.base = c.base /\ d.deleted = c.deleted \ {n}
        /\ d.own = [c.own EXCEPT ![n] = v]
    BY <2>1 DEF IsConfig
  <2>3. /\ DOMAIN d.own = DOMAIN c.own /\ d.own[n] = v
        /\ \A m \in Names \ {n} : d.own[m] = c.own[m]
    BY <2>2 DEF IsConfig
  <2>4. IsConfig(d)
    BY <2>2, <2>3, ProcessAssumption DEF IsConfig
  <2>5. \A m \in Names \ {n} : Lookup(d, m) = Lookup(c, m)
    BY <2>2, <2>3 DEF Lookup
  <2>6. QED
    BY <1>1, <2>4, <2>5
<1>3. CASE ~c.holder
  <2>1. d = [c EXCEPT !.base[n] = v]
    BY <1>1, <1>3 DEF Set
  <2>2. /\ DOMAIN d = {"holder", "own", "deleted", "base"}
        /\ d.own = c.own /\ d.deleted = c.deleted
        /\ d.base = [c.base EXCEPT ![n] = v]
    BY <2>1 DEF IsConfig
  <2>3. /\ DOMAIN d.base = DOMAIN c.base /\ d.base[n] = v
        /\ \A m \in Names \ {n} : d.base[m] = c.base[m]
    BY <2>2 DEF IsConfig
  <2>4. IsConfig(d)
    BY <2>2, <2>3, ProcessAssumption DEF IsConfig
  <2>5. \A m \in Names \ {n} : Lookup(d, m) = Lookup(c, m)
    BY <2>2, <2>3 DEF Lookup
  <2>6. QED
    BY <1>1, <2>4, <2>5
<1>4. QED
  BY <1>2, <1>3

\* An assignment writes through the cache, so that nothing gets stale.
LEMMA AssignOK ==
    ASSUME NEW s, IsSettings(s), NEW n \in Names, NEW v,
           n = "SERVICE_CONNECTIONS" => v \in SUBSET Services
    PROVE  /\ IsSettings(Assign(s, n, v)) /\ FreshBut({}, s, Assign(s, n, v))
           /\ s.wrapped # Unwrapped => Assign(s, n, v).wrapped # Unwrapped
           /\ SetUp(s).wrapped # Unwrapped => Assign(s, n, v).wrapped # Unwrapped
<1>1. PICK u : u = SetUp(s)
  OBVIOUS
<1>2. IsSettings(u) /\ FreshBut({}, s, u) /\ (s.wrapped # Unwrapped => u = s)
  BY <1>1, SetUpOK
<1>3. PICK t : t = Assign(s, n, v)
  OBVIOUS
<1>4. CASE u.wrapped = Unwrapped
  <2>1. u = s /\ s.cache = Nowhere
    BY <1>1, <1>4, NothingToSetUp
  <2>2. t = [s EXCEPT !.cache[n] = Empty]
    BY <1>1, <1>3, <1>4 DEF Assign
  <2>3. [Nowhere EXCEPT ![n] = Empty] = Nowhere
    BY DEF Nowhere
  <2>4. DOMAIN t = {"wrapped", "cache"} /\ t.wrapped = s.wrapped /\ t.cache = Nowhere
    BY <2>1, <2>2, <2>3 DEF IsSettings
  <2>5. DOMAIN Nowhere = Names /\ \A m \in Names : t.cache[m] = Empty
    BY <2>4 DEF Nowhere
  <2>6. IsSettings(t)
    BY <1>4, <2>1, <2>4, <2>5, ProcessAssumption DEF IsSettings
  <2>7. FreshBut({}, s, t)
    BY <2>5 DEF FreshBut, Stale
  <2>8. QED
    BY <1>1, <1>3, <1>4, <2>1, <2>6, <2>7
<1>5. CASE u.wrapped # Unwrapped
  <2>1. IsConfig(u.wrapped)
    BY <1>2, <1>5 DEF IsSettings
  <2>2. PICK c : c = Set(u.wrapped, n, v)
    OBVIOUS
  <2>3. /\ IsConfig(c) /\ c # Unwrapped
        /\ \A m \in Names \ {n} : Lookup(c, m) = Lookup(u.wrapped, m)
    BY <2>1, <2>2, SetOK, ConfigsAreWrapped
  <2>4. t = [u EXCEPT !.wrapped = c, !.cache[n] = Empty]
    BY <1>1, <1>3, <1>5, <2>2 DEF Assign
  <2>5. /\ DOMAIN t = {"wrapped", "cache"} /\ t.wrapped = c
        /\ DOMAIN t.cache = Names /\ t.cache[n] = Empty
        /\ \A m \in Names \ {n} : t.cache[m] = u.cache[m]
    BY <1>2, <2>4 DEF IsSettings
  <2>6. IsSettings(t)
    BY <1>2, <2>3, <2>5, ProcessAssumption DEF IsSettings
  <2>7. FreshBut({}, u, t)
    BY <2>3, <2>5 DEF FreshBut, Stale
  <2>8. FreshBut({}, s, t)
    BY <1>2, <2>7 DEF FreshBut
  <2>9. QED
    BY <1>3, <2>3, <2>5, <2>6, <2>8
<1>6. QED
  BY <1>4, <1>5

\* Nor does anything by a deletion.
LEMMA DeleteOK ==
    ASSUME NEW s, IsSettings(s), NEW n \in Deletable
    PROVE  /\ IsSettings(Delete(s, n)) /\ FreshBut({}, s, Delete(s, n))
           /\ s.wrapped # Unwrapped => Delete(s, n).wrapped # Unwrapped
<1>1. CASE s.wrapped = Unwrapped \/ ~s.wrapped.holder
  <2>1. Delete(s, n) = SetUp(s)
    BY <1>1 DEF Delete
  <2>2. QED
    BY <2>1, SetUpOK
<1>2. CASE ~(s.wrapped = Unwrapped \/ ~s.wrapped.holder)
  <2>1. PICK c : c = [s.wrapped EXCEPT !.own[n] = Empty, !.deleted = @ \cup {n}]
    OBVIOUS
  <2>2. PICK t : t = Delete(s, n)
    OBVIOUS
  <2>3. IsConfig(s.wrapped) /\ n \in Names \ {"SERVICE_CONNECTIONS"}
    BY <1>2, ProcessAssumption DEF IsSettings
  <2>4. /\ DOMAIN c = {"holder", "own", "deleted", "base"}
        /\ c.base = s.wrapped.base /\ c.deleted = s.wrapped.deleted \cup {n}
        /\ c.own = [s.wrapped.own EXCEPT ![n] = Empty]
    BY <2>1, <2>3 DEF IsConfig
  <2>5. /\ DOMAIN c.own = DOMAIN s.wrapped.own
        /\ \A m \in Names \ {n} : c.own[m] = s.wrapped.own[m]
    BY <2>3, <2>4 DEF IsConfig
  <2>6. IsConfig(c) /\ c # Unwrapped
    <3>1. IsConfig(c)
      BY <2>3, <2>4, <2>5, ProcessAssumption DEF IsConfig
    <3>2. QED
      BY <3>1, ConfigsAreWrapped
  <2>7. \A m \in Names \ {n} : Lookup(c, m) = Lookup(s.wrapped, m)
    BY <2>4, <2>5 DEF Lookup
  <2>8. t = [s EXCEPT !.wrapped = c, !.cache[n] = Empty]
    BY <1>2, <2>1, <2>2 DEF Delete, IsSettings
  <2>9. /\ DOMAIN t = {"wrapped", "cache"} /\ t.wrapped = c
        /\ DOMAIN t.cache = Names /\ t.cache[n] = Empty
        /\ \A m \in Names \ {n} : t.cache[m] = s.cache[m]
    BY <2>3, <2>8 DEF IsSettings
  <2>10. IsSettings(t)
    BY <2>3, <2>6, <2>9, ProcessAssumption DEF IsSettings
  <2>11. FreshBut({}, s, t)
    BY <2>7, <2>9 DEF FreshBut, Stale
  <2>12. QED
    BY <2>2, <2>6, <2>9, <2>10, <2>11
<1>3. QED
  BY <1>1, <1>2

\* Nor by configure, which is refused once there is something wrapped.
LEMMA ConfigureOK ==
    ASSUME NEW s, IsSettings(s), NEW options \in Options
    PROVE  /\ IsSettings(Configure(s, options)) /\ FreshBut({}, s, Configure(s, options))
           /\ s.wrapped # Unwrapped => Configure(s, options).wrapped # Unwrapped
<1>1. CASE s.wrapped # Unwrapped
  BY <1>1 DEF Configure, FreshBut
<1>2. CASE s.wrapped = Unwrapped
  <2>1. PICK c : c = UserSettingsHolder(options)
    OBVIOUS
  <2>2. IsConfig(c) /\ c # Unwrapped
    BY <2>1, UserSettingsHolderOK, ConfigsAreWrapped
  <2>3. Configure(s, options) = [wrapped |-> c, cache |-> Nowhere]
    BY <1>2, <2>1 DEF Configure
  <2>4. DOMAIN Nowhere = Names /\ \A m \in Names : Nowhere[m] = Empty
    BY DEF Nowhere
  <2>5. IsSettings(Configure(s, options))
    BY <2>2, <2>3, <2>4, ProcessAssumption DEF IsSettings
  <2>6. FreshBut({}, s, Configure(s, options))
    BY <2>3, <2>4 DEF FreshBut, Stale
  <2>7. QED
    BY <1>2, <2>5, <2>6
<1>3. QED
  BY <1>1, <1>2

\* Loading an object into what is wrapped, which the cache does not see.
LEMMA FromObjectOK ==
    ASSUME NEW s, IsSettings(s), NEW object \in AppConfigs
    PROVE  /\ IsSettings(FromObject(s, object))
           /\ FreshBut(DOMAIN object, s, FromObject(s, object))
           /\ SetUp(s).wrapped # Unwrapped => FromObject(s, object).wrapped # Unwrapped
<1>1. PICK u : u = SetUp(s)
  OBVIOUS
<1>2. IsSettings(u) /\ FreshBut({}, s, u)
  BY <1>1, SetUpOK
<1>3. PICK t : t = FromObject(s, object)
  OBVIOUS
<1>4. CASE u.wrapped = Unwrapped
  BY <1>1, <1>3, <1>4 DEF FromObject, FreshBut
<1>5. CASE u.wrapped # Unwrapped
  <2>1. PICK c : c = [u.wrapped EXCEPT !.base = Over(object, @)]
    OBVIOUS
  <2>2. IsConfig(u.wrapped)
    BY <1>2, <1>5 DEF IsSettings
  <2>3. /\ DOMAIN c = {"holder", "own", "deleted", "base"}
        /\ c.own = u.wrapped.own /\ c.deleted = u.wrapped.deleted
        /\ c.base = Over(object, u.wrapped.base)
    BY <2>1, <2>2 DEF IsConfig
  <2>4. /\ Names \subseteq DOMAIN c.base
        /\ c.base["SERVICE_CONNECTIONS"] \in SUBSET Services
        /\ \A m \in Names \ DOMAIN object : c.base[m] = u.wrapped.base[m]
    BY <2>2, <2>3, ProcessAssumption DEF Over, IsConfig, NamesServices
  <2>5. IsConfig(c) /\ c # Unwrapped
    <3>1. IsConfig(c)
      BY <2>2, <2>3, <2>4 DEF IsConfig
    <3>2. QED
      BY <3>1, ConfigsAreWrapped
  <2>6. \A m \in Names \ DOMAIN object : Lookup(c, m) = Lookup(u.wrapped, m)
    BY <2>3, <2>4 DEF Lookup
  <2>7. t = [u EXCEPT !.wrapped = c]
    BY <1>1, <1>3, <1>5, <1>2, <2>1 DEF FromObject, IsSettings
  <2>8. DOMAIN t = {"wrapped", "cache"} /\ t.wrapped = c /\ t.cache = u.cache
    BY <1>2, <2>7 DEF IsSettings
  <2>9. IsSettings(t)
    BY <1>2, <2>5, <2>8 DEF IsSettings
  <2>10. FreshBut(DOMAIN object, s, t)
    BY <1>2, <2>6, <2>8 DEF FreshBut, Stale
  <2>11. QED
    BY <1>3, <2>5, <2>8, <2>9, <2>10
<1>6. QED
  BY <1>4, <1>5

\* Nor does it see an item set or deleted; no other name is touched by that.
LEMMA PutItemOK ==
    ASSUME NEW s, IsSettings(s), NEW n \in Names, NEW v,
           n = "SERVICE_CONNECTIONS" => v \in SUBSET Services
    PROVE  /\ IsSettings(PutItem(s, n, v))
           /\ FreshBut({n}, s, PutItem(s, n, v))
           /\ s.wrapped # Unwrapped => PutItem(s, n, v).wrapped # Unwrapped
<1>1. PICK u : u = SetUp(s)
  OBVIOUS
<1>2. IsSettings(u) /\ FreshBut({}, s, u) /\ (s.wrapped # Unwrapped => u = s)
  BY <1>1, SetUpOK
<1>3. PICK t : t = PutItem(s, n, v)
  OBVIOUS
<1>4. CASE u.wrapped = Unwrapped \/ u.wrapped.holder
  <2>1. t = u
    BY <1>1, <1>3, <1>4 DEF PutItem
  <2>2. QED
    BY <1>2, <1>3, <2>1 DEF FreshBut
<1>5. CASE ~(u.wrapped = Unwrapped \/ u.wrapped.holder)
  <2>1. PICK c : c = Set(u.wrapped, n, v)
    OBVIOUS
  <2>2. IsConfig(u.wrapped)
    BY <1>2, <1>5 DEF IsSettings
  <2>3. /\ IsConfig(c) /\ c # Unwrapped
        /\ \A m \in Names \ {n} : Lookup(c, m) = Lookup(u.wrapped, m)
    BY <2>1, <2>2, SetOK, ConfigsAreWrapped
  <2>4. c = [u.wrapped EXCEPT !.base[n] = v]
    BY <1>5, <2>1 DEF Set
  <2>5. t = [u EXCEPT !.wrapped.base[n] = v]
    BY <1>1, <1>3, <1>5 DEF PutItem
  <2>6. t = [u EXCEPT !.wrapped = c]
    BY <1>2, <2>4, <2>5 DEF IsSettings
  <2>7. DOMAIN t = {"wrapped", "cache"} /\ t.wrapped = c /\ t.cache = u.cache
    BY <1>2, <2>6 DEF IsSettings
  <2>8. IsSettings(t)
    BY <1>2, <2>3, <2>7 DEF IsSettings
  <2>9. FreshBut({n}, s, t)
    BY <1>2, <2>3, <2>7 DEF FreshBut, Stale
  <2>10. QED
    BY <1>3, <2>3, <2>7, <2>8, <2>9
<1>6. QED
  BY <1>4, <1>5
-----------------------------------------------------------------------------
(* The invariant.                                                          *)

\* The clients are those of the registry, and the stop gets to all of them that it
\* finds; those it does not find are known.  It gets nowhere if the clean-up fails.
ClientsOK ==
    /\ client \in [Services -> {"none", "open", "closed"}]
    /\ registry # Empty => registry \in SUBSET Services
    /\ \A s \in Services : client[s] # "none" => registry # Empty /\ s \in registry
    /\ due \in SUBSET Services
    /\ due # {} => server = "closing"
    /\ missed \in SUBSET Services
    /\ \A s \in Services : client[s] = "open" =>
          /\ server = "closing" => s \in due \cup missed
          /\ server = "down" => s \in missed \/ CleanUpFails

\* A client that a call of an earlier run went through is closed, or missed.
CallsTyped ==
    \A c \in calls : c.service \in Services /\ c.run \in 0..run /\ client[c.service] # "none"

CallsSafe ==
    /\ \A c \in calls : c.run < run /\ c.service \notin missed => client[c.service] = "closed"
    /\ \A c, d \in calls :
          c.service = d.service /\ c.run > d.run /\ c.service \notin missed => c.through = "closed"

CallsOK == CallsTyped /\ (CleanUpFails \/ CallsSafe)

\* The dictionary of INSANIC_CACHES has insanic's aliases, and some of CACHES; who
\* comes after the one that has merged them all finds them there.
MergedOK ==
    /\ CACHES \in CacheSettings
    /\ merged \subseteq Handlers
    /\ \A g, h \in merged : g = h \/ DOMAIN CACHES = {}
    /\ InsanicAliases \subseteq DOMAIN caches
    /\ \A a \in DOMAIN caches : caches[a] = IF a \in InsanicAliases THEN "insanic" ELSE "application"
    /\ merged # {} => \A i \in DOMAIN CACHES : /\ CACHES[i] \in DOMAIN caches
                                               /\ CACHES[i] \notin InsanicAliases

ProcessInv ==
    /\ IsSettings(settings)
    /\ app \in BOOLEAN /\ (app => settings.wrapped # Unwrapped)
    /\ server \in {"down", "serving", "stopping", "closing"} /\ (server # "down" => app)
    /\ run \in 0..MaxRuns
    /\ ClientsOK
    /\ CallsOK
    /\ MergedOK
-----------------------------------------------------------------------------
(* The steps.                                                              *)

\* What creating an application does to the settings.
LEMMA ApplicationSettings ==
    ASSUME IsSettings(settings), NEW name, NEW version, NEW object \in AppConfigs,
           CreateApplication(name, version, object)
    PROVE  /\ IsSettings(settings') /\ FreshBut(DOMAIN object, settings, settings')
           /\ settings.wrapped # Unwrapped => settings'.wrapped # Unwrapped
           /\ \/ app' = app
              \/ app' = TRUE /\ settings'.wrapped # Unwrapped
<1>1. PICK s : s = settings
  OBVIOUS
<1>2. IsSettings(s)
  BY <1>1
<1>3. CASE SetUp(s).wrapped = Unwrapped
  <2>1. settings' = s /\ app' = app
    BY <1>1, <1>3 DEF CreateApplication
  <2>2. FreshBut(DOMAIN object, s, s)
    BY DEF FreshBut
  <2>3. QED
    BY <1>1, <1>2, <2>1, <2>2
<1>4. CASE SetUp(s).wrapped # Unwrapped
  <2>1. PICK f : f = FromObject(s, object)
    OBVIOUS
  <2>2. PICK named : named = Assign(f, "SERVICE_NAME", name)
    OBVIOUS
  <2>3. PICK asked : asked = IF version \in NoVersions THEN Read(named, "APPLICATION_VERSION") ELSE named
    OBVIOUS
  <2>4. PICK versioned : versioned = Assign(asked, "APPLICATION_VERSION", VersionOf(asked, version))
    OBVIOUS
  <2>5. PICK read : read = Read(versioned, "SERVICE_NAME")
    OBVIOUS
  <2>6. PICK final : final = Read(read, "APPLICATION_VERSION")
    OBVIOUS
  <2>7. {"SERVICE_NAME", "APPLICATION_VERSION"} \subseteq Names \ {"SERVICE_CONNECTIONS"}
    BY ProcessAssumption
  <2>8. IsSettings(f) /\ f.wrapped # Unwrapped /\ FreshBut(DOMAIN object, s, f)
    BY <1>2, <1>4, <2>1, FromObjectOK
  <2>9. IsSettings(named) /\ named.wrapped # Unwrapped /\ FreshBut({}, f, named)
    BY <2>2, <2>7, <2>8, AssignOK
  <2>10. IsSettings(asked) /\ asked.wrapped # Unwrapped /\ FreshBut({}, named, asked)
    <3>1. CASE version \in NoVersions
      BY <2>3, <2>7, <2>9, <3>1, ReadOK
    <3>2. CASE version \notin NoVersions
      BY <2>3, <2>9, <3>2 DEF FreshBut
    <3>3. QED
      BY <3>1, <3>2
  <2>11. IsSettings(versioned) /\ versioned.wrapped # Unwrapped /\ FreshBut({}, asked, versioned)
    BY <2>4, <2>7, <2>10, AssignOK
  <2>12. IsSettings(read) /\ read.wrapped # Unwrapped /\ FreshBut({}, versioned, read)
    BY <2>5, <2>7, <2>11, ReadOK
  <2>13. IsSettings(final) /\ final.wrapped # Unwrapped /\ FreshBut({}, read, final)
    BY <2>6, <2>7, <2>12, ReadOK
  <2>14. FreshBut(DOMAIN object, s, asked) /\ FreshBut(DOMAIN object, s, final)
    BY <2>8, <2>9, <2>10, <2>11, <2>12, <2>13 DEF FreshBut
  <2>15. \/ settings' = asked /\ app' = app
         \/ settings' = final /\ app' = TRUE
    BY <1>1, <1>4, <2>1, <2>2, <2>3, <2>4, <2>5, <2>6 DEF CreateApplication
  <2>16. QED
    BY <1>1, <2>10, <2>13, <2>14, <2>15
<1>5. QED
  BY <1>3, <1>4

\* What any step does to the settings: nobody makes them stale but those that write
\* past the cache.
LEMMA SettingsStep ==
    ASSUME ProcessInv, [Next]_vars
    PROVE  /\ IsSettings(settings') /\ (app' => settings'.wrapped # Unwrapped) /\ app' \in BOOLEAN
           /\ \A n \in Names : Stale(settings', n) /\ ~Stale(settings, n) => WritesPast(n)
<1> DEFINE Goal ==
              /\ IsSettings(settings') /\ (app' => settings'.wrapped # Unwrapped) /\ app' \in BOOLEAN
              /\ \A n \in Names : Stale(settings', n) /\ ~Stale(settings, n) => WritesPast(n)
           Quiet == /\ IsSettings(settings') /\ FreshBut({}, settings, settings') /\ app' = app
                    /\ settings.wrapped # Unwrapped => settings'.wrapped # Unwrapped
<1>1. /\ IsSettings(settings) /\ app \in BOOLEAN /\ (app => settings.wrapped # Unwrapped)
      /\ "SERVICE_CONNECTIONS" \in Names
  BY ProcessAssumption DEF ProcessInv
<1>2. Quiet => Goal
  BY <1>1 DEF FreshBut
<1>3. ASSUME settings' = settings, app' = app
      PROVE  Quiet
  BY <1>1, <1>3 DEF FreshBut
<1>4. ASSUME NEW n \in Names, settings' = Read(settings, n), app' = app
      PROVE  Quiet
  BY <1>1, <1>4, ReadOK
<1>5. ASSUME NEW names \in Connections, SetConnections(names)
      PROVE  Quiet
  BY <1>1, <1>5, AssignOK, ProcessAssumption DEF SetConnections, serving
<1>6. ASSUME NEW n \in Deletable, Unset(n)
      PROVE  Quiet
  BY <1>1, <1>6, DeleteOK DEF Unset, Change, serving
<1>7. ASSUME NEW options \in Options, ConfigureSettings(options)
      PROVE  Quiet
  BY <1>1, <1>7, ConfigureOK DEF ConfigureSettings, Change, serving
<1>8. ASSUME NEW name \in AppNames, NEW version \in Versions, NEW object \in AppConfigs,
             CreateApplication(name, version, object)
      PROVE  Goal
  <2>1. \A n \in DOMAIN object : WritesPast(n)
    BY <1>8 DEF WritesPast
  <2>2. QED
    BY <1>1, <1>8, <2>1, ApplicationSettings DEF FreshBut
<1>9. ASSUME NEW s \in Services, Call(s)
      PROVE  Quiet
  BY <1>1, <1>3, <1>4, <1>9 DEF Call
<1>10. SweepServices => Quiet
  BY <1>1, <1>4 DEF SweepServices
<1>11. ASSUME NEW n \in Names, ReadSetting(n)
       PROVE  Quiet
  BY <1>4, <1>11 DEF ReadSetting, serving
<1>12. ASSUME NEW s \in Services, CloseClient(s)
       PROVE  Quiet
  BY <1>3, <1>12 DEF CloseClient
<1>13. ASSUME NEW h \in Handlers, ReadCaches(h)
       PROVE  Quiet
  BY <1>3, <1>13 DEF ReadCaches, serving
<1>14. Start \/ Stop \/ Stopped \/ UNCHANGED vars => Quiet
  BY <1>3 DEF Start, Stop, Stopped, vars
<1>15. ASSUME NEW object \in AppConfigs, LoadSettings(object)
       PROVE  Goal
  <2>1. \A n \in DOMAIN object : WritesPast(n)
    BY <1>15 DEF WritesPast
  <2>2. settings' = FromObject(settings, object) /\ app' = app
    BY <1>15 DEF LoadSettings, Change, serving
  <2>3. /\ IsSettings(settings') /\ FreshBut(DOMAIN object, settings, settings')
        /\ settings.wrapped # Unwrapped => settings'.wrapped # Unwrapped
    BY <1>1, <2>2, SetUpOK, FromObjectOK
  <2>4. QED
    BY <1>1, <2>1, <2>2, <2>3 DEF FreshBut
<1>16. ASSUME NEW n \in Names, NEW v, n = "SERVICE_CONNECTIONS" => v \in SUBSET Services,
              settings' = PutItem(settings, n, v), app' = app, WritesPast(n)
       PROVE  Goal
  BY <1>1, <1>16, PutItemOK DEF FreshBut
<1>17. ASSUME NEW names \in Connections, SetItem("SERVICE_CONNECTIONS", names)
       PROVE  Goal
  <2>1. WritesPast("SERVICE_CONNECTIONS")
    BY <1>17 DEF WritesPast
  <2>2. settings' = PutItem(settings, "SERVICE_CONNECTIONS", names) /\ app' = app
    BY <1>17 DEF SetItem, serving
  <2>3. QED
    BY <1>1, <1>16, <2>1, <2>2, ProcessAssumption
<1>18. ASSUME NEW n \in Deletable, DelItem(n)
       PROVE  Goal
  <2>1. WritesPast(n) /\ n \in Names /\ n # "SERVICE_CONNECTIONS"
    BY <1>18, ProcessAssumption DEF WritesPast
  <2>2. settings' = PutItem(settings, n, Empty) /\ app' = app
    BY <1>18 DEF DelItem, Change, serving
  <2>3. QED
    BY <1>16, <2>1, <2>2
<1> HIDE DEF Goal, Quiet
<1>19. Goal
  BY <1>2, <1>5, <1>6, <1>7, <1>8, <1>9, <1>10, <1>11, <1>12, <1>13, <1>14, <1>15, <1>17, <1>18 DEF Next
<1>20. QED
  BY <1>19 DEF Goal

\* While a server runs the registry can be used, and has services of the settings.
LEMMA RegisteredOK ==
    ASSUME ProcessInv, server # "down"
    PROVE  /\ Registered \in SUBSET Services /\ Available \in SUBSET Services
           /\ Registered # Empty
           /\ registry # Empty => Registered = registry
<1>1. settings.wrapped # Unwrapped /\ IsSettings(settings)
  BY DEF ProcessInv
<1>2. ValueOf(settings, "SERVICE_CONNECTIONS") \in SUBSET Services
  BY <1>1, ServicesAreNamed
<1>3. Available \in SUBSET Services
  BY <1>2, ProcessAssumption DEF Available
<1>4. Registered \in SUBSET Services
  BY <1>3 DEF Registered, ProcessInv, ClientsOK
<1>5. QED
  BY <1>3, <1>4, ProcessAssumption DEF Registered

\* A call is through a client that was open, new, or closed by an earlier run.
LEMMA CallStep ==
    ASSUME ProcessInv, NEW s \in Services, Call(s)
    PROVE  ClientsOK' /\ CallsTyped' /\ (CleanUpFails \/ CallsSafe')
<1>1. /\ ClientsOK /\ CallsOK /\ run \in Nat /\ server \in {"serving", "stopping", "closing"}
      /\ UNCHANGED <<app, server, run, due>>
      /\ registry' = Registered
      /\ IF s \notin Registered THEN UNCHANGED <<client, calls, missed>>
         ELSE /\ client' = [client EXCEPT ![s] = IF @ = "none" THEN "open" ELSE @]
              /\ calls' = calls \cup {[service |-> s, run |-> run, through |-> client[s]]}
              /\ missed' = IF client[s] = "none" /\ server = "closing" /\ s \notin due
                           THEN missed \cup {s} ELSE missed
  BY ProcessAssumption DEF Call, ProcessInv
<1>2. Registered \in SUBSET Services /\ Registered # Empty /\ (registry # Empty => Registered = registry)
  BY <1>1, RegisteredOK
<1>3. CASE s \notin Registered
  BY <1>1, <1>2, <1>3 DEF ClientsOK, CallsOK, CallsTyped, CallsSafe
<1>4. CASE s \in Registered
  <2>1. PICK c : c = [service |-> s, run |-> run, through |-> client[s]]
    OBVIOUS
  <2>2. /\ c.service = s /\ c.run = run /\ c.through = client[s]
        /\ calls' = calls \cup {c}
    BY <1>1, <1>4, <2>1
  <2>3. /\ client' \in [Services -> {"none", "open", "closed"}]
        /\ client'[s] = IF client[s] = "none" THEN "open" ELSE client[s]
        /\ \A q \in Services \ {s} : client'[q] = client[q]
    BY <1>1, <1>4 DEF ClientsOK
  <2>4. /\ missed \subseteq missed' /\ missed' \in SUBSET Services
        /\ client[s] = "none" /\ server = "closing" /\ s \notin due => s \in missed'
    BY <1>1, <1>4 DEF ClientsOK
  <2>5. ClientsOK'
    BY <1>1, <1>2, <1>4, <2>3, <2>4 DEF ClientsOK
  <2>6. \A d \in calls' : d.service \in Services /\ d.run \in 0..run /\ client'[d.service] # "none"
    BY <1>1, <2>2, <2>3 DEF CallsOK, CallsTyped
  <2>7. ASSUME ~CleanUpFails
        PROVE  CallsSafe'
    <3>1. CallsTyped /\ CallsSafe
      BY <1>1, <2>7 DEF CallsOK
    <3>2. \A d \in calls' : d.run < run /\ d.service \notin missed' => client'[d.service] = "closed"
      BY <1>1, <2>2, <2>3, <2>4, <3>1 DEF CallsTyped, CallsSafe
    <3>3. ASSUME NEW a \in calls', NEW d \in calls', a.service = d.service, a.run > d.run,
                 a.service \notin missed'
          PROVE  a.through = "closed"
      <4>1. d \in calls
        <5>1. d = c => a.run \in 0..d.run
          BY <1>1, <2>2, <2>6
        <5>2. QED
          BY <2>2, <2>6, <3>3, <5>1
      <4>2. CASE a \in calls
        BY <1>1, <2>4, <3>1, <3>3, <4>1, <4>2 DEF CallsSafe
      <4>3. CASE a = c
        BY <1>1, <2>2, <2>4, <3>1, <3>3, <4>1, <4>3 DEF CallsSafe
      <4>4. QED
        BY <2>2, <4>2, <4>3
    <3>4. QED
      BY <1>1, <3>2, <3>3 DEF CallsSafe
  <2>8. QED
    BY <1>1, <2>5, <2>6, <2>7 DEF CallsTyped
<1>5. QED
  BY <1>3, <1>4

\* The sweep lists the registered services that are available, and misses the others.
LEMMA SweepStep ==
    ASSUME ProcessInv, SweepServices
    PROVE  ClientsOK' /\ CallsTyped' /\ (CleanUpFails \/ CallsSafe')
<1>1. /\ ClientsOK /\ CallsOK /\ server = "stopping" /\ server' = "closing"
      /\ UNCHANGED <<run, client, calls>>
      /\ registry' = Registered
      /\ due' = Registered \cap Available
      /\ missed' = missed \cup {s \in Services : client[s] = "open" /\ s \notin Registered \cap Available}
  BY DEF SweepServices, ProcessInv
<1>2. /\ Registered \in SUBSET Services /\ Registered # Empty
      /\ registry # Empty => Registered = registry
  BY <1>1, RegisteredOK
<1>3. ClientsOK'
  BY <1>1, <1>2 DEF ClientsOK
<1>4. CallsTyped' /\ (CleanUpFails \/ CallsSafe')
  BY <1>1 DEF CallsOK, CallsTyped, CallsSafe
<1>5. QED
  BY <1>3, <1>4

\* A client is closed.
LEMMA CloseStep ==
    ASSUME ProcessInv, NEW s \in Services, CloseClient(s)
    PROVE  ClientsOK' /\ CallsTyped' /\ (CleanUpFails \/ CallsSafe')
<1>1. /\ ClientsOK /\ CallsOK /\ s \in due /\ server = "closing"
      /\ due' = due \ {s}
      /\ client' = [client EXCEPT ![s] = IF @ = "open" THEN "closed" ELSE @]
      /\ UNCHANGED <<server, run, registry, calls, missed>>
  BY DEF CloseClient, ProcessInv, ClientsOK
<1>2. /\ client' \in [Services -> {"none", "open", "closed"}]
      /\ client'[s] = IF client[s] = "open" THEN "closed" ELSE client[s]
      /\ \A q \in Services \ {s} : client'[q] = client[q]
  BY <1>1 DEF ClientsOK
<1>3. ClientsOK'
  BY <1>1, <1>2 DEF ClientsOK
<1>4. CallsTyped' /\ (CleanUpFails \/ CallsSafe')
  BY <1>1, <1>2 DEF CallsOK, CallsTyped, CallsSafe
<1>5. QED
  BY <1>3, <1>4

\* The next run begins with every client closed that was called, and not missed.
LEMMA StartStep ==
    ASSUME ProcessInv, Start
    PROVE  ClientsOK' /\ CallsTyped' /\ (CleanUpFails \/ CallsSafe')
<1>1. /\ ClientsOK /\ CallsOK /\ server = "down" /\ server' = "serving"
      /\ run \in Nat /\ run' = run + 1
      /\ UNCHANGED <<registry, client, due, calls, missed>>
  BY ProcessAssumption DEF Start, ProcessInv
<1>2. ClientsOK'
  BY <1>1 DEF ClientsOK
<1>3. CleanUpFails \/ \A c \in calls : c.service \notin missed => client[c.service] = "closed"
  BY <1>1 DEF ClientsOK, CallsOK, CallsTyped, CallsSafe
<1>4. CallsTyped' /\ (CleanUpFails \/ CallsSafe')
  BY <1>1, <1>3 DEF CallsOK, CallsTyped, CallsSafe
<1>5. QED
  BY <1>2, <1>4

\* The caches of the application are merged, all of them or none; and what clashes
\* will always.
LEMMA MergeStep ==
    ASSUME MergedOK, NEW h \in Handlers, Merge(h), CACHES' = CACHES
    PROVE  MergedOK' /\ (CleanUpFails => CleanUpFails')
<1>1. /\ CACHES' = CACHES
      /\ caches' = [a \in DOMAIN caches \cup Mergeable |->
                       IF a \in Mergeable THEN "application" ELSE caches[a]]
      /\ merged' = IF Clashes = {} THEN merged \cup {h} ELSE merged
  BY DEF Merge
<1>2. \A a \in Mergeable : a \notin DOMAIN caches
  <2>1. ASSUME NEW i \in DOMAIN CACHES, \A k \in Clashes : i < k, CACHES[i] \in DOMAIN caches
        PROVE  FALSE
    <3>1. i \in Clashes /\ i \in Nat
      BY <2>1, ProcessAssumption DEF Clashes, MergedOK
    <3>2. QED
      BY <2>1, <3>1
  <2>2. QED
    BY <2>1 DEF Mergeable
<1>3. Clashes = {} => \A i \in DOMAIN CACHES : CACHES[i] \in Mergeable
  BY DEF Mergeable
<1>4. merged' \subseteq Handlers /\ InsanicAliases \subseteq DOMAIN caches'
  BY <1>1 DEF MergedOK
<1>5. \A a \in DOMAIN caches' : caches'[a] = IF a \in InsanicAliases THEN "insanic" ELSE "application"
  BY <1>1, <1>2 DEF MergedOK
<1>6. merged' # {} => \A i \in DOMAIN CACHES : CACHES[i] \in DOMAIN caches' /\ CACHES[i] \notin InsanicAliases
  BY <1>1, <1>2, <1>3 DEF MergedOK
<1>7. \A g, k \in merged' : g = k \/ DOMAIN CACHES = {}
  <2>1. Clashes = {} /\ merged # {} => DOMAIN CACHES = {}
    BY DEF Clashes, MergedOK
  <2>2. QED
    BY <1>1, <2>1 DEF MergedOK
<1>8. CleanUpFails => CleanUpFails'
  <2>1. Clashes # {} => merged' = merged /\ Clashes' # {}
    BY <1>1 DEF Clashes
  <2>2. QED
    BY <2>1 DEF CleanUpFails
<1>9. QED
  BY <1>1, <1>4, <1>5, <1>6, <1>7, <1>8 DEF MergedOK

\* Whatever happens to the caches happens by a merge.
LEMMA CachesStep ==
    ASSUME MergedOK, [Next]_vars
    PROVE  MergedOK' /\ (CleanUpFails => CleanUpFails')
<1>1. CASE UNCHANGED cached
  BY <1>1 DEF cached, MergedOK, CleanUpFails, Clashes
<1>2. ASSUME NEW name, NEW version, NEW object, CreateApplication(name, version, object)
      PROVE  UNCHANGED cached
  BY <1>2 DEF CreateApplication
<1>3. Stop => UNCHANGED cached \/ (Merge(TheConnections) /\ CACHES' = CACHES)
  BY DEF Stop, cached
<1>4. \/ UNCHANGED cached \/ Stop
      \/ \E h \in Handlers : Merge(h) /\ CACHES' = CACHES
  BY <1>2 DEF Next, ReadSetting, Unset, SetConnections, SetItem, DelItem, LoadSettings,
          ConfigureSettings, Change, Call, CloseClient, Start, SweepServices, Stopped, ReadCaches,
          vars, cached
<1>5. QED
  BY <1>1, <1>3, <1>4, MergeStep, ProcessAssumption
-----------------------------------------------------------------------------
(* The theorems.                                                           *)

\* A process begins without settings, application or clients.
LEMMA InitOK == Init => ProcessInv
<1> SUFFICES ASSUME Init
             PROVE  ProcessInv
  OBVIOUS
<1>1. IsSettings(settings)
  BY ProcessAssumption DEF Init, NoSettings, IsSettings, Nowhere
<1>2. ClientsOK /\ CallsOK
  BY DEF Init, ClientsOK, CallsOK, CallsTyped, CallsSafe
<1>3. MergedOK
  BY DEF Init, MergedOK
<1>4. app \in BOOLEAN /\ ~app /\ server = "down" /\ run = 0
  BY DEF Init
<1>5. QED
  BY <1>1, <1>2, <1>3, <1>4, ProcessAssumption DEF ProcessInv

\* ProcessInv is inductive.
LEMMA NextOK == ProcessInv /\ [Next]_vars => ProcessInv'
<1> SUFFICES ASSUME ProcessInv, [Next]_vars
             PROVE  ProcessInv'
  OBVIOUS
<1>1. IsSettings(settings') /\ (app' => settings'.wrapped # Unwrapped) /\ app' \in BOOLEAN
  BY SettingsStep
<1>2. /\ server' \in {"down", "serving", "stopping", "closing"} /\ (server' # "down" => app')
      /\ run' \in 0..MaxRuns
  <2>1. /\ server \in {"down", "serving", "stopping", "closing"} /\ (server # "down" => app)
        /\ run \in 0..MaxRuns /\ app \in BOOLEAN
    BY DEF ProcessInv
  <2>2. ASSUME NEW name, NEW version, NEW object, CreateApplication(name, version, object)
        PROVE  server' = server /\ run' = run /\ server = "down"
    BY <2>2 DEF CreateApplication
  <2>3. CASE UNCHANGED <<server, run, app>>
    BY <2>1, <2>3
  <2>4. CASE Start
    BY <2>1, <2>4, ProcessAssumption DEF Start
  <2>5. CASE Stop \/ SweepServices \/ Stopped
    BY <2>1, <2>5 DEF Stop, SweepServices, Stopped, Swept
  <2>6. \/ UNCHANGED <<server, run, app>> \/ Start \/ Stop \/ SweepServices \/ Stopped
        \/ UNCHANGED <<server, run>> /\ server = "down"
    BY <2>2 DEF Next, ReadSetting, Unset, SetConnections, SetItem, DelItem, LoadSettings,
            ConfigureSettings, Change, serving, Call, CloseClient, ReadCaches, vars
  <2>7. QED
    BY <2>1, <2>3, <2>4, <2>5, <2>6
<1>3. ClientsOK' /\ CallsOK'
  <2>0. /\ ClientsOK /\ CallsTyped /\ (CleanUpFails \/ CallsSafe)
        /\ CleanUpFails => CleanUpFails'
    BY CachesStep DEF ProcessInv, CallsOK
  <2>1. CASE UNCHANGED serving
    BY <2>0, <2>1 DEF serving, ClientsOK, CallsOK, CallsTyped, CallsSafe
  <2>2. CASE UNCHANGED <<server, run, registry, client, due, calls, missed>>
    BY <2>0, <2>2 DEF ClientsOK, CallsOK, CallsTyped, CallsSafe
  <2>3. CASE Stop
    BY <2>0, <2>3 DEF Stop, ClientsOK, CallsOK, CallsTyped, CallsSafe
  <2>4. CASE Stopped
    BY <2>0, <2>4 DEF Stopped, Swept, ClientsOK, CallsOK, CallsTyped, CallsSafe
  <2>5. ASSUME NEW name, NEW version, NEW object, CreateApplication(name, version, object)
        PROVE  UNCHANGED <<server, run, registry, client, due, calls, missed>>
    BY <2>5 DEF CreateApplication
  <2>6. \/ UNCHANGED serving \/ Stop \/ Stopped \/ Start \/ SweepServices
        \/ UNCHANGED <<server, run, registry, client, due, calls, missed>>
        \/ \E s \in Services : Call(s) \/ CloseClient(s)
    BY <2>5 DEF Next, ReadSetting, Unset, SetConnections, SetItem, DelItem, LoadSettings,
            ConfigureSettings, Change, ReadCaches, vars, serving
  <2>7. CallsTyped' /\ (CleanUpFails \/ CallsSafe') => CallsOK'
    BY <2>0 DEF CallsOK
  <2>8. QED
    BY <2>1, <2>2, <2>3, <2>4, <2>6, <2>7, CallStep, SweepStep, CloseStep, StartStep
<1>4. MergedOK'
  BY CachesStep DEF ProcessInv
<1>5. QED
  BY <1>1, <1>2, <1>3, <1>4 DEF ProcessInv

\* The invariant holds: of the settings, of the clients and their calls, and of the
\* merged caches.
THEOREM ProcessInvariance == Spec => []ProcessInv
<1>1. QED
  BY InitOK, NextOK, PTL DEF Spec

\* The type invariant.
THEOREM ProcessTypes == Spec => []TypeOK
<1>1. ProcessInv => TypeOK
  BY DEF ProcessInv, IsSettings, ClientsOK, MergedOK, TypeOK
<1>2. QED
  BY <1>1, ProcessInvariance, PTL

\* listeners.py, services/registry.py: whatever is called and set while a server
\* stops, a client survives it only if the stop did not find it, and a service that
\* was called in an earlier run is called through a closed client; all that unless
\* the caches clash in close_all, which keeps the stop from looking at clients.
THEOREM StopCloses == Spec => []StopClosesClients
<1>1. ProcessInv => StopClosesClients
  BY DEF ProcessInv, ClientsOK, CallsOK, CallsSafe, StopClosesClients
<1>2. QED
  BY <1>1, ProcessInvariance, PTL

\* connections.py: a handler has all caches or none, nobody takes insanic's, and if
\* there are caches to merge no second handler gets any.
THEOREM CachesWhole == Spec => []CachesAreWhole
<1>1. ProcessInv => CachesAreWhole
  BY DEF ProcessInv, MergedOK, CachesAreWhole
<1>2. QED
  BY <1>1, ProcessInvariance, PTL

\* conf/__init__.py, functional.py: of all that is done to settings, only what is
\* written to the wrapped configuration itself under that name (by an app_config, a
\* load, an item set or deleted) leaves a cached value behind that is not the setting
\* any more.
THEOREM SettingsStayFresh == Spec => StaleOnlyPastTheCache
<1>1. ASSUME ProcessInv, [Next]_vars
      PROVE  [\A n \in Names : Stale(settings, n)' /\ ~Stale(settings, n) => WritesPast(n)]_vars
  <2>1. \A n \in Names : Stale(settings, n)' <=> Stale(settings', n)
    BY DEF Stale, Lookup
  <2>2. QED
    BY <1>1, <2>1, SettingsStep
<1>2. QED
  BY <1>1, ProcessInvariance, PTL DEF Spec, StaleOnlyPastTheCache
=============================================================================
