# Insanic: specifications and proofs

Insanic is a framework for microservices on top of Sanic: views with
authentication, permissions and throttles, Redis connections that a process
shares, lazy settings, and a client for calls between services.  It runs in one thread of one
event loop, so its concurrency is that of coroutines: every `await` is a point
where any other request may run, and every state that is read before one and
used after it may be stale.  The modules here model those parts, TLC checks them
on small instances, and TLAPS proves every safety property that TLC checks, for
every instance.

## Inventory

What each part keeps, does and depends on; "Hard" is what a unit test would
hardly reach, "Correct" what the properties are to say.

| Part | State | Operations | Hard | Correct |
|---|---|---|---|---|
| Throttles (`throttles.py`) | a history of time stamps per scope and client, in Redis, with an expiry; per request and throttle: the history read, the clock read | `allow_request`, `throttle_success`, `throttle_failure`, `wait` | the history is read and written back by two commands with suspensions between; expiry; clock; failures and cancellation between the commands | never too strict, not more lax than the races allow, waits that are right |
| View pipeline (`views.py`) | the results of one gather | `prepare_http`: authentication, permissions, `check_throttles`, handler | one throttle fails while others run | a request is handled only if every throttle let it pass, and every request is answered |
| Connections (`connections.py`) | pool per alias, the event loop | `get_connection`, `connect`, `close`, `close_all` | racing first uses, clean-up with requests in flight, a handler that outlives its loop | nothing left open or left over |
| Listeners (`listeners.py`) | - | set the loop, verify plugins, task factory, clean-up | order of start-up and clean-up | a stop leaves the process as new |
| Service client (`services/client.py`) | one httpx client per service; per call: the sends, the shielded task | `http_dispatch`, `_dispatch_future`, `_dispatch_send`, `close_client` | retries of what may have been executed, cancelled callers, exhausted connections | at most once for writes, one answer, errors translated |
| Registry (`services/registry.py`) | one service object per name, made at first use | lookup, reset | settings changed after set-up | one object per name |
| Task context (`services/utils.py`, `middleware.py`, `request.py`) | user and correlation id per task | set by the middleware and by authentication, read for each call | child tasks, late authentication, background tasks | no call carries the identity of another request |
| Request, authentication, permissions | `_user`, `_service`, `_auth`, `_authenticator` | lazy authentication from four properties | re-entrance, failure half way | known wholly, in half (a user that cannot be read) or not at all; only who is known wholly gets in |
| Error handling (`handlers.py`, `exceptions.py`) | - | exception to response | an exception in a handler | every exception becomes a response |
| Settings (`conf/`) | wrapped configuration, cache in front of it | read, set, delete, configure, `from_object`, items | writes that bypass the cache | reads see the last write, but for those |
| Application (`app.py`) | plugins, configuration | start-up | order | required plugins or no start |
| Lazy and cached values (`functional.py`) | value and time | get, set, delete, expiry | expiry boundary | no stale value |
| Deprecation (`decorators.py`) | last warning per caller | wrapped call | period boundary | first call warns, at most one warning per period |
| Monitor (`monitor.py`, `metrics.py`) | - | ping fan-out, health, metrics | depth, failing peers | the ping ends |

They interact by calls: a view calls its throttles, these the connections; a
handler calls the service client, which reads the task context that the
middleware and the authentication of the same request have set; the listeners
start and stop connections and clients of the whole process; everything reads
the settings.  Across processes, services ping each other through the client.

## Modules

| Module | Models |
|---|---|
| `RateLimiter` | abstract: what a rate throttle promises, exact (`Spec`) and under concurrency (`LooseSpec`) |
| `Throttle` | `SimpleRateThrottle` and its subclasses under `check_throttles` |
| `ThrottleInvariant` | the inductive invariant of `Throttle` |
| `ThrottleProofs` | the theorems about `Throttle` |
| `ThrottleRefinement` | the theorems that `Throttle` implements `RateLimiter!LooseSpec` and, where no two requests of a client overlap, `RateLimiter!Spec` |
| `Connections` | `ConnectionHandler` with the start and stop listeners, over several runs of a server |
| `ConnectionsProofs` | the theorems about `Connections` |
| `RemoteCall` | abstract: what a call to another service promises |
| `ServiceClient` | `http_dispatch` with its retries and its shield |
| `ServiceClientProofs` | the theorems about `ServiceClient`, its refinement of `RemoteCall` among them |
| `Authentication` | operators: users, services, authentication classes and permissions |
| `ErrorHandling` | operators: the response an exception becomes, and what the access log does to it |
| `Deprecation` | the table of last warnings of the `deprecate` decorator |
| `DeprecationProofs` | lemmas about it, which `PipelineProofs` uses |
| `Pipeline` | composes these three: a request from middleware to response, and the calls made for it |
| `PipelineProofs` | the theorems about `Pipeline` |
| `Settings` | operators: `LazySettings` and what it wraps; a dictionary updated with another is `Over` |
| `Process` | on `Settings`: applications, the registry and its clients, the clean-up at a stop, the merge of the caches |
| `ProcessProofs` | the theorems about `Process` |
| `Mesh` | a ping through the services of a mesh |
| `MeshProofs` | the theorems about `Mesh` |
| `MC*` | instances for TLC |

Operators named `Bug...` are plausible bugs of the code: the same operator with
an off-by-one, a dropped reset or a swapped order.  They are used by no action;
replacing the operator below them by one of them must break a property.

### Throttle

A *job* is the coroutine of one throttle class for one request.  `pc[j]` says
where it is suspended: `get` (acquiring a connection and waiting to send GET),
`got` (the reply is on its way), `set`, `stored`.  The actions are what the code
does between two suspensions:

| Action | Code |
|---|---|
| `CheckThrottles` | the gather starts every job; exempt ones (no rate, no key) are done at once |
| `Get` | a connection is acquired and GET executes on the Redis server |
| `ThrottleFailure`, `ThrottleSuccess` | the reply arrives: connection returned, clock read, old entries popped, decision, `insert(0, now)` |
| `Set`, `Allow` | second connection, SET with expiry; its reply |
| `Handle`, `Throttled` | after the gather: the handler, or 429 with the `wait()` of the first throttle that denied |
| `Raise` | a command raises; gather raises and leaves the other jobs running |
| `Cancel`, `LateSet`, `LoseSet` | the request is cancelled; a SET on the wire may still take effect |

A history holds requests instead of their time stamps; the stamp is
`stamp[<<r, s>>]`, which no longer changes once the entry is written.  That
tells apart entries of equal time and so says more about the code, not less.
The clock (one for the process and Redis) is finer than what clients are told:
`time.time()` is a float, `Throttled` tells `math.ceil(wait)`.  A tick of the model is
a fraction of a second, `Second` of them make one, and `Told` rounds the computed
wait (`WaitOf`) up; `WaitIsEnough` and `WaitIsLeast` are about what is told, the least
number of whole seconds.  Periods are whole seconds, as `parse_rate` makes them.  The
rate, the period and the client of a request are constants: `parse_rate`,
`get_ident` and the key format have no state.

### Connections

A run of the server is one event loop.  A task asks for the pool of an alias
(`GetRegistered` without a suspension, or `Connect` ... `Connected` around the
`await` of `create_pool`) and uses it.  `CloseAll` schedules `close` for every
alias; each of these is `CloseUnconnected`, or `Close` and `Closed` around the
`await` of `wait_closed`.  `replaced` remembers the pools that another first use
wrote over, `behind` those that tasks obtained once a clean-up had begun; what was
obtained before it and merely is in use is in neither.  `Stop` ends the loop, `Start` begins the next run.
aioredis is external: creating a pool may fail, at any time or because its loop
does not run; a closed pool refuses commands.

### ServiceClient

A call has an outer coroutine (`outer[c]`, `_dispatch_future`) and an inner one
(`inner[c]`, `_dispatch_send`), which `asyncio.shield` protects from the
cancellation of the first.  Each send is a pair `<<c, i>>` that the other side
may execute as long as it is on the wire, so also after it has timed out here.
Statuses are classes (success, 4xx, 5xx), bodies are those that the translation
of errors tells apart.

### Pipeline

A request goes through `new`, `throttling`, `handling`, `raised`, `responded`.
`Receive` is everything from the middleware to the first suspension: the
correlation id, the router, eager or lazy authentication, the permissions in
their order, and the start of the gather or of the handler.  `Consult` is one
throttle, in a task of its own, of which only the result matters here (what it
does to Redis is `Throttle`); `GatherReturns` is what follows.  The handler is
the application's: it may read the user, create a task, call another service,
raise, return, in any order (`ReadUser`, `CreateTask`, `Call`, `Raise`,
`Return`).  `TimeOut` is Sanic's response timeout and `Respond` the error handler.

`identity[r]` stands for `_authenticator`, `_user` and `_service`; `Nothing` is a
request that nobody has asked yet.  `Access` is any access to one of the properties,
in whichever task that happens.  The code sets the authenticator and the user first
and then calls `dict(user)`, which raises when the calling service has forwarded an
active user whose `is_authenticated` is no integer (`Unreadable`).  Such a request is
known in half (`Half`, the service still `Nothing`, the user in no context): from then
on `request.user` succeeds and `request.service` raises again (`AccessRaises`).
Credentials are records of what the code tells apart: how many words the header
has, what PyJWT says of the token, whether the forwarded user parses, its level,
whether its flag is an integer.
`Refused` is an `AuthenticationFailed`, `Broken` anything that is no
`APIException`; the first leaves the request anonymous, the second unresolved.

The task context is that of `aiotask_context.chainmap_task_factory`: each task has
a map on top of those of its ancestors.  A task is named by its lineage, `<<r>>`
for a request, `<<r, i>>` for its children, so that a look-up (`ContextGet`) is over
the prefixes of the name.  A user that is set in a child is not seen by the parent:
that is how a lazily authenticated view makes its calls as nobody.

An exception is a class, a status, and what the error handler trips over: no
`args[0]`, a status without a name, an application's own handler.  A response that
the access log cannot log (a 5xx without an exception, or one whose `error_code` has
no name and value) is followed by a second one.  A 401 names a challenge if the first
authentication class of the view is `JSONWebTokenAuthentication`, the only one that
has one.

### Process

The settings are a wrapped configuration and a cache in front of it; `Read`,
`Assign`, `Delete`, `Configure` and `FromObject` are the operations as functions from
one state to the next, and `Process` takes them in any order.  `CreateApplication`
is `Insanic(...)` with its app_config, which goes to what is wrapped, past the cache;
so do `LoadSettings` (`from_object`, `update`, `from_pyfile` and the like on what is
wrapped), `SetItem` and `DelItem` (`settings[name]`).  `Call` finds a service in the registry and creates its client.  A stop goes through
`stopping` (the Redis connections close, module `Connections`), `SweepServices`, which
lists the services, a `CloseClient` for each, in any order, and `Stopped`; calls go
on until then.  `missed` are the clients that a stop does not find.  `Stop` reads the
caches of the process's handler (`TheConnections`), as `close_all` does: if they
clash (`CleanUpFails`) it raises, the server is down and no client is closed.

### Mesh

A ping is the path it has come by, with the attempt of each hop, so a ping that
was sent twice is two.  `Receive` is `PingPongView.get` up to its gather: the tasks
are created before a service that the registry lacks raises `LookupError`.  A task
is `response_time` over the client, in the abstraction that `ServiceClient` justifies:
a send waits for a connection (`Send`, `PoolTimeout`), ends with the answer of the
other service (`Reply`) or without one (`Fail`), and is repeated while there are
retries.  An error response of another insanic service ends it with an exception
that `response_time` does not catch (the finding of `service_errors`).  `Cancel` is
Sanic's timeout or a lost connection; what has been sent is shielded from it.

## Runs

| Run | Instance | Shows |
|---|---|---|
| `throttle_concurrent` | 5 requests of one client, 2 in flight at once, 2 per period of 2 seconds, 2 connections, 5 half seconds | sorted and bounded histories, no false denial, waits of the least number of seconds that is enough |
| `throttle_faults` | 3 concurrent requests, 1 per period, failures and cancellations | the inductive invariant, expiry, no leaked connection, refinement of `LooseSpec` |
| `throttle_serial` | 4 requests, one at a time, failures and cancellations | exact sliding window: refinement of `Spec` and the rate itself |
| `throttle_views` | 4 throttle classes (one exempts members, one has no rate, two with periods of 1 and 2 seconds), 2 concurrent requests of a member, failures and cancellations, 1 connection | every request is answered, the wait of the first that denied is announced, handled means recorded |
| `throttle_limit` | 2 concurrent requests, 1 per period | violation: both are handled |
| `pools` | 3 tasks, 2 aliases, 3 runs of the server | what a clean-up closes and forgets |
| `pools_first_use` | 2 tasks, 1 alias, 1 run | violation: a pool nobody closes |
| `service_calls` | a GET over the retry limit, a POST, a GET with a negative retry count, 1 connection | writes once, no early failure, all calls and sends end, refinement of `RemoteCall` |
| `service_errors` | one GET | violation: an error body of insanic itself is not translated |
| `requests` | 2 concurrent requests, one of them any of 34: 13 kinds of credentials, 7 permissions, views with up to 2 throttles, eager, lazy and deprecated, 12 exceptions | who may enter, what the others are told, one response each, whose identity calls carry, one warning per period |
| `process` | 3 settings, 2 services, 2 runs of a server, 2 connection handlers | which settings go stale, which clients are left open or closed, also by a clean-up that fails, caches merged whole or not at all |
| `mesh` | 3 services, 8 meshes (pairs, chains, cycles, negative depths, incomplete registries, a retry or none), 1 connection | answers are complete, failures spread to every ping above, every ping ends |

Bounds.  In `throttle_faults` `MaxTime` is two periods, so that an entry can be
written, block, expire and be replaced; in `throttle_serial` and `throttle_limit` it is
one period and a half, enough for an entry to expire and the next to block.
`throttle_concurrent` needs a clock finer than a second for the wait to be rounded: it
runs over one period and a half second, on which a denied client may come back when
it was told and be denied again.  `throttle_views` asks which of several denials is
announced, not what happens later, so half a second is enough.  Two entries per
window are the least in which order within a history matters, and with five requests
two lose an update, overfill the window and leave others to be denied.
`PoolSize` is 2 where races are the point and 1 where exhaustion is.  Requests of
different clients share only the pool, so one client is enough.  Three tasks make two of them race for an alias while the third
holds a pool, and three runs let what is left over by the first meet the second
and be cleaned up again.  One retry is enough for a send to be executed late,
after its successor.

In `requests` one request is any of a list that has each credential, permission,
exception and shape of a view at least once, the other is fixed: the two share only
the table of deprecated calls and the process, so varying both would repeat cases.
Two throttles are the least of which one can fail, or be the first to authenticate,
while another runs.  `MaxTime` is one period, so that calls fall within a period and
on its end.  In `process` two runs let the second meet what the first left, and two
values of `SERVICE_CONNECTIONS` let a name be in the registry and not in the
settings, and the other way round.  In `mesh` one connection is the bound at which a
cycle waits for itself, and `MaxHops`, 4, is only reached by a negative depth in a
cycle, the one case that `PingEnds` leaves out because there it is not true.

Fairness is used in `throttle_views`, `service_calls` and `mesh` only.  It says that the
event loop resumes what is ready, that Redis replies and that the pool serves its
waiters (weak fairness of each job), and that httpx ends each send by one of its
timeouts.  In `mesh` a single weak fairness condition over all services is enough:
something that can go on does.  Nothing is assumed of clients, clocks, faults, the
network, Sanic's timeouts or the other service.

### What the violations show

* The throttle reads a history and writes it back without a lock or a Redis
  transaction, so requests that overlap do not see each other and a client can
  exceed its rate by the number it has in flight.  `throttle_serial` shows that this is
  the only way; `RefinesLooseLimiter` that it errs on this side only.
* `get_connection` awaits `create_pool` between its test and its `setattr`.
  `StopClosesTheRest` in the run `pools` says that of all pools obtained before a
  clean-up began, in use or not, the replaced ones are the only ones it leaves open.
* `response.get("message", error_code.name)` evaluates its default first, and the
  `error_code` of an insanic error body is a dictionary.

### What the other new runs say about the code

These hold, and are worth knowing:

* A handler that returns a 5xx of its own, an exception that the error handler
  fails on, and an exception handler of the application that answers with a body
  without an `error_code`, or with one that is no name and value, are answered twice while the access log is on (`AnsweredOnce`).
* A view that authenticates lazily and has throttles calls other services as the
  anonymous user, whoever the request is from (`IdentityTravels`).
* Refused credentials are refused once: who asks again finds an anonymous request.
  Credentials that break the authenticator break it every time; a forwarded user that
  cannot be read breaks the first access and then only those that need more than the
  user.  Such a request gets into a handler only through a view that lets anybody in
  (`RefusalsAreTold`, `OnlyTheEntitledEnter`).
* A 401 of a view that asks for a service's token first has no `WWW-Authenticate`.
* The settings go stale by what is written to the wrapped configuration itself, and
  by nothing else (`StaleOnlyPastTheCache`): by an app_config, also when the application
  then fails for its version, by a load, or by an item set or deleted.
* A clean-up whose `close_all` cannot read the caches never gets to the clients, in
  this run and every later one of the process (`StopClosesClients`).  It takes a clash
  of the application's caches with insanic's, or another handler that has merged
  them first (`CachesAreWhole`).
* A client closed by one run of a server is handed to the calls of the next
  (`StopClosesClients`).
* In a ping an unreachable service is an entry in the answer, but one that fails
  itself fails every ping above it, and so does a name that the registry lacks
  (`AnswersAreWhole`); `except RuntimeError` in `PingPongView` is never taken, since
  the names it looks up are those that make the registry raise `LookupError`.

## Proofs

Every invariant, action property and refinement that a passing run checks is also a
theorem about `Spec`, for any sets of clients, requests, tasks, services and names and any
bounds; two of the throttle, `RateIsLimited` and `RefinesLimiter`, under the condition
described below, without which they are false.  Few of them are inductive; each module has one invariant that is, and the
rest follow from it.

| Module | Inductive invariant | Proved |
|---|---|---|
| `ThrottleProofs` | `ThrottleInv`, `PassedIsRecorded`, `Lineage` | `TypeOK`, `HistoryBounded`, `NewestFirst`, `ExpiryForgivesNothing`, `NoFalseDenial`, `WaitIsLeast`, `WaitIsEnough`, `WaitIsAnnounced`, `NoConnectionLeak`, `HandledWasRecorded` |
| `ThrottleRefinement` | `ThrottleInv`, `SerialInv` | `RefinesLooseLimiter`; while no two requests of a client overlap, `RateIsLimited` and `RefinesLimiter` |
| `ServiceClientProofs` | `CallInv` | `TypeOK`, `WritesHappenOnce`, `GivesUpLast`, `AnswersAreEarned`, `RefinesRemoteCall` |
| `ConnectionsProofs` | `ConnectionsInv` | `TypeOK`, `StopClosesTheRest`, `CleanSlate`, `RunsAreSeparate`, `RefusedOnlyIfLate` |
| `PipelineProofs`, `DeprecationProofs` | `PipelineInv`, `DeprecationInv` | `TypeOK`, `IdentityTravels`, `OnlyTheEntitledEnter`, `RefusalsAreTold`, `AnsweredOnce`, `WarnedOncePerPeriod` |
| `ProcessProofs` | `ProcessInv` | `TypeOK`, `StopClosesClients`, `CachesAreWhole`, `StaleOnlyPastTheCache` |
| `MeshProofs` | `MeshInv` | `TypeOK`, `AnswersAreWhole` |

### Assumptions

What is assumed of the constants is in the modules, where TLC evaluates it:

* `ThrottleAssumption`: finitely many requests and scopes, periods of at least one
  second and of whole seconds, the rest typed.  `ServiceClientAssumption`: types.
* `ConnectionsAssumption`: finitely many tasks, at least one alias (those of
  `INSANIC_CACHES`), a first run.
* `SentinelAssumption`: the values that stand for `None`, for the anonymous user and for
  exceptions are different, and so is the anonymous service.  `PipelineAssumption`: the
  inputs are built from the authentication classes that there are, `Nothing` is no
  exception, whoever credentials stand for has a service, and a dictionary if it
  can be read.
* `DeprecationAssumption`: a frequency of at least one unit of time.
* `ProcessAssumption`: insanic's own settings have `SERVICE_CONNECTIONS`, and wherever that
  name is written services are (`NamesServices`); it is not deleted, since everything that
  loops over it would fail; `CACHES` is a list of aliases,
  and `TheConnections` one of the handlers.
* `MeshAssumption`: a hop and a connection; each mesh typed.

### The throttle

A stored history is a copy of what some job read earlier and put itself in front
of, so the proof has to follow the copies: `ThrottleInv` says of what Redis holds
(`StoredLogs`), of what a job has read (`ReadLogs`) and of what it is about to write
(`LogsToWrite`) that it is a log - distinct recorded jobs of that key, newest first -
of bounded length.  The lemmas `LogPrefix` and `LogInsert` say that popping and
inserting keep a log a log; `LogFrame` that steps of other jobs do, because the stamp
of a recorded job is final (`RecordedIsFinal`).  `LogInsert` needs that no stamp is in
the future (`StampsArePast`); the expiry needs that a key outlives its last entry
(`ExpiryCovers`).  `DeniedIsFull` keeps what a denial was based on, from which
`LogCardinality` counts the recorded requests of `NoFalseDenial`.  The step lemmas
(`TypeStep`, `IdleStep`, `QuietStep`, `GetStep`, `DecisionStep`, `WriteStep`) show the
conjuncts one group of actions at a time, and `ThrottleInvariance` puts them
together.  `throttle_faults` checks `ThrottleInv` as an invariant.

`HandledWasRecorded` needs an invariant of its own, `PassedIsRecorded`: a job that
has let its request pass is exempt or recorded.

`WaitIsEnough` relates two denials, and `ThrottleInv` knows no history but the present ones.
`Lineage` adds where they come from: behind each entry of a history is a prefix of what
the job of that entry wrote behind itself.  Two histories with an entry in common thus go
on from there in the same way until one of them ends.  If the second denial met at its
head something that the first had met too, what follows that entry was in both; both
were full, so the last entry of the first history, for which the wait was computed, is
in the second, and would have been old enough to be popped.

The refinement of `LooseSpec`: most steps void open attempts or change nothing the
limiter sees (`VoidStep`, `JobMove`, `RequestMove`); a SET admits its job at the stamp
it carries (`RecordStep`); and a denial finds the window full (`DenyStep`), which is
`NoFalseDenial` after the step, since the decision changes the stamp of no recorded job.

The exact limiter and the rate itself are not true of the code (run `throttle_limit`),
but they are of all behaviours in which no two requests of the same client are in
flight together, however many of other clients are.  `Alone` says so, and
`RateIsKept` and `ImplementsLimiter` are about `Spec /\ []Alone`.  Under it `SerialInv` is
inductive: nothing that counts is lost from a history on its way through a job
(`Kept`), so that what is about to be written has all of its window, and a window is
never more than full.  In flight is also a request that was cancelled while its SET was on the
wire.  `OneAtATime` says that with `Concurrency` 1, the instance of `throttle_serial`, `Alone`
always holds.

### The service client

`CallInv` says that the sends of a call are numbered by its attempts
(`SendsAreNumbered`, `AttemptsAreBounded`), so that executions can be counted by
their numbers; that a send on the wire has not been executed (`WireIsFresh`), so
that each counts once; which states of the two coroutines go together
(`SidesAgree`); that the inner one is done only with a reply no retry follows
(`RepliesAreFinal`); and that the outer one reports that reply (`OutcomeIsOfReply`).
`AttemptStep`, `EndStep` and `OuterStep` show it for the three kinds of steps.

### The connections

An open pool is registered, replaced or obtained behind the clean-up (`PoolsAreKnown`).  That it is registered
under the alias it was made for is `PoolsHaveOwners`; that the clean-up gets to it, and
that nothing new but of late tasks is registered behind it, is `ClosersAreDone`.
`RunsAreSeparate` is inductive only with where the handler's loop comes from (`LoopIsOfRun`)
and who is in flight during a clean-up (`LateOnesAreKnown`); `HandlesAreUsable` extends it to
the pools that tasks already hold, which a closed pool must not be one of.

### The pipeline

A step moves one request.  `PipelineInv` is therefore mostly one formula for each request,
`RequestOK`: how far it has come (`StageOK`); that its identity, once somebody has asked, is what
its credentials say, wholly or in half (`IdentityOK`), so that it does not matter which task asks first;
that throttles are asked and the handler entered for the entitled only (`AdmissionOK`);
what the contexts of its tasks hold (`ContextOK`), from which `IdentityTravels`; why it was turned
away (`FailureOK`), and what was answered (`ResponseOK`), from which `RefusalsAreTold` and
`AnsweredOnce` by the operators of `ErrorHandling`.  `OneMoves` reduces a step to the request
that it moves; `AskStep` is the first access to an identity, shared by a throttle and a
handler.  `DeprecationProofs` says that the table has the last warning of everybody who has called.

### The process

The settings, the caches and the clients change apart, so `ProcessInv` is a conjunction of
`IsSettings`, `MergedOK`, `ClientsOK` and `CallsOK`.  The operations of `Settings` have a lemma each
(`ReadOK`, `AssignOK`, `PutItemOK`, ...): they keep `IsSettings` and, with `FreshBut`, make nothing stale
but the names that are written past the cache; `StaleOnlyPastTheCache` is an action property that follows
from these.  `StopClosesClients` needs that every open client is registered and is still due, or missed,
while a stop closes them, and that a clean-up that fails once fails for good (`MergeStep`): the entries that
clash stay in the dictionary.

### The mesh

`MeshInv` is about a set of services without a bound, in which a ping that was sent twice must not
be taken for one.  A path is the client's or that of an attempt that a task has made
(`Whence`), and the next attempt has a number that none before it had; so what arrives has
not arrived before, and a ping is not started again.  `Heard` says what an ended ping
has in its tasks, `Tried` what a task has to show for its state.

### Only model-checked

Liveness: `EveryRequestAnswered`, `EveryCallReturns`, `EverySendEnds`, `PingEnds`.  It is out of
the prover's reach, since it rests on fairness and so on `ENABLED`.  The three violations are
counterexamples of TLC.

## Not modelled

* The item interface of `ConnectionHandler`, `registry.reset` and
  `cached_property_with_ttl`: nothing in the framework calls them.
* The body of a request (`Request.data`), parsing and formatting of headers, rates,
  tokens and dates, logging and its formatters: conversions without state, of which
  the models keep only the outcomes that the code tells apart.
* `Insanic.run`, plugins, the registration of listeners and middleware: they hand
  arguments to Sanic, or run once before anything else.
* The router's list of public routes, the `public_facing` decorator, `adapters.py` and
  the adapters that rename httpx's classes: functions of static data.
* Health and metrics: gauges of the process.  The enumerations of error codes: data.

Sanic, aioredis, Redis, httpx, PyJWT and aiotask_context are not in the repository;
the actions and operators that stand for them are marked external in the map and
do what the code relies on.

## Plan

1. The operators of `Authentication` and `ErrorHandling` as lemmas of their own, where
   the proofs about `Pipeline` now expand them.
2. For the liveness properties, the safety part of their argument: that a step which
   is waited for decreases what is left to do (attempts of a call, open jobs of a gather).
3. That `Mesh` rests on what `ServiceClient` implements: a task of `Mesh` as a `RemoteCall`.
