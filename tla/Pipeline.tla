------------------------------ MODULE Pipeline ------------------------------
(***************************************************************************)
(* A request from its middleware to its response: authentication, which is *)
(* lazy (insanic/request.py), permissions, throttles and the handler       *)
(* (views.py), the calls it makes of other services with the user and the  *)
(* correlation id of its task (services/utils.py), the response timeout    *)
(* and the error handler.                                                  *)
(*                                                                         *)
(* aiotask_context is external: with chainmap_task_factory the context of  *)
(* a task is a map of its own on top of that of the task that created it.  *)
(* A task is the sequence of those: <<r>> is the task of request r,        *)
(* <<r, 0>> one its handler creates and <<r, i>> that of its throttle i.   *)
(* What a throttle does is in module Throttle, here it has a result.       *)
(***************************************************************************)
EXTENDS Authentication, ErrorHandling, Deprecation, FiniteSets, FiniteSetsExt

CONSTANTS
    Requests,
    Inputs,          \* [Requests -> SUBSET Input]: what may be requested
    MaxThrottles,    \* bound on the throttles of a view
    Waits,           \* waits that a throttle announces, 0 for none
    Returned,        \* statuses that handlers return
    Exceptions       \* [Requests -> SUBSET exceptions]: what its handler may raise

\* An input is a record of
\*   sent     the credentials (see Authentication)
\*   id       its REQUEST_ID_HEADER_FIELD, or Nothing
\*   method   its method
\*   view     Nothing if the router finds none, or a record of `eager`, FALSE
\*            if it overrides perform_authentication by `pass`, the sequences
\*            `authenticators` and `permissions`, how many `throttles` it has,
\*            whether its handler is `deprecated`, and the `user_id` of its url

\* What the credentials of an input may stand for.
Identities(i) ==
    {Anonymous, Nothing} \cup {Authenticate(scheme, i.sent) : scheme \in {"jwt", "service"}}

\* What is not an identity.
Sentinels == {Nothing, Refused, Broken}

\* Whether dict(user) raises for an identity that was found.
Breaks(who) == who \notin Sentinels /\ Unreadable(who.user)

ASSUME PipelineAssumption ==
    /\ Nothing \notin Requests \cup AnyException
    /\ MaxThrottles \in Nat
    /\ Waits \subseteq Nat
    /\ \A r \in Requests : Nothing \notin Inputs[r] /\ Exceptions[r] \subseteq AnyException
    /\ \A r \in Requests : \A i \in Inputs[r] :
          /\ i.view # Nothing => /\ i.view.throttles \in 0..MaxThrottles
                                 /\ i.view.authenticators \in Seq({"base", "jwt", "service"})
          /\ \A who \in Identities(i) \ Sentinels :
                /\ IsWhole(who) /\ Half(who) # Nothing
                /\ ~Breaks(who) => DictOf(who.user) # Nothing

VARIABLES
    phase,      \* [Requests -> Phases]
    input,      \* [Requests -> Input or Nothing]
    identity,   \* [Requests -> _authenticator, _user and _service, or Nothing];
                \* in half, the service is Nothing
    refusals,   \* [Requests -> Nat]: how often authenticating it was refused
    context,    \* [Tasks -> ...]: each task's own map
    throttle,   \* [Requests -> [1..MaxThrottles -> Consultations]]
    child,      \* the requests whose handler has created a task
    entered,    \* the requests whose handler has been called
    failure,    \* [Requests -> the exception raised, or Nothing]
    calls,      \* the calls made of other services, with their headers
    responses   \* [Requests -> Seq(responses)] as written to the client

vars == <<phase, input, identity, refusals, context, throttle, child, entered,
          failure, calls, responses, now, last_call, uses>>

Phases == {"new", "throttling", "handling", "raised", "responded"}
Consultations == {"none", "pending", "allowed", "denied", "failed", "cancelled"}

Tasks == {<<r>> : r \in Requests} \cup (Requests \X (0..MaxThrottles))

NoContext == [user |-> Nothing, correlation |-> Nothing]

Init ==
    /\ phase = [r \in Requests |-> "new"]
    /\ input = [r \in Requests |-> Nothing]
    /\ identity = [r \in Requests |-> Nothing]
    /\ refusals = [r \in Requests |-> 0]
    /\ context = [t \in Tasks |-> NoContext]
    /\ throttle = [r \in Requests |-> [i \in 1..MaxThrottles |-> "none"]]
    /\ child = {}
    /\ entered = {}
    /\ failure = [r \in Requests |-> Nothing]
    /\ calls = {}
    /\ responses = [r \in Requests |-> <<>>]
    /\ DeprecationInit
-----------------------------------------------------------------------------
(* The context of a task.                                                  *)

\* The tasks that t descends from, and t: those whose maps it looks through.
Lineage(t) == {SubSeq(t, 1, n) : n \in 1..Len(t)}

\* A look-up in the chain of maps: the nearest one that has the key.
ContextGet(t, key, default) ==
    LET having == {a \in Lineage(t) : context[a][key] # Nothing}
    IN IF having = {} THEN default
       ELSE context[CHOOSE a \in having : \A b \in having : Len(b) <= Len(a)][key]

\* A task without a context (<<>>) raises AttributeError, which is caught.
ContextUser(t) == ContextGet(t, "user", DictOf(AnonymousUser))

ContextCorrelationId(t) ==
    IF t = <<>> THEN "not set" ELSE ContextGet(t, "correlation", "unknown")

\* _inject_headers, when the call is made.
InjectHeaders(r, t) ==
    [request |-> r, user |-> HeaderOf(ContextUser(t)), correlation |-> ContextCorrelationId(t)]
-----------------------------------------------------------------------------
(* The request.                                                            *)

\* A request's own id is generated when the client sends none.
RequestId(r) == IF input[r].id = Nothing THEN r ELSE input[r].id

\* request.authenticators, () before the view is known.
Authenticators(i) == IF i.view = Nothing THEN <<>> ELSE i.view.authenticators

BugLastAsked(i) ==
    LET asked == Authenticators(i)
        said == [n \in DOMAIN asked |-> Authenticate(asked[n], i.sent)]
        heard == {n \in DOMAIN said : said[n] # Nothing}
    IN IF heard # {} THEN said[Min(heard)]
       ELSE IF asked = <<>> THEN Anonymous
       ELSE [Anonymous EXCEPT !.authenticator = asked[Len(asked)]]

\* _authenticate: the first authenticator that has something to say.
Found(i) ==
    LET said == [n \in DOMAIN Authenticators(i) |-> Authenticate(Authenticators(i)[n], i.sent)]
        heard == {n \in DOMAIN said : said[n] # Nothing}
    IN IF heard = {} THEN Anonymous ELSE said[Min(heard)]

\* Authentication raises, but no AuthenticationFailed.
CannotTell(i) == Found(i) = Broken \/ Breaks(Found(i))

\* What accessing an attribute raises.  A request that is known in half has its
\* `user` and successful_authenticator; `service`, `auth` and `user.is_authenticated`
\* raise again.
Attributes == {"user", "service"}

AccessRaises(r, i, attribute) ==
    IF IsWhole(identity[r]) \/ (attribute = "user" /\ identity[r] # Nothing) THEN Nothing
    ELSE IF Found(i) = Refused THEN ApiException("AuthenticationFailed")
    ELSE IF CannotTell(i) THEN Uncaught ELSE Nothing

\* What a request is after it, whatever the attribute: refused ones are anonymous,
\* broken ones nobody yet, and a user that breaks is known without its service.
Settled(r, i) ==
    IF identity[r] # Nothing THEN identity[r]
    ELSE CASE Found(i) = Refused -> Anonymous
           [] Found(i) = Broken -> Nothing
           [] OTHER -> IF Breaks(Found(i)) THEN Half(Found(i)) ELSE Found(i)

BugNotInContext(r, t, i, map) ==
    /\ identity' = [identity EXCEPT ![r] = Settled(r, i)]
    /\ refusals' = [refusals EXCEPT ![r] =
                        @ + (IF identity[r] = Nothing /\ Found(i) = Refused THEN 1 ELSE 0)]
    /\ context' = [context EXCEPT ![t] = map]

\* Accessing request.user, service or auth in task t; the user goes to the
\* context of that task, unless it breaks on its way.
Access(r, t, i, map) ==
    /\ identity' = [identity EXCEPT ![r] = Settled(r, i)]
    /\ refusals' = [refusals EXCEPT ![r] =
                        @ + (IF identity[r] = Nothing /\ Found(i) = Refused THEN 1 ELSE 0)]
    /\ context' = [context EXCEPT ![t] =
                      IF identity[r] = Nothing /\ IsWhole(Settled(r, i))
                      THEN [map EXCEPT !.user = DictOf(Settled(r, i).user)] ELSE map]
-----------------------------------------------------------------------------
(* The view, in the task of the request.                                   *)

\* The request is authenticated eagerly, or by the first permission that asks.
Authenticates(view) ==
    view.eager \/ \E n \in DOMAIN view.permissions : ReadsIdentity(view.permissions[n])

Granted(i, who) ==
    \A n \in DOMAIN i.view.permissions :
        HasPermission(i.view.permissions[n], who, i.method, i.view.user_id)

PermissionDenied(who) ==
    ApiException(IF who.authenticator = Nothing THEN "NotAuthenticated" ELSE "PermissionDenied")

\* What goes wrong up to the throttles, or Nothing.
BugPermissionsFirst(r, i) ==
    IF i.view = Nothing THEN Raising("sanic.NotFound", 404)
    ELSE IF Authenticates(i.view) /\ ~Granted(i, Anonymous) THEN PermissionDenied(Anonymous)
    ELSE IF Authenticates(i.view) THEN AccessRaises(r, i, "user") ELSE Nothing

Objection(r, i) ==
    IF i.view = Nothing THEN Raising("sanic.NotFound", 404)
    ELSE IF ~Authenticates(i.view) THEN Nothing
    ELSE IF AccessRaises(r, i, "user") # Nothing THEN AccessRaises(r, i, "user")
    ELSE IF Granted(i, Settled(r, i)) THEN Nothing
    ELSE PermissionDenied(Settled(r, i))

Fail(r, e) ==
    /\ phase' = [phase EXCEPT ![r] = "raised"]
    /\ failure' = [failure EXCEPT ![r] = e]

\* The wrapper of a deprecated handler asks which service the request is from.
Asks(view) == view.throttles = 0 /\ view.deprecated

UsageKey(r, i) == <<Settled(r, i).service.source, i.method, i.view>>

Enter(r, i) ==
    IF i.view.deprecated /\ AccessRaises(r, i, "service") # Nothing
    THEN Fail(r, AccessRaises(r, i, "service")) /\ UNCHANGED <<entered, deprecation>>
    ELSE /\ phase' = [phase EXCEPT ![r] = "handling"]
         /\ entered' = entered \cup {r}
         /\ IF i.view.deprecated THEN Warn(r, UsageKey(r, i)) ELSE UNCHANGED deprecation
         /\ UNCHANGED failure

\* check_throttles gathers a task for each throttle; without any it goes on.
CheckThrottles(r, i) ==
    IF i.view.throttles = 0 THEN Enter(r, i) /\ UNCHANGED throttle
    ELSE /\ phase' = [phase EXCEPT ![r] = "throttling"]
         /\ throttle' = [throttle EXCEPT ![r] = [n \in 1..MaxThrottles |->
                               IF n <= i.view.throttles THEN "pending" ELSE "none"]]
         /\ UNCHANGED <<failure, entered, deprecation>>

\* request_middleware, the router and prepare_http up to the gather of
\* check_throttles, or up to the handler: nothing in between waits.
Receive(r, i) ==
    LET map == [NoContext EXCEPT !.correlation = IF i.id = Nothing THEN r ELSE i.id]
    IN /\ phase[r] = "new"
       /\ input' = [input EXCEPT ![r] = i]
       /\ IF i.view # Nothing /\ (Authenticates(i.view) \/ Asks(i.view))
          THEN Access(r, <<r>>, i, map)
          ELSE context' = [context EXCEPT ![<<r>>] = map] /\ UNCHANGED <<identity, refusals>>
       /\ IF Objection(r, i) # Nothing
          THEN Fail(r, Objection(r, i)) /\ UNCHANGED <<throttle, entered, deprecation>>
          ELSE CheckThrottles(r, i)
       /\ UNCHANGED <<child, calls, responses>>

\* A throttle, unless it has no rate, asks in its own task whether the user of the
\* request is authenticated, and has a result.  Its exception is that of the gather,
\* which leaves the other tasks running.
Consult(r, n, asks, result) ==
    /\ throttle[r][n] = "pending"
    /\ asks \/ result = "allowed"
    /\ IF asks THEN Access(r, <<r, n>>, input[r], context[<<r, n>>])
       ELSE UNCHANGED <<identity, refusals, context>>
    /\ LET e == IF asks THEN AccessRaises(r, input[r], "service") ELSE Nothing
           outcome == IF e # Nothing THEN "failed" ELSE result
       IN /\ throttle' = [throttle EXCEPT ![r][n] = outcome]
          /\ IF outcome = "failed" /\ phase[r] = "throttling"
             THEN Fail(r, IF e # Nothing THEN e ELSE Uncaught)
             ELSE UNCHANGED <<phase, failure>>
    /\ UNCHANGED <<input, child, entered, calls, responses, deprecation>>

\* Throttled(wait), the wait as its args[0].
BugKeywordWait(wait) == [ApiException("Throttled") EXCEPT !.wait = wait, !.positional = FALSE]
Throttled(wait) == [ApiException("Throttled") EXCEPT !.wait = wait]

Results(r) == {throttle[r][n] : n \in 1..input[r].view.throttles}

\* The gather returns: the handler, or the wait of a throttle that denied.
GatherReturns(r, wait) ==
    /\ phase[r] = "throttling"
    /\ Results(r) \subseteq {"allowed", "denied"}
    /\ IF "denied" \in Results(r)
       THEN /\ Fail(r, Throttled(wait))
            /\ UNCHANGED <<identity, refusals, context, entered, deprecation>>
       ELSE /\ Enter(r, input[r])
            /\ IF input[r].view.deprecated THEN Access(r, <<r>>, input[r], context[<<r>>])
               ELSE UNCHANGED <<identity, refusals, context>>
    /\ UNCHANGED <<input, throttle, child, calls, responses>>
-----------------------------------------------------------------------------
(* The handler, which is the application's: in any order it reads          *)
(* attributes of the request, creates a task, and makes calls from both.   *)

\* The tasks in which the application runs for r; the one the handler has
\* created may outlive the request.
Running(r) == {t \in {<<r>>} : phase[r] = "handling"} \cup {t \in {<<r, 0>>} : r \in child}

\* The application may catch what it raises.
ReadUser(r, t, attribute) ==
    /\ t \in Running(r)
    /\ Access(r, t, input[r], context[t])
    /\ \/ UNCHANGED <<phase, failure>>
       \/ /\ t = <<r>> /\ AccessRaises(r, input[r], attribute) # Nothing
          /\ Fail(r, AccessRaises(r, input[r], attribute))
    /\ UNCHANGED <<input, throttle, child, entered, calls, responses, deprecation>>

CreateTask(r) ==
    /\ phase[r] = "handling"
    /\ child' = child \cup {r}
    /\ UNCHANGED <<phase, input, identity, refusals, context, throttle, entered, failure,
                   calls, responses, deprecation>>

Call(r, t) ==
    /\ t \in Running(r)
    /\ calls' = calls \cup {InjectHeaders(r, t)}
    /\ UNCHANGED <<phase, input, identity, refusals, context, throttle, child, entered,
                   failure, responses, deprecation>>

\* A call of a task that is older than the task factory.
CallWithoutContext ==
    /\ calls' = calls \cup {InjectHeaders(Nothing, <<>>)}
    /\ UNCHANGED <<phase, input, identity, refusals, context, throttle, child, entered,
                   failure, responses, deprecation>>

Raise(r, e) ==
    /\ phase[r] = "handling"
    /\ Fail(r, e)
    /\ UNCHANGED <<input, identity, refusals, context, throttle, child, entered, calls,
                   responses, deprecation>>
-----------------------------------------------------------------------------
(* The response.                                                           *)

\* A response that the handler itself has made has no exception.
Return(r, status) ==
    /\ phase[r] = "handling"
    /\ phase' = [phase EXCEPT ![r] = "responded"]
    /\ responses' = [responses EXCEPT ![r] = Written([JsonResponse(status) EXCEPT !.coded = FALSE])]
    /\ UNCHANGED <<input, identity, refusals, context, throttle, child, entered, failure, calls,
                   deprecation>>

\* Sanic's response timeout cancels the task of the request, and with it the gather.
TimeOut(r) ==
    /\ phase[r] \in {"throttling", "handling"}
    /\ Fail(r, Raising("sanic.ServiceUnavailable", 503))
    /\ throttle' = [throttle EXCEPT ![r] = [n \in 1..MaxThrottles |->
                        IF @[n] = "pending" THEN "cancelled" ELSE @[n]]]
    /\ UNCHANGED <<input, identity, refusals, context, child, entered, calls, responses,
                   deprecation>>

Respond(r) ==
    /\ phase[r] = "raised"
    /\ phase' = [phase EXCEPT ![r] = "responded"]
    /\ responses' = [responses EXCEPT ![r] =
                         Written(ErrorResponse(failure[r], Authenticators(input[r])))]
    /\ UNCHANGED <<input, identity, refusals, context, throttle, child, entered, failure, calls,
                   deprecation>>

Next ==
    \/ \E r \in Requests :
          \/ \E i \in Inputs[r] : Receive(r, i)
          \/ \E n \in 1..MaxThrottles, asks \in BOOLEAN, result \in {"allowed", "denied", "failed"} :
                Consult(r, n, asks, result)
          \/ \E wait \in Waits : GatherReturns(r, wait)
          \/ \E t \in {<<r>>, <<r, 0>>}, attribute \in Attributes : ReadUser(r, t, attribute)
          \/ \E t \in {<<r>>, <<r, 0>>} : Call(r, t)
          \/ CreateTask(r)
          \/ \E e \in Exceptions[r] : Raise(r, e)
          \/ \E status \in Returned : Return(r, status)
          \/ TimeOut(r)
          \/ Respond(r)
    \/ CallWithoutContext
    \/ Tick /\ UNCHANGED <<phase, input, identity, refusals, context, throttle, child, entered,
                           failure, calls, responses>>

Spec == Init /\ [][Next]_vars
-----------------------------------------------------------------------------
(* Properties.                                                             *)

\* What a request may come to be: somebody its credentials stand for, and in half
\* only if they are of a user whose flag cannot be read.
Settlements(i) ==
    {Nothing} \cup {IF Breaks(who) THEN Half(who) ELSE who : who \in Identities(i) \ Sentinels}

\* The type invariant; an identity is one that the credentials may stand for.
TypeOK ==
    /\ phase \in [Requests -> Phases]
    /\ \A r \in Requests :
          IF input[r] = Nothing THEN identity[r] = Nothing
          ELSE input[r] \in Inputs[r] /\ identity[r] \in Settlements(input[r])
    /\ refusals \in [Requests -> Nat]
    /\ DOMAIN context = Tasks
    /\ throttle \in [Requests -> [1..MaxThrottles -> Consultations]]
    /\ child \subseteq Requests
    /\ entered \subseteq Requests
    /\ \A c \in calls : c.request \in Requests \cup {Nothing}
    /\ \A r \in Requests : Len(responses[r]) <= 2

\* A call carries the id of the request it is made for, and its user or nobody:
\* the user whenever the request was authenticated before its throttles
\* ("set on the task to give user context to any child tasks", request.py:129).
\* A task outside any request makes its calls as nobody, and so does one of a
\* request that is known in half.
IdentityTravels ==
    \A c \in calls :
        LET nobody == HeaderOf(DictOf(AnonymousUser))
            r == c.request
        IN IF r = Nothing THEN c.user = nobody
           ELSE /\ c.correlation = RequestId(r)
                /\ \/ c.user = nobody /\ ~Authenticates(input[r].view)
                   \/ IsWhole(identity[r]) /\ c.user = HeaderOf(DictOf(identity[r].user))

\* Whether the request may have its throttles asked.
Entitled(r) ==
    Authenticates(input[r].view) =>
        IsWhole(identity[r]) /\ refusals[r] = 0 /\ Granted(input[r], identity[r])

\* A throttle is asked, and so records a request, only if the request is known
\* wholly and has the permissions of the view; the handler is called only if every
\* throttle allows it.
OnlyTheEntitledEnter ==
    \A r \in Requests :
        /\ (\E n \in 1..MaxThrottles : throttle[r][n] # "none") => Entitled(r)
        /\ r \in entered => Entitled(r) /\ Results(r) \subseteq {"allowed"}

TimedOut(r) == failure[r] # Nothing /\ failure[r].type = "sanic.ServiceUnavailable"

\* A request that its view turns away is told so once: 401 for credentials that are
\* missing or refused, with a challenge if the view first asks for a user's token;
\* 403 for those that do not suffice; 429 otherwise, with the wait if there is one.
\* Credentials are refused once, whoever asks for the user: who asks later finds
\* nobody.
RefusalsAreTold ==
    \A r \in Requests : refusals[r] <= 1 /\ (
        phase[r] = "responded" /\ input[r].view # Nothing /\ r \notin entered /\ ~TimedOut(r) =>
            LET answer == responses[r][1]
                refused == identity[r] # Nothing /\ refusals[r] > 0
            IN /\ Len(responses[r]) = 1 /\ answer.coded
               /\ answer.status \in {401, 403, 429} \/ "failed" \in Results(r)
                                                  \/ CannotTell(input[r])
               /\ refused => answer.status = 401 \/ ~Authenticates(input[r].view)
               /\ answer.status = 401 =>
                     /\ identity[r] # Nothing /\ identity[r].authenticator = Nothing
                     /\ answer.authenticate <=> /\ Authenticators(input[r]) # <<>>
                                                /\ Authenticators(input[r])[1] = "jwt"
               /\ answer.status = 403 =>
                     IsWhole(identity[r]) /\ identity[r].authenticator # Nothing
               /\ answer.retry => answer.status = 429
               /\ answer.status = 429 => "denied" \in Results(r))

\* Every request is answered by exactly one response, unless its handler makes a
\* 5xx of its own, or raises what the error handler fails on: a status that
\* REVERSE_STATUS lacks, no args[0], or an exception handler of the application
\* that raises, or that forgets the error_code or makes an odd one.  A second
\* response follows those.
AnsweredOnce ==
    \A r \in Requests : phase[r] = "responded" /\ Len(responses[r]) # 1 =>
        /\ r \in entered /\ responses[r][2].coded
        /\ responses[r][1].odd \/ responses[r][1].status >= 500
        /\ \/ failure[r] = Nothing
           \/ failure[r].handled \in {"raises", "bare", "odd"}
           \/ failure[r].status \notin REVERSE_STATUS
           \/ ~failure[r].positional
=============================================================================
