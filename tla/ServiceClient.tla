--------------------------- MODULE ServiceClient ---------------------------
(***************************************************************************)
(* Service.http_dispatch (insanic/services/client.py): calls to another    *)
(* service through one httpx client.                                       *)
(*                                                                         *)
(* A call is two coroutines.  The outer one (_dispatch_future) belongs to  *)
(* the caller, awaits the inner one under asyncio.shield and turns what it *)
(* ends with into a value or an exception.  The inner one (_dispatch_send) *)
(* sends the request, again after some failures, and goes on when the      *)
(* outer one is cancelled.                                                 *)
(*                                                                         *)
(* httpx and the other service are external: a send waits for one of the   *)
(* client's connections, ends with a response or an exception, and may     *)
(* end with an exception while the other side is yet to execute it.        *)
(***************************************************************************)
EXTENDS Integers, FiniteSets

CONSTANTS
    Calls,            \* each is dispatched once
    Gets,             \* those whose method is GET
    Propagating,      \* those with propagate_error=True
    RetryGiven,       \* those with a retry_count
    RetryCount,       \* [Calls -> Int]: that retry_count
    DefaultRetries,   \* SERVICE_CONNECTION_DEFAULT_RETRY_COUNT
    MaxRetries,       \* SERVICE_CONNECTION_MAX_RETRY_COUNT
    MaxConnections    \* SERVICE_CONNECTOR_MAX

ASSUME ServiceClientAssumption ==
    /\ IsFiniteSet(Calls)
    /\ Gets \subseteq Calls
    /\ Propagating \subseteq Calls
    /\ RetryGiven \subseteq Calls
    /\ RetryCount \in [Calls -> Int]
    /\ DefaultRetries \in Nat
    /\ MaxRetries \in Nat
    /\ MaxConnections \in Nat \ {0}

VARIABLES
    outer,     \* [Calls -> OuterStates]: the caller's side
    inner,     \* [Calls -> InnerStates]: the shielded side
    attempt,   \* [Calls -> Nat]: sends begun, i + 1 in the code
    reply,     \* [Calls -> Replies]: what the inner coroutine ended with
    wire,      \* the sends <<c, i>> the other side may yet execute
    executed   \* the sends <<c, i>> it has executed

vars == <<outer, inner, attempt, reply, wire, executed>>

(***************************************************************************)
(* What a send ends with.  A response has a status and a body: a JSON      *)
(* object, one with the error_code that insanic's own error handler puts   *)
(* there (a dictionary; JSON that is no object fares like it), or no JSON. *)
(***************************************************************************)
Statuses == {"success", "client_error", "server_error"}
Bodies == {"object", "coded", "text"}
Responses == Statuses \X Bodies

Transport == {"timeout", "network"}    \* httpx.TransportError
Untransported == {"request", "usage"}  \* another RequestError or gaierror;
                                       \* InvalidURL, StreamError and the like
Errors == Transport \cup Untransported \cup {"reset"}   \* ConnectionResetError
Replies == Responses \cup {<<e>> : e \in Errors} \cup {<<>>}

NoReply == <<>>

InnerStates == {"none", "ready", "sending", "ended"}

\* APIException is by the status it carries: that of the response, 503 or 500.
Raised == {"upstream", "unavailable", "internal", "untranslated"}
Final == {"value", "cancelled"} \cup Raised
OuterStates == {"none", "scheduled", "waiting"} \cup Final

Init ==
    /\ outer = [c \in Calls |-> "none"]
    /\ inner = [c \in Calls |-> "none"]
    /\ attempt = [c \in Calls |-> 0]
    /\ reply = [c \in Calls |-> NoReply]
    /\ wire = {}
    /\ executed = {}
-----------------------------------------------------------------------------
(* _dispatch_send.                                                         *)

\* min(retry_count, max), and without a retry_count the default as it is.
Retries(c) == IF c \notin RetryGiven THEN DefaultRetries
              ELSE IF RetryCount[c] < MaxRetries THEN RetryCount[c] ELSE MaxRetries

BugRetriesAll(c) == 1 + Retries(c)
AttemptsOf(c) == IF c \in Gets THEN 1 + Retries(c) ELSE 1

IsServerError(r) == r[1] = "server_error"

\* The `except` clause of the loop; a 5xx is there by raise_for_status.
IsRetried(r) == r \in {<<e>> : e \in Transport \cup {"reset"}} \/ IsServerError(r)

Connected == {c \in Calls : inner[c] = "sending"}

\* client.send gets a connection and puts the request on the wire.
Send(c) ==
    /\ inner[c] = "ready"
    /\ attempt[c] < AttemptsOf(c)
    /\ Cardinality(Connected) < MaxConnections
    /\ attempt' = [attempt EXCEPT ![c] = @ + 1]
    /\ wire' = wire \cup {<<c, attempt[c] + 1>>}
    /\ inner' = [inner EXCEPT ![c] = "sending"]
    /\ UNCHANGED <<outer, reply, executed>>

\* The other side executes a request, maybe after the send has timed out.
Execute(s) ==
    /\ s \in wire
    /\ wire' = wire \ {s}
    /\ executed' = executed \cup {s}
    /\ UNCHANGED <<outer, inner, attempt, reply>>

\* Send number `tried` ends with r: the loop goes round or the coroutine ends.
BugGivesUpEarly(c, r, tried) ==
    IF IsRetried(r) /\ tried + 1 < AttemptsOf(c)
    THEN inner' = [inner EXCEPT ![c] = "ready"] /\ UNCHANGED reply
    ELSE /\ inner' = [inner EXCEPT ![c] = "ended"]
         /\ reply' = [reply EXCEPT ![c] = r]

BugNeverGivesUp(c, r, tried) ==
    IF IsRetried(r)
    THEN inner' = [inner EXCEPT ![c] = "ready"] /\ UNCHANGED reply
    ELSE /\ inner' = [inner EXCEPT ![c] = "ended"]
         /\ reply' = [reply EXCEPT ![c] = r]

SendEnds(c, r, tried) ==
    IF IsRetried(r) /\ tried < AttemptsOf(c)
    THEN inner' = [inner EXCEPT ![c] = "ready"] /\ UNCHANGED reply
    ELSE /\ inner' = [inner EXCEPT ![c] = "ended"]
         /\ reply' = [reply EXCEPT ![c] = r]

\* A response; only a 5xx may come from something in between.
Respond(c, r) ==
    /\ inner[c] = "sending"
    /\ IsServerError(r) \/ <<c, attempt[c]>> \in executed
    /\ SendEnds(c, r, attempt[c])
    /\ UNCHANGED <<outer, attempt, wire, executed>>

Fail(c, e) ==
    /\ inner[c] = "sending"
    /\ SendEnds(c, <<e>>, attempt[c])
    /\ UNCHANGED <<outer, attempt, wire, executed>>

\* No connection becomes free in time: a send that sends nothing.
PoolTimeout(c) ==
    /\ inner[c] = "ready"
    /\ attempt[c] < AttemptsOf(c)
    /\ Cardinality(Connected) >= MaxConnections
    /\ attempt' = [attempt EXCEPT ![c] = @ + 1]
    /\ SendEnds(c, <<"timeout">>, attempt[c] + 1)
    /\ UNCHANGED <<outer, wire, executed>>

\* range(attempts) is empty for a negative retry_count: the coroutine returns None.
SendNothing(c) ==
    /\ inner[c] = "ready"
    /\ AttemptsOf(c) <= 0
    /\ inner' = [inner EXCEPT ![c] = "ended"]
    /\ UNCHANGED <<outer, attempt, reply, wire, executed>>
-----------------------------------------------------------------------------
(* http_dispatch and _dispatch_future.                                     *)

HttpDispatch(c) ==
    /\ outer[c] = "none"
    /\ outer' = [outer EXCEPT ![c] = "scheduled"]
    /\ UNCHANGED <<inner, attempt, reply, wire, executed>>

\* _dispatch_future up to its await of the shielded coroutine.
Shield(c) ==
    /\ outer[c] = "scheduled"
    /\ outer' = [outer EXCEPT ![c] = "waiting"]
    /\ inner' = [inner EXCEPT ![c] = "ready"]
    /\ UNCHANGED <<attempt, reply, wire, executed>>

IsError(r) == r[1] \in {"client_error", "server_error"}

\* An error response raises if it left _dispatch_send by an exception (a 5xx)
\* or if the caller asked for it.
RaisesForStatus(c, r) == IsServerError(r) \/ (c \in Propagating /\ IsError(r))

\* The `except HTTPStatusError` clause reads .get of the body, and .name of its
\* error_code even if the body has a message.
StatusOutcome(r) == IF r[2] \in {"object", "text"} THEN "upstream" ELSE "untranslated"

\* The other `except` clauses; ConnectionResetError has none.
ErrorOutcome(e) == IF e \in Transport \cup {"request"} THEN "unavailable"
                   ELSE IF e = "usage" THEN "internal"
                   ELSE "untranslated"

\* None has no .json(); a body that is no JSON raises JSONDecodeError.
OutcomeOf(c, r) ==
    IF r = NoReply THEN "untranslated"
    ELSE IF r \notin Responses THEN ErrorOutcome(r[1])
    ELSE IF RaisesForStatus(c, r) THEN StatusOutcome(r)
    ELSE IF r[2] = "text" THEN "untranslated" ELSE "value"

Return(c) ==
    /\ outer[c] = "waiting"
    /\ inner[c] = "ended"
    /\ outer' = [outer EXCEPT ![c] = OutcomeOf(c, reply[c])]
    /\ UNCHANGED <<inner, attempt, reply, wire, executed>>

\* What cancelling the outer coroutine does to the inner one.
BugNoShield(c) == inner' = [inner EXCEPT ![c] = IF @ = "sending" THEN "cancelled" ELSE @]
CancelInner(c) == UNCHANGED inner

\* The caller goes away: its client disconnects, or a timeout of its own.
Cancel(c) ==
    /\ outer[c] \in {"scheduled", "waiting"}
    /\ outer' = [outer EXCEPT ![c] = "cancelled"]
    /\ CancelInner(c)
    /\ UNCHANGED <<attempt, reply, wire, executed>>
-----------------------------------------------------------------------------
\* Every call has been made and every coroutine has ended.
Done == /\ \A c \in Calls : outer[c] \in Final /\ inner[c] \in {"none", "ended"}
        /\ UNCHANGED vars

SendStep(c) == \/ Send(c)
               \/ PoolTimeout(c)
               \/ SendNothing(c)
               \/ \E r \in Responses : Respond(c, r)
               \/ \E e \in Errors : Fail(c, e)

CallStep(c) == Shield(c) \/ Return(c)

Next == \/ \E c \in Calls : HttpDispatch(c) \/ Cancel(c) \/ CallStep(c) \/ SendStep(c)
        \/ \E s \in wire : Execute(s)
        \/ Done

Spec == Init /\ [][Next]_vars

\* The event loop runs what is ready, and httpx ends every send by a response or
\* by one of its timeouts.  Nothing is assumed of callers and of the other side.
Fairness == \A c \in Calls : WF_vars(CallStep(c)) /\ WF_vars(SendStep(c))

FairSpec == Spec /\ Fairness
-----------------------------------------------------------------------------
(* Properties.                                                             *)

\* The type invariant.
TypeOK ==
    /\ outer \in [Calls -> OuterStates]
    /\ inner \in [Calls -> InnerStates]
    /\ attempt \in [Calls -> Nat]
    /\ reply \in [Calls -> Replies]
    /\ wire \subseteq Calls \X (Nat \ {0})
    /\ executed \subseteq Calls \X (Nat \ {0})

\* The numbers of the sends of c that the other side has executed.
ExecutionsOf(c) == {s[2] : s \in {x \in executed : x[1] = c}}

\* A request that changes something (any method but GET) is executed at most
\* once, through timeouts, late executions and callers that go away.
WritesHappenOnce ==
    \A c \in Calls \ Gets : Cardinality(ExecutionsOf(c)) <= 1

\* A call fails for something that is retried only after its last attempt.
GivesUpLast ==
    \A c \in Calls : reply[c] # NoReply /\ IsRetried(reply[c]) => attempt[c] = AttemptsOf(c)

\* A caller gets a value only for a send that the other side has executed, and
\* an APIException for an error of the other side only if it has asked for
\* errors or after every attempt has failed.
AnswersAreEarned ==
    \A c \in Calls :
        /\ outer[c] = "value" => <<c, attempt[c]>> \in executed
        /\ outer[c] = "upstream" => c \in Propagating \/ attempt[c] = AttemptsOf(c)

\* "httpx exceptions are translated to an instance of APIException"
\* (intra_service_communications.rst:51): a caller sees anything else only for a
\* ConnectionResetError, for a retry_count below zero, or for a response that
\* raised nothing in httpx but is no JSON.
HttpxErrorsTranslated ==
    \A c \in Calls : outer[c] = "untranslated" =>
        \/ reply[c] \in {NoReply, <<"reset">>}
        \/ ~RaisesForStatus(c, reply[c])

\* Every call that was dispatched gets an answer, or its caller is gone.
EveryCallReturns == \A c \in Calls : (outer[c] = "scheduled") ~> (outer[c] \in Final)

\* A send that has begun is seen through, with or without its caller.
EverySendEnds == \A c \in Calls : (inner[c] # "none") ~> (inner[c] = "ended")
-----------------------------------------------------------------------------
(* The call as an abstract remote call.                                    *)

BudgetOf(c) == IF c \notin Gets THEN 1
               ELSE 1 + (IF c \in RetryGiven \/ DefaultRetries < MaxRetries
                         THEN MaxRetries ELSE DefaultRetries)

CallState(c) == IF outer[c] = "none" THEN "idle"
                ELSE IF outer[c] \in {"scheduled", "waiting"} THEN "open"
                ELSE IF outer[c] = "value" THEN "answered"
                ELSE IF outer[c] = "cancelled" THEN "cancelled"
                ELSE "failed"

Remote == INSTANCE RemoteCall WITH
    Budget <- [c \in Calls |-> BudgetOf(c)],
    state <- [c \in Calls |-> CallState(c)],
    executions <- [c \in Calls |-> Cardinality(ExecutionsOf(c))]

\* A call keeps to its budget: one execution for a write, one and its retries
\* for a GET; and a value comes from an execution.
RefinesRemoteCall == Remote!Spec
=============================================================================
