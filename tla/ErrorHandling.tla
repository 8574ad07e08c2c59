--------------------------- MODULE ErrorHandling ---------------------------
(***************************************************************************)
(* Which response an exception becomes (insanic/handlers.py,               *)
(* exceptions.py, status.py) and how often it is written (protocol.py).    *)
(*                                                                         *)
(* An exception is a record of                                             *)
(*   type        its class                                                 *)
(*   status      its status_code                                           *)
(*   positional  whether it has an args[0]                                 *)
(*   wait        the seconds of a Throttled, 0 for none                    *)
(*   handled     what the application's own handler for it does: "coded"   *)
(*               and "bare" are responses with and without an error_code,  *)
(*               "odd" one whose error_code has no name or no value,       *)
(*               "nothing" is a handler that returns None, "raises" one    *)
(*               that fails, and "default" is no handler.                  *)
(* A response has a status, two headers, and whether its body has an       *)
(* error_code, an odd one, and the error handler has put its exception on  *)
(* it.                                                                     *)
(*                                                                         *)
(* Sanic is external: it answers with a plain 500 when the error handler   *)
(* raises, and writes another error response when the access log raises.   *)
(***************************************************************************)
EXTENDS Integers, Sequences

CONSTANT AccessLog   \* Sanic's access_log

ASSUME ErrorHandlingAssumption == AccessLog \in BOOLEAN

\* The classes of APIException and their status_code.
ApiStatus == [
    APIException |-> 500, ParseError |-> 400, BadRequest |-> 400, InvalidUsage |-> 400,
    ValidationError |-> 400, NotFound |-> 404, AuthenticationFailed |-> 401,
    ServiceAuthenticationFailed |-> 401, NotAuthenticated |-> 401, PermissionDenied |-> 403,
    MethodNotAllowed |-> 405, NotAcceptable |-> 406, UnsupportedMediaType |-> 415,
    Throttled |-> 429, ServiceUnavailable503Error |-> 503, ResponseTimeoutError |-> 503,
    RequestTimeoutError |-> 408, UnprocessableEntity422Error |-> 422,
    SanicInvalidUsage |-> 400, SanicNotFound |-> 404, SanicMethodNotSupported |-> 405]

\* The keys of REVERSE_STATUS.
REVERSE_STATUS ==
    (100..101) \cup (200..206) \cup (300..307) \cup (400..417) \cup
    {422, 428, 429, 431, 497, 499} \cup (500..505) \cup {511}

SanicTypes == {"sanic.InvalidUsage", "sanic.NotFound", "sanic.MethodNotSupported",
               "sanic.ServiceUnavailable", "sanic.ServerError"}

\* "Exception" is any class that is neither insanic's nor Sanic's.
AnyException ==
    [type : DOMAIN ApiStatus \cup SanicTypes \cup {"Exception"}, status : Nat,
     positional : BOOLEAN, wait : Nat,
     handled : {"default", "coded", "bare", "odd", "nothing", "raises"}]

Raising(type, status) ==
    [type |-> type, status |-> status, positional |-> TRUE, wait |-> 0, handled |-> "default"]

ApiException(type) == Raising(type, ApiStatus[type])

Uncaught == Raising("Exception", 500)

JsonResponse(status) ==
    [status |-> status, authenticate |-> FALSE, retry |-> FALSE, coded |-> TRUE, odd |-> FALSE,
     exception |-> FALSE]

HandleUncaughtException == JsonResponse(500)

\* REVERSE_STATUS and args[0] are looked up whether or not they are needed.
DefaultRaises(e) ==
    /\ e.type \in DOMAIN ApiStatus \cup SanicTypes
    /\ e.status \notin REVERSE_STATUS \/ ~e.positional

Default(e, challenge) ==
    IF e.type \in DOMAIN ApiStatus
    THEN [JsonResponse(e.status) EXCEPT !.authenticate = challenge, !.retry = e.wait > 0]
    ELSE IF e.type \in SanicTypes THEN JsonResponse(e.status)
    ELSE HandleUncaughtException

\* get_authenticate_header asks the first authenticator; only that of the users'
\* tokens has a challenge, the others have the base class's None.
Challenge(e, authenticators) ==
    /\ e.type \in {"NotAuthenticated", "AuthenticationFailed"}
    /\ authenticators # <<>>
    /\ authenticators[1] = "jwt"

\* The exceptions of Sanic become insanic's before the default, with their status.
Converted(e) ==
    CASE e.type = "sanic.InvalidUsage" -> Raising("SanicInvalidUsage", e.status)
      [] e.type = "sanic.NotFound" -> Raising("SanicNotFound", e.status)
      [] e.type = "sanic.MethodNotSupported" -> Raising("SanicMethodNotSupported", e.status)
      [] OTHER -> e

\* What `response` looks up: insanic's own handlers, then the application's.
IsOwn(e) == e.type \in SanicTypes \cup {"NotAuthenticated", "AuthenticationFailed"}

HandlerFails(e) ==
    IF ~IsOwn(e) /\ e.handled \in {"coded", "bare", "odd", "raises"} THEN e.handled = "raises"
    ELSE DefaultRaises(Converted(e))

Handled(e, authenticators) ==
    IF ~IsOwn(e) /\ e.handled \in {"coded", "bare", "odd"}
    THEN [JsonResponse(e.status) EXCEPT !.coded = e.handled # "bare", !.odd = e.handled = "odd"]
    ELSE Default(Converted(e), Challenge(e, authenticators))

\* Sanic's answer when ErrorHandler.response raises.
PlainError == [JsonResponse(500) EXCEPT !.coded = FALSE]

BugExceptionForgotten(e, authenticators) ==
    IF HandlerFails(e) THEN HandleUncaughtException
    ELSE IF ~Handled(e, authenticators).coded THEN PlainError
    ELSE [Handled(e, authenticators) EXCEPT !.exception = e.type \in DOMAIN ApiStatus]

\* ErrorHandler.response; a handler that raises loses the exception, and a body
\* without an error_code loses the response.
ErrorResponse(e, authenticators) ==
    IF HandlerFails(e) THEN HandleUncaughtException
    ELSE IF ~Handled(e, authenticators).coded THEN PlainError
    ELSE [Handled(e, authenticators) EXCEPT !.exception = TRUE]

\* log_response reads name and value of the error_code, and the exception of a 5xx.
LogRaises(response) ==
    AccessLog /\ (response.odd \/ (response.status >= 500 /\ ~response.exception))

\* What the client is sent for one response.
Written(response) ==
    IF LogRaises(response)
    THEN <<response, ErrorResponse(Raising("sanic.ServerError", 500), <<>>)>>
    ELSE <<response>>
=============================================================================
