----------------------------- MODULE MCPipeline -----------------------------
(***************************************************************************)
(* One request that may be anything of interest, next to one of a          *)
(* signed-in user in the same process.                                     *)
(***************************************************************************)
EXTENDS Pipeline

CONSTANTS r1, r2, ada, eve

Id(name) == [of |-> name, text |-> FALSE]

Silent == [words |-> 0, prefix |-> "other", token |-> "sound", payload |-> [id |-> NoId, level |-> 0],
           aud |-> SERVICE_NAME, forwarded |-> Nothing, consumer |-> TRUE]

Bearer(name, level) == [Silent EXCEPT !.words = 2, !.prefix = "jwt",
                                      !.payload = [id |-> Id(name), level |-> level]]
Service(forwarded) == [Silent EXCEPT !.words = 2, !.prefix = "service", !.forwarded = forwarded]

View(permission, throttles) ==
    [eager |-> TRUE, authenticators |-> <<"service", "jwt">>, permissions |-> <<permission>>,
     throttles |-> throttles, deprecated |-> FALSE, user_id |-> ada]
Ordinary == View("IsAuthenticated", 0)
Lazy == [View("AllowAny", 2) EXCEPT !.eager = FALSE]

Old(view) == [view EXCEPT !.deprecated = TRUE]

Input(view, method, sent) == [view |-> view, method |-> method, sent |-> sent, id |-> Nothing]

Forwarded(name, level, flag) == [id |-> name, level |-> level, flag |-> flag]

\* A flag that is no integer, and matters only for an active user.
Odd == Service(Forwarded(ada, 100, Broken))

OldView == Old(View("IsAuthenticated", 1))

Strangers == {
    Silent, Bearer(ada, 10), [Bearer(ada, 100) EXCEPT !.words = 3],
    [Bearer(ada, 100) EXCEPT !.token = "invalid"], Service(Broken),
    [Service(Nothing) EXCEPT !.token = "short"], [Service(Nothing) EXCEPT !.aud = "other"],
    [Service(Forwarded(ada, 100, TRUE)) EXCEPT !.consumer = FALSE],
    Odd, Service(Forwarded(ada, 10, Broken))}

MCInputs == [r \in Requests |->
    IF r = r2 THEN {Input(OldView, "GET", Bearer(eve, 1000))}
    ELSE {Input(OldView, m, Bearer(ada, 100)) : m \in {"GET", "POST"}}
       \cup {Input(OldView, "GET", Service(Forwarded(ada, 100, TRUE))),
             Input(Old([Lazy EXCEPT !.throttles = 0]), "GET", Bearer(ada, 10)),
             Input(Old([Lazy EXCEPT !.throttles = 1]), "GET", Bearer(ada, 100)),
             Input(Lazy, "GET", Bearer(ada, 10))}
       \cup {Input(Ordinary, "GET", s) : s \in Strangers}
       \cup {[Input(View("IsOwnerOrAdmin", 1), "GET", s) EXCEPT !.id = "trace"] :
               s \in {Bearer(ada, 100), Service(Forwarded(ada, 100, TRUE))}}
       \cup {Input(View(p, 0), "POST", s) : s \in {Silent, Service(Nothing)},
               p \in {"IsAdminUser", "IsAuthenticatedOrReadOnly", "IsAnonymousUser", "IsServiceOnly"}}
       \cup {Input(v, "GET", Odd) :
               v \in {Lazy, [Lazy EXCEPT !.throttles = 0], Old([Lazy EXCEPT !.throttles = 0])}}
       \cup {Input([Ordinary EXCEPT !.authenticators = a], "GET", Silent) :
               a \in {<<>>, <<"base">>, <<"jwt", "service">>}}
       \cup {Input([Ordinary EXCEPT !.authenticators = <<"jwt">>], "GET", Bearer(ada, 10)),
             Input(Nothing, "GET", Silent)}]

MCExceptions == [r \in Requests |-> IF r = r2 THEN {} ELSE
    {Uncaught, ApiException("BadRequest"), Raising("APIException", 418),
     [ApiException("MethodNotAllowed") EXCEPT !.positional = FALSE],
     Raising("sanic.InvalidUsage", 400), Raising("sanic.MethodNotSupported", 405)}
    \cup {[Raising("Exception", 500) EXCEPT !.handled = h] : h \in {"coded", "bare", "odd", "nothing", "raises"}}
    \cup {[ApiException("BadRequest") EXCEPT !.handled = "odd"]}]
=============================================================================
