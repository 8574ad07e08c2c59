--------------------------- MODULE Authentication ---------------------------
(***************************************************************************)
(* Who a request is from (insanic/authentication, models.py and            *)
(* permissions.py), as functions of what the client has sent: the user and *)
(* the service each authentication class finds, and the permissions that   *)
(* read them.                                                              *)
(*                                                                         *)
(* The credentials of a request are a record of                            *)
(*   words      how many words its Authorization header has                *)
(*   prefix     the first of them: "jwt", "service" or something else      *)
(*   token      what PyJWT makes of the second: "invalid" (any             *)
(*              InvalidTokenError), "sound", or "short" if the payload     *)
(*              lacks something that RequestService takes                  *)
(*   payload    the [id, level] a user's token holds                       *)
(*   aud        the service a service's token is for; where it is verified *)
(*              a token for another service is "invalid" already           *)
(*   forwarded  the [id, level, flag] in INTERNAL_REQUEST_USER_HEADER,     *)
(*              Nothing without one, or Broken if it does not parse; its   *)
(*              id is a text, its flag Broken if it is no integer          *)
(*   consumer   FALSE for Kong's anonymous consumer (x-anonymous-consumer) *)
(*                                                                         *)
(* PyJWT is external.                                                      *)
(***************************************************************************)
EXTENDS Integers, Sequences

CONSTANTS
    SERVICE_NAME,      \* this service
    JWT_AUTH_VERIFY,   \* whether users' tokens are to be verified
    Nothing,           \* None
    Refused,           \* AuthenticationFailed is raised
    Broken             \* anything that is no APIException is raised

ASSUME AuthenticationAssumption == JWT_AUTH_VERIFY \in BOOLEAN

ACTIVE == 100
STAFF == 1000

\* An id is a text, or whatever a user's token has for it.
NoId == [of |-> "", text |-> TRUE]

(* models.py                                                               *)

User(id, level, flag) ==
    [id |-> id, level |-> level, flag |-> flag, anonymous |-> FALSE]

AnonymousUser == [id |-> NoId, level |-> -1, flag |-> FALSE, anonymous |-> TRUE]

IsStaff(user) == user.level >= STAFF
IsActive(user) == user.level >= ACTIVE
UserIsAuthenticated(user) == IsActive(user) /\ user.flag

\* The flag becomes an integer when it is read, and only an active user's is read.
Unreadable(user) == IsActive(user) /\ user.flag = Broken

\* dict(user): what a task's context and a forwarded header hold of a user, if
\* that user is readable.
DictOf(user) ==
    [id |-> user.id, level |-> user.level, flag |-> UserIsAuthenticated(user)]

\* to_header_value: every part becomes a text.
HeaderOf(dict) == [dict EXCEPT !.id.text = TRUE]

AnonymousRequestService == [source |-> "", aud |-> "", authenticated |-> FALSE]

RequestService(aud) == [source |-> "caller", aud |-> aud, authenticated |-> TRUE]

IsValid(service) == service.aud = SERVICE_NAME /\ service.authenticated

Anonymous ==
    [authenticator |-> Nothing, user |-> AnonymousUser, service |-> AnonymousRequestService]

\* An identity is half when dict(user) raises: the authenticator and the user are set.
Half(identity) == [identity EXCEPT !.service = Nothing]
IsWhole(identity) == identity # Nothing /\ identity.service # Nothing

\* What stands for None and for an exception is nothing else.
ASSUME SentinelAssumption ==
    /\ Refused # Broken
    /\ Nothing \notin {Refused, Broken}
    /\ Anonymous \notin {Nothing, Refused, Broken}
    /\ AnonymousRequestService # Nothing

(* The authentication classes: an identity, Nothing, Refused or Broken.    *)

\* get_jwt_value.
TokenOf(scheme, sent) ==
    IF sent.words = 0 \/ sent.prefix # scheme THEN Nothing
    ELSE IF sent.words = 2 THEN sent.token ELSE Refused

\* jwt_decode_handler needs a key to verify, and is called without one.
CannotVerify(scheme) == scheme = "jwt" /\ JWT_AUTH_VERIFY

TryDecode(scheme, token) ==
    IF CannotVerify(scheme) THEN Broken
    ELSE IF token = "invalid" THEN Refused
    ELSE IF token = "short" /\ scheme = "service" THEN Broken
    ELSE "sound"

UserCredentials(sent) ==
    LET user == User(sent.payload.id, sent.payload.level, TRUE)
    IN IF IsActive(user)
       THEN [authenticator |-> "jwt", user |-> user, service |-> AnonymousRequestService]
       ELSE Refused

\* The user the calling service forwards, by default one without a name.
ForwardedUser(sent) ==
    IF sent.forwarded = Nothing THEN User(NoId, -1, FALSE)
    ELSE User([of |-> sent.forwarded.id, text |-> TRUE], sent.forwarded.level,
              sent.forwarded.flag)

ServiceCredentials(sent) ==
    IF sent.forwarded = Broken THEN Broken
    ELSE IF ~IsValid(RequestService(sent.aud)) THEN Refused
    ELSE [authenticator |-> "service", user |-> ForwardedUser(sent),
          service |-> RequestService(sent.aud)]

\* authenticate; BaseAuthentication does not implement it.
Authenticate(scheme, sent) ==
    IF scheme = "base" THEN Broken
    ELSE IF TokenOf(scheme, sent) \in {Nothing, Refused} THEN TokenOf(scheme, sent)
    ELSE IF ~sent.consumer THEN Nothing
    ELSE IF TryDecode(scheme, sent.token) # "sound" THEN TryDecode(scheme, sent.token)
    ELSE IF scheme = "jwt" THEN UserCredentials(sent) ELSE ServiceCredentials(sent)

(* permissions.py.  The view's url may name a user, in a text.             *)

SAFE_METHODS == {"GET", "HEAD", "OPTIONS"}

HasPermission(permission, identity, method, user_id) ==
    LET user == identity.user
    IN CASE permission = "AllowAny" -> TRUE
         [] permission = "IsAuthenticated" -> ~user.anonymous /\ UserIsAuthenticated(user)
         [] permission = "IsAdminUser" -> ~user.anonymous /\ IsStaff(user)
         [] permission = "IsAuthenticatedOrReadOnly" -> method \in SAFE_METHODS \/ ~user.anonymous
         [] permission = "IsOwnerOrAdmin" -> IsStaff(user) \/ user.id = [of |-> user_id, text |-> TRUE]
         [] permission = "IsAnonymousUser" -> user.anonymous
         [] permission = "IsServiceOnly" -> identity.service.authenticated

\* Whether it reads request.user or request.service at all.
ReadsIdentity(permission) == permission # "AllowAny"
=============================================================================
