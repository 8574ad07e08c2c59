--------------------------- MODULE PipelineProofs ---------------------------
(***************************************************************************)
(* Proofs about Pipeline.                                                  *)
(*                                                                         *)
(* A step moves one request, so the invariant is a conjunction over the    *)
(* requests (RequestOK) of what is known of one: how far it has come, that *)
(* it is whoever its credentials say since somebody first asked, what its  *)
(* tasks have in their contexts and why it has failed.  The calls and the  *)
(* table of deprecated calls are shared, and have invariants of their own. *)
(***************************************************************************)
EXTENDS Pipeline, DeprecationProofs, SequenceTheorems, WellFoundedInduction, TLAPS

Untouched(r) ==
    /\ input[r] = Nothing /\ identity[r] = Nothing /\ refusals[r] = 0
    /\ failure[r] = Nothing /\ responses[r] = <<>>
    /\ r \notin entered
    /\ \A n \in 1..MaxThrottles : throttle[r][n] = "none"
    /\ \A n \in 0..MaxThrottles : context[<<r, n>>] = NoContext

\* How far a request has come.
StageOK(r) ==
    /\ phase[r] = "new" => Untouched(r)
    /\ phase[r] # "new" => input[r] \in Inputs[r]
    /\ phase[r] = "throttling" => r \notin entered
    /\ phase[r] = "handling" => r \in entered
    /\ r \in child => r \in entered
    /\ phase[r] \in {"throttling", "handling"} => failure[r] = Nothing /\ responses[r] = <<>>
    /\ phase[r] = "throttling" \/ r \in entered => input[r].view # Nothing
    /\ phase[r] = "throttling" => input[r].view.throttles # 0
    /\ phase[r] = "raised" => failure[r] # Nothing /\ responses[r] = <<>>
    /\ phase[r] = "responded" => failure[r] # Nothing \/ r \in entered
    /\ \A n \in 1..MaxThrottles :
          throttle[r][n] # "none" => input[r].view # Nothing /\ n \in 1..input[r].view.throttles

\* Who a request is from, once somebody has asked.
Whom(i) ==
    IF Found(i) = Refused THEN Anonymous
    ELSE IF Breaks(Found(i)) THEN Half(Found(i)) ELSE Found(i)

IdentityOK(r) ==
    /\ identity[r] # Nothing => Found(input[r]) # Broken /\ identity[r] = Whom(input[r])
    /\ refusals[r] = IF identity[r] # Nothing /\ Found(input[r]) = Refused THEN 1 ELSE 0

\* No throttle is asked and no handler called but for the entitled.
Admitted(r) == r \in entered \/ \E n \in 1..MaxThrottles : throttle[r][n] # "none"

AdmissionOK(r) ==
    /\ Admitted(r) => Entitled(r)
    /\ r \in entered => Results(r) \subseteq {"allowed"}

\* The context of the task of a request has its id, and its user if somebody has
\* asked in that task or, for a task of its own, in the task itself.
ContextOK(r) ==
    /\ input[r] # Nothing => context[<<r>>].correlation = RequestId(r)
    /\ \A n \in 0..MaxThrottles : context[<<r, n>>].correlation = Nothing
    /\ \A t \in {<<r>>} \cup ({r} \X (0..MaxThrottles)) :
          input[r] # Nothing /\ context[t].user # Nothing =>
             IsWhole(identity[r]) /\ context[t].user = DictOf(identity[r].user)
    /\ Admitted(r) /\ Authenticates(input[r].view) =>
          IsWhole(identity[r]) /\ context[<<r>>].user = DictOf(identity[r].user)

\* Why a request has failed before its handler was called.
TurnedAway(r) ==
    \/ input[r].view = Nothing /\ failure[r] = Raising("sanic.NotFound", 404)
    \/ /\ failure[r] = ApiException("AuthenticationFailed")
       /\ identity[r] # Nothing /\ Found(input[r]) = Refused
    \/ /\ failure[r] \in {ApiException("NotAuthenticated"), ApiException("PermissionDenied")}
       /\ IsWhole(identity[r]) /\ Found(input[r]) # Refused
       /\ failure[r] = PermissionDenied(identity[r])
    \/ /\ failure[r] = Uncaught
       /\ input[r].view # Nothing
       /\ "failed" \in Results(r) \/ CannotTell(input[r])
    \/ /\ input[r].view # Nothing /\ "denied" \in Results(r)
       /\ \E wait \in Waits : failure[r] = Throttled(wait)

FailureOK(r) ==
    failure[r] # Nothing =>
        \/ failure[r] = Raising("sanic.ServiceUnavailable", 503)
        \/ r \notin entered /\ TurnedAway(r)
        \/ r \in entered /\ failure[r] \in Exceptions[r] \cup {ApiException("AuthenticationFailed"), Uncaught}

ResponseOK(r) ==
    phase[r] = "responded" =>
        IF failure[r] # Nothing
        THEN responses[r] = Written(ErrorResponse(failure[r], Authenticators(input[r])))
        ELSE \E status \in Returned :
                responses[r] = Written([JsonResponse(status) EXCEPT !.coded = FALSE])

RequestOK(r) ==
    /\ StageOK(r)
    /\ IdentityOK(r)
    /\ AdmissionOK(r)
    /\ ContextOK(r)
    /\ FailureOK(r)
    /\ ResponseOK(r)

StatesOK ==
    /\ phase \in [Requests -> Phases]
    /\ DOMAIN input = Requests
    /\ DOMAIN identity = Requests
    /\ refusals \in [Requests -> Nat]
    /\ DOMAIN context = Tasks
    /\ \A t \in Tasks : DOMAIN context[t] = {"user", "correlation"}
    /\ throttle \in [Requests -> [1..MaxThrottles -> Consultations]]
    /\ child \subseteq Requests
    /\ entered \subseteq Requests
    /\ DOMAIN failure = Requests
    /\ DOMAIN responses = Requests

\* Calls are made for requests whose handler has been called.
CallsOK ==
    /\ \A c \in calls : c.request \in entered \cup {Nothing}
    /\ IdentityTravels

PipelineInv ==
    /\ StatesOK
    /\ \A r \in Requests : RequestOK(r)
    /\ CallsOK
-----------------------------------------------------------------------------
(* Operators.                                                              *)

\* FiniteSetsExt!Min is what its name says.
LEMMA MinIsLeast ==
    ASSUME NEW S \in SUBSET Nat, S # {}
    PROVE  Min(S) \in S /\ \A n \in S : Min(S) <= n
<1>1. \E x \in S : \A y \in S : ~(<<y, x>> \in OpToRel(<, Nat))
  BY NatLessThanWellFounded, WFMin
<1>2. \A x, y \in S : x < y => <<x, y>> \in OpToRel(<, Nat)
  BY Zenon DEF OpToRel
<1>3. \E x \in S : \A y \in S : ~(y < x)
  BY <1>1, <1>2, Zenon
<1>4. \E x \in S : \A y \in S : x <= y
  BY <1>3
<1>5. QED
  BY <1>4 DEF Min

\* _authenticate finds an identity of the credentials, or raises.
LEMMA FoundIsIdentity ==
    ASSUME NEW r \in Requests, NEW i \in Inputs[r]
    PROVE  /\ Found(i) # Nothing
           /\ Found(i) \in Identities(i) \cup {Refused, Broken}
<1> DEFINE asked == Authenticators(i)
           said == [n \in DOMAIN asked |-> Authenticate(asked[n], i.sent)]
           heard == {n \in DOMAIN said : said[n] # Nothing}
<1>1. asked \in Seq({"base", "jwt", "service"})
  BY PipelineAssumption DEF Authenticators
<1>2. heard \subseteq Nat
  BY <1>1
<1>3. CASE heard = {}
  BY <1>3, SentinelAssumption DEF Found, Identities
<1>4. CASE heard # {}
  <2>1. PICK n \in heard : Found(i) = said[n]
    <3>1. Min(heard) \in heard
      BY <1>2, <1>4, MinIsLeast
    <3>2. QED
      BY <1>4, <3>1 DEF Found
  <2>2. said[n] = Authenticate(asked[n], i.sent) /\ asked[n] \in {"base", "jwt", "service"}
    BY <1>1
  <2>3. Authenticate("base", i.sent) = Broken
    BY DEF Authenticate
  <2>4. QED
    BY <2>1, <2>2, <2>3 DEF Identities
<1>5. QED
  BY <1>3, <1>4

\* The authentication classes find identities, or one of what is none.
LEMMA AuthenticateFinds ==
    ASSUME NEW i, NEW who \in Identities(i) \ Sentinels
    PROVE  DOMAIN who = {"authenticator", "user", "service"}
<1>1. DOMAIN Anonymous = {"authenticator", "user", "service"}
  BY DEF Anonymous
<1>2. ASSUME NEW scheme \in {"jwt", "service"}, who = Authenticate(scheme, i.sent)
      PROVE  who \in {UserCredentials(i.sent), ServiceCredentials(i.sent)}
  <2>1. TryDecode(scheme, i.sent.token) # "sound" =>
           TryDecode(scheme, i.sent.token) \in {Refused, Broken}
    BY DEF TryDecode
  <2>2. QED
    BY <1>2, <2>1 DEF Authenticate, Sentinels
<1>3. CASE who = UserCredentials(i.sent)
  BY <1>3 DEF UserCredentials, Sentinels
<1>4. CASE who = ServiceCredentials(i.sent)
  BY <1>4 DEF ServiceCredentials, Sentinels
<1>5. QED
  BY <1>1, <1>2, <1>3, <1>4 DEF Identities, Sentinels

\* A request that has been asked is somebody; in half, if its user breaks, and
\* otherwise its context entry is one.
LEMMA WhomIsSomebody ==
    ASSUME NEW r \in Requests, NEW i \in Inputs[r], Found(i) # Broken
    PROVE  /\ Whom(i) \in Settlements(i) /\ Whom(i) # Nothing
           /\ IsWhole(Whom(i)) <=> ~CannotTell(i)
           /\ IsWhole(Whom(i)) => DictOf(Whom(i).user) # Nothing
           /\ Found(i) = Refused => ~CannotTell(i) /\ IsWhole(Whom(i))
<1>1. /\ \A who \in Identities(i) \ Sentinels :
            /\ IsWhole(who) /\ Half(who) # Nothing
            /\ ~Breaks(who) => DictOf(who.user) # Nothing
      /\ Anonymous \in Identities(i) \ Sentinels
  BY PipelineAssumption, SentinelAssumption DEF Identities, Sentinels
<1>2. ~Breaks(Anonymous)
  <2>1. ~IsActive(AnonymousUser)
    BY DEF IsActive, AnonymousUser, ACTIVE
  <2>2. QED
    BY <2>1 DEF Breaks, Unreadable, Anonymous
<1>3. PICK found : found = Found(i)
  OBVIOUS
<1>4. CASE found = Refused
  <2>1. Whom(i) = Anonymous /\ ~CannotTell(i)
    BY <1>3, <1>4, SentinelAssumption DEF Whom, CannotTell, Breaks, Sentinels
  <2>2. Whom(i) \in Settlements(i)
    BY <1>1, <1>2, <2>1 DEF Settlements
  <2>3. IsWhole(Whom(i)) /\ DictOf(Whom(i).user) # Nothing /\ Whom(i) # Nothing
    BY <1>1, <1>2, <2>1 DEF IsWhole
  <2>4. QED
    BY <2>1, <2>2, <2>3
<1>5. CASE found # Refused
  <2>1. found \in Identities(i) \ Sentinels
    BY <1>3, <1>5, FoundIsIdentity DEF Sentinels
  <2>2. Whom(i) = IF Breaks(found) THEN Half(found) ELSE found
    BY <1>3, <1>5 DEF Whom
  <2>3. CannotTell(i) <=> Breaks(found)
    BY <1>3 DEF CannotTell
  <2>4. Whom(i) \in Settlements(i)
    BY <2>1, <2>2 DEF Settlements
  <2>5. CASE Breaks(found)
    <3>1. found.service # Nothing /\ Half(found) = [found EXCEPT !.service = Nothing]
          /\ Half(found) # Nothing
      BY <1>1, <2>1 DEF IsWhole, Half
    <3>2. ~IsWhole(Half(found))
      BY <2>1, <3>1, AuthenticateFinds DEF IsWhole
    <3>3. QED
      BY <1>3, <1>5, <2>2, <2>3, <2>4, <2>5, <3>1, <3>2
  <2>6. CASE ~Breaks(found)
    BY <1>1, <1>3, <1>5, <2>1, <2>2, <2>3, <2>4, <2>6 DEF IsWhole
  <2>7. QED
    BY <2>5, <2>6
<1>6. QED
  BY <1>4, <1>5

\* The lineages of the tasks in which the application runs.
LEMMA Lineages ==
    ASSUME NEW r, NEW n
    PROVE  /\ Len(<<r>>) = 1 /\ Len(<<r, n>>) = 2
           /\ Lineage(<<>>) = {}
           /\ Lineage(<<r>>) = {<<r>>}
           /\ Lineage(<<r, n>>) = {<<r>>, <<r, n>>}
<1>1. <<r>> \in Seq({r}) /\ Len(<<r>>) = 1
  OBVIOUS
<1>2. <<r, n>> \in Seq({r, n}) /\ Len(<<r, n>>) = 2
  OBVIOUS
<1>3. SubSeq(<<r>>, 1, 1) = <<r>>
  BY <1>1, SubSeqFull
<1>4. SubSeq(<<r, n>>, 1, 2) = <<r, n>>
  BY <1>2, SubSeqFull
<1>5. SubSeq(<<r, n>>, 1, 1) = <<r>>
  <2>1. /\ SubSeq(<<r, n>>, 1, 1) \in Seq({r, n})
        /\ Len(SubSeq(<<r, n>>, 1, 1)) = 1
        /\ SubSeq(<<r, n>>, 1, 1)[1] = r
    <3>1. \A j \in 1..1 : <<r, n>>[j] \in {r, n}
      BY <1>2
    <3>2. <<r, n>>[1] = r /\ 1 \in 1..1
      OBVIOUS
    <3>3. SubSeq(<<r, n>>, 1, 1)[1] = <<r, n>>[1 + 1 - 1]
      BY <3>1, <3>2, SubSeqProperties
    <3>4. SubSeq(<<r, n>>, 1, 1) \in Seq({r, n})
      BY <3>1, SubSeqProperties
    <3>5. Len(SubSeq(<<r, n>>, 1, 1)) = 1 - 1 + 1
      BY <3>1, SubSeqProperties
    <3>6. QED
      BY <3>2, <3>3, <3>4, <3>5
  <2>2. <<r>> \in Seq({r, n}) /\ Len(<<r>>) = 1 /\ <<r>>[1] = r
    OBVIOUS
  <2>3. \A j \in 1..Len(<<r>>) : SubSeq(<<r, n>>, 1, 1)[j] = <<r>>[j]
    BY <2>1, <2>2
  <2>4. QED
    BY <2>1, <2>2, <2>3, SeqEqual
<1>6. 1..Len(<<>>) = {} /\ 1..1 = {1} /\ 1..2 = {1, 2}
  OBVIOUS
<1>7. QED
  BY <1>1, <1>2, <1>3, <1>4, <1>5, <1>6 DEF Lineage

\* A task looks in its own map first.
LEMMA LookUp ==
    ASSUME NEW r, NEW n, NEW key, NEW default
    PROVE  /\ ContextGet(<<>>, key, default) = default
           /\ ContextGet(<<r>>, key, default) =
                 IF context[<<r>>][key] # Nothing THEN context[<<r>>][key] ELSE default
           /\ ContextGet(<<r, n>>, key, default) =
                 IF context[<<r, n>>][key] # Nothing THEN context[<<r, n>>][key]
                 ELSE ContextGet(<<r>>, key, default)
<1> DEFINE Having(t) == {a \in Lineage(t) : context[a][key] # Nothing}
           Nearest(t) == CHOOSE a \in Having(t) : \A b \in Having(t) : Len(b) <= Len(a)
<1>1. ContextGet(<<>>, key, default) = default
  BY Lineages DEF ContextGet
<1>2. Having(<<r>>) = IF context[<<r>>][key] # Nothing THEN {<<r>>} ELSE {}
  BY Lineages
<1>3. ASSUME NEW t, NEW best \in Having(t), \A a \in Having(t) \ {best} : Len(a) < Len(best),
             \A a \in Having(t) : Len(a) \in Nat
      PROVE  Nearest(t) = best
  <2> HIDE DEF Having
  <2>1. Nearest(t) \in Having(t) /\ \A b \in Having(t) : Len(b) <= Len(Nearest(t))
    BY <1>3
  <2>2. QED
    BY <1>3, <2>1
<1>4. context[<<r>>][key] # Nothing => Nearest(<<r>>) = <<r>>
  <2>1. SUFFICES ASSUME context[<<r>>][key] # Nothing
                 PROVE  Nearest(<<r>>) = <<r>>
    OBVIOUS
  <2>2. Having(<<r>>) = {<<r>>} /\ Len(<<r>>) = 1
    BY <1>2, <2>1, Lineages
  <2> HIDE DEF Having, Nearest
  <2>3. QED
    BY <1>3, <2>2
<1>10. context[<<r, n>>][key] # Nothing => Nearest(<<r, n>>) = <<r, n>>
  <2>1. SUFFICES ASSUME context[<<r, n>>][key] # Nothing
                 PROVE  Nearest(<<r, n>>) = <<r, n>>
    OBVIOUS
  <2>2. /\ <<r, n>> \in Having(<<r, n>>)
        /\ Having(<<r, n>>) \subseteq {<<r>>, <<r, n>>}
        /\ Len(<<r>>) = 1 /\ Len(<<r, n>>) = 2
    BY <2>1, Lineages
  <2> HIDE DEF Having, Nearest
  <2>3. QED
    BY <1>3, <2>2
<1>5. context[<<r, n>>][key] = Nothing => Having(<<r, n>>) = Having(<<r>>)
  BY Lineages
<1>6. ASSUME NEW t
      PROVE  ContextGet(t, key, default) =
                IF Having(t) = {} THEN default ELSE context[Nearest(t)][key]
  BY DEF ContextGet
<1>7. context[<<r, n>>][key] # Nothing => Having(<<r, n>>) # {}
  BY Lineages
<1> HIDE DEF Having, Nearest
<1>8. context[<<r, n>>][key] = Nothing =>
         ContextGet(<<r, n>>, key, default) = ContextGet(<<r>>, key, default)
  BY <1>5, <1>6 DEF Nearest
<1>9. QED
  BY <1>1, <1>2, <1>4, <1>6, <1>7, <1>8, <1>10
-----------------------------------------------------------------------------
(* What a step leaves as it is.                                            *)

TasksOf(r) == {<<r>>} \cup ({r} \X (0..MaxThrottles))

Same(r) ==
    /\ phase'[r] = phase[r] /\ input'[r] = input[r] /\ identity'[r] = identity[r]
    /\ refusals'[r] = refusals[r] /\ throttle'[r] = throttle[r]
    /\ failure'[r] = failure[r] /\ responses'[r] = responses[r]
    /\ (r \in child' <=> r \in child) /\ (r \in entered' <=> r \in entered)
    /\ \A t \in TasksOf(r) : context'[t] = context[t]

\* Requests do not share a task.
LEMMA TaskNames ==
    ASSUME NEW r \in Requests, NEW q \in Requests, q # r
    PROVE  TasksOf(r) \subseteq Tasks /\ TasksOf(q) \cap TasksOf(r) = {}
  BY DEF TasksOf, Tasks

\* A request of which nothing changes is still in order.
LEMMA SameIsOK ==
    ASSUME NEW r \in Requests, RequestOK(r), Same(r)
    PROVE  RequestOK(r)'
<1> USE DEF Same, TasksOf
<1>1. StageOK(r)'
  BY DEF RequestOK, StageOK, Untouched
<1>2. IdentityOK(r)'
  BY DEF RequestOK, IdentityOK
<1>3. AdmissionOK(r)'
  BY DEF RequestOK, AdmissionOK, Admitted, Entitled, Results
<1>4. ContextOK(r)'
  BY DEF RequestOK, ContextOK, RequestId, Admitted
<1>5. FailureOK(r)'
  BY DEF RequestOK, FailureOK, TurnedAway, Results
<1>6. ResponseOK(r)'
  BY DEF RequestOK, ResponseOK
<1>7. QED
  BY <1>1, <1>2, <1>3, <1>4, <1>5, <1>6 DEF RequestOK

\* Whose handler has been called keeps its input and its identity.
Stays(r) ==
    r \in entered => /\ r \in entered' /\ input'[r] = input[r]
                     /\ identity[r] # Nothing => identity'[r] = identity[r]

\* Calls that were made stay right while identities are settled only once.
LEMMA OldCallsAreOK ==
    ASSUME PipelineInv, \A r \in Requests : Stays(r),
           NEW c \in calls
    PROVE  /\ c.request \in entered' \cup {Nothing}
           /\ LET nobody == HeaderOf(DictOf(AnonymousUser))
                  r == c.request
              IN IF r = Nothing THEN c.user = nobody
                 ELSE /\ c.correlation = RequestId(r)'
                      /\ \/ c.user = nobody /\ ~Authenticates(input'[r].view)
                         \/ IsWhole(identity'[r]) /\ c.user = HeaderOf(DictOf(identity'[r].user))
  BY DEF PipelineInv, StatesOK, CallsOK, IdentityTravels, Stays, RequestId, IsWhole

\* A step of one request that makes no call.
LEMMA OneMoves ==
    ASSUME PipelineInv, NEW r \in Requests,
           \A q \in Requests \ {r} : Same(q),
           StatesOK', RequestOK(r)', Stays(r), UNCHANGED calls
    PROVE  PipelineInv'
<1>1. \A q \in Requests : RequestOK(q)'
  BY SameIsOK DEF PipelineInv
<1>2. \A q \in Requests : Stays(q)
  BY DEF Stays, Same
<1>3. CallsOK'
  BY <1>2, OldCallsAreOK DEF CallsOK, IdentityTravels
<1>4. QED
  BY <1>1, <1>3 DEF PipelineInv
-----------------------------------------------------------------------------
(* Accessing request.user, service or auth.                                *)

\* The exceptions that authentication, permissions and throttles raise are some.
LEMMA ExceptionsAreSome ==
    /\ ApiException("AuthenticationFailed") # Nothing
    /\ Uncaught # Nothing
    /\ Raising("sanic.NotFound", 404) # Nothing
    /\ Raising("sanic.ServiceUnavailable", 503) # Nothing
    /\ \A who : PermissionDenied(who) # Nothing
    /\ \A wait \in Waits : Throttled(wait) # Nothing
    /\ \A r \in Requests : \A e \in Exceptions[r] : e # Nothing
<1>1. /\ ApiStatus["AuthenticationFailed"] = 401 /\ ApiStatus["NotAuthenticated"] = 401
      /\ ApiStatus["PermissionDenied"] = 403 /\ ApiStatus["Throttled"] = 429
  BY DEF ApiStatus
<1>2. \A type \in {"AuthenticationFailed", "NotAuthenticated", "PermissionDenied", "Throttled"} :
         ApiException(type) \in AnyException
  BY <1>1 DEF ApiException, Raising, AnyException, ApiStatus
<1>3. \A who : PermissionDenied(who) \in AnyException
  BY <1>2 DEF PermissionDenied
<1>4. \A wait \in Waits : Throttled(wait) \in AnyException
  BY <1>2, PipelineAssumption DEF Throttled, AnyException
<1>5. Uncaught \in AnyException /\ Raising("sanic.NotFound", 404) \in AnyException
      /\ Raising("sanic.ServiceUnavailable", 503) \in AnyException
  BY DEF Uncaught, Raising, AnyException, SanicTypes
<1>6. QED
  BY <1>2, <1>3, <1>4, <1>5, PipelineAssumption

\* What a first access raises, and who the request is after it.
LEMMA AccessOutcome ==
    ASSUME NEW r \in Requests, NEW i \in Inputs[r],
           NEW attribute \in Attributes,
           identity[r] # Nothing => Found(i) # Broken /\ identity[r] = Whom(i)
    PROVE  /\ identity[r] # Nothing => Settled(r, i) = identity[r]
           /\ Settled(r, i) # Nothing => Found(i) # Broken /\ Settled(r, i) = Whom(i)
           /\ AccessRaises(r, i, attribute) = Nothing /\ identity[r] = Nothing =>
                 IsWhole(Settled(r, i)) /\ Found(i) # Refused
           /\ AccessRaises(r, i, attribute) # Nothing =>
                 \/ /\ AccessRaises(r, i, attribute) = ApiException("AuthenticationFailed")
                    /\ Found(i) = Refused /\ Settled(r, i) # Nothing
                 \/ AccessRaises(r, i, attribute) = Uncaught /\ CannotTell(i)
           /\ identity[r] = Nothing /\ Found(i) = Refused => Settled(r, i) # Nothing
           /\ DictOf(Settled(r, i).user) # Nothing \/ ~IsWhole(Settled(r, i))
<1>1. /\ Found(i) # Nothing
      /\ Found(i) # Broken =>
            /\ Whom(i) # Nothing
            /\ IsWhole(Whom(i)) <=> ~CannotTell(i)
            /\ IsWhole(Whom(i)) => DictOf(Whom(i).user) # Nothing
            /\ Found(i) = Refused => ~CannotTell(i) /\ IsWhole(Whom(i))
  BY FoundIsIdentity, WhomIsSomebody
<1>2. Settled(r, i) = IF identity[r] # Nothing THEN identity[r]
                      ELSE IF Found(i) = Broken THEN Nothing ELSE Whom(i)
  BY SentinelAssumption DEF Settled, Whom
<1>3. Found(i) = Broken => CannotTell(i) /\ Found(i) # Refused
  BY SentinelAssumption DEF CannotTell
<1>4. ~IsWhole(Nothing)
  BY DEF IsWhole
<1>5. QED
  BY <1>1, <1>2, <1>3, <1>4, ExceptionsAreSome DEF AccessRaises

\* What it changes.
LEMMA AccessEffect ==
    ASSUME StatesOK, NEW r \in Requests, NEW t \in TasksOf(r), NEW i \in Inputs[r], NEW map,
           DOMAIN map = {"user", "correlation"},
           identity[r] # Nothing => Found(i) # Broken /\ identity[r] = Whom(i),
           Access(r, t, i, map)
    PROVE  /\ DOMAIN identity' = Requests /\ refusals' \in [Requests -> Nat]
           /\ DOMAIN context' = Tasks /\ \A u \in Tasks : DOMAIN context'[u] = {"user", "correlation"}
           /\ \A q \in Requests \ {r} : identity'[q] = identity[q] /\ refusals'[q] = refusals[q]
           /\ identity'[r] = Settled(r, i)
           /\ refusals'[r] = refusals[r] + (IF identity[r] = Nothing /\ Found(i) = Refused THEN 1 ELSE 0)
           /\ \A u \in Tasks \ {t} : context'[u] = context[u]
           /\ context'[t].correlation = map.correlation
           /\ context'[t].user = IF identity[r] = Nothing /\ IsWhole(Settled(r, i))
                                 THEN DictOf(Settled(r, i).user) ELSE map.user
<1>1. t \in Tasks
  BY DEF TasksOf, Tasks
<1>2. context' = [context EXCEPT ![t] =
                      IF identity[r] = Nothing /\ IsWhole(Settled(r, i))
                      THEN [map EXCEPT !.user = DictOf(Settled(r, i).user)] ELSE map]
  BY DEF Access
<1>3. /\ DOMAIN context' = Tasks
      /\ \A u \in Tasks \ {t} : context'[u] = context[u]
      /\ context'[t] = IF identity[r] = Nothing /\ IsWhole(Settled(r, i))
                       THEN [map EXCEPT !.user = DictOf(Settled(r, i).user)] ELSE map
  BY <1>1, <1>2 DEF StatesOK
<1>4. /\ DOMAIN context'[t] = {"user", "correlation"}
      /\ context'[t].correlation = map.correlation
      /\ context'[t].user = IF identity[r] = Nothing /\ IsWhole(Settled(r, i))
                            THEN DictOf(Settled(r, i).user) ELSE map.user
  BY <1>3
<1>5. /\ DOMAIN identity' = Requests /\ refusals' \in [Requests -> Nat]
      /\ \A q \in Requests \ {r} : identity'[q] = identity[q] /\ refusals'[q] = refusals[q]
      /\ identity'[r] = Settled(r, i)
      /\ refusals'[r] = refusals[r] + (IF identity[r] = Nothing /\ Found(i) = Refused THEN 1 ELSE 0)
  BY DEF Access, StatesOK
<1>6. QED
  BY <1>3, <1>4, <1>5 DEF StatesOK
-----------------------------------------------------------------------------
(* The steps of a request.                                                 *)

\* Steps that leave identity and context alone: what they have to show.
LEMMA QuietStep ==
    ASSUME PipelineInv, NEW r \in Requests,
           UNCHANGED <<input, identity, refusals, context, calls>>,
           child' \subseteq Requests, r \in child' => r \in entered,
           \A q \in Requests \ {r} :
              /\ phase'[q] = phase[q] /\ failure'[q] = failure[q] /\ responses'[q] = responses[q]
              /\ throttle'[q] = throttle[q] /\ (q \in child' <=> q \in child),
           entered' = entered, StatesOK',
           phase[r] # "new", StageOK(r)', r \in entered => Results(r)' \subseteq {"allowed"},
           \A n \in 1..MaxThrottles : throttle[r][n] = "none" <=> throttle'[r][n] = "none",
           FailureOK(r)', ResponseOK(r)'
    PROVE  PipelineInv'
<1> USE DEF PipelineInv, RequestOK
<1>1. \A q \in Requests \ {r} : Same(q)
  BY DEF Same
<1>2. IdentityOK(r)'
  BY DEF IdentityOK
<1>3. AdmissionOK(r)'
  BY DEF AdmissionOK, Admitted, Entitled
<1>4. ContextOK(r)'
  BY DEF ContextOK, Admitted, RequestId
<1>5. QED
  BY <1>1, <1>2, <1>3, <1>4, OneMoves DEF Stays

\* A task of the handler begins, with the context of its parent.
LEMMA CreateTaskStep ==
    ASSUME PipelineInv, NEW r \in Requests, CreateTask(r)
    PROVE  PipelineInv'
<1> USE DEF CreateTask, PipelineInv, RequestOK
<1>1. StatesOK'
  BY DEF StatesOK
<1>2. StageOK(r)' /\ r \in entered /\ phase[r] # "new"
  BY DEF StageOK, Untouched
<1>3. FailureOK(r)' /\ ResponseOK(r)'
  BY DEF FailureOK, TurnedAway, Results, ResponseOK
<1>4. r \in entered => Results(r)' \subseteq {"allowed"}
  BY DEF AdmissionOK, Results
<1>5. QED
  BY <1>1, <1>2, <1>3, <1>4, QuietStep DEF StatesOK

\* The handler raises.
LEMMA RaiseStep ==
    ASSUME PipelineInv, NEW r \in Requests, NEW e \in Exceptions[r], Raise(r, e)
    PROVE  PipelineInv'
<1> USE DEF Raise, Fail, PipelineInv, RequestOK
<1>1. StatesOK'
  BY DEF StatesOK, Phases
<1>2. StageOK(r)' /\ r \in entered /\ phase[r] # "new"
  <2>1. e # Nothing /\ phase'[r] = "raised" /\ failure'[r] = e
    BY ExceptionsAreSome DEF StatesOK
  <2>2. QED
    BY <2>1 DEF StageOK, Untouched, StatesOK
<1>3. FailureOK(r)' /\ ResponseOK(r)'
  BY <1>2 DEF FailureOK, ResponseOK, StatesOK
<1>4. r \in entered => Results(r)' \subseteq {"allowed"}
  BY DEF AdmissionOK, Results
<1>5. QED
  BY <1>1, <1>2, <1>3, <1>4, QuietStep DEF StatesOK, StageOK

\* The handler returns.
LEMMA ReturnStep ==
    ASSUME PipelineInv, NEW r \in Requests, NEW status \in Returned, Return(r, status)
    PROVE  PipelineInv'
<1> USE DEF Return, PipelineInv, RequestOK
<1>1. StatesOK'
  BY DEF StatesOK, Phases
<1>2. StageOK(r)' /\ r \in entered /\ phase[r] # "new"
  BY DEF StageOK, Untouched, StatesOK
<1>3. FailureOK(r)' /\ ResponseOK(r)'
  BY DEF FailureOK, ResponseOK, StageOK, StatesOK
<1>4. r \in entered => Results(r)' \subseteq {"allowed"}
  BY DEF AdmissionOK, Results
<1>5. QED
  BY <1>1, <1>2, <1>3, <1>4, QuietStep DEF StatesOK, StageOK

\* An exception becomes a response.
LEMMA RespondStep ==
    ASSUME PipelineInv, NEW r \in Requests, Respond(r)
    PROVE  PipelineInv'
<1> USE DEF Respond, PipelineInv, RequestOK
<1>1. StatesOK'
  BY DEF StatesOK, Phases
<1>2. StageOK(r)' /\ phase[r] # "new"
  BY DEF StageOK, Untouched, StatesOK
<1>3. FailureOK(r)' /\ ResponseOK(r)'
  BY DEF FailureOK, TurnedAway, Results, ResponseOK, StageOK, StatesOK
<1>4. r \in entered => Results(r)' \subseteq {"allowed"}
  BY DEF AdmissionOK, Results
<1>5. QED
  BY <1>1, <1>2, <1>3, <1>4, QuietStep DEF StatesOK, StageOK

\* A request times out, and its throttles are cancelled.
LEMMA TimeOutStep ==
    ASSUME PipelineInv, NEW r \in Requests, TimeOut(r)
    PROVE  PipelineInv'
<1> USE DEF TimeOut, Fail, PipelineInv, RequestOK
<1>1. /\ \A n \in 1..MaxThrottles :
            throttle'[r][n] = IF throttle[r][n] = "pending" THEN "cancelled" ELSE throttle[r][n]
      /\ \A q \in Requests \ {r} : throttle'[q] = throttle[q] /\ phase'[q] = phase[q]
                                   /\ failure'[q] = failure[q]
      /\ StatesOK'
  BY DEF StatesOK, Phases, Consultations
<1>2. StageOK(r)' /\ phase[r] # "new"
  <2>1. failure'[r] # Nothing /\ phase'[r] = "raised"
    BY ExceptionsAreSome DEF StatesOK
  <2>2. QED
    BY <1>1, <2>1 DEF StageOK
<1>3. FailureOK(r)' /\ ResponseOK(r)'
  BY DEF FailureOK, ResponseOK, StatesOK
<1>4. r \in entered => Results(r)' \subseteq {"allowed"}
  <2>1. ASSUME r \in entered
        PROVE  1..input[r].view.throttles \subseteq 1..MaxThrottles
    BY <2>1, PipelineAssumption DEF StageOK
  <2>2. ASSUME r \in entered, NEW n \in 1..input[r].view.throttles
        PROVE  throttle'[r][n] = "allowed"
    <3>1. throttle[r][n] = "allowed"
      BY <2>2 DEF AdmissionOK, Results
    <3>2. QED
      BY <1>1, <2>1, <2>2, <3>1
  <2>3. QED
    BY <2>2 DEF Results
<1>5. \A n \in 1..MaxThrottles : throttle[r][n] = "none" <=> throttle'[r][n] = "none"
  BY <1>1
<1>6. r \in child => r \in entered
  BY DEF StageOK
<1> HIDE DEF Fail, PipelineInv, RequestOK
<1>7. StatesOK /\ child' = child
  BY DEF PipelineInv
<1>8. QED
  BY <1>1, <1>2, <1>3, <1>4, <1>5, <1>6, <1>7, QuietStep DEF StatesOK

\* The calls of a task of request r carry its id and its user, or nobody's.
LEMMA HeadersAreOwn ==
    ASSUME PipelineInv, NEW r \in Requests, NEW t \in {<<r>>, <<r, 0>>}, r \in entered
    PROVE  LET c == InjectHeaders(r, t)
           IN /\ c.request = r /\ c.correlation = RequestId(r)
              /\ \/ c.user = HeaderOf(DictOf(AnonymousUser)) /\ ~Authenticates(input[r].view)
                 \/ IsWhole(identity[r]) /\ c.user = HeaderOf(DictOf(identity[r].user))
<1>1. /\ input[r] \in Inputs[r] /\ input[r] # Nothing
      /\ context[<<r>>].correlation = RequestId(r)
      /\ context[<<r, 0>>].correlation = Nothing
      /\ \A u \in {<<r>>, <<r, 0>>} : context[u].user # Nothing =>
            IsWhole(identity[r]) /\ context[u].user = DictOf(identity[r].user)
      /\ Authenticates(input[r].view) =>
            IsWhole(identity[r]) /\ context[<<r>>].user = DictOf(identity[r].user)
  BY PipelineAssumption
  DEF PipelineInv, RequestOK, StageOK, Untouched, ContextOK, Admitted
<1>2. RequestId(r) # Nothing
  BY PipelineAssumption DEF RequestId
<1>3. ContextCorrelationId(t) = RequestId(r)
  <2>1. t # <<>>
    OBVIOUS
  <2>2. ContextGet(t, "correlation", "unknown") = RequestId(r)
    BY <1>1, <1>2, LookUp
  <2>3. QED
    BY <2>1, <2>2 DEF ContextCorrelationId
<1>4. ASSUME Authenticates(input[r].view)
      PROVE  context[<<r>>].user # Nothing
  <2>1. Found(input[r]) # Broken /\ identity[r] = Whom(input[r])
    BY <1>1, <1>4 DEF PipelineInv, RequestOK, IdentityOK, IsWhole
  <2>2. QED
    BY <1>1, <1>4, <2>1, WhomIsSomebody
<1>5. \/ ContextUser(t) = DictOf(AnonymousUser) /\ ~Authenticates(input[r].view)
      \/ IsWhole(identity[r]) /\ ContextUser(t) = DictOf(identity[r].user)
  BY <1>1, <1>4, LookUp DEF ContextUser
<1>6. QED
  BY <1>3, <1>5 DEF InjectHeaders

\* A call carries what the context of its task holds.
LEMMA CallStep ==
    ASSUME PipelineInv, NEW r \in Requests, NEW t \in {<<r>>, <<r, 0>>}, Call(r, t)
    PROVE  PipelineInv'
<1>1. r \in entered
  <2>1. <<r>> # <<r, 0>> /\ (phase[r] = "handling" \/ r \in child)
    BY DEF Call, Running
  <2>2. QED
    BY <2>1 DEF PipelineInv, RequestOK, StageOK
<1>2. \A q \in Requests : Same(q) /\ Stays(q)
  BY DEF Call, Same, Stays
<1>3. StatesOK' /\ \A q \in Requests : RequestOK(q)'
  BY <1>2, SameIsOK DEF PipelineInv, StatesOK, Call
<1>4. CallsOK'
  <2> SUFFICES ASSUME NEW c \in calls'
               PROVE  /\ c.request \in entered' \cup {Nothing}
                      /\ LET nobody == HeaderOf(DictOf(AnonymousUser))
                             q == c.request
                         IN IF q = Nothing THEN c.user = nobody
                            ELSE /\ c.correlation = RequestId(q)'
                                 /\ \/ c.user = nobody /\ ~Authenticates(input'[q].view)
                                    \/ IsWhole(identity'[q])
                                       /\ c.user = HeaderOf(DictOf(identity'[q].user))
    BY DEF CallsOK, IdentityTravels
  <2>1. CASE c \in calls
    BY <1>2, <2>1, OldCallsAreOK
  <2>2. CASE c = InjectHeaders(r, t)
    <3>1. r # Nothing /\ RequestId(r)' = RequestId(r)
      BY PipelineAssumption DEF Call, RequestId
    <3>2. /\ c.request = r /\ c.correlation = RequestId(r)
          /\ \/ c.user = HeaderOf(DictOf(AnonymousUser)) /\ ~Authenticates(input[r].view)
             \/ IsWhole(identity[r]) /\ c.user = HeaderOf(DictOf(identity[r].user))
      BY <1>1, <2>2, HeadersAreOwn
    <3>3. UNCHANGED <<entered, input, identity>>
      BY DEF Call
    <3>4. QED
      BY <1>1, <3>1, <3>2, <3>3
  <2>3. QED
    BY <2>1, <2>2 DEF Call
<1>5. QED
  BY <1>3, <1>4 DEF PipelineInv

\* A call outside any request is nobody's.
LEMMA CallWithoutContextStep ==
    ASSUME PipelineInv, CallWithoutContext
    PROVE  PipelineInv'
<1>1. \A q \in Requests : Same(q) /\ Stays(q)
  BY DEF CallWithoutContext, Same, Stays
<1>2. StatesOK' /\ \A q \in Requests : RequestOK(q)'
  BY <1>1, SameIsOK DEF PipelineInv, StatesOK, CallWithoutContext
<1>3. /\ InjectHeaders(Nothing, <<>>).request = Nothing
      /\ InjectHeaders(Nothing, <<>>).user = HeaderOf(DictOf(AnonymousUser))
  BY LookUp DEF InjectHeaders, ContextUser
<1>4. CallsOK'
  BY <1>1, <1>3, OldCallsAreOK DEF CallsOK, IdentityTravels, CallWithoutContext
<1>5. QED
  BY <1>2, <1>4 DEF PipelineInv

\* After an access the request is still whoever its credentials say.
LEMMA AccessKeepsIdentity ==
    ASSUME PipelineInv, NEW r \in Requests, NEW t \in TasksOf(r), phase[r] # "new",
           Access(r, t, input[r], context[t]), UNCHANGED input
    PROVE  /\ IdentityOK(r)'
           /\ identity[r] # Nothing => identity'[r] = identity[r] /\ refusals'[r] = refusals[r]
           /\ DOMAIN identity' = Requests /\ refusals' \in [Requests -> Nat]
           /\ DOMAIN context' = Tasks /\ \A u \in Tasks : DOMAIN context'[u] = {"user", "correlation"}
           /\ \A q \in Requests \ {r} : identity'[q] = identity[q] /\ refusals'[q] = refusals[q]
           /\ \A u \in Tasks \ {t} : context'[u] = context[u]
           /\ context'[t].correlation = context[t].correlation
           /\ \/ context'[t].user = context[t].user
              \/ identity[r] = Nothing /\ IsWhole(identity'[r])
                 /\ context'[t].user = DictOf(identity'[r].user)
<1>1. /\ input[r] \in Inputs[r] /\ IdentityOK(r) /\ StatesOK
      /\ t \in Tasks /\ DOMAIN context[t] = {"user", "correlation"}
  BY DEF PipelineInv, RequestOK, StageOK, StatesOK, TasksOf, Tasks
<1>2. identity[r] # Nothing => Found(input[r]) # Broken /\ identity[r] = Whom(input[r])
  BY <1>1 DEF IdentityOK
<1>3. /\ DOMAIN identity' = Requests /\ refusals' \in [Requests -> Nat]
      /\ DOMAIN context' = Tasks /\ \A u \in Tasks : DOMAIN context'[u] = {"user", "correlation"}
      /\ \A q \in Requests \ {r} : identity'[q] = identity[q] /\ refusals'[q] = refusals[q]
      /\ \A u \in Tasks \ {t} : context'[u] = context[u]
      /\ identity'[r] = Settled(r, input[r])
      /\ refusals'[r] = refusals[r] + (IF identity[r] = Nothing /\ Found(input[r]) = Refused
                                        THEN 1 ELSE 0)
      /\ context'[t].correlation = context[t].correlation
      /\ context'[t].user = IF identity[r] = Nothing /\ IsWhole(Settled(r, input[r]))
                            THEN DictOf(Settled(r, input[r]).user) ELSE context[t].user
  <2>1. PICK i, map : i = input[r] /\ map = context[t]
    OBVIOUS
  <2>2. Access(r, t, i, map)
    BY <2>1
  <2>3. StatesOK /\ i \in Inputs[r] /\ DOMAIN map = {"user", "correlation"}
        /\ (identity[r] # Nothing => Found(i) # Broken /\ identity[r] = Whom(i))
    BY <1>1, <1>2, <2>1
  <2>4. /\ DOMAIN identity' = Requests /\ refusals' \in [Requests -> Nat]
        /\ DOMAIN context' = Tasks
        /\ \A u \in Tasks : DOMAIN context'[u] = {"user", "correlation"}
        /\ \A q \in Requests \ {r} : identity'[q] = identity[q] /\ refusals'[q] = refusals[q]
        /\ \A u \in Tasks \ {t} : context'[u] = context[u]
        /\ identity'[r] = Settled(r, i)
        /\ refusals'[r] = refusals[r] + (IF identity[r] = Nothing /\ Found(i) = Refused THEN 1 ELSE 0)
        /\ context'[t].correlation = map.correlation
        /\ context'[t].user = IF identity[r] = Nothing /\ IsWhole(Settled(r, i))
                              THEN DictOf(Settled(r, i).user) ELSE map.user
    BY <2>2, <2>3, AccessEffect
  <2>5. QED
    BY <2>1, <2>4
<1>4. refusals[r] \in Nat
  BY <1>1 DEF StatesOK
<1>5. /\ IdentityOK(r)'
      /\ identity[r] # Nothing => identity'[r] = identity[r] /\ refusals'[r] = refusals[r]
  <2>1. "user" \in Attributes
    BY DEF Attributes
  <2>2. QED
    BY <1>1, <1>2, <1>3, <1>4, <2>1, AccessOutcome DEF IdentityOK
<1>6. QED
  BY <1>3, <1>5

\* And whoever was entitled still is, with the same context.
LEMMA AccessKeepsRequest ==
    ASSUME PipelineInv, NEW r \in Requests, NEW t \in TasksOf(r), phase[r] # "new",
           Access(r, t, input[r], context[t]), UNCHANGED input, entered \subseteq entered'
    PROVE  /\ Admitted(r) => Entitled(r)'
           /\ (Admitted(r)' => Admitted(r)) => ContextOK(r)'
           /\ Stays(r)
<1>1. /\ Admitted(r) => Entitled(r)
      /\ ContextOK(r) /\ input[r] # Nothing
  BY PipelineAssumption DEF PipelineInv, RequestOK, AdmissionOK, StageOK
<1>2. t \in Tasks /\ TasksOf(r) \subseteq Tasks
  BY DEF TasksOf, Tasks
<1>3. /\ IsWhole(identity[r]) => identity'[r] = identity[r] /\ refusals'[r] = refusals[r]
      /\ IsWhole(identity[r]) => IsWhole(identity'[r])
      /\ identity[r] = Nothing => ~IsWhole(identity[r])
  BY AccessKeepsIdentity DEF IsWhole
<1>4. Admitted(r) => Entitled(r)'
  BY <1>1, <1>3 DEF Entitled
<1>5. /\ context'[<<r>>].correlation = context[<<r>>].correlation
      /\ \A n \in 0..MaxThrottles : context'[<<r, n>>].correlation = context[<<r, n>>].correlation
  BY <1>2, AccessKeepsIdentity DEF TasksOf
<1>6. \A u \in TasksOf(r) : context'[u].user # Nothing =>
          IsWhole(identity'[r]) /\ context'[u].user = DictOf(identity'[r].user)
  BY <1>1, <1>2, <1>3, AccessKeepsIdentity DEF ContextOK, TasksOf
<1>7. Admitted(r) /\ Authenticates(input[r].view) => context'[<<r>>].user = context[<<r>>].user
  BY <1>1, <1>2, <1>3, AccessKeepsIdentity DEF ContextOK, TasksOf
<1>8. (Admitted(r)' => Admitted(r)) => ContextOK(r)'
  BY <1>1, <1>5, <1>6, <1>7, <1>3 DEF ContextOK, RequestId, TasksOf
<1>9. QED
  BY <1>4, <1>8, AccessKeepsIdentity DEF Stays

\* Steps in which a task of the request may ask for its user.
LEMMA AskStep ==
    ASSUME PipelineInv, NEW r \in Requests, NEW t \in TasksOf(r), phase[r] # "new",
           \/ Access(r, t, input[r], context[t])
           \/ UNCHANGED <<identity, refusals, context>>,
           UNCHANGED <<input, child, calls>>,
           entered' \in {entered, entered \cup {r}}, Admitted(r)' => Admitted(r),
           phase' \in [Requests -> Phases],
           throttle' \in [Requests -> [1..MaxThrottles -> Consultations]],
           DOMAIN failure' = Requests, DOMAIN responses' = Requests,
           \A q \in Requests \ {r} :
              /\ phase'[q] = phase[q] /\ failure'[q] = failure[q] /\ responses'[q] = responses[q]
              /\ throttle'[q] = throttle[q],
           StageOK(r)', r \in entered' => Results(r)' \subseteq {"allowed"},
           FailureOK(r)', ResponseOK(r)'
    PROVE  PipelineInv'
<1>1. /\ DOMAIN identity' = Requests /\ refusals' \in [Requests -> Nat]
      /\ DOMAIN context' = Tasks /\ \A u \in Tasks : DOMAIN context'[u] = {"user", "correlation"}
      /\ \A q \in Requests \ {r} : identity'[q] = identity[q] /\ refusals'[q] = refusals[q]
      /\ \A u \in Tasks \ {t} : context'[u] = context[u]
  <2>1. CASE Access(r, t, input[r], context[t])
    BY <2>1, AccessKeepsIdentity
  <2>2. CASE UNCHANGED <<identity, refusals, context>>
    BY <2>2 DEF PipelineInv, StatesOK
  <2>3. QED
    BY <2>1, <2>2
<1>2. /\ IdentityOK(r)' /\ ContextOK(r)' /\ Stays(r)
      /\ Admitted(r) => Entitled(r)'
  <2>1. CASE Access(r, t, input[r], context[t])
    BY <2>1, AccessKeepsIdentity, AccessKeepsRequest
  <2>2. CASE UNCHANGED <<identity, refusals, context>>
    <3>1. IdentityOK(r) /\ ContextOK(r) /\ (Admitted(r) => Entitled(r))
      BY DEF PipelineInv, RequestOK, AdmissionOK
    <3>2. IdentityOK(r)' /\ Stays(r) /\ (Admitted(r) => Entitled(r)')
      BY <2>2, <3>1 DEF IdentityOK, Stays, Entitled
    <3>3. ContextOK(r)'
      BY <2>2, <3>1 DEF ContextOK, RequestId
    <3>4. QED
      BY <3>2, <3>3
  <2>3. QED
    BY <2>1, <2>2
<1>3. AdmissionOK(r)'
  BY <1>2 DEF AdmissionOK
<1>4. RequestOK(r)'
  BY <1>2, <1>3 DEF RequestOK
<1>5. StatesOK'
  BY <1>1 DEF PipelineInv, StatesOK
<1>6. \A q \in Requests \ {r} : Same(q)
  BY <1>1, TaskNames DEF Same
<1>7. QED
  BY <1>2, <1>4, <1>5, <1>6, OneMoves

\* The handler, or a task of it, asks who the user is.
LEMMA ReadUserStep ==
    ASSUME PipelineInv, NEW r \in Requests, NEW t \in {<<r>>, <<r, 0>>},
           NEW attribute \in Attributes, ReadUser(r, t, attribute)
    PROVE  PipelineInv'
<1>1. /\ RequestOK(r) /\ r \in entered /\ phase[r] # "new"
      /\ t = <<r>> => phase[r] = "handling"
      /\ input[r] \in Inputs[r]
  <2>1. <<r>> # <<r, 0>> /\ (phase[r] = "handling" \/ r \in child)
        /\ (t = <<r>> => phase[r] = "handling")
    BY DEF ReadUser, Running
  <2>2. QED
    BY <2>1 DEF PipelineInv, RequestOK, StageOK, Untouched
<1>2. t \in TasksOf(r)
  BY PipelineAssumption DEF TasksOf
<1>3. /\ Access(r, t, input[r], context[t])
      /\ UNCHANGED <<input, throttle, child, entered, calls, responses>>
  BY DEF ReadUser
<1>4. \/ UNCHANGED <<phase, failure>>
      \/ /\ phase[r] = "handling" /\ AccessRaises(r, input[r], attribute) # Nothing
         /\ Fail(r, AccessRaises(r, input[r], attribute))
  BY <1>1 DEF ReadUser
<1>5. /\ phase' \in [Requests -> Phases] /\ DOMAIN failure' = Requests
      /\ \A q \in Requests \ {r} : phase'[q] = phase[q] /\ failure'[q] = failure[q]
      /\ \/ phase'[r] = phase[r] /\ failure'[r] = failure[r]
         \/ /\ phase[r] = "handling" /\ phase'[r] = "raised"
            /\ failure'[r] = AccessRaises(r, input[r], attribute) /\ failure'[r] # Nothing
  BY <1>4 DEF Fail, PipelineInv, StatesOK, Phases
<1>6. StageOK(r)'
  BY <1>1, <1>3, <1>5 DEF RequestOK, StageOK
<1>7. FailureOK(r)'
  <2>1. AccessRaises(r, input[r], attribute) \in {Nothing, ApiException("AuthenticationFailed"), Uncaught}
    BY DEF AccessRaises
  <2>2. QED
    BY <1>1, <1>3, <1>5, <2>1 DEF RequestOK, FailureOK
<1>8. ResponseOK(r)'
  BY <1>1, <1>3, <1>5 DEF RequestOK, ResponseOK
<1>9. Results(r)' \subseteq {"allowed"} /\ Admitted(r)
  BY <1>1, <1>3 DEF RequestOK, AdmissionOK, Results, Admitted
<1>10. throttle' \in [Requests -> [1..MaxThrottles -> Consultations]] /\ DOMAIN responses' = Requests
  BY <1>3 DEF PipelineInv, StatesOK
<1>11. QED
  BY <1>1, <1>2, <1>3, <1>5, <1>6, <1>7, <1>8, <1>9, <1>10, AskStep

\* A throttle returns, and may have been the first to authenticate.
LEMMA ConsultStep ==
    ASSUME PipelineInv, NEW r \in Requests, NEW n \in 1..MaxThrottles, NEW asks \in BOOLEAN,
           NEW result \in {"allowed", "denied", "failed"}, Consult(r, n, asks, result)
    PROVE  PipelineInv'
<1> DEFINE e == IF asks THEN AccessRaises(r, input[r], "service") ELSE Nothing
           outcome == IF e # Nothing THEN "failed" ELSE result
           raised == IF e # Nothing THEN e ELSE Uncaught
<1>1. /\ RequestOK(r) /\ StatesOK /\ throttle[r][n] = "pending"
      /\ UNCHANGED <<input, child, entered, calls, responses>>
      /\ throttle' = [throttle EXCEPT ![r][n] = outcome]
      /\ IF outcome = "failed" /\ phase[r] = "throttling" THEN Fail(r, raised)
         ELSE UNCHANGED <<phase, failure>>
      /\ IF asks THEN Access(r, <<r, n>>, input[r], context[<<r, n>>])
         ELSE UNCHANGED <<identity, refusals, context>>
  BY DEF Consult, PipelineInv
<1>2. /\ outcome \in {"allowed", "denied", "failed"}
      /\ e \in {Nothing, ApiException("AuthenticationFailed"), Uncaught}
      /\ raised # Nothing
  BY ExceptionsAreSome DEF AccessRaises
<1> HIDE DEF outcome, raised
<1>3. /\ Admitted(r) /\ phase[r] # "new" /\ r \notin entered
      /\ input[r] \in Inputs[r] /\ input[r].view # Nothing
      /\ input[r].view.throttles \in 0..MaxThrottles /\ n \in 1..input[r].view.throttles
  <2>1. Admitted(r)
    BY <1>1 DEF Admitted
  <2>2. phase[r] # "new" /\ input[r] \in Inputs[r]
        /\ input[r].view # Nothing /\ n \in 1..input[r].view.throttles
    BY <1>1 DEF RequestOK, StageOK, Untouched
  <2>3. r \notin entered
    BY <1>1, <2>2 DEF RequestOK, AdmissionOK, Results
  <2>4. QED
    BY <2>1, <2>2, <2>3, PipelineAssumption
<1>4. <<r, n>> \in TasksOf(r)
  BY PipelineAssumption DEF TasksOf
<1>5. /\ phase' \in [Requests -> Phases] /\ DOMAIN failure' = Requests
      /\ \A q \in Requests \ {r} : phase'[q] = phase[q] /\ failure'[q] = failure[q]
      /\ \/ phase'[r] = phase[r] /\ failure'[r] = failure[r]
         \/ /\ outcome = "failed" /\ phase[r] = "throttling" /\ phase'[r] = "raised"
            /\ failure'[r] = raised /\ failure'[r] # Nothing
  BY <1>1, <1>2 DEF Fail, StatesOK, Phases
<1>6. /\ throttle' \in [Requests -> [1..MaxThrottles -> Consultations]]
      /\ \A q \in Requests \ {r} : throttle'[q] = throttle[q]
      /\ throttle'[r][n] = outcome
      /\ \A m \in 1..MaxThrottles : m # n => throttle'[r][m] = throttle[r][m]
  BY <1>1, <1>2 DEF StatesOK, Consultations
<1>7. StageOK(r)'
  BY <1>1, <1>3, <1>5, <1>6 DEF RequestOK, StageOK
<1>8. /\ outcome \in Results(r)'
      /\ \A x \in Results(r) : x # "pending" => x \in Results(r)'
  BY <1>1, <1>3, <1>6 DEF Results
<1>9. FailureOK(r)'
  <2>1. CASE phase'[r] = phase[r] /\ failure'[r] = failure[r]
    <3>1. identity[r] # Nothing => identity'[r] = identity[r]
      BY <1>1, <1>3, <1>4, AccessKeepsIdentity
    <3>2. TurnedAway(r) => TurnedAway(r)'
      BY <1>1, <1>3, <1>8, <2>1, <3>1 DEF TurnedAway, IsWhole
    <3>3. QED
      BY <1>1, <1>3, <2>1, <3>2 DEF RequestOK, FailureOK
  <2>2. CASE outcome = "failed" /\ failure'[r] = raised /\ e = Nothing
    <3>1. raised = Uncaught
      BY <2>2 DEF raised
    <3>2. TurnedAway(r)'
      BY <1>1, <1>3, <1>8, <2>2, <3>1 DEF TurnedAway
    <3>3. QED
      BY <1>1, <1>3, <3>2 DEF FailureOK
  <2>3. CASE failure'[r] = raised /\ e # Nothing
    <3>1. asks /\ raised = AccessRaises(r, input[r], "service") /\ AccessRaises(r, input[r], "service") # Nothing
      BY <2>3 DEF raised
    <3>2. /\ Access(r, <<r, n>>, input[r], context[<<r, n>>])
          /\ identity'[r] = Settled(r, input[r])
      BY <1>1, <3>1 DEF Access, StatesOK
    <3>3. \/ /\ raised = ApiException("AuthenticationFailed")
             /\ Found(input[r]) = Refused /\ identity'[r] # Nothing
          \/ raised = Uncaught /\ CannotTell(input[r])
      BY <1>1, <1>3, <3>1, <3>2, AccessOutcome DEF RequestOK, IdentityOK, Attributes
    <3>4. TurnedAway(r)'
      BY <1>1, <1>3, <2>3, <3>3 DEF TurnedAway
    <3>5. QED
      BY <1>1, <1>3, <3>4 DEF FailureOK
  <2>4. QED
    BY <1>5, <2>1, <2>2, <2>3
<1>10. ResponseOK(r)'
  BY <1>1, <1>5 DEF RequestOK, ResponseOK
<1>11. DOMAIN responses' = Requests
  BY <1>1 DEF StatesOK
<1>12. \/ Access(r, <<r, n>>, input[r], context[<<r, n>>])
       \/ UNCHANGED <<identity, refusals, context>>
  BY <1>1
<1>13. entered' = entered /\ r \notin entered' /\ UNCHANGED <<input, child, calls>>
       /\ responses' = responses
  BY <1>1, <1>3
<1>14. QED
  BY <1>3, <1>4, <1>5, <1>6, <1>7, <1>9, <1>10, <1>11, <1>12, <1>13, AskStep

\* All throttles have returned: the request is let in or turned away.
LEMMA GatherReturnsStep ==
    ASSUME PipelineInv, NEW r \in Requests, NEW wait \in Waits, GatherReturns(r, wait)
    PROVE  PipelineInv'
<1> DEFINE i == input[r]
<1>1. /\ RequestOK(r) /\ StatesOK /\ phase[r] = "throttling"
      /\ Results(r) \subseteq {"allowed", "denied"}
      /\ UNCHANGED <<input, throttle, child, calls, responses>>
  BY DEF GatherReturns, PipelineInv
<1>2. /\ r \notin entered /\ failure[r] = Nothing /\ responses[r] = <<>> /\ r \notin child
      /\ i \in Inputs[r] /\ i.view # Nothing /\ i.view.throttles \in 1..MaxThrottles
  BY <1>1, PipelineAssumption DEF RequestOK, StageOK
<1>3. Admitted(r)
  <2>1. throttle[r][1] \in Results(r) /\ 1 \in 1..MaxThrottles
    <3>1. 1 \in 1..input[r].view.throttles /\ 1 \in 1..MaxThrottles
      BY <1>2, PipelineAssumption
    <3>2. QED
      BY <3>1 DEF Results
  <2>2. QED
    BY <1>1, <2>1 DEF Admitted
<1>4. <<r>> \in TasksOf(r)
  BY DEF TasksOf
<1>5. Results(r)' = Results(r)
  BY <1>1 DEF Results
<1>6. CASE "denied" \in Results(r)
  <2>1. /\ Fail(r, Throttled(wait)) /\ UNCHANGED <<identity, refusals, context, entered>>
    BY <1>6 DEF GatherReturns
  <2>2. /\ phase' \in [Requests -> Phases] /\ DOMAIN failure' = Requests
        /\ \A q \in Requests \ {r} : phase'[q] = phase[q] /\ failure'[q] = failure[q]
        /\ phase'[r] = "raised" /\ failure'[r] = Throttled(wait) /\ failure'[r] # Nothing
    BY <1>1, <2>1, ExceptionsAreSome DEF Fail, StatesOK, Phases
  <2>3. StageOK(r)'
    BY <1>1, <1>2, <2>1, <2>2 DEF RequestOK, StageOK
  <2>4. FailureOK(r)'
    BY <1>1, <1>2, <1>5, <1>6, <2>1, <2>2 DEF FailureOK, TurnedAway
  <2>5. ResponseOK(r)'
    BY <2>2 DEF ResponseOK
  <2>6. throttle' \in [Requests -> [1..MaxThrottles -> Consultations]] /\ DOMAIN responses' = Requests
    BY <1>1 DEF StatesOK
  <2>7. QED
    BY <1>1, <1>2, <1>3, <1>4, <2>1, <2>2, <2>3, <2>4, <2>5, <2>6, AskStep
<1>7. CASE "denied" \notin Results(r)
  <2>1. /\ Enter(r, i)
        /\ IF i.view.deprecated THEN Access(r, <<r>>, input[r], context[<<r>>])
           ELSE UNCHANGED <<identity, refusals, context>>
    BY <1>7 DEF GatherReturns
  <2>2. CASE i.view.deprecated /\ AccessRaises(r, i, "service") # Nothing
    <3>1. Fail(r, AccessRaises(r, i, "service")) /\ entered' = entered
      BY <2>1, <2>2 DEF Enter
    <3>2. /\ phase' \in [Requests -> Phases] /\ DOMAIN failure' = Requests
          /\ \A q \in Requests \ {r} : phase'[q] = phase[q] /\ failure'[q] = failure[q]
          /\ phase'[r] = "raised" /\ failure'[r] = AccessRaises(r, i, "service") /\ failure'[r] # Nothing
      BY <1>1, <2>2, <3>1 DEF Fail, StatesOK, Phases
    <3>3. StageOK(r)'
      BY <1>1, <1>2, <3>1, <3>2 DEF RequestOK, StageOK
    <3>4. /\ Access(r, <<r>>, input[r], context[<<r>>])
          /\ identity'[r] = Settled(r, i)
      BY <1>1, <2>1, <2>2 DEF Access, StatesOK
    <3>5. \/ /\ failure'[r] = ApiException("AuthenticationFailed")
             /\ Found(i) = Refused /\ identity'[r] # Nothing
          \/ failure'[r] = Uncaught /\ CannotTell(i)
      BY <1>1, <1>2, <2>2, <3>2, <3>4, AccessOutcome DEF RequestOK, IdentityOK, Attributes
    <3>6. FailureOK(r)'
      BY <1>1, <1>2, <3>1, <3>5 DEF FailureOK, TurnedAway
    <3>7. ResponseOK(r)'
      BY <3>2 DEF ResponseOK
    <3>8. throttle' \in [Requests -> [1..MaxThrottles -> Consultations]] /\ DOMAIN responses' = Requests
      BY <1>1 DEF StatesOK
    <3>9. QED
      BY <1>1, <1>2, <1>3, <1>4, <3>1, <3>2, <3>3, <3>4, <3>6, <3>7, <3>8, AskStep
  <2>3. CASE ~(i.view.deprecated /\ AccessRaises(r, i, "service") # Nothing)
    <3>1. /\ phase' = [phase EXCEPT ![r] = "handling"]
          /\ entered' = entered \cup {r} /\ failure' = failure
      BY <2>1, <2>3 DEF Enter
    <3>2. /\ phase' \in [Requests -> Phases] /\ DOMAIN failure' = Requests
          /\ \A q \in Requests \ {r} : phase'[q] = phase[q] /\ failure'[q] = failure[q]
          /\ phase'[r] = "handling" /\ failure'[r] = Nothing
      BY <1>1, <1>2, <3>1 DEF StatesOK, Phases
    <3>3. StageOK(r)'
      BY <1>1, <1>2, <3>1, <3>2 DEF RequestOK, StageOK
    <3>4. FailureOK(r)' /\ ResponseOK(r)'
      BY <3>2 DEF FailureOK, ResponseOK
    <3>5. Results(r)' \subseteq {"allowed"}
      BY <1>1, <1>5, <1>7
    <3>6. throttle' \in [Requests -> [1..MaxThrottles -> Consultations]] /\ DOMAIN responses' = Requests
      BY <1>1 DEF StatesOK
    <3>7. QED
      BY <1>1, <1>3, <1>4, <2>1, <3>1, <3>2, <3>3, <3>4, <3>5, <3>6, AskStep
  <2>4. QED
    BY <2>2, <2>3
<1>8. QED
  BY <1>6, <1>7

\* Up to the throttles: who the request is from once it has been received.
LEMMA ReceiveAccess ==
    ASSUME PipelineInv, NEW r \in Requests, NEW i \in Inputs[r], Receive(r, i)
    PROVE  /\ DOMAIN identity' = Requests /\ refusals' \in [Requests -> Nat]
           /\ DOMAIN context' = Tasks /\ \A u \in Tasks : DOMAIN context'[u] = {"user", "correlation"}
           /\ \A q \in Requests \ {r} : identity'[q] = identity[q] /\ refusals'[q] = refusals[q]
           /\ \A u \in Tasks \ {<<r>>} : context'[u] = context[u]
           /\ context'[<<r>>].correlation = IF i.id = Nothing THEN r ELSE i.id
           /\ \/ /\ i.view # Nothing /\ (Authenticates(i.view) \/ Asks(i.view))
                 /\ identity'[r] = Settled(r, i)
                 /\ refusals'[r] = IF Found(i) = Refused THEN 1 ELSE 0
                 /\ context'[<<r>>].user = IF IsWhole(identity'[r]) THEN DictOf(identity'[r].user)
                                           ELSE Nothing
              \/ /\ ~(i.view # Nothing /\ (Authenticates(i.view) \/ Asks(i.view)))
                 /\ identity'[r] = Nothing /\ refusals'[r] = 0
                 /\ context'[<<r>>].user = Nothing
<1>1. PICK map : map = [NoContext EXCEPT !.correlation = IF i.id = Nothing THEN r ELSE i.id]
  OBVIOUS
<1>2. /\ DOMAIN map = {"user", "correlation"}
      /\ map.user = Nothing /\ map.correlation = IF i.id = Nothing THEN r ELSE i.id
  BY <1>1 DEF NoContext
<1>3. /\ StatesOK /\ identity[r] = Nothing /\ refusals[r] = 0
      /\ <<r>> \in TasksOf(r) /\ <<r>> \in Tasks
  BY DEF Receive, PipelineInv, RequestOK, StageOK, Untouched, TasksOf, Tasks
<1>4. CASE i.view # Nothing /\ (Authenticates(i.view) \/ Asks(i.view))
  <2>1. Access(r, <<r>>, i, map)
    BY <1>1, <1>4 DEF Receive
  <2>2. /\ DOMAIN identity' = Requests /\ refusals' \in [Requests -> Nat]
        /\ DOMAIN context' = Tasks
        /\ \A u \in Tasks : DOMAIN context'[u] = {"user", "correlation"}
        /\ \A q \in Requests \ {r} : identity'[q] = identity[q] /\ refusals'[q] = refusals[q]
        /\ \A u \in Tasks \ {<<r>>} : context'[u] = context[u]
        /\ identity'[r] = Settled(r, i)
        /\ refusals'[r] = refusals[r] + (IF identity[r] = Nothing /\ Found(i) = Refused THEN 1 ELSE 0)
        /\ context'[<<r>>].correlation = map.correlation
        /\ context'[<<r>>].user = IF identity[r] = Nothing /\ IsWhole(Settled(r, i))
                                  THEN DictOf(Settled(r, i).user) ELSE map.user
    BY <1>2, <1>3, <2>1, AccessEffect
  <2>3. QED
    BY <1>2, <1>3, <1>4, <2>2
<1>5. CASE ~(i.view # Nothing /\ (Authenticates(i.view) \/ Asks(i.view)))
  <2>1. context' = [context EXCEPT ![<<r>>] = map] /\ UNCHANGED <<identity, refusals>>
    BY <1>1, <1>5 DEF Receive
  <2>2. QED
    BY <1>2, <1>3, <1>5, <2>1 DEF StatesOK
<1>6. QED
  BY <1>4, <1>5

\* A request arrives, and runs to its first suspension.
LEMMA ReceiveStep ==
    ASSUME PipelineInv, NEW r \in Requests, NEW i \in Inputs[r], Receive(r, i)
    PROVE  PipelineInv'
<1>1. /\ StatesOK /\ Untouched(r) /\ StageOK(r) /\ phase[r] = "new"
      /\ input' = [input EXCEPT ![r] = i] /\ UNCHANGED <<child, calls, responses>>
  BY DEF Receive, PipelineInv, RequestOK, StageOK
<1>2. /\ identity[r] = Nothing /\ r \notin entered /\ r \notin child
      /\ failure[r] = Nothing /\ responses[r] = <<>>
      /\ \A n \in 1..MaxThrottles : throttle[r][n] = "none"
      /\ \A n \in 0..MaxThrottles : context[<<r, n>>] = NoContext
  BY <1>1 DEF Untouched, StageOK
<1>3. /\ i # Nothing /\ input'[r] = i /\ i \in Inputs[r]
      /\ \A q \in Requests \ {r} : input'[q] = input[q]
      /\ i.view # Nothing => i.view.throttles \in 0..MaxThrottles
  BY <1>1, PipelineAssumption DEF StatesOK
\* What the invariant says of the request's identity and contexts.
<1>4. /\ Settled(r, i) # Nothing => Found(i) # Broken /\ Settled(r, i) = Whom(i)
      /\ Found(i) = Refused => Settled(r, i) # Nothing
      /\ \A attribute \in Attributes :
            /\ AccessRaises(r, i, attribute) = Nothing =>
                  IsWhole(Settled(r, i)) /\ Found(i) # Refused
            /\ AccessRaises(r, i, attribute) # Nothing =>
                  \/ /\ AccessRaises(r, i, attribute) = ApiException("AuthenticationFailed")
                     /\ Found(i) = Refused /\ Settled(r, i) # Nothing
                  \/ AccessRaises(r, i, attribute) = Uncaught /\ CannotTell(i)
  <2>1. "user" \in Attributes
    BY DEF Attributes
  <2>2. QED
    BY <1>2, <2>1, AccessOutcome
<1>5. IdentityOK(r)'
  BY <1>3, <1>4, ReceiveAccess DEF IdentityOK
<1>6. \A n \in 0..MaxThrottles : <<r, n>> \in Tasks \ {<<r>>}
  BY DEF Tasks
<1>7. \A n \in 0..MaxThrottles : context'[<<r, n>>] = NoContext
  BY <1>2, <1>6, ReceiveAccess
<1>8. /\ NoContext.user = Nothing /\ NoContext.correlation = Nothing
      /\ context'[<<r>>].correlation = RequestId(r)'
  BY <1>3, ReceiveAccess DEF RequestId, NoContext
<1>9. /\ context'[<<r>>].user # Nothing =>
             IsWhole(identity'[r]) /\ context'[<<r>>].user = DictOf(identity'[r].user)
      /\ i.view # Nothing /\ Authenticates(i.view) =>
             /\ identity'[r] = Settled(r, i)
             /\ refusals'[r] = IF Found(i) = Refused THEN 1 ELSE 0
             /\ IsWhole(identity'[r]) => context'[<<r>>].user = DictOf(identity'[r].user)
  BY ReceiveAccess
\* Where it has got to.
<1>10. \/ /\ Objection(r, i) # Nothing
          /\ Fail(r, Objection(r, i)) /\ UNCHANGED <<throttle, entered>>
       \/ /\ Objection(r, i) = Nothing /\ i.view.throttles = 0
          /\ Enter(r, i) /\ UNCHANGED throttle
       \/ /\ Objection(r, i) = Nothing /\ i.view.throttles # 0
          /\ phase' = [phase EXCEPT ![r] = "throttling"]
          /\ throttle' = [throttle EXCEPT ![r] = [n \in 1..MaxThrottles |->
                                IF n <= i.view.throttles THEN "pending" ELSE "none"]]
          /\ UNCHANGED <<failure, entered>>
  BY DEF Receive, CheckThrottles
<1>11. Objection(r, i) = Nothing => i.view # Nothing
  BY ExceptionsAreSome DEF Objection
<1>12. Objection(r, i) = Nothing /\ Authenticates(i.view) =>
          AccessRaises(r, i, "user") = Nothing /\ Granted(i, Settled(r, i))
  BY <1>11, ExceptionsAreSome DEF Objection
<1>13. /\ phase' \in [Requests -> Phases] /\ DOMAIN failure' = Requests
       /\ throttle' \in [Requests -> [1..MaxThrottles -> Consultations]]
       /\ entered' \subseteq Requests
       /\ \A q \in Requests \ {r} :
             /\ phase'[q] = phase[q] /\ failure'[q] = failure[q] /\ throttle'[q] = throttle[q]
             /\ (q \in entered' <=> q \in entered)
  <2>1. UNCHANGED throttle \/ throttle' = [throttle EXCEPT ![r] = [n \in 1..MaxThrottles |->
                                IF n <= i.view.throttles THEN "pending" ELSE "none"]]
    BY <1>10
  <2>2. \E p \in Phases : phase' = [phase EXCEPT ![r] = p]
    BY <1>10 DEF Enter, Fail, Phases
  <2>3. UNCHANGED failure \/ \E e : failure' = [failure EXCEPT ![r] = e]
    BY <1>10 DEF Enter, Fail
  <2>4. entered' = entered \/ entered' = entered \cup {r}
    BY <1>10 DEF Enter
  <2>5. /\ throttle' \in [Requests -> [1..MaxThrottles -> Consultations]]
        /\ \A q \in Requests \ {r} : throttle'[q] = throttle[q]
    <3>1. PICK f : f = [n \in 1..MaxThrottles |-> IF n <= i.view.throttles THEN "pending" ELSE "none"]
      OBVIOUS
    <3>2. f \in [1..MaxThrottles -> Consultations]
      BY <3>1 DEF Consultations
    <3>3. throttle' = throttle \/ throttle' = [throttle EXCEPT ![r] = f]
      BY <2>1, <3>1
    <3>4. throttle \in [Requests -> [1..MaxThrottles -> Consultations]]
      BY <1>1 DEF StatesOK
    <3>5. QED
      BY <3>2, <3>3, <3>4
  <2>6. phase' \in [Requests -> Phases] /\ \A q \in Requests \ {r} : phase'[q] = phase[q]
    BY <1>1, <2>2 DEF StatesOK
  <2>7. DOMAIN failure' = Requests /\ \A q \in Requests \ {r} : failure'[q] = failure[q]
    BY <1>1, <2>3 DEF StatesOK
  <2>8. entered' \subseteq Requests /\ \A q \in Requests \ {r} : q \in entered' <=> q \in entered
    BY <1>1, <2>4 DEF StatesOK
  <2>9. QED
    BY <2>5, <2>6, <2>7, <2>8
<1>14. \/ /\ phase'[r] = "raised" /\ failure'[r] # Nothing /\ r \notin entered'
          /\ \A n \in 1..MaxThrottles : throttle'[r][n] = "none"
          /\ \/ failure'[r] = Objection(r, i)
             \/ i.view # Nothing /\ Asks(i.view)
                /\ failure'[r] = AccessRaises(r, i, "service")
       \/ /\ phase'[r] = "handling" /\ failure'[r] = Nothing /\ r \in entered'
          /\ \A n \in 1..MaxThrottles : throttle'[r][n] = "none"
          /\ Objection(r, i) = Nothing /\ i.view.throttles = 0
       \/ /\ phase'[r] = "throttling" /\ failure'[r] = Nothing /\ r \notin entered'
          /\ \A n \in 1..MaxThrottles : throttle'[r][n] =
                IF n <= i.view.throttles THEN "pending" ELSE "none"
          /\ Objection(r, i) = Nothing /\ i.view.throttles # 0
  <2>1. CASE Objection(r, i) # Nothing
    <3>1. PICK e : e = Objection(r, i)
      OBVIOUS
    <3>2. /\ phase' = [phase EXCEPT ![r] = "raised"] /\ failure' = [failure EXCEPT ![r] = e]
          /\ UNCHANGED <<throttle, entered>>
      BY <1>10, <2>1, <3>1 DEF Fail
    <3>3. phase'[r] = "raised" /\ failure'[r] = e
      BY <1>1, <3>2 DEF StatesOK
    <3>4. /\ phase'[r] = "raised" /\ failure'[r] # Nothing /\ r \notin entered'
          /\ \A n \in 1..MaxThrottles : throttle'[r][n] = "none"
          /\ failure'[r] = Objection(r, i)
      BY <1>2, <2>1, <3>1, <3>2, <3>3
    <3>5. QED
      BY <3>4
  <2>2. CASE Objection(r, i) = Nothing /\ i.view.throttles = 0
    <3>1. Enter(r, i) /\ UNCHANGED throttle
      BY <1>10, <2>2
    <3>2. CASE i.view.deprecated /\ AccessRaises(r, i, "service") # Nothing
      BY <1>1, <1>2, <1>11, <2>2, <3>1, <3>2 DEF Enter, Fail, Asks, StatesOK
    <3>3. CASE ~(i.view.deprecated /\ AccessRaises(r, i, "service") # Nothing)
      BY <1>1, <1>2, <2>2, <3>1, <3>3 DEF Enter, StatesOK
    <3>4. QED
      BY <3>2, <3>3
  <2>3. CASE Objection(r, i) = Nothing /\ i.view.throttles # 0
    BY <1>1, <1>2, <1>10, <2>3 DEF StatesOK
  <2>4. QED
    BY <2>1, <2>2, <2>3
<1>15. StageOK(r)'
  <2>1. responses'[r] = <<>> /\ r \notin child'
    BY <1>1, <1>2
  <2>2. \A n \in 1..MaxThrottles :
           throttle'[r][n] # "none" => i.view # Nothing /\ n \in 1..i.view.throttles
    BY <1>3, <1>11, <1>14
  <2>3. QED
    BY <1>3, <1>11, <1>14, <2>1, <2>2 DEF StageOK
<1>16. Admitted(r)' => Objection(r, i) = Nothing
  BY <1>14 DEF Admitted
<1>17. AdmissionOK(r)'
  <2>1. Objection(r, i) = Nothing => Entitled(r)'
    BY <1>3, <1>4, <1>9, <1>11, <1>12 DEF Entitled, Attributes
  <2>2. r \in entered' => Results(r)' = {}
    BY <1>3, <1>14 DEF Results
  <2>3. QED
    BY <1>16, <2>1, <2>2 DEF AdmissionOK
<1>18. ContextOK(r)'
  <2>1. Objection(r, i) = Nothing /\ Authenticates(i.view) =>
           IsWhole(identity'[r]) /\ context'[<<r>>].user = DictOf(identity'[r].user)
    BY <1>4, <1>9, <1>11, <1>12 DEF Attributes
  <2>2. QED
    BY <1>3, <1>7, <1>8, <1>9, <1>16, <2>1 DEF ContextOK
<1>19. FailureOK(r)'
  <2>1. SUFFICES ASSUME failure'[r] # Nothing
                 PROVE  TurnedAway(r)'
    BY <1>14 DEF FailureOK
  <2>2. CASE failure'[r] = Objection(r, i)
    <3>1. \/ i.view = Nothing /\ failure'[r] = Raising("sanic.NotFound", 404)
          \/ /\ i.view # Nothing /\ Authenticates(i.view)
             /\ failure'[r] = AccessRaises(r, i, "user") /\ AccessRaises(r, i, "user") # Nothing
          \/ /\ i.view # Nothing /\ Authenticates(i.view) /\ AccessRaises(r, i, "user") = Nothing
             /\ failure'[r] = PermissionDenied(Settled(r, i))
      BY <2>1, <2>2 DEF Objection
    <3>2. PermissionDenied(Settled(r, i)) \in
             {ApiException("NotAuthenticated"), ApiException("PermissionDenied")}
      BY DEF PermissionDenied
    <3>3. QED
      BY <1>3, <1>4, <1>9, <3>1, <3>2 DEF TurnedAway, Attributes
  <2>3. CASE i.view # Nothing /\ Asks(i.view) /\ failure'[r] = AccessRaises(r, i, "service")
    <3>1. identity'[r] = Settled(r, i)
      BY <2>3, ReceiveAccess
    <3>2. QED
      BY <1>3, <1>4, <2>1, <2>3, <3>1 DEF TurnedAway, Attributes
  <2>4. QED
    BY <1>14, <2>1, <2>2, <2>3
<1>20. ResponseOK(r)'
  BY <1>14 DEF ResponseOK
<1>21. RequestOK(r)'
  BY <1>5, <1>15, <1>17, <1>18, <1>19, <1>20 DEF RequestOK
<1>22. StatesOK'
  BY <1>1, <1>13, ReceiveAccess DEF StatesOK
<1>23. \A q \in Requests \ {r} : Same(q)
  <2> SUFFICES ASSUME NEW q \in Requests \ {r}
               PROVE  Same(q)
    OBVIOUS
  <2>1. TasksOf(q) \subseteq Tasks \ {<<r>>}
    <3>1. <<r>> \in TasksOf(r)
      BY DEF TasksOf
    <3>2. QED
      BY <3>1, TaskNames
  <2>2. \A t \in TasksOf(q) : context'[t] = context[t]
    BY <2>1, ReceiveAccess
  <2>3. identity'[q] = identity[q] /\ refusals'[q] = refusals[q]
    BY ReceiveAccess
  <2>4. QED
    BY <1>1, <1>3, <1>13, <2>2, <2>3 DEF Same
<1>24. Stays(r) /\ UNCHANGED calls
  BY <1>1, <1>2 DEF Stays
<1>25. QED
  BY <1>21, <1>22, <1>23, <1>24, OneMoves
-----------------------------------------------------------------------------
(* The theorems.                                                           *)

\* No request has arrived.
LEMMA InitOK == Init => PipelineInv
<1> SUFFICES ASSUME Init
             PROVE  PipelineInv
  OBVIOUS
<1>1. StatesOK
  BY DEF Init, StatesOK, Phases, Consultations, NoContext
<1>2. ASSUME NEW r \in Requests
      PROVE  RequestOK(r)
  <2>1. \A n \in 0..MaxThrottles : <<r, n>> \in Tasks
    BY DEF Tasks
  <2>2. <<r>> \in Tasks /\ NoContext.user = Nothing /\ NoContext.correlation = Nothing
    BY DEF Tasks, NoContext
  <2>3. Untouched(r) /\ r \notin child /\ phase[r] = "new"
    BY <2>1 DEF Init, Untouched
  <2>4. StageOK(r)
    BY <2>3 DEF StageOK, Untouched
  <2>5. IdentityOK(r) /\ AdmissionOK(r) /\ FailureOK(r) /\ ResponseOK(r)
    BY <2>3 DEF Untouched, IdentityOK, AdmissionOK, Admitted, FailureOK, ResponseOK
  <2>6. ContextOK(r)
    BY <2>2, <2>3 DEF Untouched, ContextOK, Admitted
  <2>7. QED
    BY <2>4, <2>5, <2>6 DEF RequestOK
<1>3. CallsOK
  BY DEF Init, CallsOK, IdentityTravels
<1>4. QED
  BY <1>1, <1>2, <1>3 DEF PipelineInv

\* Steps that only the table of deprecated calls sees.
LEMMA ElsewhereStep ==
    ASSUME PipelineInv,
           UNCHANGED <<phase, input, identity, refusals, context, throttle, child, entered,
                       failure, calls, responses>>
    PROVE  PipelineInv'
<1>1. \A q \in Requests : Same(q) /\ Stays(q)
  BY DEF Same, Stays
<1>2. StatesOK' /\ \A q \in Requests : RequestOK(q)'
  BY <1>1, SameIsOK DEF PipelineInv, StatesOK
<1>3. CallsOK'
  BY <1>1, OldCallsAreOK DEF CallsOK, IdentityTravels
<1>4. QED
  BY <1>2, <1>3 DEF PipelineInv

\* PipelineInv is inductive.
LEMMA NextOK == PipelineInv /\ [Next]_vars => PipelineInv'
<1> SUFFICES ASSUME PipelineInv, [Next]_vars
             PROVE  PipelineInv'
  OBVIOUS
<1>1. ASSUME NEW r \in Requests, NEW i \in Inputs[r], Receive(r, i)
      PROVE  PipelineInv'
  BY <1>1, ReceiveStep
<1>2. ASSUME NEW r \in Requests, NEW n \in 1..MaxThrottles, NEW asks \in BOOLEAN,
             NEW result \in {"allowed", "denied", "failed"}, Consult(r, n, asks, result)
      PROVE  PipelineInv'
  BY <1>2, ConsultStep
<1>3. ASSUME NEW r \in Requests, NEW wait \in Waits, GatherReturns(r, wait)
      PROVE  PipelineInv'
  BY <1>3, GatherReturnsStep
<1>4. ASSUME NEW r \in Requests, NEW t \in {<<r>>, <<r, 0>>},
             Call(r, t) \/ \E attribute \in Attributes : ReadUser(r, t, attribute)
      PROVE  PipelineInv'
  BY <1>4, ReadUserStep, CallStep
<1>5. ASSUME NEW r \in Requests, CreateTask(r) \/ TimeOut(r) \/ Respond(r)
      PROVE  PipelineInv'
  BY <1>5, CreateTaskStep, TimeOutStep, RespondStep
<1>6. ASSUME NEW r \in Requests, NEW e \in Exceptions[r], Raise(r, e)
      PROVE  PipelineInv'
  BY <1>6, RaiseStep
<1>7. ASSUME NEW r \in Requests, NEW status \in Returned, Return(r, status)
      PROVE  PipelineInv'
  BY <1>7, ReturnStep
<1>8. CASE CallWithoutContext
  BY <1>8, CallWithoutContextStep
<1>9. CASE UNCHANGED <<phase, input, identity, refusals, context, throttle, child, entered,
                       failure, calls, responses>>
  BY <1>9, ElsewhereStep
<1>10. UNCHANGED vars => UNCHANGED <<phase, input, identity, refusals, context, throttle, child,
                                     entered, failure, calls, responses>>
  BY DEF vars
<1>11. QED
  BY <1>1, <1>2, <1>3, <1>4, <1>5, <1>6, <1>7, <1>8, <1>9, <1>10 DEF Next

\* The invariant holds: of every request the conjuncts of RequestOK.
THEOREM PipelineInvariance == Spec => []PipelineInv
<1>1. QED
  BY InitOK, NextOK, PTL DEF Spec

\* request.py and services/utils.py: whoever makes a call, in whichever task, sends
\* the id of the request, and its user or, if nobody has authenticated it, nobody's.
THEOREM CallsCarryIdentity == Spec => []IdentityTravels
<1>1. PipelineInv => IdentityTravels
  BY DEF PipelineInv, CallsOK
<1>2. QED
  BY <1>1, PipelineInvariance, PTL

\* views.py: no throttle is asked before the permissions are granted, and no handler
\* is called unless every throttle has allowed it.
THEOREM OnlyEntitledEnter == Spec => []OnlyTheEntitledEnter
<1>1. PipelineInv => OnlyTheEntitledEnter
  BY DEF PipelineInv, RequestOK, AdmissionOK, Admitted, OnlyTheEntitledEnter
<1>2. QED
  BY <1>1, PipelineInvariance, PTL

\* decorators.py: whatever requests do, a caller of a deprecated endpoint is warned
\* at most once in a period, and is not spared for longer than one.
THEOREM CallersAreWarned == Spec => []WarnedOncePerPeriod
<1>1. Init => DeprecationInv
  BY InitDeprecation DEF Init
<1>2. ASSUME DeprecationInv, [Next]_vars
      PROVE  DeprecationInv'
  <2>1. \A r \in Requests : \A i : Enter(r, i) => \/ UNCHANGED deprecation
                                                  \/ Warn(r, UsageKey(r, i))
    BY DEF Enter
  <2>2. ASSUME NEW r \in Requests, NEW i \in Inputs[r], Receive(r, i)
        PROVE  UNCHANGED deprecation \/ Warn(r, UsageKey(r, i))
    BY <2>1, <2>2 DEF Receive, CheckThrottles
  <2>3. ASSUME NEW r \in Requests, NEW wait \in Waits, GatherReturns(r, wait)
        PROVE  UNCHANGED deprecation \/ Warn(r, UsageKey(r, input[r]))
    BY <2>1, <2>3 DEF GatherReturns
  <2>4. \/ UNCHANGED deprecation
        \/ \E by, key : Warn(by, key)
        \/ Tick
    <3>1. CASE UNCHANGED vars
      BY <3>1 DEF vars, deprecation
    <3>2. \A r, n, asks, result : Consult(r, n, asks, result) => UNCHANGED deprecation
      BY DEF Consult
    <3>3. \A r, t, x : ReadUser(r, t, x) \/ Call(r, t) => UNCHANGED deprecation
      BY DEF ReadUser, Call
    <3>4. \A r \in Requests : CreateTask(r) \/ TimeOut(r) \/ Respond(r) => UNCHANGED deprecation
      BY DEF CreateTask, TimeOut, Respond
    <3>5. \A r, x : Raise(r, x) \/ Return(r, x) => UNCHANGED deprecation
      BY DEF Raise, Return
    <3>6. CallWithoutContext => UNCHANGED deprecation
      BY DEF CallWithoutContext
    <3>7. CASE Next
      BY <2>2, <2>3, <3>2, <3>3, <3>4, <3>5, <3>6, <3>7 DEF Next
    <3>8. QED
      BY <1>2, <3>1, <3>7
  <2>5. QED
    BY <1>2, <2>4, TickKeepsDeprecation, StutterKeepsDeprecation, WarnKeepsDeprecation
<1>3. DeprecationInv => WarnedOncePerPeriod
  BY DEF DeprecationInv
<1>4. QED
  BY <1>1, <1>2, <1>3, PTL DEF Spec
-----------------------------------------------------------------------------
(* What is written for an exception.                                       *)

\* A response is written twice only if it is a 5xx without its exception or has an
\* odd error_code, and then the second one, which is Sanic's, has an error_code.
LEMMA WrittenTwice ==
    ASSUME NEW response
    PROVE  /\ Written(response)[1] = response
           /\ Len(Written(response)) \in {1, 2}
           /\ Len(Written(response)) = 1 \/ (/\ response.odd \/ response.status >= 500
                                             /\ Written(response)[2].coded)
           /\ response.exception /\ ~response.odd => Len(Written(response)) = 1
<1> DEFINE e == Raising("sanic.ServerError", 500)
           second == ErrorResponse(e, <<>>)
<1>1. e.type = "sanic.ServerError" /\ e.status = 500 /\ e.positional
  BY DEF Raising
<1>2. IsOwn(e) /\ Converted(e) = e
  BY <1>1 DEF IsOwn, SanicTypes, Converted
<1>3. ~HandlerFails(e)
  BY <1>1, <1>2 DEF HandlerFails, DefaultRaises, REVERSE_STATUS
<1>4. "sanic.ServerError" \notin DOMAIN ApiStatus
  BY DEF ApiStatus
<1>5. Handled(e, <<>>) = JsonResponse(500)
  BY <1>1, <1>2, <1>4 DEF Handled, Default, SanicTypes
<1>6. JsonResponse(500).coded
  BY DEF JsonResponse
<1>7. second = [JsonResponse(500) EXCEPT !.exception = TRUE]
  BY <1>3, <1>5, <1>6 DEF ErrorResponse
<1>8. second.coded
  BY <1>7 DEF JsonResponse
<1> HIDE DEF second
<1>9. CASE LogRaises(response)
  <2>1. Written(response) = <<response, second>>
    BY <1>9 DEF Written, second
  <2>2. QED
    BY <1>8, <1>9, <2>1 DEF LogRaises
<1>10. CASE ~LogRaises(response)
  BY <1>10 DEF Written
<1>11. QED
  BY <1>9, <1>10 DEF LogRaises

\* What the error handler makes of the exceptions raised before the handler.
LEMMA OwnResponse ==
    ASSUME NEW type \in {"AuthenticationFailed", "NotAuthenticated", "PermissionDenied", "Throttled"},
           NEW wait \in Nat, NEW authenticators,
           NEW e, \/ e = [ApiException(type) EXCEPT !.wait = wait]
                  \/ e = ApiException(type) /\ wait = 0
    PROVE  LET answer == ErrorResponse(e, authenticators)
           IN /\ answer.status = ApiStatus[type]
              /\ answer.coded /\ answer.exception /\ ~answer.odd
              /\ answer.authenticate <=>
                    /\ type \in {"NotAuthenticated", "AuthenticationFailed"}
                    /\ authenticators # <<>> /\ authenticators[1] = "jwt"
              /\ answer.retry <=> wait > 0
<1>1. /\ ApiStatus["AuthenticationFailed"] = 401 /\ ApiStatus["NotAuthenticated"] = 401
      /\ ApiStatus["PermissionDenied"] = 403 /\ ApiStatus["Throttled"] = 429
      /\ type \in DOMAIN ApiStatus
  BY DEF ApiStatus
<1>2. /\ e.type = type /\ e.status = ApiStatus[type] /\ e.positional
      /\ e.wait = wait /\ e.handled = "default"
  BY DEF ApiException, Raising
<1>3. Converted(e) = e /\ e.status \in REVERSE_STATUS
  BY <1>1, <1>2 DEF Converted, REVERSE_STATUS
<1>4. ~HandlerFails(e)
  BY <1>2, <1>3 DEF HandlerFails, DefaultRaises
<1>5. Handled(e, authenticators) = Default(e, Challenge(e, authenticators))
  BY <1>2, <1>3 DEF Handled
<1>6. Default(e, Challenge(e, authenticators)) =
         [JsonResponse(e.status) EXCEPT !.authenticate = Challenge(e, authenticators),
                                        !.retry = e.wait > 0]
  BY <1>1, <1>2 DEF Default
<1>7. PICK handled : handled = Handled(e, authenticators)
  OBVIOUS
<1>8. /\ handled = [JsonResponse(e.status) EXCEPT !.authenticate = Challenge(e, authenticators),
                                                  !.retry = e.wait > 0]
      /\ DOMAIN handled = {"status", "authenticate", "retry", "coded", "odd", "exception"}
      /\ handled.status = e.status /\ handled.coded = TRUE /\ handled.odd = FALSE
      /\ handled.authenticate = Challenge(e, authenticators) /\ handled.retry = (e.wait > 0)
  BY <1>5, <1>6, <1>7 DEF JsonResponse
<1>9. ErrorResponse(e, authenticators) = [handled EXCEPT !.exception = TRUE]
  BY <1>4, <1>7, <1>8 DEF ErrorResponse
<1>10. QED
  BY <1>2, <1>8, <1>9 DEF Challenge

\* The response to an exception that is none of insanic's own.
LEMMA OtherResponse ==
    ASSUME NEW authenticators,
           NEW e, \/ e = Uncaught
                  \/ e = Raising("sanic.NotFound", 404)
                  \/ e = Raising("sanic.ServiceUnavailable", 503)
    PROVE  LET answer == ErrorResponse(e, authenticators)
           IN /\ answer.status = e.status /\ answer.coded /\ answer.exception /\ ~answer.odd
              /\ answer.authenticate = FALSE /\ answer.retry = FALSE
<1>1. /\ e.status \in {404, 500, 503} /\ e.positional /\ e.wait = 0 /\ e.handled = "default"
      /\ e.type \in {"Exception", "sanic.NotFound", "sanic.ServiceUnavailable"}
      /\ e.type = "Exception" => e.status = 500
  BY DEF Uncaught, Raising
<1>2. /\ {"Exception", "sanic.NotFound", "sanic.ServiceUnavailable"} \cap DOMAIN ApiStatus = {}
      /\ "SanicNotFound" \in DOMAIN ApiStatus
  BY DEF ApiStatus
<1>3. PICK x : x = Converted(e)
  OBVIOUS
<1>4. /\ x.status = e.status /\ x.positional /\ x.wait = 0
      /\ x.type = IF e.type = "sanic.NotFound" THEN "SanicNotFound" ELSE e.type
  BY <1>1, <1>3 DEF Converted, Raising
<1>5. ~HandlerFails(e) /\ Handled(e, authenticators) = Default(x, Challenge(e, authenticators))
  BY <1>1, <1>3, <1>4 DEF HandlerFails, DefaultRaises, Handled, REVERSE_STATUS
<1>6. ~Challenge(e, authenticators) /\ Challenge(e, authenticators) \in BOOLEAN
  BY <1>1 DEF Challenge
<1>7. PICK handled : handled = Handled(e, authenticators)
  OBVIOUS
<1>8. /\ DOMAIN handled = {"status", "authenticate", "retry", "coded", "odd", "exception"}
      /\ handled.status = e.status /\ handled.coded = TRUE /\ handled.odd = FALSE
      /\ handled.authenticate = FALSE /\ handled.retry = FALSE
  <2>1. CASE e.type = "sanic.NotFound"
    <3>1. handled = [JsonResponse(x.status) EXCEPT !.authenticate = Challenge(e, authenticators),
                                                   !.retry = x.wait > 0]
      BY <1>2, <1>4, <1>5, <1>7, <2>1 DEF Default
    <3>2. (x.wait > 0) = FALSE
      BY <1>4
    <3>3. QED
      BY <1>4, <1>6, <3>1, <3>2 DEF JsonResponse
  <2>2. CASE e.type = "sanic.ServiceUnavailable"
    <3>1. handled = JsonResponse(x.status)
      BY <1>2, <1>4, <1>5, <1>7, <2>2 DEF Default, SanicTypes
    <3>2. QED
      BY <1>4, <3>1 DEF JsonResponse
  <2>3. CASE e.type = "Exception"
    <3>1. handled = JsonResponse(500)
      BY <1>2, <1>4, <1>5, <1>7, <2>3 DEF Default, SanicTypes, HandleUncaughtException
    <3>2. QED
      BY <1>1, <2>3, <3>1 DEF JsonResponse
  <2>4. QED
    BY <1>1, <2>1, <2>2, <2>3
<1>9. ErrorResponse(e, authenticators) = [handled EXCEPT !.exception = TRUE]
  BY <1>5, <1>7, <1>8 DEF ErrorResponse
<1>10. QED
  BY <1>8, <1>9

\* When the error handler keeps the exception on a response that can be logged.
LEMMA ExceptionIsKept ==
    ASSUME NEW e \in AnyException, NEW authenticators,
           e.handled \notin {"raises", "bare", "odd"}, e.status \in REVERSE_STATUS, e.positional
    PROVE  /\ ErrorResponse(e, authenticators).exception
           /\ ~ErrorResponse(e, authenticators).odd
<1>1. PICK x : x = Converted(e)
  OBVIOUS
<1>2. x.status = e.status /\ x.positional
  BY <1>1 DEF Converted, Raising
<1>3. ~HandlerFails(e)
  BY <1>1, <1>2 DEF HandlerFails, DefaultRaises
<1>4. PICK handled : handled = Handled(e, authenticators)
  OBVIOUS
<1>5. /\ handled.coded /\ handled.odd = FALSE
      /\ DOMAIN handled = {"status", "authenticate", "retry", "coded", "odd", "exception"}
  <2>1. CASE ~IsOwn(e) /\ e.handled \in {"coded", "bare", "odd"}
    <3>1. handled = [JsonResponse(e.status) EXCEPT !.coded = e.handled # "bare",
                                                   !.odd = e.handled = "odd"]
      BY <1>4, <2>1 DEF Handled
    <3>2. (e.handled # "bare") = TRUE /\ (e.handled = "odd") = FALSE
      BY <2>1
    <3>3. QED
      BY <3>1, <3>2 DEF JsonResponse
  <2>2. CASE ~(~IsOwn(e) /\ e.handled \in {"coded", "bare", "odd"})
    <3>1. handled = Default(x, Challenge(e, authenticators))
      BY <1>1, <1>4, <2>2 DEF Handled
    <3>2. QED
      BY <3>1 DEF Default, JsonResponse, HandleUncaughtException
  <2>3. QED
    BY <2>1, <2>2
<1>6. ErrorResponse(e, authenticators) = [handled EXCEPT !.exception = TRUE]
  BY <1>3, <1>4, <1>5 DEF ErrorResponse
<1>7. QED
  BY <1>5, <1>6
-----------------------------------------------------------------------------
\* protocol.py: a request is answered once, but for the responses that cannot be
\* logged, and those are followed by an error of Sanic's.
LEMMA Answers ==
    ASSUME PipelineInv, NEW r \in Requests, phase[r] = "responded"
    PROVE  /\ Len(responses[r]) \in {1, 2}
           /\ failure[r] = Nothing => r \in entered
           /\ Len(responses[r]) # 1 =>
                 /\ responses[r][1].odd \/ responses[r][1].status >= 500
                 /\ responses[r][2].coded
           /\ failure[r] # Nothing =>
                 LET answer == ErrorResponse(failure[r], Authenticators(input[r]))
                 IN /\ responses[r][1] = answer
                    /\ answer.exception /\ ~answer.odd => Len(responses[r]) = 1
<1>1. ResponseOK(r) /\ StageOK(r)
  BY DEF PipelineInv, RequestOK
<1>2. CASE failure[r] # Nothing
  <2>1. PICK answer : answer = ErrorResponse(failure[r], Authenticators(input[r]))
    OBVIOUS
  <2>2. responses[r] = Written(answer)
    BY <1>1, <1>2, <2>1 DEF ResponseOK
  <2>3. QED
    BY <1>1, <1>2, <2>1, <2>2, WrittenTwice DEF StageOK
<1>3. CASE failure[r] = Nothing
  <2>1. PICK answer : responses[r] = Written(answer)
    BY <1>1, <1>3 DEF ResponseOK
  <2>2. QED
    BY <1>1, <1>3, <2>1, WrittenTwice DEF StageOK
<1>4. QED
  BY <1>2, <1>3

\* Type correctness; an identity, once settled, is one that the credentials stand
\* for, and what is refused or broken is never taken for one.
THEOREM PipelineTypes == Spec => []TypeOK
<1>1. PipelineInv => TypeOK
  <2> SUFFICES ASSUME PipelineInv
               PROVE  TypeOK
    OBVIOUS
  <2>1. ASSUME NEW r \in Requests
        PROVE  IF input[r] = Nothing THEN identity[r] = Nothing
               ELSE input[r] \in Inputs[r] /\ identity[r] \in Settlements(input[r])
    <3>1. StageOK(r) /\ IdentityOK(r) /\ Nothing \notin Inputs[r]
      BY PipelineAssumption DEF PipelineInv, RequestOK
    <3>2. CASE phase[r] = "new"
      BY <3>1, <3>2 DEF StageOK, Untouched
    <3>3. CASE phase[r] # "new" /\ identity[r] = Nothing
      BY <3>1, <3>3 DEF StageOK, Settlements
    <3>4. CASE phase[r] # "new" /\ identity[r] # Nothing
      <4>1. input[r] \in Inputs[r] /\ Found(input[r]) # Broken /\ identity[r] = Whom(input[r])
        BY <3>1, <3>4 DEF StageOK, IdentityOK
      <4>2. QED
        BY <3>1, <4>1, WhomIsSomebody
    <3>5. QED
      BY <3>2, <3>3, <3>4
  <2>2. ASSUME NEW r \in Requests
        PROVE  Len(responses[r]) <= 2
    <3>1. StageOK(r) /\ phase[r] \in Phases
      BY DEF PipelineInv, RequestOK, StatesOK
    <3>2. CASE phase[r] # "responded"
      <4>1. responses[r] = <<>>
        BY <3>1, <3>2 DEF StageOK, Untouched, Phases
      <4>2. QED
        BY <4>1
    <3>3. CASE phase[r] = "responded"
      <4>1. PICK n \in {1, 2} : Len(responses[r]) = n
        BY <3>3, Answers
      <4>2. QED
        BY <4>1
    <3>4. QED
      BY <3>2, <3>3
  <2>3. QED
    BY <2>1, <2>2 DEF TypeOK, PipelineInv, StatesOK, CallsOK
<1>2. QED
  BY <1>1, PipelineInvariance, PTL

\* Only of the entitled are the throttles asked, and those are not refused.
LEMMA ThrottledAreEntitled ==
    ASSUME PipelineInv, NEW r \in Requests, phase[r] # "new", input[r].view # Nothing,
           NEW result \in Results(r), result # "none"
    PROVE  Authenticates(input[r].view) => refusals[r] = 0
<1>1. input[r] \in Inputs[r] /\ AdmissionOK(r)
  BY DEF PipelineInv, RequestOK, StageOK
<1>2. PICK n \in 1..input[r].view.throttles : throttle[r][n] = result
  BY DEF Results
<1>3. n \in 1..MaxThrottles
  BY <1>1, PipelineAssumption
<1>4. QED
  BY <1>1, <1>2, <1>3 DEF AdmissionOK, Admitted, Entitled

\* views.py and handlers.py: whom the view turns away is told so once, with the
\* status and the headers for the reason; credentials are refused once.
THEOREM RefusalsTold == Spec => []RefusalsAreTold
<1>1. ASSUME PipelineInv, NEW r \in Requests
      PROVE  refusals[r] <= 1
  BY <1>1 DEF PipelineInv, RequestOK, IdentityOK
<1>2. ASSUME PipelineInv, NEW r \in Requests,
             phase[r] = "responded", input[r].view # Nothing, r \notin entered, ~TimedOut(r)
      PROVE  LET answer == responses[r][1]
                 refused == identity[r] # Nothing /\ refusals[r] > 0
             IN /\ Len(responses[r]) = 1 /\ answer.coded
                /\ answer.status \in {401, 403, 429} \/ "failed" \in Results(r)
                                                   \/ CannotTell(input[r])
                /\ refused => answer.status = 401 \/ ~Authenticates(input[r].view)
                /\ answer.status = 401 =>
                      /\ identity[r] # Nothing /\ identity[r].authenticator = Nothing
                      /\ answer.authenticate <=> /\ Authenticators(input[r]) # <<>>
                                                 /\ Authenticators(input[r])[1] = "jwt"
                /\ answer.status = 403 =>
                      IsWhole(identity[r]) /\ identity[r].authenticator # Nothing
                /\ answer.retry => answer.status = 429
                /\ answer.status = 429 => "denied" \in Results(r)
  <2> DEFINE asked == Authenticators(input[r])
             wanted == asked # <<>> /\ asked[1] = "jwt"
  <2>1. /\ IdentityOK(r) /\ failure[r] # Nothing /\ TurnedAway(r)
    <3>1. failure[r] # Nothing /\ IdentityOK(r) /\ FailureOK(r)
      BY <1>2, Answers DEF PipelineInv, RequestOK
    <3>2. failure[r] # Raising("sanic.ServiceUnavailable", 503)
      BY <1>2, <3>1 DEF TimedOut, Raising
    <3>3. QED
      BY <1>2, <3>1, <3>2 DEF FailureOK
  <2>2. /\ ApiStatus["AuthenticationFailed"] = 401 /\ ApiStatus["NotAuthenticated"] = 401
        /\ ApiStatus["PermissionDenied"] = 403 /\ ApiStatus["Throttled"] = 429
    BY DEF ApiStatus
  <2>3. PICK answer : answer = ErrorResponse(failure[r], asked)
    OBVIOUS
  <2>4. /\ responses[r][1] = answer
        /\ answer.exception /\ ~answer.odd => Len(responses[r]) = 1
    BY <1>2, <2>1, <2>3, Answers
  <2>5. /\ refusals[r] \in {0, 1}
        /\ Found(input[r]) # Refused => refusals[r] = 0
    BY <2>1 DEF IdentityOK
  <2>6. ASSUME NEW type \in {"AuthenticationFailed", "NotAuthenticated", "PermissionDenied", "Throttled"},
               NEW wait \in Nat,
               \/ failure[r] = [ApiException(type) EXCEPT !.wait = wait]
               \/ failure[r] = ApiException(type) /\ wait = 0
        PROVE  /\ answer.status = ApiStatus[type] /\ answer.coded /\ Len(responses[r]) = 1
               /\ answer.authenticate <=> type \in {"NotAuthenticated", "AuthenticationFailed"} /\ wanted
               /\ answer.retry <=> wait > 0
    BY <2>3, <2>4, <2>6, OwnResponse
  <2>7. ASSUME NEW type \in {"AuthenticationFailed", "NotAuthenticated", "PermissionDenied"},
               failure[r] = ApiException(type)
        PROVE  /\ answer.status = ApiStatus[type] /\ answer.coded /\ Len(responses[r]) = 1
               /\ answer.authenticate <=> type \in {"NotAuthenticated", "AuthenticationFailed"} /\ wanted
               /\ ~answer.retry
    <3>1. /\ answer.status = ApiStatus[type] /\ answer.coded /\ Len(responses[r]) = 1
          /\ answer.authenticate <=> type \in {"NotAuthenticated", "AuthenticationFailed"} /\ wanted
          /\ answer.retry <=> 0 > 0
      BY <2>6, <2>7
    <3>2. QED
      BY <3>1
  <2>8. CASE /\ failure[r] = ApiException("AuthenticationFailed")
             /\ identity[r] # Nothing /\ Found(input[r]) = Refused
    <3>1. /\ answer.status = 401 /\ answer.coded /\ Len(responses[r]) = 1
          /\ answer.authenticate <=> wanted
          /\ ~answer.retry
      BY <2>2, <2>7, <2>8
    <3>2. identity[r].authenticator = Nothing
      BY <2>1, <2>8 DEF IdentityOK, Whom, Anonymous
    <3>3. QED
      BY <2>4, <2>8, <3>1, <3>2
  <2>9. CASE /\ failure[r] = PermissionDenied(identity[r])
             /\ IsWhole(identity[r]) /\ Found(input[r]) # Refused
    <3>1. CASE identity[r].authenticator = Nothing
      <4>1. /\ answer.status = 401 /\ answer.coded /\ Len(responses[r]) = 1
            /\ answer.authenticate <=> wanted
            /\ ~answer.retry
        BY <2>2, <2>7, <2>9, <3>1 DEF PermissionDenied
      <4>2. QED
        BY <2>4, <2>5, <2>9, <3>1, <4>1 DEF IsWhole
    <3>2. CASE identity[r].authenticator # Nothing
      <4>1. /\ answer.status = 403 /\ answer.coded /\ Len(responses[r]) = 1
            /\ ~answer.retry
        BY <2>2, <2>7, <2>9, <3>2 DEF PermissionDenied
      <4>2. QED
        BY <2>4, <2>5, <2>9, <3>2, <4>1
    <3>3. QED
      BY <3>1, <3>2
  <2>10. CASE /\ failure[r] = Uncaught
              /\ "failed" \in Results(r) \/ CannotTell(input[r])
    <3>1. Uncaught.status = 500
      BY DEF Uncaught, Raising
    <3>2. /\ answer.status = 500 /\ answer.coded /\ answer.exception /\ ~answer.odd
          /\ answer.retry = FALSE
      <4>1. PICK e, as : e = Uncaught /\ as = asked
        OBVIOUS
      <4>2. answer = ErrorResponse(e, as)
        BY <2>3, <2>10, <4>1
      <4>3. /\ ErrorResponse(e, as).status = e.status /\ ErrorResponse(e, as).coded
            /\ ErrorResponse(e, as).exception /\ ErrorResponse(e, as).retry = FALSE
            /\ ~ErrorResponse(e, as).odd
        BY <4>1, OtherResponse, Zenon
      <4>4. QED
        BY <3>1, <4>1, <4>2, <4>3
    <3>3. refusals[r] = 0 \/ ~Authenticates(input[r].view)
      <4>1. Found(input[r]) = Refused => ~CannotTell(input[r])
        BY SentinelAssumption DEF CannotTell, Breaks, Sentinels
      <4>2. QED
        BY <1>2, <2>5, <2>10, <4>1, ThrottledAreEntitled
    <3>4. QED
      BY <2>4, <2>10, <3>2, <3>3
  <2>11. CASE "denied" \in Results(r) /\ \E wait \in Waits : failure[r] = Throttled(wait)
    <3>1. PICK wait \in Nat : failure[r] = [ApiException("Throttled") EXCEPT !.wait = wait]
      BY <2>11, PipelineAssumption DEF Throttled
    <3>2. answer.status = 429 /\ answer.coded /\ Len(responses[r]) = 1
      BY <2>2, <2>6, <3>1
    <3>3. refusals[r] = 0 \/ ~Authenticates(input[r].view)
      BY <1>2, <2>11, ThrottledAreEntitled
    <3>4. QED
      BY <2>4, <2>11, <3>2, <3>3
  <2>12. QED
    BY <1>2, <2>1, <2>8, <2>9, <2>10, <2>11 DEF TurnedAway
<1>3. PipelineInv => RefusalsAreTold
  BY <1>1, <1>2 DEF RefusalsAreTold
<1>4. QED
  BY <1>3, PipelineInvariance, PTL

\* protocol.py and handlers.py: a second response follows only what the handler
\* answers or raises itself, never what insanic refuses before it.
THEOREM AnswersOnce == Spec => []AnsweredOnce
<1>1. ASSUME PipelineInv, NEW r \in Requests, phase[r] = "responded", Len(responses[r]) # 1
      PROVE  /\ r \in entered
             /\ responses[r][2].coded
             /\ responses[r][1].odd \/ responses[r][1].status >= 500
             /\ \/ failure[r] = Nothing
                \/ failure[r].handled \in {"raises", "bare", "odd"}
                \/ failure[r].status \notin REVERSE_STATUS
                \/ ~failure[r].positional
  <2>1. CASE failure[r] = Nothing
    BY <1>1, <2>1, Answers
  <2>2. CASE failure[r] # Nothing
    <3>1. PICK e, asked : e = failure[r] /\ asked = Authenticators(input[r])
      OBVIOUS
    <3>2. /\ ~(ErrorResponse(e, asked).exception /\ ~ErrorResponse(e, asked).odd)
          /\ responses[r][1].odd \/ responses[r][1].status >= 500
          /\ responses[r][2].coded
      BY <1>1, <2>2, <3>1, Answers
    <3>3. ASSUME NEW type \in {"AuthenticationFailed", "NotAuthenticated", "PermissionDenied", "Throttled"},
                 NEW wait \in Nat,
                 \/ e = [ApiException(type) EXCEPT !.wait = wait]
                 \/ e = ApiException(type) /\ wait = 0
          PROVE  FALSE
      BY <3>2, <3>3, OwnResponse
    <3>4. e \notin {ApiException("AuthenticationFailed"), ApiException("NotAuthenticated"),
                    ApiException("PermissionDenied")}
      BY <3>3
    <3>5. \A wait \in Waits : e # Throttled(wait)
      BY <3>3, PipelineAssumption DEF Throttled
    <3>6. e \notin {Uncaught, Raising("sanic.NotFound", 404), Raising("sanic.ServiceUnavailable", 503)}
      BY <3>2, OtherResponse
    <3>7. ~TurnedAway(r) /\ FailureOK(r)
      BY <1>1, <3>1, <3>4, <3>5, <3>6 DEF TurnedAway, PipelineInv, RequestOK
    <3>8. r \in entered /\ e \in Exceptions[r]
      BY <2>2, <3>1, <3>4, <3>6, <3>7 DEF FailureOK
    <3>9. \/ e.handled \in {"raises", "bare", "odd"} \/ e.status \notin REVERSE_STATUS \/ ~e.positional
      BY <3>2, <3>8, PipelineAssumption, ExceptionIsKept
    <3>10. QED
      BY <3>1, <3>2, <3>8, <3>9
  <2>3. QED
    BY <2>1, <2>2
<1>2. PipelineInv => AnsweredOnce
  BY <1>1 DEF AnsweredOnce
<1>3. QED
  BY <1>2, PipelineInvariance, PTL
=============================================================================
