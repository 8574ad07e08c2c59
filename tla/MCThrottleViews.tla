--------------------------- MODULE MCThrottleViews ---------------------------
(***************************************************************************)
(* A view with an AnonRateThrottle, a throttle without a rate and two      *)
(* UserRateThrottles, one for bursts, and the requests of an authenticated *)
(* client: the first two throttles let them pass, the others count them    *)
(* under one gather.                                                       *)
(***************************************************************************)
EXTENDS Throttle

CONSTANTS anon, free, burst, user, member

MCClient == [r \in Requests |-> member]
MCOrder == <<anon, free, burst, user>>
MCNumRequests == [s \in Scopes |-> 1]
MCDuration == [s \in Scopes |-> IF s = user THEN 2 * Second ELSE Second]
=============================================================================
