----------------------------- MODULE MCThrottle -----------------------------
(***************************************************************************)
(* One throttle class and one client: what the interleavings of the        *)
(* client's own requests do to its history.                                *)
(***************************************************************************)
EXTENDS ThrottleInvariant, TLC

CONSTANTS client, user, num, duration

MCClient == [r \in Requests |-> client]
MCOrder == <<user>>
MCNumRequests == [s \in Scopes |-> num]
MCDuration == [s \in Scopes |-> duration]

Symmetry == Permutations(Requests)
=============================================================================
