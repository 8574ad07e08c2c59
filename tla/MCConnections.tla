--------------------------- MODULE MCConnections ---------------------------
(***************************************************************************)
(* Two aliases: the pool of the throttles and one of the application.      *)
(***************************************************************************)
EXTENDS Connections, TLC

CONSTANTS throttle, application

Symmetry == Permutations(Tasks)
=============================================================================
