-------------------------- MODULE MCServiceClient --------------------------
(***************************************************************************)
(* Over one connection: a GET that asks for more retries than it may have, *)
(* a POST that asks for one, and a GET that asks for less than none.       *)
(***************************************************************************)
EXTENDS ServiceClient

CONSTANTS get, post, odd

MCRetryCount == [c \in Calls |-> IF c = get THEN 5 ELSE IF c = post THEN 1 ELSE -1]
=============================================================================
