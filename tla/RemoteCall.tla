----------------------------- MODULE RemoteCall -----------------------------
(***************************************************************************)
(* What a call to another service promises, with no task, no connection   *)
(* and no retry in it: the other side executes it no more often than its   *)
(* budget, and the caller that waits for it gets one answer.  An execution *)
(* may come late, after the caller has failed or gone.                     *)
(***************************************************************************)
EXTENDS Integers

CONSTANTS Calls,
          Budget   \* [Calls -> Nat]: executions a call may cause

VARIABLES state, executions

vars == <<state, executions>>

Init == /\ state = [c \in Calls |-> "idle"]
        /\ executions = [c \in Calls |-> 0]

Open(c) == /\ state[c] = "idle"
           /\ state' = [state EXCEPT ![c] = "open"]
           /\ UNCHANGED executions

Execute(c) == /\ state[c] # "idle"
              /\ executions[c] < Budget[c]
              /\ executions' = [executions EXCEPT ![c] = @ + 1]
              /\ UNCHANGED state

\* The caller gets a value that the other side has computed.
Answer(c) == /\ state[c] = "open"
             /\ executions[c] > 0
             /\ state' = [state EXCEPT ![c] = "answered"]
             /\ UNCHANGED executions

\* The caller gets an exception, or is gone.
GiveUp(c) == /\ state[c] = "open"
             /\ state' \in {[state EXCEPT ![c] = s] : s \in {"failed", "cancelled"}}
             /\ UNCHANGED executions

Next == \E c \in Calls : Open(c) \/ Execute(c) \/ Answer(c) \/ GiveUp(c)

Spec == Init /\ [][Next]_vars
=============================================================================
