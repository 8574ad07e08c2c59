---------------------------- MODULE RateLimiter ----------------------------
(***************************************************************************)
(* What a rate throttle promises, with no cache, no coroutine and no       *)
(* connection in it.  An attempt is one request put to one throttle.  It   *)
(* is admitted, denied or void (exempt, failed or given up).  An admitted  *)
(* attempt occupies its key's budget for one window after its time stamp.  *)
(*                                                                         *)
(* Two strengths:                                                          *)
(*   Spec       never admits over the budget and never denies under it;    *)
(*   LooseSpec  never denies under the budget, admits what it likes.       *)
(***************************************************************************)
EXTENDS Integers, FiniteSets

CONSTANTS Attempts, Keys,
          KeyAt,     \* [Attempts -> Keys]
          Limit,     \* [Keys -> Nat]: attempts a window has room for
          Window,    \* [Keys -> Nat]: its length
          MaxTime    \* bound of the clock

VARIABLES now, outcome, stamp

vars == <<now, outcome, stamp>>

Init == /\ now = 0
        /\ outcome = [a \in Attempts |-> "open"]
        /\ stamp = [a \in Attempts |-> 0]

\* The admitted attempts that occupy key k at time t.
Occupying(k, t) ==
    {a \in Attempts : /\ outcome[a] = "admitted"
                      /\ KeyAt[a] = k
                      /\ t - Window[k] < stamp[a]
                      /\ stamp[a] <= t}

HasRoom(k, t) == Cardinality(Occupying(k, t)) < Limit[k]

Tick == /\ now < MaxTime
        /\ now' = now + 1
        /\ UNCHANGED <<outcome, stamp>>

\* An attempt is admitted at some moment before its effect is visible, and
\* denied at once.
AdmitAt(a, t) == /\ outcome[a] = "open"
                 /\ outcome' = [outcome EXCEPT ![a] = "admitted"]
                 /\ stamp' = [stamp EXCEPT ![a] = t]
                 /\ UNCHANGED now

\* Nothing admitted for key k carries a stamp later than t.
IsLatest(k, t) ==
    \A a \in Attempts : outcome[a] = "admitted" /\ KeyAt[a] = k => stamp[a] <= t

Admit(a) == \E t \in 0..now : /\ HasRoom(KeyAt[a], t)
                             /\ IsLatest(KeyAt[a], t)
                             /\ AdmitAt(a, t)

AdmitLoosely(a) == \E t \in 0..now : AdmitAt(a, t)

Deny(a) == /\ outcome[a] = "open"
           /\ ~HasRoom(KeyAt[a], now)
           /\ outcome' = [outcome EXCEPT ![a] = "denied"]
           /\ UNCHANGED <<now, stamp>>

\* A whole set at once: a cancelled request gives up all its attempts.
Void(A) == /\ \A a \in A : outcome[a] = "open"
           /\ outcome' = [a \in Attempts |-> IF a \in A THEN "void" ELSE outcome[a]]
           /\ UNCHANGED <<now, stamp>>

Next == \/ Tick
        \/ \E a \in Attempts : Admit(a) \/ Deny(a)
        \/ \E A \in SUBSET Attempts : Void(A)

LooseNext == \/ Tick
             \/ \E a \in Attempts : AdmitLoosely(a) \/ Deny(a)
             \/ \E A \in SUBSET Attempts : Void(A)

Spec == Init /\ [][Next]_vars

LooseSpec == Init /\ [][LooseNext]_vars
=============================================================================
