---------------------------- MODULE Deprecation ----------------------------
(***************************************************************************)
(* The deprecate decorator (insanic/decorators.py): the handler of a       *)
(* deprecated endpoint warns the maintainers of whoever calls it, at most  *)
(* once in a period.  The table of last calls is the class's: all views of *)
(* the process share it.  The clock is a float timestamp                   *)
(* (get_utc_timestamp), of which the model keeps multiples of a tick that  *)
(* divides the period.                                                     *)
(***************************************************************************)
EXTENDS Integers

CONSTANTS
    Ttl,                            \* the decorator's ttl, 0 for none
    DEPRECATION_WARNING_FREQUENCY,  \* the setting used instead
    MaxTime                         \* bound on the clock

ASSUME DeprecationAssumption ==
    /\ Ttl \in Nat
    /\ DEPRECATION_WARNING_FREQUENCY \in Nat \ {0}
    /\ MaxTime \in Nat

VARIABLES
    now,        \* the time
    last_call,  \* the time of the last warning, for each key
    uses        \* the deprecated calls: by whom, of what, when, and if it warned

deprecation == <<now, last_call, uses>>

DeprecationInit == now = 0 /\ last_call = <<>> /\ uses = {}

Period == IF Ttl # 0 THEN Ttl ELSE DEPRECATION_WARNING_FREQUENCY

\* A new caller is one that was warned a period ago.
BugNewCaller(key) == IF key \in DOMAIN last_call THEN last_call[key] ELSE now
LastCall(key) == IF key \in DOMAIN last_call THEN last_call[key] ELSE now - Period

IsDue(key) == LastCall(key) + Period <= now

\* The wrapper, once it has the request: `by` calls the endpoint `key`.
Warn(by, key) ==
    /\ last_call' = [k \in DOMAIN last_call \cup {key} |->
                        IF k # key THEN last_call[k]
                        ELSE IF IsDue(key) THEN now ELSE LastCall(key)]
    /\ uses' = uses \cup {[by |-> by, key |-> key, at |-> now, warned |-> IsDue(key)]}
    /\ UNCHANGED now

Tick == now < MaxTime /\ now' = now + 1 /\ UNCHANGED <<last_call, uses>>

\* A caller is warned at most once in a period, and no call is made by one who
\* has not been warned within it: the first warns, one that comes a period later
\* to the second warns again.
WarnedOncePerPeriod ==
    \A u \in uses :
        /\ \E w \in uses : w.key = u.key /\ w.warned /\ u.at - w.at \in 0..(Period - 1)
        /\ u.warned => \A w \in uses \ {u} :
              w.key = u.key /\ w.warned => u.at - w.at >= Period \/ w.at - u.at >= Period
=============================================================================
