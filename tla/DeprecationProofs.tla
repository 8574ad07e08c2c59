------------------------- MODULE DeprecationProofs -------------------------
(***************************************************************************)
(* Lemmas about Deprecation for the modules that use it.  The period that  *)
(* a caller is in begins with its last warning, which is in the table; so  *)
(* the uses agree with the table (TableOK), whatever the order of calls.   *)
(***************************************************************************)
EXTENDS Deprecation, TLAPS

\* The table has the time of the last warning of everybody who has called.
TableOK ==
    /\ now \in Nat
    /\ \A k \in DOMAIN last_call :
          /\ last_call[k] \in 0..now
          /\ \E w \in uses : w.key = k /\ w.warned /\ w.at = last_call[k]
    /\ \A u \in uses :
          /\ u.key \in DOMAIN last_call
          /\ u.at \in 0..now
          /\ u.warned => u.at <= last_call[u.key]

DeprecationInv == TableOK /\ WarnedOncePerPeriod

\* A period has a length, so a call that is due is later than the last one.
LEMMA PeriodIsPositive == Period \in Nat \ {0}
  BY DeprecationAssumption DEF Period

\* Nobody has called yet.
LEMMA InitDeprecation == DeprecationInit => DeprecationInv
  BY DEF DeprecationInit, DeprecationInv, TableOK, WarnedOncePerPeriod

\* Time goes on.
LEMMA TickKeepsDeprecation ==
    ASSUME DeprecationInv, Tick
    PROVE  DeprecationInv'
  BY DeprecationAssumption DEF Tick, DeprecationInv, TableOK, WarnedOncePerPeriod

\* Steps of other parts.
LEMMA StutterKeepsDeprecation ==
    ASSUME DeprecationInv, UNCHANGED deprecation
    PROVE  DeprecationInv'
  BY DEF deprecation, DeprecationInv, TableOK, WarnedOncePerPeriod

\* A warning is due a period after the last one, and is then the last.
LEMMA WarnKeepsDeprecation ==
    ASSUME DeprecationInv, NEW by, NEW key, Warn(by, key)
    PROVE  DeprecationInv'
<1> DEFINE use == [by |-> by, key |-> key, at |-> now, warned |-> IsDue(key)]
<1> USE PeriodIsPositive DEF DeprecationInv, TableOK
<1>1. /\ now' = now
      /\ uses' = uses \cup {use}
      /\ use.key = key /\ use.at = now /\ (use.warned <=> IsDue(key))
  BY DEF Warn
<1>2. /\ DOMAIN last_call' = DOMAIN last_call \cup {key}
      /\ \A k \in DOMAIN last_call : k # key => last_call'[k] = last_call[k]
      /\ last_call'[key] = IF IsDue(key) THEN now ELSE LastCall(key)
  BY DEF Warn
<1>3. /\ key \notin DOMAIN last_call => IsDue(key)
      /\ key \in DOMAIN last_call => LastCall(key) = last_call[key]
      /\ IsDue(key) <=> LastCall(key) + Period <= now
  BY DEF IsDue, LastCall
<1> HIDE DEF use
<1>4. TableOK'
  BY <1>1, <1>2, <1>3
<1>5. WarnedOncePerPeriod'
  <2>1. ASSUME NEW u \in uses'
        PROVE  \E w \in uses' : w.key = u.key /\ w.warned /\ u.at - w.at \in 0..(Period - 1)
    <3>1. CASE u \in uses
      BY <1>1, <3>1 DEF WarnedOncePerPeriod
    <3>2. CASE u = use /\ IsDue(key)
      BY <1>1, <3>2
    <3>3. CASE u = use /\ ~IsDue(key)
      BY <1>1, <1>3, <3>3
    <3>4. QED
      BY <1>1, <2>1, <3>1, <3>2, <3>3
  <2>2. ASSUME NEW u \in uses', NEW w \in uses' \ {u}, u.warned, w.warned, w.key = u.key
        PROVE  u.at - w.at >= Period \/ w.at - u.at >= Period
    <3>1. CASE u \in uses /\ w \in uses
      BY <2>2, <3>1 DEF WarnedOncePerPeriod
    <3>2. CASE u = use /\ w \in uses
      BY <1>1, <1>3, <2>2, <3>2
    <3>3. CASE w = use /\ u \in uses
      BY <1>1, <1>3, <2>2, <3>3
    <3>4. QED
      BY <1>1, <2>2, <3>1, <3>2, <3>3
  <2>3. QED
    BY <2>1, <2>2 DEF WarnedOncePerPeriod
<1>6. QED
  BY <1>4, <1>5
=============================================================================
