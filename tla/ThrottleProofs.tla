--------------------------- MODULE ThrottleProofs ---------------------------
(***************************************************************************)
(* ThrottleInv is an invariant of Throttle for every set of requests, view *)
(* and rate, and the safety properties of Throttle that follow from it.    *)
(***************************************************************************)
EXTENDS ThrottleInvariant, SequenceTheorems, FiniteSetTheorems, TLAPS

\* The key of a job is a key.
LEMMA KeyType == ASSUME NEW j \in Jobs PROVE KeyOf(j) \in Keys /\ KeyOf(j)[1] = j[2]
BY ThrottleAssumption DEF KeyOf, Keys, Jobs

\* A log stays one while its jobs keep their stamps.
LEMMA LogFrame ==
    ASSUME NEW h \in Seq(Requests), NEW k \in Keys, NEW S, NEW T, NEW at, NEW bt,
           S \subseteq T, \A q \in S : bt[q] = at[q],
           IsLog(h, k, S, at)
    PROVE  IsLog(h, k, T, bt)
BY DEF IsLog

\* The first n entries of a log are a log.
LEMMA LogPrefix ==
    ASSUME NEW h \in Seq(Requests), NEW k \in Keys, NEW S, NEW at,
           NEW n \in 0..Len(h),
           IsLog(h, k, S, at)
    PROVE  /\ SubSeq(h, 1, n) \in Seq(Requests)
           /\ Len(SubSeq(h, 1, n)) = n
           /\ \A i \in 1..n : SubSeq(h, 1, n)[i] = h[i]
           /\ IsLog(SubSeq(h, 1, n), k, S, at)
<1> DEFINE p == SubSeq(h, 1, n)
<1>1. \A i \in 1..n : h[i] \in Requests
  OBVIOUS
<1>2. p \in Seq(Requests) /\ Len(p) = n /\ \A i \in 1..n : p[i] = h[i]
  BY <1>1, SubSeqProperties
<1>3. DOMAIN p = 1..n /\ 1..n \subseteq DOMAIN h
  BY <1>2
<1> HIDE DEF p
<1>4. IsLog(p, k, S, at)
  BY <1>2, <1>3 DEF IsLog
<1> QED BY <1>2, <1>4 DEF p

\* A new job put in front of a log of its key, at a time no entry is past.
LEMMA LogInsert ==
    ASSUME NEW h \in Seq(Requests), NEW j \in Jobs, NEW S, NEW at,
           IsLog(h, KeyOf(j), S, at),
           j \notin S, S \subseteq Jobs, at \in [Jobs -> Nat],
           \A q \in S : at[q] <= at[j]
    PROVE  /\ Insert(j, h) \in Seq(Requests)
           /\ Len(Insert(j, h)) = Len(h) + 1
           /\ IsLog(Insert(j, h), KeyOf(j), S \cup {j}, at)
<1> DEFINE p == Insert(j, h)
           k == KeyOf(j)
<1>1. <<j[1]>> \in Seq(Requests) /\ Len(<<j[1]>>) = 1 /\ <<j[1]>>[1] = j[1]
  BY DEF Jobs
<1>2. /\ p \in Seq(Requests)
      /\ Len(p) = Len(h) + 1
      /\ \A i \in 1..(Len(h) + 1) : p[i] = IF i = 1 THEN j[1] ELSE h[i - 1]
  BY <1>1, ConcatProperties DEF Insert
<1>3. k[1] = j[2] /\ k[2] = Client[j[1]] /\ j = <<j[1], k[1]>>
  BY DEF KeyOf, Jobs
<1> HIDE DEF p, k
<1>4. <<p[1], k[1]>> = j /\ Client[p[1]] = k[2]
  <2>1. p[1] = j[1]
    BY <1>2
  <2> QED BY <2>1, <1>3
<1>5. \A i \in DOMAIN p : <<p[i], k[1]>> \in S \cup {j} /\ Client[p[i]] = k[2]
  <2> SUFFICES ASSUME NEW i \in DOMAIN p
               PROVE  <<p[i], k[1]>> \in S \cup {j} /\ Client[p[i]] = k[2]
    OBVIOUS
  <2>1. CASE i = 1
    BY <2>1, <1>4
  <2>2. CASE i # 1
    BY <2>2, <1>2 DEF IsLog, k
  <2> QED BY <2>1, <2>2
<1>6. ASSUME NEW i \in DOMAIN p, NEW m \in DOMAIN p, i < m
      PROVE  p[i] # p[m] /\ at[<<p[i], k[1]>>] >= at[<<p[m], k[1]>>]
  <2>1. m - 1 \in DOMAIN h /\ p[m] = h[m - 1]
    BY <1>2, <1>6
  <2>2. <<p[m], k[1]>> \in S
    BY <2>1 DEF IsLog, k
  <2>3. CASE i = 1
    <3>1. <<p[i], k[1]>> = j
      BY <2>3, <1>4
    <3>2. j # <<p[m], k[1]>> /\ at[<<p[m], k[1]>>] <= at[j]
      BY <2>2
    <3>3. at[j] \in Nat /\ at[<<p[m], k[1]>>] \in Nat
      BY <2>2
    <3> QED BY <3>1, <3>2, <3>3
  <2>4. CASE i # 1
    <3>1. i - 1 \in DOMAIN h /\ p[i] = h[i - 1] /\ i - 1 < m - 1
      BY <2>4, <1>2, <1>6
    <3> QED BY <3>1, <2>1 DEF IsLog, k
  <2> QED BY <2>3, <2>4
<1> QED BY <1>2, <1>5, <1>6 DEF IsLog, p, k

\* A log whose entries all have property InWindow has at most as many entries
\* as there are such jobs.
LEMMA LogCardinality ==
    ASSUME NEW h \in Seq(Requests), NEW k \in Keys, NEW S \in SUBSET Jobs, NEW at,
           NEW W, IsFiniteSet(W),
           IsLog(h, k, S, at),
           \A i \in DOMAIN h : <<h[i], k[1]>> \in W
    PROVE  Len(h) <= Cardinality(W)
<1> DEFINE f == [i \in 1..Len(h) |-> <<h[i], k[1]>>]
<1>1. f \in [1..Len(h) -> W]
  OBVIOUS
<1>2. ASSUME NEW i \in 1..Len(h), NEW m \in 1..Len(h), f[i] = f[m]
      PROVE  i = m
  <2>1. h[i] = h[m]
    BY <1>2
  <2>2. i \in DOMAIN h /\ m \in DOMAIN h
    OBVIOUS
  <2>3. ~(i < m) /\ ~(m < i)
    BY <2>1, <2>2 DEF IsLog
  <2> QED BY <2>3
<1> HIDE DEF f
<1>3. f \in Injection(1..Len(h), W)
  BY <1>1, <1>2 DEF Injection, IsInjective
<1>4. Len(h) \in Nat
  OBVIOUS
<1>5. Cardinality(1..Len(h)) <= Cardinality(W)
  BY <1>3, FS_Injection
<1>6. Cardinality(1..Len(h)) = Len(h)
  <2>1. 1 \in Int /\ Len(h) \in Int
    BY <1>4
  <2>2. Cardinality(1..Len(h)) = IF 1 > Len(h) THEN 0 ELSE Len(h) - 1 + 1
    BY <2>1, FS_Interval, Zenon
  <2> QED BY <1>4, <2>2
<1> QED BY <1>5, <1>6
-----------------------------------------------------------------------------
(* Types.                                                                  *)

\* What a denied job announces is a wait: its history is exactly full.
LEMMA DeniedWait ==
    ASSUME ThrottleInv, NEW j \in Jobs, pc[j] = "denied"
    PROVE  /\ WaitOf(j) \in 1..Duration[j[2]]
           /\ WaitOf(j) = IF seen[j] = <<>> THEN Duration[j[2]]
                          ELSE Duration[j[2]] - (stamp[j] - stamp[<<seen[j][Len(seen[j])], j[2]>>])
<1> DEFINE h == seen[j]
           N == NumRequests[j[2]]
           D == Duration[j[2]]
           at == stamp[<<h[Len(h)], j[2]>>]
           remaining == IF h = <<>> THEN D ELSE D - (stamp[j] - at)
<1>1. N \in Nat /\ D \in Nat \ {0} /\ h \in Seq(Requests) /\ stamp[j] \in Nat
  BY ThrottleAssumption DEF ThrottleInv, TypeOK, Jobs
<1>2. Len(h) = N
  <2>1. Len(h) <= N /\ N <= Len(h)
    BY DEF ThrottleInv, ReadLogs, DeniedIsFull
  <2> QED BY <2>1, <1>1
<1>3. remaining \in 1..D
  <2>1. CASE h = <<>>
    BY <2>1, <1>1
  <2>2. CASE h # <<>>
    <3>1. Len(h) \in DOMAIN h /\ h[Len(h)] \in Requests
      BY <2>2, <1>1
    <3>2. stamp[j] - D < at /\ at <= stamp[j]
      BY <3>1 DEF ThrottleInv, DeniedIsFull
    <3>3. at \in Nat
      BY <3>1 DEF ThrottleInv, TypeOK, Jobs
    <3> QED BY <2>2, <3>2, <3>3, <1>1
  <2> QED BY <2>1, <2>2
<1>4. N - Len(h) + 1 = 1
  BY <1>1, <1>2
<1>5. WaitOf(j) = IF N - Len(h) + 1 <= 0 THEN NoWait ELSE remaining \div (N - Len(h) + 1)
  BY DEF WaitOf, WaitAt
<1> HIDE DEF remaining, h, N
<1>6. WaitOf(j) = remaining \div 1
  BY <1>4, <1>5
<1>7. WaitOf(j) = remaining
  BY <1>6, <1>3, <1>1
<1> QED BY <1>3, <1>7 DEF remaining, h

\* Division with remainder.
LEMMA Quotient ==
    ASSUME NEW S \in Nat \ {0}, NEW x \in Nat
    PROVE  x \div S \in Nat /\ x % S \in 0..(S - 1) /\ x = (x \div S) * S + (x % S)
OBVIOUS

\* Fewer seconds than one more.
LEMMA Multiples ==
    ASSUME NEW S \in Nat \ {0}, NEW a \in Nat, NEW b \in Nat, a * S < (b + 1) * S
    PROVE  a <= b /\ a * S <= b * S
OBVIOUS

\* A multiple and the next.
LEMMA NextMultiple ==
    ASSUME NEW S \in Nat, NEW a \in Int
    PROVE  a * S \in Int /\ (a + 1) * S = a * S + S /\ (a - 1) * S = a * S - S
OBVIOUS

\* math.ceil: the least number of seconds that is enough, and no more than a bound
\* that is itself a number of seconds.
LEMMA Ceiling ==
    ASSUME NEW S \in Nat \ {0}, NEW w \in Nat \ {0}, NEW D \in Nat, D % S = 0, w <= D,
           NEW c, c = (w + S - 1) \div S
    PROVE  c \in Nat \ {0} /\ w <= c * S /\ (c - 1) * S <= w - 1 /\ c * S \in S..D
<1>1. PICK x : x = w + S - 1
  OBVIOUS
<1>2. x \in Nat /\ c = x \div S
  BY <1>1
<1>3. c \in Nat /\ x % S \in 0..(S - 1) /\ x = c * S + (x % S)
  <2>1. x \div S \in Nat /\ x % S \in 0..(S - 1) /\ x = (x \div S) * S + (x % S)
    BY <1>2, Quotient, Zenon
  <2> QED BY <1>2, <2>1, Zenon
<1>4. c * S \in Int /\ (c - 1) * S = c * S - S /\ (c + 1) * S = c * S + S
  BY <1>3, NextMultiple
<1>5. w <= c * S /\ (c - 1) * S <= w - 1
  BY <1>1, <1>3, <1>4
<1>6. c # 0
  BY <1>3, <1>5
<1>7. S <= c * S
  <2>1. PICK b : b = c - 1
    OBVIOUS
  <2>2. b \in Nat /\ c = b + 1
    BY <2>1, <1>3, <1>6
  <2>3. b * S \in Nat
    BY <2>2
  <2> QED BY <2>1, <2>3, <1>4
<1>8. c * S <= D
  <2>1. PICK n : n = D \div S
    OBVIOUS
  <2>2. n \in Nat /\ D = n * S
    <3>1. D \div S \in Nat /\ D = (D \div S) * S + (D % S)
      BY Quotient, Zenon
    <3>2. n \in Nat /\ D = n * S + 0
      BY <2>1, <3>1, Zenon
    <3> QED BY <3>2
  <2>3. (n + 1) * S = n * S + S
    BY <2>2, NextMultiple
  <2>4. c * S < (n + 1) * S
    BY <2>2, <2>3, <1>4, <1>5
  <2> QED BY <2>2, <2>4, <1>3, Multiples
<1> QED BY <1>3, <1>4, <1>5, <1>6, <1>7, <1>8

\* What a denied client is told.
LEMMA ToldWait ==
    ASSUME ThrottleInv, NEW j \in Jobs, pc[j] = "denied"
    PROVE  /\ Told(j) \in Nat \ {0}
           /\ Told(j) * Second \in Second..Duration[j[2]]
           /\ WaitOf(j) <= Told(j) * Second
           /\ (Told(j) - 1) * Second <= WaitOf(j) - 1
<1>1. j[2] \in Scopes /\ Duration[j[2]] \in Nat \ {0} /\ Second \in Nat \ {0}
  BY ThrottleAssumption DEF Jobs
<1>2. Duration[j[2]] % Second = 0
  BY <1>1, ThrottleAssumption
<1>3. PICK w : w = WaitOf(j)
  OBVIOUS
<1>4. w \in 1..Duration[j[2]]
  BY <1>3, DeniedWait
<1>5. w \in Nat \ {0} /\ w <= Duration[j[2]] /\ w # NoWait
  BY <1>1, <1>4 DEF NoWait
<1>6. Told(j) = (w + Second - 1) \div Second
  BY <1>3, <1>5 DEF Told
<1> QED BY <1>1, <1>2, <1>3, <1>5, <1>6, Ceiling

\* A pop leaves a prefix, and an insertion a history.
LEMMA PopType ==
    ASSUME TypeOK, NEW j \in Jobs, NEW n \in 0..Len(seen[j])
    PROVE  /\ SubSeq(seen[j], 1, n) \in Seq(Requests)
           /\ Insert(j, SubSeq(seen[j], 1, n)) \in Seq(Requests)
<1>1. seen[j] \in Seq(Requests)
  BY DEF TypeOK
<1>2. SubSeq(seen[j], 1, n) \in Seq(Requests)
  BY <1>1, SubSeqProperties
<1>3. <<j[1]>> \in Seq(Requests)
  BY DEF Jobs
<1> QED BY <1>2, <1>3, ConcatProperties DEF Insert

\* Each step keeps the types.
LEMMA TypeStep == ThrottleInv /\ [Next]_vars => TypeOK'
<1> SUFFICES ASSUME ThrottleInv, [Next]_vars PROVE TypeOK'
  OBVIOUS
<1> USE ThrottleAssumption
<1>0. TypeOK
  BY DEF ThrottleInv
<1>1. ASSUME NEW r \in Requests, CheckThrottles(r) PROVE TypeOK'
  BY <1>0, <1>1 DEF TypeOK, CheckThrottles, JobStates, RequestStates, Suspended, Finished
<1>2. ASSUME NEW r \in Requests, Handle(r) PROVE TypeOK'
  BY <1>0, <1>2 DEF TypeOK, Handle, RequestStates
<1>3. ASSUME NEW r \in Requests, Throttled(r) PROVE TypeOK'
  <2>1. PICK i \in DOMAIN Order : /\ pc[<<r, Order[i]>>] = "denied"
                                 /\ wait' = [wait EXCEPT ![r] = Told(<<r, Order[i]>>)]
    BY <1>3 DEF Throttled, IsFirstDenial
  <2>2. <<r, Order[i]>> \in Jobs
    BY DEF Jobs
  <2>4. Told(<<r, Order[i]>>) \in Nat
    BY <2>1, <2>2, ToldWait
  <2> QED BY <1>0, <1>3, <2>1, <2>4 DEF TypeOK, Throttled, RequestStates
<1>4. ASSUME NEW r \in Requests, Cancel(r) PROVE TypeOK'
  BY <1>0, <1>4 DEF TypeOK, Cancel, JobStates, RequestStates, Suspended, Finished, JobsOf
<1>5. ASSUME NEW j \in Jobs, Get(j) PROVE TypeOK'
  <2>1. GetReply(KeyOf(j)) \in Seq(Requests)
    BY <1>0, KeyType DEF TypeOK, GetReply
  <2> QED BY <1>0, <1>5, <2>1 DEF TypeOK, Get, Acquire, JobStates, Suspended
<1>6. ASSUME NEW j \in Jobs, ThrottleFailure(j) PROVE TypeOK'
  <2>1. PICK n \in 0..Len(seen[j]) :
           /\ stamp' = [stamp EXCEPT ![j] = now]
           /\ held' = held \ {j}
           /\ seen' = [seen EXCEPT ![j] = SubSeq(seen[j], 1, n)]
    BY <1>6 DEF ThrottleFailure, Resume, Release
  <2> QED BY <1>0, <1>6, <2>1, PopType DEF TypeOK, ThrottleFailure, JobStates, Finished
<1>7. ASSUME NEW j \in Jobs, ThrottleSuccess(j) PROVE TypeOK'
  <2>1. PICK n \in 0..Len(seen[j]) :
           /\ stamp' = [stamp EXCEPT ![j] = now]
           /\ held' = held \ {j}
           /\ seen' = [seen EXCEPT ![j] = Insert(j, SubSeq(seen[j], 1, n))]
    BY <1>7 DEF ThrottleSuccess, Resume, Release
  <2> QED BY <1>0, <1>7, <2>1, PopType DEF TypeOK, ThrottleSuccess, JobStates, Suspended
<1>8. ASSUME NEW j \in Jobs, SetKey(KeyOf(j), seen[j])
      PROVE  history' \in [Keys -> Seq(Requests)] /\ expires' \in [Keys -> Nat]
  <2>1. now + Duration[KeyOf(j)[1]] \in Nat
    BY <1>0, KeyType DEF TypeOK, Keys
  <2> QED BY <1>0, <1>8, <2>1, KeyType DEF TypeOK, SetKey, ExpiryOf
<1>9. ASSUME NEW j \in Jobs, Set(j) PROVE TypeOK'
  BY <1>0, <1>8, <1>9 DEF TypeOK, Set, Acquire, JobStates, Suspended
<1>10. ASSUME NEW j \in Jobs, Allow(j) PROVE TypeOK'
  BY <1>0, <1>10 DEF TypeOK, Allow, Release, JobStates, Finished
<1>11. ASSUME NEW j \in Jobs, Raise(j) PROVE TypeOK'
  <2>1. j[1] \in Requests
    BY DEF Jobs
  <2> QED BY <1>0, <1>11, <2>1 DEF TypeOK, Raise, Release, JobStates, Finished, RequestStates
<1>12. ASSUME NEW j \in Jobs, LateSet(j) PROVE TypeOK'
  BY <1>0, <1>8, <1>12 DEF TypeOK, LateSet, JobStates, Finished
<1>13. ASSUME NEW j \in Jobs, LoseSet(j) PROVE TypeOK'
  BY <1>0, <1>13 DEF TypeOK, LoseSet, JobStates, Finished
<1>14. CASE Tick
  BY <1>0, <1>14 DEF TypeOK, Tick
<1>15. CASE Done \/ UNCHANGED vars
  BY <1>0, <1>15 DEF TypeOK, Done, vars
<1> QED BY <1>1, <1>2, <1>3, <1>4, <1>5, <1>6, <1>7, <1>9, <1>10, <1>11, <1>12, <1>13,
           <1>14, <1>15 DEF Next, JobStep

\* The jobs of a request that has not come yet have not begun.
LEMMA IdleStep == ThrottleInv /\ [Next]_vars => NewIsIdle'
<1> SUFFICES ASSUME ThrottleInv, [Next]_vars, NEW q \in Jobs, status'[q[1]] = "new"
             PROVE  pc'[q] = "idle"
  BY DEF NewIsIdle
<1>0. /\ pc \in [Jobs -> JobStates]
      /\ status \in [Requests -> RequestStates]
      /\ q[1] \in Requests
      /\ status[q[1]] = "new" => pc[q] = "idle"
  BY DEF ThrottleInv, TypeOK, NewIsIdle, Jobs
<1>1. ASSUME NEW r \in Requests,
             CheckThrottles(r) \/ Handle(r) \/ Throttled(r) \/ Cancel(r)
      PROVE  pc'[q] = "idle"
  <2>1. q[1] # r /\ status'[q[1]] = status[q[1]]
    BY <1>0, <1>1 DEF CheckThrottles, Handle, Throttled, Cancel
  <2>2. CASE CheckThrottles(r) \/ Handle(r) \/ Throttled(r)
    BY <1>0, <2>1, <2>2 DEF CheckThrottles, Handle, Throttled
  <2>3. CASE Cancel(r)
    <3>1. PICK onWire \in SUBSET {j \in JobsOf(r) : pc[j] = "set"} :
             pc' = [j \in Jobs |-> IF j \in onWire THEN "wire"
                                   ELSE IF j[1] = r /\ pc[j] \in Suspended THEN "cancelled"
                                   ELSE pc[j]]
      BY <2>3 DEF Cancel
    <3> QED BY <1>0, <2>1, <3>1 DEF JobsOf
  <2> QED BY <1>1, <2>2, <2>3
<1>2. ASSUME NEW j \in Jobs, NEW s, pc' = [pc EXCEPT ![j] = s], pc[j] # "idle",
             status'[q[1]] = status[q[1]]
      PROVE  pc'[q] = "idle"
  BY <1>0, <1>2
<1>3. ASSUME NEW j \in Jobs, JobStep(j) \/ LateSet(j) \/ LoseSet(j)
      PROVE  pc'[q] = "idle"
  BY <1>2, <1>3 DEF JobStep, Get, ThrottleFailure, ThrottleSuccess, Set, Allow, LateSet,
                    LoseSet, Resume
<1>4. ASSUME NEW j \in Jobs, Raise(j)
      PROVE  pc'[q] = "idle"
  <2>1. j[1] \in Requests
    BY DEF Jobs
  <2>2. status'[q[1]] = status[q[1]]
    BY <1>0, <1>4, <2>1 DEF Raise
  <2> QED BY <1>2, <1>4, <2>2 DEF Raise, Suspended
<1>5. CASE Tick \/ Done \/ UNCHANGED vars
  BY <1>0, <1>5 DEF Tick, Done, vars
<1> QED BY <1>1, <1>3, <1>4, <1>5 DEF Next
-----------------------------------------------------------------------------
(* The inductive invariant.                                                *)

\* Steps that touch no history, stamp or record: they may move a job out of the
\* states the invariant speaks of, or from "set" to "wire".
LEMMA QuietStep ==
    ASSUME ThrottleInv, TypeOK', NewIsIdle',
           UNCHANGED <<history, expires, seen, stamp, recorded>>,
           now' >= now,
           \A j \in Jobs : pc'[j] \in {"got", "denied"} => pc[j] = pc'[j],
           \A j \in Jobs : pc'[j] \in {"set", "wire"} => pc[j] \in {"set", "wire"},
           \A j \in recorded : pc'[j] \in {"stored", "allowed", "raised", "cancelled"}
    PROVE  ThrottleInv'
<1>1. StoredLogs'
  BY DEF ThrottleInv, StoredLogs
<1>2. ReadLogs'
  BY DEF ThrottleInv, ReadLogs
<1>3. LogsToWrite'
  BY DEF ThrottleInv, LogsToWrite
<1>4. DeniedIsFull'
  BY DEF ThrottleInv, DeniedIsFull
<1>5. RecordedIsFinal'
  BY DEF ThrottleInv, RecordedIsFinal
<1>6. StampsArePast'
  <2>1. now \in Int /\ now' \in Int /\ \A j \in Jobs : stamp[j] \in Int
    BY DEF ThrottleInv, TypeOK
  <2> QED BY <2>1 DEF ThrottleInv, StampsArePast
<1>7. ExpiryCovers'
  BY DEF ThrottleInv, ExpiryCovers, KeyOf
<1> QED BY <1>1, <1>2, <1>3, <1>4, <1>5, <1>6, <1>7 DEF ThrottleInv

\* GET returns a log.
LEMMA GetStep ==
    ASSUME ThrottleInv, TypeOK', NewIsIdle', NEW j \in Jobs, Get(j)
    PROVE  ThrottleInv'
<1> USE ThrottleAssumption
<1> DEFINE k == KeyOf(j)
<1>1. /\ UNCHANGED <<now, history, expires, stamp, recorded>>
      /\ pc' = [pc EXCEPT ![j] = "got"]
      /\ pc[j] = "get"
      /\ seen' = [seen EXCEPT ![j] = GetReply(k)]
  BY DEF Get
<1>2. pc \in [Jobs -> JobStates] /\ seen \in [Jobs -> Seq(Requests)] /\ recorded \subseteq Jobs
  BY DEF ThrottleInv, TypeOK
<1>3. k \in Keys /\ k[1] = j[2]
  BY KeyType
<1>4. StoredLogs'
  BY <1>1 DEF ThrottleInv, StoredLogs
<1>5. ReadLogs'
  <2>1. IsLog(GetReply(k), k, recorded, stamp) /\ Len(GetReply(k)) <= NumRequests[j[2]]
    <3>1. CASE now < expires[k]
      BY <3>1, <1>3 DEF GetReply, ThrottleInv, StoredLogs
    <3>2. CASE ~(now < expires[k])
      <4>1. GetReply(k) = <<>> /\ NumRequests[j[2]] \in Nat
        BY <3>2 DEF GetReply, Jobs
      <4> QED BY <4>1 DEF IsLog
    <3> QED BY <3>1, <3>2
  <2> QED BY <2>1, <1>1, <1>2 DEF ThrottleInv, ReadLogs
<1>6. LogsToWrite'
  BY <1>1, <1>2 DEF ThrottleInv, LogsToWrite
<1>7. DeniedIsFull'
  BY <1>1, <1>2 DEF ThrottleInv, DeniedIsFull
<1>8. RecordedIsFinal'
  BY <1>1, <1>2 DEF ThrottleInv, RecordedIsFinal
<1>9. StampsArePast' /\ ExpiryCovers'
  BY <1>1 DEF ThrottleInv, StampsArePast, ExpiryCovers, KeyOf
<1> QED BY <1>4, <1>5, <1>6, <1>7, <1>8, <1>9 DEF ThrottleInv

\* A decision stamps a job that is not recorded: every log keeps its order.
LEMMA DecisionStep ==
    ASSUME ThrottleInv, TypeOK', NewIsIdle', NEW j \in Jobs, NEW n, Resume(j, n),
           UNCHANGED <<now, history, expires, recorded>>,
           NEW h, seen' = [seen EXCEPT ![j] = h],
           NEW s \in {"denied", "set"}, pc' = [pc EXCEPT ![j] = s],
           s = "denied" => h = SubSeq(seen[j], 1, n) /\ IsOverLimit(j, n),
           s = "set" => h = Insert(j, SubSeq(seen[j], 1, n)) /\ ~IsOverLimit(j, n)
    PROVE  ThrottleInv'
<1> USE ThrottleAssumption
<1> DEFINE k == KeyOf(j)
           p == SubSeq(seen[j], 1, n)
<1>1. /\ pc[j] = "got"
      /\ n \in 0..Len(seen[j])
      /\ stamp' = [stamp EXCEPT ![j] = now]
      /\ n > 0 => stamp[<<seen[j][n], j[2]>>] > now - Duration[j[2]]
  <2>1. n \in 0..Len(seen[j]) /\ (n > 0 => ~(stamp[<<seen[j][n], j[2]>>] <= now - Duration[j[2]]))
    BY DEF Resume, IsPopped
  <2>2. seen[j] \in Seq(Requests) /\ now \in Int /\ Duration[j[2]] \in Int
    BY DEF ThrottleInv, TypeOK, Jobs
  <2>3. n > 0 => <<seen[j][n], j[2]>> \in Jobs
    BY <2>1, <2>2 DEF Jobs
  <2>4. n > 0 => stamp[<<seen[j][n], j[2]>>] \in Int
    BY <2>3 DEF ThrottleInv, TypeOK
  <2> QED BY <2>1, <2>2, <2>4 DEF Resume
<1>2. /\ pc \in [Jobs -> JobStates]
      /\ seen \in [Jobs -> Seq(Requests)]
      /\ stamp \in [Jobs -> Nat]
      /\ stamp' \in [Jobs -> Nat]
      /\ history \in [Keys -> Seq(Requests)]
      /\ recorded \subseteq Jobs
      /\ now \in Nat
  BY DEF ThrottleInv, TypeOK
<1>3. k \in Keys /\ k[1] = j[2] /\ NumRequests[j[2]] \in Nat /\ Duration[j[2]] \in Nat
  BY KeyType DEF Jobs
<1>4. j \notin recorded
  BY <1>1 DEF ThrottleInv, RecordedIsFinal
<1>5. \A q \in recorded : stamp'[q] = stamp[q] /\ stamp'[q] <= stamp'[j]
  BY <1>1, <1>2, <1>4 DEF ThrottleInv, StampsArePast
<1>6. IsLog(seen[j], k, recorded, stamp') /\ Len(seen[j]) <= NumRequests[j[2]]
  <2>1. IsLog(seen[j], k, recorded, stamp) /\ Len(seen[j]) <= NumRequests[j[2]]
    BY <1>1 DEF ThrottleInv, ReadLogs
  <2> QED BY <2>1, <1>2, <1>3, <1>5, LogFrame
<1>7. /\ p \in Seq(Requests) /\ Len(p) = n /\ IsLog(p, k, recorded, stamp')
      /\ \A i \in 1..n : p[i] = seen[j][i]
  BY <1>1, <1>2, <1>3, <1>6, LogPrefix
<1> HIDE DEF p, k
<1>8. StoredLogs'
  <2> SUFFICES ASSUME NEW l \in Keys
               PROVE  IsLog(history[l], l, recorded, stamp') /\ Len(history[l]) <= NumRequests[l[1]]
    BY DEF StoredLogs
  <2>1. IsLog(history[l], l, recorded, stamp) /\ Len(history[l]) <= NumRequests[l[1]]
    BY DEF ThrottleInv, StoredLogs
  <2> QED BY <2>1, <1>2, <1>5, LogFrame
<1>9. ReadLogs'
  <2> SUFFICES ASSUME NEW q \in Jobs, pc'[q] \in {"got", "denied"}
               PROVE  /\ IsLog(seen'[q], KeyOf(q), recorded, stamp')
                      /\ Len(seen'[q]) <= NumRequests[q[2]]
    BY DEF ReadLogs
  <2>1. CASE q = j
    <3>1. seen'[q] = p
      BY <2>1, <1>2 DEF p
    <3>2. Len(p) <= NumRequests[j[2]]
      BY <1>1, <1>2, <1>3, <1>6, <1>7
    <3> QED BY <2>1, <3>1, <3>2, <1>7 DEF k
  <2>2. CASE q # j
    <3>1. seen'[q] = seen[q] /\ pc[q] \in {"got", "denied"}
      BY <2>2, <1>2
    <3>2. IsLog(seen[q], KeyOf(q), recorded, stamp) /\ Len(seen[q]) <= NumRequests[q[2]]
      BY <3>1 DEF ThrottleInv, ReadLogs
    <3> QED BY <3>1, <3>2, <1>2, <1>5, KeyType, LogFrame
  <2> QED BY <2>1, <2>2
<1>10. LogsToWrite'
  <2> SUFFICES ASSUME NEW q \in Jobs, pc'[q] \in {"set", "wire"}
               PROVE  /\ IsLog(seen'[q], KeyOf(q), recorded \cup {q}, stamp')
                      /\ Len(seen'[q]) <= NumRequests[q[2]]
    BY DEF LogsToWrite
  <2>1. CASE q = j
    <3>1. s = "set" /\ seen'[q] = Insert(j, p)
      BY <2>1, <1>2 DEF p
    <3>2. /\ Len(Insert(j, p)) = n + 1
          /\ IsLog(Insert(j, p), k, recorded \cup {j}, stamp')
      BY <1>2, <1>4, <1>5, <1>7, LogInsert DEF k
    <3>3. n + 1 <= NumRequests[j[2]]
      BY <3>1, <1>1, <1>2, <1>3 DEF IsOverLimit
    <3> QED BY <2>1, <3>1, <3>2, <3>3 DEF k
  <2>2. CASE q # j
    <3>1. seen'[q] = seen[q] /\ pc[q] \in {"set", "wire"}
      BY <2>2, <1>2
    <3>2. IsLog(seen[q], KeyOf(q), recorded \cup {q}, stamp) /\ Len(seen[q]) <= NumRequests[q[2]]
      BY <3>1 DEF ThrottleInv, LogsToWrite
    <3>3. \A x \in recorded \cup {q} : stamp'[x] = stamp[x]
      BY <2>2, <1>1, <1>2, <1>5
    <3> QED BY <3>1, <3>2, <3>3, <1>2, KeyType, LogFrame
  <2> QED BY <2>1, <2>2
<1>11. DeniedIsFull'
  <2> SUFFICES ASSUME NEW q \in Jobs, pc'[q] = "denied"
               PROVE  /\ NumRequests[q[2]] <= Len(seen'[q])
                      /\ \A i \in DOMAIN seen'[q] :
                            /\ stamp'[q] - Duration[q[2]] < stamp'[<<seen'[q][i], q[2]>>]
                            /\ stamp'[<<seen'[q][i], q[2]>>] <= stamp'[q]
    BY DEF DeniedIsFull
  <2>1. CASE q = j
    <3>1. s = "denied" /\ seen'[q] = p /\ NumRequests[j[2]] <= Len(p) /\ stamp'[j] = now
      BY <2>1, <1>1, <1>2, <1>7 DEF p, IsOverLimit
    <3>2. ASSUME NEW i \in DOMAIN p
          PROVE  /\ now - Duration[j[2]] < stamp'[<<p[i], j[2]>>]
                 /\ stamp'[<<p[i], j[2]>>] <= now
      <4>1. i \in 1..n /\ n \in Int /\ n \in DOMAIN p /\ n > 0 /\ p[n] = seen[j][n]
        <5>1. Len(seen[j]) \in Nat
          BY <1>2
        <5> QED BY <5>1, <1>1, <1>7
      <4>2. <<p[i], j[2]>> \in recorded /\ <<p[n], j[2]>> \in recorded
        BY <4>1, <1>3, <1>7 DEF IsLog
      <4>3. stamp'[<<p[n], j[2]>>] > now - Duration[j[2]]
        BY <4>1, <4>2, <1>1, <1>5
      <4>4. stamp'[<<p[i], j[2]>>] >= stamp'[<<p[n], j[2]>>]
        <5>1. CASE i = n
          BY <5>1, <4>2, <1>2
        <5>2. CASE i # n
          <6>1. i < n
            BY <5>2, <4>1
          <6>2. stamp'[<<p[i], k[1]>>] >= stamp'[<<p[n], k[1]>>]
            BY <6>1, <4>1, <1>7 DEF IsLog
          <6> QED BY <6>2, <1>3
        <5> QED BY <5>1, <5>2
      <4>5. stamp'[<<p[i], j[2]>>] <= now
        BY <4>2, <1>5, <3>1
      <4>6. now - Duration[j[2]] \in Int
        BY <1>2, <1>3
      <4>7. <<p[i], j[2]>> \in Jobs /\ <<p[n], j[2]>> \in Jobs
        BY <4>2, <1>2
      <4>8. stamp'[<<p[i], j[2]>>] \in Int /\ stamp'[<<p[n], j[2]>>] \in Int
        BY <4>7, <1>2
      <4> QED BY <4>3, <4>4, <4>5, <4>6, <4>8
    <3> QED BY <2>1, <3>1, <3>2
  <2>2. CASE q # j
    <3>1. seen'[q] = seen[q] /\ pc[q] = "denied" /\ stamp'[q] = stamp[q]
      BY <2>2, <1>1, <1>2
    <3>2. \A i \in DOMAIN seen[q] : <<seen[q][i], q[2]>> \in recorded
      BY <3>1, KeyType DEF ThrottleInv, ReadLogs, IsLog
    <3> QED BY <3>1, <3>2, <1>5 DEF ThrottleInv, DeniedIsFull
  <2> QED BY <2>1, <2>2
<1>12. RecordedIsFinal'
  BY <1>2, <1>4 DEF ThrottleInv, RecordedIsFinal
<1>13. StampsArePast'
  BY <1>1, <1>2 DEF ThrottleInv, StampsArePast
<1>14. ExpiryCovers'
  BY <1>5 DEF ThrottleInv, ExpiryCovers, KeyOf
<1> QED BY <1>8, <1>9, <1>10, <1>11, <1>12, <1>13, <1>14 DEF ThrottleInv

\* SET makes a log of what the job was about to write, and of the job itself a
\* recorded one.  The key now lives one period longer than any stamp.
LEMMA WriteStep ==
    ASSUME ThrottleInv, TypeOK', NewIsIdle', NEW j \in Jobs, pc[j] \in {"set", "wire"},
           SetKey(KeyOf(j), seen[j]),
           recorded' = recorded \cup {j},
           NEW s \in {"stored", "cancelled"}, pc' = [pc EXCEPT ![j] = s],
           UNCHANGED <<now, seen, stamp>>
    PROVE  ThrottleInv'
<1> USE ThrottleAssumption
<1> DEFINE k == KeyOf(j)
<1>1. /\ history' = [history EXCEPT ![k] = seen[j]]
      /\ expires' = [expires EXCEPT ![k] = now + Duration[k[1]]]
  BY DEF SetKey, ExpiryOf
<1>2. /\ pc \in [Jobs -> JobStates]
      /\ seen \in [Jobs -> Seq(Requests)]
      /\ stamp \in [Jobs -> Nat]
      /\ history \in [Keys -> Seq(Requests)]
      /\ expires \in [Keys -> Nat]
      /\ now \in Nat
  BY DEF ThrottleInv, TypeOK
<1>3. k \in Keys /\ k[1] = j[2]
  BY KeyType
<1>4. recorded \subseteq recorded'
  OBVIOUS
<1> HIDE DEF k
<1>5. StoredLogs'
  <2> SUFFICES ASSUME NEW l \in Keys
               PROVE  IsLog(history'[l], l, recorded', stamp) /\ Len(history'[l]) <= NumRequests[l[1]]
    BY DEF StoredLogs
  <2>1. CASE l = k
    <3>1. history'[l] = seen[j]
      BY <2>1, <1>1, <1>2
    <3>2. IsLog(seen[j], k, recorded', stamp) /\ Len(seen[j]) <= NumRequests[j[2]]
      BY DEF ThrottleInv, LogsToWrite, k
    <3> QED BY <2>1, <3>1, <3>2, <1>3
  <2>2. CASE l # k
    <3>1. history'[l] = history[l]
      BY <2>2, <1>1, <1>2
    <3>2. IsLog(history[l], l, recorded, stamp) /\ Len(history[l]) <= NumRequests[l[1]]
      BY DEF ThrottleInv, StoredLogs
    <3> QED BY <3>1, <3>2, <1>2, <1>4, LogFrame
  <2> QED BY <2>1, <2>2
<1>6. ReadLogs'
  <2> SUFFICES ASSUME NEW q \in Jobs, pc'[q] \in {"got", "denied"}
               PROVE  /\ IsLog(seen[q], KeyOf(q), recorded', stamp)
                      /\ Len(seen[q]) <= NumRequests[q[2]]
    BY DEF ReadLogs
  <2>1. pc[q] \in {"got", "denied"}
    BY <1>2
  <2>2. IsLog(seen[q], KeyOf(q), recorded, stamp) /\ Len(seen[q]) <= NumRequests[q[2]]
    BY <2>1 DEF ThrottleInv, ReadLogs
  <2> QED BY <2>2, <1>2, <1>4, KeyType, LogFrame
<1>7. LogsToWrite'
  <2> SUFFICES ASSUME NEW q \in Jobs, pc'[q] \in {"set", "wire"}
               PROVE  /\ IsLog(seen[q], KeyOf(q), recorded' \cup {q}, stamp)
                      /\ Len(seen[q]) <= NumRequests[q[2]]
    BY DEF LogsToWrite
  <2>1. pc[q] \in {"set", "wire"}
    BY <1>2
  <2>2. IsLog(seen[q], KeyOf(q), recorded \cup {q}, stamp) /\ Len(seen[q]) <= NumRequests[q[2]]
    BY <2>1 DEF ThrottleInv, LogsToWrite
  <2>3. recorded \cup {q} \subseteq recorded' \cup {q}
    BY <1>4
  <2> QED BY <2>2, <2>3, <1>2, KeyType, LogFrame
<1>8. DeniedIsFull'
  <2>1. \A q \in Jobs : pc'[q] = "denied" => pc[q] = "denied"
    BY <1>2
  <2> QED BY <2>1 DEF ThrottleInv, DeniedIsFull
<1>9. RecordedIsFinal'
  BY <1>2 DEF ThrottleInv, RecordedIsFinal
<1>10. StampsArePast'
  BY DEF ThrottleInv, StampsArePast
<1>11. ExpiryCovers'
  <2> SUFFICES ASSUME NEW q \in recorded'
               PROVE  stamp[q] + Duration[q[2]] <= expires'[KeyOf(q)]
    BY DEF ExpiryCovers, KeyOf
  <2>1. q \in Jobs
    BY DEF ThrottleInv, TypeOK
  <2>2. CASE KeyOf(q) = k
    <3>1. q[2] = j[2] /\ Duration[j[2]] \in Nat
      BY <2>1, <2>2, <1>3, KeyType DEF Jobs
    <3>2. expires'[KeyOf(q)] = now + Duration[j[2]]
      BY <2>2, <1>1, <1>2, <1>3
    <3>3. stamp[q] <= now
      BY <2>1 DEF ThrottleInv, StampsArePast
    <3> QED BY <3>1, <3>2, <3>3, <2>1, <1>2
  <2>3. CASE KeyOf(q) # k
    <3>1. q \in recorded
      BY <2>3 DEF k
    <3>2. expires'[KeyOf(q)] = expires[KeyOf(q)]
      BY <2>1, <2>3, <1>1, <1>2, KeyType
    <3> QED BY <3>1, <3>2 DEF ThrottleInv, ExpiryCovers
  <2> QED BY <2>2, <2>3
<1> QED BY <1>5, <1>6, <1>7, <1>8, <1>9, <1>10, <1>11 DEF ThrottleInv

\* ThrottleInv: whatever the requests, the view's throttles, their rates, the
\* pool and the failures, every history in Redis or in a coroutine is a log of
\* at most NumRequests recorded requests, and every denial read a full one.
THEOREM ThrottleInvariance == Spec => []ThrottleInv
<1>1. Init => ThrottleInv
  <2> SUFFICES ASSUME Init PROVE ThrottleInv
    OBVIOUS
  <2> USE ThrottleAssumption
  <2>1. TypeOK
    BY DEF Init, TypeOK, JobStates, RequestStates, NoWait
  <2>2. StoredLogs
    <3> SUFFICES ASSUME NEW k \in Keys
                 PROVE  IsLog(history[k], k, recorded, stamp) /\ Len(history[k]) <= NumRequests[k[1]]
      BY DEF StoredLogs
    <3>1. history[k] = <<>> /\ NumRequests[k[1]] \in Nat
      BY DEF Init, Keys
    <3> QED BY <3>1 DEF IsLog
  <2>3. ReadLogs /\ LogsToWrite /\ DeniedIsFull
    BY DEF Init, ReadLogs, LogsToWrite, DeniedIsFull
  <2>4. NewIsIdle /\ RecordedIsFinal /\ StampsArePast /\ ExpiryCovers
    BY DEF Init, NewIsIdle, RecordedIsFinal, StampsArePast, ExpiryCovers
  <2> QED BY <2>1, <2>2, <2>3, <2>4 DEF ThrottleInv
<1>2. ThrottleInv /\ [Next]_vars => ThrottleInv'
  <2> SUFFICES ASSUME ThrottleInv, [Next]_vars PROVE ThrottleInv'
    OBVIOUS
  <2>0. /\ TypeOK' /\ NewIsIdle'
        /\ now \in Int
        /\ pc \in [Jobs -> JobStates]
        /\ \A j \in recorded : j \in Jobs /\ pc[j] \in {"stored", "allowed", "raised", "cancelled"}
    BY TypeStep, IdleStep DEF ThrottleInv, TypeOK, RecordedIsFinal
  <2>1. ASSUME NEW r \in Requests, CheckThrottles(r) PROVE ThrottleInv'
    <3>1. /\ UNCHANGED <<history, expires, seen, stamp, recorded>>
          /\ now' = now
          /\ \A j \in Jobs : pc'[j] = IF j[1] # r THEN pc[j]
                                     ELSE IF IsExempt(j) THEN "allowed" ELSE "get"
      BY <2>1 DEF CheckThrottles
    <3>2. \A j \in Jobs : pc'[j] \in {"got", "denied"} => pc[j] = pc'[j]
      BY <3>1
    <3>3. \A j \in Jobs : pc'[j] \in {"set", "wire"} => pc[j] \in {"set", "wire"}
      BY <3>1
    <3>4. \A j \in recorded : pc'[j] \in {"stored", "allowed", "raised", "cancelled"}
      <4>1. SUFFICES ASSUME NEW j \in recorded, j[1] = r
                     PROVE  FALSE
        BY <2>0, <3>1
      <4> QED BY <2>0, <2>1, <4>1 DEF CheckThrottles, ThrottleInv, NewIsIdle
    <3> QED BY <2>0, <3>1, <3>2, <3>3, <3>4, QuietStep
  <2>2. ASSUME NEW r \in Requests, Handle(r) PROVE ThrottleInv'
    BY <2>0, <2>2, QuietStep DEF Handle
  <2>3. ASSUME NEW r \in Requests, Throttled(r) PROVE ThrottleInv'
    BY <2>0, <2>3, QuietStep DEF Throttled
  <2>4. ASSUME NEW r \in Requests, Cancel(r) PROVE ThrottleInv'
    <3>1. PICK onWire \in SUBSET {j \in JobsOf(r) : pc[j] = "set"} :
             pc' = [j \in Jobs |-> IF j \in onWire THEN "wire"
                                   ELSE IF j[1] = r /\ pc[j] \in Suspended THEN "cancelled"
                                   ELSE pc[j]]
      BY <2>4 DEF Cancel
    <3>2. /\ UNCHANGED <<history, expires, seen, stamp, recorded>>
          /\ now' = now
      BY <2>4 DEF Cancel
    <3>3. \A j \in Jobs : pc'[j] \in {"got", "denied"} => pc[j] = pc'[j]
      BY <3>1
    <3>4. \A j \in Jobs : pc'[j] \in {"set", "wire"} => pc[j] \in {"set", "wire"}
      BY <3>1
    <3>5. \A j \in recorded : pc'[j] \in {"stored", "allowed", "raised", "cancelled"}
      BY <2>0, <3>1
    <3> QED BY <2>0, <3>2, <3>3, <3>4, <3>5, QuietStep
  <2>5. ASSUME NEW j \in Jobs, Get(j) PROVE ThrottleInv'
    BY <2>0, <2>5, GetStep
  <2>6. ASSUME NEW j \in Jobs, ThrottleFailure(j) PROVE ThrottleInv'
    <3>1. PICK n \in 0..Len(seen[j]) : /\ Resume(j, n)
                                      /\ IsOverLimit(j, n)
                                      /\ seen' = [seen EXCEPT ![j] = SubSeq(seen[j], 1, n)]
      BY <2>6 DEF ThrottleFailure
    <3>2. pc' = [pc EXCEPT ![j] = "denied"] /\ UNCHANGED <<now, history, expires, recorded>>
      BY <2>6 DEF ThrottleFailure
    <3> QED BY <2>0, <3>1, <3>2, DecisionStep
  <2>7. ASSUME NEW j \in Jobs, ThrottleSuccess(j) PROVE ThrottleInv'
    <3>1. PICK n \in 0..Len(seen[j]) : /\ Resume(j, n)
                                      /\ ~IsOverLimit(j, n)
                                      /\ seen' = [seen EXCEPT ![j] = Insert(j, SubSeq(seen[j], 1, n))]
      BY <2>7 DEF ThrottleSuccess
    <3>2. pc' = [pc EXCEPT ![j] = "set"] /\ UNCHANGED <<now, history, expires, recorded>>
      BY <2>7 DEF ThrottleSuccess
    <3> QED BY <2>0, <3>1, <3>2, DecisionStep
  <2>8. ASSUME NEW j \in Jobs, Set(j) PROVE ThrottleInv'
    BY <2>0, <2>8, WriteStep DEF Set
  <2>9. ASSUME NEW j \in Jobs, Allow(j) PROVE ThrottleInv'
    BY <2>0, <2>9, QuietStep DEF Allow
  <2>10. ASSUME NEW j \in Jobs, Raise(j) PROVE ThrottleInv'
    BY <2>0, <2>10, QuietStep DEF Raise
  <2>11. ASSUME NEW j \in Jobs, LateSet(j) PROVE ThrottleInv'
    BY <2>0, <2>11, WriteStep DEF LateSet
  <2>12. ASSUME NEW j \in Jobs, LoseSet(j) PROVE ThrottleInv'
    BY <2>0, <2>12, QuietStep DEF LoseSet
  <2>13. CASE Tick
    BY <2>0, <2>13, QuietStep DEF Tick
  <2>14. CASE Done \/ UNCHANGED vars
    BY <2>0, <2>14, QuietStep DEF Done, vars
  <2> QED BY <2>1, <2>2, <2>3, <2>4, <2>5, <2>6, <2>7, <2>8, <2>9, <2>10, <2>11, <2>12, <2>13,
             <2>14 DEF Next, JobStep
<1> QED BY <1>1, <1>2, PTL DEF Spec
-----------------------------------------------------------------------------
(* The properties.                                                         *)

\* Every variable keeps its type; above all, a wait that is announced is a number.
THEOREM TypeCorrect == Spec => []TypeOK
<1>1. ThrottleInv => TypeOK
  BY DEF ThrottleInv
<1> QED BY <1>1, ThrottleInvariance, PTL

\* No interleaving of reads and writes makes a stored history too long.
THEOREM HistoryIsBounded == Spec => []HistoryBounded
<1>1. ThrottleInv => HistoryBounded
  BY DEF ThrottleInv, StoredLogs, HistoryBounded
<1> QED BY <1>1, ThrottleInvariance, PTL

\* Every stored history is newest first and without duplicates.
THEOREM HistoryIsNewestFirst == Spec => []NewestFirst
<1>1. ThrottleInv => NewestFirst
  BY DEF ThrottleInv, StoredLogs, NewestFirst, IsLog
<1> QED BY <1>1, ThrottleInvariance, PTL

\* A key that has expired had no entry left inside its window.
THEOREM NothingForgiven == Spec => []ExpiryForgivesNothing
<1>1. ThrottleInv => ExpiryForgivesNothing
  <2> SUFFICES ASSUME ThrottleInv PROVE ExpiryForgivesNothing
    OBVIOUS
  <2> SUFFICES ASSUME NEW q \in recorded, expires[KeyOf(q)] <= now
               PROVE  stamp[q] + Duration[q[2]] <= now
    <3>1. \A q \in recorded : q \in Jobs /\ KeyOf(q)[1] = q[2]
      BY KeyType DEF ThrottleInv, TypeOK
    <3> QED BY <3>1 DEF ExpiryForgivesNothing
  <2>1. q \in Jobs /\ KeyOf(q) \in Keys
    BY KeyType DEF ThrottleInv, TypeOK
  <2>2. stamp[q] \in Int /\ Duration[q[2]] \in Int /\ now \in Int /\ expires[KeyOf(q)] \in Int
    BY <2>1, ThrottleAssumption DEF ThrottleInv, TypeOK, Jobs
  <2>3. stamp[q] + Duration[q[2]] <= expires[KeyOf(q)]
    BY DEF ThrottleInv, ExpiryCovers
  <2> QED BY <2>2, <2>3
<1> QED BY <1>1, ThrottleInvariance, PTL

\* Finitely many jobs are recorded.
LEMMA RecordedIsFinite == ASSUME TypeOK PROVE IsFiniteSet(recorded)
<1>1. IsFiniteSet(Jobs)
  BY ThrottleAssumption, FS_Product DEF Jobs
<1> QED BY <1>1, FS_Subset DEF TypeOK

\* Any set that holds the entries a denied job read has NumRequests members.
LEMMA DeniedCount ==
    ASSUME ThrottleInv, NEW j \in Jobs, pc[j] = "denied",
           NEW W, W \subseteq recorded,
           \A i \in DOMAIN seen[j] : <<seen[j][i], j[2]>> \in W
    PROVE  NumRequests[j[2]] <= Cardinality(W)
<1>1. IsFiniteSet(W) /\ recorded \in SUBSET Jobs
  BY RecordedIsFinite, FS_Subset DEF ThrottleInv, TypeOK
<1>2. KeyOf(j) \in Keys /\ KeyOf(j)[1] = j[2] /\ seen[j] \in Seq(Requests)
  BY KeyType DEF ThrottleInv, TypeOK
<1>3. IsLog(seen[j], KeyOf(j), recorded, stamp) /\ NumRequests[j[2]] <= Len(seen[j])
  BY DEF ThrottleInv, ReadLogs, DeniedIsFull
<1>4. Len(seen[j]) <= Cardinality(W)
  BY <1>1, <1>2, <1>3, LogCardinality
<1>5. /\ NumRequests[j[2]] \in Int /\ Len(seen[j]) \in Int
      /\ Cardinality(W) \in Int
  <2>1. NumRequests[j[2]] \in Int /\ Len(seen[j]) \in Int
    BY <1>2, ThrottleAssumption DEF Jobs
  <2>2. Cardinality(W) \in Int
    BY <1>1, FS_CardinalityType
  <2> QED BY <2>1, <2>2
<1> QED BY <1>3, <1>4, <1>5

\* The entries a denied job read are recorded jobs of its key and its window.
LEMMA DeniedEntries ==
    ASSUME ThrottleInv, NEW j \in Jobs, pc[j] = "denied", NEW i \in DOMAIN seen[j]
    PROVE  <<seen[j][i], j[2]>> \in RecordedIn(KeyOf(j), stamp[j])
<1>1. KeyOf(j)[1] = j[2] /\ KeyOf(j)[2] = Client[j[1]]
  BY DEF KeyOf
<1>2. <<seen[j][i], j[2]>> \in recorded /\ Client[seen[j][i]] = Client[j[1]]
  BY <1>1 DEF ThrottleInv, ReadLogs, IsLog
<1>3. KeyOf(<<seen[j][i], j[2]>>) = KeyOf(j)
  BY <1>2 DEF KeyOf
<1>4. /\ stamp[j] - Duration[j[2]] < stamp[<<seen[j][i], j[2]>>]
      /\ stamp[<<seen[j][i], j[2]>>] <= stamp[j]
  BY DEF ThrottleInv, DeniedIsFull
<1> QED BY <1>1, <1>2, <1>3, <1>4 DEF RecordedIn

\* However many requests race, none is denied unless the window before it held
\* as many recorded requests of its client as the rate allows.
THEOREM NeverDeniedFalsely == Spec => []NoFalseDenial
<1>1. ThrottleInv => NoFalseDenial
  <2> SUFFICES ASSUME ThrottleInv, NEW j \in Jobs, pc[j] = "denied"
               PROVE  NumRequests[j[2]] <= Cardinality(RecordedIn(KeyOf(j), stamp[j]))
    BY DEF NoFalseDenial
  <2>1. RecordedIn(KeyOf(j), stamp[j]) \subseteq recorded
    BY DEF RecordedIn
  <2> QED BY <2>1, DeniedEntries, DeniedCount
<1> QED BY <1>1, ThrottleInvariance, PTL

\* The announced wait is the least number of whole seconds that could help: one second
\* earlier the window is still full.
THEOREM WaitIsShortest == Spec => []WaitIsLeast
<1>1. ThrottleInv => WaitIsLeast
  <2> SUFFICES ASSUME ThrottleInv, NEW j \in Jobs, pc[j] = "denied",
                      NEW t \in stamp[j]..(stamp[j] + (Told(j) - 1) * Second)
               PROVE  NumRequests[j[2]] <=
                        Cardinality({q \in RecordedIn(KeyOf(j), stamp[j]) :
                                        stamp[q] > t - Duration[j[2]]})
    BY DEF WaitIsLeast
  <2> DEFINE h == seen[j]
             W == {q \in RecordedIn(KeyOf(j), stamp[j]) : stamp[q] > t - Duration[j[2]]}
  <2>1. W \subseteq recorded
    BY DEF RecordedIn
  <2>2. ASSUME NEW i \in DOMAIN h PROVE <<h[i], j[2]>> \in W
    <3> DEFINE last == <<h[Len(h)], j[2]>>
               entry == <<h[i], j[2]>>
    <3>1. h \in Seq(Requests) /\ h # <<>> /\ Len(h) \in DOMAIN h
      BY <2>2 DEF ThrottleInv, TypeOK
    <3>2. last \in Jobs /\ entry \in Jobs
      BY <2>2, <3>1 DEF Jobs
    <3>3. stamp[last] \in Int /\ stamp[entry] \in Int /\ stamp[j] \in Int /\ Duration[j[2]] \in Int
      BY <3>2, ThrottleAssumption DEF ThrottleInv, TypeOK, Jobs
    <3>4. WaitOf(j) = Duration[j[2]] - (stamp[j] - stamp[last])
      BY <3>1, DeniedWait
    <3>5. stamp[last] <= stamp[entry]
      <4>1. CASE i = Len(h)
        BY <4>1, <3>3
      <4>2. CASE i # Len(h)
        <5>1. i < Len(h)
          BY <4>2, <3>1, <2>2
        <5>2. IsLog(h, KeyOf(j), recorded, stamp) /\ KeyOf(j)[1] = j[2]
          BY KeyType DEF ThrottleInv, ReadLogs
        <5>3. stamp[<<h[i], KeyOf(j)[1]>>] >= stamp[<<h[Len(h)], KeyOf(j)[1]>>]
          BY <2>2, <3>1, <5>1, <5>2 DEF IsLog
        <5> QED BY <3>3, <5>2, <5>3
      <4> QED BY <4>1, <4>2
    <3>6. entry \in RecordedIn(KeyOf(j), stamp[j])
      BY <2>2, DeniedEntries
    <3> HIDE DEF h, last, entry
    <3>7. t \in Int /\ t <= stamp[j] + WaitOf(j) - 1
      <4>1. PICK u : u = (Told(j) - 1) * Second
        OBVIOUS
      <4>2. u \in Int
        BY <4>1, ToldWait, NextMultiple, ThrottleAssumption
      <4>3. u <= WaitOf(j) - 1
        BY <4>1, ToldWait
      <4>4. t \in stamp[j]..(stamp[j] + u)
        BY <4>1
      <4> QED BY <3>3, <3>4, <4>2, <4>3, <4>4
    <3>8. stamp[entry] > t - Duration[j[2]]
      BY <3>3, <3>4, <3>5, <3>7
    <3> QED BY <3>6, <3>8 DEF entry
  <2> QED BY <2>1, <2>2, DeniedCount
<1> QED BY <1>1, ThrottleInvariance, PTL

\* A job that has decided keeps its stamp, and one that has ended what it read.
LEMMA FinalStep ==
    ASSUME ThrottleInv, [Next]_vars, NEW j \in Jobs,
           pc[j] \in {"stored", "allowed", "denied", "raised", "cancelled"}
    PROVE  /\ stamp'[j] = stamp[j]
           /\ pc[j] \in {"allowed", "denied"} => pc'[j] = pc[j] /\ seen'[j] = seen[j]
<1>0. /\ pc \in [Jobs -> JobStates] /\ seen \in [Jobs -> Seq(Requests)]
      /\ stamp \in [Jobs -> 0..MaxTime]
      /\ status[j[1]] = "new" => pc[j] = "idle"
  BY DEF ThrottleInv, TypeOK, NewIsIdle
<1>1. ASSUME NEW r \in Requests, CheckThrottles(r) \/ Handle(r) \/ Throttled(r) \/ Cancel(r)
      PROVE  /\ stamp'[j] = stamp[j]
             /\ pc[j] \in {"allowed", "denied"} => pc'[j] = pc[j] /\ seen'[j] = seen[j]
  <2>1. CASE CheckThrottles(r)
    <3>1. j[1] # r /\ seen' = seen /\ stamp' = stamp
      BY <1>0, <2>1 DEF CheckThrottles
    <3>2. pc' = [k \in Jobs |-> IF k[1] # r THEN pc[k] ELSE IF IsExempt(k) THEN "allowed" ELSE "get"]
      BY <2>1 DEF CheckThrottles
    <3>3. pc'[j] = pc[j]
      BY <3>1, <3>2, Zenon
    <3> QED BY <3>1, <3>3
  <2>2. CASE Handle(r) \/ Throttled(r)
    BY <2>2 DEF Handle, Throttled
  <2>3. CASE Cancel(r)
    <3>1. pc[j] # "set" /\ (pc[j] \in {"allowed", "denied"} => pc[j] \notin Suspended)
      BY <1>0 DEF Suspended
    <3> QED BY <1>0, <2>3, <3>1 DEF Cancel
  <2> QED BY <1>1, <2>1, <2>2, <2>3
<1>2. ASSUME NEW i \in Jobs, Get(i) \/ Set(i) \/ Allow(i) \/ Raise(i) \/ LateSet(i) \/ LoseSet(i)
      PROVE  /\ stamp'[j] = stamp[j]
             /\ pc[j] \in {"allowed", "denied"} => pc'[j] = pc[j] /\ seen'[j] = seen[j]
  BY <1>0, <1>2 DEF Get, Set, Allow, Raise, LateSet, LoseSet, Suspended
<1>3. ASSUME NEW i \in Jobs, ThrottleFailure(i) \/ ThrottleSuccess(i)
      PROVE  /\ stamp'[j] = stamp[j]
             /\ pc[j] \in {"allowed", "denied"} => pc'[j] = pc[j] /\ seen'[j] = seen[j]
  <2>1. pc[i] = "got" /\ stamp' = [stamp EXCEPT ![i] = now]
    BY <1>3 DEF ThrottleFailure, ThrottleSuccess, Resume
  <2>2. i # j
    BY <2>1
  <2>3. PICK s, p : seen' = [seen EXCEPT ![i] = s] /\ pc' = [pc EXCEPT ![i] = p]
    BY <1>3 DEF ThrottleFailure, ThrottleSuccess
  <2> QED BY <1>0, <2>1, <2>2, <2>3
<1>4. CASE Tick \/ Done \/ UNCHANGED vars
  BY <1>4 DEF Tick, Done, vars
<1> QED BY <1>1, <1>2, <1>3, <1>4 DEF Next, JobStep

\* A 429 names the wait of the first throttle that denied the request: at least a
\* second, at most its period, and enough for the oldest entry it met to leave.
THEOREM WaitAlwaysAnnounced == Spec => []WaitIsAnnounced
<1> DEFINE Old(r, i) == <<seen[<<r, Order[i]>>][Len(seen[<<r, Order[i]>>])], Order[i]>>
           Room(r, i, w) ==
               /\ w * Second \in Second..Duration[Order[i]]
               /\ seen[<<r, Order[i]>>] # <<>> =>
                     stamp[Old(r, i)] + Duration[Order[i]] <= stamp[<<r, Order[i]>>] + w * Second
<1>1. Init => WaitIsAnnounced
  BY DEF Init, WaitIsAnnounced
<1>2. WaitIsAnnounced <=>
        \A r \in Requests : status[r] = "denied" =>
            \E i \in DOMAIN Order : IsFirstDenial(r, i) /\ Room(r, i, wait[r])
  BY DEF WaitIsAnnounced, IsFirstDenial
<1>3. ASSUME ThrottleInv, NEW r \in Requests, NEW i \in DOMAIN Order, pc[<<r, Order[i]>>] = "denied"
      PROVE  Room(r, i, Told(<<r, Order[i]>>))
  <2>1. PICK j : j = <<r, Order[i]>>
    OBVIOUS
  <2>2. j \in Jobs /\ j[2] = Order[i] /\ pc[j] = "denied"
    BY <1>3, <2>1, ThrottleAssumption DEF Jobs
  <2>3. Told(j) * Second \in Second..Duration[j[2]] /\ WaitOf(j) <= Told(j) * Second
    BY <1>3, <2>2, ToldWait
  <2>4. ASSUME seen[j] # <<>>
        PROVE  stamp[<<seen[j][Len(seen[j])], j[2]>>] + Duration[j[2]] <= stamp[j] + Told(j) * Second
    <3>1. PICK at, D, u : /\ at = stamp[<<seen[j][Len(seen[j])], j[2]>>]
                          /\ D = Duration[j[2]] /\ u = Told(j) * Second
      OBVIOUS
    <3>2. seen[j] \in Seq(Requests) /\ D \in Nat /\ stamp[j] \in Nat /\ Second \in Nat
      BY <1>3, <2>2, <3>1, ThrottleAssumption DEF ThrottleInv, TypeOK, Jobs
    <3>3. seen[j][Len(seen[j])] \in Requests
      BY <2>4, <3>2
    <3>4. at \in Nat
      BY <1>3, <2>2, <3>1, <3>3 DEF ThrottleInv, TypeOK, Jobs
    <3>5. WaitOf(j) = D - (stamp[j] - at)
      BY <1>3, <2>2, <2>4, <3>1, DeniedWait
    <3>6. u \in Second..D /\ WaitOf(j) <= u
      BY <2>3, <3>1
    <3>7. at + D <= stamp[j] + u
      BY <3>2, <3>4, <3>5, <3>6
    <3> QED BY <3>1, <3>7
  <2> QED BY <2>1, <2>2, <2>3, <2>4
<1>4. ThrottleInv /\ WaitIsAnnounced /\ [Next]_vars => WaitIsAnnounced'
  <2> SUFFICES ASSUME ThrottleInv, WaitIsAnnounced, [Next]_vars,
                      NEW q \in Requests, status'[q] = "denied"
               PROVE  \E i \in DOMAIN Order : IsFirstDenial(q, i)' /\ Room(q, i, wait[q])'
    BY DEF WaitIsAnnounced, IsFirstDenial
  <2>1. PICK i \in DOMAIN Order : IsFirstDenial(q, i) /\ Room(q, i, wait'[q])
    <3>0. /\ status \in [Requests -> RequestStates] /\ wait \in [Requests -> Nat \cup {NoWait}]
          /\ status[q] = "denied" =>
                \E i \in DOMAIN Order : IsFirstDenial(q, i) /\ Room(q, i, wait[q])
      BY <1>2 DEF ThrottleInv, TypeOK
    <3> HIDE DEF Room
    <3>1. ASSUME NEW r \in Requests, Throttled(r)
          PROVE  \E i \in DOMAIN Order : IsFirstDenial(q, i) /\ Room(q, i, wait'[q])
      <4>1. CASE q = r
        <5>1. PICK i \in DOMAIN Order : /\ IsFirstDenial(q, i)
                                       /\ wait' = [wait EXCEPT ![q] = Told(<<q, Order[i]>>)]
          BY <3>1, <4>1 DEF Throttled
        <5>2. wait'[q] = Told(<<q, Order[i]>>)
          BY <3>0, <5>1
        <5>3. Room(q, i, Told(<<q, Order[i]>>))
          BY <1>3, <5>1 DEF IsFirstDenial
        <5> QED BY <5>1, <5>2, <5>3
      <4>2. CASE q # r
        BY <3>0, <3>1, <4>2 DEF Throttled
      <4> QED BY <4>1, <4>2
    <3>2. ASSUME NEW r \in Requests, CheckThrottles(r) \/ Handle(r) \/ Cancel(r)
          PROVE  status[q] = "denied" /\ wait' = wait
      BY <3>0, <3>2 DEF CheckThrottles, Handle, Cancel
    <3>3. ASSUME NEW j \in Jobs, JobStep(j) \/ LateSet(j) \/ LoseSet(j)
          PROVE  status[q] = "denied" /\ wait' = wait
      BY <3>0, <3>3 DEF JobStep, Get, ThrottleFailure, ThrottleSuccess, Set, Allow, LateSet, LoseSet
    <3>4. ASSUME NEW j \in Jobs, Raise(j)
          PROVE  status[q] = "denied" /\ wait' = wait
      BY <3>0, <3>4 DEF Raise, Jobs
    <3>5. CASE Tick \/ Done \/ UNCHANGED vars
      BY <3>0, <3>5 DEF Tick, Done, vars
    <3> QED BY <3>0, <3>1, <3>2, <3>3, <3>4, <3>5 DEF Next
  <2>2. PICK j : j = <<q, Order[i]>>
    OBVIOUS
  <2>3. j \in Jobs /\ j[2] = Order[i] /\ pc[j] = "denied"
    BY <2>1, <2>2, ThrottleAssumption DEF Jobs, IsFirstDenial
  <2>4. pc'[j] = "denied" /\ seen'[j] = seen[j] /\ stamp'[j] = stamp[j]
    BY <2>3, FinalStep
  <2>5. IsFirstDenial(q, i)'
    <3>1. ASSUME NEW h \in 1..(i - 1) PROVE pc'[<<q, Order[h]>>] = "allowed"
      <4>1. h \in DOMAIN Order
        BY ThrottleAssumption
      <4>2. <<q, Order[h]>> \in Jobs /\ pc[<<q, Order[h]>>] = "allowed"
        BY <2>1, <4>1, ThrottleAssumption DEF Jobs, IsFirstDenial
      <4> QED BY <4>2, FinalStep
    <3> QED BY <2>2, <2>4, <3>1 DEF IsFirstDenial
  <2>6. ASSUME seen[j] # <<>> PROVE stamp'[Old(q, i)] = stamp[Old(q, i)]
    <3>1. seen[j] \in Seq(Requests)
      BY <2>3 DEF ThrottleInv, TypeOK
    <3>2. Len(seen[j]) \in DOMAIN seen[j] /\ seen[j][Len(seen[j])] \in Requests
      BY <2>6, <3>1
    <3>3. PICK old : old = <<seen[j][Len(seen[j])], j[2]>>
      OBVIOUS
    <3>4. old \in recorded /\ old \in Jobs
      <4>1. IsLog(seen[j], KeyOf(j), recorded, stamp) /\ KeyOf(j)[1] = j[2]
        BY <2>3, KeyType DEF ThrottleInv, ReadLogs
      <4> QED BY <3>2, <3>3, <4>1, <2>3 DEF IsLog, Jobs
    <3>5. pc[old] \in {"stored", "allowed", "raised", "cancelled"}
      BY <3>4 DEF ThrottleInv, RecordedIsFinal
    <3>6. stamp'[old] = stamp[old]
      BY <3>4, <3>5, FinalStep
    <3> QED BY <2>2, <2>3, <3>3, <3>6
  <2>7. Room(q, i, wait[q])'
    <3>1. seen'[<<q, Order[i]>>] = seen[<<q, Order[i]>>] /\ stamp'[<<q, Order[i]>>] = stamp[<<q, Order[i]>>]
      BY <2>2, <2>4
    <3>2. Old(q, i)' = Old(q, i)
      BY <3>1
    <3> QED BY <2>1, <2>2, <2>6, <3>1, <3>2
  <2> QED BY <2>5, <2>7
<1> QED BY <1>1, <1>4, ThrottleInvariance, PTL DEF Spec

\* Connections are held exactly while a reply is awaited, on every path.
THEOREM ConnectionsAreReturned == Spec => []NoConnectionLeak
<1>1. Init => NoConnectionLeak
  BY DEF Init, NoConnectionLeak
<1>2. ThrottleInv /\ NoConnectionLeak /\ [Next]_vars => NoConnectionLeak'
  <2> SUFFICES ASSUME ThrottleInv, NoConnectionLeak, [Next]_vars PROVE NoConnectionLeak'
    OBVIOUS
  <2>0. /\ pc \in [Jobs -> JobStates]
        /\ held = {j \in Jobs : pc[j] \in {"got", "stored"}}
    BY DEF ThrottleInv, TypeOK, NoConnectionLeak
  <2>1. ASSUME NEW r \in Requests, CheckThrottles(r) PROVE NoConnectionLeak'
    <3>1. /\ held' = held
          /\ status[r] = "new"
          /\ \A j \in Jobs : pc'[j] = IF j[1] # r THEN pc[j]
                                     ELSE IF IsExempt(j) THEN "allowed" ELSE "get"
      BY <2>1 DEF CheckThrottles
    <3>2. \A j \in Jobs : j[1] = r => pc[j] = "idle"
      BY <3>1 DEF ThrottleInv, NewIsIdle
    <3> QED BY <2>0, <3>1, <3>2 DEF NoConnectionLeak
  <2>2. ASSUME NEW r \in Requests, Handle(r) \/ Throttled(r) PROVE NoConnectionLeak'
    BY <2>0, <2>2 DEF Handle, Throttled, NoConnectionLeak
  <2>3. ASSUME NEW r \in Requests, Cancel(r) PROVE NoConnectionLeak'
    <3>1. PICK onWire \in SUBSET {j \in JobsOf(r) : pc[j] = "set"} :
             pc' = [j \in Jobs |-> IF j \in onWire THEN "wire"
                                   ELSE IF j[1] = r /\ pc[j] \in Suspended THEN "cancelled"
                                   ELSE pc[j]]
      BY <2>3 DEF Cancel
    <3>2. held' = held \ JobsOf(r)
      BY <2>3 DEF Cancel
    <3> QED BY <2>0, <3>1, <3>2 DEF NoConnectionLeak, JobsOf, Suspended
  <2>4. ASSUME NEW j \in Jobs, Get(j) \/ Set(j) PROVE NoConnectionLeak'
    BY <2>0, <2>4 DEF Get, Set, Acquire, NoConnectionLeak
  <2>5. ASSUME NEW j \in Jobs, ThrottleFailure(j) \/ ThrottleSuccess(j) PROVE NoConnectionLeak'
    BY <2>0, <2>5 DEF ThrottleFailure, ThrottleSuccess, Resume, Release, NoConnectionLeak
  <2>6. ASSUME NEW j \in Jobs, Allow(j) \/ Raise(j) PROVE NoConnectionLeak'
    BY <2>0, <2>6 DEF Allow, Raise, Release, NoConnectionLeak
  <2>7. ASSUME NEW j \in Jobs, LateSet(j) \/ LoseSet(j) PROVE NoConnectionLeak'
    BY <2>0, <2>7 DEF LateSet, LoseSet, NoConnectionLeak
  <2>8. CASE Tick \/ Done \/ UNCHANGED vars
    BY <2>0, <2>8 DEF Tick, Done, vars, NoConnectionLeak
  <2> QED BY <2>1, <2>2, <2>3, <2>4, <2>5, <2>6, <2>7, <2>8 DEF Next, JobStep
<1> QED BY <1>1, <1>2, ThrottleInvariance, PTL DEF Spec

\* A job that has let its request pass is exempt or recorded, and only those of
\* a request that is handled.
PassedIsRecorded ==
    /\ \A j \in Jobs : /\ pc[j] = "stored" => j \in recorded
                       /\ pc[j] = "allowed" => IsExempt(j) \/ j \in recorded
    /\ \A j \in Jobs : status[j[1]] = "handled" => pc[j] = "allowed"

\* HandledWasRecorded: no failure, cancellation or order of replies lets a
\* request through to its handler that a throttle has not recorded.
THEOREM HandledIsRecorded == Spec => []HandledWasRecorded
<1>1. Init => PassedIsRecorded
  BY DEF Init, PassedIsRecorded, Jobs
<1>2. ThrottleInv /\ PassedIsRecorded /\ [Next]_vars => PassedIsRecorded'
  <2> SUFFICES ASSUME ThrottleInv, PassedIsRecorded, [Next]_vars PROVE PassedIsRecorded'
    OBVIOUS
  <2>0. /\ pc \in [Jobs -> JobStates]
        /\ status \in [Requests -> RequestStates]
        /\ \A j \in Jobs : j[1] \in Requests
        /\ \A j \in Jobs : IsExempt(j)' = IsExempt(j)
    BY DEF ThrottleInv, TypeOK, Jobs, IsExempt
  <2>1. ASSUME NEW r \in Requests, CheckThrottles(r) PROVE PassedIsRecorded'
    <3>1. /\ status[r] = "new"
          /\ status' = [status EXCEPT ![r] = "throttling"]
          /\ recorded' = recorded
          /\ \A j \in Jobs : pc'[j] = IF j[1] # r THEN pc[j]
                                     ELSE IF IsExempt(j) THEN "allowed" ELSE "get"
      BY <2>1 DEF CheckThrottles
    <3> QED BY <2>0, <3>1 DEF PassedIsRecorded
  <2>2. ASSUME NEW r \in Requests, Handle(r) PROVE PassedIsRecorded'
    <3>1. \A j \in Jobs : j[1] = r => pc[j] = "allowed"
      BY <2>2 DEF Handle, AllAllowed, JobsOf
    <3> QED BY <2>0, <2>2, <3>1 DEF Handle, PassedIsRecorded
  <2>3. ASSUME NEW r \in Requests, Throttled(r) PROVE PassedIsRecorded'
    BY <2>0, <2>3 DEF Throttled, PassedIsRecorded
  <2>4. ASSUME NEW r \in Requests, Cancel(r) PROVE PassedIsRecorded'
    <3>1. PICK onWire \in SUBSET {j \in JobsOf(r) : pc[j] = "set"} :
             pc' = [j \in Jobs |-> IF j \in onWire THEN "wire"
                                   ELSE IF j[1] = r /\ pc[j] \in Suspended THEN "cancelled"
                                   ELSE pc[j]]
      BY <2>4 DEF Cancel
    <3>2. recorded' = recorded /\ status' = [status EXCEPT ![r] = "cancelled"]
      BY <2>4 DEF Cancel
    <3>3. \A j \in Jobs : pc'[j] \in {"stored", "allowed"} => pc'[j] = pc[j]
      BY <3>1
    <3>4. \A j \in Jobs : pc[j] = "allowed" => pc'[j] = "allowed"
      BY <3>1 DEF Suspended
    <3> QED BY <2>0, <3>2, <3>3, <3>4 DEF PassedIsRecorded
  <2>5. ASSUME NEW j \in Jobs, Raise(j) PROVE PassedIsRecorded'
    <3>1. pc[j] # "allowed"
      BY <2>5 DEF Raise, Suspended
    <3> QED BY <2>0, <2>5, <3>1 DEF Raise, PassedIsRecorded
  <2>6. ASSUME NEW j \in Jobs, JobStep(j) \/ LateSet(j) \/ LoseSet(j) PROVE PassedIsRecorded'
    <3> DEFINE Moves(p) == /\ pc[j] # "allowed"
                           /\ pc' = [pc EXCEPT ![j] = p]
                           /\ status' = status
                           /\ recorded \subseteq recorded'
    <3>1. ASSUME NEW p, Moves(p), p = "stored" => j \in recorded', p = "allowed" => pc[j] = "stored"
          PROVE  PassedIsRecorded'
      BY <2>0, <3>1 DEF PassedIsRecorded
    <3>2. CASE Get(j)
      BY <3>1, <3>2 DEF Get
    <3>3. CASE ThrottleFailure(j)
      <4>1. pc[j] = "got"
        BY <3>3 DEF ThrottleFailure, Resume
      <4> QED BY <3>1, <3>3, <4>1 DEF ThrottleFailure
    <3>4. CASE ThrottleSuccess(j)
      <4>1. pc[j] = "got"
        BY <3>4 DEF ThrottleSuccess, Resume
      <4> QED BY <3>1, <3>4, <4>1 DEF ThrottleSuccess
    <3>5. CASE Set(j)
      BY <3>1, <3>5 DEF Set
    <3>6. CASE Allow(j)
      BY <3>1, <3>6 DEF Allow
    <3>7. CASE LateSet(j)
      BY <3>1, <3>7 DEF LateSet
    <3>8. CASE LoseSet(j)
      BY <3>1, <3>8 DEF LoseSet
    <3> QED BY <2>6, <3>2, <3>3, <3>4, <3>5, <3>6, <3>7, <3>8 DEF JobStep
  <2>7. CASE Tick \/ Done \/ UNCHANGED vars
    BY <2>0, <2>7 DEF Tick, Done, vars, PassedIsRecorded
  <2> QED BY <2>1, <2>2, <2>3, <2>4, <2>5, <2>6, <2>7 DEF Next
<1>3. PassedIsRecorded => HandledWasRecorded
  BY DEF PassedIsRecorded, HandledWasRecorded, JobsOf, Jobs
<1> QED BY <1>1, <1>2, <1>3, ThrottleInvariance, PTL DEF Spec
-----------------------------------------------------------------------------
(* Where a history comes from.                                             *)

\* Every entry of h is followed by what its writer wrote behind itself.
Descends(h, k) ==
    \A i \in DOMAIN h : \A m \in i..Len(h) : h[m] = seen[<<h[i], k[1]>>][m - i + 1]

\* A history is what its newest entry has written, less what has been popped.  So of
\* two that have an entry in common, one continues from there as the other does.
Lineage ==
    /\ \A k \in Keys : Descends(history[k], k)
    /\ \A j \in Jobs : pc[j] \in {"got", "denied", "set", "wire"} =>
           Descends(seen[j], KeyOf(j))

\* The writers of a log have written.
LEMMA DescendsFrame ==
    ASSUME NEW h \in Seq(Requests), NEW k \in Keys, NEW S, NEW at, IsLog(h, k, S, at),
           \A q \in S : seen'[q] = seen[q],
           Descends(h, k)
    PROVE  Descends(h, k)'
BY DEF Descends, IsLog

\* What is left of a history after a pop still descends.
LEMMA DescendsPrefix ==
    ASSUME NEW h \in Seq(Requests), NEW k \in Keys, NEW n \in 0..Len(h),
           NEW p \in Seq(Requests), Len(p) = n, \A i \in 1..n : p[i] = h[i],
           Descends(h, k)
    PROVE  Descends(p, k)
<1> SUFFICES ASSUME NEW i \in DOMAIN p, NEW m \in i..Len(p)
             PROVE  p[m] = seen[<<p[i], k[1]>>][m - i + 1]
  BY DEF Descends
<1>1. i \in DOMAIN h /\ m \in i..Len(h) /\ p[i] = h[i] /\ p[m] = h[m]
  OBVIOUS
<1> QED BY <1>1 DEF Descends

\* Of the jobs only j, which has not decided, sees something else.
LEMMA LineageFrame ==
    ASSUME ThrottleInv, Lineage, NEW j \in Jobs, pc[j] \in {"get", "got"},
           NEW h, seen' = [seen EXCEPT ![j] = h], history' = history,
           NEW p, pc' = [pc EXCEPT ![j] = p],
           p \in {"got", "denied", "set", "wire"} => Descends(h, KeyOf(j))'
    PROVE  Lineage'
<1>1. /\ history \in [Keys -> Seq(Requests)]
      /\ pc \in [Jobs -> JobStates]
      /\ seen \in [Jobs -> Seq(Requests)]
      /\ recorded \subseteq Jobs
  BY DEF ThrottleInv, TypeOK
<1>2. \A q \in recorded : seen'[q] = seen[q]
  BY <1>1 DEF ThrottleInv, RecordedIsFinal
<1>3. ASSUME NEW k \in Keys PROVE Descends(history[k], k)'
  <2>1. PICK l : l = history[k]
    OBVIOUS
  <2>2. l \in Seq(Requests) /\ IsLog(l, k, recorded, stamp) /\ Descends(l, k)
    BY <1>1, <2>1 DEF Lineage, ThrottleInv, StoredLogs
  <2>3. Descends(l, k)'
    BY <1>2, <2>2, DescendsFrame
  <2> QED BY <2>1, <2>3
<1>4. ASSUME NEW q \in Jobs, pc'[q] \in {"got", "denied", "set", "wire"}
      PROVE  Descends(seen[q], KeyOf(q))'
  <2>1. CASE q = j
    <3>1. pc'[q] = p /\ seen'[q] = h
      BY <1>1, <2>1
    <3>2. Descends(h, KeyOf(j))'
      BY <3>1, <1>4
    <3> QED BY <3>1, <3>2, <2>1 DEF Descends, KeyOf
  <2>2. CASE q # j
    <3>1. PICK l : l = seen[q]
      OBVIOUS
    <3>2. pc[q] = pc'[q] /\ seen'[q] = l /\ l \in Seq(Requests)
      BY <1>1, <2>2, <3>1
    <3>3. KeyOf(q) \in Keys /\ Descends(l, KeyOf(q))
      BY <1>4, <3>1, <3>2, KeyType DEF Lineage
    <3>4. IsLog(l, KeyOf(q), recorded \cup {q}, stamp)
      <4>1. CASE pc[q] \in {"got", "denied"}
        <5>1. IsLog(l, KeyOf(q), recorded, stamp)
          BY <3>1, <4>1 DEF ThrottleInv, ReadLogs
        <5> QED BY <5>1, <3>2, <3>3, LogFrame
      <4>2. CASE pc[q] \in {"set", "wire"}
        BY <3>1, <4>2 DEF ThrottleInv, LogsToWrite
      <4> QED BY <4>1, <4>2, <3>2, <1>4
    <3>5. \A x \in recorded \cup {q} : seen'[x] = seen[x]
      BY <1>2, <3>1, <3>2
    <3>6. Descends(l, KeyOf(q))'
      BY <3>2, <3>3, <3>4, <3>5, DescendsFrame
    <3> QED BY <3>2, <3>6 DEF KeyOf
  <2> QED BY <2>1, <2>2
<1> QED BY <1>3, <1>4 DEF Lineage

\* Steps that move no history.
LEMMA LineageQuiet ==
    ASSUME Lineage, history' = history, seen' = seen,
           \A j \in Jobs : pc'[j] \in {"got", "denied", "set", "wire"} =>
               pc[j] \in {"got", "denied", "set", "wire"}
    PROVE  Lineage'
BY DEF Lineage, Descends, KeyOf

\* A job reads a history that descends.
LEMMA LineageGet ==
    ASSUME ThrottleInv, Lineage, NEW j \in Jobs, Get(j)
    PROVE  Lineage'
<1>1. PICK h : h = GetReply(KeyOf(j))
  OBVIOUS
<1>2. /\ pc[j] = "get"
      /\ seen' = [seen EXCEPT ![j] = h]
      /\ pc' = [pc EXCEPT ![j] = "got"]
      /\ history' = history
  BY <1>1 DEF Get
<1>3. KeyOf(j) \in Keys /\ KeyOf(j)' = KeyOf(j)
  BY KeyType DEF KeyOf
<1>4. Descends(h, KeyOf(j))'
  <2>1. CASE h = <<>>
    BY <2>1 DEF Descends
  <2>2. CASE h = history[KeyOf(j)]
    <3>1. /\ h \in Seq(Requests) /\ IsLog(h, KeyOf(j), recorded, stamp)
          /\ Descends(h, KeyOf(j))
      BY <1>3, <2>2 DEF Lineage, ThrottleInv, StoredLogs, TypeOK
    <3>2. \A q \in recorded : seen'[q] = seen[q]
      BY <1>2 DEF ThrottleInv, RecordedIsFinal, TypeOK
    <3> QED BY <1>3, <3>1, <3>2, DescendsFrame
  <2> QED BY <1>1, <2>1, <2>2 DEF GetReply
<1> QED BY <1>2, <1>4, LineageFrame

\* What a decision leaves of what was read, and what it puts in front.
LEMMA LineageDecide ==
    ASSUME ThrottleInv, Lineage, NEW j \in Jobs, pc[j] = "got", history' = history,
           NEW n \in 0..Len(seen[j]), NEW h, seen' = [seen EXCEPT ![j] = h],
           NEW p \in {"denied", "set"}, pc' = [pc EXCEPT ![j] = p],
           p = "denied" => h = SubSeq(seen[j], 1, n),
           p = "set" => h = Insert(j, SubSeq(seen[j], 1, n))
    PROVE  Lineage'
<1>1. PICK l, b : l = seen[j] /\ b = SubSeq(l, 1, n)
  OBVIOUS
<1>2. /\ l \in Seq(Requests) /\ KeyOf(j) \in Keys /\ KeyOf(j)' = KeyOf(j)
      /\ IsLog(l, KeyOf(j), recorded, stamp) /\ Descends(l, KeyOf(j)) /\ n \in 0..Len(l)
  BY <1>1, KeyType DEF ThrottleInv, ReadLogs, TypeOK, Lineage, KeyOf
<1>3. /\ b \in Seq(Requests) /\ Len(b) = n /\ \A i \in 1..n : b[i] = l[i]
      /\ IsLog(b, KeyOf(j), recorded, stamp)
  BY <1>1, <1>2, LogPrefix
<1>4. Descends(b, KeyOf(j))
  BY <1>2, <1>3, DescendsPrefix
<1>5. \A q \in recorded : seen'[q] = seen[q]
  BY DEF ThrottleInv, RecordedIsFinal, TypeOK
<1>6. Descends(b, KeyOf(j))'
  BY <1>2, <1>3, <1>4, <1>5, DescendsFrame
<1>7. CASE p = "denied"
  <2>1. Descends(h, KeyOf(j))'
    BY <1>1, <1>6, <1>7
  <2> QED BY <2>1, LineageFrame
<1>8. CASE p = "set"
  <2>1. h = Insert(j, b)
    BY <1>1, <1>8
  <2>2. <<j[1]>> \in Seq(Requests) /\ Len(<<j[1]>>) = 1 /\ <<j[1]>>[1] = j[1]
    BY DEF Jobs
  <2>3. /\ h \in Seq(Requests) /\ Len(h) = Len(b) + 1
        /\ \A i \in 1..(Len(b) + 1) : h[i] = IF i = 1 THEN j[1] ELSE b[i - 1]
    BY <1>3, <2>1, <2>2, ConcatProperties DEF Insert
  <2>4. seen'[j] = h
    BY DEF ThrottleInv, TypeOK
  <2>5. Descends(h, KeyOf(j))'
    <3> SUFFICES ASSUME NEW i \in DOMAIN h, NEW m \in i..Len(h)
                 PROVE  h[m] = seen'[<<h[i], KeyOf(j)[1]>>][m - i + 1]
      BY <1>2 DEF Descends
    <3>1. j = <<j[1], KeyOf(j)[1]>> /\ h[1] = j[1]
      BY <1>3, <2>3 DEF KeyOf, Jobs
    <3>2. CASE i = 1
      <4>1. <<h[i], KeyOf(j)[1]>> = j /\ m - i + 1 = m
        BY <2>3, <3>1, <3>2
      <4> QED BY <2>4, <4>1
    <3>3. CASE i # 1
      <4>1. /\ i - 1 \in DOMAIN b /\ m - 1 \in (i - 1)..Len(b)
            /\ (m - 1) - (i - 1) + 1 = m - i + 1
            /\ h[i] = b[i - 1] /\ h[m] = b[m - 1]
        BY <1>3, <2>3, <3>3
      <4>2. b[m - 1] = seen'[<<b[i - 1], KeyOf(j)[1]>>][(m - 1) - (i - 1) + 1]
        BY <4>1, <1>2, <1>6 DEF Descends
      <4> QED BY <4>1, <4>2
    <3> QED BY <3>2, <3>3
  <2> QED BY <2>5, LineageFrame
<1> QED BY <1>7, <1>8

\* A job writes a history that descends.
LEMMA LineageWrite ==
    ASSUME ThrottleInv, Lineage, NEW j \in Jobs, pc[j] \in {"set", "wire"},
           SetKey(KeyOf(j), seen[j]), seen' = seen,
           NEW p \in {"stored", "cancelled"}, pc' = [pc EXCEPT ![j] = p]
    PROVE  Lineage'
<1>1. /\ history' = [history EXCEPT ![KeyOf(j)] = seen[j]]
      /\ history \in [Keys -> Seq(Requests)] /\ pc \in [Jobs -> JobStates]
      /\ KeyOf(j) \in Keys
  BY KeyType DEF SetKey, ThrottleInv, TypeOK
<1>2. Descends(seen[j], KeyOf(j))
  BY DEF Lineage
<1>3. \A k \in Keys : Descends(history'[k], k)
  BY <1>1, <1>2 DEF Lineage
<1>4. \A q \in Jobs : pc'[q] \in {"got", "denied", "set", "wire"} => pc[q] = pc'[q]
  BY <1>1
<1> QED BY <1>3, <1>4 DEF Lineage, Descends, KeyOf

\* Lineage is kept by every step.
LEMMA LineageStep == ThrottleInv /\ Lineage /\ [Next]_vars => Lineage'
<1> SUFFICES ASSUME ThrottleInv, Lineage, [Next]_vars PROVE Lineage'
  OBVIOUS
<1>1. ASSUME NEW r \in Requests, CheckThrottles(r) \/ Handle(r) \/ Throttled(r) PROVE Lineage'
  <2>1. /\ history' = history /\ seen' = seen
        /\ \A j \in Jobs : pc'[j] \in {"got", "denied", "set", "wire"} => pc[j] = pc'[j]
    BY <1>1 DEF CheckThrottles, Handle, Throttled
  <2> QED BY <2>1, LineageQuiet
<1>2. ASSUME NEW r \in Requests, Cancel(r) PROVE Lineage'
  <2>1. PICK onWire \in SUBSET {j \in JobsOf(r) : pc[j] = "set"} :
           pc' = [j \in Jobs |-> IF j \in onWire THEN "wire"
                                 ELSE IF j[1] = r /\ pc[j] \in Suspended THEN "cancelled"
                                 ELSE pc[j]]
    BY <1>2 DEF Cancel
  <2>2. \A j \in Jobs : pc'[j] \in {"got", "denied", "set", "wire"} =>
            pc[j] \in {"got", "denied", "set", "wire"}
    BY <2>1
  <2> QED BY <1>2, <2>2, LineageQuiet DEF Cancel
<1>3. ASSUME NEW j \in Jobs, Get(j) PROVE Lineage'
  BY <1>3, LineageGet
<1>4. ASSUME NEW j \in Jobs, ThrottleFailure(j) PROVE Lineage'
  <2>1. PICK n \in 0..Len(seen[j]) : /\ Resume(j, n)
                                    /\ seen' = [seen EXCEPT ![j] = SubSeq(seen[j], 1, n)]
    BY <1>4 DEF ThrottleFailure
  <2>2. PICK h, p : h = SubSeq(seen[j], 1, n) /\ p = "denied"
    OBVIOUS
  <2>3. /\ pc[j] = "got" /\ history' = history
        /\ seen' = [seen EXCEPT ![j] = h] /\ pc' = [pc EXCEPT ![j] = p]
    BY <1>4, <2>1, <2>2 DEF ThrottleFailure, Resume
  <2> QED BY <2>2, <2>3, LineageDecide
<1>5. ASSUME NEW j \in Jobs, ThrottleSuccess(j) PROVE Lineage'
  <2>1. PICK n \in 0..Len(seen[j]) : /\ Resume(j, n)
                                    /\ seen' = [seen EXCEPT ![j] = Insert(j, SubSeq(seen[j], 1, n))]
    BY <1>5 DEF ThrottleSuccess
  <2>2. PICK h, p : h = Insert(j, SubSeq(seen[j], 1, n)) /\ p = "set"
    OBVIOUS
  <2>3. /\ pc[j] = "got" /\ history' = history
        /\ seen' = [seen EXCEPT ![j] = h] /\ pc' = [pc EXCEPT ![j] = p]
    BY <1>5, <2>1, <2>2 DEF ThrottleSuccess, Resume
  <2> QED BY <2>2, <2>3, LineageDecide
<1>6. ASSUME NEW j \in Jobs, Set(j) PROVE Lineage'
  <2>1. PICK p : p = "stored"
    OBVIOUS
  <2> QED BY <1>6, <2>1, LineageWrite DEF Set
<1>7. ASSUME NEW j \in Jobs, LateSet(j) PROVE Lineage'
  <2>1. PICK p : p = "cancelled"
    OBVIOUS
  <2> QED BY <1>7, <2>1, LineageWrite DEF LateSet
<1>8. ASSUME NEW j \in Jobs, Allow(j) \/ Raise(j) \/ LoseSet(j) PROVE Lineage'
  <2>1. pc \in [Jobs -> JobStates]
    BY DEF ThrottleInv, TypeOK
  <2>2. /\ history' = history /\ seen' = seen
        /\ \A q \in Jobs : pc'[q] \in {"got", "denied", "set", "wire"} => pc[q] = pc'[q]
    BY <1>8, <2>1 DEF Allow, Raise, LoseSet
  <2> QED BY <2>2, LineageQuiet
<1>9. CASE Tick \/ Done \/ UNCHANGED vars
  BY <1>9, LineageQuiet DEF Tick, Done, vars
<1> QED BY <1>1, <1>2, <1>3, <1>4, <1>5, <1>6, <1>7, <1>8, <1>9 DEF Next, JobStep

\* Lineage: however the coroutines interleave, every history in Redis or in one of
\* them goes on behind each of its entries as that entry's writer wrote it.
THEOREM LineageInvariance == Spec => []Lineage
<1>1. Init => Lineage
  BY DEF Init, Lineage, Descends
<1> QED BY <1>1, LineageStep, ThrottleInvariance, PTL DEF Spec

\* WaitIsEnough: a client that has waited for what the 429 announced is denied again
\* only for someone who was recorded in between (SimpleRateThrottle.wait).  Were the
\* newest entry it meets then one that it met before, its history would be the one it
\* met from there on, with the entry that it has waited for.
THEOREM WaitSuffices == Spec => []WaitIsEnough
<1>1. ThrottleInv /\ Lineage => WaitIsEnough
  <2> SUFFICES ASSUME ThrottleInv, Lineage,
                      NEW q \in Requests, NEW r \in Requests, NEW s \in Scopes,
                      pc[<<q, s>>] = "denied", pc[<<r, s>>] = "denied",
                      Client[q] = Client[r], NumRequests[s] > 0,
                      stamp[<<r, s>>] >= stamp[<<q, s>>] + Told(<<q, s>>) * Second,
                      NEW i \in DOMAIN seen[<<q, s>>], seen[<<q, s>>][i] = seen[<<r, s>>][1]
               PROVE  FALSE
    BY DEF WaitIsEnough
  <2>1. PICK first, again : first = <<q, s>> /\ again = <<r, s>>
    OBVIOUS
  <2>2. PICK h, g : h = seen[first] /\ g = seen[again]
    OBVIOUS
  <2>3. PICK N, D : N = NumRequests[s] /\ D = Duration[s]
    OBVIOUS
  <2>4. /\ first \in Jobs /\ again \in Jobs /\ first[2] = s /\ again[2] = s
        /\ KeyOf(first)[1] = s /\ KeyOf(again)[1] = s
        /\ pc[first] = "denied" /\ pc[again] = "denied"
    BY <2>1 DEF Jobs, KeyOf
  <2>5. /\ N \in Nat /\ D \in Nat /\ N > 0
        /\ h \in Seq(Requests) /\ g \in Seq(Requests)
        /\ stamp[first] \in Nat /\ stamp[again] \in Nat
    BY <2>2, <2>3, <2>4, ThrottleAssumption DEF ThrottleInv, TypeOK
  <2>6. Len(h) = N /\ Len(g) = N
    <3>1. Len(h) <= N /\ N <= Len(h) /\ Len(g) <= N /\ N <= Len(g)
      BY <2>2, <2>3, <2>4 DEF ThrottleInv, ReadLogs, DeniedIsFull
    <3> QED BY <3>1, <2>5
  <2>7. Descends(h, KeyOf(first)) /\ Descends(g, KeyOf(again))
    BY <2>2, <2>4 DEF Lineage
  <2>8. i \in 1..N /\ h[i] = g[1]
    BY <2>1, <2>2, <2>5, <2>6
  <2>9. h[N] = g[N - i + 1]
    <3>1. h[N] = seen[<<h[i], s>>][N - i + 1]
      <4>1. i \in DOMAIN h /\ N \in i..Len(h)
        BY <2>5, <2>6, <2>8
      <4> QED BY <4>1, <2>4, <2>7 DEF Descends
    <3>2. g[N - i + 1] = seen[<<g[1], s>>][(N - i + 1) - 1 + 1]
      <4>1. 1 \in DOMAIN g /\ N - i + 1 \in 1..Len(g)
        BY <2>5, <2>6, <2>8
      <4> QED BY <4>1, <2>4, <2>7 DEF Descends
    <3>3. (N - i + 1) - 1 + 1 = N - i + 1
      BY <2>5, <2>8
    <3> QED BY <3>1, <3>2, <3>3, <2>8
  <2>10. PICK at : at = stamp[<<h[N], s>>]
    OBVIOUS
  <2>11. at \in Nat
    <3>1. <<h[N], s>> \in Jobs
      BY <2>5, <2>6 DEF Jobs
    <3> QED BY <2>10, <3>1 DEF ThrottleInv, TypeOK
  <2>12. stamp[again] - D < at
    <3>1. N - i + 1 \in DOMAIN g
      BY <2>5, <2>6, <2>8
    <3> QED BY <3>1, <2>2, <2>3, <2>4, <2>9, <2>10 DEF ThrottleInv, DeniedIsFull
  <2>13. WaitOf(first) = D - (stamp[first] - at)
    <3>1. h # <<>>
      BY <2>5, <2>6
    <3> QED BY <3>1, <2>2, <2>3, <2>4, <2>6, <2>10, DeniedWait
  <2>14. stamp[again] >= stamp[first] + WaitOf(first)
    <3>1. PICK u : u = Told(first) * Second
      OBVIOUS
    <3>2. u \in Second..D /\ WaitOf(first) <= u
      BY <3>1, <2>3, <2>4, ToldWait
    <3>3. u \in Int
      BY <3>2, <2>5, ThrottleAssumption
    <3>4. stamp[again] >= stamp[first] + u
      BY <3>1, <2>1
    <3> QED BY <3>2, <3>3, <3>4, <2>5, <2>11, <2>13
  <2> QED BY <2>5, <2>11, <2>12, <2>13, <2>14
<1> QED BY <1>1, ThrottleInvariance, LineageInvariance, PTL
=============================================================================
