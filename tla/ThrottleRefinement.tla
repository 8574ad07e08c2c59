------------------------- MODULE ThrottleRefinement -------------------------
(***************************************************************************)
(* However many requests are in flight, Throttle implements the limiter    *)
(* that never denies under the budget (RateLimiter!LooseSpec), and while   *)
(* no two of a client overlap the exact one (RateLimiter!Spec).            *)
(***************************************************************************)
EXTENDS ThrottleProofs

\* What the limiter sees of the throttle.
Outcomes == [j \in Jobs |-> Outcome(j)]
Stamps == [j \in Jobs |-> IF j \in recorded THEN stamp[j] ELSE 0]

\* The attempts that occupy a key are the jobs recorded in its window.
LEMMA OccupyingIsRecorded ==
    ASSUME ThrottleInv, NEW k \in Keys, NEW t
    PROVE  Limiter!Occupying(k, t) = RecordedIn(k, t)
<1>1. recorded \subseteq Jobs
  BY DEF ThrottleInv, TypeOK
<1>2. \A j \in Jobs : Outcome(j) = "admitted" <=> j \in recorded
  BY DEF Outcome
<1> QED BY <1>1, <1>2 DEF Limiter!Occupying, RecordedIn

\* A step that records nothing and denies no one at most voids open attempts.
LEMMA VoidStep ==
    ASSUME UNCHANGED <<now, recorded>>,
           \A j \in recorded : stamp'[j] = stamp[j],
           \A j \in Jobs : \/ Outcome(j)' = Outcome(j)
                           \/ Outcome(j) = "open" /\ Outcome(j)' = "void"
    PROVE  Limiter!Next /\ Limiter!LooseNext
<1> DEFINE A == {j \in Jobs : Outcome(j)' # Outcome(j)}
<1>1. A \in SUBSET Jobs /\ \A j \in A : Outcomes[j] = "open"
  BY DEF Outcomes
<1>2. Outcomes' = [j \in Jobs |-> IF j \in A THEN "void" ELSE Outcomes[j]]
  BY DEF Outcomes
<1>3. UNCHANGED Stamps
  BY DEF Stamps
<1>4. Limiter!Void(A)
  BY <1>1, <1>2, <1>3 DEF Limiter!Void, Outcomes, Stamps
<1> QED BY <1>1, <1>4 DEF Limiter!Next, Limiter!LooseNext

\* One job moves on, neither denied nor recorded.
LEMMA JobMove ==
    ASSUME ThrottleInv, NEW j \in Jobs, NEW p,
           UNCHANGED <<now, recorded>>,
           pc[j] \in Suspended \cup {"wire"},
           pc' = [pc EXCEPT ![j] = p],
           p # "denied",
           \A q \in recorded : stamp'[q] = stamp[q]
    PROVE  Limiter!Next /\ Limiter!LooseNext
<1>1. pc \in [Jobs -> JobStates]
  BY DEF ThrottleInv, TypeOK
<1>2. ASSUME NEW q \in Jobs
      PROVE  \/ Outcome(q)' = Outcome(q)
             \/ Outcome(q) = "open" /\ Outcome(q)' = "void"
  BY <1>1, <1>2 DEF Outcome, Suspended
<1> QED BY <1>2, VoidStep

\* The jobs of one request move on together, none of them denied.
LEMMA RequestMove ==
    ASSUME ThrottleInv, UNCHANGED <<now, recorded, stamp>>,
           \A j \in Jobs : \/ pc'[j] = pc[j]
                           \/ /\ pc[j] \in {"idle"} \cup Suspended
                              /\ pc'[j] # "denied"
    PROVE  Limiter!Next /\ Limiter!LooseNext
<1>1. ASSUME NEW q \in Jobs
      PROVE  \/ Outcome(q)' = Outcome(q)
             \/ Outcome(q) = "open" /\ Outcome(q)' = "void"
  BY <1>1 DEF Outcome, Suspended
<1> QED BY <1>1, VoidStep

\* The SET of a job takes effect: its attempt is admitted, at its own stamp.
LEMMA RecordStep ==
    ASSUME ThrottleInv, NEW j \in Jobs, pc[j] \in {"set", "wire"},
           UNCHANGED <<now, stamp>>,
           recorded' = recorded \cup {j},
           \A q \in Jobs : q # j => pc'[q] = pc[q]
    PROVE  Limiter!LooseNext
<1>1. j \notin recorded
  BY DEF ThrottleInv, RecordedIsFinal
<1>2. Outcomes[j] = "open" /\ Outcomes' = [Outcomes EXCEPT ![j] = "admitted"]
  BY <1>1 DEF Outcomes, Outcome
<1>3. Stamps' = [Stamps EXCEPT ![j] = stamp[j]]
  BY DEF Stamps
<1>4. stamp[j] \in 0..now
  BY ThrottleAssumption DEF ThrottleInv, TypeOK, StampsArePast
<1>5. Limiter!AdmitLoosely(j)
  BY <1>2, <1>3, <1>4 DEF Limiter!AdmitLoosely, Limiter!AdmitAt, Outcomes, Stamps
<1> QED BY <1>5 DEF Limiter!LooseNext

\* A job is denied only while its window is full.
LEMMA DenyStep ==
    ASSUME ThrottleInv, ThrottleInv', NoFalseDenial', NEW j \in Jobs, ThrottleFailure(j)
    PROVE  Limiter!Next /\ Limiter!LooseNext
<1>1. /\ pc[j] = "got"
      /\ pc' = [pc EXCEPT ![j] = "denied"]
      /\ stamp' = [stamp EXCEPT ![j] = now]
      /\ UNCHANGED <<now, recorded>>
  BY DEF ThrottleFailure, Resume
<1>2. /\ pc \in [Jobs -> JobStates]
      /\ stamp \in [Jobs -> 0..MaxTime]
      /\ recorded \subseteq Jobs
      /\ j \notin recorded
      /\ KeyOf(j) \in Keys /\ KeyOf(j)[1] = j[2]
  BY <1>1, KeyType DEF ThrottleInv, TypeOK, RecordedIsFinal
<1>3. pc'[j] = "denied" /\ stamp'[j] = now
  BY <1>1, <1>2
<1>4. Outcomes[j] = "open" /\ Outcomes' = [Outcomes EXCEPT ![j] = "denied"]
  BY <1>1, <1>2 DEF Outcomes, Outcome
<1>5. UNCHANGED Stamps
  BY <1>1, <1>2 DEF Stamps
<1>6. RecordedIn(KeyOf(j), now)' = RecordedIn(KeyOf(j), now)
  <2>1. \A q \in recorded : stamp'[q] = stamp[q]
    BY <1>1, <1>2
  <2> QED BY <1>1, <2>1 DEF RecordedIn, KeyOf
<1>7. NumRequests[j[2]] <= Cardinality(RecordedIn(KeyOf(j), now))
  BY <1>1, <1>3, <1>6 DEF NoFalseDenial, KeyOf, RecordedIn
<1>8. ~Limiter!HasRoom(KeyOf(j), now)
  <2>1. IsFiniteSet(RecordedIn(KeyOf(j), now))
    BY RecordedIsFinite, FS_Subset DEF ThrottleInv, TypeOK, RecordedIn
  <2>2. Cardinality(RecordedIn(KeyOf(j), now)) \in Nat
    BY <2>1, FS_CardinalityType
  <2>3. NumRequests[j[2]] \in Nat
    BY ThrottleAssumption DEF Jobs
  <2>4. Limiter!Occupying(KeyOf(j), now) = RecordedIn(KeyOf(j), now)
    BY <1>2, OccupyingIsRecorded
  <2> DEFINE k == KeyOf(j)
  <2>5. k \in Keys /\ NumRequests[k[1]] <= Cardinality(Limiter!Occupying(k, now))
    BY <1>2, <1>7, <2>4
  <2>6. Cardinality(Limiter!Occupying(k, now)) \in Nat /\ NumRequests[k[1]] \in Nat
    BY <1>2, <2>2, <2>3, <2>4
  <2> HIDE DEF k
  <2>7. ~Limiter!HasRoom(k, now)
    <3>1. Limiter!Cardinality(Limiter!Occupying(k, now)) = Cardinality(Limiter!Occupying(k, now))
      BY DEF Limiter!Cardinality, Cardinality
    <3>2. [m \in Keys |-> NumRequests[m[1]]][k] = NumRequests[k[1]]
      BY <2>5
    <3> QED BY <2>5, <2>6, <3>1, <3>2 DEF Limiter!HasRoom
  <2> QED BY <2>7 DEF k
<1>9. Limiter!Deny(j)
  BY <1>1, <1>4, <1>5, <1>8 DEF Limiter!Deny, Outcomes, Stamps
<1> QED BY <1>9 DEF Limiter!Next, Limiter!LooseNext

\* Every step but a SET that takes effect is one that both limiters take, or none.
LEMMA BothLimiters ==
    ASSUME ThrottleInv, ThrottleInv', NoFalseDenial', [Next]_vars
    PROVE  \/ Limiter!Next /\ Limiter!LooseNext
           \/ UNCHANGED <<now, Outcomes, Stamps>>
           \/ \E j \in Jobs : Set(j) \/ LateSet(j)
<1>0. /\ pc \in [Jobs -> JobStates]
      /\ stamp \in [Jobs -> 0..MaxTime]
      /\ \A q \in recorded : pc[q] \notin {"got", "set", "wire"}
  BY DEF ThrottleInv, TypeOK, RecordedIsFinal
<1>1. ASSUME NEW r \in Requests, CheckThrottles(r) PROVE Limiter!Next /\ Limiter!LooseNext
  <2>1. \A j \in Jobs : j[1] = r => pc[j] = "idle"
    BY <1>1 DEF CheckThrottles, ThrottleInv, NewIsIdle
  <2> QED BY <1>1, <2>1, RequestMove DEF CheckThrottles
<1>2. ASSUME NEW r \in Requests, Handle(r) \/ Throttled(r) PROVE Limiter!Next /\ Limiter!LooseNext
  BY <1>2, RequestMove DEF Handle, Throttled
<1>3. ASSUME NEW r \in Requests, Cancel(r) PROVE Limiter!Next /\ Limiter!LooseNext
  <2>1. PICK onWire \in SUBSET {j \in JobsOf(r) : pc[j] = "set"} :
           pc' = [j \in Jobs |-> IF j \in onWire THEN "wire"
                                 ELSE IF j[1] = r /\ pc[j] \in Suspended THEN "cancelled"
                                 ELSE pc[j]]
    BY <1>3 DEF Cancel
  <2> QED BY <1>3, <2>1, RequestMove DEF Cancel, Suspended
<1>4. ASSUME NEW j \in Jobs, Get(j) PROVE Limiter!Next /\ Limiter!LooseNext
  BY <1>4, JobMove DEF Get, Suspended
<1>5. ASSUME NEW j \in Jobs, ThrottleFailure(j) PROVE Limiter!Next /\ Limiter!LooseNext
  BY <1>5, DenyStep
<1>6. ASSUME NEW j \in Jobs, ThrottleSuccess(j) PROVE Limiter!Next /\ Limiter!LooseNext
  <2>1. pc[j] = "got" /\ stamp' = [stamp EXCEPT ![j] = now]
    BY <1>6 DEF ThrottleSuccess, Resume
  <2>2. \A q \in recorded : stamp'[q] = stamp[q]
    BY <1>0, <2>1
  <2> QED BY <1>6, <2>1, <2>2, JobMove DEF ThrottleSuccess, Suspended
<1>7. ASSUME NEW j \in Jobs, Allow(j) \/ Raise(j) \/ LoseSet(j) PROVE Limiter!Next /\ Limiter!LooseNext
  BY <1>7, JobMove DEF Allow, Raise, LoseSet, Suspended
<1>8. CASE Tick
  <2>1. UNCHANGED <<Outcomes, Stamps>>
    BY <1>8 DEF Tick, Outcomes, Outcome, Stamps
  <2> QED BY <1>8, <2>1 DEF Tick, Limiter!Next, Limiter!LooseNext, Limiter!Tick, Outcomes, Stamps
<1>9. CASE Done \/ UNCHANGED vars
  BY <1>9 DEF Done, vars, Outcomes, Outcome, Stamps
<1> QED BY <1>1, <1>2, <1>3, <1>4, <1>5, <1>6, <1>7, <1>8, <1>9 DEF Next, JobStep

\* The SET of a job that has not been recorded.
LEMMA SetIsRecord ==
    ASSUME ThrottleInv, NEW j \in Jobs, Set(j) \/ LateSet(j)
    PROVE  /\ pc[j] \in {"set", "wire"}
           /\ UNCHANGED <<now, stamp>>
           /\ recorded' = recorded \cup {j}
           /\ \A q \in Jobs : q # j => pc'[q] = pc[q]
BY DEF Set, LateSet, ThrottleInv, TypeOK

\* RefinesLooseLimiter: whatever the interleaving, the failures, cancellations
\* and late writes, a denial finds its window full, and every request and
\* throttle has one outcome that never changes.
THEOREM ImplementsLooseLimiter == Spec => RefinesLooseLimiter
<1>1. Init => Limiter!Init
  BY DEF Init, Limiter!Init, Outcome
<1>2. /\ ThrottleInv /\ ThrottleInv' /\ NoFalseDenial' /\ [Next]_vars
      => [Limiter!LooseNext]_Limiter!vars
  <2> SUFFICES ASSUME ThrottleInv, ThrottleInv', NoFalseDenial', [Next]_vars
               PROVE  Limiter!LooseNext \/ UNCHANGED <<now, Outcomes, Stamps>>
    BY DEF Limiter!vars, Outcomes, Stamps
  <2>1. ASSUME NEW j \in Jobs, Set(j) \/ LateSet(j) PROVE Limiter!LooseNext
    BY <2>1, SetIsRecord, RecordStep
  <2> QED BY <2>1, BothLimiters
<1> QED BY <1>1, <1>2, ThrottleInvariance, NeverDeniedFalsely, PTL
        DEF Spec, RefinesLooseLimiter, Limiter!LooseSpec
-----------------------------------------------------------------------------
(* No two requests of a client in flight at the same time.                 *)

Entries(h) == {h[i] : i \in DOMAIN h}

\* Every job recorded for key k whose entry is not too old at time t is in h.
Kept(h, k, t) ==
    \A q \in recorded : KeyOf(q) = k /\ stamp[q] + Duration[q[2]] > t => q[1] \in Entries(h)

Alone == \A q, r \in InFlight : Client[q] = Client[r] => q = r

\* Then no history forgets an entry that counts, and a window that has been full once
\* stays so: what a job is about to write has all that its own window has.
SerialInv ==
    /\ Alone
    /\ \A k \in Keys : Kept(history[k], k, now)
    /\ \A j \in Jobs : pc[j] = "got" => Kept(seen[j], KeyOf(j), now)
    /\ \A j \in Jobs : pc[j] \in {"set", "wire"} =>
          /\ Kept(seen[j], KeyOf(j), stamp[j])
          /\ j[1] \in Entries(seen[j])
          /\ \A q \in recorded : KeyOf(q) = KeyOf(j) => stamp[q] <= stamp[j]
    /\ \A j \in recorded : Cardinality(RecordedIn(KeyOf(j), stamp[j])) <= NumRequests[j[2]]

\* Jobs that a history holds are at most as many as its entries.
LEMMA FewerThanEntries ==
    ASSUME NEW h \in Seq(Requests), NEW s, NEW W,
           \A w \in W : w[1] \in Entries(h) /\ w = <<w[1], s>>
    PROVE  IsFiniteSet(W) /\ Cardinality(W) <= Len(h)
<1> DEFINE f == [w \in W |-> CHOOSE i \in 1..Len(h) : h[i] = w[1]]
<1>1. ASSUME NEW w \in W
      PROVE  f[w] \in 1..Len(h) /\ h[f[w]] = w[1]
  <2>1. \E i \in 1..Len(h) : h[i] = w[1]
    BY DEF Entries
  <2> QED BY <2>1
<1>2. f \in [W -> 1..Len(h)]
  BY <1>1
<1>3. ASSUME NEW v \in W, NEW w \in W, f[v] = f[w]
      PROVE  v = w
  <2>1. v[1] = w[1]
    BY <1>1, <1>3
  <2> QED BY <2>1
<1> HIDE DEF f
<1>4. f \in Injection(W, 1..Len(h))
  BY <1>2, <1>3 DEF Injection, IsInjective
<1>5. Len(h) \in Nat
  OBVIOUS
<1>6. IsFiniteSet(1..Len(h)) /\ Cardinality(1..Len(h)) = Len(h)
  <2>1. 1 \in Int /\ Len(h) \in Int
    BY <1>5
  <2>2. IsFiniteSet(1..Len(h)) /\ Cardinality(1..Len(h)) = IF 1 > Len(h) THEN 0 ELSE Len(h) - 1 + 1
    BY <2>1, FS_Interval, Zenon
  <2> QED BY <1>5, <2>2
<1>7. IsFiniteSet(W) /\ Cardinality(W) <= Cardinality(1..Len(h))
  BY <1>4, <1>6, FS_Injection
<1> QED BY <1>6, <1>7

\* A job that is about to write has room in its window.
LEMMA WriterHasRoom ==
    ASSUME ThrottleInv, SerialInv, NEW j \in Jobs, pc[j] \in {"set", "wire"}
    PROVE  /\ IsFiniteSet(RecordedIn(KeyOf(j), stamp[j]))
           /\ Cardinality(RecordedIn(KeyOf(j), stamp[j])) + 1 <= NumRequests[j[2]]
           /\ j \notin recorded
<1> DEFINE R == RecordedIn(KeyOf(j), stamp[j])
           W == R \cup {j}
<1>1. /\ seen[j] \in Seq(Requests) /\ Len(seen[j]) <= NumRequests[j[2]]
      /\ recorded \subseteq Jobs /\ stamp \in [Jobs -> 0..MaxTime]
      /\ NumRequests[j[2]] \in Nat /\ j \notin recorded
  BY ThrottleAssumption DEF ThrottleInv, TypeOK, LogsToWrite, RecordedIsFinal, Jobs
<1>2. ASSUME NEW w \in W
      PROVE  w[1] \in Entries(seen[j]) /\ w = <<w[1], j[2]>>
  <2>1. CASE w = j
    BY <2>1 DEF SerialInv, Jobs
  <2>2. CASE w \in R
    <3>1. /\ w \in recorded /\ w \in Jobs /\ KeyOf(w) = KeyOf(j)
          /\ stamp[j] - Duration[KeyOf(j)[1]] < stamp[w]
      BY <2>2, <1>1 DEF RecordedIn
    <3>2. w[2] = j[2] /\ KeyOf(j)[1] = w[2] /\ w = <<w[1], j[2]>>
      BY <3>1 DEF KeyOf, Jobs
    <3>3. stamp[w] \in Int /\ stamp[j] \in Int /\ Duration[w[2]] \in Int
      BY <1>1, <3>1, ThrottleAssumption DEF Jobs
    <3>4. stamp[w] + Duration[w[2]] > stamp[j]
      BY <3>1, <3>2, <3>3
    <3> QED BY <3>1, <3>2, <3>4 DEF SerialInv, Kept
  <2> QED BY <2>1, <2>2
<1>3. IsFiniteSet(W) /\ Cardinality(W) <= Len(seen[j])
  <2> HIDE DEF W
  <2> QED BY <1>1, <1>2, FewerThanEntries
<1>4. IsFiniteSet(R) /\ j \notin R
  BY <1>1, <1>3, FS_Subset DEF RecordedIn
<1>5. Cardinality(W) = Cardinality(R) + 1 /\ Cardinality(R) \in Nat
  BY <1>4, FS_AddElement, FS_CardinalityType
<1> QED BY <1>1, <1>3, <1>4, <1>5

\* Nobody else joins.
LEMMA AloneStays ==
    ASSUME Alone, InFlight' \subseteq InFlight
    PROVE  Alone'
BY DEF Alone

\* Nobody joins when no request starts and no job is resumed that was done.
LEMMA FlightShrinks ==
    ASSUME \A r \in Requests : status'[r] = "throttling" => status[r] = "throttling",
           \A j \in Jobs : pc'[j] \in Suspended \cup {"wire"} => pc[j] \in Suspended \cup {"wire"}
    PROVE  InFlight' \subseteq InFlight
BY DEF InFlight, JobsOf

\* Two jobs of one key that are in flight are one.
LEMMA OneOfAKey ==
    ASSUME Alone, NEW j \in Jobs, NEW q \in Jobs, KeyOf(q) = KeyOf(j),
           pc[j] \in Suspended \cup {"wire"}, pc[q] \in Suspended \cup {"wire"}
    PROVE  q = j
<1>1. j[1] \in InFlight /\ q[1] \in InFlight
  BY DEF InFlight, JobsOf, Jobs
<1>2. j[2] = q[2] /\ Client[j[1]] = Client[q[1]]
  BY DEF KeyOf
<1>3. j[1] = q[1]
  BY <1>1, <1>2 DEF Alone
<1> QED BY <1>2, <1>3 DEF Jobs

\* Steps that touch no history, stamp or record.
LEMMA SerialQuiet ==
    ASSUME ThrottleInv, ThrottleInv', SerialInv, Alone',
           UNCHANGED <<history, seen, stamp, recorded>>, now' >= now,
           \A j \in Jobs : pc'[j] = "got" => pc[j] = "got",
           \A j \in Jobs : pc'[j] \in {"set", "wire"} => pc[j] \in {"set", "wire"}
    PROVE  SerialInv'
<1>1. now \in Nat /\ now' \in Nat /\ stamp \in [Jobs -> 0..MaxTime] /\ recorded \subseteq Jobs
  BY DEF ThrottleInv, TypeOK
<1>2. ASSUME NEW h, NEW k, Kept(h, k, now)
      PROVE  Kept(h, k, now)'
  <2> SUFFICES ASSUME NEW q \in recorded, KeyOf(q) = k, stamp[q] + Duration[q[2]] > now'
               PROVE  q[1] \in Entries(h)
    BY DEF Kept, KeyOf, Entries
  <2>1. stamp[q] \in Nat /\ Duration[q[2]] \in Nat
    BY <1>1, ThrottleAssumption DEF Jobs
  <2>2. stamp[q] + Duration[q[2]] > now
    BY <1>1, <2>1
  <2> QED BY <1>2, <2>2 DEF Kept
<1>3. ASSUME NEW k \in Keys PROVE Kept(history[k], k, now)'
  <2>1. PICK h : h = history[k]
    OBVIOUS
  <2>2. Kept(h, k, now)'
    BY <1>2, <2>1 DEF SerialInv
  <2> QED BY <2>1, <2>2
<1>4. ASSUME NEW j \in Jobs, pc'[j] = "got" PROVE Kept(seen[j], KeyOf(j), now)'
  <2>1. PICK h, k : h = seen[j] /\ k = KeyOf(j)
    OBVIOUS
  <2>2. Kept(h, k, now)'
    BY <1>2, <1>4, <2>1 DEF SerialInv
  <2>3. seen'[j] = h /\ KeyOf(j)' = k
    BY <2>1 DEF KeyOf
  <2> QED BY <2>2, <2>3
<1>5. \A j \in Jobs : pc'[j] \in {"set", "wire"} =>
          (/\ Kept(seen[j], KeyOf(j), stamp[j])
           /\ j[1] \in Entries(seen[j])
           /\ \A q \in recorded : KeyOf(q) = KeyOf(j) => stamp[q] <= stamp[j])'
  BY DEF SerialInv, Kept, KeyOf, Entries
<1>6. \A j \in recorded : (Cardinality(RecordedIn(KeyOf(j), stamp[j])) <= NumRequests[j[2]])'
  BY DEF SerialInv, RecordedIn, KeyOf
<1> QED BY <1>3, <1>4, <1>5, <1>6 DEF SerialInv

\* A job that is alone reads all that is recorded and not yet expired.
LEMMA SerialGet ==
    ASSUME ThrottleInv, SerialInv, Alone', NEW j \in Jobs, Get(j)
    PROVE  SerialInv'
<1>1. /\ pc[j] = "get"
      /\ pc' = [pc EXCEPT ![j] = "got"]
      /\ seen' = [seen EXCEPT ![j] = GetReply(KeyOf(j))]
      /\ UNCHANGED <<now, history, expires, stamp, recorded>>
  BY DEF Get
<1>2. /\ pc \in [Jobs -> JobStates] /\ seen \in [Jobs -> Seq(Requests)]
      /\ now \in Nat /\ stamp \in [Jobs -> 0..MaxTime] /\ recorded \subseteq Jobs
      /\ expires \in [Keys -> Nat] /\ KeyOf(j) \in Keys
  BY KeyType DEF ThrottleInv, TypeOK
<1>3. Kept(GetReply(KeyOf(j)), KeyOf(j), now)
  <2>1. CASE now < expires[KeyOf(j)]
    BY <1>2, <2>1 DEF GetReply, SerialInv
  <2>2. CASE ~(now < expires[KeyOf(j)])
    <3> SUFFICES ASSUME NEW q \in recorded, KeyOf(q) = KeyOf(j),
                        stamp[q] + Duration[q[2]] > now
                 PROVE  FALSE
      BY DEF Kept
    <3>1. stamp[q] + Duration[q[2]] <= expires[KeyOf(j)]
      BY DEF ThrottleInv, ExpiryCovers
    <3>2. stamp[q] \in Nat /\ Duration[q[2]] \in Nat /\ expires[KeyOf(j)] \in Nat
      BY <1>2, ThrottleAssumption DEF Jobs
    <3> QED BY <1>2, <2>2, <3>1, <3>2
  <2> QED BY <2>1, <2>2
<1>4. ASSUME NEW q \in Jobs, pc'[q] = "got" PROVE Kept(seen[q], KeyOf(q), now)'
  <2>1. CASE q = j
    <3>1. seen'[q] = GetReply(KeyOf(j))
      BY <1>1, <1>2, <2>1
    <3> QED BY <1>1, <1>3, <2>1, <3>1 DEF Kept, KeyOf, Entries
  <2>2. CASE q # j
    <3>1. seen'[q] = seen[q] /\ pc[q] = "got"
      BY <1>1, <1>2, <1>4, <2>2
    <3> QED BY <1>1, <3>1 DEF SerialInv, Kept, KeyOf, Entries
  <2> QED BY <2>1, <2>2
<1>5. ASSUME NEW q \in Jobs, pc'[q] \in {"set", "wire"}
      PROVE  (/\ Kept(seen[q], KeyOf(q), stamp[q])
              /\ q[1] \in Entries(seen[q])
              /\ \A x \in recorded : KeyOf(x) = KeyOf(q) => stamp[x] <= stamp[q])'
  <2>1. seen'[q] = seen[q] /\ pc[q] \in {"set", "wire"}
    BY <1>1, <1>2, <1>5
  <2> QED BY <1>1, <2>1 DEF SerialInv, Kept, KeyOf, Entries
<1>6. \A k \in Keys : Kept(history[k], k, now)'
  BY <1>1 DEF SerialInv, Kept, KeyOf, Entries
<1>7. \A q \in recorded' : (Cardinality(RecordedIn(KeyOf(q), stamp[q])) <= NumRequests[q[2]])'
  BY <1>1 DEF SerialInv, RecordedIn, KeyOf
<1> QED BY <1>4, <1>5, <1>6, <1>7 DEF SerialInv

\* What is popped is too old to count, and what is left has every entry that does.
LEMMA PopKeeps ==
    ASSUME ThrottleInv, NEW j \in Jobs, Kept(seen[j], KeyOf(j), now),
           NEW n, IsPopped(j, seen[j], now, n)
    PROVE  Kept(SubSeq(seen[j], 1, n), KeyOf(j), now)
<1>1. /\ seen[j] \in Seq(Requests) /\ n \in 0..Len(seen[j]) /\ now \in Nat
      /\ stamp \in [Jobs -> 0..MaxTime] /\ recorded \subseteq Jobs
      /\ \A i \in (n + 1)..Len(seen[j]) :
            stamp[<<seen[j][i], j[2]>>] <= now - Duration[j[2]]
  BY DEF ThrottleInv, TypeOK, IsPopped
<1>2. PICK p : p = SubSeq(seen[j], 1, n)
  OBVIOUS
<1>3. p \in Seq(Requests) /\ Len(p) = n /\ \A i \in 1..n : p[i] = seen[j][i]
  <2>1. \A i \in 1..n : seen[j][i] \in Requests
    BY <1>1
  <2> QED BY <1>1, <1>2, <2>1, SubSeqProperties
<1>4. ASSUME NEW q \in recorded, KeyOf(q) = KeyOf(j), stamp[q] + Duration[q[2]] > now
      PROVE  q[1] \in Entries(p)
  <2>1. PICK i \in DOMAIN seen[j] : seen[j][i] = q[1]
    BY <1>4 DEF Kept, Entries
  <2>2. q[2] = j[2] /\ q = <<seen[j][i], j[2]>>
    BY <1>1, <1>4, <2>1 DEF KeyOf, Jobs
  <2>3. stamp[q] \in Nat /\ Duration[q[2]] \in Nat
    BY <1>1, ThrottleAssumption DEF Jobs
  <2>4. ~(stamp[q] <= now - Duration[j[2]])
    BY <1>1, <1>4, <2>2, <2>3
  <2>5. i \in 1..n
    BY <1>1, <2>1, <2>2, <2>4
  <2> QED BY <1>3, <2>1, <2>5 DEF Entries
<1> QED BY <1>2, <1>4 DEF Kept

\* A decision drops only entries that have left the window.
LEMMA SerialDecide ==
    ASSUME ThrottleInv, SerialInv, Alone', NEW j \in Jobs, NEW n, Resume(j, n),
           UNCHANGED <<now, history, expires, recorded>>,
           NEW h, seen' = [seen EXCEPT ![j] = h],
           NEW p \in {"denied", "set"}, pc' = [pc EXCEPT ![j] = p],
           p = "set" => h = Insert(j, SubSeq(seen[j], 1, n))
    PROVE  SerialInv'
<1>1. /\ pc[j] = "got" /\ stamp' = [stamp EXCEPT ![j] = now]
      /\ IsPopped(j, seen[j], now, n)
  BY DEF Resume
<1>2. /\ pc \in [Jobs -> JobStates] /\ seen \in [Jobs -> Seq(Requests)]
      /\ now \in Nat /\ stamp \in [Jobs -> 0..MaxTime] /\ recorded \subseteq Jobs
      /\ j \notin recorded
  <2>1. j \notin recorded
    BY <1>1 DEF ThrottleInv, RecordedIsFinal
  <2> QED BY <2>1 DEF ThrottleInv, TypeOK
<1>3. /\ \A q \in Jobs : q # j => /\ pc'[q] = pc[q] /\ seen'[q] = seen[q]
                                   /\ stamp'[q] = stamp[q]
      /\ pc'[j] = p /\ seen'[j] = h /\ stamp'[j] = now
      /\ \A q \in recorded : stamp'[q] = stamp[q]
  BY <1>1, <1>2
<1>4. \A l, k, t : Kept(l, k, t) => \A q \in recorded : KeyOf(q) = k /\ stamp'[q] + Duration[q[2]] > t
                                                       => q[1] \in Entries(l)
  BY <1>3 DEF Kept
<1>5. ASSUME NEW k \in Keys PROVE Kept(history[k], k, now)'
  BY <1>3 DEF SerialInv, Kept, KeyOf, Entries
<1>6. ASSUME NEW q \in Jobs, pc'[q] = "got" PROVE Kept(seen[q], KeyOf(q), now)'
  <2>1. q # j
    BY <1>3, <1>6
  <2>2. Kept(seen[q], KeyOf(q), now) /\ seen'[q] = seen[q]
    BY <1>3, <1>6, <2>1 DEF SerialInv
  <2> QED BY <1>3, <2>2 DEF Kept, KeyOf, Entries
<1>7. ASSUME NEW q \in Jobs, pc'[q] \in {"set", "wire"}
      PROVE  (/\ Kept(seen[q], KeyOf(q), stamp[q])
              /\ q[1] \in Entries(seen[q])
              /\ \A x \in recorded : KeyOf(x) = KeyOf(q) => stamp[x] <= stamp[q])'
  <2>1. CASE q # j
    <3>1. /\ seen'[q] = seen[q] /\ stamp'[q] = stamp[q]
          /\ Kept(seen[q], KeyOf(q), stamp[q]) /\ q[1] \in Entries(seen[q])
          /\ \A x \in recorded : KeyOf(x) = KeyOf(q) => stamp[x] <= stamp[q]
      BY <1>3, <1>7, <2>1 DEF SerialInv
    <3> QED BY <1>3, <3>1 DEF Kept, KeyOf, Entries
  <2>2. CASE q = j
    <3>1. PICK b : b = SubSeq(seen[j], 1, n)
      OBVIOUS
    <3>2. h = <<j[1]>> \o b
      BY <1>3, <1>7, <2>2, <3>1 DEF Insert
    <3>3. Kept(b, KeyOf(j), now)
      BY <1>1, <3>1, PopKeeps DEF SerialInv
    <3>4. b \in Seq(Requests)
      BY <1>1, <3>1, PopType DEF IsPopped, ThrottleInv
    <3>5. <<j[1]>> \in Seq(Requests) /\ Len(<<j[1]>>) = 1 /\ <<j[1]>>[1] = j[1]
      BY DEF Jobs
    <3>6. /\ h \in Seq(Requests) /\ Len(h) = Len(b) + 1
          /\ \A i \in 1..(Len(b) + 1) : h[i] = IF i = 1 THEN j[1] ELSE b[i - 1]
      BY <3>2, <3>4, <3>5, ConcatProperties
    <3>7. j[1] \in Entries(h)
      <4>1. 1 \in DOMAIN h /\ h[1] = j[1]
        BY <3>4, <3>6
      <4> QED BY <4>1 DEF Entries
    <3>8. \A x \in Entries(b) : x \in Entries(h)
      <4> SUFFICES ASSUME NEW i \in DOMAIN b PROVE b[i] \in Entries(h)
        BY DEF Entries
      <4>1. i + 1 \in DOMAIN h /\ h[i + 1] = b[i]
        BY <3>4, <3>6
      <4> QED BY <4>1 DEF Entries
    <3>9. Kept(seen[q], KeyOf(q), stamp[q])'
      BY <1>3, <2>2, <3>3, <3>8 DEF Kept, KeyOf, Entries
    <3>10. \A x \in recorded : stamp'[x] <= now
      BY <1>2, <1>3 DEF ThrottleInv, StampsArePast
    <3> QED BY <1>3, <2>2, <3>7, <3>9, <3>10 DEF Entries
  <2> QED BY <2>1, <2>2
<1>8. ASSUME NEW q \in recorded'
      PROVE  (Cardinality(RecordedIn(KeyOf(q), stamp[q])) <= NumRequests[q[2]])'
  <2>1. RecordedIn(KeyOf(q), stamp[q])' = RecordedIn(KeyOf(q), stamp[q])
    BY <1>3 DEF RecordedIn, KeyOf
  <2> QED BY <2>1 DEF SerialInv
<1> QED BY <1>5, <1>6, <1>7, <1>8 DEF SerialInv

\* What a job writes has every entry of its key that counts, and the job is alone there.
LEMMA SerialWrite ==
    ASSUME ThrottleInv, ThrottleInv', SerialInv, Alone', NEW j \in Jobs, pc[j] \in {"set", "wire"},
           SetKey(KeyOf(j), seen[j]), recorded' = recorded \cup {j},
           UNCHANGED <<now, seen, stamp>>,
           NEW p \in {"stored", "cancelled"}, pc' = [pc EXCEPT ![j] = p]
    PROVE  SerialInv'
<1> DEFINE k == KeyOf(j)
<1>1. /\ history' = [history EXCEPT ![k] = seen[j]]
      /\ history \in [Keys -> Seq(Requests)] /\ pc \in [Jobs -> JobStates]
      /\ now \in Nat /\ stamp \in [Jobs -> 0..MaxTime] /\ recorded \subseteq Jobs
      /\ k \in Keys /\ stamp[j] <= now
  BY KeyType DEF SetKey, ThrottleInv, TypeOK, StampsArePast
<1>2. /\ Kept(seen[j], k, stamp[j])
      /\ j[1] \in Entries(seen[j])
      /\ \A q \in recorded : KeyOf(q) = k => stamp[q] <= stamp[j]
  BY DEF SerialInv
<1>3. ASSUME NEW q \in Jobs, pc'[q] \in {"got", "set", "wire"}
      PROVE  pc[q] = pc'[q] /\ KeyOf(q) # k
  <2>1. q # j /\ pc[q] = pc'[q]
    BY <1>1, <1>3
  <2>2. KeyOf(q) # k
    BY <1>3, <2>1, OneOfAKey DEF SerialInv, Suspended
  <2> QED BY <2>1, <2>2
<1>4. ASSUME NEW l \in Keys PROVE Kept(history[l], l, now)'
  <2>1. CASE l = k
    <3> SUFFICES ASSUME NEW q \in recorded \cup {j}, KeyOf(q) = k,
                        stamp[q] + Duration[q[2]] > now
                 PROVE  q[1] \in Entries(seen[j])
      BY <1>1, <2>1 DEF Kept, KeyOf, Entries
    <3>1. CASE q = j
      BY <1>2, <3>1
    <3>2. CASE q \in recorded
      <4>1. stamp[q] \in Nat /\ Duration[q[2]] \in Nat /\ stamp[j] \in Nat
        BY <1>1, <3>2, ThrottleAssumption DEF Jobs
      <4>2. stamp[q] + Duration[q[2]] > stamp[j]
        BY <1>1, <4>1
      <4> QED BY <1>2, <3>2, <4>2 DEF Kept
    <3> QED BY <3>1, <3>2
  <2>2. CASE l # k
    <3>1. Kept(history[l], l, now) /\ history'[l] = history[l]
      BY <1>1, <2>2 DEF SerialInv
    <3> QED BY <2>2, <3>1 DEF Kept, KeyOf, Entries
  <2> QED BY <2>1, <2>2
<1>5. ASSUME NEW q \in Jobs, pc'[q] = "got" PROVE Kept(seen[q], KeyOf(q), now)'
  <2>1. Kept(seen[q], KeyOf(q), now) /\ KeyOf(q) # k
    BY <1>3, <1>5 DEF SerialInv
  <2> QED BY <2>1 DEF Kept, KeyOf, Entries
<1>6. ASSUME NEW q \in Jobs, pc'[q] \in {"set", "wire"}
      PROVE  (/\ Kept(seen[q], KeyOf(q), stamp[q])
              /\ q[1] \in Entries(seen[q])
              /\ \A x \in recorded : KeyOf(x) = KeyOf(q) => stamp[x] <= stamp[q])'
  <2>1. pc[q] \in {"set", "wire"} /\ KeyOf(q) # k
    BY <1>3, <1>6
  <2>2. /\ Kept(seen[q], KeyOf(q), stamp[q])
        /\ q[1] \in Entries(seen[q])
        /\ \A x \in recorded : KeyOf(x) = KeyOf(q) => stamp[x] <= stamp[q]
    BY <2>1 DEF SerialInv
  <2> QED BY <2>1, <2>2 DEF Kept, KeyOf, Entries
<1>7. ASSUME NEW q \in recorded'
      PROVE  (Cardinality(RecordedIn(KeyOf(q), stamp[q])) <= NumRequests[q[2]])'
  <2> DEFINE R == RecordedIn(k, stamp[j])
  <2>1. q \in Jobs /\ stamp[q] \in Nat /\ stamp[j] \in Nat
    BY <1>1
  <2>2. IsFiniteSet(R) /\ Cardinality(R) + 1 <= NumRequests[j[2]] /\ j \notin recorded
    BY WriterHasRoom
  <2>3. CASE KeyOf(q) = k /\ stamp[q] = stamp[j]
    <3>1. RecordedIn(KeyOf(q), stamp[q])' \subseteq R \cup {j}
      BY <2>3 DEF RecordedIn, KeyOf
    <3>2. Cardinality(R \cup {j}) = Cardinality(R) + 1 /\ IsFiniteSet(R \cup {j})
      <4>1. j \notin R
        BY <2>2 DEF RecordedIn
      <4> QED BY <2>2, <4>1, FS_AddElement
    <3>3. /\ IsFiniteSet(RecordedIn(KeyOf(q), stamp[q])')
          /\ Cardinality(RecordedIn(KeyOf(q), stamp[q])') <= Cardinality(R \cup {j})
      BY <3>1, <3>2, FS_Subset
    <3>4. q[2] = j[2]
      BY <2>3 DEF KeyOf
    <3>5. /\ Cardinality(RecordedIn(KeyOf(q), stamp[q])') \in Nat /\ Cardinality(R) \in Nat
          /\ NumRequests[j[2]] \in Nat
      BY <2>2, <3>3, FS_CardinalityType, ThrottleAssumption DEF Jobs
    <3> HIDE DEF R
    <3>6. Cardinality(RecordedIn(KeyOf(q), stamp[q])') <= NumRequests[q[2]]
      BY <2>2, <3>2, <3>3, <3>4, <3>5
    <3> QED BY <3>6
  <2>4. CASE ~(KeyOf(q) = k /\ stamp[q] = stamp[j])
    <3>1. q \in recorded
      BY <2>4
    <3>2. KeyOf(q) = k => stamp[q] < stamp[j]
      BY <1>2, <2>1, <2>4, <3>1
    <3>3. RecordedIn(KeyOf(q), stamp[q])' = RecordedIn(KeyOf(q), stamp[q])
      BY <2>1, <3>2 DEF RecordedIn, KeyOf
    <3> QED BY <3>1, <3>3 DEF SerialInv
  <2> QED BY <2>3, <2>4
<1> QED BY <1>4, <1>5, <1>6, <1>7 DEF SerialInv

\* Nothing is in flight and nothing recorded.
LEMMA InitIsSerial == Init => SerialInv
<1> SUFFICES ASSUME Init PROVE SerialInv
  OBVIOUS
<1>1. recorded = {} /\ \A j \in Jobs : pc[j] = "idle"
  BY DEF Init
<1>2. InFlight = {}
  BY <1>1 DEF Init, InFlight, JobsOf, Suspended
<1> QED BY <1>1, <1>2 DEF SerialInv, Alone, Kept

\* With one request at a time no two are in flight.
LEMMA AloneStep ==
    ASSUME Concurrency = 1, ThrottleInv, Alone, [Next]_vars
    PROVE  Alone'
<1>0. /\ pc \in [Jobs -> JobStates] /\ status \in [Requests -> RequestStates]
      /\ \A j \in Jobs : j[1] \in Requests
  BY DEF ThrottleInv, TypeOK, Jobs
<1>1. ASSUME NEW r \in Requests, CheckThrottles(r) PROVE Alone'
  <2>1. IsFiniteSet(InFlight)
    BY FS_Subset, ThrottleAssumption DEF InFlight
  <2>2. Cardinality(InFlight) \in Nat /\ Cardinality(InFlight) < 1
    BY <1>1, <2>1, FS_CardinalityType DEF CheckThrottles
  <2>3. InFlight = {}
    BY <2>1, <2>2, FS_EmptySet
  <2>4. InFlight' \subseteq {r}
    <3>1. /\ \A q \in Requests : status'[q] = "throttling" => q = r \/ q \in InFlight
          /\ \A j \in Jobs : pc'[j] \in Suspended \cup {"wire"} => j[1] = r \/ j[1] \in InFlight
      BY <1>0, <1>1 DEF CheckThrottles, InFlight, JobsOf
    <3> QED BY <2>3, <3>1 DEF InFlight, JobsOf
  <2> QED BY <2>4 DEF Alone
<1>2. ASSUME NEW r \in Requests, Handle(r) \/ Throttled(r) PROVE Alone'
  BY <1>0, <1>2, FlightShrinks, AloneStays DEF Handle, Throttled
<1>3. ASSUME NEW r \in Requests, Cancel(r) PROVE Alone'
  <2>1. PICK onWire \in SUBSET {j \in JobsOf(r) : pc[j] = "set"} :
           pc' = [j \in Jobs |-> IF j \in onWire THEN "wire"
                                 ELSE IF j[1] = r /\ pc[j] \in Suspended THEN "cancelled"
                                 ELSE pc[j]]
    BY <1>3 DEF Cancel
  <2>2. \A j \in Jobs : pc'[j] \in Suspended \cup {"wire"} => pc[j] \in Suspended \cup {"wire"}
    BY <2>1 DEF Suspended
  <2>3. \A q \in Requests : status'[q] = "throttling" => status[q] = "throttling"
    BY <1>0, <1>3 DEF Cancel
  <2> QED BY <2>2, <2>3, FlightShrinks, AloneStays
<1>4. ASSUME NEW j \in Jobs, JobStep(j) \/ Raise(j) \/ LateSet(j) \/ LoseSet(j) PROVE Alone'
  <2>1. pc[j] \in Suspended \cup {"wire"} /\ \A q \in Jobs : q # j => pc'[q] = pc[q]
    BY <1>0, <1>4 DEF JobStep, Get, ThrottleFailure, ThrottleSuccess, Set, Allow, Raise,
                      LateSet, LoseSet, Resume, Suspended
  <2>2. \A q \in Requests : status'[q] = "throttling" => status[q] = "throttling"
    BY <1>0, <1>4 DEF JobStep, Get, ThrottleFailure, ThrottleSuccess, Set, Allow, Raise,
                      LateSet, LoseSet
  <2> QED BY <2>1, <2>2, FlightShrinks, AloneStays
<1>5. CASE Tick \/ Done \/ UNCHANGED vars
  BY <1>5, FlightShrinks, AloneStays DEF Tick, Done, vars
<1> QED BY <1>1, <1>2, <1>3, <1>4, <1>5 DEF Next

\* SerialInv is kept by every step.
LEMMA SerialStep ==
    ASSUME ThrottleInv, ThrottleInv', SerialInv, Alone', [Next]_vars
    PROVE  SerialInv'
<1>0. now \in Nat /\ pc \in [Jobs -> JobStates]
  BY DEF ThrottleInv, TypeOK
<1>1. ASSUME NEW r \in Requests, CheckThrottles(r) \/ Handle(r) \/ Throttled(r) PROVE SerialInv'
  <2>1. /\ UNCHANGED <<history, seen, stamp, recorded>> /\ now' = now
        /\ \A j \in Jobs : pc'[j] \in {"got", "set", "wire"} => pc[j] = pc'[j]
    BY <1>1 DEF CheckThrottles, Handle, Throttled
  <2> QED BY <1>0, <2>1, SerialQuiet
<1>2. ASSUME NEW r \in Requests, Cancel(r) PROVE SerialInv'
  <2>1. PICK onWire \in SUBSET {j \in JobsOf(r) : pc[j] = "set"} :
           pc' = [j \in Jobs |-> IF j \in onWire THEN "wire"
                                 ELSE IF j[1] = r /\ pc[j] \in Suspended THEN "cancelled"
                                 ELSE pc[j]]
    BY <1>2 DEF Cancel
  <2>2. \A j \in Jobs : pc'[j] = "got" => pc[j] = "got"
    BY <2>1
  <2>3. \A j \in Jobs : pc'[j] \in {"set", "wire"} => pc[j] \in {"set", "wire"}
    BY <2>1
  <2>4. UNCHANGED <<history, seen, stamp, recorded>> /\ now' = now
    BY <1>2 DEF Cancel
  <2> QED BY <1>0, <2>2, <2>3, <2>4, SerialQuiet
<1>3. ASSUME NEW j \in Jobs, Get(j) PROVE SerialInv'
  BY <1>0, <1>3, SerialGet
<1>4. ASSUME NEW j \in Jobs, ThrottleFailure(j) PROVE SerialInv'
  <2>1. PICK n \in 0..Len(seen[j]) : /\ Resume(j, n)
                                    /\ seen' = [seen EXCEPT ![j] = SubSeq(seen[j], 1, n)]
    BY <1>4 DEF ThrottleFailure
  <2>2. PICK h, p : h = SubSeq(seen[j], 1, n) /\ p = "denied"
    OBVIOUS
  <2>3. /\ UNCHANGED <<now, history, expires, recorded>>
        /\ seen' = [seen EXCEPT ![j] = h] /\ pc' = [pc EXCEPT ![j] = p]
    BY <1>4, <2>1, <2>2 DEF ThrottleFailure
  <2> QED BY <1>0, <2>1, <2>2, <2>3, SerialDecide
<1>5. ASSUME NEW j \in Jobs, ThrottleSuccess(j) PROVE SerialInv'
  <2>1. PICK n \in 0..Len(seen[j]) : /\ Resume(j, n)
                                    /\ seen' = [seen EXCEPT ![j] = Insert(j, SubSeq(seen[j], 1, n))]
    BY <1>5 DEF ThrottleSuccess
  <2>2. PICK h, p : h = Insert(j, SubSeq(seen[j], 1, n)) /\ p = "set"
    OBVIOUS
  <2>3. /\ UNCHANGED <<now, history, expires, recorded>>
        /\ seen' = [seen EXCEPT ![j] = h] /\ pc' = [pc EXCEPT ![j] = p]
    BY <1>5, <2>1, <2>2 DEF ThrottleSuccess
  <2> QED BY <1>0, <2>1, <2>2, <2>3, SerialDecide
<1>6. ASSUME NEW j \in Jobs, Set(j) PROVE SerialInv'
  <2>1. PICK p : p = "stored"
    OBVIOUS
  <2> QED BY <1>0, <1>6, <2>1, SerialWrite DEF Set
<1>7. ASSUME NEW j \in Jobs, LateSet(j) PROVE SerialInv'
  <2>1. PICK p : p = "cancelled"
    OBVIOUS
  <2> QED BY <1>0, <1>7, <2>1, SerialWrite DEF LateSet
<1>8. ASSUME NEW j \in Jobs, Allow(j) \/ Raise(j) \/ LoseSet(j) PROVE SerialInv'
  <2>1. /\ UNCHANGED <<history, seen, stamp, recorded>> /\ now' = now
        /\ \A q \in Jobs : pc'[q] \in {"got", "set", "wire"} => pc[q] = pc'[q]
    BY <1>0, <1>8 DEF Allow, Raise, LoseSet
  <2> QED BY <1>0, <2>1, SerialQuiet
<1>9. CASE Tick \/ Done \/ UNCHANGED vars
  BY <1>0, <1>9, SerialQuiet DEF Tick, Done, vars
<1> QED BY <1>1, <1>2, <1>3, <1>4, <1>5, <1>6, <1>7, <1>8, <1>9 DEF Next, JobStep

\* SerialInv: while no two requests of a client overlap, no history loses an entry that
\* still counts, through failures, cancellations and late writes.
THEOREM SerialInvariance == Spec /\ []Alone => []SerialInv
BY InitIsSerial, SerialStep, ThrottleInvariance, PTL DEF Spec

\* They do not if the requests come one at a time, which is how the run checks it.
THEOREM OneAtATime == ASSUME Concurrency = 1 PROVE Spec => []Alone
<1>1. Init => Alone
  BY InitIsSerial DEF SerialInv
<1> QED BY <1>1, AloneStep, ThrottleInvariance, PTL DEF Spec

\* "Limits the rate of API calls that may be made by a given user" (throttles.py:196):
\* it does for as long as no two requests of a client overlap, whatever overlaps of
\* different clients.
THEOREM RateIsKept == Spec /\ []Alone => []RateIsLimited
<1>1. ThrottleInv /\ SerialInv /\ HandledWasRecorded => RateIsLimited
  <2> SUFFICES ASSUME ThrottleInv, SerialInv, HandledWasRecorded,
                      NEW r \in Requests, NEW s \in Scopes,
                      ~IsExempt(<<r, s>>), status[r] = "handled"
               PROVE  Cardinality({q \in RecordedIn(KeyOf(<<r, s>>), stamp[<<r, s>>]) :
                                      status[q[1]] = "handled"}) <= NumRequests[s]
    BY DEF RateIsLimited
  <2>1. PICK j : j = <<r, s>>
    OBVIOUS
  <2>2. j \in JobsOf(r) /\ j \in Jobs /\ j[2] = s
    BY <2>1 DEF JobsOf, Jobs
  <2>3. j \in recorded
    BY <2>1, <2>2 DEF HandledWasRecorded
  <2> DEFINE R == RecordedIn(KeyOf(j), stamp[j])
             H == {q \in R : status[q[1]] = "handled"}
  <2>4. IsFiniteSet(R)
    BY RecordedIsFinite, FS_Subset DEF ThrottleInv, RecordedIn
  <2>5. IsFiniteSet(H) /\ Cardinality(H) <= Cardinality(R)
    BY <2>4, FS_Subset
  <2>6. Cardinality(R) <= NumRequests[s]
    BY <2>2, <2>3 DEF SerialInv
  <2>7. Cardinality(H) \in Nat /\ Cardinality(R) \in Nat /\ NumRequests[s] \in Nat
    BY <2>4, <2>5, FS_CardinalityType, ThrottleAssumption
  <2> HIDE DEF R
  <2>8. Cardinality(H) <= NumRequests[s]
    BY <2>5, <2>6, <2>7
  <2> QED BY <2>1, <2>8 DEF R
<1> QED BY <1>1, ThrottleInvariance, SerialInvariance, HandledIsRecorded, PTL

\* While no client overlaps with itself, an attempt is admitted only into a window with room.
LEMMA AdmitStep ==
    ASSUME ThrottleInv, SerialInv, NEW j \in Jobs, pc[j] \in {"set", "wire"},
           UNCHANGED <<now, stamp>>,
           recorded' = recorded \cup {j},
           \A q \in Jobs : q # j => pc'[q] = pc[q]
    PROVE  Limiter!Next
<1> DEFINE k == KeyOf(j)
<1>1. /\ IsFiniteSet(RecordedIn(k, stamp[j]))
      /\ Cardinality(RecordedIn(k, stamp[j])) + 1 <= NumRequests[j[2]]
      /\ j \notin recorded
  BY WriterHasRoom
<1>2. Outcomes[j] = "open" /\ Outcomes' = [Outcomes EXCEPT ![j] = "admitted"]
  <2>1. pc[j] # "denied" /\ pc[j] \notin {"allowed", "raised", "cancelled"}
    OBVIOUS
  <2> QED BY <1>1, <2>1 DEF Outcomes, Outcome
<1>3. Stamps' = [Stamps EXCEPT ![j] = stamp[j]]
  BY DEF Stamps
<1>4. /\ stamp[j] \in 0..now /\ k \in Keys /\ k[1] = j[2]
      /\ recorded \subseteq Jobs /\ NumRequests[j[2]] \in Nat
  BY KeyType, ThrottleAssumption DEF ThrottleInv, TypeOK, StampsArePast, Jobs
<1>5. PICK t : t = stamp[j]
  OBVIOUS
<1>6. Limiter!IsLatest(k, t)
  <2>1. \A q \in Jobs : Outcomes[q] = "admitted" => q \in recorded /\ Stamps[q] = stamp[q]
    BY DEF Outcomes, Outcome, Stamps
  <2>2. \A q \in recorded : KeyOf(q) = k => stamp[q] <= stamp[j]
    BY DEF SerialInv
  <2>3. \A q \in Jobs : [x \in Jobs |-> KeyOf(x)][q] = KeyOf(q)
    OBVIOUS
  <2> QED BY <1>5, <2>1, <2>2, <2>3 DEF Limiter!IsLatest, Outcomes, Stamps
<1>7. Limiter!HasRoom(k, t)
  <2>1. Limiter!Occupying(k, t) = RecordedIn(k, stamp[j])
    BY <1>4, <1>5, OccupyingIsRecorded
  <2>2. Cardinality(RecordedIn(k, stamp[j])) \in Nat
    BY <1>1, FS_CardinalityType
  <2> HIDE DEF k
  <2>3. Cardinality(Limiter!Occupying(k, t)) < NumRequests[k[1]]
    BY <1>1, <1>4, <2>1, <2>2
  <2>4. Limiter!Cardinality(Limiter!Occupying(k, t)) = Cardinality(Limiter!Occupying(k, t))
    BY DEF Limiter!Cardinality, Cardinality
  <2>5. [m \in Keys |-> NumRequests[m[1]]][k] = NumRequests[k[1]]
    BY <1>4
  <2> QED BY <2>3, <2>4, <2>5 DEF Limiter!HasRoom
<1>8. Limiter!Admit(j)
  <2>1. [x \in Jobs |-> KeyOf(x)][j] = k
    OBVIOUS
  <2> HIDE DEF k
  <2>2. /\ Limiter!HasRoom([x \in Jobs |-> KeyOf(x)][j], t)
        /\ Limiter!IsLatest([x \in Jobs |-> KeyOf(x)][j], t)
    BY <1>6, <1>7, <2>1, Zenon
  <2>3. t \in 0..now
    BY <1>4, <1>5
  <2>4. Limiter!AdmitAt(j, t)
    BY <1>2, <1>3, <1>5 DEF Limiter!AdmitAt, Outcomes, Stamps
  <2> QED BY <2>2, <2>3, <2>4, Zenon DEF Limiter!Admit
<1> QED BY <1>8 DEF Limiter!Next

\* RefinesLimiter: while no two requests of a client overlap, the throttle is the exact
\* limiter.  It admits into a window with room and denies when there is none, and no
\* failure, cancellation or late write makes it admit or deny more than that.
THEOREM ImplementsLimiter == Spec /\ []Alone => RefinesLimiter
<1>1. Init => Limiter!Init
  BY DEF Init, Limiter!Init, Outcome
<1>2. /\ ThrottleInv /\ ThrottleInv' /\ SerialInv /\ NoFalseDenial' /\ [Next]_vars
      => [Limiter!Next]_Limiter!vars
  <2> SUFFICES ASSUME ThrottleInv, ThrottleInv', SerialInv, NoFalseDenial', [Next]_vars
               PROVE  Limiter!Next \/ UNCHANGED <<now, Outcomes, Stamps>>
    BY DEF Limiter!vars, Outcomes, Stamps
  <2>1. ASSUME NEW j \in Jobs, Set(j) \/ LateSet(j) PROVE Limiter!Next
    BY <2>1, SetIsRecord, AdmitStep
  <2> QED BY <2>1, BothLimiters
<1> QED BY <1>1, <1>2, ThrottleInvariance, SerialInvariance, NeverDeniedFalsely, PTL
        DEF Spec, RefinesLimiter, Limiter!Spec
=============================================================================
