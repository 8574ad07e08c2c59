------------------------------ MODULE Throttle ------------------------------
(***************************************************************************)
(* SimpleRateThrottle (insanic/throttles.py) under the check_throttles of  *)
(* a view (insanic/views.py).                                              *)
(*                                                                         *)
(* Every request runs one coroutine (a job) for each throttle class of its *)
(* view, all under one asyncio.gather.  A job reads its key's history from *)
(* Redis, decides, and writes the history back with itself in front.  The  *)
(* read and the write are two commands on two acquisitions of a pooled     *)
(* connection, and the coroutine is suspended at both: jobs of other       *)
(* requests run in between.  A job may fail or be cancelled where it is    *)
(* suspended.                                                              *)
(*                                                                         *)
(* An entry of a history is the request that wrote it; the time stamp the  *)
(* code stores is that request's `stamp`.                                  *)
(***************************************************************************)
EXTENDS Integers, Sequences, FiniteSets

CONSTANTS
    Requests,       \* each is made once
    Clients,        \* the idents get_cache_key tells apart
    Client,         \* [Requests -> Clients]
    Authenticated,  \* the clients with request.user.is_authenticated
    Scopes,         \* the scopes of the view's throttle classes
    Order,          \* the scopes in the order of view.throttle_classes
    AnonScopes,     \* those of an AnonRateThrottle
    UnratedScopes,  \* those whose rate is None
    Second,         \* the clock's units in a second: time.time() is finer than one
    NumRequests,    \* [Scopes -> Nat]: parse_rate(rate)[0]
    Duration,       \* [Scopes -> Nat]: parse_rate(rate)[1], in the clock's units
    PoolSize,       \* connections of the "throttle" pool
    Concurrency,    \* bound: requests in flight at once
    Faults,         \* whether Redis may fail and requests be cancelled
    MaxTime         \* bound of the clock

ASSUME ThrottleAssumption ==
    /\ IsFiniteSet(Requests)
    /\ IsFiniteSet(Scopes)
    /\ Client \in [Requests -> Clients]
    /\ Authenticated \subseteq Clients
    /\ Order \in Seq(Scopes)
    /\ AnonScopes \subseteq Scopes
    /\ UnratedScopes \subseteq Scopes
    /\ NumRequests \in [Scopes -> Nat]
    /\ Duration \in [Scopes -> Nat \ {0}]
    /\ Second \in Nat \ {0}
    /\ \A s \in Scopes : Duration[s] % Second = 0
    /\ PoolSize \in Nat \ {0}
    /\ Concurrency \in Nat
    /\ Faults \in BOOLEAN
    /\ MaxTime \in Nat

VARIABLES
    now,       \* time.time()
    history,   \* [Keys -> Seq(Requests)]: the last value SET, newest first
    expires,   \* [Keys -> Nat]: when Redis drops that value
    pc,        \* [Jobs -> JobStates]: where the job's coroutine is
    seen,      \* [Jobs -> Seq(Requests)]: throttle.history
    stamp,     \* [Jobs -> Nat]: throttle.now
    held,      \* the jobs that hold a connection of the pool
    status,    \* [Requests -> RequestStates]
    wait,      \* [Requests -> Nat, or NoWait]: Throttled.wait of a denied request, in seconds
    recorded   \* history variable: the jobs whose SET took effect

vars == <<now, history, expires, pc, seen, stamp, held, status, wait, recorded>>

Jobs == Requests \X Scopes
Keys == Scopes \X Clients

KeyOf(j) == <<j[2], Client[j[1]]>>
JobsOf(r) == {j \in Jobs : j[1] = r}

\* Suspended at: acquire+GET, the reply of GET, acquire+SET, the reply of SET.
Suspended == {"get", "got", "set", "stored"}
Finished == {"allowed", "denied", "raised", "cancelled"}
JobStates == {"idle", "wire"} \cup Suspended \cup Finished
RequestStates == {"new", "throttling", "handled", "denied", "error", "cancelled"}

NoWait == -1

Init ==
    /\ now = 0
    /\ history = [k \in Keys |-> <<>>]
    /\ expires = [k \in Keys |-> 0]
    /\ pc = [j \in Jobs |-> "idle"]
    /\ seen = [j \in Jobs |-> <<>>]
    /\ stamp = [j \in Jobs |-> 0]
    /\ held = {}
    /\ status = [r \in Requests |-> "new"]
    /\ wait = [r \in Requests |-> NoWait]
    /\ recorded = {}
-----------------------------------------------------------------------------
(* Redis.                                                                  *)

GetReply(k) == IF now < expires[k] THEN history[k] ELSE <<>>

\* conn.set(key, ..., expire=duration)
BugShortExpiry(k) == now + Duration[k[1]] - 1
ExpiryOf(k) == now + Duration[k[1]]

SetKey(k, h) == /\ history' = [history EXCEPT ![k] = h]
                /\ expires' = [expires EXCEPT ![k] = ExpiryOf(k)]

Acquire(j) == /\ Cardinality(held) < PoolSize
              /\ held' = held \cup {j}

\* `with await redis as conn` ends, by a return or by an exception.
BugKeepsConnection(j) == UNCHANGED held
Release(j) == held' = held \ {j}
-----------------------------------------------------------------------------
(* allow_request.                                                          *)

\* rate is None, or get_cache_key returns None.
IsExempt(j) == \/ j[2] \in UnratedScopes
               \/ j[2] \in AnonScopes /\ Client[j[1]] \in Authenticated

\* IsPopped with `<` for `<=`.
BugPopsLate(j, h, t, n) ==
    LET IsOld(i) == stamp[<<h[i], j[2]>>] < t - Duration[j[2]]
    IN /\ n \in 0..Len(h)
       /\ n > 0 => ~IsOld(n)
       /\ \A i \in (n + 1)..Len(h) : IsOld(i)

\* What `while history and history[-1] <= now - duration: history.pop()`
\* leaves of h at time t: its first n entries.
IsPopped(j, h, t, n) ==
    LET IsOld(i) == stamp[<<h[i], j[2]>>] <= t - Duration[j[2]]
    IN /\ n \in 0..Len(h)
       /\ n > 0 => ~IsOld(n)
       /\ \A i \in (n + 1)..Len(h) : IsOld(i)

\* A request is in flight while any of its jobs may still act.
InFlight == {r \in Requests : \/ status[r] = "throttling"
                              \/ \E j \in JobsOf(r) : pc[j] \in Suspended \cup {"wire"}}

\* check_throttles starts every job; an exempt one returns without suspending.
CheckThrottles(r) ==
    /\ status[r] = "new"
    /\ Cardinality(InFlight) < Concurrency
    /\ status' = [status EXCEPT ![r] = "throttling"]
    /\ pc' = [j \in Jobs |-> IF j[1] # r THEN pc[j]
                             ELSE IF IsExempt(j) THEN "allowed" ELSE "get"]
    /\ UNCHANGED <<now, history, expires, seen, stamp, held, wait, recorded>>

\* A connection is acquired and GET executes on the server.
Get(j) ==
    /\ pc[j] = "get"
    /\ Acquire(j)
    /\ seen' = [seen EXCEPT ![j] = GetReply(KeyOf(j))]
    /\ pc' = [pc EXCEPT ![j] = "got"]
    /\ UNCHANGED <<now, history, expires, stamp, status, wait, recorded>>

\* The coroutine resumes with the reply, gives the connection back, reads the
\* clock and pops the old entries.
Resume(j, n) ==
    /\ pc[j] = "got"
    /\ IsPopped(j, seen[j], now, n)
    /\ Release(j)
    /\ stamp' = [stamp EXCEPT ![j] = now]

\* len(history) >= num_requests
BugOffByOne(j, n) == n > NumRequests[j[2]]
IsOverLimit(j, n) == n >= NumRequests[j[2]]

\* history.insert(0, now)
BugAppends(j, h) == Append(h, j[1])
Insert(j, h) == <<j[1]>> \o h

ThrottleFailure(j) ==
    /\ \E n \in 0..Len(seen[j]) :
          /\ Resume(j, n)
          /\ IsOverLimit(j, n)
          /\ seen' = [seen EXCEPT ![j] = SubSeq(@, 1, n)]
    /\ pc' = [pc EXCEPT ![j] = "denied"]
    /\ UNCHANGED <<now, history, expires, status, wait, recorded>>

\* throttle_success up to its first suspension: insert(0, now).
ThrottleSuccess(j) ==
    /\ \E n \in 0..Len(seen[j]) :
          /\ Resume(j, n)
          /\ ~IsOverLimit(j, n)
          /\ seen' = [seen EXCEPT ![j] = Insert(j, SubSeq(@, 1, n))]
    /\ pc' = [pc EXCEPT ![j] = "set"]
    /\ UNCHANGED <<now, history, expires, status, wait, recorded>>

\* A second connection is acquired and SET executes on the server.
Set(j) ==
    /\ pc[j] = "set"
    /\ Acquire(j)
    /\ SetKey(KeyOf(j), seen[j])
    /\ recorded' = recorded \cup {j}
    /\ pc' = [pc EXCEPT ![j] = "stored"]
    /\ UNCHANGED <<now, seen, stamp, status, wait>>

\* The coroutine resumes with the reply of SET and returns True.
Allow(j) ==
    /\ pc[j] = "stored"
    /\ Release(j)
    /\ pc' = [pc EXCEPT ![j] = "allowed"]
    /\ UNCHANGED <<now, history, expires, seen, stamp, status, wait, recorded>>
-----------------------------------------------------------------------------
(* check_throttles after the gather.                                       *)

\* SimpleRateThrottle.wait at time t, counted from entry i of the history.  On a
\* denial `available` is 1, so the code's float division is exact.
WaitAt(j, t, i) ==
    LET h == seen[j]
        remaining == IF h = <<>> THEN Duration[j[2]]
                     ELSE Duration[j[2]] - (t - stamp[<<h[i], j[2]>>])
        available == NumRequests[j[2]] - Len(h) + 1
    IN IF available <= 0 THEN NoWait ELSE remaining \div available

\* wait() with a second reading of the clock, or with history[0] for [-1].
BugReadsClockAgain(j) == WaitAt(j, now, Len(seen[j]))
BugWaitsForNewest(j) == WaitAt(j, stamp[j], 1)
WaitOf(j) == WaitAt(j, stamp[j], Len(seen[j]))

\* What the client is told, in seconds: math.ceil of the wait, in Throttled.__init__.
BugRoundsDown(j) == IF WaitOf(j) = NoWait THEN NoWait ELSE WaitOf(j) \div Second
Told(j) == IF WaitOf(j) = NoWait THEN NoWait ELSE (WaitOf(j) + Second - 1) \div Second

GatherReturns(r) ==
    /\ status[r] = "throttling"
    /\ \A j \in JobsOf(r) : pc[j] \in {"allowed", "denied"}

\* all(throttle_results); the bug is any(throttle_results).
BugAny(r) == \E j \in JobsOf(r) : pc[j] = "allowed"
AllAllowed(r) == \A j \in JobsOf(r) : pc[j] = "allowed"

Handle(r) ==
    /\ GatherReturns(r)
    /\ AllAllowed(r)
    /\ status' = [status EXCEPT ![r] = "handled"]
    /\ UNCHANGED <<now, history, expires, pc, seen, stamp, held, wait, recorded>>

\* The i-th throttle is the first in the view's order that said no to r; the bug
\* is to take the last.
BugIsLastDenial(r, i) == /\ pc[<<r, Order[i]>>] = "denied"
                         /\ \A h \in (i + 1)..Len(Order) : pc[<<r, Order[h]>>] = "allowed"
IsFirstDenial(r, i) == /\ pc[<<r, Order[i]>>] = "denied"
                       /\ \A h \in 1..(i - 1) : pc[<<r, Order[h]>>] = "allowed"

\* throttle_classes[throttle_results.index(False)] names the wait.
Throttled(r) ==
    /\ GatherReturns(r)
    /\ \E i \in DOMAIN Order : /\ IsFirstDenial(r, i)
                              /\ wait' = [wait EXCEPT ![r] = Told(<<r, Order[i]>>)]
    /\ status' = [status EXCEPT ![r] = "denied"]
    /\ UNCHANGED <<now, history, expires, pc, seen, stamp, held, recorded>>
-----------------------------------------------------------------------------
(* Failures.                                                               *)

\* A command raises; gather raises at once and leaves the other jobs running.
Raise(j) ==
    /\ Faults
    /\ pc[j] \in Suspended
    /\ Release(j)
    /\ pc' = [pc EXCEPT ![j] = "raised"]
    /\ status' = [status EXCEPT ![j[1]] = IF @ = "throttling" THEN "error" ELSE @]
    /\ UNCHANGED <<now, history, expires, seen, stamp, wait, recorded>>

\* The request's task is cancelled, and by gather every job of it.  The SET of
\* some jobs (onWire) may already be on the wire: it still reaches Redis.
Cancel(r) ==
    /\ Faults
    /\ status[r] = "throttling"
    /\ \E onWire \in SUBSET {j \in JobsOf(r) : pc[j] = "set"} :
          pc' = [j \in Jobs |-> IF j \in onWire THEN "wire"
                                ELSE IF j[1] = r /\ pc[j] \in Suspended THEN "cancelled"
                                ELSE pc[j]]
    /\ held' = held \ JobsOf(r)
    /\ status' = [status EXCEPT ![r] = "cancelled"]
    /\ UNCHANGED <<now, history, expires, seen, stamp, wait, recorded>>

LateSet(j) ==
    /\ pc[j] = "wire"
    /\ SetKey(KeyOf(j), seen[j])
    /\ recorded' = recorded \cup {j}
    /\ pc' = [pc EXCEPT ![j] = "cancelled"]
    /\ UNCHANGED <<now, seen, stamp, held, status, wait>>

LoseSet(j) ==
    /\ pc[j] = "wire"
    /\ pc' = [pc EXCEPT ![j] = "cancelled"]
    /\ UNCHANGED <<now, history, expires, seen, stamp, held, status, wait, recorded>>
-----------------------------------------------------------------------------
Tick == /\ now < MaxTime
        /\ now' = now + 1
        /\ UNCHANGED <<history, expires, pc, seen, stamp, held, status, wait, recorded>>

\* Every request has been made and nothing is in flight.
Done == /\ \A r \in Requests : status[r] # "new"
        /\ InFlight = {}
        /\ UNCHANGED vars

JobStep(j) == \/ Get(j)
              \/ ThrottleFailure(j)
              \/ ThrottleSuccess(j)
              \/ Set(j)
              \/ Allow(j)

Next == \/ Tick
        \/ Done
        \/ \E r \in Requests : \/ CheckThrottles(r)
                               \/ Handle(r)
                               \/ Throttled(r)
                               \/ Cancel(r)
        \/ \E j \in Jobs : JobStep(j) \/ Raise(j) \/ LateSet(j) \/ LoseSet(j)

Spec == Init /\ [][Next]_vars

\* The event loop runs what is ready, Redis answers, the pool is first come
\* first served.  Nothing is assumed of clients, of faults or of the clock.
Fairness == /\ \A r \in Requests : WF_vars(Handle(r) \/ Throttled(r))
            /\ \A j \in Jobs : WF_vars(JobStep(j)) /\ WF_vars(LateSet(j) \/ LoseSet(j))

FairSpec == Spec /\ Fairness
-----------------------------------------------------------------------------
(* Properties.                                                             *)

\* The type invariant.
TypeOK ==
    /\ now \in 0..MaxTime
    /\ history \in [Keys -> Seq(Requests)]
    /\ expires \in [Keys -> Nat]
    /\ pc \in [Jobs -> JobStates]
    /\ seen \in [Jobs -> Seq(Requests)]
    /\ stamp \in [Jobs -> 0..MaxTime]
    /\ held \subseteq Jobs
    /\ status \in [Requests -> RequestStates]
    /\ wait \in [Requests -> Nat \cup {NoWait}]
    /\ recorded \subseteq Jobs

\* A stored history never has more entries than the rate has requests, however
\* the reads and writes of concurrent jobs interleave.  wait() depends on it:
\* over the limit it would return None and the 429 would name no wait.
HistoryBounded == \A k \in Keys : Len(history[k]) <= NumRequests[k[1]]

\* A stored history is newest first and counts no request twice.  The pop from
\* the tail stops at the first live entry, so it relies on the order.
NewestFirst ==
    \A k \in Keys : \A i, j \in DOMAIN history[k] :
        i < j => /\ history[k][i] # history[k][j]
                 /\ stamp[<<history[k][i], k[1]>>] >= stamp[<<history[k][j], k[1]>>]

\* The jobs whose SET put an entry for key k at a time in (t - Duration, t].
RecordedIn(k, t) ==
    {q \in recorded : /\ KeyOf(q) = k
                      /\ t - Duration[k[1]] < stamp[q]
                      /\ stamp[q] <= t}

\* A request is denied only if that many others were really recorded for the
\* same client in the window before it: stale reads, overwritten histories,
\* failures and late writes never make the throttle too strict.
NoFalseDenial ==
    \A j \in Jobs : pc[j] = "denied" =>
        NumRequests[j[2]] <= Cardinality(RecordedIn(KeyOf(j), stamp[j]))

\* When Redis has dropped a key, every entry ever recorded for it is out of the
\* window: the expiry, counted from the SET and not from the entry's own stamp,
\* never forgives a request early.
ExpiryForgivesNothing ==
    \A k \in Keys : expires[k] <= now =>
        \A q \in recorded : KeyOf(q) = k => stamp[q] + Duration[k[1]] <= now

\* A 429 names a number of seconds, and the right one: at least one and at most the
\* period of the first throttle of the view that denied the request, and enough for
\* the oldest entry that this throttle met to leave its window.
WaitIsAnnounced ==
    \A r \in Requests : status[r] = "denied" =>
        \E i \in DOMAIN Order :
            LET j == <<r, Order[i]>>
                oldest == <<seen[j][Len(seen[j])], Order[i]>>
            IN /\ pc[j] = "denied"
               /\ \A h \in 1..(i - 1) : pc[<<r, Order[h]>>] = "allowed"
               /\ wait[r] * Second \in Second..Duration[Order[i]]
               /\ seen[j] # <<>> => stamp[oldest] + Duration[Order[i]] <= stamp[j] + wait[r] * Second

\* A client that was denied and comes back when the seconds it was told are over is
\* denied again by the same throttle only if someone was recorded for its key
\* after the read behind its first denial: the newest entry it now meets was
\* not among those it met then.
WaitIsEnough ==
    \A q, r \in Requests, s \in Scopes :
        /\ pc[<<q, s>>] = "denied"
        /\ pc[<<r, s>>] = "denied"
        /\ Client[q] = Client[r]
        /\ NumRequests[s] > 0
        /\ stamp[<<r, s>>] >= stamp[<<q, s>>] + Told(<<q, s>>) * Second
        => \A i \in DOMAIN seen[<<q, s>>] : seen[<<q, s>>][i] # seen[<<r, s>>][1]

\* No client is told to wait a whole second longer than needed: if it came back a
\* second before the one it was told, or earlier, the requests recorded when it was
\* denied would still fill the window.
WaitIsLeast ==
    \A j \in Jobs : pc[j] = "denied" =>
        \A t \in stamp[j]..(stamp[j] + (Told(j) - 1) * Second) :
            NumRequests[j[2]] <=
                Cardinality({q \in RecordedIn(KeyOf(j), stamp[j]) : stamp[q] > t - Duration[j[2]]})

\* A connection is held exactly while its reply is awaited, through every
\* denial, failure and cancellation.
NoConnectionLeak == held = {j \in Jobs : pc[j] \in {"got", "stored"}}

\* A request that reaches its handler was recorded by every throttle that
\* applies to it.
HandledWasRecorded ==
    \A r \in Requests : status[r] = "handled" =>
        \A j \in JobsOf(r) : IsExempt(j) \/ j \in recorded

\* "Limits the rate of API calls that may be made by a given user"
\* (throttles.py:196): among the handled requests of a client, no window holds
\* more than the rate allows.
RateIsLimited ==
    \A r \in Requests, s \in Scopes : ~IsExempt(<<r, s>>) /\ status[r] = "handled" =>
        Cardinality({q \in RecordedIn(KeyOf(<<r, s>>), stamp[<<r, s>>]) : status[q[1]] = "handled"})
            <= NumRequests[s]

\* Every request put to the throttles gets out of them.
EveryRequestAnswered ==
    \A r \in Requests : (status[r] = "throttling") ~> (status[r] # "throttling")
-----------------------------------------------------------------------------
(* The throttle as an abstract rate limiter.  An attempt is admitted when  *)
(* its entry reaches Redis.                                                *)

Outcome(j) == IF j \in recorded THEN "admitted"
              ELSE IF pc[j] = "denied" THEN "denied"
              ELSE IF pc[j] \in {"allowed", "raised", "cancelled"} THEN "void"
              ELSE "open"

Limiter == INSTANCE RateLimiter WITH
    Attempts <- Jobs,
    KeyAt <- [j \in Jobs |-> KeyOf(j)],
    Limit <- [k \in Keys |-> NumRequests[k[1]]],
    Window <- [k \in Keys |-> Duration[k[1]]],
    outcome <- [j \in Jobs |-> Outcome(j)],
    stamp <- [j \in Jobs |-> IF j \in recorded THEN stamp[j] ELSE 0]

\* With one request in flight at a time the code is an exact sliding window.
RefinesLimiter == Limiter!Spec

\* However many are in flight, it never denies under the budget.
RefinesLooseLimiter == Limiter!LooseSpec
=============================================================================
