----------------------------- MODULE MeshProofs -----------------------------
(***************************************************************************)
(* A ping that is answered is whole, for every mesh, every depth and every *)
(* bound on the connections of a client.                                   *)
(*                                                                         *)
(* That needs no path to be sent twice: a ping arrives once, so that what  *)
(* has been answered is not started again.  A path is either the client's  *)
(* or that of an attempt which a task has already made, and a task counts  *)
(* its attempts, so that the next one has a path that nothing has come by. *)
(***************************************************************************)
EXTENDS Mesh, SequenceTheorems, TLAPS

Hops == Services \X Nat
Root == << <<First, 1>> >>

\* The connections and the depth by which a path has come.
Way(p) ==
    /\ p \in Seq(Hops)
    /\ Len(p) >= 1
    /\ Len(p) <= MaxHops
    /\ \A i \in 1..(Len(p) - 1) :
          /\ SubSeq(p, 1, i) \in DOMAIN ping
          /\ p[i + 1][1] \in mesh.connections[p[i][1]]
          /\ p[i + 1][2] \in 1..(1 + mesh.retries)
          /\ mesh.depth # i - 1

\* Who has sent it.
Whence(p) ==
    \/ p = Root
    \/ \E t \in DOMAIN task : \E n \in 1..task[t].attempt : p = Sent(t, n)

\* A task is of a ping that has arrived, which asks for it.
TaskOf(t) ==
    /\ t = <<t[1], t[2]>>
    /\ t[1] \in DOMAIN ping
    /\ t[2] \in Asked(t[1])

\* What a task has tried, in every state.
Tried(t) ==
    /\ task[t].state \in TaskStates
    /\ task[t].attempt \in Nat
    /\ task[t].attempt <= 1 + mesh.retries
    /\ task[t].state = "ready" => task[t].attempt <= mesh.retries
    /\ task[t].state = "sending" => task[t].attempt >= 1
    /\ task[t].state = "refused" => task[t].attempt = 1 + mesh.retries
    /\ task[t].state = "value" => /\ Sent(t, task[t].attempt) \in DOMAIN ping
                                  /\ ping[Sent(t, task[t].attempt)] = "answered"

\* What a ping waits for, and what it has heard when it ends.
Heard(p) ==
    /\ ping[p] \in PingStates
    /\ ping[p] \in {"waiting", "answered"} => {t[2] : t \in TasksOf(p)} = Asked(p)
    /\ ping[p] = "answered" => StatesOf(p) \subseteq {"value", "refused"}
    /\ ping[p] = "failed" => "broken" \in StatesOf(p)
                             \/ ~(Asked(p) \subseteq mesh.registered[ServiceOf(p)])

MeshInv ==
    /\ mesh \in Meshes
    /\ DOMAIN ping \cap wire = {}
    /\ \A p \in DOMAIN ping \cup wire : Way(p) /\ Whence(p)
    /\ \A t \in DOMAIN task : TaskOf(t) /\ Tried(t)
    /\ \A p \in DOMAIN ping : Heard(p)
-----------------------------------------------------------------------------
(* Paths.                                                                  *)

\* A path is a prefix of what it is extended to, and so are its own prefixes.
LEMMA Prefixes ==
    ASSUME NEW p \in Seq(Hops), Len(p) >= 1, NEW h \in Hops
    PROVE  /\ SubSeq(Append(p, h), 1, Len(p)) = p
           /\ \A i \in 1..Len(p) : SubSeq(Append(p, h), 1, i) = SubSeq(p, 1, i)
<1>1. Append(p, h) = p \o <<h>>
    BY AppendIsConcat
<1>2. <<h>> \in Seq(Hops) /\ Len(p) \in Nat
    BY LenProperties
<1>3. \A i \in 1..Len(p) : SubSeq(p \o <<h>>, 1, i) = SubSeq(p, 1, i)
    <2>1. TAKE i \in 1..Len(p)
    <2>2. 1 \in 1..Len(p)
        BY <1>2
    <2> QED BY <1>2, <2>1, <2>2, SubSeqOfConcat1
<1>4. SubSeq(p, 1, Len(p)) = p
    BY SubSeqFull
<1>5. Len(p) \in 1..Len(p)
    BY <1>2
<1> QED BY <1>1, <1>3, <1>4, <1>5

\* What a mesh has.
LEMMA Connected ==
    ASSUME mesh \in Meshes
    PROVE  /\ mesh.connections \in [Services -> SUBSET Services]
           /\ mesh.retries \in Nat /\ mesh.depth \in Int
BY MeshAssumption

\* What follows for the service at the end of a path.
LEMMA WayTypes ==
    ASSUME mesh \in Meshes, NEW p, Way(p)
    PROVE  /\ Len(p) \in Nat /\ Len(p) \in 1..Len(p)
           /\ ServiceOf(p) \in Services
           /\ Asked(p) \subseteq Services
           /\ Asked(p) # {} => /\ Asked(p) = mesh.connections[ServiceOf(p)]
                               /\ mesh.depth # Len(p) - 1
<1>1. Len(p) \in Nat /\ Len(p) \in 1..Len(p)
    BY LenProperties DEF Way
<1>2. p[Len(p)] \in Hops
    BY <1>1, ElementOfSeq DEF Way
<1>3. ServiceOf(p) \in Services
    BY <1>2 DEF ServiceOf, Hops
<1> QED BY <1>1, <1>3, Connected DEF Asked, DepthOf

\* The way of what a task sends.
LEMMA Onward ==
    ASSUME mesh \in Meshes, NEW p, Way(p), p \in DOMAIN ping, Len(p) < MaxHops,
           NEW s \in Asked(p), NEW n \in 1..(1 + mesh.retries)
    PROVE  Way(Append(p, <<s, n>>))
<1> DEFINE h == <<s, n>>
           q == Append(p, h)
<1>1. /\ Len(p) \in Nat /\ Len(p) \in 1..Len(p) /\ s \in Services
      /\ s \in mesh.connections[ServiceOf(p)] /\ mesh.depth # Len(p) - 1
    BY WayTypes
<1>2. h \in Hops /\ mesh.retries \in Nat
    BY <1>1, Connected DEF Hops
<1>3. p \in Seq(Hops)
    BY DEF Way
<1>4. /\ q \in Seq(Hops) /\ Len(q) = Len(p) + 1
      /\ \A i \in 1..Len(p) : q[i] = p[i]
      /\ q[Len(p) + 1] = h
    BY <1>2, <1>3, AppendProperties
<1>5. /\ SubSeq(q, 1, Len(p)) = p
      /\ \A i \in 1..Len(p) : SubSeq(q, 1, i) = SubSeq(p, 1, i)
    BY <1>1, <1>2, <1>3, Prefixes
<1>6. Len(q) >= 1 /\ Len(q) <= MaxHops
    BY <1>1, <1>4, MeshAssumption
<1>7. ASSUME NEW i \in 1..(Len(q) - 1)
      PROVE  /\ SubSeq(q, 1, i) \in DOMAIN ping
             /\ q[i + 1][1] \in mesh.connections[q[i][1]]
             /\ q[i + 1][2] \in 1..(1 + mesh.retries)
             /\ mesh.depth # i - 1
    <2>1. i \in 1..Len(p)
        BY <1>1, <1>4
    <2>2. CASE i = Len(p)
        <3>1. q[i] = p[Len(p)] /\ q[i + 1] = h /\ SubSeq(q, 1, i) = p
            BY <2>1, <2>2, <1>4, <1>5
        <3>2. q[i][1] = ServiceOf(p) /\ h[1] = s /\ h[2] = n
            BY <3>1 DEF ServiceOf
        <3>3. mesh.depth # i - 1
            BY <2>2, <1>1
        <3>4. p \in DOMAIN ping
            OBVIOUS
        <3> HIDE DEF q, h
        <3> QED BY <3>1, <3>2, <3>3, <3>4, <1>1
    <2>3. CASE i # Len(p)
        <3>1. i \in 1..(Len(p) - 1) /\ i + 1 \in 1..Len(p)
            BY <2>1, <2>3, <1>1
        <3>2. q[i] = p[i] /\ q[i + 1] = p[i + 1] /\ SubSeq(q, 1, i) = SubSeq(p, 1, i)
            BY <2>1, <3>1, <1>4, <1>5
        <3> HIDE DEF q
        <3> QED BY <3>1, <3>2 DEF Way
    <2> QED BY <2>2, <2>3
<1> HIDE DEF q
<1>8. Way(q)
    BY <1>4, <1>6, <1>7 DEF Way
<1> QED BY <1>8 DEF q

\* A path stays one while the pings it came through are remembered.
LEMMA WayStays ==
    ASSUME NEW p, Way(p), mesh' = mesh, DOMAIN ping \subseteq DOMAIN ping'
    PROVE  Way(p)'
BY DEF Way

\* Of two attempts, the paths differ, and the client's is that of none.
LEMMA PathsDiffer ==
    ASSUME NEW t, NEW u, t = <<t[1], t[2]>>, u = <<u[1], u[2]>>,
           t[1] \in Seq(Hops), u[1] \in Seq(Hops), t[2] \in Services, u[2] \in Services,
           NEW m \in Nat, NEW n \in Nat, Sent(t, m) = Sent(u, n)
    PROVE  t = u /\ m = n
<1>1. <<t[2], m>> \in Hops /\ <<u[2], n>> \in Hops
    BY DEF Hops
<1>2. t[1] = u[1] /\ <<t[2], m>> = <<u[2], n>>
    BY <1>1, AppendInjective DEF Sent
<1>3. t[2] = u[2] /\ m = n
    BY <1>2
<1> QED BY <1>2, <1>3

\* What a service sends is never the ping of the client.
LEMMA NotTheRoot ==
    ASSUME NEW p \in Seq(Hops), Len(p) >= 1, NEW h \in Hops
    PROVE  Append(p, h) # Root
<1>1. Len(Append(p, h)) = Len(p) + 1 /\ Len(p) \in Nat
    BY AppendProperties, LenProperties
<1>2. Len(Root) = 1
    BY DEF Root
<1> QED BY <1>1, <1>2
-----------------------------------------------------------------------------
(* A task that moves on.                                                   *)

\* A path that has been sent stays that of an attempt.
LEMMA WhenceStays ==
    ASSUME NEW p, Whence(p),
           \A t \in DOMAIN task : /\ t \in DOMAIN task'
                                  /\ task[t].attempt \in Nat /\ task'[t].attempt \in Nat
                                  /\ task[t].attempt <= task'[t].attempt
    PROVE  Whence(p)'
<1>1. CASE p = Root
    BY <1>1 DEF Whence
<1>2. CASE \E t \in DOMAIN task : \E n \in 1..task[t].attempt : p = Sent(t, n)
    <2>1. PICK t \in DOMAIN task : \E n \in 1..task[t].attempt : p = Sent(t, n)
        BY <1>2
    <2>2. PICK n \in 1..task[t].attempt : p = Sent(t, n)
        BY <2>1
    <2>3. n \in 1..task'[t].attempt /\ t \in DOMAIN task'
        BY <2>2
    <2> QED BY <2>2, <2>3 DEF Whence, Sent
<1> QED BY <1>1, <1>2 DEF Whence

\* What no task of a ping has done is done by its tasks still, when one that has
\* not ended moves on.
LEMMA HeardStays ==
    ASSUME NEW p \in DOMAIN ping, Heard(p), ping'[p] = ping[p], mesh' = mesh,
           \A t : t[1] = p => (t \in DOMAIN task' <=> t \in DOMAIN task),
           \A t \in DOMAIN task : \/ task[t].state \in {"ready", "sending"}
                                   \/ task'[t].state = task[t].state
    PROVE  Heard(p)'
<1>1. TasksOf(p)' = TasksOf(p)
    BY DEF TasksOf
<1>2. Asked(p)' = Asked(p)
    BY DEF Asked, DepthOf
<1>3. {t[2] : t \in TasksOf(p)'} = {t[2] : t \in TasksOf(p)}
    BY <1>1
<1>4. ASSUME ping[p] = "answered"
      PROVE  StatesOf(p)' \subseteq {"value", "refused"}
    <2>1. \A t \in TasksOf(p) : task[t].state \in {"value", "refused"}
        BY <1>4 DEF Heard, StatesOf
    <2>2. \A t \in TasksOf(p) : task'[t].state = task[t].state
        BY <2>1 DEF TasksOf
    <2> QED BY <1>1, <2>1, <2>2 DEF StatesOf
<1>5. ASSUME "broken" \in StatesOf(p)
      PROVE  "broken" \in StatesOf(p)'
    <2>1. PICK t \in TasksOf(p) : task[t].state = "broken"
        BY <1>5 DEF StatesOf
    <2>2. task'[t].state = "broken"
        BY <2>1 DEF TasksOf
    <2> QED BY <1>1, <2>1, <2>2 DEF StatesOf
<1> QED BY <1>2, <1>3, <1>4, <1>5 DEF Heard

\* A task may move on to a state for which it has the reason named here.
LEMMA TaskMoves ==
    ASSUME MeshInv, NEW t \in DOMAIN task, task[t].state \in {"ready", "sending"},
           NEW state, NEW n \in Nat, task[t].attempt <= n, n <= 1 + mesh.retries,
           task' = [task EXCEPT ![t] = [state |-> state, attempt |-> n]],
           state \in TaskStates,
           state = "ready" => n <= mesh.retries,
           state = "sending" => n >= 1,
           state = "refused" => n = 1 + mesh.retries,
           state = "value" => Sent(t, n) \in DOMAIN ping /\ ping[Sent(t, n)] = "answered",
           mesh' = mesh, ping' = ping,
           \/ wire' = wire
           \/ /\ wire' = wire \cup {Sent(t, task[t].attempt + 1)}
              /\ n = task[t].attempt + 1
              /\ Len(t[1]) < MaxHops
    PROVE  MeshInv'
<1>1. mesh \in Meshes /\ mesh.retries \in Nat
    BY Connected DEF MeshInv
<1>2. /\ DOMAIN task' = DOMAIN task
      /\ task'[t].state = state /\ task'[t].attempt = n
      /\ \A u \in DOMAIN task : u # t => task'[u] = task[u]
    OBVIOUS
<1>3. \A u \in DOMAIN task : /\ TaskOf(u) /\ Tried(u)
                              /\ task[u].attempt \in Nat /\ task'[u].attempt \in Nat
                              /\ task[u].attempt <= task'[u].attempt
    BY <1>2 DEF MeshInv, Tried
<1>4. \A p \in DOMAIN ping \cup wire : Way(p)' /\ Whence(p)'
    <2>1. TAKE p \in DOMAIN ping \cup wire
    <2>2. Way(p) /\ Whence(p)
        BY DEF MeshInv
    <2>3. Way(p)'
        BY <2>2, WayStays
    <2>4. Whence(p)'
        BY <2>2, <1>2, <1>3, WhenceStays
    <2> QED BY <2>3, <2>4
<1>5. /\ (DOMAIN ping \cap wire)' = {}
      /\ \A p \in (DOMAIN ping \cup wire)' : Way(p)' /\ Whence(p)'
    <2>1. CASE wire' = wire
        BY <2>1, <1>4 DEF MeshInv
    <2>2. CASE /\ wire' = wire \cup {Sent(t, n)}
               /\ n = task[t].attempt + 1
               /\ Len(t[1]) < MaxHops
        <3>1. /\ t = <<t[1], t[2]>> /\ t[1] \in DOMAIN ping /\ t[2] \in Asked(t[1])
              /\ Way(t[1])
            BY <1>3 DEF TaskOf, MeshInv
        <3>2. n \in 1..(1 + mesh.retries)
            BY <2>2, <1>1, <1>3
        <3>3. Way(Sent(t, n))
            BY <3>1, <3>2, <2>2, <1>1, Onward DEF Sent
        <3>4. Way(Sent(t, n))'
            BY <3>3, WayStays
        <3>5. n \in 1..task'[t].attempt
            BY <3>2, <1>1, <1>2
        <3>6. Whence(Sent(t, n))'
            BY <3>5, <1>2 DEF Whence, Sent
        <3>7. Sent(t, n) \notin DOMAIN ping
            <4>1. SUFFICES ASSUME Sent(t, n) \in DOMAIN ping PROVE FALSE
                OBVIOUS
            <4>2. t[2] \in Services /\ t[1] \in Seq(Hops) /\ Len(t[1]) >= 1
                BY <3>1, <1>1, WayTypes DEF Way
            <4>3. <<t[2], n>> \in Hops
                BY <4>2 DEF Hops
            <4>4. Sent(t, n) # Root
                BY <4>2, <4>3, NotTheRoot DEF Sent
            <4>5. Whence(Sent(t, n))
                BY <4>1 DEF MeshInv
            <4>6. PICK u \in DOMAIN task : \E m \in 1..task[u].attempt : Sent(t, n) = Sent(u, m)
                BY <4>4, <4>5 DEF Whence
            <4>7. PICK m \in 1..task[u].attempt : Sent(t, n) = Sent(u, m)
                BY <4>6
            <4>8. /\ u = <<u[1], u[2]>> /\ u[1] \in DOMAIN ping /\ u[2] \in Asked(u[1])
                  /\ Way(u[1]) /\ m \in Nat
                BY <1>3 DEF TaskOf, MeshInv
            <4>9. u[1] \in Seq(Hops) /\ u[2] \in Services
                BY <4>8, <1>1, WayTypes DEF Way
            <4>10. t = u /\ m = n
                BY <3>1, <4>2, <4>7, <4>8, <4>9, PathsDiffer
            <4> QED BY <4>7, <4>10, <2>2, <1>3
        <3> QED BY <1>4, <2>2, <3>4, <3>6, <3>7 DEF MeshInv
    <2> QED BY <2>1, <2>2
<1>6. \A u \in DOMAIN task : TaskOf(u)'
    BY <1>3 DEF TaskOf, Asked, DepthOf
<1>7. ASSUME NEW u \in DOMAIN task
      PROVE  Tried(u)'
    <2>1. CASE u = t
        BY <2>1, <1>2 DEF Tried, Sent
    <2>2. CASE u # t
        BY <2>2, <1>2, <1>3 DEF Tried, Sent
    <2> QED BY <2>1, <2>2
<1>8. ASSUME NEW p \in DOMAIN ping
      PROVE  Heard(p)'
    <2>1. Heard(p)
        BY DEF MeshInv
    <2> QED BY <2>1, <1>2, HeardStays
<1> QED BY <1>1, <1>2, <1>5, <1>6, <1>7, <1>8 DEF MeshInv

\* An attempt that is not followed by another is the last.
LEMMA LastTry ==
    ASSUME NEW n \in Nat, NEW k \in Nat, ~(n <= k), n <= 1 + k
    PROVE  n = 1 + k
OBVIOUS

\* What an attempt ends with, or that it is made again.
LEMMA EndsKeeps ==
    ASSUME MeshInv, NEW t \in DOMAIN task, task[t].state \in {"ready", "sending"},
           NEW n \in Nat, n >= 1, task[t].attempt <= n, n <= 1 + mesh.retries,
           NEW r \in {"answered", "failed", "timed out", "timeout", "reset"},
           r = "answered" => Sent(t, n) \in DOMAIN ping /\ ping[Sent(t, n)] = "answered",
           Ends(t, r, n), UNCHANGED <<mesh, wire, ping>>
    PROVE  MeshInv'
<1> DEFINE again == r # "answered" /\ n <= mesh.retries
           state == IF again THEN "ready" ELSE Outcome(r)
<1>1. mesh.retries \in Nat
    BY Connected DEF MeshInv
<1>2. task' = [task EXCEPT ![t] = [state |-> state, attempt |-> n]]
    BY DEF Ends
<1>3. /\ Outcome(r) \in {"value", "refused", "broken"}
      /\ Outcome(r) = "value" => r = "answered"
    BY DEF Outcome
<1>4. /\ state \in TaskStates
      /\ state # "sending"
      /\ state = "ready" => n <= mesh.retries
      /\ state = "value" => r = "answered"
    BY <1>3 DEF TaskStates
<1>5. state = "refused" => n = 1 + mesh.retries
    <2>1. SUFFICES ASSUME state = "refused" PROVE n = 1 + mesh.retries
        OBVIOUS
    <2>2. ~again
        BY <2>1
    <2>3. r # "answered"
        BY <2>1, <2>2 DEF Outcome
    <2>4. ~(n <= mesh.retries)
        BY <2>2, <2>3
    <2>5. n \in Nat /\ n <= 1 + mesh.retries
        OBVIOUS
    <2> QED BY <1>1, <2>4, <2>5, LastTry
<1> HIDE DEF state
<1> QED BY <1>2, <1>4, <1>5, TaskMoves
-----------------------------------------------------------------------------
(* The steps.                                                              *)

\* What the attempts of a task are bounded by.
LEMMA TaskTypes ==
    ASSUME MeshInv, NEW t \in DOMAIN task
    PROVE  /\ mesh.retries \in Nat
           /\ task[t].attempt \in Nat /\ task[t].attempt <= 1 + mesh.retries
           /\ task[t].state = "ready" => task[t].attempt <= mesh.retries
           /\ task[t].state = "sending" => task[t].attempt >= 1
BY Connected DEF MeshInv, Tried

\* A ping goes out: its path has not been used before.
LEMMA SendKeeps ==
    ASSUME MeshInv, NEW t, Send(t)
    PROVE  MeshInv'
<1>1. /\ t \in DOMAIN task /\ task[t].state = "ready" /\ Len(t[1]) < MaxHops
      /\ wire' = wire \cup {Sent(t, task[t].attempt + 1)}
      /\ task' = [task EXCEPT ![t] = [state |-> "sending", attempt |-> task[t].attempt + 1]]
      /\ mesh' = mesh /\ ping' = ping
    BY DEF Send, IsReady
<1>2. PICK n : n = task[t].attempt + 1
    OBVIOUS
<1>3. n \in Nat /\ task[t].attempt <= n /\ n <= 1 + mesh.retries /\ n >= 1
    BY <1>1, <1>2, TaskTypes
<1>4. "sending" \in TaskStates
    BY DEF TaskStates
<1>5. task' = [task EXCEPT ![t] = [state |-> "sending", attempt |-> n]]
    BY <1>1, <1>2
<1>6. /\ wire' = wire \cup {Sent(t, task[t].attempt + 1)}
      /\ n = task[t].attempt + 1
      /\ Len(t[1]) < MaxHops
    BY <1>1, <1>2
<1>7. /\ t \in DOMAIN task /\ task[t].state \in {"ready", "sending"}
      /\ mesh' = mesh /\ ping' = ping
    BY <1>1
<1>8. PICK state : state = "sending"
    OBVIOUS
<1>9. /\ task' = [task EXCEPT ![t] = [state |-> state, attempt |-> n]]
      /\ state \in TaskStates
      /\ state # "ready" /\ state # "refused" /\ state # "value"
    BY <1>4, <1>5, <1>8
<1> QED BY <1>3, <1>6, <1>7, <1>9, TaskMoves

\* No connection became free.
LEMMA PoolTimeoutKeeps ==
    ASSUME MeshInv, NEW t, PoolTimeout(t)
    PROVE  MeshInv'
<1>1. /\ t \in DOMAIN task /\ task[t].state = "ready"
      /\ Ends(t, "timeout", task[t].attempt + 1)
      /\ UNCHANGED <<mesh, wire, ping>>
    BY DEF PoolTimeout, IsReady
<1>2. PICK n : n = task[t].attempt + 1
    OBVIOUS
<1>3. n \in Nat /\ task[t].attempt <= n /\ n <= 1 + mesh.retries /\ n >= 1
    BY <1>1, <1>2, TaskTypes
<1>4. Ends(t, "timeout", n)
    BY <1>1, <1>2
<1> QED BY <1>1, <1>3, <1>4, EndsKeeps

\* The other service has answered, or failed.
LEMMA ReplyKeeps ==
    ASSUME MeshInv, NEW t, Reply(t)
    PROVE  MeshInv'
<1>1. PICK n : n = task[t].attempt
    OBVIOUS
<1>2. PICK p : p = Sent(t, n)
    OBVIOUS
<1>3. /\ t \in DOMAIN task /\ task[t].state = "sending"
      /\ p \in DOMAIN ping /\ ping[p] \notin {"waiting", "gone"}
      /\ Ends(t, ping[p], n)
      /\ UNCHANGED <<mesh, wire, ping>>
    BY <1>1, <1>2 DEF Reply
<1>4. n \in Nat /\ task[t].attempt <= n /\ n <= 1 + mesh.retries /\ n >= 1
    BY <1>1, <1>3, TaskTypes
<1>5. PICK r : r = ping[p]
    OBVIOUS
<1>6. r \in {"answered", "failed", "timed out"}
    BY <1>3, <1>5 DEF MeshInv, Heard, PingStates
<1>7. r = "answered" => Sent(t, n) \in DOMAIN ping /\ ping[Sent(t, n)] = "answered"
    BY <1>2, <1>3, <1>5
<1>8. Ends(t, r, n)
    BY <1>3, <1>5
<1> QED BY <1>3, <1>4, <1>6, <1>7, <1>8, EndsKeeps

\* A ping got lost, or its answer.
LEMMA FailKeeps ==
    ASSUME MeshInv, NEW t, NEW e \in {"timeout", "reset"}, Fail(t, e)
    PROVE  MeshInv'
<1>1. PICK n : n = task[t].attempt
    OBVIOUS
<1>2. /\ t \in DOMAIN task /\ task[t].state = "sending"
      /\ Ends(t, e, n)
      /\ UNCHANGED <<mesh, wire, ping>>
    BY <1>1 DEF Fail
<1>3. n \in Nat /\ task[t].attempt <= n /\ n <= 1 + mesh.retries /\ n >= 1
    BY <1>1, <1>2, TaskTypes
<1> QED BY <1>2, <1>3, EndsKeeps

\* A ping that ends: what has been answered stays so, and a task is at most dropped.
LEMMA PingEndsKeeps ==
    ASSUME MeshInv, NEW p \in DOMAIN ping, ping[p] = "waiting",
           NEW state, ping' = [ping EXCEPT ![p] = state],
           mesh' = mesh, wire' = wire,
           DOMAIN task' = DOMAIN task,
           \A t \in DOMAIN task : \/ task'[t] = task[t]
                                  \/ /\ task[t].state = "ready"
                                     /\ task'[t].state = "dropped"
                                     /\ task'[t].attempt = task[t].attempt,
           Heard(p)'
    PROVE  MeshInv'
<1>1. /\ DOMAIN ping' = DOMAIN ping
      /\ \A q \in DOMAIN ping : q # p => ping'[q] = ping[q]
    OBVIOUS
<1>2. \A t \in DOMAIN task : /\ TaskOf(t) /\ Tried(t)
                              /\ task[t].attempt \in Nat
                              /\ task'[t].attempt = task[t].attempt
    BY DEF MeshInv, Tried
<1>3. ASSUME NEW q \in DOMAIN ping \cup wire
      PROVE  Way(q)' /\ Whence(q)'
    <2>1. Way(q) /\ Whence(q)
        BY DEF MeshInv
    <2>2. Way(q)'
        BY <2>1, <1>1, WayStays
    <2>3. Whence(q)'
        BY <2>1, <1>2, WhenceStays
    <2> QED BY <2>2, <2>3
<1>4. \A t \in DOMAIN task : TaskOf(t)'
    BY <1>1, <1>2 DEF TaskOf, Asked, DepthOf
<1>5. ASSUME NEW t \in DOMAIN task
      PROVE  Tried(t)'
    <2>1. CASE task'[t] = task[t]
        <3>1. Tried(t)
            BY <1>2
        <3>2. task[t].state = "value" =>
                  /\ Sent(t, task[t].attempt) \in DOMAIN ping'
                  /\ ping'[Sent(t, task[t].attempt)] = "answered"
            BY <3>1, <1>1 DEF Tried
        <3> QED BY <2>1, <3>1, <3>2 DEF Tried, Sent
    <2>2. CASE task[t].state = "ready" /\ task'[t].state = "dropped"
               /\ task'[t].attempt = task[t].attempt
        BY <2>2, <1>2 DEF Tried, TaskStates
    <2> QED BY <2>1, <2>2
<1>6. ASSUME NEW q \in DOMAIN ping, q # p
      PROVE  Heard(q)'
    <2>1. Heard(q) /\ ping'[q] = ping[q]
        BY <1>1, <1>6 DEF MeshInv
    <2>2. \A t \in DOMAIN task : \/ task[t].state \in {"ready", "sending"}
                                  \/ task'[t].state = task[t].state
        OBVIOUS
    <2> QED BY <2>1, <2>2, HeardStays
<1> QED BY <1>1, <1>3, <1>4, <1>5, <1>6 DEF MeshInv

\* A gather is over: the answer is made from its tasks.
LEMMA GatherKeeps ==
    ASSUME MeshInv, NEW p, Gather(p)
    PROVE  MeshInv'
<1>1. /\ p \in DOMAIN ping /\ ping[p] = "waiting"
      /\ mesh' = mesh /\ wire' = wire /\ task' = task
    BY DEF Gather
<1>2. Heard(p)
    BY <1>1 DEF MeshInv
<1>3. /\ TasksOf(p)' = TasksOf(p) /\ StatesOf(p)' = StatesOf(p)
      /\ Asked(p)' = Asked(p) /\ ServiceOf(p)' = ServiceOf(p)
    BY <1>1 DEF TasksOf, StatesOf, Asked, DepthOf, ServiceOf
<1>4. {t[2] : t \in TasksOf(p)} = Asked(p)
    BY <1>1, <1>2 DEF Heard
<1>5. {t[2] : t \in TasksOf(p)'} = Asked(p)'
    BY <1>3, <1>4
<1>6. CASE "broken" \in StatesOf(p) /\ ping' = [ping EXCEPT ![p] = "failed"]
    <2>1. PICK state : state = "failed"
        OBVIOUS
    <2>2. ping'[p] = "failed"
        BY <1>1, <1>6
    <2>3. Heard(p)'
        BY <1>3, <1>6, <2>2 DEF Heard, PingStates
    <2> QED BY <1>1, <1>6, <2>1, <2>3, PingEndsKeeps
<1>7. CASE StatesOf(p) \subseteq {"value", "refused"} /\ ping' = [ping EXCEPT ![p] = "answered"]
    <2>1. PICK state : state = "answered"
        OBVIOUS
    <2>2. ping'[p] = "answered"
        BY <1>1, <1>7
    <2>3. StatesOf(p)' \subseteq {"value", "refused"}
        BY <1>3, <1>7
    <2>4. Heard(p)'
        BY <1>5, <2>2, <2>3 DEF Heard, PingStates
    <2> QED BY <1>1, <1>7, <2>1, <2>4, PingEndsKeeps
<1> QED BY <1>6, <1>7 DEF Gather

\* A task that has not begun is dropped as it is.
LEMMA Dropping ==
    ASSUME NEW r, r = [state |-> "ready", attempt |-> 0],
           NEW q, q = [r EXCEPT !.state = "dropped"]
    PROVE  r.state = "ready" /\ q.state = "dropped" /\ q.attempt = r.attempt
OBVIOUS

\* A ping times out here, or who asked is gone.
LEMMA CancelKeeps ==
    ASSUME MeshInv, NEW p, NEW state \in {"timed out", "gone"}, Cancel(p, state)
    PROVE  MeshInv'
<1>1. /\ p \in DOMAIN ping /\ ping[p] = "waiting"
      /\ ping' = [ping EXCEPT ![p] = state]
      /\ mesh' = mesh /\ wire' = wire
    BY DEF Cancel
<1>2. PICK dropped :
          /\ \A t \in dropped : task[t] = [state |-> "ready", attempt |-> 0]
          /\ task' = [t \in DOMAIN task |->
                         IF t \in dropped THEN [task[t] EXCEPT !.state = "dropped"] ELSE task[t]]
    BY DEF Cancel
<1>3. DOMAIN task' = DOMAIN task
    BY <1>2
<1>4. ASSUME NEW t \in DOMAIN task
      PROVE  \/ task'[t] = task[t]
             \/ /\ task[t].state = "ready"
                /\ task'[t].state = "dropped"
                /\ task'[t].attempt = task[t].attempt
    <2>1. CASE t \in dropped
        <3>1. task[t] = [state |-> "ready", attempt |-> 0]
            BY <2>1, <1>2
        <3>2. task'[t] = [task[t] EXCEPT !.state = "dropped"]
            BY <2>1, <1>2
        <3>3. PICK r, q : r = task[t] /\ q = task'[t]
            OBVIOUS
        <3>4. r.state = "ready" /\ q.state = "dropped" /\ q.attempt = r.attempt
            BY <3>1, <3>2, <3>3, Dropping
        <3> QED BY <3>3, <3>4
    <2>2. CASE t \notin dropped
        BY <2>2, <1>2
    <2> QED BY <2>1, <2>2
<1>5. Heard(p)'
    BY <1>1 DEF Heard, PingStates
<1> QED BY <1>1, <1>3, <1>4, <1>5, PingEndsKeeps

\* What comes by the wire is new: no task is of it and none has an answer of it.
LEMMA ReceiveKeeps ==
    ASSUME MeshInv, NEW p, Receive(p)
    PROVE  MeshInv'
<1> DEFINE known == Asked(p) \cap mesh.registered[ServiceOf(p)]
<1>1. p \in wire /\ wire' = wire \ {p} /\ mesh' = mesh
    BY DEF Receive
<1>2. Way(p) /\ Whence(p) /\ p \notin DOMAIN ping
    BY <1>1 DEF MeshInv
<1>3. PICK state, services :
          /\ Arrived(p, state) /\ Begun(p, services)
          /\ services \subseteq Asked(p)
          /\ \/ services = Asked(p) /\ state = "waiting"
             \/ services = Asked(p) /\ services = {} /\ state = "answered"
             \/ ~(Asked(p) \subseteq mesh.registered[ServiceOf(p)]) /\ state = "failed"
    <2>1. CASE /\ Asked(p) = known
               /\ Arrived(p, IF known = {} THEN "answered" ELSE "waiting")
               /\ Begun(p, known)
        BY <2>1
    <2>2. CASE /\ Asked(p) # known
               /\ Arrived(p, "failed")
               /\ \E before \in SUBSET known : Begun(p, before)
        BY <2>2
    <2> QED BY <2>1, <2>2 DEF Receive
<1>4. /\ DOMAIN ping' = DOMAIN ping \cup {p}
      /\ ping'[p] = state
      /\ \A q \in DOMAIN ping : ping'[q] = ping[q]
    BY <1>2, <1>3 DEF Arrived
<1>5. /\ DOMAIN task' = DOMAIN task \cup ({p} \X services)
      /\ \A t \in DOMAIN task : task'[t] = task[t]
      /\ \A t \in DOMAIN task' : t \notin DOMAIN task =>
              task'[t] = [state |-> "ready", attempt |-> 0]
    BY <1>3 DEF Begun
<1>6. \A t \in DOMAIN task : /\ TaskOf(t) /\ Tried(t) /\ task[t].attempt \in Nat
                              /\ t[1] # p
    BY <1>2 DEF MeshInv, Tried, TaskOf
<1>7. ASSUME NEW q \in DOMAIN ping' \cup wire'
      PROVE  Way(q)' /\ Whence(q)'
    <2>1. Way(q) /\ Whence(q)
        BY <1>1, <1>4 DEF MeshInv
    <2>2. Way(q)'
        BY <2>1, <1>1, <1>4, WayStays
    <2>3. \A t \in DOMAIN task : /\ t \in DOMAIN task'
                                  /\ task[t].attempt \in Nat /\ task'[t].attempt \in Nat
                                  /\ task[t].attempt <= task'[t].attempt
        BY <1>5, <1>6
    <2>4. Whence(q)'
        BY <2>1, <2>3, WhenceStays
    <2> QED BY <2>2, <2>4
<1>8. ASSUME NEW t \in DOMAIN task'
      PROVE  TaskOf(t)' /\ Tried(t)'
    <2>1. CASE t \in DOMAIN task
        <3>1. TaskOf(t) /\ Tried(t) /\ task'[t] = task[t]
            BY <2>1, <1>5, <1>6
        <3>2. TaskOf(t)'
            BY <3>1, <1>1, <1>4 DEF TaskOf, Asked, DepthOf
        <3>3. task[t].state = "value" =>
                  /\ Sent(t, task[t].attempt) \in DOMAIN ping'
                  /\ ping'[Sent(t, task[t].attempt)] = "answered"
            BY <3>1, <1>4 DEF Tried
        <3>4. Tried(t)'
            BY <3>1, <3>3, <1>1 DEF Tried, Sent
        <3> QED BY <3>2, <3>4
    <2>2. CASE t \notin DOMAIN task
        <3>1. PICK s \in services : t = <<p, s>>
            BY <2>2, <1>5
        <3>2. task'[t] = [state |-> "ready", attempt |-> 0]
            BY <2>2, <1>5
        <3>3. TaskOf(t)'
            BY <3>1, <1>1, <1>3, <1>4 DEF TaskOf, Asked, DepthOf
        <3>4. mesh.retries \in Nat
            BY Connected DEF MeshInv
        <3>5. Tried(t)'
            BY <3>2, <3>4, <1>1 DEF Tried, TaskStates
        <3> QED BY <3>3, <3>5
    <2> QED BY <2>1, <2>2
<1>9. Heard(p)'
    <2>1. TasksOf(p)' = {p} \X services
        BY <1>5, <1>6 DEF TasksOf
    <2>2. {t[2] : t \in TasksOf(p)'} = services
        <3>1. ASSUME NEW s \in services PROVE s \in {t[2] : t \in {p} \X services}
            <4>1. <<p, s>> \in {p} \X services /\ <<p, s>>[2] = s
                OBVIOUS
            <4> QED BY <4>1
        <3>2. \A t \in {p} \X services : t[2] \in services
            OBVIOUS
        <3> QED BY <2>1, <3>1, <3>2
    <2>3. Asked(p)' = Asked(p) /\ ServiceOf(p)' = ServiceOf(p)
        BY <1>1 DEF Asked, DepthOf, ServiceOf
    <2>4. CASE services = Asked(p) /\ state = "waiting"
        BY <2>2, <2>3, <2>4, <1>4 DEF Heard, PingStates
    <2>5. CASE services = Asked(p) /\ services = {} /\ state = "answered"
        <3>1. StatesOf(p)' = {}
            BY <2>1, <2>5 DEF StatesOf
        <3> QED BY <2>2, <2>3, <2>5, <3>1, <1>4 DEF Heard, PingStates
    <2>6. CASE ~(Asked(p) \subseteq mesh.registered[ServiceOf(p)]) /\ state = "failed"
        BY <2>3, <2>6, <1>1, <1>4 DEF Heard, PingStates
    <2> QED BY <2>4, <2>5, <2>6, <1>3
<1>10. ASSUME NEW q \in DOMAIN ping
       PROVE  Heard(q)'
    <2>1. Heard(q) /\ ping'[q] = ping[q] /\ q # p
        BY <1>2, <1>4 DEF MeshInv
    <2>2. \A t : t[1] = q => (t \in DOMAIN task' <=> t \in DOMAIN task)
        BY <2>1, <1>5
    <2>3. \A t \in DOMAIN task : task'[t].state = task[t].state
        BY <1>5
    <2> QED BY <2>1, <2>2, <2>3, <1>1, HeardStays
<1>11. (DOMAIN ping \cap wire)' = {}
    BY <1>1, <1>4 DEF MeshInv
<1> QED BY <1>1, <1>4, <1>7, <1>8, <1>9, <1>10, <1>11 DEF MeshInv

-----------------------------------------------------------------------------
(* The theorems.                                                           *)

\* The client has sent its ping, and nothing else has happened.
LEMMA InitEstablishes == Init => MeshInv
<1>1. SUFFICES ASSUME Init PROVE MeshInv
    OBVIOUS
<1>2. mesh \in Meshes /\ wire = {Root} /\ DOMAIN ping = {} /\ DOMAIN task = {}
    BY <1>1 DEF Init, Root
<1>3. Root \in Seq(Hops) /\ Len(Root) = 1
    BY MeshAssumption DEF Root, Hops
<1>4. Way(Root) /\ Whence(Root)
    BY <1>3, MeshAssumption DEF Way, Whence
<1> QED BY <1>2, <1>4 DEF MeshInv

\* MeshInv is inductive.
LEMMA NextKeeps == MeshInv /\ [Next]_vars => MeshInv'
<1>1. SUFFICES ASSUME MeshInv, [Next]_vars PROVE MeshInv'
    OBVIOUS
<1>2. ASSUME NEW p \in DOMAIN ping, Gather(p) PROVE MeshInv'
    BY <1>1, <1>2, GatherKeeps
<1>3. ASSUME NEW t \in DOMAIN task,
             Send(t) \/ PoolTimeout(t) \/ Reply(t) \/ \E e \in {"timeout", "reset"} : Fail(t, e)
      PROVE  MeshInv'
    BY <1>1, <1>3, SendKeeps, PoolTimeoutKeeps, ReplyKeeps, FailKeeps
<1>4. ASSUME NEW p \in wire, Receive(p) PROVE MeshInv'
    BY <1>1, <1>4, ReceiveKeeps
<1>5. ASSUME NEW p \in DOMAIN ping, NEW state \in {"timed out", "gone"}, Cancel(p, state)
      PROVE  MeshInv'
    BY <1>1, <1>5, CancelKeeps
<1>6. CASE UNCHANGED vars
    <2>1. mesh' = mesh /\ wire' = wire /\ ping' = ping /\ task' = task
        BY <1>6 DEF vars
    <2>2. ASSUME NEW p \in DOMAIN ping \cup wire PROVE Way(p)' /\ Whence(p)'
        BY <1>1, <2>1, WayStays DEF MeshInv, Whence, Sent
    <2>3. ASSUME NEW t \in DOMAIN task PROVE TaskOf(t)' /\ Tried(t)'
        BY <1>1, <2>1 DEF MeshInv, TaskOf, Tried, Asked, DepthOf, Sent
    <2>4. ASSUME NEW p \in DOMAIN ping PROVE Heard(p)'
        <3>1. Heard(p)
            BY <1>1 DEF MeshInv
        <3> QED BY <3>1, <2>1, HeardStays
    <2> QED BY <1>1, <2>1, <2>2, <2>3, <2>4 DEF MeshInv
<1> QED BY <1>1, <1>2, <1>3, <1>4, <1>5, <1>6 DEF Next, Run

\* The invariant of this module.
THEOREM MeshInvariance == Spec => []MeshInv
BY InitEstablishes, NextKeeps, PTL DEF Spec

\* The type invariant: whatever is on the wire or has arrived has come by
\* connections, from a service that had received it with a depth other than 0, and
\* nothing arrives twice (PingPongView.get and the connections of its settings).
THEOREM MeshTypes == Spec => []TypeOK
<1>1. MeshInv => TypeOK
    BY DEF MeshInv, Way, TaskOf, Tried, Heard, TypeOK
<1> QED BY <1>1, MeshInvariance, PTL

\* An answer to a ping has an entry of every service it asked, and a failure of one
\* of them fails every ping on the way to it (PingPongView.get, its gather).
THEOREM AnswersWhole == Spec => []AnswersAreWhole
<1>1. MeshInv => AnswersAreWhole
    <2>1. SUFFICES ASSUME MeshInv, NEW p \in DOMAIN ping
                   PROVE  /\ ping[p] = "answered" =>
                              /\ {t[2] : t \in TasksOf(p)} = Asked(p)
                              /\ \A t \in TasksOf(p) :
                                    /\ task[t].state # "broken"
                                    /\ \/ /\ task[t].state = "value"
                                          /\ ping[Sent(t, task[t].attempt)] = "answered"
                                       \/ task[t].state = "refused"
                                          /\ task[t].attempt = 1 + mesh.retries
                          /\ ping[p] = "failed" =>
                              "broken" \in StatesOf(p)
                              \/ ~(Asked(p) \subseteq mesh.registered[ServiceOf(p)])
        BY DEF AnswersAreWhole
    <2>2. Heard(p) /\ \A t \in TasksOf(p) : Tried(t)
        BY <2>1 DEF MeshInv, TasksOf
    <2>3. ASSUME ping[p] = "answered", NEW t \in TasksOf(p)
          PROVE  task[t].state \in {"value", "refused"}
        BY <2>2, <2>3 DEF Heard, StatesOf
    <2> QED BY <2>2, <2>3 DEF Heard, Tried
<1> QED BY <1>1, MeshInvariance, PTL
=============================================================================
