-------------------------------- MODULE Mesh --------------------------------
(***************************************************************************)
(* A ping through the mesh of services (PingPongView of insanic/monitor.py *)
(* over Service.http_dispatch): each service that receives one pings those *)
(* in its SERVICE_CONNECTIONS, with one less of depth, and answers with    *)
(* what it hears of them.                                                  *)
(*                                                                         *)
(* A ping is the path by which it came, a sequence of <<service, attempt>> *)
(* that begins at the service the client has asked; what a service does    *)
(* for one is a task for each service it pings.  Of the client of a        *)
(* service, which ServiceClient has in detail, there are here the limit on *)
(* its connections, the retries of a GET and what a send may end with.     *)
(* Sanic, httpx and the network are external: a ping may arrive when the   *)
(* send that brings it has timed out, and a service that has lost its      *)
(* client or takes too long cancels the ping.                              *)
(***************************************************************************)
EXTENDS Integers, Sequences, FiniteSets

CONSTANTS
    Services,
    First,            \* the service that the client asks
    Meshes,           \* settings of the mesh and depths the client asks for
    MaxConnections,   \* SERVICE_CONNECTOR_MAX
    MaxHops           \* bound on the length of a path

\* A mesh has of each service its SERVICE_CONNECTIONS and the names that its
\* registry has, of all the SERVICE_CONNECTION_DEFAULT_RETRY_COUNT, and the depth.
ASSUME MeshAssumption ==
    /\ First \in Services
    /\ MaxConnections \in Nat \ {0}
    /\ MaxHops \in Nat \ {0}
    /\ \A m \in Meshes : /\ m.connections \in [Services -> SUBSET Services]
                         /\ m.registered \in [Services -> SUBSET Services]
                         /\ m.retries \in Nat /\ m.depth \in Int

VARIABLES
    mesh,
    wire,   \* the pings that have been sent and may yet arrive
    ping,   \* the state of every ping that has arrived
    task    \* [state, attempt] of every <<ping, service it pings>>

vars == <<mesh, wire, ping, task>>

PingStates == {"waiting", "answered", "failed", "timed out", "gone"}
TaskStates == {"ready", "sending", "value", "refused", "broken", "dropped"}

Init ==
    /\ mesh \in Meshes
    /\ wire = {<< <<First, 1>> >>}
    /\ ping = <<>>
    /\ task = <<>>

ServiceOf(p) == p[Len(p)][1]

BugDepthKept(p) == mesh.depth

\* Every hop takes one from the depth, which is true unless it is 0.
DepthOf(p) == mesh.depth - (Len(p) - 1)

Asked(p) == IF DepthOf(p) = 0 THEN {} ELSE mesh.connections[ServiceOf(p)]

TasksOf(p) == {t \in DOMAIN task : t[1] = p}
StatesOf(p) == {task[t].state : t \in TasksOf(p)}

\* The ping that a task sends at its nth attempt.
Sent(t, n) == Append(t[1], <<t[2], n>>)
-----------------------------------------------------------------------------
(* PingPongView.get.                                                       *)

Begun(p, services) ==
    task' = [t \in DOMAIN task \cup ({p} \X services) |->
                IF t \in DOMAIN task THEN task[t] ELSE [state |-> "ready", attempt |-> 0]]

\* A ping that has arrived is in a state from then on.
Arrived(p, state) ==
    ping' = [q \in DOMAIN ping \cup {p} |-> IF q = p THEN state ELSE ping[q]]

\* Up to the gather.  A service that the registry lacks is a LookupError, which
\* nobody catches, and those that were asked before it are pinged all the same.
Receive(p) ==
    /\ p \in wire
    /\ wire' = wire \ {p}
    /\ LET known == Asked(p) \cap mesh.registered[ServiceOf(p)]
       IN \/ /\ Asked(p) = known
             /\ Arrived(p, IF known = {} THEN "answered" ELSE "waiting")
             /\ Begun(p, known)
          \/ /\ Asked(p) # known
             /\ Arrived(p, "failed")
             /\ \E before \in SUBSET known : Begun(p, before)
    /\ UNCHANGED mesh

BugReturnExceptions(p) ==
    /\ p \in DOMAIN ping /\ ping[p] = "waiting"
    /\ StatesOf(p) \subseteq {"value", "refused", "broken"}
    /\ ping' = [ping EXCEPT ![p] = "answered"]
    /\ UNCHANGED <<mesh, wire, task>>

\* The gather of the tasks: an exception that is no APIException ends it, and the
\* other tasks go on.
Gather(p) ==
    /\ p \in DOMAIN ping /\ ping[p] = "waiting"
    /\ \/ /\ "broken" \in StatesOf(p)
          /\ ping' = [ping EXCEPT ![p] = "failed"]
       \/ /\ StatesOf(p) \subseteq {"value", "refused"}
          /\ ping' = [ping EXCEPT ![p] = "answered"]
    /\ UNCHANGED <<mesh, wire, task>>

\* Whether somebody waits for the answer.
Awaited(p) ==
    IF Len(p) = 1 THEN TRUE
    ELSE LET t == <<SubSeq(p, 1, Len(p) - 1), ServiceOf(p)>>
         IN task[t] = [state |-> "sending", attempt |-> p[Len(p)][2]]

\* Sanic cancels a ping for its response timeout or when the asker has left.  What
\* it has sent is shielded; a task that has not come that far is dropped.
Cancel(p, state) ==
    /\ p \in DOMAIN ping /\ ping[p] = "waiting"
    /\ state = "timed out" \/ (state = "gone" /\ (Len(p) = 1 \/ ~Awaited(p)))
    /\ ping' = [ping EXCEPT ![p] = state]
    /\ \E dropped \in SUBSET {t \in TasksOf(p) : task[t] = [state |-> "ready", attempt |-> 0]} :
          task' = [t \in DOMAIN task |->
                      IF t \in dropped THEN [task[t] EXCEPT !.state = "dropped"] ELSE task[t]]
    /\ UNCHANGED <<mesh, wire>>
-----------------------------------------------------------------------------
(* A task: response_time over http_dispatch.                               *)

\* The connections of the client that a task uses which are taken.
Taken(t) == {u \in DOMAIN task : /\ task[u].state = "sending" /\ u[2] = t[2]
                                 /\ ServiceOf(u[1]) = ServiceOf(t[1])}

\* What a task ends with.  Only an APIException becomes an answer of its own, and an
\* error response of insanic's error handler, as a reset, raises something else.
Outcome(r) ==
    CASE r = "answered" -> "value"
      [] r = "timeout" -> "refused"
      [] r \in {"failed", "timed out", "reset"} -> "broken"

BugOneTooMany(t, r, tried) ==
    task' = [task EXCEPT ![t] =
                [state |-> IF r # "answered" /\ tried <= mesh.retries + 1 THEN "ready" ELSE Outcome(r),
                 attempt |-> tried]]

Ends(t, r, tried) ==
    task' = [task EXCEPT ![t] =
                [state |-> IF r # "answered" /\ tried <= mesh.retries THEN "ready" ELSE Outcome(r),
                 attempt |-> tried]]

IsReady(t) == t \in DOMAIN task /\ task[t].state = "ready" /\ Len(t[1]) < MaxHops

Send(t) ==
    /\ IsReady(t)
    /\ Cardinality(Taken(t)) < MaxConnections
    /\ wire' = wire \cup {Sent(t, task[t].attempt + 1)}
    /\ task' = [task EXCEPT ![t] = [state |-> "sending", attempt |-> @.attempt + 1]]
    /\ UNCHANGED <<mesh, ping>>

PoolTimeout(t) ==
    /\ IsReady(t)
    /\ Cardinality(Taken(t)) >= MaxConnections
    /\ Ends(t, "timeout", task[t].attempt + 1)
    /\ UNCHANGED <<mesh, wire, ping>>

\* The answer of a ping, which is an error response unless it is "answered".
Reply(t) ==
    /\ t \in DOMAIN task /\ task[t].state = "sending"
    /\ LET p == Sent(t, task[t].attempt)
       IN /\ p \in DOMAIN ping /\ ping[p] \notin {"waiting", "gone"}
          /\ Ends(t, ping[p], task[t].attempt)
    /\ UNCHANGED <<mesh, wire, ping>>

Fail(t, e) ==
    /\ t \in DOMAIN task /\ task[t].state = "sending"
    /\ Ends(t, e, task[t].attempt)
    /\ UNCHANGED <<mesh, wire, ping>>
-----------------------------------------------------------------------------
Run == \/ \E p \in DOMAIN ping : Gather(p)
       \/ \E t \in DOMAIN task : Send(t) \/ PoolTimeout(t) \/ Reply(t)
                                 \/ \E e \in {"timeout", "reset"} : Fail(t, e)

Next == \/ Run
        \/ \E p \in wire : Receive(p)
        \/ \E p \in DOMAIN ping, state \in {"timed out", "gone"} : Cancel(p, state)

Spec == Init /\ [][Next]_vars

\* The event loops run what is ready, and httpx ends every wait by a timeout of its
\* own.  Nothing is assumed of the network, nor of Sanic's timeouts.
FairSpec == Spec /\ WF_vars(Run)
-----------------------------------------------------------------------------
(* Properties.                                                             *)

\* The type invariant; a ping has come by connections, from a service that had
\* received it with a depth other than 0.
TypeOK ==
    /\ mesh \in Meshes
    /\ DOMAIN ping \cap wire = {}
    /\ \A p \in DOMAIN ping \cup wire :
          /\ Len(p) <= MaxHops
          /\ \A i \in 1..(Len(p) - 1) :
                /\ SubSeq(p, 1, i) \in DOMAIN ping
                /\ p[i + 1][1] \in mesh.connections[p[i][1]]
                /\ p[i + 1][2] \in 1..(1 + mesh.retries)
                /\ mesh.depth # i - 1
    /\ \A p \in DOMAIN ping : ping[p] \in PingStates
    /\ \A t \in DOMAIN task : task[t].state \in TaskStates /\ t[1] \in DOMAIN ping

\* A ping that is answered tells of every service it has asked: it has answered
\* too, or nothing came of the last attempt.  A failure of one of them cannot become
\* an entry in the answer, as that of a service that is out of reach does: it is a
\* failure of every ping on the way to it, whoever else has answered.
AnswersAreWhole ==
    \A p \in DOMAIN ping :
        LET pinged(t) == Sent(t, task[t].attempt)
            Failed == {t \in TasksOf(p) : /\ task[t].state = "broken"
                                          /\ pinged(t) \in DOMAIN ping
                                          /\ ping[pinged(t)] \in {"failed", "timed out"}}
        IN /\ ping[p] = "answered" =>
                 /\ {t[2] : t \in TasksOf(p)} = Asked(p)
                 /\ Failed = {}
                 /\ \A t \in TasksOf(p) :
                       \/ task[t].state = "value" /\ ping[pinged(t)] = "answered"
                       \/ task[t].state = "refused" /\ task[t].attempt = 1 + mesh.retries
           /\ ping[p] = "failed" => "broken" \in StatesOf(p)
                                    \/ ~(Asked(p) \subseteq mesh.registered[ServiceOf(p)])

\* The services that can be reached from those in S.
Reach(S) ==
    LET step[n \in 0..Cardinality(Services)] ==
            IF n = 0 THEN UNION {mesh.connections[s] : s \in S}
            ELSE step[n - 1] \cup UNION {mesh.connections[s] : s \in step[n - 1]}
    IN step[Cardinality(Services)]

Ending == mesh.depth >= 0 \/ \A s \in Services : s \notin Reach({s})

\* Nobody waits for a ping.
Quiet ==
    /\ \A p \in DOMAIN ping : ping[p] # "waiting"
    /\ \A t \in DOMAIN task : task[t].state \notin {"ready", "sending"}

\* A ping comes to an end everywhere, if it is asked for a depth that is not
\* negative or in a mesh without cycles: through cycles whose pings hold the
\* connections that those behind them wait for, retries, and lost pings.
PingEnds == Ending => <>[]Quiet
=============================================================================
