---------------------------- MODULE Connections ----------------------------
(***************************************************************************)
(* ConnectionHandler (insanic/connections.py) through the runs of a server *)
(* in one process: tasks that ask for the connection pool of an alias, the *)
(* start listener that sets the handler's event loop and the stop listener *)
(* that closes every alias (insanic/listeners.py).                         *)
(*                                                                         *)
(* A run of the server is its event loop.  A pool belongs to the loop it   *)
(* was created on.  aioredis is external: creating a pool suspends and may *)
(* fail, close() marks a pool closed at once and wait_closed() suspends.   *)
(***************************************************************************)
EXTENDS Integers, FiniteSets

CONSTANTS
    Tasks,     \* each asks for one pool, once
    Aliases,   \* the keys of ConnectionHandler.caches, those of insanic at least
    NoPool,    \* no attribute, no pool
    MaxRuns    \* bound: runs of the server

ASSUME ConnectionsAssumption ==
    /\ IsFiniteSet(Tasks)
    /\ Aliases # {}
    /\ NoPool \notin Tasks
    /\ MaxRuns \in Nat \ {0}

Runs == 1..MaxRuns
None == 0

\* A task creates at most one pool, which carries its name.
Pools == Tasks

VARIABLES
    registered,  \* [Aliases -> Pools or NoPool]: the attributes of _connections
    loop,        \* [None or Runs]: _loop
    run,         \* the server's current run
    phase,       \* where that run is
    pc,          \* [Tasks -> TaskStates]
    alias,       \* [Tasks -> Aliases]: the alias a task asks for
    home,        \* [Tasks -> Runs or None]: the loop its pool is created on
    handle,      \* [Tasks -> Pools or NoPool]: the pool it got
    pool,        \* [Pools -> {"none", "open", "closed"}]
    closer,      \* [Aliases -> CloserStates]: the tasks of close_all
    closing,     \* [Aliases -> Pools or NoPool]: _conn in close()
    replaced,    \* history variable: pools another took the place of
    late,        \* history variable: tasks in flight during a clean-up
    behind       \* history variable: pools that were obtained during a clean-up

vars == <<registered, loop, run, phase, pc, alias, home, handle, pool, closer, closing,
          replaced, late, behind>>

serverVars == <<run, phase>>
taskVars == <<pc, alias, home, handle>>
closeVars == <<closer, closing>>

Phases == {"starting", "serving", "cleaning", "stopped"}
TaskStates == {"idle", "connecting", "using", "served", "failed", "gone"}
CloserStates == {"idle", "scheduled", "waiting", "done"}

InFlight == {t \in Tasks : pc[t] \in {"connecting", "using"}}

Init ==
    /\ registered = [a \in Aliases |-> NoPool]
    /\ loop = None
    /\ run = 1
    /\ phase = "starting"
    /\ pc = [t \in Tasks |-> "idle"]
    /\ alias \in [Tasks -> Aliases]
    /\ home = [t \in Tasks |-> None]
    /\ handle = [t \in Tasks |-> NoPool]
    /\ pool = [p \in Pools |-> "none"]
    /\ closer = [a \in Aliases |-> "idle"]
    /\ closing = [a \in Aliases |-> NoPool]
    /\ replaced = {}
    /\ late = {}
    /\ behind = {}
-----------------------------------------------------------------------------
(* get_connection.                                                         *)

\* Tasks may ask as long as the loop runs, a start-up listener before the start
\* listener of the framework, a background task during the clean-up.
Ask(t) == /\ pc[t] = "idle"
          /\ phase # "stopped"
          /\ late' = IF phase = "cleaning" THEN late \cup {t} ELSE late

\* getattr finds the alias registered: no suspension.
GetRegistered(t) ==
    /\ Ask(t)
    /\ registered[alias[t]] # NoPool
    /\ handle' = [handle EXCEPT ![t] = registered[alias[t]]]
    /\ pc' = [pc EXCEPT ![t] = "using"]
    /\ UNCHANGED <<registered, loop, serverVars, alias, home, pool, closeVars, replaced, behind>>

\* The loop property: the running loop, unless one is set already.
LoopRead == IF loop = None THEN run ELSE loop

\* getattr does not: _get_connection runs up to its await of create_pool.
Connect(t) ==
    /\ Ask(t)
    /\ registered[alias[t]] = NoPool
    /\ loop' = LoopRead
    /\ home' = [home EXCEPT ![t] = LoopRead]
    /\ pc' = [pc EXCEPT ![t] = "connecting"]
    /\ UNCHANGED <<registered, serverVars, alias, handle, pool, closeVars, replaced, behind>>

\* create_pool returns, on the loop that runs: the pool is registered, over
\* whatever another task has registered in the meantime, and behind the back of a
\* clean-up.
Connected(t) ==
    /\ pc[t] = "connecting"
    /\ home[t] = run
    /\ pool' = [pool EXCEPT ![t] = "open"]
    /\ replaced' = replaced \cup ({registered[alias[t]]} \ {NoPool})
    /\ registered' = [registered EXCEPT ![alias[t]] = t]
    /\ handle' = [handle EXCEPT ![t] = t]
    /\ pc' = [pc EXCEPT ![t] = "using"]
    /\ behind' = IF phase = "cleaning" THEN behind \cup {t} ELSE behind
    /\ UNCHANGED <<loop, serverVars, alias, home, closeVars, late>>

\* create_pool raises: no answer from Redis, or a loop that does not run.
ConnectFails(t) ==
    /\ pc[t] = "connecting"
    /\ pc' = [pc EXCEPT ![t] = "failed"]
    /\ UNCHANGED <<registered, loop, serverVars, alias, home, handle, pool, closeVars, replaced, late, behind>>

IsUsable(p) == pool[p] = "open" /\ home[p] = run

\* The task puts its command to the pool it got; a closed pool refuses it.
Use(t) ==
    /\ pc[t] = "using"
    /\ pc' = [pc EXCEPT ![t] = IF IsUsable(handle[t]) THEN "served" ELSE "failed"]
    /\ UNCHANGED <<registered, loop, serverVars, alias, home, handle, pool, closeVars, replaced, late, behind>>
-----------------------------------------------------------------------------
(* The server.                                                             *)

\* after_server_start_connect_database.
AfterServerStart ==
    /\ phase = "starting"
    /\ phase' = "serving"
    /\ loop' = run
    /\ UNCHANGED <<registered, run, taskVars, pool, closeVars, replaced, late, behind>>

\* after_server_stop_clean_up calls close_all: one task for each alias.
CloseAll ==
    /\ phase = "serving"
    /\ phase' = "cleaning"
    /\ late' = late \cup InFlight
    /\ closer' = [a \in Aliases |-> "scheduled"]
    /\ UNCHANGED <<registered, loop, run, taskVars, pool, closing, replaced, behind>>

\* The `finally` of close().
BugKeepsAttribute(a) == loop' = None /\ UNCHANGED registered
BugStoresNone(a) == registered' = [registered EXCEPT ![a] = None] /\ loop' = None
BugKeepsLoop(a) == registered' = [registered EXCEPT ![a] = NoPool] /\ UNCHANGED loop
Forget(a) == registered' = [registered EXCEPT ![a] = NoPool] /\ loop' = None

\* close() of an alias that is not connected.
CloseUnconnected(a) ==
    /\ closer[a] = "scheduled"
    /\ registered[a] = NoPool
    /\ Forget(a)
    /\ closer' = [closer EXCEPT ![a] = "done"]
    /\ UNCHANGED <<serverVars, taskVars, pool, closing, replaced, late, behind>>

\* close() up to its await of wait_closed(); the bug spares a pool that is in use.
BugSparesUsed(p) == IF \E t \in InFlight : handle[t] = p THEN pool ELSE [pool EXCEPT ![p] = "closed"]
ClosePool(p) == [pool EXCEPT ![p] = "closed"]

Close(a) ==
    /\ closer[a] = "scheduled"
    /\ registered[a] # NoPool
    /\ pool' = ClosePool(registered[a])
    /\ closing' = [closing EXCEPT ![a] = registered[a]]
    /\ closer' = [closer EXCEPT ![a] = "waiting"]
    /\ UNCHANGED <<registered, loop, serverVars, taskVars, replaced, late, behind>>

\* wait_closed() returns or raises.
Closed(a) ==
    /\ closer[a] = "waiting"
    /\ Forget(a)
    /\ closer' = [closer EXCEPT ![a] = "done"]
    /\ UNCHANGED <<serverVars, taskVars, pool, closing, replaced, late, behind>>

\* The gather of close_all returns and the loop stops: no task resumes.
Stop ==
    /\ phase = "cleaning"
    /\ \A a \in Aliases : closer[a] = "done"
    /\ phase' = "stopped"
    /\ pc' = [t \in Tasks |-> IF t \in InFlight THEN "gone" ELSE pc[t]]
    /\ UNCHANGED <<registered, loop, run, alias, home, handle, pool, closeVars, replaced, late, behind>>

\* The process serves again, on a new loop.
Start ==
    /\ phase = "stopped"
    /\ run < MaxRuns
    /\ run' = run + 1
    /\ phase' = "starting"
    /\ closer' = [a \in Aliases |-> "idle"]
    /\ closing' = [a \in Aliases |-> NoPool]
    /\ UNCHANGED <<registered, loop, taskVars, pool, replaced, late, behind>>

\* Nothing is left to happen.
Done == /\ phase = "stopped"
        /\ run = MaxRuns
        /\ UNCHANGED vars

TaskStep(t) == Connected(t) \/ ConnectFails(t) \/ Use(t)

CloserStep(a) == CloseUnconnected(a) \/ Close(a) \/ Closed(a)

Next == \/ \E t \in Tasks : GetRegistered(t) \/ Connect(t) \/ TaskStep(t)
        \/ \E a \in Aliases : CloserStep(a)
        \/ AfterServerStart \/ CloseAll \/ Stop \/ Start
        \/ Done

Spec == Init /\ [][Next]_vars
-----------------------------------------------------------------------------
(* Properties.                                                             *)

\* The type invariant.
TypeOK ==
    /\ registered \in [Aliases -> Pools \cup {NoPool}]
    /\ loop \in Runs \cup {None}
    /\ run \in Runs
    /\ phase \in Phases
    /\ pc \in [Tasks -> TaskStates]
    /\ alias \in [Tasks -> Aliases]
    /\ home \in [Tasks -> Runs \cup {None}]
    /\ handle \in [Tasks -> Pools \cup {NoPool}]
    /\ pool \in [Pools -> {"none", "open", "closed"}]
    /\ closer \in [Aliases -> CloserStates]
    /\ closing \in [Aliases -> Pools \cup {NoPool}]
    /\ replaced \subseteq Pools
    /\ late \subseteq Tasks
    /\ behind \subseteq Pools

\* The clean-up closes every pool that was obtained before it began, in use or not,
\* except those that another first use of the same alias had replaced.
StopClosesTheRest ==
    phase = "stopped" => \A p \in Pools : pool[p] = "open" => p \in replaced \cup behind

\* If no task is in flight during a clean-up, it leaves nothing of the run
\* behind: every alias is free and the next run picks its own loop.
CleanSlate ==
    phase = "stopped" /\ late = {} =>
        /\ \A a \in Aliases : registered[a] = NoPool
        /\ loop = None

\* And so, in every later run too, a pool is only created on the running loop
\* and a registered pool works, until the clean-up.
RunsAreSeparate ==
    phase \in {"starting", "serving"} /\ late = {} =>
        /\ \A t \in Tasks : pc[t] = "connecting" => home[t] = run
        /\ \A a \in Aliases : registered[a] # NoPool => IsUsable(registered[a])

\* As long as no task has been in flight during a clean-up, no task is refused
\* by its pool: a pool that another first use replaced still serves its callers.
RefusedOnlyIfLate ==
    [][\A t \in Tasks : late = {} /\ pc[t] = "using" => pc'[t] # "failed"]_vars

\* "Clean up all connections" (listeners.py:30): a clean-up during which no
\* task is in flight leaves no pool open.
StopClosesAll ==
    phase = "stopped" /\ late = {} => \A p \in Pools : pool[p] # "open"
=============================================================================
