------------------------- MODULE ConnectionsProofs -------------------------
(***************************************************************************)
(* Proofs about Connections: what a clean-up closes and forgets, and that  *)
(* the runs of a server do not see each other's pools.                     *)
(*                                                                         *)
(* Both need to know where a pool can be.  A pool that is open is the one  *)
(* of its alias, was replaced by another first use, or was obtained during *)
(* a clean-up (PoolsAreKnown).  What a clean-up  *)
(* has forgotten so far is said alias by alias (ClosersAreDone).           *)
(***************************************************************************)
EXTENDS Connections, TLAPS

\* The pool of an alias was created for it; only a task that has got that far
\* has a pool.
PoolsHaveOwners ==
    /\ \A a \in Aliases : registered[a] # NoPool =>
          alias[registered[a]] = a /\ pool[registered[a]] # "none"
    /\ \A t \in Tasks : pc[t] \in {"idle", "connecting"} => pool[t] = "none"

PoolsAreKnown ==
    \A p \in Pools : pool[p] = "open" => registered[alias[p]] = p \/ p \in replaced \cup behind

\* The tasks of close_all run in a clean-up only.  While one waits, its alias holds
\* a closed pool, and after it none, unless a task has registered its own behind its back.
ClosersAreDone ==
    /\ phase # "cleaning" => \A a \in Aliases : closer[a] \notin {"scheduled", "waiting"}
    /\ phase = "cleaning" => \A a \in Aliases :
          closer[a] = "waiting" =>
             registered[a] # NoPool /\ (pool[registered[a]] = "closed" \/ registered[a] \in behind)
    /\ phase \in {"cleaning", "stopped"} => \A a \in Aliases :
          closer[a] = "done" => registered[a] = NoPool \/ registered[a] \in behind
    /\ phase = "stopped" => \A a \in Aliases : closer[a] = "done"

\* Who is in flight during a clean-up is late, and nobody outlives it; who obtains
\* a pool then is one of them.
LateOnesAreKnown ==
    /\ phase = "cleaning" => InFlight \subseteq late
    /\ phase = "stopped" => InFlight = {}
    /\ behind \subseteq late

\* The loop that the handler has is that of the run, as far as it has one.
LoopIsOfRun ==
    /\ phase = "serving" => loop = run
    /\ phase = "starting" /\ late = {} => loop \in {None, run}
    /\ phase \in {"cleaning", "stopped"} /\ late = {} =>
          \A a \in Aliases : closer[a] = "done" => loop = None

\* Without late tasks, whoever has got a pool may use it.
HandlesAreUsable ==
    late = {} => \A t \in Tasks : pc[t] = "using" => handle[t] # NoPool /\ IsUsable(handle[t])

ConnectionsInv ==
    /\ TypeOK
    /\ PoolsHaveOwners
    /\ PoolsAreKnown
    /\ ClosersAreDone
    /\ LateOnesAreKnown
    /\ LoopIsOfRun
    /\ RunsAreSeparate
    /\ HandlesAreUsable
-----------------------------------------------------------------------------
\* A process begins with no pool, no loop and no task.
LEMMA InitEstablishesInv == Init => ConnectionsInv
  BY ConnectionsAssumption
  DEF Init, ConnectionsInv, TypeOK, Phases, TaskStates, CloserStates, Runs, None, Pools,
      PoolsHaveOwners, PoolsAreKnown, ClosersAreDone, LateOnesAreKnown, LoopIsOfRun,
      RunsAreSeparate, HandlesAreUsable, InFlight

\* What is the same after a step in which nothing happens.
LEMMA StutterKeepsInv ==
    ASSUME ConnectionsInv, UNCHANGED vars
    PROVE  ConnectionsInv'
  BY DEF vars, ConnectionsInv, TypeOK, PoolsHaveOwners, PoolsAreKnown, ClosersAreDone,
         LateOnesAreKnown, LoopIsOfRun, RunsAreSeparate, HandlesAreUsable, IsUsable, InFlight

\* Each step keeps the types.
LEMMA TypeStep ==
    ASSUME TypeOK, Next
    PROVE  TypeOK'
<1> USE ConnectionsAssumption DEF TypeOK, Pools, Runs, None, Phases, TaskStates, CloserStates,
                                  serverVars, taskVars, closeVars
<1>1. CASE \E t \in Tasks : GetRegistered(t) \/ Connect(t) \/ TaskStep(t)
  BY <1>1 DEF GetRegistered, Connect, TaskStep, Connected, ConnectFails, Use, Ask, LoopRead
<1>2. CASE \E a \in Aliases : CloserStep(a)
  BY <1>2 DEF CloserStep, CloseUnconnected, Close, Closed, ClosePool, Forget
<1>3. CASE AfterServerStart \/ CloseAll \/ Stop \/ Start
  BY <1>3 DEF AfterServerStart, CloseAll, Stop, Start, InFlight
<1>4. CASE Done
  BY <1>4 DEF Done, vars
<1>5. QED
  BY <1>1, <1>2, <1>3, <1>4 DEF Next

\* A task has no pool until it connects, and registers it at its own alias.
LEMMA OwnersStep ==
    ASSUME ConnectionsInv, Next
    PROVE  PoolsHaveOwners'
<1> USE ConnectionsAssumption DEF ConnectionsInv, TypeOK, PoolsHaveOwners, Pools, TaskStates,
                                  serverVars, taskVars, closeVars
<1>1. CASE \E t \in Tasks : GetRegistered(t) \/ Connect(t) \/ ConnectFails(t) \/ Use(t)
  BY <1>1 DEF GetRegistered, Connect, ConnectFails, Use, Ask
<1>2. ASSUME NEW t \in Tasks, Connected(t)
      PROVE  PoolsHaveOwners'
  BY <1>2 DEF Connected
<1>3. CASE \E a \in Aliases : CloserStep(a)
  BY <1>3 DEF CloserStep, CloseUnconnected, Close, Closed, ClosePool, Forget
<1>4. CASE AfterServerStart \/ CloseAll \/ Stop \/ Start
  BY <1>4 DEF AfterServerStart, CloseAll, Stop, Start, InFlight
<1>5. QED
  BY <1>1, <1>2, <1>3, <1>4, StutterKeepsInv DEF Next, TaskStep, Done

\* Only Connected takes an alias from a pool that is open, and Forget one from a
\* pool obtained in a clean-up.
LEMMA KnownStep ==
    ASSUME ConnectionsInv, Next
    PROVE  PoolsAreKnown'
<1> USE ConnectionsAssumption DEF ConnectionsInv, TypeOK, PoolsAreKnown, Pools,
                                  serverVars, taskVars, closeVars
<1>1. CASE \E t \in Tasks : GetRegistered(t) \/ Connect(t) \/ ConnectFails(t) \/ Use(t)
  BY <1>1 DEF GetRegistered, Connect, ConnectFails, Use, Ask
<1>2. ASSUME NEW t \in Tasks, Connected(t)
      PROVE  PoolsAreKnown'
  BY <1>2 DEF Connected
<1>3. ASSUME NEW a \in Aliases, CloserStep(a)
      PROVE  PoolsAreKnown'
  <2>1. CASE CloseUnconnected(a)
    BY <2>1 DEF CloseUnconnected, Forget
  <2>2. CASE Close(a)
    BY <2>2 DEF Close, ClosePool
  <2>3. CASE Closed(a)
    BY <2>3 DEF Closed, Forget, ClosersAreDone, PoolsHaveOwners, Phases
  <2>4. QED
    BY <1>3, <2>1, <2>2, <2>3 DEF CloserStep
<1>4. CASE AfterServerStart \/ CloseAll \/ Stop \/ Start
  BY <1>4 DEF AfterServerStart, CloseAll, Stop, Start
<1>5. QED
  BY <1>1, <1>2, <1>3, <1>4, StutterKeepsInv DEF Next, TaskStep, Done

\* Whoever registers a pool in a clean-up does it behind its back.
LEMMA ClosersStep ==
    ASSUME ConnectionsInv, Next
    PROVE  ClosersAreDone'
<1> USE ConnectionsAssumption DEF ConnectionsInv, TypeOK, ClosersAreDone, Pools, Phases,
                                  CloserStates, serverVars, taskVars, closeVars
<1>1. CASE \E t \in Tasks : GetRegistered(t) \/ Connect(t) \/ ConnectFails(t) \/ Use(t)
  BY <1>1 DEF GetRegistered, Connect, ConnectFails, Use, Ask
<1>2. ASSUME NEW t \in Tasks, Connected(t)
      PROVE  ClosersAreDone'
  <2>1. /\ phase = "cleaning" => t \in behind'
        /\ phase # "stopped"
    BY <1>2 DEF Connected, LateOnesAreKnown, InFlight
  <2>2. QED
    BY <1>2, <2>1 DEF Connected
<1>3. ASSUME NEW a \in Aliases, CloserStep(a)
      PROVE  ClosersAreDone'
  BY <1>3 DEF CloserStep, CloseUnconnected, Close, Closed, ClosePool, Forget
<1>4. CASE AfterServerStart \/ CloseAll \/ Stop \/ Start
  BY <1>4 DEF AfterServerStart, CloseAll, Stop, Start
<1>5. QED
  BY <1>1, <1>2, <1>3, <1>4, StutterKeepsInv DEF Next, TaskStep, Done

\* Who is in flight when a clean-up begins is late, and nobody joins until it is over.
LEMMA LateStep ==
    ASSUME ConnectionsInv, Next
    PROVE  LateOnesAreKnown'
<1> USE ConnectionsAssumption DEF ConnectionsInv, TypeOK, LateOnesAreKnown, InFlight, Phases,
                                  serverVars, taskVars, closeVars
<1>1. CASE \E t \in Tasks : GetRegistered(t) \/ Connect(t) \/ TaskStep(t)
  BY <1>1 DEF GetRegistered, Connect, TaskStep, Connected, ConnectFails, Use, Ask
<1>2. CASE \E a \in Aliases : CloserStep(a)
  BY <1>2 DEF CloserStep, CloseUnconnected, Close, Closed
<1>3. CASE AfterServerStart \/ CloseAll \/ Stop \/ Start
  BY <1>3 DEF AfterServerStart, CloseAll, Stop, Start
<1>4. QED
  BY <1>1, <1>2, <1>3, StutterKeepsInv DEF Next, Done

\* A first use sets the loop of the run, or is late; a clean-up forgets it with the
\* first alias.
LEMMA LoopStep ==
    ASSUME ConnectionsInv, Next
    PROVE  LoopIsOfRun'
<1> USE ConnectionsAssumption DEF ConnectionsInv, TypeOK, LoopIsOfRun, Phases, None, Runs,
                                  serverVars, taskVars, closeVars
<1>1. CASE \E t \in Tasks : GetRegistered(t) \/ Connect(t) \/ TaskStep(t)
  BY <1>1 DEF GetRegistered, Connect, TaskStep, Connected, ConnectFails, Use, Ask, LoopRead
<1>2. CASE \E a \in Aliases : CloserStep(a)
  BY <1>2 DEF CloserStep, CloseUnconnected, Close, Closed, Forget, ClosersAreDone
<1>3. CASE AfterServerStart \/ CloseAll \/ Stop \/ Start
  BY <1>3 DEF AfterServerStart, CloseAll, Stop, Start, ClosersAreDone
<1>4. QED
  BY <1>1, <1>2, <1>3, StutterKeepsInv DEF Next, Done

\* Without late tasks a run meets no pool and no loop of an earlier one.
LEMMA SeparateStep ==
    ASSUME ConnectionsInv, Next
    PROVE  RunsAreSeparate'
<1> USE ConnectionsAssumption DEF ConnectionsInv, TypeOK, RunsAreSeparate, IsUsable, Phases, Pools,
                                  serverVars, taskVars, closeVars
<1>1. CASE \E t \in Tasks : GetRegistered(t) \/ ConnectFails(t) \/ Use(t)
  BY <1>1 DEF GetRegistered, ConnectFails, Use, Ask
<1>2. ASSUME NEW t \in Tasks, Connect(t)
      PROVE  RunsAreSeparate'
  BY <1>2 DEF Connect, Ask, LoopRead, LoopIsOfRun, PoolsHaveOwners, None, Runs
<1>3. ASSUME NEW t \in Tasks, Connected(t)
      PROVE  RunsAreSeparate'
  BY <1>3 DEF Connected
<1>4. CASE \E a \in Aliases : CloserStep(a)
  BY <1>4 DEF CloserStep, CloseUnconnected, Close, Closed, ClosersAreDone
<1>5. CASE AfterServerStart \/ CloseAll \/ Stop
  BY <1>5 DEF AfterServerStart, CloseAll, Stop
<1>6. CASE Start
  BY <1>6 DEF Start, ClosersAreDone, LateOnesAreKnown, InFlight
<1>7. QED
  BY <1>1, <1>2, <1>3, <1>4, <1>5, <1>6, StutterKeepsInv DEF Next, TaskStep, Done

\* What is registered, and what a task is given, is usable while nobody was late.
LEMMA UsableStep ==
    ASSUME ConnectionsInv, Next
    PROVE  HandlesAreUsable'
<1> USE ConnectionsAssumption DEF ConnectionsInv, TypeOK, HandlesAreUsable, IsUsable, Phases, Pools,
                                  serverVars, taskVars, closeVars
<1>1. ASSUME NEW t \in Tasks, GetRegistered(t)
      PROVE  HandlesAreUsable'
  <2>1. late' = {} => late = {} /\ phase \in {"starting", "serving"}
    BY <1>1 DEF GetRegistered, Ask
  <2>2. late' = {} => IsUsable(registered[alias[t]])
    BY <1>1, <2>1 DEF GetRegistered, RunsAreSeparate
  <2>3. QED
    BY <1>1, <2>1, <2>2 DEF GetRegistered
<1>2. ASSUME NEW t \in Tasks, Connect(t)
      PROVE  HandlesAreUsable'
  BY <1>2 DEF Connect, Ask, PoolsHaveOwners
<1>3. ASSUME NEW t \in Tasks, TaskStep(t)
      PROVE  HandlesAreUsable'
  BY <1>3 DEF TaskStep, Connected, ConnectFails, Use
<1>4. CASE \E a \in Aliases : CloserStep(a)
  BY <1>4 DEF CloserStep, CloseUnconnected, Close, Closed, ClosersAreDone, LateOnesAreKnown,
              InFlight
<1>5. CASE AfterServerStart \/ CloseAll
  BY <1>5 DEF AfterServerStart, CloseAll
<1>6. CASE Stop \/ Start
  BY <1>6 DEF Stop, Start, LateOnesAreKnown, InFlight
<1>7. QED
  BY <1>1, <1>2, <1>3, <1>4, <1>5, <1>6, StutterKeepsInv DEF Next, Done

\* The inductive invariant holds for any tasks, aliases and number of runs.
THEOREM ConnectionsInvariance == Spec => []ConnectionsInv
<1>1. ConnectionsInv /\ [Next]_vars => ConnectionsInv'
  <2>1. ConnectionsInv /\ Next => ConnectionsInv'
    BY TypeStep, OwnersStep, KnownStep, ClosersStep, LateStep, LoopStep, SeparateStep, UsableStep
    DEF ConnectionsInv
  <2>2. QED
    BY <2>1, StutterKeepsInv
<1>2. QED
  BY InitEstablishesInv, <1>1, PTL DEF Spec
-----------------------------------------------------------------------------
\* The attributes of the handler, its loop and the states of all coroutines are
\* what they may be (ConnectionHandler, connections.py).
THEOREM ConnectionsTypes == Spec => []TypeOK
  BY ConnectionsInvariance, PTL DEF ConnectionsInv

\* close_all leaves no pool open but replaced ones and those obtained while it ran.
THEOREM StopClosesAllButReplaced == Spec => []StopClosesTheRest
<1>1. ConnectionsInv => StopClosesTheRest
  BY ConnectionsAssumption
  DEF ConnectionsInv, TypeOK, StopClosesTheRest, PoolsAreKnown, ClosersAreDone, Pools
<1>2. QED
  BY <1>1, ConnectionsInvariance, PTL

\* close_all of a quiet process forgets every pool and the loop.
THEOREM StopLeavesCleanSlate == Spec => []CleanSlate
<1>1. ConnectionsInv => CleanSlate
  BY ConnectionsAssumption
  DEF ConnectionsInv, CleanSlate, ClosersAreDone, LateOnesAreKnown, LoopIsOfRun
<1>2. QED
  BY <1>1, ConnectionsInvariance, PTL

\* A later run of the server creates its pools on its own loop and meets no pool of
\* an earlier one.
THEOREM RunsStaySeparate == Spec => []RunsAreSeparate
  BY ConnectionsInvariance, PTL DEF ConnectionsInv

\* No task of a process without late ones is refused by its pool.
THEOREM OnlyLateAreRefused == Spec => RefusedOnlyIfLate
<1> DEFINE Served == \A t \in Tasks : late = {} /\ pc[t] = "using" => pc'[t] # "failed"
<1>1. ConnectionsInv /\ [Next]_vars => [Served]_vars
  <2> SUFFICES ASSUME ConnectionsInv, Next
               PROVE  Served
    OBVIOUS
  <2> USE DEF ConnectionsInv, TypeOK
  <2>1. CASE \E t \in Tasks : GetRegistered(t) \/ Connect(t) \/ Connected(t) \/ ConnectFails(t)
    BY <2>1 DEF GetRegistered, Connect, Connected, ConnectFails, Ask
  <2>2. CASE \E t \in Tasks : Use(t)
    BY <2>2 DEF Use, HandlesAreUsable
  <2>3. CASE \E a \in Aliases : CloserStep(a)
    BY <2>3 DEF CloserStep, CloseUnconnected, Close, Closed, taskVars
  <2>4. CASE AfterServerStart \/ CloseAll \/ Stop \/ Start \/ Done
    BY <2>4 DEF AfterServerStart, CloseAll, Stop, Start, Done, vars, taskVars, InFlight
  <2>5. QED
    BY <2>1, <2>2, <2>3, <2>4 DEF Next, TaskStep
<1>2. QED
  BY <1>1, ConnectionsInvariance, PTL DEF Spec, RefusedOnlyIfLate
=============================================================================
