------------------------- MODULE ThrottleInvariant -------------------------
(***************************************************************************)
(* The inductive invariant behind the properties of Throttle.              *)
(***************************************************************************)
EXTENDS Throttle

\* The entries of h are distinct jobs of S for key k, newest first by time `at`.
IsLog(h, k, S, at) ==
    /\ \A i \in DOMAIN h : <<h[i], k[1]>> \in S /\ Client[h[i]] = k[2]
    /\ \A i, m \in DOMAIN h :
          i < m => h[i] # h[m] /\ at[<<h[i], k[1]>>] >= at[<<h[m], k[1]>>]

\* What Redis holds, what a job has read and what a job is about to write are
\* logs of at most NumRequests entries; the last has the job itself in front.
StoredLogs ==
    \A k \in Keys : /\ IsLog(history[k], k, recorded, stamp)
                    /\ Len(history[k]) <= NumRequests[k[1]]

ReadLogs ==
    \A j \in Jobs : pc[j] \in {"got", "denied"} =>
        /\ IsLog(seen[j], KeyOf(j), recorded, stamp)
        /\ Len(seen[j]) <= NumRequests[j[2]]

LogsToWrite ==
    \A j \in Jobs : pc[j] \in {"set", "wire"} =>
        /\ IsLog(seen[j], KeyOf(j), recorded \cup {j}, stamp)
        /\ Len(seen[j]) <= NumRequests[j[2]]

\* A denied job has read a full log, every entry of it inside its window.
DeniedIsFull ==
    \A j \in Jobs : pc[j] = "denied" =>
        /\ NumRequests[j[2]] <= Len(seen[j])
        /\ \A i \in DOMAIN seen[j] : LET at == stamp[<<seen[j][i], j[2]>>]
                                     IN stamp[j] - Duration[j[2]] < at /\ at <= stamp[j]

\* A recorded job has decided: its stamp no longer changes.
RecordedIsFinal == \A j \in recorded : pc[j] \in {"stored", "allowed", "raised", "cancelled"}

StampsArePast == \A j \in Jobs : stamp[j] <= now

\* Redis keeps a key at least until the last entry recorded for it is too old.
ExpiryCovers == \A j \in recorded : stamp[j] + Duration[j[2]] <= expires[KeyOf(j)]

\* No job of a request runs before check_throttles.
NewIsIdle == \A j \in Jobs : status[j[1]] = "new" => pc[j] = "idle"

ThrottleInv ==
    /\ TypeOK
    /\ NewIsIdle
    /\ StoredLogs
    /\ ReadLogs
    /\ LogsToWrite
    /\ DeniedIsFull
    /\ RecordedIsFinal
    /\ StampsArePast
    /\ ExpiryCovers
=============================================================================
