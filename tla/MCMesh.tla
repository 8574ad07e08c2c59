------------------------------- MODULE MCMesh -------------------------------
(***************************************************************************)
(* Small meshes, each for something that may happen to a ping.             *)
(***************************************************************************)
EXTENDS Mesh

CONSTANTS a, b, c

Connect(fromA, fromB) == [s \in Services |-> CASE s = a -> fromA [] s = b -> fromB [] s = c -> {}]

AMesh(connections, retries, depth) ==
    [connections |-> connections, registered |-> connections, retries |-> retries, depth |-> depth]

Pair == Connect({b, c}, {})
Chain == Connect({b}, {c})
Cycle == Connect({b}, {a})

MCMeshes == {
    AMesh(Pair, 1, 1), AMesh(Chain, 1, 2), AMesh(Chain, 0, -1), AMesh(Pair, 0, 0),
    AMesh(Cycle, 0, 3), AMesh(Cycle, 0, -1),
    [AMesh(Pair, 0, 1) EXCEPT !.registered[a] = {b}],
    [AMesh(Connect({b}, {a, c}), 0, 2) EXCEPT !.registered[b] = {a}]}
=============================================================================
