----------------------------- MODULE MCContainers ----------------------------
(***************************************************************************)
(* Containers with the keys of which three share a bucket of the first     *)
(* array and two still share one after it has grown.                       *)
(***************************************************************************)
EXTENDS Containers, TLC

CONSTANTS k1, k2, k3, k4

MCHash(k) == CASE k = k1 -> 1 [] k = k2 -> 6 [] k = k3 -> 11 [] k = k4 -> 3

(* The parser reads a queue and keeps stacks, the analysis of the program  *)
(* and the lowering keep lists and maps, liveness a queue and sets.        *)
Phases == {{"queue", "stack"}, {"list", MapName}, {"queue"} \cup SetName}

(* malloc does not tell its nodes apart. *)
NodesAlike == Permutations(Node)
=============================================================================
