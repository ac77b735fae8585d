------------------------------ MODULE MCCache -------------------------------
(* Small instances of Cache for TLC: four shards, the least a cache has.   *)
EXTENDS Cache, Functions

CONSTANTS k1, k2, k3, k4

\* Of eight hashes.  k1 goes to shard 0, k2 to shard 1, k3 and k4 to shard 3.
MCHash == [k \in Keys |-> CASE k = k1 -> 4 [] k = k2 -> 1 [] k = k3 -> 3 [] k = k4 -> 7]

CallersSymmetry == {[g \in Goroutines |-> f[g]] : f \in Bijection(Goroutines, Goroutines)}
=============================================================================
