----------------------------- MODULE ShardState -----------------------------
(***************************************************************************)
(* A shard as those see it who use it, and what one critical section of    *)
(* its methods (shard.go) makes of it.  A shard is a record:               *)
(*                                                                         *)
(*   items                    key -> bytes of its item                     *)
(*   cleanups                 key -> started, unfinished `go s.Delete`     *)
(*   hits, misses, evictions  the statistics                               *)
(*   writer                   the goroutine that holds the lock            *)
(*                                                                         *)
(* Values, times and the eviction list are left out.  ShardContract says   *)
(* when the operators below apply, CacheShard that the code keeps to it,   *)
(* and Cache builds the cache from them.                                   *)
(***************************************************************************)
EXTENDS Integers, FiniteSets, ByteCount

CONSTANTS
    Keys,           \* the cache keys
    NoGoroutine     \* the lock has no writer

ASSUME KeysAssumption == IsFiniteSet(Keys)

NewShard == [items |-> <<>>, cleanups |-> [k \in Keys |-> 0],
             hits |-> 0, misses |-> 0, evictions |-> 0,
             writer |-> NoGoroutine]

\* Nobody holds the lock for writing.
Free(s) == s.writer = NoGoroutine

Size(s) == Cardinality(Bytes(s.items, DOMAIN s.items))

Over(s, limit) == limit > 0 /\ Size(s) > limit

\* Set, up to its evictions: g keeps the lock.
Stored(s, g, k, size) ==
    [s EXCEPT !.items = [j \in DOMAIN @ \cup {k} |-> IF j = k THEN size ELSE @[j]],
              !.writer = g]

Without(s, k) == [s EXCEPT !.items = [j \in DOMAIN @ \ {k} |-> @[j]]]

Evicted(s, k) == [Without(s, k) EXCEPT !.evictions = @ + 1]

Unlocked(s) == [s EXCEPT !.writer = NoGoroutine]

\* A Get found key k expired, and starts a goroutine that will delete it.
CleanupStarted(s, k) == [s EXCEPT !.cleanups[k] = @ + 1]

CleanedUp(s, k) == [Without(s, k) EXCEPT !.cleanups[k] = @ - 1]

Counted(s, hit) ==
    IF hit THEN [s EXCEPT !.hits = @ + 1] ELSE [s EXCEPT !.misses = @ + 1]

\* Clear gives up everything but the goroutines it cannot recall.
Cleared(s) == [NewShard EXCEPT !.cleanups = s.cleanups]
=============================================================================
