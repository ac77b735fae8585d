--------------------------- MODULE ShardContract ----------------------------
(***************************************************************************)
(* What a shard promises the cache that is built on it, whatever its       *)
(* policy, its list and its values: items enter by Set only; they leave by *)
(* a Delete, a Clear, an eviction while the shard is over its limit and    *)
(* its lock held, or a cleanup that a Get has asked for; the lock is given *)
(* back within the limit; each eviction, hit and miss is counted once, and *)
(* a hit is counted for a key that was there.                              *)
(***************************************************************************)
EXTENDS ShardState

CONSTANTS
    Goroutines,     \* the callers
    NoKey,          \* the empty string, which evictOne cannot evict
    MaxSize,        \* the shard's memory limit; none when not positive
    Sizes           \* bytes a stored item may take

VARIABLES
    shard,
    pending         \* goroutine -> what its Get has to count

vars == <<shard, pending>>

NoGet == [get |-> "none"]
Found(k) == [get |-> "found", key |-> k]
Absent == [get |-> "absent"]

Init ==
    /\ shard = NewShard
    /\ pending = [g \in Goroutines |-> NoGet]

\* Set locks the shard and stores its item; the evictions follow.
Store(g, k, size) ==
    /\ Free(shard)
    /\ shard' = Stored(shard, g, k, size)
    /\ UNCHANGED pending

Evict(g, k) ==
    /\ shard.writer = g
    /\ Over(shard, MaxSize)
    /\ k \in DOMAIN shard.items
    /\ shard' = Evicted(shard, k)
    /\ UNCHANGED pending

\* The evictions end when there is room, or on meeting the empty key.
Release(g) ==
    /\ shard.writer = g
    /\ Over(shard, MaxSize) => NoKey \in DOMAIN shard.items
    /\ shard' = Unlocked(shard)
    /\ UNCHANGED pending

Lookup(g, k) ==
    /\ pending[g] = NoGet
    /\ Free(shard)
    /\ pending' = [pending EXCEPT ![g] =
                      IF k \in DOMAIN shard.items THEN Found(k) ELSE Absent]
    /\ UNCHANGED shard

\* The item found turns out to be past its TTL.
Expire(g, k) ==
    /\ pending[g] = Found(k)
    /\ pending' = [pending EXCEPT ![g] = Absent]
    /\ shard' = CleanupStarted(shard, k)

\* By now the item may be gone, and the statistics reset.
Count(g) ==
    /\ pending[g] # NoGet
    /\ shard' = Counted(shard, pending[g] # Absent)
    /\ pending' = [pending EXCEPT ![g] = NoGet]

Remove(k) ==
    /\ Free(shard)
    /\ shard' = Without(shard, k)
    /\ UNCHANGED pending

Cleanup(k) ==
    /\ shard.cleanups[k] > 0
    /\ Free(shard)
    /\ shard' = CleanedUp(shard, k)
    /\ UNCHANGED pending

Clear ==
    /\ Free(shard)
    /\ shard' = Cleared(shard)
    /\ UNCHANGED pending

Next ==
    \/ \E g \in Goroutines :
          \/ \E k \in Keys, size \in Sizes : Store(g, k, size)
          \/ \E k \in Keys : Evict(g, k) \/ Lookup(g, k) \/ Expire(g, k)
          \/ Release(g)
          \/ Count(g)
    \/ \E k \in Keys : Remove(k) \/ Cleanup(k)
    \/ Clear

Spec == Init /\ [][Next]_vars
=============================================================================
