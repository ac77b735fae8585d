------------------------------- MODULE Cache --------------------------------
(***************************************************************************)
(* The cache over its shards (cache.go, and getStats in shard.go).  Set,   *)
(* Get and Delete go to the shard of their key.  Clear and Stats visit the *)
(* shards one after the other, each under its own locks, while other       *)
(* callers go on; getStats takes two locks in turn.                        *)
(*                                                                         *)
(* A shard is what ShardContract promises, and CacheShard keeps: Delete,   *)
(* Clear and a cleanup take effect at one moment; a Set holds the shard    *)
(* from storing its item until the evictions have made room; a Get counts  *)
(* its hit or miss after it has let go of the shard.  Which keys are       *)
(* evicted, and when an item that a Get has found is past its TTL, are     *)
(* left open, and so are values.                                           *)
(***************************************************************************)
EXTENDS Sharding, ShardState

CONSTANTS
    Goroutines,     \* the callers
    NoKey,          \* the empty key, which no caller uses (cache.go:166)
    Hash,           \* key -> its hash
    Sizes,          \* sizes of values
    NumCPU,         \* cores of the machine
    MaxSizes,       \* memory limits a cache may be made with
    MaxOps          \* bound on the number of calls

ASSUME CacheAssumption ==
    /\ NoKey \notin Keys
    /\ NoGoroutine \notin Goroutines
    /\ Hash \in [Keys -> 0 .. HashCount - 1]
    /\ Sizes \subseteq Nat
    /\ NumCPU \in Nat \ {0}
    /\ MaxSizes \subseteq Int
    /\ MaxOps \in Nat

VARIABLES
    maxSize,        \* the configured limit
    shards,         \* shard number -> shard
    call,           \* goroutine -> the call it is in
    ops,            \* calls started so far
    during          \* history: goroutine -> what happened during its sweep

vars == <<maxSize, shards, call, ops, during>>

shardCount == getOptimalShardCount(NumCPU)
Shards == 0 .. shardCount - 1

getShard(k) == shardIndex(Hash[k], shardCount)

limit == ShardLimit(maxSize, shardCount)

-----------------------------------------------------------------------------
(* Values of the variables.                                                *)

ShardStates == [items : UNION {[K -> Sizes] : K \in SUBSET Keys},
                cleanups : [Keys -> Nat],
                hits : Nat, misses : Nat, evictions : Nat,
                writer : Goroutines \cup {NoGoroutine}]

Idle == [pc |-> "idle"]

Totals == [hits : Nat, misses : Nat, evictions : Nat, count : Nat, size : Nat]

Frames ==
    {Idle}
    \cup [pc : {"evict"}, shard : Shards]
    \cup [pc : {"count"}, key : Keys, hit : BOOLEAN]
    \cup [pc : {"clear"}, next : 0 .. shardCount]
    \cup [pc : {"counters", "sizes"}, next : 0 .. shardCount, total : Totals]

Sweeping(g) == call[g].pc \in {"clear", "counters", "sizes"}

\* Keys stored during a sweep, whether the cache was empty at some moment of
\* it, and whether no item and no counter changed.
Observations == [stored : SUBSET Keys, empty : BOOLEAN, quiet : BOOLEAN]

Unseen == [stored |-> {}, empty |-> FALSE, quiet |-> TRUE]

\* Types; in particular no sweep passes the last shard.
TypeOK ==
    /\ maxSize \in MaxSizes
    /\ shards \in [Shards -> ShardStates]
    /\ call \in [Goroutines -> Frames]
    /\ ops \in Nat
    /\ during \in [Goroutines -> Observations]

\* The keys in the cache, and the sum of what its shards have of something.
StoredKeys == UNION {DOMAIN shards[i].items : i \in Shards}

Sum(numbers) == Cardinality(Bytes(numbers, Shards))

Unchanged(i) ==
    \A field \in {"items", "hits", "misses", "evictions"} :
        shards'[i][field] = shards[i][field]

\* A step that stores the keys in K, as the sweeps under way observe it.
Observed(K) ==
    during' = [g \in Goroutines |->
        IF Sweeping(g)
        THEN [stored |-> during[g].stored \cup K,
              empty  |-> during[g].empty \/ StoredKeys' = {},
              quiet  |-> during[g].quiet /\ \A i \in Shards : Unchanged(i)]
        ELSE during[g]]

Init ==
    /\ maxSize \in MaxSizes
    /\ shards = [i \in Shards |-> NewShard]
    /\ call = [g \in Goroutines |-> Idle]
    /\ ops = 0
    /\ during = [g \in Goroutines |-> Unseen]

Start(g) ==
    /\ call[g] = Idle
    /\ ops < MaxOps
    /\ ops' = ops + 1

-----------------------------------------------------------------------------
(* Operations on one shard.                                                *)

Set(g, k, size) ==
    LET i == getShard(k)
    IN  /\ Start(g)
        /\ Free(shards[i])
        /\ shards' = [shards EXCEPT ![i] = Stored(@, g, k, size)]
        /\ call' = [call EXCEPT ![g] = [pc |-> "evict", shard |-> i]]
        /\ UNCHANGED maxSize
        /\ Observed({k})

EvictOne(g) ==
    /\ call[g].pc = "evict"
    /\ Over(shards[call[g].shard], limit)
    /\ \E k \in DOMAIN shards[call[g].shard].items :
          shards' = [shards EXCEPT ![call[g].shard] = Evicted(@, k)]
    /\ UNCHANGED <<maxSize, call, ops>>
    /\ Observed({})

SetReturn(g) ==
    /\ call[g].pc = "evict"
    /\ ~Over(shards[call[g].shard], limit)
    /\ shards' = [shards EXCEPT ![call[g].shard] = Unlocked(@)]
    /\ call' = [call EXCEPT ![g] = Idle]
    /\ UNCHANGED <<maxSize, ops, during>>

Get(g, k) ==
    LET s == shards[getShard(k)]
    IN  /\ Start(g)
        /\ Free(s)
        /\ call' = [call EXCEPT ![g] = [pc |-> "count", key |-> k,
                                        hit |-> k \in DOMAIN s.items]]
        /\ UNCHANGED <<maxSize, shards, during>>

GetExpired(g) ==
    /\ call[g].pc = "count"
    /\ call[g].hit
    /\ shards' = [shards EXCEPT ![getShard(call[g].key)] =
                     CleanupStarted(@, call[g].key)]
    /\ call' = [call EXCEPT ![g].hit = FALSE]
    /\ UNCHANGED <<maxSize, ops, during>>

GetCount(g) ==
    /\ call[g].pc = "count"
    /\ shards' = [shards EXCEPT ![getShard(call[g].key)] =
                     Counted(@, call[g].hit)]
    /\ call' = [call EXCEPT ![g] = Idle]
    /\ UNCHANGED <<maxSize, ops>>
    /\ Observed({})

Delete(g, k) ==
    /\ Start(g)
    /\ Free(shards[getShard(k)])
    /\ shards' = [shards EXCEPT ![getShard(k)] = Without(@, k)]
    /\ UNCHANGED <<maxSize, call>>
    /\ Observed({})

\* A goroutine that a Get has started.
Cleanup(k) ==
    /\ shards[getShard(k)].cleanups[k] > 0
    /\ Free(shards[getShard(k)])
    /\ shards' = [shards EXCEPT ![getShard(k)] = CleanedUp(@, k)]
    /\ UNCHANGED <<maxSize, call, ops>>
    /\ Observed({})

-----------------------------------------------------------------------------
(* Sweeps.                                                                 *)

Sweep(g, frame) ==
    /\ Start(g)
    /\ call' = [call EXCEPT ![g] = frame]
    /\ during' = [during EXCEPT ![g].empty = (StoredKeys = {})]
    /\ UNCHANGED <<maxSize, shards>>

Return(g) ==
    /\ call' = [call EXCEPT ![g] = Idle]
    /\ during' = [during EXCEPT ![g] = Unseen]
    /\ UNCHANGED <<maxSize, shards, ops>>

\* Fault: the first shard is skipped.
ClearStartLate(g) == Sweep(g, [pc |-> "clear", next |-> 1])

ClearStart(g) == Sweep(g, [pc |-> "clear", next |-> 0])

\* Fault: the shard's lock is not taken.
ClearShardUnlocked(g) ==
    /\ call[g].pc = "clear"
    /\ call[g].next \in Shards
    /\ shards' = [shards EXCEPT ![call[g].next] = Cleared(@)]
    /\ call' = [call EXCEPT ![g].next = @ + 1]
    /\ UNCHANGED <<maxSize, ops>>
    /\ Observed({})

\* Fault: the loop goes one shard too far.
ClearShardBeyond(g) ==
    /\ call[g].pc = "clear"
    /\ call[g].next \in 0 .. shardCount
    /\ \A i \in Shards : i = call[g].next => Free(shards[i])
    /\ shards' = [i \in Shards |->
                     IF i = call[g].next THEN Cleared(shards[i]) ELSE shards[i]]
    /\ call' = [call EXCEPT ![g].next = @ + 1]
    /\ UNCHANGED <<maxSize, ops>>
    /\ Observed({})

ClearShard(g) ==
    /\ call[g].pc = "clear"
    /\ call[g].next \in Shards
    /\ Free(shards[call[g].next])
    /\ shards' = [shards EXCEPT ![call[g].next] = Cleared(@)]
    /\ call' = [call EXCEPT ![g].next = @ + 1]
    /\ UNCHANGED <<maxSize, ops>>
    /\ Observed({})

\* Fault: the last shard is skipped.
ClearReturnEarly(g) ==
    /\ call[g].pc = "clear"
    /\ call[g].next = shardCount - 1
    /\ Return(g)

ClearReturn(g) ==
    /\ call[g].pc = "clear"
    /\ call[g].next = shardCount
    /\ Return(g)

StatsStart(g) ==
    Sweep(g, [pc |-> "counters", next |-> 0,
              total |-> [hits |-> 0, misses |-> 0, evictions |-> 0,
                         count |-> 0, size |-> 0]])

\* getStats, under stats.mu.
StatsCounters(g) ==
    /\ call[g].pc = "counters"
    /\ call[g].next \in Shards
    /\ LET s == shards[call[g].next]
           total == [call[g].total EXCEPT !.hits = @ + s.hits,
                                          !.misses = @ + s.misses,
                                          !.evictions = @ + s.evictions]
       IN  call' = [call EXCEPT ![g] = [pc |-> "sizes", next |-> call[g].next,
                                        total |-> total]]
    /\ UNCHANGED <<maxSize, shards, ops, during>>

\* Fault: the sizes of a shard replace those of the shards before.
StatsSizesLast(g) ==
    /\ call[g].pc = "sizes"
    /\ Free(shards[call[g].next])
    /\ LET s == shards[call[g].next]
           total == [call[g].total EXCEPT !.count = Cardinality(DOMAIN s.items),
                                          !.size = Size(s)]
       IN  call' = [call EXCEPT ![g] = [pc |-> "counters", next |-> call[g].next + 1,
                                        total |-> total]]
    /\ UNCHANGED <<maxSize, shards, ops, during>>

\* getStats, under mu.
StatsSizes(g) ==
    /\ call[g].pc = "sizes"
    /\ Free(shards[call[g].next])
    /\ LET s == shards[call[g].next]
           total == [call[g].total EXCEPT
                        !.count = @ + Cardinality(DOMAIN s.items),
                        !.size = @ + Size(s)]
       IN  call' = [call EXCEPT ![g] = [pc |-> "counters", next |-> call[g].next + 1,
                                        total |-> total]]
    /\ UNCHANGED <<maxSize, shards, ops, during>>

StatsReturn(g) ==
    /\ call[g].pc = "counters"
    /\ call[g].next = shardCount
    /\ Return(g)

-----------------------------------------------------------------------------
\* All calls made and returned, and all cleanups done.
Finished ==
    /\ ops = MaxOps
    /\ \A g \in Goroutines : call[g] = Idle
    /\ \A k \in Keys : shards[getShard(k)].cleanups[k] = 0
    /\ UNCHANGED vars

Next ==
    \/ \E g \in Goroutines :
          \/ \E k \in Keys, size \in Sizes : Set(g, k, size)
          \/ \E k \in Keys : Get(g, k)
          \/ \E k \in Keys : Delete(g, k)
          \/ EvictOne(g)
          \/ SetReturn(g)
          \/ GetExpired(g)
          \/ GetCount(g)
          \/ ClearStart(g)
          \/ ClearShard(g)
          \/ ClearReturn(g)
          \/ StatsStart(g)
          \/ StatsCounters(g)
          \/ StatsSizes(g)
          \/ StatsReturn(g)
    \/ \E k \in Keys : Cleanup(k)
    \/ Finished

Spec == Init /\ [][Next]_vars

-----------------------------------------------------------------------------
(* Properties.  A sweep answers when it has visited every shard.           *)

ClearDone(g) == call[g].pc = "clear" /\ call[g].next = shardCount

StatsDone(g) == call[g].pc = "counters" /\ call[g].next = shardCount

\* The CurrentSize a Stats reports is within the limit, although it adds up
\* sizes of different moments (cache_test.go:258-261); a limit of less than one
\* byte per shard counts as one byte per shard (cache.go:151-153).
StatsWithinLimit ==
    \A g \in Goroutines :
        StatsDone(g) /\ maxSize > 0
            => \/ call[g].total.size <= maxSize
               \/ call[g].total.size <= shardCount

\* When no item and no counter changes while Stats sweeps, all five totals are
\* exact, whatever happened before it.
StatsExactWhenQuiet ==
    \A g \in Goroutines :
        StatsDone(g) /\ during[g].quiet
            => call[g].total =
                   [hits      |-> Sum([i \in Shards |-> shards[i].hits]),
                    misses    |-> Sum([i \in Shards |-> shards[i].misses]),
                    evictions |-> Sum([i \in Shards |-> shards[i].evictions]),
                    count     |-> Cardinality(StoredKeys),
                    size      |-> Sum([i \in Shards |-> Size(shards[i])])]

\* What is in the cache when Clear returns was stored during the Clear.
ClearLeavesOnlyNewer ==
    \A g \in Goroutines : ClearDone(g) => StoredKeys \subseteq during[g].stored

\* Clear "is an atomic operation that will clear all shards" (cache.go:208): at
\* some moment of it the cache was empty.  The code breaks it.
ClearIsAtomic == \A g \in Goroutines : ClearDone(g) => during[g].empty

\* What a Get has found in shard i and not counted yet.
Pending(i, g) ==
    IF call[g].pc = "count" /\ getShard(call[g].key) = i
    THEN IF call[g].hit THEN [get |-> "found", key |-> call[g].key]
                        ELSE [get |-> "absent"]
    ELSE [get |-> "none"]

Shard(i, configured) ==
    INSTANCE ShardContract WITH
        shard <- shards[i],
        pending <- [g \in Goroutines |-> Pending(i, g)],
        MaxSize <- ShardLimit(configured, shardCount)

KeepsContract ==
    \A i \in Shards, configured \in MaxSizes :
        maxSize = configured
            => \/ UNCHANGED Shard(i, configured)!vars
               \/ Shard(i, configured)!Next

\* Every shard of the cache keeps the contract that CacheShard keeps, through
\* the sweeps of Clear and Stats too: no step of the cache enters a shard that
\* a Set has locked, or leaves it over its own part of the limit.
ShardsKeepContract == [][KeepsContract]_vars

\* The cache as its callers see it.  A key is looked for in its own shard; a Clear
\* has still to remove the keys that were not stored during it.
Map ==
    INSTANCE CacheContract WITH
        items    <- [k \in StoredKeys |-> shards[getShard(k)].items[k]],
        cleanups <- [k \in Keys |-> shards[getShard(k)].cleanups[k]],
        setting  <- {g \in Goroutines : call[g].pc = "evict"},
        gets     <- [g \in {h \in Goroutines : call[h].pc = "count"} |->
                        [key |-> call[g].key, hit |-> call[g].hit]],
        clearing <- [g \in {h \in Goroutines : call[h].pc = "clear"} |->
                        StoredKeys \ during[g].stored],
        Least    <- shardCount

\* The shards together are one map (cache.go:255-267): what a Set binds a key to is
\* what every Get finds until something removes it, no operation touches the items
\* of another shard, all shards together are within the limit whenever no Set is
\* inside, and a Clear ends when what it found is gone.
IsOneMap == Map!Spec
=============================================================================
