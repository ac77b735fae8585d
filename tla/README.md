# TSCache in TLA+

TSCache is an in-memory cache library for Go: byte values under string keys,
spread over shards, with a memory limit, three eviction policies, TTLs and
optional compression. This directory holds a TLA+ model of it, the
configurations that check the model with TLC on small instances, and proofs,
checked by TLAPS, of what holds for every instance. File and line numbers refer
to `src/`.

## The system

| component | code | state | operations |
|---|---|---|---|
| cache facade | `cache.go` | the array of shards, the configuration | `NewCache`, `Set`, `Get`, `Delete` (forwarded to the shard of the key), `Clear`, `Stats` (sweeps over the shards) |
| shard | `shard.go` | the map, the eviction list, `currentSize`, `currentCount`, under `mu`; hits, misses, evictions, under `stats.mu` | `Set`, `Get`, `Delete`, `Clear`, `evictIfNeeded`, `evictOne`, `getStats` |
| eviction lists | `eviction.go` | LRU and FIFO: a linked list and an index; LFU: nodes, frequency buckets, `minFreq` | `Add`, `Remove`, `Update`, `RemoveLeast`, `Clear` |
| compressors | `compression.go`, `compressor_*.go` | none, or the zstd encoder and decoder | `Compress`, `Decompress`, `Close` |
| utilities | `utils.go` | none | `fnv1a`, `getOptimalShardCount`, `roundToPowerOfTwo`, `formatBytes`; `calculateSize` (tests only) |

How they interact. A caller's goroutine runs the operation of the shard itself:
there is no worker. The shard owns its list and calls it with `mu` held, and it
hands the list a pointer to the item, which the LFU list reads (`AccessCount`)
and which Get goes on using after `mu` has been released. The only goroutine
the library starts is `go s.Delete(key)`, in a Get that finds its item expired
(shard.go:199). There is no janitor, no persistence and no network.

What is hard here:

* Get holds `mu` twice and reads its item before, between and after
  (shard.go:186-222), while Set overwrites items in place (shard.go:141-145).
* A Get updates the eviction list with an item that may have left the map.
* A cleanup goroutine deletes by key, at any later time.
* Set computes its times and compresses before it takes the lock.
* Set inserts first and evicts afterwards.
* LFU keeps `minFreq` up to date by a loop over a Go map, in any order, that
  gives the value 1 two meanings.
* Clear and Stats visit the shards one after the other, and `getStats` takes two
  locks in turn, while other callers go on.
* `""` is a legal key and `RemoveLeast`'s "nothing to evict".

What makes each component correct:

* eviction lists: the two halves of each structure agree; `RemoveLeast` names a
  tracked key whenever there is one, the right one for the policy, whatever the
  order in which Go visits a map;
* shard: the map, the list and the counters agree; the limit holds whenever no
  Set is inside; a Get answers with a value its key had during the call, never
  one past its TTL, and reports a key missing only with a reason; what a Get has
  found expired leaves the map; calls return;
* cache: the shards' limits add up to at most the configured one; a Clear removes
  all that was there before it; what Stats reports is true of a quiet cache and
  plausible of any other; the shard of a key is always the same and in range, and
  keys spread over the shards evenly;
* utilities: the hash is one to one on the last byte of a key, the number of
  shards is a power of two, what `formatBytes` prints is near what it is given,
  and the two size estimates agree.

## Modules

**`EvictionLists`** (eviction.go). Lists are values and methods are operators
on them, because a list is only ever used with the shard's lock held, so a call
is one step of the shard. An LRU or FIFO list is the sequence of its keys, next
victim first. An LFU list has the fields of the Go struct: `nodes` (frequency
and last use), `frequencies`, `minFreq`. Methods that depend on the order of a
Go map return a set of lists; `updateMinFreq` gives the possible results of the
loop in closed form. `ListAdd`, `ListRemove`, `ListUpdate`, `Victim` and
`RemoveLeast` are the `EvictionList` interface, by `Policy`. `IsList` says that
a list is well formed.

**`CacheShard`** (shard.go). The variables are the fields of `CacheShard`, plus:
`heap`, the reachable items by address; `cleanups`, how many cleanup goroutines
of each key have not run yet; `call`, the program counter and the locals of each
caller; `now`, the clock; `seen`, a history variable with the bindings a Get
could have returned (`Sighting`: the value, when it expires, and whether it was alive
at the time), which no action reads. A method is cut where another
goroutine can see or change what it uses:

| code | actions |
|---|---|
| `Set` 110-131, before the lock | `SetStart` |
| `Set` 133-139, lock, subtract the old size, list `Remove` | `SetOverwrite` |
| `Set` 141-148, write the fields, add the size, list `Add` | `SetInstall` |
| `Set` 149-165, the key is new | `SetInsert` |
| `evictIfNeeded`/`evictOne` 280-314, per round | `EvictOne`, `EvictStop` |
| `Set` 166-169, unlock, return | `SetDone` |
| `Get` 186-188, lookup | `GetFound`, `GetAbsent` |
| `Get` 198-205, expiry without the lock | `GetExpired`, `GetFresh` |
| `Get` 207-211 | `GetTouch` |
| `Get` 190-195, 201-204, 213-215, statistics | `GetCountMiss`, `GetCountHit` |
| `Get` 217, `item.Compressed`; 218/222, `item.Value` | `GetReadFlag`, `GetReadValue` |
| `Delete` 235-250 by a caller, by a cleanup goroutine | `Delete`, `CleanupDelete` |
| `Clear` 255-271 | `Clear` |

While a Set is in `write`, its fields are being written: an unlocked read of any
of them finds the old or the new contents (`Versions`). A slice is read as a
pointer and a length, so `Decoded` takes the two from possibly different
versions. A lookup waits for writers only, which is all a read lock does to it.

Values are model values with a raw and a packed length; `Prepared` compresses
when the value is over the threshold and keeps the result when it is smaller.
`huge`, in the runs, stands for a value that does not compress, or whose
compression fails: the code treats both alike.

`MCCacheShard` gives the values and their lengths, and the symmetry of keys and
callers. Definitions marked `Fault:` in the modules are not part of the
model: each is the following definition with a plausible bug, and
`PROJECT.json` says which property it breaks in which run.

**`ShardState`** and **`ShardContract`** say what a shard is to the rest of the
cache. `ShardState` has no variables: a shard is a record (bytes by key, cleanup
goroutines that have not run, statistics, the writer that holds the lock), with
one operator for what each critical section of shard.go makes of it.
`ShardContract` says when they apply: items enter by Set, with the lock held
until the evictions are done; they leave by Delete, Clear, a cleanup that a Get
asked for, or an eviction while the shard is over its limit; the lock is given
back within the limit, unless the key `""` is there, which evictOne cannot evict;
a Get counts once, a hit only if it found the key; an expiry starts one cleanup.
Policy, list, values and times are not part of it.

`CacheShard` implements `ShardContract` (`Contract`, at its end, is the
refinement mapping, and `ImplementsContract` the property). A Set that overwrites
takes effect on the contract's shard when it locks, so `SetInstall` is a
stuttering step and the size of the item being written is that of the new one.
What a Get has found and not counted is `Pending`.

**`Sharding`** (cache.go, utils.go): the number of shards, the shard of a hash,
with the width of `int` as a constant, and a shard's limit.

**`Cache`** (cache.go, and `getStats`) builds the cache from them: `shards` is a
function from numbers to records of `ShardState`; `call` is the call of each
caller; `during` a history of what each sweep has lived through, which no action
reads. Its steps are those of the contract, so it has fewer per operation than
`CacheShard`; what it keeps is every lock that a sweep waits for or runs between.

| code | actions |
|---|---|
| `Set` 174-177: store, with the shard locked | `Set` |
| the evictions of that Set; its return | `EvictOne`, `SetReturn` |
| `Get` 190-193: lookup; expiry, statistics, without the lock | `Get`, `GetExpired`, `GetCount` |
| `Delete` 201-204; `go s.Delete(key)` | `Delete`, `Cleanup` |
| `Clear` 209-214: start, one shard, end | `ClearStart`, `ClearShard`, `ClearReturn` |
| `Stats` 224-249: start, end | `StatsStart`, `StatsReturn` |
| `getStats` 323-327 and 329-332 in shard.go | `StatsCounters`, `StatsSizes` |

Which key is evicted is any of the shard, so the model stands for every policy,
and any item found may turn out to be expired, so it stands for every TTL.
`Shard(i, configured)` instantiates the contract once per shard, and
`ShardsKeepContract` says that no step of the composition, sweeps included,
breaks it.

**`CacheContract`** says what the cache is to its callers: one map. It knows of no
shards. A Set binds its key at once and is inside until the evictions are done; a
Get finds its key exactly if the map has it; items leave by Delete, a cleanup that a
Get has asked for, evictions while some Set is inside, and Clears; whenever no Set is
inside, all items together fit the configured limit, or take one byte per shard
(`Least`). Clear is not atomic: it starts with the keys that are there, may remove
any at each step (`ClearSome`), and returns when each of those it started with is
gone or was stored anew. `Cache` implements it: `Map`, at its end, is the refinement
mapping, and `IsOneMap` the property. The map takes each key from its own shard; the
keys a Clear has still to remove are those in the cache that were not stored during
it. The sweeps of Stats change nothing the contract sees.

**`Utils`** (utils.go): `fnv1a`, `calculateTypeSize` and `calculateValueSize`, as
operators. Multiplication and xor with a byte carry nothing
downwards, so `fnv1a` modulo 256 is the low byte of the hash, and with at most
256 shards, a power of two, the index depends on that byte alone: the instance
computes the shards of real keys. Types and values are records as reflection
shows them.

**`Formatting`** (utils.go 345-366): `formatBytes`, with the width of `int64`, the
unit, and the mantissa of a `float64` as constants. `float64` is the conversion in
utils.go:365: a number that does not fit the mantissa goes to the nearest one that
does (`spacing` is the distance of these), the even one on a tie. The division by a
power of two is exact then, and `"%.1f"` rounds once more, to tenths
(`RoundHalfEven`). The function ends in an answer (sign, tenths, unit), in a panic,
or never.

**`MinFreqLoop`** (eviction.go 395-409): the loop of `updateMinFreq`, over all
orders of the map, as a recursive function on the buckets still to come;
`EvictionLists` uses its results in closed form.

**`ByteCount`** has one definition: `Bytes(sizes, S)`, a set with one element per
byte of the things in S. Its cardinality is how the modules add up sizes and
counters: cardinality theorems then replace an induction over a sum.

**`LoopCalls`** has a state per call of a pure function, and the properties that
compare `formatBytes` and the loop of `updateMinFreq` with what they are to do. **`MCUtils`** adds the
calls (`OtherInputs`) and the properties of those that recurse over types and values,
or use bits, and which the prover therefore cannot take; it is also the instance for
TLC. **`MCCacheShard`** and **`MCCache`** are those of the shard and of the cache.

Modules extend each other in this order: `EvictionLists` and `ByteCount`,
`CacheShard`, `MCCacheShard`; `Sharding` and `ShardState` (which extends
`ByteCount`), `Cache`, `MCCache`; `Formatting` and `MinFreqLoop` (which extends
`EvictionLists`), `LoopCalls`, and with `Sharding` and `Utils`, `MCUtils`. `CacheShard` and
`Cache` instantiate `ShardContract`, which extends `ShardState`, and `Cache` also
`CacheContract`, which extends `ByteCount`.

The theorems are in modules of their own:

| module | about |
|---|---|
| `ByteCountProofs` | sums of sizes; the least of a set of numbers |
| `EvictionListsProofs` | what the list methods do, for each policy |
| `CacheShardProofs` | the inductive invariants of the shard; its accounts; what Gets answer |
| `CacheShardEvictionProofs` | which key is evicted |
| `CacheShardRefinement` | the shard implements its contract |
| `ShardingProofs` | number of shards, index, limits |
| `LoopProofs` | what the loops compute |
| `CacheProofs` | the cache: Clear, Stats, each shard's contract, and the one map |

## Runs

Every run with two callers interleaves them freely, cleanup goroutines included.

| run | instance | what it shows |
|---|---|---|
| `shard_lru` | 2 callers, 2 keys, 3 values, limit 3, 6 calls | the accounts agree; Gets answer with a value of their key; a corrupt answer needs an overlapping Set; a Set's item survives its own evictions unless it is over the limit by itself; the contract is kept |
| `shard_fifo` | FIFO, 2 callers, 2 keys and `""`, 2 values, 5 calls | the queue tracks the map; it loses `""` and no other key; keys are evicted in the order they entered the queue; the contract is kept |
| `shard_lfu` | LFU, 2 callers, 2 keys, 3 values, 6 calls | nodes and buckets agree, `minFreq` is always usable, the limit holds |
| `shard_ttl` | 2 callers, 2 keys, TTLs 0 and 1, room for one item, clock to 3, 4 calls, fairness | expiry against renewal, eviction and repeated cleanups; the contract is kept; every call returns; what was found expired leaves the map |
| `functions` | keys of up to 3 bytes, 1 to 128 cores, 14 bits for int64, 11 for the mantissa, 4 frequencies, types two levels deep | the pure functions against what they are to do |
| `torn_get` | 2 callers, 1 key, 3 calls | **violated**: a Get may answer with bytes nobody stored |
| `stale_cleanup` | 1 caller, 1 key, clock to 3, 3 calls | **violated**: the cleanup of an expired item deletes a fresh one stored meanwhile |
| `live_miss` | 2 callers, 1 key, TTLs 0 and 1, 3 calls | **violated**: a key whose items never expired is reported missing |
| `fifo_overwrite` | FIFO, 1 caller, 2 keys, 3 calls | **violated**: an overwritten key loses its place in the queue |
| `cache_sweeps` | 4 shards, 2 callers, 4 keys, limits 3 and 5, 4 calls | totals of Stats are within the limit, and exact if nothing changes; Clear leaves only what was stored during it; every shard keeps its contract; all together are one map |
| `clear_atomic` | as `cache_sweeps`, 3 calls | **violated**: the cache need not be empty at any moment of a Clear |
| `lfu_race` | LFU, 2 callers, 9 calls | **violated**: `minFreq` above the least frequency |

The violated ones are listed under "findings" in `PROJECT.json`, each with the
sentence of a comment or of the README it contradicts.

Bounds. `MaxOps` bounds the calls of a behaviour and `MaxNow` the clock; both
are guards of the model (`Start`, `Tick`), nothing else is cut. Two callers are
enough for every pair of steps to be interleaved, and cleanup goroutines come on
top. The limit 3 with lengths 1, 2 and 4 makes evictions of one and of several
items, exact fits, and items over the limit by themselves. Six calls fill the
shard, outdate the item of a waiting Get by deletion, eviction or replacement,
and use the list afterwards; the race in LFU needs nine. In `shard_lru` the
clock stands still: the order of an LRU list does not depend on it, and the
runs with TTLs move it. `stale_cleanup` and `fifo_overwrite` have one caller, so
what they show needs no torn read and no two calls at once, only a cleanup
goroutine that comes late, or nothing at all. `Finished` is the only place where the model may rest,
so that TLC's deadlock check covers everyone waiting on everyone. In `shard_ttl`
there is room for one item, so that every key stored evicts the other while their
Gets and cleanups are under way; one value is enough there, for values differ
only in what Gets answer, which `shard_lru` checks. Keys and callers are
symmetric, but for `""`; the run with a liveness property uses no symmetry.

In the runs of `Cache`, a machine with one core gives four shards, the least
there are; the keys are on the first, the second and, two of them, the last.
Limits 3 and 5 give each shard one byte, once raised from zero and once rounded
down, so that items of one byte compete in the last shard and items of two never
stay; three shards with two bytes each would be over the limit. Four calls are
a sweep and three calls in its gaps, or two sweeps; a Get among them may start a
cleanup. Hashes are below 8 and ints
reach 15, as wide as needed: with 32 bits `int(hash)` would be negative for half
of the hashes.

In `functions` the last byte of a key takes all 256 values, so that the hash is
the real one as far as the index goes. Types are fixed ones, arrays, structs, arrays
of arrays and structs of arrays, and slices, maps, pointers and interfaces of them. A
unit of 4 and an `int64` of 14 bits keep the proportions that matter to `formatBytes`:
the sixth power of the unit is less than the greatest number, as 2^60 is less than
2^63, and the mantissa, of 11 bits for 53, ends between the fifth power and the
sixth, at a multiple of PB, so that numbers on both sides of it are formatted. The
machines have 1 to 128 cores, which give 4 to 256 shards, the least and the most
there are. Four frequencies, in the map or not, used or empty, with every `minFreq`, are all
the cases the loop tells apart.

Fairness (`FairSpec`). Weak fairness of each caller's step and of each cleanup
goroutine: the Go scheduler runs what can run, and a `sync.RWMutex` hands itself
to waiters in turn, so whoever waits for the lock gets it. A caller need not
make a call. The clock goes on. `CallsReturn` and `ExpiredIsRemoved` rest on it: the
first on callers, and on those that hold the lock giving it back; the second on the
cleanup goroutine getting the lock although callers go on asking for it.

## Proofs

Every theorem holds for any finite sets of keys, goroutines and items, any values,
sizes, limits and TTLs, and, unless it says otherwise, each policy. The
assumptions are those of the modules. Addresses never run out: there are as many
items as keys and goroutines together, which is all that can be reachable at once
(`NewItemIsFree` proves that this is enough). Sizes are naturals. The compressor
is a function from values to lengths. `Corrupt`, `Missing` and the values are
different answers. A theorem about `CacheShard` or `Cache` says that the `Spec` of
that module implies the property named with it in `PROJECT.json`.

### The shard's accounts (`CacheShardProofs`)

`TypeCorrect`; `ItemsKeepTheirKey`: no two keys share an item, and an item a Get
holds is in the map under no other key; `ListTracksData`: the list is well formed
and tracks the keys of the map; `CountIsExact`, `SizeIsExact`; `LimitHolds`: within
the limit whenever no Set is inside, if no key is `""`.

None of these is inductive alone: the list's keys depend on who is in the middle of
an overwrite, the size on items not being shared, and both on the lock. `IInv`
joins them with `LockHeld`: the lock has a writer exactly while a Set is between
Lock and Unlock. There is one lemma per action; `LocalStep` covers the steps of Get
that touch only its own frame, `KeyLeaves` the three ways a key leaves the map,
`AccountsKept` the steps that leave the structures alone. `LimitHolds` adds
`WithinLimit` to `IInv`: evictOne gives up only on an empty list, whose map is
empty and takes no bytes.

The eviction lists enter through `EvictionListsProofs`: what `ListAdd`,
`ListRemove`, `ListUpdate` and `RemoveLeast` do to a well-formed list and to its
keys. For LFU the core is that `updateMinFreq` never leaves `minFreq` on an empty
bucket while there are nodes, whichever order the Go map is visited in. That a
least frequency, and an oldest node, exist at all is a well-foundedness argument
(`MinimalElement`).

### What Gets answer (`CacheShardProofs`)

`AnswersAreCurrent`: a value was bound to its key at some moment of the call;
`MangledOnlyByRaces`: mangled bytes, or a decompression error, need an overlapping
Set of another value to that key; `HitsAreLive`: a hit saw its key unexpired;
`MissesAreJustified`: a key that was found is reported missing only if an item the Get
saw had expired, or if it saw one with a TTL and one without. The second is the price
of reading `ExpireAt` twice (shard.go:198): the zero time, long gone by, is taken for
the TTL of another version. The documents allow the first reason only
(`MissIsExpired`, refuted by `live_miss`).

A Get reads its item in several steps, without the lock, while a Set may write it
and others may take it out of the map. So the properties say nothing inductive: the
invariant has to speak of what a Get may read later. `GInv` says that every version
of its item a Get may read from now on (`Versions`) has been seen (`Witnessed`: same
value, same expiry, alive unless the version has expired by now), whatever the
point at which it reads it; that a Get past its expiry check has seen a live value;
and that no item mixes two values (`ItemsDerived`). The step that matters is
`SetOverwrite`: it makes a second version readable, and at the same step that
version is seen by every Get of the key. Items out of the map are no
Set's target, by `IInv`, so what their Gets hold stays as it was seen.

### The contract (`CacheShardRefinement`)

`ShardImplementsContract` is the refinement that the runs check as
`ImplementsContract`: initial states map to initial states (`InitMaps`), and every
step to a step of `ShardContract` or a stutter (`NextMaps`). The mapping reads
sizes off the heap, so a step is followed through `Weights`, the sizes of the
mapped keys, with that of an item being written taken from the fields about to be
written: `SetStores` for the two ways a Set stores, `KeyGoes` for Delete, cleanup
and eviction, `GetLooksUp`, `GetExpires` and `GetCounts` for the three steps of a
Get the contract sees, `...Unseen` for the others. `IInv` gives that one Set
writes at a time and that `currentSize` is the size of the contract's shard in
`evict`; `ItemsDerived` that item sizes are those the contract allows.

### What is evicted (`CacheShardEvictionProofs`)

* `QueueIsFirstInFirstOut` (an action property): no step lets a key of a FIFO
  queue overtake another, and what is evicted was in front of all that stays. No
  invariant is needed but that the queue is well formed. It is about the queue, not
  about the map: Set takes a key it overwrites out of the queue and puts it in again,
  at the back, although `FIFOList.Add` is written, and documented, to leave a key it
  knows in place (eviction.go:455-456). `fifo_overwrite` refutes that.
* `NewItemIsLast`: with LRU or FIFO and no key `""`, a Set evicts its own item
  only if that one is over the limit by itself. The invariant is `NewIsLast`: until
  the Set is done its key is last in line, although Gets of other callers update
  the list meanwhile: they need the lock. When a key that is last is the victim, it
  is the only one, and the size is the size of its item. Not so with LFU, where a
  new key has the least frequency.
* `LeastRecentIsEvicted`, `FrequenciesCountReads`, `LeastFrequentIsEvicted`: the
  victim is the key LRU, or LFU, promises, for any number of keys and cleanup
  goroutines but with one caller (`OneCaller`). They are
  proved, and checked by no run. That there is one caller is no weakness of the proof.
  With two callers a Set stamps its item before it waits for the lock, and a Get
  touches an item that may have left the map, and run `lfu_race` shows `minFreq`
  go wrong. With one, the item a Get holds is the mapped one unless a cleanup
  has removed it (`HeldIsMapped`). All steps but three let the list, the map and
  the heap only lose (`EntersNothing`); those three store or touch the key used
  last. So an LRU list goes by `AccessAt` (`Recency`), and LFU's nodes count
  reads with `minFreq` the least of them (`Frequencies`).

### Sharding (`ShardingProofs`)

For every number of shards and every limit, the index of a key is a shard where
`int` is wider than the hash (`IndexInRange`), every shard of a limited cache is
limited (`EveryShardIsLimited`), and the limits of the shards sum to at most the
configured limit or one byte each, and fall short of it by less than a byte per
shard (`LimitsAddUp`). For every number of cores the number of shards is a power
of two from 4 to 256, from two to four per core in between
(`ShardCountIsPowerOfTwo`): `roundToPowerOfTwo` is a recursive function, chosen
among those that satisfy the equation of the loop; the proof exhibits a closed
form that does, and then unfolds the equation.

### The loops (`LoopProofs`)

* `LoopsMatchClosedForm`: for every finite set of buckets, any of them empty, the loop
  of `updateMinFreq` leaves exactly the frequencies that the model of the LFU list
  says (`LoopClosedForm`): what is proved of that list is proved of the loop. What the
  loop may leave depends on what it reads and which buckets are to come (`Ahead`).
  Without bucket 1 among those in use it finds the least whichever comes next
  (`VisitInAnyOrder`); with it every one in use may be the result
  (`VisitWithBucketOne`), because the 1 that the loop takes for "unset" may come from
  that bucket. So `Ahead` satisfies the equation of the loop (`AheadOfOneVisit`).
* `FormatsAreNearest`: for every number below 1024^6 that a `float64` holds exactly
  whatever its size, that is, below 2^53, and every power of two in the place of 1024
  and of 2^53, `formatBytes` prints the nearest number of tenths of the largest unit
  that fits. Above 2^53 it is false of the code: the conversion rounds before
  `"%.1f"` does, and 8.25 PB and one byte print as 8.2 PB, where 8.3 is nearest. The loop divides an already rounded quotient, which is the
  same as dividing once by the product (`QuotientAtLeast`, `OneDivision`), so it stops
  at the largest unit not above the number (`DivideFindsUnit`); rounding to tenths
  stays between that unit and the next (`RoundsToNearest`).

A recursive function is some function that satisfies its equation. For the last two,
the proofs exhibit one that does, and show that there is no other: of the arguments at
which two differ, take a least one (`LeastNumber`, on the number of buckets to come, or
on the number to be divided). The equation refers to smaller arguments only, where they
agree, so they agree there too.

### The cache (`CacheProofs`)

Its theorems assume `HashCount <= IntHalf`, that `int` is wider than the hash, as
it is on the 64-bit machines the code is for; otherwise `int(hash)` may be
negative. `CInv` joins the types with: a shard is locked by the Set that is inside
and by no other (`LockHeld`); a shard nobody has locked is within its limit
(`FreeShardsFit`); what is in the shards a Clear has passed was stored during it
(`SweptShardsAreNewer`); what a Stats has added up is within the limits of the
shards it has passed (`TotalsFit`). From it:

* `CacheTypes`; `ClearRemovesOlder`; `StatsStaysWithinLimit`, with `LimitsAddUp`:
  the sum of sizes of different moments is within the configured limit, because
  Stats waits for the lock of each shard, and the shard is within its own then;
* `QuietStatsIsExact`: the five totals are exact if nothing changes meanwhile. The
  invariant is that the totals so far are those of the shards passed
  (`QuietIsExact`), and that no key is in two shards (`KeysAtHome`), without
  which the count of items would not be that of keys;
* `EveryShardKeepsContract` (an action property): every step of the composition is
  for every shard one step of `ShardContract`, or none;
* `ShardsAreOneMap`: the cache implements `CacheContract`.

The last is a refinement: initial states map to initial states, every step
to one step of the contract or a stutter (`NextIsMapStep`, one lemma per action). The
mapping is read off the shards by `KeysIn`, `ItemsIn` and `CleanupsIn` and off the calls
by `SetsIn`, `GetsIn` and `ClearsIn`; `ItemJoins`, `KeysLeave` and `CallsMove` say what a
change of one shard, or of one call, does to them. Of the invariant (`MInv`) it needs
`CInv`, `KeysAtHome`, without which two shards could disagree about a key, and
`OutsideSweeps`: the history of a caller that is in no sweep has nothing stored, so a
Clear starts with all keys to remove. Two steps need more than their own shard:

* `SetReturn` of the last Set inside. By `LockHeld` no shard is locked then, so each is
  within its own limit by `FreeShardsFit` (`ShardsFit`); the bytes of all are at most
  shards times that limit (`BytesOfParts`, by induction on the number of shards); and
  `LimitsAddUp` compares that with the configured limit.
* `ClearReturn`. By `SweptShardsAreNewer` all that is left was stored during the Clear.

### Only model-checked

`CallsReturn` and `ExpiredIsRemoved`: liveness is out of the prover's reach. The properties of `MCUtils`:
`SizesAgree` and `ContainerHoldsItsElements`, for types and values are trees, of any
depth, whose recursion is no function on a set the prover could do induction over; and
`ShardsEven`, for the hash is made of xor, of which the prover knows nothing. The
properties the six violated runs refute are, naturally, not theorems. Where a theorem excludes the key
`""` the property is not true of it: evictOne cannot evict that key, and a shard that
holds it may stay over its limit. The list, the queue's order and the contract are
proved with it, and `shard_fifo` has it among its keys.

## Not modelled

* The janitor the README suggests ("automatic cleanup of expired items",
  README.md:15) does not exist: an expired item that nobody reads leaves the map
  only by eviction, Delete or Clear. There is nothing to model.
* What the model contradicts without a run of its own. README.md:234 and
  README_CN.md:170 give two shards per core and at most 64, and utils_test.go:208
  asserts at most 32, on whatever machine the test runs; the code rounds up to a
  power of two and caps at 256 (utils.go:285), so a machine with more than 32 cores
  has more than 64 shards, and one with more than 16 fails the test.
  `ShardCountIsPowerOfTwo` proves what the code does. And utils.go:339-344 ends at
  TB, the table at PB.
* That a new LFU item may be evicted by its own Set (eviction.go:243) is in the
  model, but `NewItemStays` is of LRU and FIFO.
* `calculateValueSize` on a value that contains itself, which never ends. Kinds
  without a case (8 bytes) and 64-bit floats are as int64 and func.
* Compression algorithms: library code. A compressor is a pair of lengths, and
  has no state but that of the library. `ZstdCompressor.Close` is called by no
  code of the cache; what the library does with a compressor closed while in use
  cannot be read off this repository.
* `getStringFromBytes`, `getBytesFromString`, `getMemoryUsage`: only tests call
  them, and they compute nothing.
* Weak memory beyond single fields: an unlocked read finds old or new contents
  of each word in program order; a compiler that reorders Get's unlocked reads
  is not modelled. Of a time.Time torn between words, every outcome is one that
  a pair of whole reads has too.
* Overflow of `int` counters in 64 bits, and `int` of 32 bits: `Sharding` has the
  width as a constant, the instances and `IndexInRange` take it wider than the
  hash.
* Aliasing of value slices between callers and the cache: values are immutable
  here. No document says whether the cache copies; it does not.
* The growth of LFU's bucket map: no bound is promised.

## Plan

What is left:

1. The reads of LFU with several callers: how far a frequency may be from the
   number of reads.
2. The size estimates as a function on a set of types closed under parts, with a rank
   to do induction over.
