----------------------------- MODULE CacheProofs -----------------------------
(***************************************************************************)
(* The cache over its shards, for every number of callers and keys, every  *)
(* hash and limit, and every number of cores: each shard keeps the         *)
(* contract that CacheShard keeps, what Clear and Stats promise although   *)
(* they visit the shards one by one, and that the shards together are the  *)
(* one map of CacheContract.                                               *)
(*                                                                         *)
(* An int has more bits than a hash (cache.go:267): HashCount <= IntHalf.  *)
(***************************************************************************)
EXTENDS Cache, ShardingProofs, ByteCountProofs

\* A cache has shards, and every key has one of them.
LEMMA ShardOfKey ==
    /\ shardCount \in Nat \ {0}
    /\ HashCount <= IntHalf => \A k \in Keys : getShard(k) \in Shards
<1>1. shardCount \in Nat \ {0}
  BY CacheAssumption, ShardCountIsPowerOfTwo DEF shardCount
<1>2. ASSUME HashCount <= IntHalf, NEW k \in Keys PROVE getShard(k) \in Shards
  <2>1. Hash[k] \in 0 .. HashCount - 1
    BY CacheAssumption
  <2> QED BY <1>1, <1>2, <2>1, IndexInRange DEF getShard, Shards
<1> QED BY <1>1, <1>2

\* A limited cache limits every shard.
LEMMA LimitOfShard ==
    ASSUME maxSize \in MaxSizes, maxSize > 0
    PROVE  limit \in Nat \ {0}
BY CacheAssumption, ShardOfKey, EveryShardIsLimited DEF limit

\* With a limit or without one, it is a number.
LEMMA LimitIsNumber ==
    ASSUME maxSize \in MaxSizes
    PROVE  limit \in Int
<1>1. maxSize \in Int /\ shardCount \in Nat \ {0}
  BY CacheAssumption, ShardOfKey
<1>2. Quotient(maxSize, shardCount) \in Int
  <2>1. CASE maxSize >= 0
    BY <1>1, <2>1, DivisionProperties DEF Quotient
  <2>2. CASE ~(maxSize >= 0)
    <3>1. -maxSize \in Nat
      BY <1>1, <2>2
    <3> QED BY <1>1, <2>2, <3>1, DivisionProperties DEF Quotient
  <2> QED BY <2>1, <2>2
<1> QED BY <1>2 DEF limit, ShardLimit

-----------------------------------------------------------------------------
(* What the operators of a critical section make of a shard.               *)

ItemMaps == UNION {[K -> Sizes] : K \in SUBSET Keys}

\* A map of items, by its keys and its sizes.
LEMMA ItemMapProperties ==
    ASSUME NEW f
    PROVE  f \in ItemMaps
             <=> DOMAIN f \in SUBSET Keys /\ f \in [DOMAIN f -> Sizes]
BY DEF ItemMaps

\* A shard has the fields of one.
LEMMA ShardFields ==
    ASSUME NEW s \in ShardStates
    PROVE  /\ s = [items |-> s.items, cleanups |-> s.cleanups, hits |-> s.hits,
                   misses |-> s.misses, evictions |-> s.evictions,
                   writer |-> s.writer]
           /\ s.items \in ItemMaps
           /\ DOMAIN s.items \in SUBSET Keys /\ s.items \in [DOMAIN s.items -> Sizes]
           /\ s.cleanups \in [Keys -> Nat]
           /\ s.hits \in Nat /\ s.misses \in Nat /\ s.evictions \in Nat
           /\ s.writer \in Goroutines \cup {NoGoroutine}
<1> s.items \in ItemMaps
  BY DEF ShardStates, ItemMaps
<1> QED BY ItemMapProperties DEF ShardStates

\* And is one by its fields.
LEMMA ShardByFields ==
    ASSUME NEW items \in ItemMaps, NEW cleanups \in [Keys -> Nat],
           NEW hits \in Nat, NEW misses \in Nat, NEW evictions \in Nat,
           NEW writer \in Goroutines \cup {NoGoroutine}
    PROVE  [items |-> items, cleanups |-> cleanups, hits |-> hits,
            misses |-> misses, evictions |-> evictions, writer |-> writer]
              \in ShardStates
BY DEF ShardStates, ItemMaps

\* The bytes of a shard are a number, which shrinks as keys leave.
LEMMA SizeProperties ==
    ASSUME NEW s \in ShardStates
    PROVE  /\ Size(s) \in Nat
           /\ DOMAIN s.items = {} => Size(s) = 0
<1>1. IsFiniteSet(DOMAIN s.items)
  BY ShardFields, KeysAssumption, FS_Subset
<1>2. \A k \in DOMAIN s.items : s.items[k] \in Nat
  BY ShardFields, CacheAssumption
<1>3. Size(s) \in Nat
  BY <1>1, <1>2, BytesFinite, FS_CardinalityType DEF Size
<1> QED BY <1>3, BytesNone DEF Size

\* Set.
LEMMA StoredProperties ==
    ASSUME NEW s \in ShardStates, NEW g \in Goroutines, NEW k \in Keys,
           NEW size \in Sizes, NEW t, t = Stored(s, g, k, size)
    PROVE  /\ t \in ShardStates
           /\ t.writer = g
           /\ DOMAIN t.items = DOMAIN s.items \cup {k}
<1> DEFINE x == [j \in DOMAIN s.items \cup {k} |-> IF j = k THEN size ELSE s.items[j]]
<1>1. /\ DOMAIN x = DOMAIN s.items \cup {k}
      /\ x \in ItemMaps
  <2>1. DOMAIN x = DOMAIN s.items \cup {k} /\ x \in [DOMAIN x -> Sizes]
    BY ShardFields
  <2> HIDE DEF x
  <2> QED BY <2>1, ShardFields, ItemMapProperties
<1>2. t = [s EXCEPT !.items = x, !.writer = g]
  BY DEF Stored
<1> HIDE DEF x
<1>3. t = [items |-> x, cleanups |-> s.cleanups, hits |-> s.hits,
           misses |-> s.misses, evictions |-> s.evictions, writer |-> g]
  BY <1>2, ShardFields
<1> QED BY <1>1, <1>3, ShardFields, ShardByFields

\* A key leaves.
LEMMA WithoutProperties ==
    ASSUME NEW s \in ShardStates, NEW k, NEW t, t = Without(s, k)
    PROVE  /\ t \in ShardStates
           /\ t.writer = s.writer /\ t.cleanups = s.cleanups
           /\ t.evictions = s.evictions
           /\ DOMAIN t.items = DOMAIN s.items \ {k}
           /\ Size(t) <= Size(s)
<1> DEFINE x == [j \in DOMAIN s.items \ {k} |-> s.items[j]]
<1>1. /\ DOMAIN x = DOMAIN s.items \ {k}
      /\ x \in ItemMaps
      /\ \A j \in DOMAIN s.items \ {k} : x[j] = s.items[j]
  <2>1. /\ DOMAIN x = DOMAIN s.items \ {k} /\ x \in [DOMAIN x -> Sizes]
        /\ \A j \in DOMAIN s.items \ {k} : x[j] = s.items[j]
    BY ShardFields
  <2> HIDE DEF x
  <2> QED BY <2>1, ShardFields, ItemMapProperties
<1>2. t = [s EXCEPT !.items = x]
  BY DEF Without
<1> HIDE DEF x
<1>3. t = [items |-> x, cleanups |-> s.cleanups, hits |-> s.hits,
           misses |-> s.misses, evictions |-> s.evictions, writer |-> s.writer]
  BY <1>2, ShardFields
<1>4. t \in ShardStates
  BY <1>1, <1>3, ShardFields, ShardByFields
<1>5. Size(t) <= Size(s)
  <2> DEFINE K == DOMAIN s.items
  <2>1. IsFiniteSet(K) /\ \A j \in K : s.items[j] \in Nat
    BY ShardFields, KeysAssumption, CacheAssumption, FS_Subset
  <2>2. DOMAIN t.items = K \ {k} /\ \A j \in K \ {k} : t.items[j] = s.items[j]
    BY <1>1, <1>3
  <2> HIDE DEF K
  <2>3. Bytes(t.items, K \ {k}) = Bytes(s.items, K \ {k})
    BY <2>2, BytesAgree
  <2>4. Size(t) = Cardinality(Bytes(s.items, K \ {k}))
    BY <2>2, <2>3 DEF Size
  <2>5. Size(s) = Cardinality(Bytes(s.items, K))
    BY DEF Size, K
  <2>6. Size(s) \in Nat
    BY SizeProperties
  <2>7. CASE k \in K
    <3>1. Size(t) = Size(s) - s.items[k] /\ s.items[k] \in Nat
      BY <2>1, <2>4, <2>5, <2>7, BytesRemove
    <3> QED BY <2>6, <3>1
  <2>8. CASE k \notin K
    <3>1. K \ {k} = K
      BY <2>8
    <3> QED BY <2>4, <2>5, <2>6, <3>1
  <2> QED BY <2>7, <2>8
<1> QED BY <1>1, <1>3, <1>4, <1>5

\* It leaves by an eviction.
LEMMA EvictedProperties ==
    ASSUME NEW s \in ShardStates, NEW k, NEW t, t = Evicted(s, k)
    PROVE  /\ t \in ShardStates
           /\ t.writer = s.writer
           /\ DOMAIN t.items = DOMAIN s.items \ {k}
<1> DEFINE w == Without(s, k)
<1>1. /\ w \in ShardStates /\ w.writer = s.writer
      /\ DOMAIN w.items = DOMAIN s.items \ {k}
  BY WithoutProperties
<1>2. t = [w EXCEPT !.evictions = @ + 1]
  BY DEF Evicted
<1> HIDE DEF w
<1>3. t = [items |-> w.items, cleanups |-> w.cleanups, hits |-> w.hits,
           misses |-> w.misses, evictions |-> w.evictions + 1, writer |-> w.writer]
  BY <1>1, <1>2, ShardFields
<1>4. w.evictions + 1 \in Nat
  BY <1>1, ShardFields
<1>5. t \in ShardStates
  BY <1>1, <1>3, <1>4, ShardFields DEF ShardStates, ItemMaps
<1> QED BY <1>1, <1>3, <1>5

\* By a cleanup.
LEMMA CleanedUpProperties ==
    ASSUME NEW s \in ShardStates, NEW k \in Keys, s.cleanups[k] > 0,
           NEW t, t = CleanedUp(s, k)
    PROVE  /\ t \in ShardStates
           /\ t.writer = s.writer
           /\ DOMAIN t.items = DOMAIN s.items \ {k}
           /\ Size(t) <= Size(s)
<1> DEFINE w == Without(s, k)
           less == [s.cleanups EXCEPT ![k] = @ - 1]
<1>1. /\ w \in ShardStates /\ w.writer = s.writer /\ w.cleanups = s.cleanups
      /\ DOMAIN w.items = DOMAIN s.items \ {k}
      /\ Size(w) <= Size(s)
  BY WithoutProperties
<1>2. t = [w EXCEPT !.cleanups = [w.cleanups EXCEPT ![k] = @ - 1]]
  BY DEF CleanedUp
<1>3. less \in [Keys -> Nat]
  BY ShardFields
<1> HIDE DEF w
<1>4. t = [w EXCEPT !.cleanups = less]
  BY <1>1, <1>2
<1> HIDE DEF less
<1>5. t = [items |-> w.items, cleanups |-> less, hits |-> w.hits,
           misses |-> w.misses, evictions |-> w.evictions, writer |-> w.writer]
  BY <1>1, <1>4, ShardFields
<1>6. Size(t) = Size(w)
  BY <1>5 DEF Size
<1> QED BY <1>1, <1>3, <1>5, <1>6, ShardFields, ShardByFields

\* The items stay: the lock is given back.
LEMMA UnlockedProperties ==
    ASSUME NEW s \in ShardStates, NEW t, t = Unlocked(s)
    PROVE  t \in ShardStates /\ t.writer = NoGoroutine /\ t.items = s.items
<1>1. t = [items |-> s.items, cleanups |-> s.cleanups, hits |-> s.hits,
           misses |-> s.misses, evictions |-> s.evictions, writer |-> NoGoroutine]
  BY ShardFields DEF Unlocked
<1> QED BY <1>1, ShardFields, ShardByFields

\* A cleanup is started.
LEMMA StartedProperties ==
    ASSUME NEW s \in ShardStates, NEW k \in Keys, NEW t, t = CleanupStarted(s, k)
    PROVE  t \in ShardStates /\ t.writer = s.writer /\ t.items = s.items
<1> DEFINE more == [s.cleanups EXCEPT ![k] = @ + 1]
<1>1. more \in [Keys -> Nat]
  BY ShardFields
<1>2. t = [s EXCEPT !.cleanups = more]
  BY DEF CleanupStarted
<1> HIDE DEF more
<1>3. t = [items |-> s.items, cleanups |-> more, hits |-> s.hits,
           misses |-> s.misses, evictions |-> s.evictions, writer |-> s.writer]
  BY <1>2, ShardFields
<1> QED BY <1>1, <1>3, ShardFields, ShardByFields

\* A Get counts.
LEMMA CountedProperties ==
    ASSUME NEW s \in ShardStates, NEW hit \in BOOLEAN, NEW t, t = Counted(s, hit)
    PROVE  t \in ShardStates /\ t.writer = s.writer /\ t.items = s.items
<1>1. \/ t = [items |-> s.items, cleanups |-> s.cleanups, hits |-> s.hits + 1,
              misses |-> s.misses, evictions |-> s.evictions, writer |-> s.writer]
      \/ t = [items |-> s.items, cleanups |-> s.cleanups, hits |-> s.hits,
              misses |-> s.misses + 1, evictions |-> s.evictions, writer |-> s.writer]
  BY ShardFields DEF Counted
<1>2. s.hits + 1 \in Nat /\ s.misses + 1 \in Nat
  BY ShardFields
<1> QED BY <1>1, <1>2, ShardFields, ShardByFields

\* An empty shard, and Clear.
LEMMA ClearedProperties ==
    /\ NewShard \in ShardStates /\ NewShard.writer = NoGoroutine
    /\ DOMAIN NewShard.items = {}
    /\ \A s \in ShardStates : /\ Cleared(s) \in ShardStates
                              /\ Cleared(s).writer = NoGoroutine
                              /\ DOMAIN Cleared(s).items = {}
<1>1. <<>> \in ItemMaps /\ DOMAIN <<>> = {}
  <2>1. DOMAIN <<>> = {} /\ <<>> \in [{} -> Sizes]
    OBVIOUS
  <2> QED BY <2>1, Zenon DEF ItemMaps
<1>2. NewShard \in ShardStates
  BY <1>1, ShardByFields DEF NewShard
<1>3. /\ NewShard.writer = NoGoroutine /\ NewShard.items = <<>>
  BY DEF NewShard
<1> DEFINE none == <<>>
<1>4. ASSUME NEW s \in ShardStates
      PROVE  Cleared(s) = [items |-> none, cleanups |-> s.cleanups, hits |-> 0,
                           misses |-> 0, evictions |-> 0, writer |-> NoGoroutine]
  BY DEF Cleared, NewShard
<1>5. ASSUME NEW s \in ShardStates PROVE Cleared(s) \in ShardStates
  <2>1. none \in ItemMaps
    BY <1>1
  <2> HIDE DEF none
  <2>2. s.cleanups \in [Keys -> Nat]
    BY ShardFields
  <2> QED BY <1>4, <2>1, <2>2 DEF ShardStates, ItemMaps
<1> QED BY <1>1, <1>2, <1>3, <1>4, <1>5

-----------------------------------------------------------------------------
(* The invariant.                                                          *)

\* A shard is locked by the Set that is inside, and by no other.
LockHeld ==
    /\ \A g \in Goroutines :
          call[g].pc = "evict" => shards[call[g].shard].writer = g
    /\ \A i \in Shards :
          shards[i].writer # NoGoroutine
             => LET g == shards[i].writer
                IN  call[g].pc = "evict" /\ call[g].shard = i

\* A shard that nobody has locked is within its part of the limit.
FreeShardsFit == \A i \in Shards : Free(shards[i]) => ~Over(shards[i], limit)

\* What is in the shards a Clear has passed was stored during it.
SweptShardsAreNewer ==
    \A g \in Goroutines :
        call[g].pc = "clear"
            => \A i \in Shards : i < call[g].next
                  => DOMAIN shards[i].items \subseteq during[g].stored

\* A Stats that reads the sizes of a shard is at one, and what it has added up
\* is within the limits of those before.
TotalsFit ==
    \A g \in Goroutines :
        /\ call[g].pc = "sizes" => call[g].next \in Shards
        /\ call[g].pc \in {"counters", "sizes"} /\ maxSize > 0
              => call[g].total.size <= call[g].next * limit

CInv == TypeOK /\ LockHeld /\ FreeShardsFit /\ SweptShardsAreNewer /\ TotalsFit

-----------------------------------------------------------------------------
(* Calls.                                                                  *)

\* What a frame holds, by where the call is.
LEMMA FrameKinds ==
    ASSUME NEW fr \in Frames
    PROVE  /\ fr.pc = "idle" => fr = Idle
           /\ fr.pc = "evict" => fr = [pc |-> "evict", shard |-> fr.shard]
                                 /\ fr.shard \in Shards
           /\ fr.pc = "count" => /\ fr = [pc |-> "count", key |-> fr.key, hit |-> fr.hit]
                                 /\ fr.key \in Keys /\ fr.hit \in BOOLEAN
           /\ fr.pc = "clear" => /\ fr = [pc |-> "clear", next |-> fr.next]
                                 /\ fr.next \in 0 .. shardCount
           /\ fr.pc \in {"counters", "sizes"}
                 => /\ fr = [pc |-> fr.pc, next |-> fr.next, total |-> fr.total]
                    /\ fr.next \in 0 .. shardCount /\ fr.total \in Totals
BY DEF Frames, Idle

\* The shard a call is at.
LEMMA ShardNumbers ==
    /\ \A i \in Shards : i \in Nat /\ i < shardCount /\ i + 1 \in 0 .. shardCount
    /\ \A i \in 0 .. shardCount : i \in Nat /\ (i \in Shards \/ i = shardCount)
    /\ 0 \in 0 .. shardCount /\ 0 \in Shards
    /\ Shards \subseteq 0 .. shardCount
BY ShardOfKey DEF Shards

\* A sweep remembers the keys stored meanwhile.
LEMMA ObservedProperties ==
    ASSUME TypeOK, NEW K \in SUBSET Keys, Observed(K)
    PROVE  /\ during' \in [Goroutines -> Observations]
           /\ \A g \in Goroutines :
                 Sweeping(g) => during'[g].stored = during[g].stored \cup K
<1>1. \A g \in Goroutines :
         Sweeping(g)
            => during'[g] = [stored |-> during[g].stored \cup K,
                             empty  |-> during[g].empty \/ StoredKeys' = {},
                             quiet  |-> during[g].quiet /\ \A i \in Shards : Unchanged(i)]
  BY DEF Observed
<1>2. \A g \in Goroutines : ~Sweeping(g) => during'[g] = during[g]
  BY DEF Observed
<1>3. \A g \in Goroutines : during[g] \in Observations
  BY DEF TypeOK
<1>4. ASSUME NEW g \in Goroutines PROVE during'[g] \in Observations
  <2>1. CASE Sweeping(g)
    <3> DEFINE a == during[g].empty \/ StoredKeys' = {}
               b == during[g].quiet /\ \A i \in Shards : Unchanged(i)
    <3>1. a \in BOOLEAN /\ b \in BOOLEAN
      OBVIOUS
    <3>2. during[g].stored \cup K \in SUBSET Keys
      BY <1>3 DEF Observations
    <3>3. during'[g] = [stored |-> during[g].stored \cup K, empty |-> a, quiet |-> b]
      BY <1>1, <2>1
    <3> HIDE DEF a, b
    <3> QED BY <3>1, <3>2, <3>3 DEF Observations
  <2>2. CASE ~Sweeping(g)
    BY <1>2, <1>3, <2>2
  <2> QED BY <2>1, <2>2
<1>5. during' = [g \in Goroutines |-> during'[g]]
  BY DEF Observed
<1> QED BY <1>1, <1>4, <1>5

\* A shard that is moved moves alone.
LEMMA OneShard ==
    ASSUME TypeOK, NEW i \in Shards, NEW t \in ShardStates,
           shards' = [shards EXCEPT ![i] = t]
    PROVE  /\ shards[i] \in ShardStates
           /\ shards' \in [Shards -> ShardStates]
           /\ shards'[i] = t
           /\ \A j \in Shards : j # i => shards'[j] = shards[j]
BY DEF TypeOK

\* The lock of a shard is with the same Set, if the step is none of a Set's.
LEMMA LockKept ==
    ASSUME TypeOK, LockHeld, call' \in [Goroutines -> Frames],
           \A j \in Shards : shards'[j].writer = shards[j].writer,
           \A h \in Goroutines :
              \/ call'[h] = call[h]
              \/ call'[h].pc # "evict" /\ call[h].pc # "evict"
    PROVE  LockHeld'
<1>1. ASSUME NEW h \in Goroutines, call'[h].pc = "evict"
      PROVE  shards'[call'[h].shard].writer = h
  <2>1. call'[h] = call[h] /\ call[h].shard \in Shards
    BY <1>1, FrameKinds DEF TypeOK
  <2> QED BY <1>1, <2>1 DEF LockHeld
<1>2. ASSUME NEW j \in Shards, shards'[j].writer # NoGoroutine
      PROVE  LET h == shards'[j].writer
             IN  call'[h].pc = "evict" /\ call'[h].shard = j
  <2> DEFINE h == shards[j].writer
  <2>1. shards[j] \in ShardStates
    BY DEF TypeOK
  <2>2. h \in Goroutines
    BY <1>2, <2>1, ShardFields
  <2>3. call[h].pc = "evict" /\ call[h].shard = j
    BY <1>2 DEF LockHeld
  <2> QED BY <2>2, <2>3
<1> QED BY <1>1, <1>2 DEF LockHeld

\* A step on one shard: it puts no key there but those in K, leaves the shard
\* locked or within its limit, and moves a Clear over it only if it is empty now.
LEMMA ShardStep ==
    ASSUME CInv, NEW i \in Shards, NEW t \in ShardStates, NEW K \in SUBSET Keys,
           shards' = [shards EXCEPT ![i] = t],
           during' \in [Goroutines -> Observations],
           \A g \in Goroutines :
              Sweeping(g) => during'[g].stored = during[g].stored \cup K,
           maxSize' = maxSize, ops' \in Nat, call' \in [Goroutines -> Frames],
           \A g \in Goroutines :
              \/ call'[g] = call[g]
              \/ call'[g].pc \in {"idle", "evict", "count"}
              \/ /\ call[g].pc = "clear" /\ call'[g].pc = "clear"
                 /\ call[g].next = i /\ call'[g].next = i + 1
                 /\ DOMAIN t.items = {},
           Free(t) => ~Over(t, limit),
           DOMAIN t.items \subseteq DOMAIN shards[i].items \cup K,
           LockHeld'
    PROVE  CInv'
<1>1. /\ shards' \in [Shards -> ShardStates]
      /\ shards'[i] = t
      /\ \A j \in Shards : j # i => shards'[j] = shards[j]
  BY OneShard DEF CInv
<1>2. TypeOK'
  BY <1>1 DEF CInv, TypeOK
<1>3. limit' = limit
  BY DEF limit
<1>4. FreeShardsFit'
  <2> SUFFICES ASSUME NEW j \in Shards, Free(shards'[j])
               PROVE  ~Over(shards'[j], limit')
    BY DEF FreeShardsFit
  <2> QED BY <1>1, <1>3 DEF CInv, FreeShardsFit
<1>5. SweptShardsAreNewer'
  <2> SUFFICES ASSUME NEW g \in Goroutines, call'[g].pc = "clear",
                      NEW j \in Shards, j < call'[g].next
               PROVE  DOMAIN shards'[j].items \subseteq during'[g].stored
    BY DEF SweptShardsAreNewer
  <2>1. call[g].pc = "clear" /\ Sweeping(g)
    BY DEF Sweeping
  <2>2. during'[g].stored = during[g].stored \cup K
    BY <2>1
  <2>3. CASE j < call[g].next
    <3>1. DOMAIN shards[j].items \subseteq during[g].stored
      BY <2>1, <2>3 DEF CInv, SweptShardsAreNewer
    <3> QED BY <1>1, <2>2, <3>1
  <2>4. CASE ~(j < call[g].next)
    <3>1. call[g].next = i /\ call'[g].next = i + 1 /\ DOMAIN t.items = {}
      BY <2>4
    <3>2. j = i
      BY <2>4, <3>1, ShardNumbers
    <3> QED BY <1>1, <3>1, <3>2
  <2> QED BY <2>3, <2>4
<1>6. TotalsFit'
  <2> SUFFICES ASSUME NEW g \in Goroutines
               PROVE  /\ call'[g].pc = "sizes" => call'[g].next \in Shards
                      /\ call'[g].pc \in {"counters", "sizes"} /\ maxSize > 0
                            => call'[g].total.size <= call'[g].next * limit
    BY <1>3 DEF TotalsFit
  <2>1. CASE call'[g] = call[g]
    BY <2>1 DEF CInv, TotalsFit
  <2>2. CASE call'[g].pc \in {"idle", "evict", "count", "clear"}
    BY <2>2
  <2> QED BY <2>1, <2>2
<1> QED BY <1>2, <1>4, <1>5, <1>6 DEF CInv

\* A step of one call that changes no shard.
LEMMA CallStep ==
    ASSUME CInv, NEW g \in Goroutines, NEW fr \in Frames,
           call' = [call EXCEPT ![g] = fr], shards' = shards, maxSize' = maxSize,
           ops' \in Nat, during' \in [Goroutines -> Observations],
           \A h \in Goroutines : h # g => during'[h] = during[h],
           call[g].pc # "evict", fr.pc # "evict",
           fr.pc = "clear" => fr.next = 0,
           fr.pc = "sizes" => fr.next \in Shards,
           fr.pc \in {"counters", "sizes"} /\ maxSize > 0
              => fr.total.size <= fr.next * limit
    PROVE  CInv'
<1>1. /\ call' \in [Goroutines -> Frames]
      /\ call'[g] = fr
      /\ \A h \in Goroutines : h # g => call'[h] = call[h]
  BY DEF CInv, TypeOK
<1>2. TypeOK'
  BY <1>1 DEF CInv, TypeOK
<1>3. LockHeld'
  BY <1>1, LockKept DEF CInv
<1>4. limit' = limit
  BY DEF limit
<1>5. FreeShardsFit'
  BY <1>4 DEF CInv, FreeShardsFit
<1>6. SweptShardsAreNewer'
  <2> SUFFICES ASSUME NEW h \in Goroutines, call'[h].pc = "clear",
                      NEW j \in Shards, j < call'[h].next
               PROVE  DOMAIN shards[j].items \subseteq during'[h].stored
    BY DEF SweptShardsAreNewer
  <2>1. CASE h = g
    BY <1>1, <2>1, ShardNumbers
  <2>2. CASE h # g
    BY <1>1, <2>2 DEF CInv, SweptShardsAreNewer
  <2> QED BY <2>1, <2>2
<1>7. TotalsFit'
  <2> SUFFICES ASSUME NEW h \in Goroutines
               PROVE  /\ call'[h].pc = "sizes" => call'[h].next \in Shards
                      /\ call'[h].pc \in {"counters", "sizes"} /\ maxSize > 0
                            => call'[h].total.size <= call'[h].next * limit
    BY <1>4 DEF TotalsFit
  <2> QED BY <1>1 DEF CInv, TotalsFit
<1> QED BY <1>2, <1>3, <1>5, <1>6, <1>7 DEF CInv

-----------------------------------------------------------------------------
(* Steps on one shard.                                                     *)

\* A Set locks the shard it stores in.
LEMMA SetInv ==
    ASSUME HashCount <= IntHalf, CInv, NEW g \in Goroutines, NEW k \in Keys,
           NEW size \in Sizes, Set(g, k, size)
    PROVE  CInv'
<1> DEFINE i == getShard(k)
           t == Stored(shards[i], g, k, size)
           fr == [pc |-> "evict", shard |-> i]
<1>1. i \in Shards
  BY ShardOfKey
<1> HIDE DEF i
<1>2. /\ call[g] = Idle /\ ops' = ops + 1 /\ maxSize' = maxSize
      /\ shards[i].writer = NoGoroutine
      /\ shards' = [shards EXCEPT ![i] = t]
      /\ call' = [call EXCEPT ![g] = fr]
      /\ Observed({k})
  BY DEF Set, Start, Free, i
<1>3. shards[i] \in ShardStates /\ ops' \in Nat /\ call \in [Goroutines -> Frames]
  BY <1>1, <1>2 DEF CInv, TypeOK
<1>4. t \in ShardStates /\ t.writer = g /\ DOMAIN t.items = DOMAIN shards[i].items \cup {k}
  BY <1>3, StoredProperties
<1> HIDE DEF t
<1>5. fr \in Frames /\ fr.pc = "evict" /\ fr.shard = i
  BY <1>1 DEF Frames
<1> HIDE DEF fr
<1>6. /\ call' \in [Goroutines -> Frames]
      /\ call'[g] = fr /\ \A h \in Goroutines : h # g => call'[h] = call[h]
  BY <1>2, <1>3, <1>5
<1>7. /\ shards'[i] = t
      /\ \A j \in Shards : j # i => shards'[j] = shards[j]
  BY <1>1, <1>2, <1>4, OneShard DEF CInv
<1>8. LockHeld'
  <2>1. ASSUME NEW h \in Goroutines, call'[h].pc = "evict"
        PROVE  shards'[call'[h].shard].writer = h
    <3>1. CASE h = g
      BY <1>4, <1>5, <1>6, <1>7, <3>1
    <3>2. CASE h # g
      <4>1. /\ call'[h] = call[h] /\ call[h].shard \in Shards
            /\ shards[call[h].shard].writer = h
        BY <1>3, <1>6, <2>1, <3>2, FrameKinds DEF CInv, LockHeld
      <4>2. call[h].shard # i
        BY <1>2, <4>1, CacheAssumption
      <4> QED BY <1>7, <4>1, <4>2
    <3> QED BY <3>1, <3>2
  <2>2. ASSUME NEW j \in Shards, shards'[j].writer # NoGoroutine
        PROVE  LET h == shards'[j].writer
               IN  call'[h].pc = "evict" /\ call'[h].shard = j
    <3>1. CASE j = i
      BY <1>4, <1>5, <1>6, <1>7, <3>1
    <3>2. CASE j # i
      <4> DEFINE h == shards[j].writer
      <4>1. shards[j] \in ShardStates /\ shards'[j] = shards[j]
        BY <1>7, <3>2 DEF CInv, TypeOK
      <4>2. h \in Goroutines
        BY <2>2, <4>1, ShardFields
      <4>3. call[h].pc = "evict" /\ call[h].shard = j
        BY <2>2, <4>1 DEF CInv, LockHeld
      <4>4. h # g
        BY <1>2, <4>3 DEF Idle
      <4> QED BY <1>6, <4>1, <4>2, <4>3, <4>4
    <3> QED BY <3>1, <3>2
  <2> QED BY <2>1, <2>2 DEF LockHeld
<1>9. ~Free(t)
  BY <1>4, CacheAssumption DEF Free
<1>10. /\ during' \in [Goroutines -> Observations]
       /\ \A h \in Goroutines :
             Sweeping(h) => during'[h].stored = during[h].stored \cup {k}
  BY <1>2, ObservedProperties DEF CInv
<1>11. \A h \in Goroutines :
          call'[h] = call[h] \/ call'[h].pc \in {"idle", "evict", "count"}
  BY <1>5, <1>6
<1>12. {k} \in SUBSET Keys
  OBVIOUS
<1> QED BY <1>1, <1>2, <1>3, <1>4, <1>6, <1>8, <1>9, <1>10, <1>11, <1>12, ShardStep

\* It evicts while it holds the lock.
LEMMA EvictOneInv ==
    ASSUME CInv, NEW g \in Goroutines, EvictOne(g)
    PROVE  CInv'
<1> DEFINE i == call[g].shard
<1>1. /\ call[g].pc = "evict"
      /\ UNCHANGED <<maxSize, call, ops>>
      /\ Observed({})
  BY DEF EvictOne
<1>2. i \in Shards /\ shards[i] \in ShardStates /\ shards[i].writer = g
  BY <1>1, FrameKinds DEF CInv, TypeOK, LockHeld
<1>3. PICK k \in DOMAIN shards[i].items :
         shards' = [shards EXCEPT ![i] = Evicted(shards[i], k)]
  BY DEF EvictOne
<1> DEFINE t == Evicted(shards[i], k)
<1> HIDE DEF i
<1>4. t \in ShardStates /\ t.writer = g /\ DOMAIN t.items \subseteq DOMAIN shards[i].items
  BY <1>2, EvictedProperties
<1>5. shards' = [shards EXCEPT ![i] = t]
  BY <1>3
<1> HIDE DEF t
<1>6. LockHeld'
  <2>1. \A j \in Shards : shards'[j].writer = shards[j].writer
    BY <1>2, <1>4, <1>5, OneShard DEF CInv
  <2>2. call' = call /\ call' \in [Goroutines -> Frames]
    BY <1>1 DEF CInv, TypeOK
  <2> QED BY <2>1, <2>2, LockKept DEF CInv
<1>7. ~Free(t)
  BY <1>4, CacheAssumption DEF Free
<1>8. {} \in SUBSET Keys
  OBVIOUS
<1>9. /\ during' \in [Goroutines -> Observations]
      /\ \A h \in Goroutines :
            Sweeping(h) => during'[h].stored = during[h].stored \cup {}
  BY <1>1, <1>8, ObservedProperties DEF CInv
<1>10. call' = call /\ maxSize' = maxSize /\ ops' \in Nat /\ call' \in [Goroutines -> Frames]
  BY <1>1 DEF CInv, TypeOK
<1>11. DOMAIN t.items \subseteq DOMAIN shards[i].items \cup {}
  BY <1>4
<1> QED BY <1>2, <1>4, <1>5, <1>6, <1>7, <1>8, <1>9, <1>10, <1>11, ShardStep

\* It gives the lock back when the shard is within its limit.
LEMMA SetReturnInv ==
    ASSUME CInv, NEW g \in Goroutines, SetReturn(g)
    PROVE  CInv'
<1> DEFINE i == call[g].shard
           t == Unlocked(shards[i])
<1>1. /\ call[g].pc = "evict"
      /\ ~Over(shards[i], limit)
      /\ shards' = [shards EXCEPT ![i] = t]
      /\ call' = [call EXCEPT ![g] = Idle]
      /\ UNCHANGED <<maxSize, ops, during>>
  BY DEF SetReturn
<1>2. i \in Shards /\ shards[i] \in ShardStates /\ shards[i].writer = g
  BY <1>1, FrameKinds DEF CInv, TypeOK, LockHeld
<1> HIDE DEF i
<1>3. t \in ShardStates /\ t.writer = NoGoroutine /\ t.items = shards[i].items
  BY <1>2, UnlockedProperties
<1> HIDE DEF t
<1>4. Idle \in Frames /\ Idle.pc = "idle" /\ call \in [Goroutines -> Frames]
  BY DEF Frames, Idle, CInv, TypeOK
<1>5. /\ call' \in [Goroutines -> Frames]
      /\ call'[g].pc = "idle" /\ \A h \in Goroutines : h # g => call'[h] = call[h]
  BY <1>1, <1>4
<1>6. /\ shards'[i] = t
      /\ \A j \in Shards : j # i => shards'[j] = shards[j]
  BY <1>1, <1>2, <1>3, OneShard DEF CInv
<1>7. LockHeld'
  <2>1. ASSUME NEW h \in Goroutines, call'[h].pc = "evict"
        PROVE  shards'[call'[h].shard].writer = h
    <3>1. h # g /\ call'[h] = call[h]
      BY <1>5, <2>1
    <3>2. call[h].shard \in Shards /\ shards[call[h].shard].writer = h
      BY <1>4, <2>1, <3>1, FrameKinds DEF CInv, LockHeld
    <3>3. call[h].shard # i
      BY <1>2, <3>1, <3>2
    <3> QED BY <1>6, <3>1, <3>2, <3>3
  <2>2. ASSUME NEW j \in Shards, shards'[j].writer # NoGoroutine
        PROVE  LET h == shards'[j].writer
               IN  call'[h].pc = "evict" /\ call'[h].shard = j
    <3> DEFINE h == shards[j].writer
    <3>1. j # i /\ shards'[j] = shards[j] /\ shards[j] \in ShardStates
      BY <1>3, <1>6, <2>2 DEF CInv, TypeOK
    <3>2. h \in Goroutines
      BY <2>2, <3>1, ShardFields
    <3>3. call[h].pc = "evict" /\ call[h].shard = j
      BY <2>2, <3>1 DEF CInv, LockHeld
    <3>4. h # g
      BY <3>1, <3>3 DEF i
    <3> QED BY <1>5, <3>1, <3>2, <3>3, <3>4
  <2> QED BY <2>1, <2>2 DEF LockHeld
<1>8. ~Over(t, limit)
  <2>1. Size(t) = Size(shards[i])
    BY <1>3 DEF Size
  <2> QED BY <1>1, <2>1 DEF Over, i
<1>9. \A h \in Goroutines :
         call'[h] = call[h] \/ call'[h].pc \in {"idle", "evict", "count"}
  BY <1>5
<1>10. /\ during' \in [Goroutines -> Observations]
       /\ \A h \in Goroutines :
             Sweeping(h) => during'[h].stored = during[h].stored \cup {}
       /\ maxSize' = maxSize /\ ops' \in Nat
  BY <1>1 DEF CInv, TypeOK
<1>11. {} \in SUBSET Keys /\ DOMAIN t.items \subseteq DOMAIN shards[i].items \cup {}
  BY <1>3
<1> QED BY <1>1, <1>2, <1>3, <1>5, <1>7, <1>8, <1>9, <1>10, <1>11, ShardStep

\* A step on a shard that is no Set's: the lock stays as it is, and the shard gets
\* no bigger.
LEMMA OtherStep ==
    ASSUME CInv, NEW i \in Shards, NEW t \in ShardStates,
           shards' = [shards EXCEPT ![i] = t],
           t.writer = shards[i].writer, Size(t) <= Size(shards[i]),
           DOMAIN t.items \subseteq DOMAIN shards[i].items,
           during' = during \/ Observed({}),
           maxSize' = maxSize, ops' \in Nat, call' \in [Goroutines -> Frames],
           \A g \in Goroutines :
              \/ call'[g] = call[g]
              \/ call[g].pc = "count" /\ call'[g].pc \in {"idle", "count"}
              \/ /\ call[g].pc = "clear" /\ call'[g].pc = "clear"
                 /\ call[g].next = i /\ call'[g].next = i + 1
                 /\ DOMAIN t.items = {}
    PROVE  CInv'
<1>1. LockHeld'
  <2>1. \A j \in Shards : shards'[j].writer = shards[j].writer
    BY OneShard DEF CInv
  <2> QED BY <2>1, LockKept DEF CInv
<1>2. Free(t) => ~Over(t, limit)
  <2>1. shards[i] \in ShardStates
    BY OneShard DEF CInv
  <2>2. Size(t) \in Nat /\ Size(shards[i]) \in Nat
    BY <2>1, SizeProperties
  <2>3. Free(t) => ~Over(shards[i], limit)
    BY DEF CInv, FreeShardsFit, Free
  <2>4. limit \in Int
    BY LimitIsNumber DEF CInv, TypeOK
  <2> QED BY <2>2, <2>3, <2>4 DEF Over
<1>3. {} \in SUBSET Keys /\ DOMAIN t.items \subseteq DOMAIN shards[i].items \cup {}
  OBVIOUS
<1>4. /\ during' \in [Goroutines -> Observations]
      /\ \A h \in Goroutines :
            Sweeping(h) => during'[h].stored = during[h].stored \cup {}
  BY <1>3, ObservedProperties DEF CInv, TypeOK
<1>5. \A g \in Goroutines :
         \/ call'[g] = call[g]
         \/ call'[g].pc \in {"idle", "evict", "count"}
         \/ /\ call[g].pc = "clear" /\ call'[g].pc = "clear"
            /\ call[g].next = i /\ call'[g].next = i + 1
            /\ DOMAIN t.items = {}
  OBVIOUS
<1> QED BY <1>1, <1>2, <1>3, <1>4, <1>5, ShardStep

\* A Get that found its key, and then that it is expired.
LEMMA MissFrame ==
    ASSUME NEW fr \in Frames, fr.pc = "count",
           NEW to, to = [fr EXCEPT !.hit = FALSE]
    PROVE  to = [pc |-> "count", key |-> fr.key, hit |-> FALSE]
<1>1. PICK key \in Keys, hit \in BOOLEAN : fr = [pc |-> "count", key |-> key, hit |-> hit]
  BY FrameKinds
<1> QED BY <1>1

\* A Get that finds its item expired starts a cleanup.
LEMMA GetExpiredInv ==
    ASSUME HashCount <= IntHalf, CInv, NEW g \in Goroutines, GetExpired(g)
    PROVE  CInv'
<1> DEFINE k == call[g].key
           i == getShard(k)
           t == CleanupStarted(shards[i], k)
           fr == [call[g] EXCEPT !.hit = FALSE]
<1>1. /\ call[g].pc = "count"
      /\ shards' = [shards EXCEPT ![i] = t]
      /\ call' = [call EXCEPT ![g] = fr]
      /\ UNCHANGED <<maxSize, ops, during>>
  BY DEF GetExpired
<1>2. call \in [Goroutines -> Frames] /\ ops' \in Nat /\ maxSize' = maxSize
  BY <1>1 DEF CInv, TypeOK
<1>3. k \in Keys /\ call[g] = [pc |-> "count", key |-> k, hit |-> call[g].hit]
  BY <1>1, <1>2, FrameKinds
<1>4. fr \in Frames /\ fr.pc = "count"
  <2>1. call[g] \in Frames
    BY <1>2
  <2>2. fr = [pc |-> "count", key |-> k, hit |-> FALSE]
    BY <1>1, <2>1, MissFrame
  <2> HIDE DEF fr, k
  <2> QED BY <1>3, <2>2 DEF Frames
<1> HIDE DEF fr
<1>5. i \in Shards /\ shards[i] \in ShardStates
  BY <1>3, ShardOfKey DEF CInv, TypeOK
<1> HIDE DEF i, k
<1>6. t \in ShardStates /\ t.writer = shards[i].writer /\ t.items = shards[i].items
  BY <1>3, <1>5, StartedProperties
<1> HIDE DEF t
<1>7. Size(t) <= Size(shards[i])
  BY <1>5, <1>6, SizeProperties DEF Size
<1>8. /\ call' \in [Goroutines -> Frames]
      /\ \A h \in Goroutines :
            \/ call'[h] = call[h]
            \/ call[h].pc = "count" /\ call'[h].pc \in {"idle", "count"}
  BY <1>1, <1>2, <1>4
<1> QED BY <1>1, <1>2, <1>5, <1>6, <1>7, <1>8, OtherStep

\* A Get counts.
LEMMA GetCountInv ==
    ASSUME HashCount <= IntHalf, CInv, NEW g \in Goroutines, GetCount(g)
    PROVE  CInv'
<1> DEFINE i == getShard(call[g].key)
           t == Counted(shards[i], call[g].hit)
<1>1. /\ call[g].pc = "count"
      /\ shards' = [shards EXCEPT ![i] = t]
      /\ call' = [call EXCEPT ![g] = Idle]
      /\ UNCHANGED <<maxSize, ops>>
      /\ Observed({})
  BY DEF GetCount
<1>2. call \in [Goroutines -> Frames] /\ ops' \in Nat /\ maxSize' = maxSize
  BY <1>1 DEF CInv, TypeOK
<1>3. call[g].key \in Keys /\ call[g].hit \in BOOLEAN
  BY <1>1, <1>2, FrameKinds
<1>4. Idle \in Frames /\ Idle.pc = "idle"
  BY DEF Frames, Idle
<1>5. i \in Shards /\ shards[i] \in ShardStates
  BY <1>3, ShardOfKey DEF CInv, TypeOK
<1> HIDE DEF i
<1>6. t \in ShardStates /\ t.writer = shards[i].writer /\ t.items = shards[i].items
  BY <1>3, <1>5, CountedProperties
<1> HIDE DEF t
<1>7. Size(t) <= Size(shards[i])
  BY <1>5, <1>6, SizeProperties DEF Size
<1>8. /\ call' \in [Goroutines -> Frames]
      /\ \A h \in Goroutines :
            \/ call'[h] = call[h]
            \/ call[h].pc = "count" /\ call'[h].pc \in {"idle", "count"}
  BY <1>1, <1>2, <1>4
<1> QED BY <1>1, <1>2, <1>5, <1>6, <1>7, <1>8, OtherStep

\* A caller's Delete.
LEMMA DeleteInv ==
    ASSUME HashCount <= IntHalf, CInv, NEW g \in Goroutines, NEW k \in Keys,
           Delete(g, k)
    PROVE  CInv'
<1> DEFINE i == getShard(k)
           t == Without(shards[i], k)
<1>1. i \in Shards /\ shards[i] \in ShardStates
  BY ShardOfKey DEF CInv, TypeOK
<1>2. /\ shards' = [shards EXCEPT ![i] = t]
      /\ call' = call /\ call' \in [Goroutines -> Frames]
      /\ ops' \in Nat /\ maxSize' = maxSize
      /\ Observed({})
  BY DEF Delete, Start, CInv, TypeOK
<1> HIDE DEF i
<1>3. /\ t \in ShardStates /\ t.writer = shards[i].writer
      /\ DOMAIN t.items \subseteq DOMAIN shards[i].items
      /\ Size(t) <= Size(shards[i])
  BY <1>1, WithoutProperties
<1> HIDE DEF t
<1> QED BY <1>1, <1>2, <1>3, OtherStep

\* A cleanup's.
LEMMA CleanupInv ==
    ASSUME HashCount <= IntHalf, CInv, NEW k \in Keys, Cleanup(k)
    PROVE  CInv'
<1> DEFINE i == getShard(k)
           t == CleanedUp(shards[i], k)
<1>1. i \in Shards /\ shards[i] \in ShardStates
  BY ShardOfKey DEF CInv, TypeOK
<1>2. /\ shards' = [shards EXCEPT ![i] = t]
      /\ shards[i].cleanups[k] > 0
      /\ call' = call /\ call' \in [Goroutines -> Frames]
      /\ ops' \in Nat /\ maxSize' = maxSize
      /\ Observed({})
  BY DEF Cleanup, CInv, TypeOK
<1> HIDE DEF i
<1>3. /\ t \in ShardStates /\ t.writer = shards[i].writer
      /\ DOMAIN t.items \subseteq DOMAIN shards[i].items
      /\ Size(t) <= Size(shards[i])
  BY <1>1, <1>2, CleanedUpProperties
<1> HIDE DEF t
<1> QED BY <1>1, <1>2, <1>3, OtherStep

\* A Clear empties the shard it is at, and moves on.
LEMMA ClearShardInv ==
    ASSUME CInv, NEW g \in Goroutines, ClearShard(g)
    PROVE  CInv'
<1> DEFINE i == call[g].next
           t == Cleared(shards[i])
           fr == [call[g] EXCEPT !.next = @ + 1]
<1>1. /\ call[g].pc = "clear"
      /\ i \in Shards
      /\ shards[i].writer = NoGoroutine
      /\ shards' = [shards EXCEPT ![i] = t]
      /\ call' = [call EXCEPT ![g] = fr]
      /\ UNCHANGED <<maxSize, ops>>
      /\ Observed({})
  BY DEF ClearShard, Free
<1>2. /\ call \in [Goroutines -> Frames] /\ ops' \in Nat /\ maxSize' = maxSize
      /\ shards[i] \in ShardStates
  BY <1>1 DEF CInv, TypeOK
<1>3. call[g] = [pc |-> "clear", next |-> i] /\ i + 1 \in 0 .. shardCount
  BY <1>1, <1>2, FrameKinds, ShardNumbers
<1>4. fr \in Frames /\ fr.pc = "clear" /\ fr.next = i + 1
  BY <1>3 DEF Frames
<1> HIDE DEF fr
<1>5. t \in ShardStates /\ t.writer = shards[i].writer /\ DOMAIN t.items = {}
  BY <1>1, <1>2, ClearedProperties
<1> HIDE DEF t
<1>6. Size(t) <= Size(shards[i])
  BY <1>2, <1>5, SizeProperties
<1>7. /\ call' \in [Goroutines -> Frames]
      /\ \A h \in Goroutines :
            \/ call'[h] = call[h]
            \/ /\ call[h].pc = "clear" /\ call'[h].pc = "clear"
               /\ call[h].next = i /\ call'[h].next = i + 1
               /\ DOMAIN t.items = {}
  BY <1>1, <1>2, <1>4, <1>5
<1> QED BY <1>1, <1>2, <1>5, <1>6, <1>7, OtherStep

-----------------------------------------------------------------------------
(* Steps that change no shard.                                             *)

\* A Get looks its key up.
LEMMA GetInv ==
    ASSUME CInv, NEW g \in Goroutines, NEW k \in Keys, Get(g, k)
    PROVE  CInv'
<1> DEFINE hit == k \in DOMAIN shards[getShard(k)].items
           fr == [pc |-> "count", key |-> k, hit |-> hit]
<1>1. /\ call[g] = Idle
      /\ call' = [call EXCEPT ![g] = fr]
      /\ UNCHANGED <<maxSize, shards, during>>
      /\ ops' \in Nat
      /\ during' \in [Goroutines -> Observations]
  BY DEF Get, Start, CInv, TypeOK
<1>2. hit \in BOOLEAN
  OBVIOUS
<1> HIDE DEF hit
<1>3. fr \in Frames /\ fr.pc = "count"
  BY <1>2 DEF Frames
<1> HIDE DEF fr
<1>4. call[g].pc = "idle" /\ shards' = shards /\ maxSize' = maxSize
      /\ \A h \in Goroutines : h # g => during'[h] = during[h]
  BY <1>1 DEF Idle
<1> QED BY <1>1, <1>3, <1>4, CallStep

\* A sweep starts at the first shard.
LEMMA SweepInv ==
    ASSUME CInv, NEW g \in Goroutines, NEW fr \in Frames, Sweep(g, fr),
           fr.pc \in {"clear", "counters"}, fr.next = 0,
           fr.pc = "counters" => fr.total.size = 0
    PROVE  CInv'
<1>1. /\ call[g] = Idle
      /\ call' = [call EXCEPT ![g] = fr]
      /\ during' = [during EXCEPT ![g].empty = (StoredKeys = {})]
      /\ UNCHANGED <<maxSize, shards>>
      /\ ops' \in Nat
  BY DEF Sweep, Start, CInv, TypeOK
<1>2. /\ during' \in [Goroutines -> Observations]
      /\ \A h \in Goroutines : h # g => during'[h] = during[h]
  <2> DEFINE e == StoredKeys = {}
             to == [during[g] EXCEPT !.empty = e]
  <2>1. during \in [Goroutines -> Observations] /\ e \in BOOLEAN
    BY DEF CInv, TypeOK
  <2>2. during' = [during EXCEPT ![g] = to]
    BY <1>1
  <2> HIDE DEF e
  <2>3. to \in Observations
    BY <2>1 DEF Observations
  <2> HIDE DEF to
  <2> QED BY <2>1, <2>2, <2>3
<1>3. fr.pc = "counters" /\ maxSize > 0 => fr.total.size <= fr.next * limit
  BY LimitOfShard DEF CInv, TypeOK
<1>4. call[g].pc = "idle" /\ shards' = shards /\ maxSize' = maxSize
  BY <1>1 DEF Idle
<1> QED BY <1>1, <1>2, <1>3, <1>4, CallStep

\* It returns from behind the last one.
LEMMA ReturnInv ==
    ASSUME CInv, NEW g \in Goroutines, call[g].pc \in {"clear", "counters"}, Return(g)
    PROVE  CInv'
<1>1. Idle \in Frames /\ Idle.pc = "idle" /\ Unseen \in Observations
  BY DEF Frames, Idle, Unseen, Observations
<1>2. /\ call' = [call EXCEPT ![g] = Idle]
      /\ during' = [during EXCEPT ![g] = Unseen]
      /\ UNCHANGED <<maxSize, shards, ops>>
      /\ during \in [Goroutines -> Observations] /\ ops' \in Nat
  BY DEF Return, CInv, TypeOK
<1>3. /\ during' \in [Goroutines -> Observations]
      /\ \A h \in Goroutines : h # g => during'[h] = during[h]
  BY <1>1, <1>2
<1> HIDE DEF Idle
<1> QED BY <1>1, <1>2, <1>3, CallStep

\* What Stats has added up.
LEMMA TotalsFields ==
    ASSUME NEW old \in Totals
    PROVE  /\ old = [hits |-> old.hits, misses |-> old.misses,
                     evictions |-> old.evictions, count |-> old.count,
                     size |-> old.size]
           /\ old.hits \in Nat /\ old.misses \in Nat /\ old.evictions \in Nat
           /\ old.count \in Nat /\ old.size \in Nat
BY DEF Totals

\* Adding to the counters,
LEMMA CountersAdded ==
    ASSUME NEW old \in Totals, NEW h, NEW m, NEW e,
           NEW to, to = [old EXCEPT !.hits = h, !.misses = m, !.evictions = e]
    PROVE  to = [hits |-> h, misses |-> m, evictions |-> e, count |-> old.count,
                 size |-> old.size]
<1>1. old = [hits |-> old.hits, misses |-> old.misses, evictions |-> old.evictions,
             count |-> old.count, size |-> old.size]
  BY TotalsFields
<1> QED BY <1>1

\* and to the sizes.
LEMMA SizesAdded ==
    ASSUME NEW old \in Totals, NEW n, NEW size,
           NEW to, to = [old EXCEPT !.count = n, !.size = size]
    PROVE  to = [hits |-> old.hits, misses |-> old.misses,
                 evictions |-> old.evictions, count |-> n, size |-> size]
<1>1. old = [hits |-> old.hits, misses |-> old.misses, evictions |-> old.evictions,
             count |-> old.count, size |-> old.size]
  BY TotalsFields
<1> QED BY <1>1

\* Stats reads the counters of a shard.
LEMMA StatsCountersInv ==
    ASSUME CInv, NEW g \in Goroutines, StatsCounters(g)
    PROVE  CInv'
<1> DEFINE i == call[g].next
           s == shards[i]
           old == call[g].total
           total == [old EXCEPT !.hits = @ + s.hits, !.misses = @ + s.misses,
                                !.evictions = @ + s.evictions]
           fr == [pc |-> "sizes", next |-> i, total |-> total]
<1>1. /\ call[g].pc = "counters" /\ i \in Shards
      /\ UNCHANGED <<maxSize, shards, ops, during>>
      /\ call \in [Goroutines -> Frames] /\ ops' \in Nat
      /\ during' \in [Goroutines -> Observations]
      /\ s \in ShardStates
  BY DEF StatsCounters, CInv, TypeOK
<1>2. old \in Totals
  BY <1>1, FrameKinds
<1>3. call' = [call EXCEPT ![g] = fr]
  BY DEF StatsCounters
<1>4. total \in Totals /\ total.size = old.size
  <2> DEFINE h == old.hits + s.hits
             m == old.misses + s.misses
             e == old.evictions + s.evictions
  <2>1. h \in Nat /\ m \in Nat /\ e \in Nat
    BY <1>1, <1>2, ShardFields, TotalsFields
  <2>2. total = [old EXCEPT !.hits = h, !.misses = m, !.evictions = e]
    OBVIOUS
  <2> HIDE DEF h, m, e, old, total
  <2>3. total = [hits |-> h, misses |-> m, evictions |-> e, count |-> old.count,
                 size |-> old.size]
    BY <1>2, <2>2, CountersAdded
  <2> QED BY <1>2, <2>1, <2>3, TotalsFields DEF Totals
<1> HIDE DEF total
<1>5. fr \in Frames /\ fr.pc = "sizes" /\ fr.next = i /\ fr.total = total
  <2>1. i \in 0 .. shardCount
    BY <1>1, ShardNumbers
  <2> QED BY <1>4, <2>1 DEF Frames
<1> HIDE DEF fr
<1>6. maxSize > 0 => fr.total.size <= fr.next * limit
  BY <1>1, <1>4, <1>5 DEF CInv, TotalsFit
<1> QED BY <1>1, <1>3, <1>5, <1>6, CallStep

\* And its sizes: a shard that nobody has locked is within its limit.
LEMMA StatsSizesInv ==
    ASSUME CInv, NEW g \in Goroutines, StatsSizes(g)
    PROVE  CInv'
<1> DEFINE i == call[g].next
           s == shards[i]
           old == call[g].total
           items == Cardinality(DOMAIN s.items)
           total == [old EXCEPT !.count = @ + items, !.size = @ + Size(s)]
           fr == [pc |-> "counters", next |-> i + 1, total |-> total]
<1>1. /\ call[g].pc = "sizes"
      /\ UNCHANGED <<maxSize, shards, ops, during>>
      /\ call \in [Goroutines -> Frames] /\ ops' \in Nat
      /\ during' \in [Goroutines -> Observations]
      /\ Free(s)
  BY DEF StatsSizes, CInv, TypeOK
<1>2. i \in Shards /\ s \in ShardStates /\ i \in Nat /\ i + 1 \in 0 .. shardCount
  BY <1>1, ShardNumbers DEF CInv, TotalsFit, TypeOK
<1>3. old \in Totals
  BY <1>1, FrameKinds
<1>4. items \in Nat /\ Size(s) \in Nat
  <2>1. IsFiniteSet(DOMAIN s.items)
    BY <1>2, ShardFields, KeysAssumption, FS_Subset
  <2> QED BY <1>2, <2>1, SizeProperties, FS_CardinalityType
<1>5. call' = [call EXCEPT ![g] = fr]
  BY DEF StatsSizes
<1>6. total \in Totals /\ total.size = old.size + Size(s)
  <2> DEFINE n == old.count + items
             size == old.size + Size(s)
  <2>1. n \in Nat /\ size \in Nat
    BY <1>3, <1>4, TotalsFields
  <2>2. total = [old EXCEPT !.count = n, !.size = size]
    OBVIOUS
  <2> HIDE DEF n, size, old, total
  <2>3. total = [hits |-> old.hits, misses |-> old.misses, evictions |-> old.evictions,
                 count |-> n, size |-> size]
    BY <1>3, <2>2, SizesAdded
  <2>4. total \in Totals /\ total.size = size
    BY <1>3, <2>1, <2>3, TotalsFields DEF Totals
  <2> QED BY <2>4 DEF size
<1> HIDE DEF total
<1>7. fr \in Frames /\ fr.pc = "counters" /\ fr.next = i + 1 /\ fr.total = total
  BY <1>2, <1>6 DEF Frames
<1> HIDE DEF fr
<1>8. maxSize > 0 => fr.total.size <= fr.next * limit
  <2> SUFFICES ASSUME maxSize > 0 PROVE total.size <= (i + 1) * limit
    BY <1>7
  <2>1. limit \in Nat \ {0}
    BY LimitOfShard DEF CInv, TypeOK
  <2>2. Size(s) <= limit
    BY <1>1, <1>2, <1>4, <2>1 DEF CInv, FreeShardsFit, Over
  <2>3. old.size <= i * limit /\ old.size \in Nat
    BY <1>1, <1>3 DEF CInv, TotalsFit, Totals
  <2>4. (i + 1) * limit = i * limit + limit /\ i * limit \in Nat
    BY <1>2, <2>1
  <2> QED BY <1>4, <1>6, <2>1, <2>2, <2>3, <2>4
<1> QED BY <1>1, <1>5, <1>7, <1>8, CallStep

-----------------------------------------------------------------------------
(* Every step.                                                             *)

\* A new cache is empty and idle.
LEMMA InitInv ==
    ASSUME Init
    PROVE  CInv
<1>1. /\ maxSize \in MaxSizes
      /\ \A i \in Shards : shards[i] = NewShard
      /\ \A g \in Goroutines : call[g].pc = "idle"
  BY DEF Init, Idle
<1>2. TypeOK
  <2>1. Idle \in Frames /\ Unseen \in Observations /\ NewShard \in ShardStates
    BY ClearedProperties DEF Frames, Unseen, Observations
  <2> QED BY <2>1 DEF Init, TypeOK
<1>3. LockHeld
  BY <1>1, ClearedProperties DEF LockHeld
<1>4. FreeShardsFit
  <2>1. Size(NewShard) = 0
    BY ClearedProperties, SizeProperties
  <2>2. limit \in Int
    BY <1>1, LimitIsNumber
  <2> QED BY <1>1, <2>1, <2>2 DEF FreeShardsFit, Over
<1>5. SweptShardsAreNewer /\ TotalsFit
  BY <1>1 DEF SweptShardsAreNewer, TotalsFit
<1> QED BY <1>2, <1>3, <1>4, <1>5 DEF CInv

\* Nothing happens.
LEMMA StutterInv ==
    ASSUME CInv, UNCHANGED vars
    PROVE  CInv'
BY DEF CInv, vars, TypeOK, LockHeld, FreeShardsFit, SweptShardsAreNewer, TotalsFit,
       limit

\* The steps of a Clear or a Stats.
LEMMA SweepStepInv ==
    ASSUME CInv, NEW g \in Goroutines,
           \/ ClearStart(g) \/ ClearShard(g) \/ ClearReturn(g)
           \/ StatsStart(g) \/ StatsCounters(g) \/ StatsSizes(g) \/ StatsReturn(g)
    PROVE  CInv'
<1>1. CASE ClearStart(g)
  <2> DEFINE fr == [pc |-> "clear", next |-> 0]
  <2>1. fr \in Frames /\ fr.pc = "clear" /\ fr.next = 0
    BY ShardNumbers DEF Frames
  <2>2. Sweep(g, fr)
    BY <1>1 DEF ClearStart
  <2> HIDE DEF fr
  <2> QED BY <2>1, <2>2, SweepInv
<1>2. CASE ClearShard(g)
  BY <1>2, ClearShardInv
<1>3. CASE ClearReturn(g)
  BY <1>3, ReturnInv DEF ClearReturn
<1>4. CASE StatsStart(g)
  <2> DEFINE none == [hits |-> 0, misses |-> 0, evictions |-> 0, count |-> 0,
                      size |-> 0]
             fr == [pc |-> "counters", next |-> 0, total |-> none]
  <2>1. none \in Totals /\ none.size = 0
    BY DEF Totals
  <2>2. Sweep(g, fr)
    BY <1>4 DEF StatsStart
  <2> HIDE DEF none
  <2>3. fr \in Frames /\ fr.pc = "counters" /\ fr.next = 0 /\ fr.total = none
    BY <2>1, ShardNumbers DEF Frames
  <2> HIDE DEF fr
  <2> QED BY <2>1, <2>2, <2>3, SweepInv
<1>5. CASE StatsCounters(g)
  BY <1>5, StatsCountersInv
<1>6. CASE StatsSizes(g)
  BY <1>6, StatsSizesInv
<1>7. CASE StatsReturn(g)
  BY <1>7, ReturnInv DEF StatsReturn
<1> QED BY <1>1, <1>2, <1>3, <1>4, <1>5, <1>6, <1>7

\* Every step keeps the invariant.
LEMMA NextInv ==
    ASSUME HashCount <= IntHalf, CInv, [Next]_vars
    PROVE  CInv'
<1>1. ASSUME NEW g \in Goroutines, NEW k \in Keys, NEW size \in Sizes, Set(g, k, size)
      PROVE  CInv'
  BY <1>1, SetInv
<1>2. ASSUME NEW g \in Goroutines, NEW k \in Keys, Get(g, k)
      PROVE  CInv'
  BY <1>2, GetInv
<1>3. ASSUME NEW g \in Goroutines, NEW k \in Keys, Delete(g, k)
      PROVE  CInv'
  BY <1>3, DeleteInv
<1>4. ASSUME NEW g \in Goroutines, EvictOne(g)
      PROVE  CInv'
  BY <1>4, EvictOneInv
<1>5. ASSUME NEW g \in Goroutines, SetReturn(g)
      PROVE  CInv'
  BY <1>5, SetReturnInv
<1>6. ASSUME NEW g \in Goroutines, GetExpired(g)
      PROVE  CInv'
  BY <1>6, GetExpiredInv
<1>7. ASSUME NEW g \in Goroutines, GetCount(g)
      PROVE  CInv'
  BY <1>7, GetCountInv
<1>8. ASSUME NEW g \in Goroutines,
             \/ ClearStart(g) \/ ClearShard(g) \/ ClearReturn(g)
             \/ StatsStart(g) \/ StatsCounters(g) \/ StatsSizes(g) \/ StatsReturn(g)
      PROVE  CInv'
  BY <1>8, SweepStepInv
<1>9. ASSUME NEW k \in Keys, Cleanup(k)
      PROVE  CInv'
  BY <1>9, CleanupInv
<1>10. CASE UNCHANGED vars
  BY <1>10, StutterInv
<1>11. CASE Finished
  BY <1>11, <1>10 DEF Finished
<1> QED
  BY <1>1, <1>2, <1>3, <1>4, <1>5, <1>6, <1>7, <1>8, <1>9, <1>10, <1>11 DEF Next

\* The invariant.
LEMMA CacheInvariance ==
    ASSUME HashCount <= IntHalf
    PROVE  Spec => []CInv
<1>1. Init => CInv
  BY InitInv
<1>2. CInv /\ [Next]_vars => CInv'
  BY NextInv
<1> QED BY <1>1, <1>2, PTL DEF Spec

-----------------------------------------------------------------------------
(* Results.                                                                *)

\* Calls, shards and totals stay what they are; no sweep passes the last shard.
THEOREM CacheTypes ==
    ASSUME HashCount <= IntHalf
    PROVE  Spec => []TypeOK
<1>1. CInv => TypeOK
  BY DEF CInv
<1> QED BY <1>1, CacheInvariance, PTL

\* What is in the cache when a Clear returns was stored while it went from shard
\* to shard (cache.go:207): no item from before it survives, whatever the other
\* callers do.
THEOREM ClearRemovesOlder ==
    ASSUME HashCount <= IntHalf
    PROVE  Spec => []ClearLeavesOnlyNewer
<1>1. CInv => ClearLeavesOnlyNewer
  <2> SUFFICES ASSUME CInv, NEW g \in Goroutines, ClearDone(g),
                      NEW k \in StoredKeys
               PROVE  k \in during[g].stored
    BY DEF ClearLeavesOnlyNewer
  <2>1. PICK i \in Shards : k \in DOMAIN shards[i].items
    BY DEF StoredKeys
  <2>2. call[g].pc = "clear" /\ i < call[g].next
    BY ShardNumbers DEF ClearDone
  <2> QED BY <2>1, <2>2 DEF CInv, SweptShardsAreNewer
<1> QED BY <1>1, CacheInvariance, PTL

\* The size that Stats reports is within the configured limit, or one byte per
\* shard, although it adds up sizes of different moments (cache_test.go:258).
THEOREM StatsStaysWithinLimit ==
    ASSUME HashCount <= IntHalf
    PROVE  Spec => []StatsWithinLimit
<1>1. CInv => StatsWithinLimit
  <2> SUFFICES ASSUME CInv, NEW g \in Goroutines, StatsDone(g), maxSize > 0
               PROVE  \/ call[g].total.size <= maxSize
                      \/ call[g].total.size <= shardCount
    BY DEF StatsWithinLimit
  <2>1. maxSize \in Nat \ {0} /\ shardCount \in Nat \ {0}
    BY CacheAssumption, ShardOfKey DEF CInv, TypeOK
  <2>2. call[g].total.size <= shardCount * limit
    BY DEF StatsDone, CInv, TotalsFit
  <2>3. shardCount * limit <= maxSize \/ shardCount * limit = shardCount
    BY <2>1, LimitsAddUp DEF limit
  <2>4. call[g].total \in Totals
    BY FrameKinds DEF StatsDone, CInv, TypeOK
  <2>5. call[g].total.size \in Nat
    BY <2>4, TotalsFields
  <2>6. limit \in Nat
    BY <2>1, LimitOfShard DEF CInv, TypeOK
  <2> DEFINE all == shardCount * limit
  <2>7. all \in Nat
    BY <2>1, <2>6
  <2> HIDE DEF all
  <2> QED BY <2>1, <2>2, <2>3, <2>5, <2>7 DEF all
<1> QED BY <1>1, CacheInvariance, PTL

-----------------------------------------------------------------------------
(* The shards' contract.                                                   *)

\* What a call has found in shard i and not counted yet.
PendingOf(i, fr) ==
    IF fr.pc = "count" /\ getShard(fr.key) = i
    THEN IF fr.hit THEN [get |-> "found", key |-> fr.key] ELSE [get |-> "absent"]
    ELSE [get |-> "none"]

Pendings(i) == [g \in Goroutines |-> PendingOf(i, call[g])]

\* It depends on the call only.
LEMMA PendingsOfCalls ==
    ASSUME NEW i
    PROVE  /\ [g \in Goroutines |-> Pending(i, g)] = Pendings(i)
           /\ [g \in Goroutines |-> Pending(i, g)]' = Pendings(i)'
BY DEF Pendings, Pending, PendingOf

\* The contract's names for what it shares with the cache.
LEMMA ContractNames ==
    ASSUME NEW i, NEW c
    PROVE  /\ \A s : Shard(i, c)!Free(s) = Free(s)
           /\ \A s, k : Shard(i, c)!Without(s, k) = Without(s, k)
           /\ \A s, k : Shard(i, c)!Evicted(s, k) = Evicted(s, k)
           /\ \A s, k : Shard(i, c)!CleanedUp(s, k) = CleanedUp(s, k)
           /\ \A s, k : Shard(i, c)!CleanupStarted(s, k) = CleanupStarted(s, k)
           /\ \A s, hit : Shard(i, c)!Counted(s, hit) = Counted(s, hit)
           /\ \A s : Shard(i, c)!Unlocked(s) = Unlocked(s)
           /\ \A s : Shard(i, c)!Cleared(s) = Cleared(s)
           /\ \A s, g, k, size : Shard(i, c)!Stored(s, g, k, size) = Stored(s, g, k, size)
           /\ \A s, l : Shard(i, c)!Over(s, l) = Over(s, l)
<1>1. \A S : Shard(i, c)!Cardinality(S) = Cardinality(S)
  BY Zenon DEF Shard!Cardinality, Cardinality
<1>2. \A s : Shard(i, c)!Size(s) = Size(s)
  BY <1>1, Zenon DEF Shard!Size, Size, Shard!Bytes, Bytes
<1>3. \A s, k : Shard(i, c)!Without(s, k) = Without(s, k)
  BY Zenon DEF Shard!Without, Without
<1>4. Shard(i, c)!NewShard = NewShard
  BY Zenon DEF Shard!NewShard, NewShard
<1>5. \A s : Shard(i, c)!Free(s) = Free(s)
  BY DEF Shard!Free, Free
<1>6. \A s, k : Shard(i, c)!Evicted(s, k) = Evicted(s, k)
  BY <1>3 DEF Shard!Evicted, Evicted
<1>7. \A s, k : Shard(i, c)!CleanedUp(s, k) = CleanedUp(s, k)
  BY <1>3 DEF Shard!CleanedUp, CleanedUp
<1>8. \A s, k : Shard(i, c)!CleanupStarted(s, k) = CleanupStarted(s, k)
  BY Zenon DEF Shard!CleanupStarted, CleanupStarted
<1>9. \A s, hit : Shard(i, c)!Counted(s, hit) = Counted(s, hit)
  BY Zenon DEF Shard!Counted, Counted
<1>10. \A s : Shard(i, c)!Unlocked(s) = Unlocked(s)
  BY Zenon DEF Shard!Unlocked, Unlocked
<1>11. \A s : Shard(i, c)!Cleared(s) = Cleared(s)
  BY <1>4 DEF Shard!Cleared, Cleared
<1>12. \A s, g, k, size : Shard(i, c)!Stored(s, g, k, size) = Stored(s, g, k, size)
  BY Zenon DEF Shard!Stored, Stored
<1>13. \A s, l : Shard(i, c)!Over(s, l) = Over(s, l)
  BY <1>2 DEF Shard!Over, Over
<1> QED BY <1>3, <1>5, <1>6, <1>7, <1>8, <1>9, <1>10, <1>11, <1>12, <1>13

\* A step in which nothing happens to a shard, as far as the contract goes.
LEMMA ShardUntouched ==
    ASSUME NEW i, NEW c, shards'[i] = shards[i], Pendings(i)' = Pendings(i)
    PROVE  UNCHANGED Shard(i, c)!vars
BY PendingsOfCalls DEF Shard!vars

\* A step of one shard, for the cache.
LEMMA StepKeeps ==
    ASSUME NEW i \in Shards, NEW c \in MaxSizes, maxSize = c, Shard(i, c)!Next,
           \A j \in Shards :
              j # i => shards'[j] = shards[j] /\ Pendings(j)' = Pendings(j)
    PROVE  KeepsContract
<1> SUFFICES ASSUME NEW j \in Shards, NEW d \in MaxSizes, maxSize = d
             PROVE  UNCHANGED Shard(j, d)!vars \/ Shard(j, d)!Next
  BY DEF KeepsContract
<1>1. c = d
  OBVIOUS
<1>2. CASE j = i
  BY <1>1, <1>2
<1>3. CASE j # i
  BY <1>3, ShardUntouched
<1> QED BY <1>2, <1>3

\* A call that goes on elsewhere leaves what the others have found alone.
LEMMA PendingsElsewhere ==
    ASSUME CInv, NEW i, NEW g \in Goroutines, NEW fr,
           call' = [call EXCEPT ![g] = fr],
           PendingOf(i, fr) = PendingOf(i, call[g])
    PROVE  Pendings(i)' = Pendings(i)
<1>1. \A h \in Goroutines : PendingOf(i, call'[h]) = PendingOf(i, call[h])
  <2>1. call'[g] = fr /\ \A h \in Goroutines : h # g => call'[h] = call[h]
    BY DEF CInv, TypeOK
  <2> QED BY <2>1
<1>2. Pendings(i)' = [h \in Goroutines |-> PendingOf(i, call'[h])]
  BY DEF Pendings, PendingOf, getShard
<1> QED BY <1>1, <1>2 DEF Pendings

\* A call that finds or counts here changes its own.
LEMMA PendingsHere ==
    ASSUME CInv, NEW i, NEW g \in Goroutines, NEW fr,
           call' = [call EXCEPT ![g] = fr]
    PROVE  Pendings(i)' = [Pendings(i) EXCEPT ![g] = PendingOf(i, fr)]
<1>1. call'[g] = fr /\ \A h \in Goroutines : h # g => call'[h] = call[h]
  BY DEF CInv, TypeOK
<1>2. Pendings(i)' = [h \in Goroutines |-> PendingOf(i, call'[h])]
  BY DEF Pendings, PendingOf, getShard
<1>3. \A h \in Goroutines :
         PendingOf(i, call'[h]) = IF h = g THEN PendingOf(i, fr) ELSE PendingOf(i, call[h])
  BY <1>1
<1> DEFINE old == Pendings(i)
           x == PendingOf(i, fr)
<1>4. old = [h \in Goroutines |-> PendingOf(i, call[h])]
  BY DEF Pendings
<1>5. \A h \in Goroutines : old[h] = PendingOf(i, call[h])
  BY <1>4
<1>6. old = [h \in Goroutines |-> old[h]]
  BY <1>4
<1>7. Pendings(i)' = [h \in Goroutines |-> IF h = g THEN x ELSE old[h]]
  BY <1>2, <1>3, <1>5
<1> HIDE DEF old, x
<1>8. Pendings(i)' = [old EXCEPT ![g] = x]
  BY <1>6, <1>7
<1> QED BY <1>8 DEF old, x

\* Set stores in the shard of its key.
LEMMA SetKeeps ==
    ASSUME HashCount <= IntHalf, CInv, NEW g \in Goroutines, NEW k \in Keys,
           NEW size \in Sizes, Set(g, k, size)
    PROVE  KeepsContract
<1> DEFINE i == getShard(k)
           c == maxSize
           fr == [pc |-> "evict", shard |-> i]
<1>1. i \in Shards /\ c \in MaxSizes
  BY ShardOfKey DEF CInv, TypeOK
<1>2. /\ call[g].pc = "idle" /\ fr.pc = "evict"
      /\ Free(shards[i])
      /\ shards' = [shards EXCEPT ![i] = Stored(shards[i], g, k, size)]
      /\ call' = [call EXCEPT ![g] = fr]
  BY DEF Set, Start, Idle
<1> HIDE DEF i, fr
<1>3. \A j : Pendings(j)' = Pendings(j)
  <2> SUFFICES ASSUME NEW j PROVE Pendings(j)' = Pendings(j)
    OBVIOUS
  <2>1. PendingOf(j, fr) = PendingOf(j, call[g])
    BY <1>2 DEF PendingOf
  <2> QED BY <1>2, <2>1, PendingsElsewhere
<1>4. /\ shards'[i] = Stored(shards[i], g, k, size)
      /\ \A j \in Shards : j # i => shards'[j] = shards[j]
  BY <1>1, <1>2 DEF CInv, TypeOK
<1> SUFFICES ASSUME NEW d \in MaxSizes, maxSize = d PROVE KeepsContract
  BY <1>1
<1>5. Shard(i, d)!Store(g, k, size)
  BY <1>2, <1>3, <1>4, ContractNames, PendingsOfCalls DEF Shard!Store
<1>6. Shard(i, d)!Next
  BY <1>5 DEF Shard!Next
<1> QED BY <1>1, <1>3, <1>4, <1>6, StepKeeps

\* It evicts from it while it holds its lock and is over its limit,
LEMMA EvictOneKeeps ==
    ASSUME CInv, NEW g \in Goroutines, EvictOne(g)
    PROVE  KeepsContract
<1>1. /\ call[g].pc = "evict" /\ UNCHANGED <<maxSize, call>>
      /\ Over(shards[call[g].shard], limit)
  BY DEF EvictOne
<1>2. PICK i \in Shards : i = call[g].shard
  BY <1>1, FrameKinds DEF CInv, TypeOK
<1>3. shards[i] \in ShardStates /\ shards[i].writer = g
  BY <1>1, <1>2 DEF CInv, TypeOK, LockHeld
<1>4. PICK k \in DOMAIN shards[i].items :
         shards' = [shards EXCEPT ![i] = Evicted(shards[i], k)]
  BY <1>2 DEF EvictOne
<1>5. k \in Keys
  BY <1>3, ShardFields
<1> SUFFICES ASSUME NEW d \in MaxSizes, maxSize = d PROVE KeepsContract
  BY DEF CInv, TypeOK
<1>6. Over(shards[i], ShardLimit(d, shardCount))
  BY <1>1, <1>2 DEF limit
<1>7. \A j : Pendings(j)' = Pendings(j)
  BY <1>1 DEF Pendings, PendingOf, getShard
<1>8. /\ shards'[i] = Evicted(shards[i], k)
      /\ \A j \in Shards : j # i => shards'[j] = shards[j]
  BY <1>4 DEF CInv, TypeOK
<1>9. Shard(i, d)!Evict(g, k)
  BY <1>3, <1>4, <1>6, <1>7, <1>8, ContractNames, PendingsOfCalls DEF Shard!Evict
<1>10. Shard(i, d)!Next
  BY <1>5, <1>9 DEF Shard!Next
<1> QED BY <1>7, <1>8, <1>10, StepKeeps

\* and gives the lock back within the limit.
LEMMA SetReturnKeeps ==
    ASSUME CInv, NEW g \in Goroutines, SetReturn(g)
    PROVE  KeepsContract
<1>1. /\ call[g].pc = "evict"
      /\ ~Over(shards[call[g].shard], limit)
      /\ shards' = [shards EXCEPT ![call[g].shard] = Unlocked(shards[call[g].shard])]
      /\ call' = [call EXCEPT ![g] = Idle]
  BY DEF SetReturn
<1>2. PICK i \in Shards : i = call[g].shard
  BY <1>1, FrameKinds DEF CInv, TypeOK
<1>3. shards[i].writer = g
  BY <1>1, <1>2 DEF CInv, LockHeld
<1> SUFFICES ASSUME NEW d \in MaxSizes, maxSize = d PROVE KeepsContract
  BY DEF CInv, TypeOK
<1>4. ~Over(shards[i], ShardLimit(d, shardCount))
  BY <1>1, <1>2 DEF limit
<1>5. \A j : Pendings(j)' = Pendings(j)
  <2> SUFFICES ASSUME NEW j PROVE Pendings(j)' = Pendings(j)
    OBVIOUS
  <2>1. PendingOf(j, Idle) = PendingOf(j, call[g])
    BY <1>1 DEF PendingOf, Idle
  <2> HIDE DEF Idle
  <2> QED BY <1>1, <2>1, PendingsElsewhere
<1>6. /\ shards'[i] = Unlocked(shards[i])
      /\ \A j \in Shards : j # i => shards'[j] = shards[j]
  BY <1>1, <1>2 DEF CInv, TypeOK
<1>7. Shard(i, d)!Release(g)
  BY <1>3, <1>4, <1>5, <1>6, ContractNames, PendingsOfCalls DEF Shard!Release
<1>8. Shard(i, d)!Next
  BY <1>7 DEF Shard!Next
<1> QED BY <1>5, <1>6, <1>8, StepKeeps

\* Get looks its key up in the shard of the key,
LEMMA GetKeeps ==
    ASSUME HashCount <= IntHalf, CInv, NEW g \in Goroutines, NEW k \in Keys, Get(g, k)
    PROVE  KeepsContract
<1> DEFINE i == getShard(k)
           hit == k \in DOMAIN shards[i].items
           fr == [pc |-> "count", key |-> k, hit |-> hit]
<1>1. i \in Shards
  BY ShardOfKey
<1>2. /\ call[g].pc = "idle"
      /\ Free(shards[i])
      /\ call' = [call EXCEPT ![g] = fr]
      /\ shards' = shards
  BY DEF Get, Start, Idle
<1>3. /\ hit => PendingOf(i, fr) = [get |-> "found", key |-> k]
      /\ ~hit => PendingOf(i, fr) = [get |-> "absent"]
      /\ \A j : j # i => PendingOf(j, fr) = [get |-> "none"]
  BY DEF PendingOf
<1>4. \A j : PendingOf(j, call[g]) = [get |-> "none"]
  BY <1>2 DEF PendingOf
<1> HIDE DEF fr
<1>5. /\ Pendings(i)' = [Pendings(i) EXCEPT ![g] = PendingOf(i, fr)]
      /\ \A j : j # i => Pendings(j)' = Pendings(j)
  BY <1>2, <1>3, <1>4, PendingsElsewhere, PendingsHere
<1>6. Pendings(i)[g] = [get |-> "none"]
  BY <1>4 DEF Pendings
<1> SUFFICES ASSUME NEW d \in MaxSizes, maxSize = d PROVE KeepsContract
  BY DEF CInv, TypeOK
<1>7. Shard(i, d)!Lookup(g, k)
  BY <1>2, <1>3, <1>5, <1>6, ContractNames, PendingsOfCalls
  DEF Shard!Lookup, Shard!NoGet, Shard!Found, Shard!Absent
<1>8. Shard(i, d)!Next
  BY <1>7 DEF Shard!Next
<1> QED BY <1>1, <1>2, <1>5, <1>8, StepKeeps

\* may find the item expired,
LEMMA GetExpiredKeeps ==
    ASSUME HashCount <= IntHalf, CInv, NEW g \in Goroutines, GetExpired(g)
    PROVE  KeepsContract
<1>1. /\ call[g].pc = "count" /\ call[g].hit
      /\ call[g] \in Frames
      /\ shards' = [shards EXCEPT ![getShard(call[g].key)] =
                       CleanupStarted(shards[getShard(call[g].key)], call[g].key)]
      /\ call' = [call EXCEPT ![g] = [call[g] EXCEPT !.hit = FALSE]]
  BY DEF GetExpired, CInv, TypeOK
<1>2. PICK k \in Keys : k = call[g].key
  BY <1>1, FrameKinds
<1> DEFINE i == getShard(k)
           fr == [pc |-> "count", key |-> k, hit |-> FALSE]
<1>3. i \in Shards
  BY ShardOfKey
<1>4. call' = [call EXCEPT ![g] = fr]
  BY <1>1, <1>2, MissFrame
<1>5. /\ PendingOf(i, call[g]) = [get |-> "found", key |-> k]
      /\ PendingOf(i, fr) = [get |-> "absent"]
      /\ \A j : j # i => /\ PendingOf(j, call[g]) = [get |-> "none"]
                          /\ PendingOf(j, fr) = [get |-> "none"]
  BY <1>1, <1>2 DEF PendingOf
<1> HIDE DEF fr
<1>6. /\ Pendings(i)' = [Pendings(i) EXCEPT ![g] = PendingOf(i, fr)]
      /\ \A j : j # i => Pendings(j)' = Pendings(j)
  BY <1>4, <1>5, PendingsElsewhere, PendingsHere
<1>7. Pendings(i)[g] = PendingOf(i, call[g])
  BY DEF Pendings
<1>8. /\ shards'[i] = CleanupStarted(shards[i], k)
      /\ \A j \in Shards : j # i => shards'[j] = shards[j]
  BY <1>1, <1>2, <1>3 DEF CInv, TypeOK
<1> SUFFICES ASSUME NEW d \in MaxSizes, maxSize = d PROVE KeepsContract
  BY DEF CInv, TypeOK
<1>9. Shard(i, d)!Expire(g, k)
  BY <1>5, <1>6, <1>7, <1>8, ContractNames, PendingsOfCalls
  DEF Shard!Expire, Shard!Found, Shard!Absent
<1>10. Shard(i, d)!Next
  BY <1>9 DEF Shard!Next
<1> QED BY <1>3, <1>6, <1>8, <1>10, StepKeeps

\* and counts.
LEMMA GetCountKeeps ==
    ASSUME HashCount <= IntHalf, CInv, NEW g \in Goroutines, GetCount(g)
    PROVE  KeepsContract
<1>1. /\ call[g].pc = "count" /\ call[g] \in Frames
      /\ shards' = [shards EXCEPT ![getShard(call[g].key)] =
                       Counted(shards[getShard(call[g].key)], call[g].hit)]
      /\ call' = [call EXCEPT ![g] = Idle]
  BY DEF GetCount, CInv, TypeOK
<1>2. PICK k \in Keys, hit \in BOOLEAN : k = call[g].key /\ hit = call[g].hit
  BY <1>1, FrameKinds
<1> DEFINE i == getShard(k)
           none == [get |-> "none"]
           absent == [get |-> "absent"]
           found == [get |-> "found", key |-> k]
<1>3. i \in Shards
  BY ShardOfKey
<1>4. /\ PendingOf(i, call[g]) = IF hit THEN found ELSE absent
      /\ \A j : j # i => PendingOf(j, call[g]) = none
      /\ \A j : PendingOf(j, Idle) = none
  BY <1>1, <1>2 DEF PendingOf, Idle
<1>5. found # absent /\ found # none /\ absent # none
  OBVIOUS
<1> HIDE DEF Idle
<1>6. /\ Pendings(i)' = [Pendings(i) EXCEPT ![g] = none]
      /\ \A j : j # i => Pendings(j)' = Pendings(j)
  <2> HIDE DEF i, none
  <2>1. Pendings(i)' = [Pendings(i) EXCEPT ![g] = PendingOf(i, Idle)]
    BY <1>1, PendingsHere
  <2>2. \A j : j # i => PendingOf(j, Idle) = PendingOf(j, call[g])
    BY <1>4
  <2>3. \A j : j # i => Pendings(j)' = Pendings(j)
    BY <1>1, <2>2, PendingsElsewhere
  <2> QED BY <1>4, <2>1, <2>3
<1>7. Pendings(i)[g] = PendingOf(i, call[g])
  BY DEF Pendings
<1>8. /\ shards'[i] = Counted(shards[i], hit)
      /\ \A j \in Shards : j # i => shards'[j] = shards[j]
  BY <1>1, <1>2, <1>3 DEF CInv, TypeOK
<1>9. Pendings(i)[g] # none /\ (Pendings(i)[g] # absent <=> hit)
  BY <1>4, <1>5, <1>7
<1> SUFFICES ASSUME NEW d \in MaxSizes, maxSize = d PROVE KeepsContract
  BY DEF CInv, TypeOK
<1>10. Shard(i, d)!Counted(shards[i], Pendings(i)[g] # absent) = Counted(shards[i], hit)
  BY <1>9 DEF Shard!Counted, Counted
<1>11. Shard(i, d)!NoGet = none /\ Shard(i, d)!Absent = absent
  BY DEF Shard!NoGet, Shard!Absent
<1> HIDE DEF none, absent
<1>12. Shard(i, d)!Count(g)
  BY <1>6, <1>8, <1>9, <1>10, <1>11, PendingsOfCalls DEF Shard!Count
<1>13. Shard(i, d)!Next
  BY <1>12 DEF Shard!Next
<1> QED BY <1>3, <1>6, <1>8, <1>13, StepKeeps

\* Delete removes the key from its shard,
LEMMA DeleteKeeps ==
    ASSUME HashCount <= IntHalf, CInv, NEW g \in Goroutines, NEW k \in Keys,
           Delete(g, k)
    PROVE  KeepsContract
<1> DEFINE i == getShard(k)
<1>1. i \in Shards
  BY ShardOfKey
<1>2. /\ Free(shards[i])
      /\ shards' = [shards EXCEPT ![i] = Without(shards[i], k)]
      /\ call' = call
  BY DEF Delete
<1>3. \A j : Pendings(j)' = Pendings(j)
  BY <1>2 DEF Pendings, PendingOf, getShard
<1> HIDE DEF i
<1>4. /\ shards'[i] = Without(shards[i], k)
      /\ \A j \in Shards : j # i => shards'[j] = shards[j]
  BY <1>1, <1>2 DEF CInv, TypeOK
<1> SUFFICES ASSUME NEW d \in MaxSizes, maxSize = d PROVE KeepsContract
  BY DEF CInv, TypeOK
<1>5. Shard(i, d)!Remove(k)
  BY <1>2, <1>3, <1>4, ContractNames, PendingsOfCalls DEF Shard!Remove
<1>6. Shard(i, d)!Next
  BY <1>5 DEF Shard!Next
<1> QED BY <1>1, <1>3, <1>4, <1>6, StepKeeps

\* and so does a cleanup, once for each Get that asked for one.
LEMMA CleanupKeeps ==
    ASSUME HashCount <= IntHalf, CInv, NEW k \in Keys, Cleanup(k)
    PROVE  KeepsContract
<1> DEFINE i == getShard(k)
<1>1. i \in Shards
  BY ShardOfKey
<1>2. /\ Free(shards[i])
      /\ shards[i].cleanups[k] > 0
      /\ shards' = [shards EXCEPT ![i] = CleanedUp(shards[i], k)]
      /\ call' = call
  BY DEF Cleanup
<1>3. \A j : Pendings(j)' = Pendings(j)
  BY <1>2 DEF Pendings, PendingOf, getShard
<1> HIDE DEF i
<1>4. /\ shards'[i] = CleanedUp(shards[i], k)
      /\ \A j \in Shards : j # i => shards'[j] = shards[j]
  BY <1>1, <1>2 DEF CInv, TypeOK
<1> SUFFICES ASSUME NEW d \in MaxSizes, maxSize = d PROVE KeepsContract
  BY DEF CInv, TypeOK
<1>5. Shard(i, d)!Cleanup(k)
  BY <1>2, <1>3, <1>4, ContractNames, PendingsOfCalls DEF Shard!Cleanup
<1>6. Shard(i, d)!Next
  BY <1>5 DEF Shard!Next
<1> QED BY <1>1, <1>3, <1>4, <1>6, StepKeeps

\* A Clear clears the shard it is at,
LEMMA ClearShardKeeps ==
    ASSUME CInv, NEW g \in Goroutines, ClearShard(g)
    PROVE  KeepsContract
<1> DEFINE fr == [call[g] EXCEPT !.next = @ + 1]
<1>1. /\ call[g].pc = "clear" /\ call[g] \in Frames
      /\ call[g].next \in Shards
      /\ Free(shards[call[g].next])
      /\ shards' = [shards EXCEPT ![call[g].next] = Cleared(shards[call[g].next])]
      /\ call' = [call EXCEPT ![g] = fr]
  BY DEF ClearShard, CInv, TypeOK
<1>2. PICK i \in Shards : i = call[g].next
  BY <1>1
<1>3. fr.pc = "clear"
  BY <1>1, FrameKinds
<1> HIDE DEF fr
<1>4. \A j : Pendings(j)' = Pendings(j)
  <2> SUFFICES ASSUME NEW j PROVE Pendings(j)' = Pendings(j)
    OBVIOUS
  <2>1. PendingOf(j, fr) = PendingOf(j, call[g])
    BY <1>1, <1>3 DEF PendingOf
  <2> QED BY <1>1, <2>1, PendingsElsewhere
<1>5. /\ shards'[i] = Cleared(shards[i])
      /\ \A j \in Shards : j # i => shards'[j] = shards[j]
  BY <1>1, <1>2 DEF CInv, TypeOK
<1> SUFFICES ASSUME NEW d \in MaxSizes, maxSize = d PROVE KeepsContract
  BY DEF CInv, TypeOK
<1>6. Shard(i, d)!Clear
  BY <1>1, <1>2, <1>4, <1>5, ContractNames, PendingsOfCalls DEF Shard!Clear
<1>7. Shard(i, d)!Next
  BY <1>6 DEF Shard!Next
<1> QED BY <1>4, <1>5, <1>7, StepKeeps

\* and every other step of a sweep changes no shard, and nothing that is to be
\* counted.
LEMMA CallKeeps ==
    ASSUME CInv, NEW g \in Goroutines, NEW fr, fr.pc # "count", call[g].pc # "count",
           call' = [call EXCEPT ![g] = fr], shards' = shards
    PROVE  KeepsContract
<1>1. ASSUME NEW j PROVE Pendings(j)' = Pendings(j)
  <2>1. PendingOf(j, fr) = PendingOf(j, call[g])
    BY DEF PendingOf
  <2> QED BY <2>1, PendingsElsewhere
<1> QED BY <1>1, ShardUntouched DEF KeepsContract

\* Those steps.
LEMMA SweepKeeps ==
    ASSUME CInv, NEW g \in Goroutines,
           \/ ClearStart(g) \/ ClearReturn(g)
           \/ StatsStart(g) \/ StatsCounters(g) \/ StatsSizes(g) \/ StatsReturn(g)
    PROVE  KeepsContract
<1>1. shards' = shards /\ call[g].pc # "count"
  BY DEF ClearStart, ClearReturn, StatsStart, StatsCounters, StatsSizes, StatsReturn,
         Sweep, Start, Return, Idle
<1>2. CASE ClearStart(g)
  <2> DEFINE fr == [pc |-> "clear", next |-> 0]
  <2>1. fr.pc # "count" /\ call' = [call EXCEPT ![g] = fr]
    BY <1>2 DEF ClearStart, Sweep
  <2> HIDE DEF fr
  <2> QED BY <1>1, <2>1, CallKeeps
<1>3. CASE StatsStart(g)
  <2> DEFINE none == [hits |-> 0, misses |-> 0, evictions |-> 0, count |-> 0,
                      size |-> 0]
             fr == [pc |-> "counters", next |-> 0, total |-> none]
  <2>1. call' = [call EXCEPT ![g] = fr]
    BY <1>3 DEF StatsStart, Sweep
  <2> HIDE DEF none
  <2>2. fr.pc # "count"
    OBVIOUS
  <2> HIDE DEF fr
  <2> QED BY <1>1, <2>1, <2>2, CallKeeps
<1>4. CASE ClearReturn(g) \/ StatsReturn(g)
  <2>1. Idle.pc # "count" /\ call' = [call EXCEPT ![g] = Idle]
    BY <1>4 DEF ClearReturn, StatsReturn, Return, Idle
  <2> QED BY <1>1, <2>1, CallKeeps
<1>5. ASSUME NEW pc \in {"sizes", "counters"}, NEW next, NEW total,
             call' = [call EXCEPT ![g] = [pc |-> pc, next |-> next, total |-> total]]
      PROVE  KeepsContract
  <2> DEFINE fr == [pc |-> pc, next |-> next, total |-> total]
  <2>1. fr.pc # "count" /\ call' = [call EXCEPT ![g] = fr]
    BY <1>5
  <2> HIDE DEF fr
  <2> QED BY <1>1, <2>1, CallKeeps
<1>6. CASE StatsCounters(g)
  <2>1. PICK total : call' = [call EXCEPT ![g] = [pc |-> "sizes",
                                   next |-> call[g].next, total |-> total]]
    BY <1>6, Zenon DEF StatsCounters
  <2> QED BY <1>5, <2>1
<1>7. CASE StatsSizes(g)
  <2>1. PICK total : call' = [call EXCEPT ![g] = [pc |-> "counters",
                                   next |-> call[g].next + 1, total |-> total]]
    BY <1>7, Zenon DEF StatsSizes
  <2> QED BY <1>5, <2>1
<1> QED BY <1>2, <1>3, <1>4, <1>6, <1>7

\* Every step of the cache is a step of the contract of each shard, or none.
LEMMA NextKeeps ==
    ASSUME HashCount <= IntHalf, CInv, [Next]_vars
    PROVE  KeepsContract
<1>1. ASSUME NEW g \in Goroutines, NEW k \in Keys, NEW size \in Sizes, Set(g, k, size)
      PROVE  KeepsContract
  BY <1>1, SetKeeps
<1>2. ASSUME NEW g \in Goroutines, NEW k \in Keys, Get(g, k)
      PROVE  KeepsContract
  BY <1>2, GetKeeps
<1>3. ASSUME NEW g \in Goroutines, NEW k \in Keys, Delete(g, k)
      PROVE  KeepsContract
  BY <1>3, DeleteKeeps
<1>4. ASSUME NEW g \in Goroutines, EvictOne(g)
      PROVE  KeepsContract
  BY <1>4, EvictOneKeeps
<1>5. ASSUME NEW g \in Goroutines, SetReturn(g)
      PROVE  KeepsContract
  BY <1>5, SetReturnKeeps
<1>6. ASSUME NEW g \in Goroutines, GetExpired(g)
      PROVE  KeepsContract
  BY <1>6, GetExpiredKeeps
<1>7. ASSUME NEW g \in Goroutines, GetCount(g)
      PROVE  KeepsContract
  BY <1>7, GetCountKeeps
<1>8. ASSUME NEW g \in Goroutines,
             \/ ClearStart(g) \/ ClearReturn(g)
             \/ StatsStart(g) \/ StatsCounters(g) \/ StatsSizes(g) \/ StatsReturn(g)
      PROVE  KeepsContract
  BY <1>8, SweepKeeps
<1>9. ASSUME NEW g \in Goroutines, ClearShard(g)
      PROVE  KeepsContract
  BY <1>9, ClearShardKeeps
<1>10. ASSUME NEW k \in Keys, Cleanup(k)
      PROVE  KeepsContract
  BY <1>10, CleanupKeeps
<1>11. CASE UNCHANGED vars
  <2>1. \A j : Pendings(j)' = Pendings(j)
    BY <1>11 DEF vars, Pendings, PendingOf, getShard
  <2> QED BY <1>11, <2>1, ShardUntouched DEF KeepsContract, vars
<1>12. CASE Finished
  BY <1>12, <1>11 DEF Finished
<1> QED
  BY <1>1, <1>2, <1>3, <1>4, <1>5, <1>6, <1>7, <1>8, <1>9, <1>10, <1>11, <1>12
  DEF Next

\* Every shard of the cache keeps the contract that CacheShard keeps: no step of
\* the cache, a Clear's and a Stats's included, enters a shard that a Set has
\* locked, or leaves it over its part of the limit.
THEOREM EveryShardKeepsContract ==
    ASSUME HashCount <= IntHalf
    PROVE  Spec => ShardsKeepContract
<1>1. CInv /\ [Next]_vars => KeepsContract
  BY NextKeeps
<1> QED BY <1>1, CacheInvariance, PTL DEF Spec, ShardsKeepContract

-----------------------------------------------------------------------------
(* A quiet Stats is exact: what it has added up so far is what the shards  *)
(* it has passed have now.                                                 *)

Hits == [i \in Shards |-> shards[i].hits]
Misses == [i \in Shards |-> shards[i].misses]
Evictions == [i \in Shards |-> shards[i].evictions]
ItemBytes == [i \in Shards |-> Size(shards[i])]

\* What the first n shards have.
SumBefore(numbers, n) == Cardinality(Bytes(numbers, 0 .. n - 1))

KeysBefore(n) == UNION {DOMAIN shards[i].items : i \in 0 .. n - 1}

\* No key is in two shards.
KeysAtHome == \A i \in Shards : \A k \in DOMAIN shards[i].items : getShard(k) = i

\* What a Stats has added up is what the shards have that it has passed.
Exact(fr) ==
    LET n == fr.next
        m == IF fr.pc = "sizes" THEN n + 1 ELSE n
    IN  /\ fr.total.hits = SumBefore(Hits, m)
        /\ fr.total.misses = SumBefore(Misses, m)
        /\ fr.total.evictions = SumBefore(Evictions, m)
        /\ fr.total.count = Cardinality(KeysBefore(n))
        /\ fr.total.size = SumBefore(ItemBytes, n)

InStats(fr) == fr.pc \in {"counters", "sizes"}

QuietIsExact ==
    \A g \in Goroutines : InStats(call[g]) /\ during[g].quiet => Exact(call[g])

\* A step that lets every Stats be: a quiet one sees no shard change.
StatsWaits ==
    \A g \in Goroutines :
        InStats(call'[g])
            => /\ call'[g] = call[g]
               /\ during'[g].quiet
                     => during[g].quiet /\ \A i \in Shards : Unchanged(i)

\* A step that puts keys in their shards only.
KeysGoHome ==
    \A i \in Shards : \A k \in DOMAIN shards'[i].items :
        k \in DOMAIN shards[i].items \/ getShard(k) = i

\* One more shard.
LEMMA SumOneMore ==
    ASSUME NEW n \in Shards, NEW numbers, \A i \in Shards : numbers[i] \in Nat
    PROVE  SumBefore(numbers, n + 1) = SumBefore(numbers, n) + numbers[n]
<1> DEFINE K == 0 .. n - 1
<1>1. n \in Nat /\ n \notin K /\ K \cup {n} = 0 .. (n + 1) - 1
  BY ShardNumbers
<1>2. IsFiniteSet(K)
  <2>1. 0 \in Int /\ n - 1 \in Int
    BY <1>1
  <2> QED BY <2>1, FS_Interval
<1>3. \A i \in K \cup {n} : numbers[i] \in Nat
  BY <1>1, ShardNumbers, ShardOfKey DEF Shards
<1> HIDE DEF K
<1>4. Cardinality(Bytes(numbers, K \cup {n})) = Cardinality(Bytes(numbers, K)) + numbers[n]
  BY <1>1, <1>2, <1>3, BytesAdd
<1> QED BY <1>1, <1>4 DEF SumBefore, K

\* Its keys are in none of those before.
LEMMA KeysOneMore ==
    ASSUME TypeOK, KeysAtHome, NEW n \in Shards
    PROVE  Cardinality(KeysBefore(n + 1))
              = Cardinality(KeysBefore(n)) + Cardinality(DOMAIN shards[n].items)
<1> DEFINE A == KeysBefore(n)
           B == DOMAIN shards[n].items
<1>1. n \in Nat /\ \A i \in 0 .. n : i \in Shards
  BY ShardNumbers, ShardOfKey DEF Shards
<1>2. A \subseteq Keys /\ B \subseteq Keys
  <2>1. \A i \in Shards : shards[i] \in ShardStates
    BY DEF TypeOK
  <2>2. \A i \in Shards : DOMAIN shards[i].items \subseteq Keys
    BY <2>1, ShardFields
  <2> QED BY <1>1, <2>2 DEF KeysBefore
<1>3. IsFiniteSet(A) /\ IsFiniteSet(B)
  BY <1>2, KeysAssumption, FS_Subset
<1>4. A \cap B = {}
  <2> SUFFICES ASSUME NEW k \in A, k \in B PROVE FALSE
    OBVIOUS
  <2>1. PICK i \in 0 .. n - 1 : k \in DOMAIN shards[i].items
    BY DEF KeysBefore
  <2>2. i \in Shards /\ i # n
    BY <1>1, <2>1
  <2>3. getShard(k) = i /\ getShard(k) = n
    BY <2>1, <2>2 DEF KeysAtHome
  <2> QED BY <2>2, <2>3
<1>5. KeysBefore(n + 1) = A \cup B
  <2>1. \A i : i \in 0 .. (n + 1) - 1 <=> i \in 0 .. n - 1 \/ i = n
    BY <1>1
  <2>2. \A k : k \in KeysBefore(n + 1)
                 <=> \E i \in 0 .. (n + 1) - 1 : k \in DOMAIN shards[i].items
    BY DEF KeysBefore
  <2>3. \A k : k \in A <=> \E i \in 0 .. n - 1 : k \in DOMAIN shards[i].items
    BY DEF KeysBefore
  <2> QED BY <2>1, <2>2, <2>3
<1> HIDE DEF A, B
<1>6. Cardinality(A \cup B) = Cardinality(A) + Cardinality(B) - Cardinality(A \cap B)
  BY <1>3, FS_Union
<1>7. Cardinality(A) \in Nat /\ Cardinality(B) \in Nat /\ Cardinality(A \cap B) = 0
  BY <1>3, <1>4, FS_CardinalityType, FS_EmptySet
<1>8. Cardinality(A \cup B) = Cardinality(A) + Cardinality(B)
  BY <1>6, <1>7
<1>9. Cardinality(KeysBefore(n + 1)) = Cardinality(A) + Cardinality(B)
  BY <1>5, <1>8
<1> QED BY <1>9 DEF A, B

\* The numbers that are added up.
LEMMA NumbersOfShards ==
    ASSUME TypeOK
    PROVE  \A i \in Shards :
              /\ Hits[i] = shards[i].hits /\ Hits[i] \in Nat
              /\ Misses[i] = shards[i].misses /\ Misses[i] \in Nat
              /\ Evictions[i] = shards[i].evictions /\ Evictions[i] \in Nat
              /\ ItemBytes[i] = Size(shards[i]) /\ ItemBytes[i] \in Nat
<1> SUFFICES ASSUME NEW i \in Shards
             PROVE  /\ Hits[i] = shards[i].hits /\ Hits[i] \in Nat
                    /\ Misses[i] = shards[i].misses /\ Misses[i] \in Nat
                    /\ Evictions[i] = shards[i].evictions /\ Evictions[i] \in Nat
                    /\ ItemBytes[i] = Size(shards[i]) /\ ItemBytes[i] \in Nat
  OBVIOUS
<1>1. shards[i] \in ShardStates
  BY DEF TypeOK
<1>2. Size(shards[i]) \in Nat
  BY <1>1, SizeProperties
<1> QED BY <1>1, <1>2, ShardFields DEF Hits, Misses, Evictions, ItemBytes

\* A shard that is moved moves alone.
LEMMA OneShardGoesHome ==
    ASSUME TypeOK, NEW i \in Shards, NEW t, shards' = [shards EXCEPT ![i] = t],
           \A k \in DOMAIN t.items : k \in DOMAIN shards[i].items \/ getShard(k) = i
    PROVE  KeysGoHome
BY DEF KeysGoHome, TypeOK

\* A shard whose items and counters stay.
LEMMA SameNumbers ==
    ASSUME TypeOK, NEW i \in Shards, NEW t, shards' = [shards EXCEPT ![i] = t],
           t.items = shards[i].items, t.hits = shards[i].hits,
           t.misses = shards[i].misses, t.evictions = shards[i].evictions
    PROVE  \A j \in Shards : Unchanged(j)
<1> SUFFICES ASSUME NEW j \in Shards PROVE Unchanged(j)
  OBVIOUS
<1>1. shards'[i] = t /\ (j # i => shards'[j] = shards[j])
  BY DEF TypeOK
<1>2. CASE j = i
  BY <1>1, <1>2 DEF Unchanged
<1>3. CASE j # i
  BY <1>1, <1>3 DEF Unchanged
<1> QED BY <1>2, <1>3

\* So they do when the lock is given back,
LEMMA UnlockedFields ==
    ASSUME NEW s \in ShardStates, NEW t, t = Unlocked(s)
    PROVE  /\ t.items = s.items /\ t.hits = s.hits
           /\ t.misses = s.misses /\ t.evictions = s.evictions
<1>1. t = [items |-> s.items, cleanups |-> s.cleanups, hits |-> s.hits,
           misses |-> s.misses, evictions |-> s.evictions, writer |-> NoGoroutine]
  BY ShardFields DEF Unlocked
<1> QED BY <1>1

\* and when a cleanup is started.
LEMMA StartedFields ==
    ASSUME NEW s \in ShardStates, NEW k \in Keys, NEW t, t = CleanupStarted(s, k)
    PROVE  /\ t.items = s.items /\ t.hits = s.hits
           /\ t.misses = s.misses /\ t.evictions = s.evictions
<1> DEFINE more == [s.cleanups EXCEPT ![k] = @ + 1]
<1>1. t = [s EXCEPT !.cleanups = more]
  BY DEF CleanupStarted
<1> HIDE DEF more
<1>2. t = [items |-> s.items, cleanups |-> more, hits |-> s.hits,
           misses |-> s.misses, evictions |-> s.evictions, writer |-> s.writer]
  BY <1>1, ShardFields
<1> QED BY <1>2

\* A call that is no Stats.
LEMMA OtherCallWaits ==
    ASSUME CInv, NEW K, Observed(K) \/ (during' = during /\ \A i \in Shards : Unchanged(i)),
           \/ call' = call
           \/ \E h \in Goroutines, fr \in Frames :
                 call' = [call EXCEPT ![h] = fr] /\ ~InStats(fr)
    PROVE  StatsWaits
<1> SUFFICES ASSUME NEW g \in Goroutines, InStats(call'[g])
             PROVE  /\ call'[g] = call[g]
                    /\ during'[g].quiet
                          => during[g].quiet /\ \A i \in Shards : Unchanged(i)
  BY DEF StatsWaits
<1>1. call'[g] = call[g]
  BY DEF CInv, TypeOK
<1>2. CASE Observed(K)
  <2>1. Sweeping(g)
    BY <1>1 DEF InStats, Sweeping
  <2>2. during'[g].quiet = (during[g].quiet /\ \A i \in Shards : Unchanged(i))
    BY <1>2, <2>1 DEF Observed
  <2> QED BY <1>1, <2>2
<1>3. CASE during' = during /\ \A i \in Shards : Unchanged(i)
  BY <1>1, <1>3
<1> QED BY <1>2, <1>3

\* A step that changes no shard, and the frame of one call.
LEMMA NoShardChanges ==
    ASSUME shards' = shards
    PROVE  KeysGoHome /\ \A i \in Shards : Unchanged(i)
BY DEF KeysGoHome, Unchanged

\* Every step that is none of a Stats lets Stats be, and puts keys in their shards.
LEMMA OtherStepsWait ==
    ASSUME HashCount <= IntHalf, CInv, [Next]_vars
    PROVE  \/ StatsWaits /\ KeysGoHome
           \/ \E g \in Goroutines : StatsStart(g) \/ StatsCounters(g) \/ StatsSizes(g)
                                       \/ ClearStart(g) \/ ClearReturn(g) \/ StatsReturn(g)
<1>1. TypeOK /\ call \in [Goroutines -> Frames]
  BY DEF CInv, TypeOK
<1>2. Idle \in Frames /\ ~InStats(Idle)
  BY DEF Frames, Idle, InStats
<1>3. ASSUME NEW g \in Goroutines, NEW k \in Keys, NEW size \in Sizes, Set(g, k, size)
      PROVE  StatsWaits /\ KeysGoHome
  <2> DEFINE i == getShard(k)
             fr == [pc |-> "evict", shard |-> i]
             t == Stored(shards[i], g, k, size)
  <2>1. i \in Shards /\ shards[i] \in ShardStates
    BY <1>1, ShardOfKey DEF TypeOK
  <2>2. /\ shards' = [shards EXCEPT ![i] = t]
        /\ call' = [call EXCEPT ![g] = fr] /\ Observed({k})
    BY <1>3 DEF Set
  <2>3. \A j \in DOMAIN t.items : j \in DOMAIN shards[i].items \/ getShard(j) = i
    BY <2>1, StoredProperties
  <2>4. fr \in Frames /\ ~InStats(fr)
    BY <2>1 DEF Frames, InStats
  <2> HIDE DEF i, fr, t
  <2> QED BY <1>1, <2>1, <2>2, <2>3, <2>4, OneShardGoesHome, OtherCallWaits
<1>4. ASSUME NEW g \in Goroutines, NEW k \in Keys, Get(g, k)
      PROVE  StatsWaits /\ KeysGoHome
  <2> DEFINE hit == k \in DOMAIN shards[getShard(k)].items
             fr == [pc |-> "count", key |-> k, hit |-> hit]
  <2>1. /\ shards' = shards /\ during' = during
        /\ call' = [call EXCEPT ![g] = fr]
    BY <1>4 DEF Get
  <2>2. hit \in BOOLEAN
    OBVIOUS
  <2> HIDE DEF hit
  <2>3. fr \in Frames /\ ~InStats(fr)
    BY <2>2 DEF Frames, InStats
  <2> HIDE DEF fr
  <2> QED BY <2>1, <2>3, NoShardChanges, OtherCallWaits
<1>5. ASSUME NEW g \in Goroutines, NEW k \in Keys, Delete(g, k)
      PROVE  StatsWaits /\ KeysGoHome
  <2> DEFINE i == getShard(k)
             t == Without(shards[i], k)
  <2>1. i \in Shards /\ shards[i] \in ShardStates
    BY <1>1, ShardOfKey DEF TypeOK
  <2>2. shards' = [shards EXCEPT ![i] = t] /\ call' = call /\ Observed({})
    BY <1>5 DEF Delete
  <2> HIDE DEF i
  <2>3. DOMAIN t.items \subseteq DOMAIN shards[i].items
    BY <2>1, WithoutProperties
  <2> HIDE DEF t
  <2> QED BY <1>1, <2>1, <2>2, <2>3, OneShardGoesHome, OtherCallWaits
<1>6. ASSUME NEW g \in Goroutines, EvictOne(g)
      PROVE  StatsWaits /\ KeysGoHome
  <2> DEFINE i == call[g].shard
  <2>1. PICK k \in DOMAIN shards[i].items : shards' = [shards EXCEPT ![i] = Evicted(shards[i], k)]
    BY <1>6 DEF EvictOne
  <2> DEFINE t == Evicted(shards[i], k)
  <2>2. call[g].pc = "evict" /\ call' = call /\ Observed({})
    BY <1>6 DEF EvictOne
  <2>3. i \in Shards /\ shards[i] \in ShardStates
    BY <1>1, <2>2, FrameKinds DEF TypeOK
  <2> HIDE DEF i
  <2>4. DOMAIN t.items \subseteq DOMAIN shards[i].items
    BY <2>3, EvictedProperties
  <2> HIDE DEF t
  <2> QED BY <1>1, <2>1, <2>2, <2>3, <2>4, OneShardGoesHome, OtherCallWaits DEF t
<1>7. ASSUME NEW g \in Goroutines, SetReturn(g)
      PROVE  StatsWaits /\ KeysGoHome
  <2> DEFINE i == call[g].shard
             t == Unlocked(shards[i])
  <2>1. /\ call[g].pc = "evict" /\ shards' = [shards EXCEPT ![i] = t]
        /\ call' = [call EXCEPT ![g] = Idle] /\ during' = during
    BY <1>7 DEF SetReturn
  <2>2. i \in Shards /\ shards[i] \in ShardStates
    BY <1>1, <2>1, FrameKinds DEF TypeOK
  <2> HIDE DEF i
  <2>3. /\ t.items = shards[i].items /\ t.hits = shards[i].hits
        /\ t.misses = shards[i].misses /\ t.evictions = shards[i].evictions
    BY <2>2, UnlockedFields
  <2> HIDE DEF t
  <2>4. \A j \in Shards : Unchanged(j)
    BY <1>1, <2>1, <2>2, <2>3, SameNumbers
  <2> QED BY <1>1, <1>2, <2>1, <2>2, <2>3, <2>4, OneShardGoesHome, OtherCallWaits
<1>8. ASSUME NEW g \in Goroutines, GetExpired(g)
      PROVE  StatsWaits /\ KeysGoHome
  <2> DEFINE k == call[g].key
             i == getShard(k)
             t == CleanupStarted(shards[i], k)
             fr == [call[g] EXCEPT !.hit = FALSE]
  <2>1. /\ call[g].pc = "count" /\ shards' = [shards EXCEPT ![i] = t]
        /\ call' = [call EXCEPT ![g] = fr] /\ during' = during
    BY <1>8 DEF GetExpired
  <2>2. call[g] \in Frames /\ k \in Keys
    BY <1>1, <2>1, FrameKinds
  <2>3. fr = [pc |-> "count", key |-> k, hit |-> FALSE]
    BY <2>1, <2>2, MissFrame
  <2> HIDE DEF fr, k
  <2>4. fr \in Frames /\ ~InStats(fr)
    BY <2>2, <2>3 DEF Frames, InStats
  <2>5. i \in Shards /\ shards[i] \in ShardStates
    BY <1>1, <2>2, ShardOfKey DEF TypeOK
  <2> HIDE DEF i
  <2>6. /\ t.items = shards[i].items /\ t.hits = shards[i].hits
        /\ t.misses = shards[i].misses /\ t.evictions = shards[i].evictions
    BY <2>2, <2>5, StartedFields
  <2> HIDE DEF t
  <2>7. \A j \in Shards : Unchanged(j)
    BY <1>1, <2>1, <2>5, <2>6, SameNumbers
  <2> QED BY <1>1, <2>1, <2>4, <2>5, <2>6, <2>7, OneShardGoesHome, OtherCallWaits
<1>9. ASSUME NEW g \in Goroutines, GetCount(g)
      PROVE  StatsWaits /\ KeysGoHome
  <2> DEFINE i == getShard(call[g].key)
             t == Counted(shards[i], call[g].hit)
  <2>1. /\ call[g].pc = "count" /\ shards' = [shards EXCEPT ![i] = t]
        /\ call' = [call EXCEPT ![g] = Idle] /\ Observed({})
    BY <1>9 DEF GetCount
  <2>2. call[g].key \in Keys /\ call[g].hit \in BOOLEAN
    BY <1>1, <2>1, FrameKinds
  <2>3. i \in Shards /\ shards[i] \in ShardStates
    BY <1>1, <2>2, ShardOfKey DEF TypeOK
  <2> HIDE DEF i
  <2>4. t.items = shards[i].items
    BY <2>2, <2>3, CountedProperties
  <2> HIDE DEF t
  <2> QED BY <1>1, <1>2, <2>1, <2>3, <2>4, OneShardGoesHome, OtherCallWaits
<1>10. ASSUME NEW g \in Goroutines, ClearShard(g)
       PROVE  StatsWaits /\ KeysGoHome
  <2> DEFINE i == call[g].next
             t == Cleared(shards[i])
             fr == [call[g] EXCEPT !.next = @ + 1]
  <2>1. /\ call[g].pc = "clear" /\ i \in Shards
        /\ shards' = [shards EXCEPT ![i] = t]
        /\ call' = [call EXCEPT ![g] = fr] /\ Observed({})
    BY <1>10 DEF ClearShard
  <2>2. call[g] = [pc |-> "clear", next |-> i] /\ i + 1 \in 0 .. shardCount
    BY <1>1, <2>1, FrameKinds, ShardNumbers
  <2>3. fr \in Frames /\ ~InStats(fr)
    BY <2>2 DEF Frames, InStats
  <2> HIDE DEF fr
  <2>4. DOMAIN t.items = {}
    BY <1>1, <2>1, ClearedProperties DEF TypeOK
  <2> HIDE DEF i, t
  <2> QED BY <1>1, <2>1, <2>3, <2>4, OneShardGoesHome, OtherCallWaits
<1>11. ASSUME NEW k \in Keys, Cleanup(k)
       PROVE  StatsWaits /\ KeysGoHome
  <2> DEFINE i == getShard(k)
             t == CleanedUp(shards[i], k)
  <2>1. i \in Shards /\ shards[i] \in ShardStates
    BY <1>1, ShardOfKey DEF TypeOK
  <2>2. /\ shards' = [shards EXCEPT ![i] = t] /\ call' = call /\ Observed({})
        /\ shards[i].cleanups[k] > 0
    BY <1>11 DEF Cleanup
  <2> HIDE DEF i
  <2>3. DOMAIN t.items \subseteq DOMAIN shards[i].items
    BY <2>1, <2>2, CleanedUpProperties
  <2> HIDE DEF t
  <2> QED BY <1>1, <2>1, <2>2, <2>3, OneShardGoesHome, OtherCallWaits
<1>12. CASE UNCHANGED vars \/ Finished
  <2>1. shards' = shards /\ call' = call /\ during' = during
    BY <1>12 DEF Finished, vars
  <2> QED BY <2>1, NoShardChanges, OtherCallWaits
<1> QED
  BY <1>3, <1>4, <1>5, <1>6, <1>7, <1>8, <1>9, <1>10, <1>11, <1>12 DEF Next

\* Stats that wait stay exact.
LEMMA WaitingIsExact ==
    ASSUME CInv, KeysAtHome, QuietIsExact, StatsWaits, KeysGoHome
    PROVE  KeysAtHome' /\ QuietIsExact'
<1>1. KeysAtHome'
  BY DEF KeysAtHome, KeysGoHome
<1>2. ASSUME NEW g \in Goroutines, InStats(call'[g]), during'[g].quiet
      PROVE  Exact(call[g])' /\ call'[g] = call[g]
  <2>1. /\ call'[g] = call[g] /\ during[g].quiet
        /\ \A i \in Shards : Unchanged(i)
    BY <1>2 DEF StatsWaits
  <2>2. \A i \in Shards : /\ shards'[i].items = shards[i].items
                          /\ shards'[i].hits = shards[i].hits
                          /\ shards'[i].misses = shards[i].misses
                          /\ shards'[i].evictions = shards[i].evictions
    BY <2>1 DEF Unchanged
  <2>3. Hits' = Hits /\ Misses' = Misses /\ Evictions' = Evictions
    BY <2>2 DEF Hits, Misses, Evictions
  <2>4. ItemBytes' = ItemBytes
    BY <2>2 DEF ItemBytes, Size
  <2>5. Exact(call[g])
    BY <1>2, <2>1 DEF QuietIsExact
  <2>6. call[g].next \in 0 .. shardCount
    <3>1. call[g] \in Frames /\ call[g].pc \in {"counters", "sizes"}
      BY <1>2, <2>1 DEF CInv, TypeOK, InStats
    <3> QED BY <3>1, FrameKinds
  <2>7. KeysBefore(call[g].next)' = KeysBefore(call[g].next)
    <3> DEFINE K == 0 .. call[g].next - 1
    <3>1. \A i \in K : i \in Shards
      BY <2>6, ShardOfKey DEF Shards
    <3>2. K' = K
      BY <2>1
    <3>3. KeysBefore(call[g].next) = UNION {DOMAIN shards[i].items : i \in K}
      BY DEF KeysBefore
    <3>4. KeysBefore(call[g].next)' = UNION {DOMAIN shards'[i].items : i \in K}
      BY <2>1 DEF KeysBefore
    <3> HIDE DEF K
    <3> QED BY <2>2, <3>1, <3>3, <3>4
  <2> QED BY <2>1, <2>3, <2>4, <2>5, <2>7 DEF Exact, SumBefore
<1>3. QuietIsExact'
  BY <1>2 DEF QuietIsExact
<1> QED BY <1>1, <1>3

\* A call that changes no shard keeps its Stats exact if it is.
LEMMA CallIsExact ==
    ASSUME CInv, KeysAtHome, QuietIsExact, NEW g \in Goroutines, NEW fr \in Frames,
           call' = [call EXCEPT ![g] = fr], shards' = shards,
           \A h \in Goroutines : h # g => during'[h] = during[h],
           InStats(fr) /\ during'[g].quiet => Exact(fr)
    PROVE  KeysAtHome' /\ QuietIsExact'
<1>1. KeysAtHome'
  BY DEF KeysAtHome
<1>2. call'[g] = fr /\ \A h \in Goroutines : h # g => call'[h] = call[h]
  BY DEF CInv, TypeOK
<1>3. ASSUME NEW h \in Goroutines, InStats(call'[h]), during'[h].quiet
      PROVE  Exact(call'[h])
  <2>1. CASE h = g
    BY <1>2, <1>3, <2>1
  <2>2. CASE h # g
    BY <1>2, <1>3, <2>2 DEF QuietIsExact
  <2> QED BY <2>1, <2>2
<1>4. \A r : Exact(r)' = Exact(r)
  BY DEF Exact, SumBefore, KeysBefore, Hits, Misses, Evictions, ItemBytes
<1> QED BY <1>1, <1>3, <1>4 DEF QuietIsExact

\* No shards, no sum.
LEMMA NothingBefore ==
    ASSUME NEW numbers
    PROVE  SumBefore(numbers, 0) = 0 /\ Cardinality(KeysBefore(0)) = 0
<1>1. 0 .. 0 - 1 = {}
  OBVIOUS
<1>2. KeysBefore(0) = {}
  BY <1>1 DEF KeysBefore
<1> QED BY <1>1, <1>2, BytesNone, FS_EmptySet DEF SumBefore

\* Stats adds the counters of a shard,
LEMMA CountersAreExact ==
    ASSUME CInv, KeysAtHome, QuietIsExact, NEW g \in Goroutines, StatsCounters(g)
    PROVE  KeysAtHome' /\ QuietIsExact'
<1> DEFINE i == call[g].next
           s == shards[i]
           old == call[g].total
           total == [old EXCEPT !.hits = @ + s.hits, !.misses = @ + s.misses,
                                !.evictions = @ + s.evictions]
           fr == [pc |-> "sizes", next |-> i, total |-> total]
<1>1. /\ call[g].pc = "counters" /\ i \in Shards
      /\ UNCHANGED <<maxSize, shards, ops, during>>
      /\ call' = [call EXCEPT ![g] = fr]
      /\ TypeOK /\ call \in [Goroutines -> Frames]
  BY DEF StatsCounters, CInv, TypeOK
<1>2. old \in Totals
  BY <1>1, FrameKinds
<1>3. /\ total.hits = old.hits + s.hits /\ total.misses = old.misses + s.misses
      /\ total.evictions = old.evictions + s.evictions
      /\ total.count = old.count /\ total.size = old.size
      /\ total \in Totals
  <2> DEFINE h == old.hits + s.hits
             m == old.misses + s.misses
             e == old.evictions + s.evictions
  <2>1. h \in Nat /\ m \in Nat /\ e \in Nat
    BY <1>1, <1>2, TotalsFields, NumbersOfShards
  <2>2. total = [old EXCEPT !.hits = h, !.misses = m, !.evictions = e]
    OBVIOUS
  <2> HIDE DEF h, m, e, old, total
  <2>3. total = [hits |-> h, misses |-> m, evictions |-> e, count |-> old.count,
                 size |-> old.size]
    BY <1>2, <2>2, CountersAdded
  <2>4. total \in Totals
    BY <1>2, <2>1, <2>3, TotalsFields DEF Totals
  <2> QED BY <2>3, <2>4 DEF h, m, e
<1> HIDE DEF total
<1>4. fr \in Frames /\ fr.pc = "sizes" /\ fr.next = i /\ fr.total = total
  BY <1>1, <1>3, ShardNumbers DEF Frames
<1>5. ASSUME during[g].quiet PROVE Exact(fr)
  <2>1. Exact(call[g])
    BY <1>1, <1>5 DEF QuietIsExact, InStats
  <2>2. /\ old.hits = SumBefore(Hits, i) /\ old.misses = SumBefore(Misses, i)
        /\ old.evictions = SumBefore(Evictions, i)
        /\ old.count = Cardinality(KeysBefore(i))
        /\ old.size = SumBefore(ItemBytes, i)
    BY <1>1, <2>1 DEF Exact
  <2>3. /\ SumBefore(Hits, i + 1) = SumBefore(Hits, i) + s.hits
        /\ SumBefore(Misses, i + 1) = SumBefore(Misses, i) + s.misses
        /\ SumBefore(Evictions, i + 1) = SumBefore(Evictions, i) + s.evictions
    BY <1>1, NumbersOfShards, SumOneMore
  <2> HIDE DEF fr, i, s, old
  <2> QED BY <1>3, <1>4, <2>2, <2>3 DEF Exact
<1> HIDE DEF fr
<1> QED BY <1>1, <1>4, <1>5, CallIsExact

\* and its sizes.
LEMMA SizesAreExact ==
    ASSUME CInv, KeysAtHome, QuietIsExact, NEW g \in Goroutines, StatsSizes(g)
    PROVE  KeysAtHome' /\ QuietIsExact'
<1> DEFINE i == call[g].next
           s == shards[i]
           old == call[g].total
           items == Cardinality(DOMAIN s.items)
           total == [old EXCEPT !.count = @ + items, !.size = @ + Size(s)]
           fr == [pc |-> "counters", next |-> i + 1, total |-> total]
<1>1. /\ call[g].pc = "sizes" /\ i \in Shards
      /\ UNCHANGED <<maxSize, shards, ops, during>>
      /\ call' = [call EXCEPT ![g] = fr]
      /\ TypeOK /\ call \in [Goroutines -> Frames]
  BY DEF StatsSizes, CInv, TypeOK, TotalsFit
<1>2. old \in Totals
  BY <1>1, FrameKinds
<1>3. /\ total.hits = old.hits /\ total.misses = old.misses
      /\ total.evictions = old.evictions
      /\ total.count = old.count + items /\ total.size = old.size + Size(s)
      /\ total \in Totals
  <2> DEFINE n == old.count + items
             size == old.size + Size(s)
  <2>1. n \in Nat /\ size \in Nat
    <3>1. s \in ShardStates
      BY <1>1 DEF TypeOK
    <3>2. IsFiniteSet(DOMAIN s.items)
      BY <3>1, ShardFields, KeysAssumption, FS_Subset
    <3>3. items \in Nat /\ Size(s) \in Nat
      BY <3>1, <3>2, SizeProperties, FS_CardinalityType
    <3> QED BY <1>2, <3>3, TotalsFields
  <2>2. total = [old EXCEPT !.count = n, !.size = size]
    OBVIOUS
  <2> HIDE DEF n, size, old, total
  <2>3. total = [hits |-> old.hits, misses |-> old.misses, evictions |-> old.evictions,
                 count |-> n, size |-> size]
    BY <1>2, <2>2, SizesAdded
  <2>4. total \in Totals
    BY <1>2, <2>1, <2>3, TotalsFields DEF Totals
  <2> QED BY <2>3, <2>4 DEF n, size
<1> HIDE DEF total
<1>4. fr \in Frames /\ fr.pc = "counters" /\ fr.next = i + 1 /\ fr.total = total
  BY <1>1, <1>3, ShardNumbers DEF Frames
<1>5. ASSUME during[g].quiet PROVE Exact(fr)
  <2>1. Exact(call[g])
    BY <1>1, <1>5 DEF QuietIsExact, InStats
  <2>2. /\ old.hits = SumBefore(Hits, i + 1) /\ old.misses = SumBefore(Misses, i + 1)
        /\ old.evictions = SumBefore(Evictions, i + 1)
        /\ old.count = Cardinality(KeysBefore(i))
        /\ old.size = SumBefore(ItemBytes, i)
    BY <1>1, <2>1 DEF Exact
  <2>3. SumBefore(ItemBytes, i + 1) = SumBefore(ItemBytes, i) + Size(s)
    BY <1>1, NumbersOfShards, SumOneMore
  <2>4. Cardinality(KeysBefore(i + 1)) = Cardinality(KeysBefore(i)) + items
    BY <1>1, KeysOneMore
  <2> HIDE DEF fr, i, s, old, items
  <2> QED BY <1>3, <1>4, <2>2, <2>3, <2>4 DEF Exact
<1> HIDE DEF fr
<1> QED BY <1>1, <1>4, <1>5, CallIsExact

\* A sweep that starts has added up nothing, and one that returns is none.
LEMMA EndsAreExact ==
    ASSUME CInv, KeysAtHome, QuietIsExact, NEW g \in Goroutines,
           StatsStart(g) \/ ClearStart(g) \/ ClearReturn(g) \/ StatsReturn(g)
    PROVE  KeysAtHome' /\ QuietIsExact'
<1>1. ASSUME NEW fr \in Frames, Sweep(g, fr), InStats(fr) => Exact(fr)
      PROVE  KeysAtHome' /\ QuietIsExact'
  <2>1. /\ call' = [call EXCEPT ![g] = fr] /\ shards' = shards
        /\ during' = [during EXCEPT ![g].empty = (StoredKeys = {})]
        /\ during \in [Goroutines -> Observations]
    BY <1>1 DEF Sweep, CInv, TypeOK
  <2>2. \A h \in Goroutines : h # g => during'[h] = during[h]
    BY <2>1
  <2> QED BY <1>1, <2>1, <2>2, CallIsExact
<1>2. CASE StatsStart(g)
  <2> DEFINE none == [hits |-> 0, misses |-> 0, evictions |-> 0, count |-> 0,
                      size |-> 0]
             fr == [pc |-> "counters", next |-> 0, total |-> none]
  <2>1. none \in Totals
    BY DEF Totals
  <2>2. fr \in Frames
    BY <2>1, ShardNumbers DEF Frames
  <2>3. Exact(fr)
    BY NothingBefore DEF Exact
  <2>4. Sweep(g, fr)
    BY <1>2 DEF StatsStart
  <2> HIDE DEF fr
  <2> QED BY <1>1, <2>2, <2>3, <2>4
<1>3. CASE ClearStart(g)
  <2> DEFINE fr == [pc |-> "clear", next |-> 0]
  <2>1. fr \in Frames /\ ~InStats(fr)
    BY ShardNumbers DEF Frames, InStats
  <2>2. Sweep(g, fr)
    BY <1>3 DEF ClearStart
  <2> HIDE DEF fr
  <2> QED BY <1>1, <2>1, <2>2
<1>4. CASE ClearReturn(g) \/ StatsReturn(g)
  <2>1. Idle \in Frames /\ ~InStats(Idle)
    BY DEF Frames, Idle, InStats
  <2>2. /\ call' = [call EXCEPT ![g] = Idle] /\ shards' = shards
        /\ during' = [during EXCEPT ![g] = Unseen]
        /\ during \in [Goroutines -> Observations]
    BY <1>4 DEF ClearReturn, StatsReturn, Return, CInv, TypeOK
  <2>3. \A h \in Goroutines : h # g => during'[h] = during[h]
    BY <2>2
  <2> QED BY <2>1, <2>2, <2>3, CallIsExact
<1> QED BY <1>2, <1>3, <1>4

\* When no item and no counter changes while Stats goes from shard to shard, all
\* five totals it returns are exact (cache.go:229).
THEOREM QuietStatsIsExact ==
    ASSUME HashCount <= IntHalf
    PROVE  Spec => []StatsExactWhenQuiet
<1>1. Init => KeysAtHome /\ QuietIsExact
  <2> SUFFICES ASSUME Init PROVE KeysAtHome /\ QuietIsExact
    OBVIOUS
  <2>1. \A i \in Shards : DOMAIN shards[i].items = {}
    BY ClearedProperties DEF Init
  <2>2. \A g \in Goroutines : ~InStats(call[g])
    BY DEF Init, Idle, InStats
  <2> QED BY <2>1, <2>2 DEF KeysAtHome, QuietIsExact
<1>2. CInv /\ KeysAtHome /\ QuietIsExact /\ [Next]_vars => KeysAtHome' /\ QuietIsExact'
  BY OtherStepsWait, WaitingIsExact, CountersAreExact, SizesAreExact, EndsAreExact
<1>3. CInv /\ QuietIsExact => StatsExactWhenQuiet
  <2> SUFFICES ASSUME CInv, QuietIsExact,
                      NEW g \in Goroutines, StatsDone(g), during[g].quiet
               PROVE  call[g].total =
                         [hits      |-> Sum([i \in Shards |-> shards[i].hits]),
                          misses    |-> Sum([i \in Shards |-> shards[i].misses]),
                          evictions |-> Sum([i \in Shards |-> shards[i].evictions]),
                          count     |-> Cardinality(StoredKeys),
                          size      |-> Sum([i \in Shards |-> Size(shards[i])])]
    BY DEF StatsExactWhenQuiet
  <2> DEFINE t == call[g].total
  <2>1. Exact(call[g]) /\ call[g].pc = "counters" /\ call[g].next = shardCount
    BY DEF QuietIsExact, StatsDone, InStats
  <2>2. /\ t.hits = SumBefore(Hits, shardCount)
        /\ t.misses = SumBefore(Misses, shardCount)
        /\ t.evictions = SumBefore(Evictions, shardCount)
        /\ t.count = Cardinality(KeysBefore(shardCount))
        /\ t.size = SumBefore(ItemBytes, shardCount)
    BY <2>1 DEF Exact
  <2>3. \A numbers : SumBefore(numbers, shardCount) = Sum(numbers)
    BY DEF SumBefore, Sum, Shards
  <2>4. KeysBefore(shardCount) = StoredKeys
    BY DEF KeysBefore, StoredKeys, Shards
  <2>5. t \in Totals
    BY FrameKinds DEF StatsDone, CInv, TypeOK
  <2>6. t = [hits |-> t.hits, misses |-> t.misses, evictions |-> t.evictions,
             count |-> t.count, size |-> t.size]
    BY <2>5, TotalsFields
  <2> HIDE DEF t
  <2>7. t = [hits      |-> Sum(Hits), misses |-> Sum(Misses),
             evictions |-> Sum(Evictions), count |-> Cardinality(StoredKeys),
             size      |-> Sum(ItemBytes)]
    BY <2>2, <2>3, <2>4, <2>6
  <2> QED BY <2>7 DEF t, Hits, Misses, Evictions, ItemBytes
<1> QED BY <1>1, <1>2, <1>3, CacheInvariance, PTL DEF Spec

-----------------------------------------------------------------------------
(* One map.  The variables of CacheContract, by what they depend on.       *)

\* Those of the shards in S, where every key is looked for in its own.
KeysIn(S) == {k \in Keys : k \in DOMAIN S[getShard(k)].items}
ItemsIn(S) == [k \in KeysIn(S) |-> S[getShard(k)].items[k]]
CleanupsIn(S) == [k \in Keys |-> S[getShard(k)].cleanups[k]]

\* And of the calls in c.
SetsIn(c) == {g \in Goroutines : c[g].pc = "evict"}
GetsIn(c) == [g \in {h \in Goroutines : c[h].pc = "count"} |->
                 [key |-> c[g].key, hit |-> c[g].hit]]
ClearsIn(c) == {g \in Goroutines : c[g].pc = "clear"}
Clearing == [g \in ClearsIn(call) |-> StoredKeys \ during[g].stored]

\* A caller, or a key, joins or leaves.
Joined(f, x, v) == [y \in DOMAIN f \cup {x} |-> IF y = x THEN v ELSE f[y]]
Left(f, x) == [y \in DOMAIN f \ {x} |-> f[y]]

\* Who is outside every sweep has seen no key stored.
OutsideSweeps ==
    \A g \in Goroutines : ~Sweeping(g) => during[g].stored = {}

MInv == CInv /\ KeysAtHome /\ OutsideSweeps

\* When every key is at home, the keys of all shards are those found at home.
LEMMA KeysAreFound ==
    ASSUME HashCount <= IntHalf, NEW S \in [Shards -> ShardStates],
           \A i \in Shards : \A k \in DOMAIN S[i].items : getShard(k) = i
    PROVE  UNION {DOMAIN S[i].items : i \in Shards} = KeysIn(S)
<1>1. ASSUME NEW i \in Shards, NEW k \in DOMAIN S[i].items PROVE k \in KeysIn(S)
  <2>1. S[i] \in ShardStates /\ getShard(k) = i
    OBVIOUS
  <2> QED BY <2>1, ShardFields DEF KeysIn
<1>2. ASSUME NEW k \in KeysIn(S)
      PROVE  k \in UNION {DOMAIN S[i].items : i \in Shards}
  <2>1. getShard(k) \in Shards /\ k \in DOMAIN S[getShard(k)].items
    BY ShardOfKey DEF KeysIn
  <2> QED BY <2>1
<1> QED BY <1>1, <1>2

\* So the variables of the map depend on the shards and on the calls: before a step,
LEMMA MapVariables ==
    ASSUME HashCount <= IntHalf, MInv
    PROVE  /\ StoredKeys = KeysIn(shards)
           /\ [k \in StoredKeys |-> shards[getShard(k)].items[k]] = ItemsIn(shards)
           /\ [k \in Keys |-> shards[getShard(k)].cleanups[k]] = CleanupsIn(shards)
           /\ {g \in Goroutines : call[g].pc = "evict"} = SetsIn(call)
           /\ [g \in {h \in Goroutines : call[h].pc = "count"} |->
                  [key |-> call[g].key, hit |-> call[g].hit]] = GetsIn(call)
           /\ [g \in {h \in Goroutines : call[h].pc = "clear"} |->
                  StoredKeys \ during[g].stored] = Clearing
<1>1. StoredKeys = KeysIn(shards)
  BY KeysAreFound DEF MInv, CInv, TypeOK, KeysAtHome, StoredKeys
<1>2. [k \in StoredKeys |-> shards[getShard(k)].items[k]] = ItemsIn(shards)
  BY <1>1 DEF ItemsIn
<1>3. [k \in Keys |-> shards[getShard(k)].cleanups[k]] = CleanupsIn(shards)
  BY DEF CleanupsIn
<1>4. {g \in Goroutines : call[g].pc = "evict"} = SetsIn(call)
  BY DEF SetsIn
<1>5. [g \in {h \in Goroutines : call[h].pc = "count"} |->
          [key |-> call[g].key, hit |-> call[g].hit]] = GetsIn(call)
  BY DEF GetsIn
<1>6. [g \in {h \in Goroutines : call[h].pc = "clear"} |->
          StoredKeys \ during[g].stored] = Clearing
  BY DEF Clearing, ClearsIn
<1> QED BY <1>1, <1>2, <1>3, <1>4, <1>5, <1>6

\* and after it.
LEMMA MapVariablesAfter ==
    ASSUME HashCount <= IntHalf, MInv'
    PROVE  /\ StoredKeys' = KeysIn(shards')
           /\ [k \in StoredKeys |-> shards[getShard(k)].items[k]]' = ItemsIn(shards')
           /\ [k \in Keys |-> shards[getShard(k)].cleanups[k]]' = CleanupsIn(shards')
           /\ {g \in Goroutines : call[g].pc = "evict"}' = SetsIn(call')
           /\ [g \in {h \in Goroutines : call[h].pc = "count"} |->
                  [key |-> call[g].key, hit |-> call[g].hit]]' = GetsIn(call')
           /\ [g \in {h \in Goroutines : call[h].pc = "clear"} |->
                  StoredKeys \ during[g].stored]' = Clearing'
<1>1. StoredKeys' = KeysIn(shards')
  <2>1. /\ shards' \in [Shards -> ShardStates]
        /\ \A i \in Shards : \A k \in DOMAIN shards'[i].items : getShard(k) = i
    BY DEF MInv, CInv, TypeOK, KeysAtHome
  <2>2. StoredKeys' = UNION {DOMAIN shards'[i].items : i \in Shards}
    BY DEF StoredKeys
  <2> QED BY <2>1, <2>2, KeysAreFound
<1>2. [k \in StoredKeys |-> shards[getShard(k)].items[k]]' = ItemsIn(shards')
  BY <1>1 DEF ItemsIn
<1>3. [k \in Keys |-> shards[getShard(k)].cleanups[k]]' = CleanupsIn(shards')
  BY DEF CleanupsIn
<1>4. {g \in Goroutines : call[g].pc = "evict"}' = SetsIn(call')
  BY DEF SetsIn
<1>5. [g \in {h \in Goroutines : call[h].pc = "count"} |->
          [key |-> call[g].key, hit |-> call[g].hit]]' = GetsIn(call')
  BY DEF GetsIn
<1>6. [g \in {h \in Goroutines : call[h].pc = "clear"} |->
          StoredKeys \ during[g].stored]' = Clearing'
  BY DEF Clearing, ClearsIn
<1> QED BY <1>1, <1>2, <1>3, <1>4, <1>5, <1>6

\* The contract's names for them.
LEMMA MapNames ==
    /\ \A f, x, v : Map!Enter(f, x, v) = Joined(f, x, v)
    /\ \A f, x : Map!Leave(f, x) = Left(f, x)
<1>1. \A f, x, v : Map!Enter(f, x, v) = Joined(f, x, v)
  BY Zenon DEF Map!Enter, Joined
<1>2. \A f, x : Map!Leave(f, x) = Left(f, x)
  BY Zenon DEF Map!Leave, Left
<1> QED BY <1>1, <1>2

\* Their types.
LEMMA ShardsOfCache ==
    ASSUME MInv
    PROVE  /\ shards \in [Shards -> ShardStates] /\ call \in [Goroutines -> Frames]
           /\ maxSize \in MaxSizes
           /\ \A g \in Goroutines : call[g] \in Frames
           /\ \A i \in Shards : shards[i] \in ShardStates
BY DEF MInv, CInv, TypeOK

-----------------------------------------------------------------------------
(* A shard moves.                                                          *)

\* Its items stay.
LEMMA ItemsStay ==
    ASSUME HashCount <= IntHalf, MInv,
           NEW i \in Shards, NEW t \in ShardStates, t.items = shards[i].items,
           shards' = [shards EXCEPT ![i] = t]
    PROVE  KeysIn(shards') = KeysIn(shards) /\ ItemsIn(shards') = ItemsIn(shards)
<1>1. \A k \in Keys : shards'[getShard(k)].items = shards[getShard(k)].items
  BY ShardOfKey, ShardsOfCache
<1>2. KeysIn(shards') = KeysIn(shards)
  BY <1>1 DEF KeysIn
<1>3. \A k \in KeysIn(shards) :
         shards'[getShard(k)].items[k] = shards[getShard(k)].items[k]
  BY <1>1 DEF KeysIn
<1> QED BY <1>2, <1>3 DEF ItemsIn

\* Its cleanups stay.
LEMMA CleanupsStay ==
    ASSUME HashCount <= IntHalf, MInv,
           NEW i \in Shards, NEW t \in ShardStates, t.cleanups = shards[i].cleanups,
           shards' = [shards EXCEPT ![i] = t]
    PROVE  CleanupsIn(shards') = CleanupsIn(shards)
<1>1. \A k \in Keys : shards'[getShard(k)].cleanups[k] = shards[getShard(k)].cleanups[k]
  BY ShardOfKey, ShardsOfCache
<1> QED BY <1>1 DEF CleanupsIn

\* Keys leave their shard, and the map.
LEMMA ItemsLeave ==
    ASSUME HashCount <= IntHalf, MInv,
           NEW i \in Shards, NEW t \in ShardStates, NEW K \in SUBSET Keys,
           \A k \in K : getShard(k) = i,
           DOMAIN t.items = DOMAIN shards[i].items \ K,
           \A k \in DOMAIN t.items : t.items[k] = shards[i].items[k],
           shards' = [shards EXCEPT ![i] = t]
    PROVE  /\ KeysIn(shards') = KeysIn(shards) \ K
           /\ ItemsIn(shards')
                = [k \in DOMAIN ItemsIn(shards) \ K |-> ItemsIn(shards)[k]]
<1>1. /\ shards'[i] = t /\ \A j \in Shards : j # i => shards'[j] = shards[j]
      /\ \A k \in Keys : getShard(k) \in Shards
  BY ShardOfKey, ShardsOfCache
<1>2. KeysIn(shards') = KeysIn(shards) \ K
  BY <1>1 DEF KeysIn
<1>3. \A k \in KeysIn(shards') :
         shards'[getShard(k)].items[k] = shards[getShard(k)].items[k]
  BY <1>1 DEF KeysIn
<1>4. DOMAIN ItemsIn(shards) = KeysIn(shards)
      /\ \A k \in KeysIn(shards) : ItemsIn(shards)[k] = shards[getShard(k)].items[k]
  BY DEF ItemsIn
<1>5. ItemsIn(shards') = [k \in KeysIn(shards) \ K |-> ItemsIn(shards)[k]]
  BY <1>2, <1>3, <1>4 DEF ItemsIn
<1> QED BY <1>2, <1>4, <1>5

\* A key joins its shard, and the map.
LEMMA ItemJoins ==
    ASSUME HashCount <= IntHalf, MInv,
           NEW i \in Shards, NEW k \in Keys, getShard(k) = i, NEW t \in ShardStates,
           DOMAIN t.items = DOMAIN shards[i].items \cup {k},
           \A j \in DOMAIN shards[i].items : j # k => t.items[j] = shards[i].items[j],
           shards' = [shards EXCEPT ![i] = t]
    PROVE  /\ KeysIn(shards') = KeysIn(shards) \cup {k}
           /\ ItemsIn(shards') = Joined(ItemsIn(shards), k, t.items[k])
<1> DEFINE size == t.items[k]
<1>1. /\ shards'[i] = t /\ \A j \in Shards : j # i => shards'[j] = shards[j]
      /\ \A j \in Keys : getShard(j) \in Shards
  BY ShardOfKey, ShardsOfCache
<1>2. /\ DOMAIN t.items = DOMAIN shards[i].items \cup {k}
      /\ t.items[k] = size
      /\ \A j \in DOMAIN shards[i].items : j # k => t.items[j] = shards[i].items[j]
  OBVIOUS
<1> HIDE DEF size
<1>3. KeysIn(shards') = KeysIn(shards) \cup {k}
  BY <1>1, <1>2 DEF KeysIn
<1>4. \A j \in KeysIn(shards') : shards'[getShard(j)].items[j]
                             = IF j = k THEN size ELSE shards[getShard(j)].items[j]
  BY <1>1, <1>2 DEF KeysIn
<1>5. DOMAIN ItemsIn(shards) = KeysIn(shards)
      /\ \A j \in KeysIn(shards) : ItemsIn(shards)[j] = shards[getShard(j)].items[j]
  BY DEF ItemsIn
<1>6. ItemsIn(shards')
        = [j \in KeysIn(shards) \cup {k} |->
              IF j = k THEN size ELSE ItemsIn(shards)[j]]
  BY <1>3, <1>4, <1>5 DEF ItemsIn
<1> QED BY <1>3, <1>5, <1>6 DEF Joined, size

-----------------------------------------------------------------------------
(* A call moves.                                                           *)

\* The caller that moves joins those in its new frame, and leaves the others.
LEMMA CallsMove ==
    ASSUME MInv, NEW g \in Goroutines, NEW fr \in Frames,
           call' = [call EXCEPT ![g] = fr]
    PROVE  /\ SetsIn(call') = IF fr.pc = "evict" THEN SetsIn(call) \cup {g}
                                               ELSE SetsIn(call) \ {g}
           /\ ClearsIn(call') = IF fr.pc = "clear" THEN ClearsIn(call) \cup {g}
                                                 ELSE ClearsIn(call) \ {g}
           /\ fr.pc = "count"
                => GetsIn(call') = Joined(GetsIn(call), g, [key |-> fr.key, hit |-> fr.hit])
           /\ fr.pc # "count" => GetsIn(call') = Left(GetsIn(call), g)
           /\ fr.pc # "count" /\ call[g].pc # "count" => GetsIn(call') = GetsIn(call)
<1>1. call'[g] = fr /\ \A h \in Goroutines : h # g => call'[h] = call[h]
  BY DEF MInv, CInv, TypeOK
<1>2. SetsIn(call') = IF fr.pc = "evict" THEN SetsIn(call) \cup {g}
                                        ELSE SetsIn(call) \ {g}
  BY <1>1 DEF SetsIn
<1>3. ClearsIn(call') = IF fr.pc = "clear" THEN ClearsIn(call) \cup {g}
                                          ELSE ClearsIn(call) \ {g}
  BY <1>1 DEF ClearsIn
<1> DEFINE In(x) == {h \in Goroutines : x[h].pc = "count"}
           Asked(x, h) == [key |-> x[h].key, hit |-> x[h].hit]
<1>4. \A x : GetsIn(x) = [h \in In(x) |-> Asked(x, h)]
  BY DEF GetsIn
<1>5. \A h \in Goroutines : h # g => Asked(call', h) = Asked(call, h)
  BY <1>1
<1>6. Asked(call', g) = [key |-> fr.key, hit |-> fr.hit]
  BY <1>1
<1>7. In(call') = IF fr.pc = "count" THEN In(call) \cup {g} ELSE In(call) \ {g}
  BY <1>1
<1>8. call[g].pc # "count" => In(call) \ {g} = In(call)
  OBVIOUS
<1>9. In(call) \subseteq Goroutines
  OBVIOUS
<1> HIDE DEF In, Asked
<1>10. ASSUME fr.pc = "count"
       PROVE  GetsIn(call') = Joined(GetsIn(call), g, [key |-> fr.key, hit |-> fr.hit])
  <2>1. GetsIn(call') = [h \in In(call) \cup {g} |->
                        IF h = g THEN [key |-> fr.key, hit |-> fr.hit]
                                 ELSE GetsIn(call)[h]]
    BY <1>4, <1>5, <1>6, <1>7, <1>9, <1>10
  <2>2. DOMAIN GetsIn(call) = In(call)
    BY <1>4
  <2> QED BY <2>1, <2>2 DEF Joined
<1>11. ASSUME fr.pc # "count" PROVE GetsIn(call') = Left(GetsIn(call), g)
  <2>1. GetsIn(call') = [h \in In(call) \ {g} |-> GetsIn(call)[h]]
    BY <1>4, <1>5, <1>7, <1>9, <1>11
  <2>2. DOMAIN GetsIn(call) = In(call)
    BY <1>4
  <2> QED BY <2>1, <2>2 DEF Left
<1>12. ASSUME fr.pc # "count", call[g].pc # "count" PROVE GetsIn(call') = GetsIn(call)
  BY <1>4, <1>5, <1>7, <1>8, <1>9, <1>12
<1> QED BY <1>2, <1>3, <1>10, <1>11, <1>12

\* The keys a Clear has still to remove.
LEMMA ClearingMoves ==
    ASSUME NEW K, ClearsIn(call') = ClearsIn(call),
           \A g \in ClearsIn(call) :
              StoredKeys' \ during'[g].stored = (StoredKeys \ during[g].stored) \ K
    PROVE  Clearing' = [g \in DOMAIN Clearing |-> Clearing[g] \ K]
<1>1. Clearing' = [g \in ClearsIn(call) |-> (StoredKeys \ during[g].stored) \ K]
  BY DEF Clearing
<1>2. DOMAIN Clearing = ClearsIn(call)
      /\ \A g \in ClearsIn(call) : Clearing[g] = StoredKeys \ during[g].stored
  BY DEF Clearing
<1> QED BY <1>1, <1>2

-----------------------------------------------------------------------------
(* The steps, one by one.                                                  *)

\* A caller that is idle is outside.
LEMMA IdleIsOutside ==
    ASSUME HashCount <= IntHalf, MInv, NEW g \in Goroutines,
           call[g].pc \notin {"evict", "count", "clear"}
    PROVE  Map!Outside(g)
<1>1. g \notin SetsIn(call) /\ g \notin DOMAIN GetsIn(call) /\ g \notin DOMAIN Clearing
  BY DEF SetsIn, GetsIn, ClearsIn, Clearing
<1> QED BY <1>1, MapVariables DEF Map!Outside

\* A step as the sweeps observe it, when the keys in J join the map and those in K
\* leave it.
LEMMA ObservedClearing ==
    ASSUME MInv, NEW J \in SUBSET Keys, NEW K \in SUBSET Keys, Observed(J),
           StoredKeys' = (StoredKeys \cup J) \ K,
           ClearsIn(call') = ClearsIn(call)
    PROVE  Clearing' = [g \in DOMAIN Clearing |-> Clearing[g] \ (J \cup K)]
<1>1. ASSUME NEW g \in ClearsIn(call)
      PROVE  StoredKeys' \ during'[g].stored
                = (StoredKeys \ during[g].stored) \ (J \cup K)
  <2>1. g \in Goroutines /\ Sweeping(g)
    BY DEF ClearsIn, Sweeping
  <2>2. during'[g].stored = during[g].stored \cup J
    BY <2>1, ObservedProperties DEF MInv, CInv
  <2> QED BY <2>2
<1> QED BY <1>1, ClearingMoves

\* No key leaves, and none is stored.
LEMMA ClearingStays ==
    ASSUME StoredKeys' = StoredKeys, during' = during, ClearsIn(call') = ClearsIn(call)
    PROVE  Clearing' = Clearing
BY DEF Clearing

\* Set binds its key.
LEMMA SetIsSet ==
    ASSUME HashCount <= IntHalf, MInv, MInv', NEW g \in Goroutines, NEW k \in Keys,
           NEW size \in Sizes, Set(g, k, size)
    PROVE  Map!Set(g, k, size)
<1> DEFINE i == getShard(k)
           fr == [pc |-> "evict", shard |-> i]
           t == Stored(shards[i], g, k, size)
<1>1. /\ call[g].pc = "idle" /\ maxSize' = maxSize
      /\ shards' = [shards EXCEPT ![i] = t]
      /\ call' = [call EXCEPT ![g] = fr] /\ Observed({k})
  BY DEF Set, Start, Idle
<1>2. i \in Shards /\ shards[i] \in ShardStates
  BY ShardOfKey, ShardsOfCache
<1>3. /\ t \in ShardStates
      /\ DOMAIN t.items = DOMAIN shards[i].items \cup {k}
      /\ t.items[k] = size
      /\ \A j \in DOMAIN shards[i].items :
            j # k => t.items[j] = shards[i].items[j]
      /\ t.cleanups = shards[i].cleanups
  <2>1. t \in ShardStates
    BY <1>2, StoredProperties
  <2> DEFINE x == [j \in DOMAIN shards[i].items \cup {k} |->
                      IF j = k THEN size ELSE shards[i].items[j]]
  <2>2. t = [shards[i] EXCEPT !.items = x, !.writer = g]
    BY DEF Stored
  <2> HIDE DEF x, i, t
  <2>3. t.items = x /\ t.cleanups = shards[i].cleanups
    BY <1>2, <2>2, ShardFields
  <2>4. /\ DOMAIN x = DOMAIN shards[i].items \cup {k} /\ x[k] = size
        /\ \A j \in DOMAIN shards[i].items : j # k => x[j] = shards[i].items[j]
    BY DEF x
  <2> QED BY <2>1, <2>3, <2>4
<1>4. fr \in Frames /\ fr.pc = "evict"
  BY <1>2 DEF Frames
<1> HIDE DEF t, fr
<1>5. /\ KeysIn(shards') = KeysIn(shards) \cup {k}
      /\ ItemsIn(shards') = Joined(ItemsIn(shards), k, size)
  BY <1>1, <1>2, <1>3, ItemJoins, ShardsOfCache
<1>6. CleanupsIn(shards') = CleanupsIn(shards)
  BY <1>1, <1>2, <1>3, CleanupsStay, ShardsOfCache
<1>7. /\ SetsIn(call') = SetsIn(call) \cup {g}
      /\ ClearsIn(call') = ClearsIn(call)
      /\ GetsIn(call') = GetsIn(call)
  <2>1. g \notin ClearsIn(call)
    BY <1>1 DEF ClearsIn
  <2>2. /\ SetsIn(call') = SetsIn(call) \cup {g}
        /\ ClearsIn(call') = ClearsIn(call) \ {g}
        /\ GetsIn(call') = GetsIn(call)
    BY <1>1, <1>4, CallsMove
  <2> QED BY <2>1, <2>2
<1>8. Clearing' = [h \in DOMAIN Clearing |-> Clearing[h] \ {k}]
  <2>1. StoredKeys' = (StoredKeys \cup {k}) \ {}
    BY <1>5, MapVariables, MapVariablesAfter
  <2>2. {k} \in SUBSET Keys /\ {} \in SUBSET Keys /\ {k} \cup {} = {k}
    OBVIOUS
  <2>3. Clearing' = [h \in DOMAIN Clearing |-> Clearing[h] \ ({k} \cup {})]
    BY <1>1, <1>7, <2>1, <2>2, ObservedClearing
  <2> QED BY <2>2, <2>3
<1>9. Map!Outside(g)
  BY <1>1, IdleIsOutside
<1> QED
  BY <1>1, <1>5, <1>6, <1>7, <1>8, <1>9, MapNames, MapVariables, MapVariablesAfter
  DEF Map!Set, Map!Settle

\* What stays when a key leaves its shard: by a Delete,
LEMMA WithoutStays ==
    ASSUME NEW s \in ShardStates, NEW k, NEW t, t = Without(s, k)
    PROVE  \A j \in DOMAIN t.items : t.items[j] = s.items[j]
<1> DEFINE x == [j \in DOMAIN s.items \ {k} |-> s.items[j]]
<1>1. t = [s EXCEPT !.items = x]
  BY DEF Without
<1>2. \A j \in DOMAIN x : x[j] = s.items[j]
  OBVIOUS
<1> HIDE DEF x
<1>3. t.items = x
  BY <1>1, ShardFields
<1> QED BY <1>2, <1>3

\* an eviction,
LEMMA EvictedStays ==
    ASSUME NEW s \in ShardStates, NEW k, NEW t, t = Evicted(s, k)
    PROVE  /\ \A j \in DOMAIN t.items : t.items[j] = s.items[j]
           /\ t.cleanups = s.cleanups
<1> DEFINE w == Without(s, k)
<1>1. w \in ShardStates /\ w.cleanups = s.cleanups
  BY WithoutProperties
<1>2. \A j \in DOMAIN w.items : w.items[j] = s.items[j]
  BY WithoutStays
<1>3. t = [w EXCEPT !.evictions = @ + 1]
  BY DEF Evicted
<1> HIDE DEF w
<1>4. t.items = w.items /\ t.cleanups = w.cleanups
  BY <1>1, <1>3, ShardFields
<1> QED BY <1>1, <1>2, <1>4

\* or a cleanup.
LEMMA CleanedUpStays ==
    ASSUME NEW s \in ShardStates, NEW k \in Keys, NEW t, t = CleanedUp(s, k)
    PROVE  /\ \A j \in DOMAIN t.items : t.items[j] = s.items[j]
           /\ t.cleanups[k] = s.cleanups[k] - 1
           /\ \A j \in Keys : j # k => t.cleanups[j] = s.cleanups[j]
<1> DEFINE w == Without(s, k)
           less == [s.cleanups EXCEPT ![k] = s.cleanups[k] - 1]
<1>1. w \in ShardStates /\ w.cleanups = s.cleanups
  BY WithoutProperties
<1>2. \A j \in DOMAIN w.items : w.items[j] = s.items[j]
  BY WithoutStays
<1>3. t = [w EXCEPT !.cleanups = [w.cleanups EXCEPT ![k] = @ - 1]]
  BY DEF CleanedUp
<1> HIDE DEF w
<1>4. t = [w EXCEPT !.cleanups = less]
  BY <1>1, <1>3
<1> HIDE DEF less
<1>5. t.items = w.items /\ t.cleanups = less
  BY <1>1, <1>4, ShardFields
<1>6. less[k] = s.cleanups[k] - 1 /\ \A j \in Keys : j # k => less[j] = s.cleanups[j]
  BY ShardFields DEF less
<1> QED BY <1>2, <1>5, <1>6

\* Keys leave one shard.
LEMMA KeysLeave ==
    ASSUME HashCount <= IntHalf, MInv, MInv',
           NEW i \in Shards, NEW t \in ShardStates, NEW K \in SUBSET Keys,
           \A k \in K : getShard(k) = i,
           DOMAIN t.items = DOMAIN shards[i].items \ K,
           \A k \in DOMAIN t.items : t.items[k] = shards[i].items[k],
           shards' = [shards EXCEPT ![i] = t],
           Observed({}), ClearsIn(call') = ClearsIn(call)
    PROVE  Map!Remove(K)
<1>1. /\ KeysIn(shards') = KeysIn(shards) \ K
      /\ ItemsIn(shards') = [k \in DOMAIN ItemsIn(shards) \ K |-> ItemsIn(shards)[k]]
  BY ItemsLeave
<1>2. StoredKeys' = (StoredKeys \cup {}) \ K
  BY <1>1, MapVariables, MapVariablesAfter
<1>3. Clearing' = [g \in DOMAIN Clearing |-> Clearing[g] \ ({} \cup K)]
  BY <1>2, ObservedClearing
<1>4. Clearing' = [g \in DOMAIN Clearing |-> Clearing[g] \ K]
  <2>1. {} \cup K = K
    OBVIOUS
  <2> QED BY <1>3, <2>1
<1> QED BY <1>1, <1>4, MapVariables, MapVariablesAfter DEF Map!Remove, Map!Settle

\* A step in which no call moves.
LEMMA CallsStay ==
    ASSUME call' = call
    PROVE  /\ SetsIn(call') = SetsIn(call) /\ GetsIn(call') = GetsIn(call)
           /\ ClearsIn(call') = ClearsIn(call)
OBVIOUS

\* The evictions of a Set are evictions of a limited cache that a Set is in.
LEMMA EvictOneIsEvict ==
    ASSUME HashCount <= IntHalf, MInv, MInv', NEW g \in Goroutines, EvictOne(g)
    PROVE  \E k \in Keys : Map!Evict(k)
<1> DEFINE i == call[g].shard
<1>1. PICK k \in DOMAIN shards[i].items : shards' = [shards EXCEPT ![i] = Evicted(shards[i], k)]
  BY DEF EvictOne
<1> DEFINE t == Evicted(shards[i], k)
<1>2. /\ call[g].pc = "evict" /\ maxSize' = maxSize /\ call' = call
      /\ Over(shards[i], limit) /\ Observed({})
  BY DEF EvictOne
<1>3. i \in Shards /\ shards[i] \in ShardStates
  BY <1>2, FrameKinds, ShardsOfCache
<1> HIDE DEF i
<1>4. k \in Keys /\ getShard(k) = i
  BY <1>1, <1>3, ShardFields DEF MInv, KeysAtHome
<1>5. /\ t \in ShardStates /\ DOMAIN t.items = DOMAIN shards[i].items \ {k}
      /\ \A j \in DOMAIN t.items : t.items[j] = shards[i].items[j]
      /\ t.cleanups = shards[i].cleanups
  <2>1. t \in ShardStates /\ DOMAIN t.items = DOMAIN shards[i].items \ {k}
    BY <1>3, EvictedProperties
  <2>2. /\ \A j \in DOMAIN t.items : t.items[j] = shards[i].items[j]
        /\ t.cleanups = shards[i].cleanups
    BY <1>3, EvictedStays
  <2> QED BY <2>1, <2>2
<1> HIDE DEF t
<1>6. shards' = [shards EXCEPT ![i] = t]
  BY <1>1 DEF t
<1>7. Map!Remove({k})
  <2>1. {k} \in SUBSET Keys /\ \A j \in {k} : getShard(j) = i
    BY <1>4
  <2> QED BY <1>2, <1>3, <1>5, <1>6, <2>1, CallsStay, KeysLeave
<1>8. CleanupsIn(shards') = CleanupsIn(shards)
  BY <1>3, <1>5, <1>6, CleanupsStay
<1>9. maxSize > 0
  <2>1. maxSize \in Int /\ shardCount \in Nat \ {0} /\ limit > 0
    BY <1>2, CacheAssumption, ShardOfKey, ShardsOfCache DEF Over
  <2>2. ASSUME ~(maxSize > 0) PROVE FALSE
    <3>1. CASE maxSize = 0
      <4>1. 0 \div shardCount = 0
        BY <2>1
      <4> QED BY <2>1, <3>1, <4>1 DEF limit, ShardLimit, Quotient
    <3>2. CASE maxSize < 0
      <4>1. -maxSize \in Nat
        BY <2>1, <3>2
      <4>2. (-maxSize) \div shardCount \in Nat
        BY <2>1, <4>1, DivisionProperties
      <4> QED BY <2>1, <3>2, <4>2 DEF limit, ShardLimit, Quotient
    <3> QED BY <2>1, <2>2, <3>1, <3>2
  <2> QED BY <2>2
<1>10. g \in SetsIn(call)
  BY <1>2 DEF SetsIn
<1>11. k \in DOMAIN ItemsIn(shards)
  BY <1>1, <1>4 DEF ItemsIn, KeysIn
<1>12. Map!Evict(k)
  BY <1>2, <1>7, <1>8, <1>9, <1>10, <1>11, CallsStay, MapVariables, MapVariablesAfter
  DEF Map!Evict
<1> QED BY <1>4, <1>12

\* Delete removes its key.
LEMMA DeleteIsDelete ==
    ASSUME HashCount <= IntHalf, MInv, MInv', NEW g \in Goroutines, NEW k \in Keys,
           Delete(g, k)
    PROVE  Map!Delete(k)
<1> DEFINE i == getShard(k)
           t == Without(shards[i], k)
<1>1. /\ maxSize' = maxSize /\ call' = call
      /\ shards' = [shards EXCEPT ![i] = t] /\ Observed({})
  BY DEF Delete
<1>2. i \in Shards /\ shards[i] \in ShardStates
  BY ShardOfKey, ShardsOfCache
<1>3. /\ t \in ShardStates /\ DOMAIN t.items = DOMAIN shards[i].items \ {k}
      /\ \A j \in DOMAIN t.items : t.items[j] = shards[i].items[j]
      /\ t.cleanups = shards[i].cleanups
  <2>1. /\ t \in ShardStates /\ DOMAIN t.items = DOMAIN shards[i].items \ {k}
        /\ t.cleanups = shards[i].cleanups
    BY <1>2, WithoutProperties
  <2>2. \A j \in DOMAIN t.items : t.items[j] = shards[i].items[j]
    BY <1>2, WithoutStays
  <2> QED BY <2>1, <2>2
<1> HIDE DEF t
<1>4. Map!Remove({k})
  <2>1. {k} \in SUBSET Keys /\ \A j \in {k} : getShard(j) = i
    OBVIOUS
  <2> HIDE DEF i
  <2> QED BY <1>1, <1>2, <1>3, <2>1, CallsStay, KeysLeave
<1>5. CleanupsIn(shards') = CleanupsIn(shards)
  BY <1>1, <1>2, <1>3, CleanupsStay
<1> QED BY <1>1, <1>4, <1>5, CallsStay, MapVariables, MapVariablesAfter DEF Map!Delete

\* So does a cleanup, once for each that was asked for.
LEMMA CleanupIsCleanup ==
    ASSUME HashCount <= IntHalf, MInv, MInv', NEW k \in Keys, Cleanup(k)
    PROVE  Map!Cleanup(k)
<1> DEFINE i == getShard(k)
           t == CleanedUp(shards[i], k)
<1>1. /\ maxSize' = maxSize /\ call' = call /\ shards[i].cleanups[k] > 0
      /\ shards' = [shards EXCEPT ![i] = t] /\ Observed({})
  BY DEF Cleanup
<1>2. i \in Shards /\ shards[i] \in ShardStates
  BY ShardOfKey, ShardsOfCache
<1>3. /\ t \in ShardStates /\ DOMAIN t.items = DOMAIN shards[i].items \ {k}
      /\ \A j \in DOMAIN t.items : t.items[j] = shards[i].items[j]
      /\ t.cleanups[k] = shards[i].cleanups[k] - 1
      /\ \A j \in Keys : j # k => t.cleanups[j] = shards[i].cleanups[j]
  <2>1. t \in ShardStates /\ DOMAIN t.items = DOMAIN shards[i].items \ {k}
    BY <1>1, <1>2, CleanedUpProperties
  <2>2. /\ \A j \in DOMAIN t.items : t.items[j] = shards[i].items[j]
        /\ t.cleanups[k] = shards[i].cleanups[k] - 1
        /\ \A j \in Keys : j # k => t.cleanups[j] = shards[i].cleanups[j]
    BY <1>2, CleanedUpStays
  <2> QED BY <2>1, <2>2
<1> HIDE DEF t
<1>4. Map!Remove({k})
  <2>1. {k} \in SUBSET Keys /\ \A j \in {k} : getShard(j) = i
    OBVIOUS
  <2> HIDE DEF i
  <2> QED BY <1>1, <1>2, <1>3, <2>1, CallsStay, KeysLeave
<1>5. CleanupsIn(shards)[k] = shards[i].cleanups[k]
  BY DEF CleanupsIn
<1>6. CleanupsIn(shards') = [CleanupsIn(shards) EXCEPT ![k] = t.cleanups[k]]
  <2>1. getShard(k) = i
    OBVIOUS
  <2> HIDE DEF i
  <2>2. /\ t \in ShardStates /\ shards' = [shards EXCEPT ![i] = t]
        /\ \A j \in Keys : j # k => t.cleanups[j] = shards[i].cleanups[j]
    BY <1>1, <1>3
  <2>3. \A j \in Keys : CleanupsIn(shards')[j]
                          = IF j = k THEN t.cleanups[k] ELSE CleanupsIn(shards)[j]
    BY <1>2, <2>1, <2>2, ShardOfKey, ShardsOfCache DEF CleanupsIn
  <2> QED BY <2>3 DEF CleanupsIn
<1>7. CleanupsIn(shards') = [CleanupsIn(shards) EXCEPT ![k] = @ - 1]
  BY <1>3, <1>5, <1>6
<1> QED
  BY <1>1, <1>4, <1>5, <1>7, CallsStay, MapVariables, MapVariablesAfter DEF Map!Cleanup

\* The contract's names for the bytes.
LEMMA MapBytes == \A f, K : Map!Cardinality(Map!Bytes(f, K)) = Cardinality(Bytes(f, K))
<1>1. \A S : Map!Cardinality(S) = Cardinality(S)
  BY Zenon DEF Map!Cardinality, Cardinality
<1>2. \A f, K : Map!Bytes(f, K) = Bytes(f, K)
  BY Zenon DEF Map!Bytes, Bytes
<1> QED BY <1>1, <1>2

\* When every shard is within its part of the limit, the items fit.
LEMMA ShardsFit ==
    ASSUME HashCount <= IntHalf, MInv, \A i \in Shards : ~Over(shards[i], limit)
    PROVE  Map!Fits
<1> DEFINE all == ItemsIn(shards)
           parts == [i \in Shards |-> DOMAIN shards[i].items]
           size == Cardinality(Bytes(all, DOMAIN all))
<1>1. SUFFICES ASSUME maxSize > 0 PROVE size <= maxSize \/ size <= shardCount
  BY MapVariables, MapBytes DEF Map!Fits
<1>2. /\ maxSize \in Nat \ {0} /\ shardCount \in Nat \ {0}
      /\ limit \in Nat \ {0}
  <2>1. maxSize \in MaxSizes
    BY ShardsOfCache
  <2>2. maxSize \in Int /\ shardCount \in Nat \ {0}
    BY <2>1, CacheAssumption, ShardOfKey
  <2>3. limit \in Nat \ {0}
    BY <1>1, <2>1, LimitOfShard
  <2> QED BY <1>1, <2>2, <2>3
<1>3. ASSUME NEW i \in Shards
      PROVE  /\ IsFiniteSet(parts[i])
             /\ \A k \in parts[i] : all[k] = shards[i].items[k] /\ all[k] \in Nat
             /\ Cardinality(Bytes(all, parts[i])) <= limit
  <2>1. shards[i] \in ShardStates /\ parts[i] = DOMAIN shards[i].items
    BY ShardsOfCache
  <2>2. IsFiniteSet(parts[i])
    BY <2>1, ShardFields, KeysAssumption, FS_Subset
  <2>3. ASSUME NEW k \in parts[i]
        PROVE  all[k] = shards[i].items[k] /\ all[k] \in Nat
    <3>1. k \in Keys /\ getShard(k) = i /\ shards[i].items[k] \in Nat
      BY <2>1, <2>3, ShardFields, CacheAssumption DEF MInv, KeysAtHome
    <3> QED BY <2>1, <2>3, <3>1 DEF ItemsIn, KeysIn
  <2> HIDE DEF all
  <2>4. Bytes(all, parts[i]) = Bytes(shards[i].items, parts[i])
    BY <2>3, BytesAgree
  <2>5. Size(shards[i]) \in Nat /\ Size(shards[i]) <= limit
    BY <1>2, <2>1, SizeProperties DEF Over
  <2> QED BY <2>1, <2>2, <2>3, <2>4, <2>5 DEF Size
<1>4. DOMAIN all = UNION {parts[i] : i \in 0 .. shardCount - 1}
  <2>1. DOMAIN all = StoredKeys
    BY MapVariables DEF ItemsIn
  <2> QED BY <2>1 DEF StoredKeys, Shards
<1> HIDE DEF parts, all
<1>5. size <= shardCount * limit
  <2>1. Cardinality(Bytes(all, UNION {parts[i] : i \in 0 .. shardCount - 1}))
          <= shardCount * limit
    BY <1>2, <1>3, BytesOfParts DEF Shards
  <2> QED BY <1>4, <2>1
<1>6. size \in Nat
  <2>1. IsFiniteSet(DOMAIN all)
    BY MapVariables, KeysAssumption, FS_Subset DEF all, ItemsIn, KeysIn
  <2>2. \A k \in DOMAIN all : all[k] \in Nat
    BY <1>3, <1>4 DEF Shards
  <2> QED BY <2>1, <2>2, BytesFinite, FS_CardinalityType
<1> DEFINE bound == shardCount * limit
<1>7. bound \in Nat /\ (bound <= maxSize \/ bound = shardCount)
  BY <1>2, LimitsAddUp DEF limit
<1> HIDE DEF size, bound
<1>8. size <= bound
  BY <1>5 DEF bound
<1> QED BY <1>2, <1>6, <1>7, <1>8

\* A Set that returns and leaves none behind leaves the items fitting.
LEMMA SetReturnIsSetReturn ==
    ASSUME HashCount <= IntHalf, MInv, MInv', NEW g \in Goroutines, SetReturn(g)
    PROVE  Map!SetReturn(g)
<1> DEFINE i == call[g].shard
           t == Unlocked(shards[i])
<1>1. /\ call[g].pc = "evict" /\ maxSize' = maxSize /\ during' = during
      /\ ~Over(shards[i], limit)
      /\ shards' = [shards EXCEPT ![i] = t] /\ call' = [call EXCEPT ![g] = Idle]
  BY DEF SetReturn
<1>2. i \in Shards /\ shards[i] \in ShardStates
  BY <1>1, FrameKinds, ShardsOfCache
<1> HIDE DEF i
<1>3. t \in ShardStates /\ t.items = shards[i].items /\ t.cleanups = shards[i].cleanups
  <2>1. t = [items |-> shards[i].items, cleanups |-> shards[i].cleanups,
             hits |-> shards[i].hits, misses |-> shards[i].misses,
             evictions |-> shards[i].evictions, writer |-> NoGoroutine]
    BY <1>2, ShardFields DEF Unlocked
  <2> QED BY <1>2, <2>1, UnlockedProperties
<1> HIDE DEF t
<1>4. /\ KeysIn(shards') = KeysIn(shards) /\ ItemsIn(shards') = ItemsIn(shards)
      /\ CleanupsIn(shards') = CleanupsIn(shards)
  BY <1>1, <1>2, <1>3, ItemsStay, CleanupsStay
<1>5. /\ SetsIn(call') = SetsIn(call) \ {g} /\ ClearsIn(call') = ClearsIn(call)
      /\ GetsIn(call') = GetsIn(call)
  <2>1. Idle \in Frames /\ Idle.pc = "idle" /\ g \notin ClearsIn(call)
    BY <1>1 DEF Frames, Idle, ClearsIn
  <2>2. /\ SetsIn(call') = SetsIn(call) \ {g} /\ ClearsIn(call') = ClearsIn(call) \ {g}
        /\ GetsIn(call') = GetsIn(call)
    BY <1>1, <2>1, CallsMove
  <2> QED BY <2>1, <2>2
<1>6. Clearing' = Clearing
  BY <1>1, <1>4, <1>5, ClearingStays, MapVariables, MapVariablesAfter
<1>7. ASSUME SetsIn(call') = {} PROVE Map!Fits
  <2>1. ASSUME NEW j \in Shards PROVE ~Over(shards[j], limit)
    <3>1. CASE Free(shards[j])
      BY <3>1 DEF MInv, CInv, FreeShardsFit
    <3>2. CASE ~Free(shards[j])
      <4> DEFINE h == shards[j].writer
      <4>1. h # NoGoroutine /\ h \in Goroutines
        BY <3>2, ShardFields, ShardsOfCache DEF Free
      <4>2. call[h].pc = "evict" /\ call[h].shard = j
        BY <4>1 DEF MInv, CInv, LockHeld
      <4>3. h = g
        BY <1>5, <1>7, <4>1, <4>2 DEF SetsIn
      <4> QED BY <1>1, <4>2, <4>3 DEF i
    <3> QED BY <3>1, <3>2
  <2> QED BY <2>1, ShardsFit
<1>8. g \in SetsIn(call)
  BY <1>1 DEF SetsIn
<1> QED
  BY <1>1, <1>4, <1>5, <1>6, <1>7, <1>8, MapVariables, MapVariablesAfter
  DEF Map!SetReturn

\* Get finds its key if and only if the map has it,
LEMMA GetIsGet ==
    ASSUME HashCount <= IntHalf, MInv, MInv', NEW g \in Goroutines, NEW k \in Keys,
           Get(g, k)
    PROVE  Map!Get(g, k)
<1> DEFINE hit == k \in DOMAIN shards[getShard(k)].items
           fr == [pc |-> "count", key |-> k, hit |-> hit]
<1>1. /\ call[g].pc = "idle" /\ maxSize' = maxSize /\ shards' = shards
      /\ during' = during /\ call' = [call EXCEPT ![g] = fr]
  BY DEF Get, Start, Idle
<1>2. hit \in BOOLEAN /\ hit = (k \in DOMAIN ItemsIn(shards))
  BY DEF ItemsIn, KeysIn
<1> HIDE DEF hit
<1>3. fr \in Frames /\ fr.pc = "count" /\ fr.key = k /\ fr.hit = hit
  BY <1>2 DEF Frames
<1> HIDE DEF fr
<1>4. /\ SetsIn(call') = SetsIn(call) /\ ClearsIn(call') = ClearsIn(call)
      /\ GetsIn(call') = Joined(GetsIn(call), g, [key |-> k, hit |-> hit])
  <2>1. g \notin ClearsIn(call) /\ g \notin SetsIn(call)
    BY <1>1 DEF SetsIn, ClearsIn
  <2>2. /\ SetsIn(call') = SetsIn(call) \ {g} /\ ClearsIn(call') = ClearsIn(call) \ {g}
        /\ GetsIn(call') = Joined(GetsIn(call), g, [key |-> fr.key, hit |-> fr.hit])
    BY <1>1, <1>3, CallsMove
  <2> QED BY <1>3, <2>1, <2>2
<1>5. Clearing' = Clearing
  <2>1. StoredKeys' = StoredKeys
    BY <1>1 DEF StoredKeys
  <2> QED BY <1>1, <1>4, <2>1, ClearingStays
<1>6. Map!Outside(g)
  BY <1>1, IdleIsOutside
<1>7. GetsIn(call')
        = Joined(GetsIn(call), g, [key |-> k, hit |-> k \in DOMAIN ItemsIn(shards)])
  BY <1>2, <1>4
<1>8. ItemsIn(shards') = ItemsIn(shards) /\ CleanupsIn(shards') = CleanupsIn(shards)
  BY <1>1
<1> QED
  BY <1>1, <1>4, <1>5, <1>6, <1>7, <1>8, MapNames, MapVariables, MapVariablesAfter
  DEF Map!Get

\* What a Get has found and not counted.
LEMMA GetsOfCalls ==
    ASSUME MInv, NEW g \in Goroutines, call[g].pc = "count"
    PROVE  /\ g \in DOMAIN GetsIn(call)
           /\ GetsIn(call)[g] = [key |-> call[g].key, hit |-> call[g].hit]
           /\ call[g].key \in Keys /\ call[g].hit \in BOOLEAN
           /\ g \notin SetsIn(call) /\ g \notin ClearsIn(call)
<1>1. call[g].key \in Keys /\ call[g].hit \in BOOLEAN
  BY FrameKinds, ShardsOfCache
<1> QED BY <1>1 DEF GetsIn, SetsIn, ClearsIn

\* unless the item is past its TTL; then it asks for a cleanup.
LEMMA GetExpiredIsExpire ==
    ASSUME HashCount <= IntHalf, MInv, MInv', NEW g \in Goroutines, GetExpired(g)
    PROVE  Map!Expire(g)
<1> DEFINE k == call[g].key
           i == getShard(k)
           t == CleanupStarted(shards[i], k)
           fr == [call[g] EXCEPT !.hit = FALSE]
<1>1. /\ call[g].pc = "count" /\ call[g].hit /\ maxSize' = maxSize
      /\ shards' = [shards EXCEPT ![i] = t]
      /\ call' = [call EXCEPT ![g] = fr] /\ during' = during
  BY DEF GetExpired
<1>2. /\ g \in DOMAIN GetsIn(call)
      /\ GetsIn(call)[g].key = k /\ GetsIn(call)[g].hit
      /\ g \notin SetsIn(call) /\ g \notin ClearsIn(call)
      /\ call[g] \in Frames /\ k \in Keys
  <2>1. /\ g \in DOMAIN GetsIn(call)
        /\ GetsIn(call)[g] = [key |-> k, hit |-> call[g].hit]
        /\ g \notin SetsIn(call) /\ g \notin ClearsIn(call) /\ k \in Keys
    BY <1>1, GetsOfCalls
  <2>2. GetsIn(call)[g].key = k /\ GetsIn(call)[g].hit = call[g].hit
    BY <2>1
  <2> QED BY <1>1, <2>1, <2>2, ShardsOfCache
<1>3. fr = [pc |-> "count", key |-> k, hit |-> FALSE]
  BY <1>1, <1>2, MissFrame
<1> HIDE DEF fr, k
<1>4. fr \in Frames /\ fr.pc = "count" /\ fr.key = k /\ fr.hit = FALSE
  BY <1>2, <1>3 DEF Frames
<1>5. i \in Shards /\ shards[i] \in ShardStates
  BY <1>2, ShardOfKey, ShardsOfCache
<1>6. /\ t \in ShardStates /\ t.items = shards[i].items
      /\ t.cleanups[k] = shards[i].cleanups[k] + 1
      /\ \A j \in Keys : j # k => t.cleanups[j] = shards[i].cleanups[j]
  <2> DEFINE more == [shards[i].cleanups EXCEPT ![k] = shards[i].cleanups[k] + 1]
  <2>1. t \in ShardStates /\ t.items = shards[i].items
    BY <1>2, <1>5, StartedProperties
  <2>2. t = [shards[i] EXCEPT !.cleanups = more]
    BY DEF CleanupStarted
  <2> HIDE DEF t, i, more
  <2>3. t.cleanups = more
    BY <1>5, <2>2, ShardFields
  <2>4. /\ more[k] = shards[i].cleanups[k] + 1
        /\ \A j \in Keys : j # k => more[j] = shards[i].cleanups[j]
    BY <1>2, <1>5, ShardFields DEF more
  <2> QED BY <2>1, <2>3, <2>4
<1> HIDE DEF t
<1>7. /\ KeysIn(shards') = KeysIn(shards) /\ ItemsIn(shards') = ItemsIn(shards)
  BY <1>1, <1>5, <1>6, ItemsStay
<1>8. CleanupsIn(shards') = [CleanupsIn(shards) EXCEPT ![k] = @ + 1]
  <2>1. CleanupsIn(shards)[k] = shards[i].cleanups[k]
    BY <1>2 DEF CleanupsIn
  <2>2. CleanupsIn(shards') = [CleanupsIn(shards) EXCEPT ![k] = t.cleanups[k]]
    <3>1. getShard(k) = i
      OBVIOUS
    <3> HIDE DEF i
    <3>2. /\ t \in ShardStates /\ shards' = [shards EXCEPT ![i] = t]
          /\ \A j \in Keys : j # k => t.cleanups[j] = shards[i].cleanups[j]
      BY <1>1, <1>6
    <3>3. \A j \in Keys : CleanupsIn(shards')[j]
                          = IF j = k THEN t.cleanups[k] ELSE CleanupsIn(shards)[j]
      BY <1>5, <1>2, <3>1, <3>2, ShardOfKey, ShardsOfCache DEF CleanupsIn
    <3> QED BY <3>3 DEF CleanupsIn
  <2> QED BY <1>6, <2>1, <2>2
<1>9. /\ SetsIn(call') = SetsIn(call) /\ ClearsIn(call') = ClearsIn(call)
      /\ GetsIn(call') = Joined(GetsIn(call), g, [key |-> k, hit |-> FALSE])
  <2>1. /\ SetsIn(call') = SetsIn(call) \ {g} /\ ClearsIn(call') = ClearsIn(call) \ {g}
        /\ GetsIn(call') = Joined(GetsIn(call), g, [key |-> fr.key, hit |-> fr.hit])
    BY <1>1, <1>4, CallsMove
  <2> QED BY <1>2, <1>4, <2>1
<1>10. Clearing' = Clearing
  BY <1>1, <1>7, <1>9, ClearingStays, MapVariables, MapVariablesAfter
<1> QED
  BY <1>1, <1>2, <1>7, <1>8, <1>9, <1>10, MapNames, MapVariables, MapVariablesAfter
  DEF Map!Expire

\* It returns when it has counted.
LEMMA GetCountIsGetReturn ==
    ASSUME HashCount <= IntHalf, MInv, MInv', NEW g \in Goroutines, GetCount(g)
    PROVE  Map!GetReturn(g)
<1> DEFINE i == getShard(call[g].key)
           t == Counted(shards[i], call[g].hit)
<1>1. /\ call[g].pc = "count" /\ maxSize' = maxSize
      /\ shards' = [shards EXCEPT ![i] = t]
      /\ call' = [call EXCEPT ![g] = Idle] /\ Observed({})
  BY DEF GetCount
<1>2. /\ g \in DOMAIN GetsIn(call) /\ call[g].key \in Keys /\ call[g].hit \in BOOLEAN
      /\ g \notin SetsIn(call) /\ g \notin ClearsIn(call)
  BY <1>1, GetsOfCalls
<1>3. i \in Shards /\ shards[i] \in ShardStates
  BY <1>2, ShardOfKey, ShardsOfCache
<1> HIDE DEF i
<1>4. t \in ShardStates /\ t.items = shards[i].items /\ t.cleanups = shards[i].cleanups
  <2>1. t \in ShardStates /\ t.items = shards[i].items
    BY <1>2, <1>3, CountedProperties
  <2>2. t.cleanups = shards[i].cleanups
    BY <1>3, ShardFields DEF Counted
  <2> QED BY <2>1, <2>2
<1> HIDE DEF t
<1>5. /\ KeysIn(shards') = KeysIn(shards) /\ ItemsIn(shards') = ItemsIn(shards)
      /\ CleanupsIn(shards') = CleanupsIn(shards)
  BY <1>1, <1>3, <1>4, ItemsStay, CleanupsStay
<1>6. /\ SetsIn(call') = SetsIn(call) /\ ClearsIn(call') = ClearsIn(call)
      /\ GetsIn(call') = Left(GetsIn(call), g)
  <2>1. Idle \in Frames /\ Idle.pc = "idle"
    BY DEF Frames, Idle
  <2>2. /\ SetsIn(call') = SetsIn(call) \ {g} /\ ClearsIn(call') = ClearsIn(call) \ {g}
        /\ GetsIn(call') = Left(GetsIn(call), g)
    BY <1>1, <2>1, CallsMove
  <2> QED BY <1>2, <2>2
<1>7. Clearing' = Clearing
  <2>1. StoredKeys' = (StoredKeys \cup {}) \ {}
    BY <1>5, MapVariables, MapVariablesAfter
  <2> DEFINE none == {}
  <2>2. none \in SUBSET Keys /\ none \cup none = none
    OBVIOUS
  <2>3. Observed(none) /\ StoredKeys' = (StoredKeys \cup none) \ none
    BY <1>1, <2>1
  <2> HIDE DEF none
  <2>4. Clearing' = [h \in DOMAIN Clearing |-> Clearing[h] \ (none \cup none)]
    BY <1>6, <2>2, <2>3, ObservedClearing
  <2>5. \A S : S \ (none \cup none) = S
    BY DEF none
  <2> QED BY <2>4, <2>5 DEF Clearing
<1> QED
  BY <1>1, <1>2, <1>5, <1>6, <1>7, MapNames, MapVariables, MapVariablesAfter
  DEF Map!GetReturn

\* A sweep that begins, goes on or returns, and changes no shard.
LEMMA SweepMoves ==
    ASSUME HashCount <= IntHalf, MInv, MInv', NEW g \in Goroutines, NEW fr \in Frames,
           call[g].pc \notin {"evict", "count"}, fr.pc \notin {"evict", "count"},
           call' = [call EXCEPT ![g] = fr], shards' = shards, maxSize' = maxSize
    PROVE  /\ SetsIn(call') = SetsIn(call) /\ GetsIn(call') = GetsIn(call)
           /\ ClearsIn(call') = IF fr.pc = "clear" THEN ClearsIn(call) \cup {g}
                                                   ELSE ClearsIn(call) \ {g}
           /\ ItemsIn(shards') = ItemsIn(shards)
           /\ CleanupsIn(shards') = CleanupsIn(shards)
           /\ StoredKeys' = StoredKeys
<1>1. g \notin SetsIn(call)
  BY DEF SetsIn
<1>2. /\ SetsIn(call') = SetsIn(call) \ {g} /\ GetsIn(call') = GetsIn(call)
      /\ ClearsIn(call') = IF fr.pc = "clear" THEN ClearsIn(call) \cup {g}
                                              ELSE ClearsIn(call) \ {g}
  BY CallsMove
<1>3. StoredKeys' = StoredKeys
  BY DEF StoredKeys
<1> QED BY <1>1, <1>2, <1>3

\* A Clear begins with all the keys there are.
LEMMA ClearStartIsClearStart ==
    ASSUME HashCount <= IntHalf, MInv, MInv', NEW g \in Goroutines, ClearStart(g)
    PROVE  Map!ClearStart(g)
<1> DEFINE fr == [pc |-> "clear", next |-> 0]
<1>1. /\ call[g].pc = "idle" /\ maxSize' = maxSize /\ shards' = shards
      /\ call' = [call EXCEPT ![g] = fr]
      /\ during' = [during EXCEPT ![g].empty = (StoredKeys = {})]
  BY DEF ClearStart, Sweep, Start, Idle
<1>2. fr \in Frames /\ fr.pc = "clear"
  BY ShardNumbers DEF Frames
<1> HIDE DEF fr
<1>3. /\ SetsIn(call') = SetsIn(call) /\ GetsIn(call') = GetsIn(call)
      /\ ClearsIn(call') = ClearsIn(call) \cup {g}
      /\ ItemsIn(shards') = ItemsIn(shards) /\ CleanupsIn(shards') = CleanupsIn(shards)
      /\ StoredKeys' = StoredKeys
  BY <1>1, <1>2, SweepMoves
<1>4. \A h \in Goroutines : during'[h].stored = during[h].stored
  <2> DEFINE none == StoredKeys = {}
  <2>1. during \in [Goroutines -> Observations]
    BY DEF MInv, CInv, TypeOK
  <2>2. during' = [during EXCEPT ![g].empty = none]
    BY <1>1
  <2> HIDE DEF none
  <2>3. \A h \in Goroutines : h # g => during'[h] = during[h]
    BY <2>1, <2>2
  <2>4. during'[g] = [during[g] EXCEPT !.empty = none]
    BY <2>1, <2>2
  <2>5. during'[g].stored = during[g].stored
    BY <2>1, <2>4 DEF Observations
  <2> QED BY <2>3, <2>5
<1>5. during[g].stored = {} /\ g \notin ClearsIn(call)
  BY <1>1 DEF MInv, OutsideSweeps, Sweeping, ClearsIn
<1>6. DOMAIN ItemsIn(shards) = StoredKeys
  BY MapVariables DEF ItemsIn
<1>7. Clearing' = Joined(Clearing, g, DOMAIN ItemsIn(shards))
  <2>1. Clearing' = [h \in ClearsIn(call) \cup {g} |-> StoredKeys \ during'[h].stored]
    BY <1>3 DEF Clearing
  <2>2. /\ DOMAIN Clearing = ClearsIn(call) /\ ClearsIn(call) \subseteq Goroutines
        /\ \A h \in ClearsIn(call) : Clearing[h] = StoredKeys \ during[h].stored
    BY DEF Clearing, ClearsIn
  <2>3. \A h \in ClearsIn(call) \cup {g} :
           StoredKeys \ during'[h].stored = IF h = g THEN StoredKeys ELSE Clearing[h]
    BY <1>4, <1>5, <2>2
  <2> QED BY <1>6, <2>1, <2>2, <2>3 DEF Joined
<1>8. Map!Outside(g)
  BY <1>1, IdleIsOutside
<1> QED
  BY <1>1, <1>3, <1>7, <1>8, MapNames, MapVariables, MapVariablesAfter
  DEF Map!ClearStart

\* It removes the keys of one shard after the other,
LEMMA ClearShardIsClearSome ==
    ASSUME HashCount <= IntHalf, MInv, MInv', NEW g \in Goroutines, ClearShard(g)
    PROVE  Map!ClearSome
<1> DEFINE i == call[g].next
           t == Cleared(shards[i])
           fr == [call[g] EXCEPT !.next = @ + 1]
<1>1. /\ call[g].pc = "clear" /\ i \in Shards /\ maxSize' = maxSize
      /\ shards' = [shards EXCEPT ![i] = t]
      /\ call' = [call EXCEPT ![g] = fr] /\ Observed({})
  BY DEF ClearShard
<1>2. call[g] = [pc |-> "clear", next |-> i] /\ i + 1 \in 0 .. shardCount
  BY <1>1, FrameKinds, ShardNumbers, ShardsOfCache
<1>3. fr \in Frames /\ fr.pc = "clear"
  BY <1>2 DEF Frames
<1>4. shards[i] \in ShardStates
  BY <1>1, ShardsOfCache
<1> HIDE DEF fr, i
<1>5. t \in ShardStates /\ DOMAIN t.items = {} /\ t.cleanups = shards[i].cleanups
  <2>1. t \in ShardStates /\ DOMAIN t.items = {}
    BY <1>4, ClearedProperties
  <2>2. t.cleanups = shards[i].cleanups
    BY DEF Cleared, NewShard
  <2> QED BY <2>1, <2>2
<1>6. PICK K \in SUBSET Keys : K = DOMAIN shards[i].items
  BY <1>4, ShardFields
<1>7. K \subseteq DOMAIN ItemsIn(shards)
  BY <1>1, <1>6 DEF ItemsIn, KeysIn, MInv, KeysAtHome
<1>8. g \in ClearsIn(call) /\ ClearsIn(call) = DOMAIN Clearing
  BY <1>1 DEF ClearsIn, Clearing
<1> HIDE DEF t
<1>9. /\ SetsIn(call') = SetsIn(call) /\ GetsIn(call') = GetsIn(call)
      /\ ClearsIn(call') = ClearsIn(call)
  <2>1. g \notin SetsIn(call)
    BY <1>1 DEF SetsIn
  <2>2. /\ SetsIn(call') = SetsIn(call) \ {g} /\ GetsIn(call') = GetsIn(call)
        /\ ClearsIn(call') = ClearsIn(call) \cup {g}
    BY <1>1, <1>3, CallsMove
  <2> QED BY <1>8, <2>1, <2>2
<1>10. Map!Remove(K)
  <2>1. /\ DOMAIN t.items = DOMAIN shards[i].items \ K
        /\ \A k \in DOMAIN t.items : t.items[k] = shards[i].items[k]
    BY <1>5, <1>6
  <2>2. i \in Shards /\ shards' = [shards EXCEPT ![i] = t] /\ Observed({})
    BY <1>1
  <2>3. t \in ShardStates /\ ClearsIn(call') = ClearsIn(call)
    BY <1>5, <1>9
  <2>4. \A k \in K : getShard(k) = i
    BY <1>1, <1>6 DEF MInv, KeysAtHome
  <2> QED BY <2>4, <2>1, <2>2, <2>3, KeysLeave
<1>11. CleanupsIn(shards') = CleanupsIn(shards)
  BY <1>1, <1>5, CleanupsStay
<1>12. DOMAIN Clearing # {} /\ \E L \in SUBSET DOMAIN ItemsIn(shards) : Map!Remove(L)
  BY <1>7, <1>8, <1>10
<1> QED
  BY <1>1, <1>9, <1>11, <1>12, MapVariables, MapVariablesAfter
  DEF Map!ClearSome

\* and returns when none is left of those it began with.
LEMMA ClearReturnIsClearReturn ==
    ASSUME HashCount <= IntHalf, MInv, MInv', NEW g \in Goroutines, ClearReturn(g)
    PROVE  Map!ClearReturn(g)
<1>1. /\ call[g].pc = "clear" /\ call[g].next = shardCount
      /\ maxSize' = maxSize /\ shards' = shards
      /\ call' = [call EXCEPT ![g] = Idle]
      /\ during' = [during EXCEPT ![g] = Unseen]
      /\ during \in [Goroutines -> Observations]
  BY DEF ClearReturn, Return, MInv, CInv, TypeOK
<1>2. Idle \in Frames /\ Idle.pc = "idle"
  BY DEF Frames, Idle
<1>3. /\ SetsIn(call') = SetsIn(call) /\ GetsIn(call') = GetsIn(call)
      /\ ClearsIn(call') = ClearsIn(call) \ {g}
      /\ ItemsIn(shards') = ItemsIn(shards) /\ CleanupsIn(shards') = CleanupsIn(shards)
      /\ StoredKeys' = StoredKeys
  BY <1>1, <1>2, SweepMoves
<1>4. g \in ClearsIn(call) /\ ClearsIn(call) = DOMAIN Clearing
      /\ \A h \in ClearsIn(call) : Clearing[h] = StoredKeys \ during[h].stored
  BY <1>1 DEF ClearsIn, Clearing
<1>5. Clearing[g] = {}
  <2> SUFFICES ASSUME NEW k \in StoredKeys PROVE k \in during[g].stored
    BY <1>4
  <2>1. PICK i \in Shards : k \in DOMAIN shards[i].items
    BY DEF StoredKeys
  <2>2. i < call[g].next
    BY <1>1, ShardNumbers
  <2> QED BY <1>1, <2>1, <2>2 DEF MInv, CInv, SweptShardsAreNewer
<1>6. Clearing' = Left(Clearing, g)
  <2>1. Clearing' = [h \in ClearsIn(call) \ {g} |-> StoredKeys \ during'[h].stored]
    BY <1>3 DEF Clearing
  <2>2. \A h \in ClearsIn(call) \ {g} : during'[h] = during[h]
    BY <1>1 DEF ClearsIn
  <2>3. \A h \in ClearsIn(call) \ {g} : StoredKeys \ during'[h].stored = Clearing[h]
    BY <1>4, <2>2
  <2> QED BY <1>4, <2>1, <2>3 DEF Left
<1> QED
  BY <1>1, <1>3, <1>4, <1>5, <1>6, MapNames, MapVariables, MapVariablesAfter
  DEF Map!ClearReturn

\* A step in which nothing happens to the map.
LEMMA MapUntouched ==
    ASSUME HashCount <= IntHalf, MInv, MInv', maxSize' = maxSize,
           ItemsIn(shards') = ItemsIn(shards),
           CleanupsIn(shards') = CleanupsIn(shards),
           SetsIn(call') = SetsIn(call), GetsIn(call') = GetsIn(call),
           Clearing' = Clearing
    PROVE  UNCHANGED Map!vars
BY MapVariables, MapVariablesAfter DEF Map!vars

\* Stats leaves it alone.
LEMMA StatsIsNoStep ==
    ASSUME HashCount <= IntHalf, MInv, MInv', NEW g \in Goroutines,
           StatsStart(g) \/ StatsCounters(g) \/ StatsSizes(g) \/ StatsReturn(g)
    PROVE  UNCHANGED Map!vars
<1>1. call[g].pc \in {"idle", "counters", "sizes"} /\ maxSize' = maxSize /\ shards' = shards
  BY DEF StatsStart, Sweep, Start, Idle, StatsCounters, StatsSizes, StatsReturn, Return
<1>2. PICK fr : call' = [call EXCEPT ![g] = fr] /\ fr.pc \in {"idle", "counters", "sizes"}
  <2>1. CASE StatsStart(g)
    <3> DEFINE to == [pc |-> "counters", next |-> 0,
                      total |-> [hits |-> 0, misses |-> 0, evictions |-> 0,
                                 count |-> 0, size |-> 0]]
    <3>1. call' = [call EXCEPT ![g] = to]
      BY <2>1 DEF StatsStart, Sweep
    <3>2. to.pc = "counters"
      OBVIOUS
    <3> HIDE DEF to
    <3> QED BY <3>1, <3>2
  <2>2. CASE StatsCounters(g) \/ StatsSizes(g)
    BY <2>2 DEF StatsCounters, StatsSizes
  <2>3. CASE StatsReturn(g)
    <3>1. call' = [call EXCEPT ![g] = Idle] /\ Idle.pc = "idle"
      BY <2>3 DEF StatsReturn, Return, Idle
    <3> QED BY <3>1
  <2> QED BY <2>1, <2>2, <2>3
<1>3. fr \in Frames
  <2>1. call' \in [Goroutines -> Frames] /\ call \in [Goroutines -> Frames]
    BY DEF MInv, CInv, TypeOK
  <2> QED BY <1>2, <2>1
<1>4. g \notin ClearsIn(call) /\ ClearsIn(call) \subseteq Goroutines
  BY <1>1 DEF ClearsIn
<1>5. /\ SetsIn(call') = SetsIn(call) /\ GetsIn(call') = GetsIn(call)
      /\ ClearsIn(call') = ClearsIn(call)
      /\ ItemsIn(shards') = ItemsIn(shards) /\ CleanupsIn(shards') = CleanupsIn(shards)
      /\ StoredKeys' = StoredKeys
  <2>1. /\ SetsIn(call') = SetsIn(call) /\ GetsIn(call') = GetsIn(call)
        /\ ClearsIn(call') = ClearsIn(call) \ {g}
        /\ ItemsIn(shards') = ItemsIn(shards) /\ CleanupsIn(shards') = CleanupsIn(shards)
        /\ StoredKeys' = StoredKeys
    BY <1>1, <1>2, <1>3, SweepMoves
  <2> QED BY <1>4, <2>1
<1>6. \A h \in Goroutines : h # g => during'[h] = during[h]
  <2>1. during \in [Goroutines -> Observations]
    BY DEF MInv, CInv, TypeOK
  <2> QED
    BY <2>1 DEF StatsStart, Sweep, StatsCounters, StatsSizes, StatsReturn, Return
<1>7. Clearing' = Clearing
  <2>1. Clearing' = [h \in ClearsIn(call) |-> StoredKeys \ during'[h].stored]
    BY <1>5 DEF Clearing
  <2>2. \A h \in ClearsIn(call) : during'[h] = during[h]
    BY <1>4, <1>6
  <2> QED BY <2>1, <2>2 DEF Clearing
<1> QED BY <1>1, <1>5, <1>7, MapUntouched

-----------------------------------------------------------------------------
(* The invariant under the map.                                            *)

\* A step that begins or ends no sweep.
LEMMA OutsideStays ==
    ASSUME MInv, NEW K \in SUBSET Keys, Observed(K) \/ during' = during,
           \A g \in Goroutines : call'[g] = call[g] \/ Sweeping(g)' = Sweeping(g)
    PROVE  OutsideSweeps'
<1> SUFFICES ASSUME NEW g \in Goroutines, ~Sweeping(g)' PROVE during'[g].stored = {}
  BY DEF OutsideSweeps
<1>1. ~Sweeping(g)
  BY DEF Sweeping
<1>2. during'[g] = during[g]
  BY <1>1 DEF Observed
<1> QED BY <1>1, <1>2 DEF MInv, OutsideSweeps

\* The call of a step moves from a frame to another.
LEMMA OneCall ==
    ASSUME MInv, NEW g \in Goroutines, NEW fr, call' = [call EXCEPT ![g] = fr]
    PROVE  call'[g] = fr /\ \A h \in Goroutines : h # g => call'[h] = call[h]
BY DEF MInv, CInv, TypeOK

\* Every step keeps the sweeps' observations apart.
LEMMA OutsideSweepsNext ==
    ASSUME HashCount <= IntHalf, MInv, [Next]_vars
    PROVE  OutsideSweeps'
<1>1. ASSUME NEW g \in Goroutines, NEW k \in Keys, NEW size \in Sizes, Set(g, k, size)
      PROVE  OutsideSweeps'
  <2>1. /\ call' = [call EXCEPT ![g] = [pc |-> "evict", shard |-> getShard(k)]]
        /\ Observed({k}) /\ call[g].pc = "idle" /\ {k} \in SUBSET Keys
    BY <1>1 DEF Set, Start, Idle
  <2>2. Sweeping(g)' = Sweeping(g) /\ \A h \in Goroutines : h # g => call'[h] = call[h]
    BY <2>1, OneCall DEF Sweeping
  <2> QED BY <2>1, <2>2, OutsideStays
<1>2. ASSUME NEW g \in Goroutines, NEW fr, NEW K \in SUBSET Keys,
             call' = [call EXCEPT ![g] = fr], Observed(K) \/ during' = during,
             /\ fr.pc \in {"clear", "counters", "sizes"}
                   <=> call[g].pc \in {"clear", "counters", "sizes"}
      PROVE  OutsideSweeps'
  <2>1. Sweeping(g)' = Sweeping(g) /\ \A h \in Goroutines : h # g => call'[h] = call[h]
    BY <1>2, OneCall DEF Sweeping
  <2> QED BY <1>2, <2>1, OutsideStays
<1>3. ASSUME NEW K \in SUBSET Keys, call' = call, Observed(K) \/ during' = during
      PROVE  OutsideSweeps'
  BY <1>3, OutsideStays
<1>4. {} \in SUBSET Keys
  OBVIOUS
<1>5. ASSUME NEW g \in Goroutines, NEW k \in Keys, Get(g, k)
      PROVE  OutsideSweeps'
  <2> DEFINE fr == [pc |-> "count", key |-> k,
                    hit |-> k \in DOMAIN shards[getShard(k)].items]
  <2>1. /\ call' = [call EXCEPT ![g] = fr] /\ during' = during
        /\ call[g].pc = "idle" /\ fr.pc = "count"
    BY <1>5 DEF Get, Start, Idle
  <2> HIDE DEF fr
  <2> QED BY <1>2, <1>4, <2>1
<1>6. ASSUME NEW g \in Goroutines, NEW k \in Keys, Delete(g, k)
      PROVE  OutsideSweeps'
  BY <1>3, <1>4, <1>6 DEF Delete
<1>7. ASSUME NEW g \in Goroutines, EvictOne(g)
      PROVE  OutsideSweeps'
  BY <1>3, <1>4, <1>7 DEF EvictOne
<1>8. ASSUME NEW g \in Goroutines, SetReturn(g) \/ GetCount(g)
      PROVE  OutsideSweeps'
  <2>1. /\ call' = [call EXCEPT ![g] = Idle] /\ Idle.pc = "idle"
        /\ call[g].pc \in {"evict", "count"} /\ (Observed({}) \/ during' = during)
    BY <1>8 DEF SetReturn, GetCount, Idle
  <2> QED BY <1>2, <1>4, <2>1
<1>9. ASSUME NEW g \in Goroutines, GetExpired(g)
      PROVE  OutsideSweeps'
  <2> DEFINE fr == [call[g] EXCEPT !.hit = FALSE]
  <2>1. call' = [call EXCEPT ![g] = fr] /\ during' = during /\ call[g].pc = "count"
    BY <1>9 DEF GetExpired
  <2>2. fr.pc = "count"
    BY <2>1, MissFrame, ShardsOfCache
  <2> HIDE DEF fr
  <2> QED BY <1>2, <1>4, <2>1, <2>2
<1>10. ASSUME NEW g \in Goroutines, ClearShard(g)
       PROVE  OutsideSweeps'
  <2> DEFINE fr == [call[g] EXCEPT !.next = @ + 1]
  <2>1. call' = [call EXCEPT ![g] = fr] /\ Observed({}) /\ call[g].pc = "clear"
    BY <1>10 DEF ClearShard
  <2>2. call[g] = [pc |-> "clear", next |-> call[g].next]
    BY <2>1, FrameKinds, ShardsOfCache
  <2>3. fr.pc = "clear"
    BY <2>2
  <2> HIDE DEF fr
  <2> QED BY <1>2, <1>4, <2>1, <2>3
<1>11. ASSUME NEW g \in Goroutines, StatsCounters(g) \/ StatsSizes(g)
       PROVE  OutsideSweeps'
  <2>1. PICK fr : call' = [call EXCEPT ![g] = fr] /\ fr.pc \in {"counters", "sizes"}
    BY <1>11 DEF StatsCounters, StatsSizes
  <2>2. during' = during /\ call[g].pc \in {"counters", "sizes"}
    BY <1>11 DEF StatsCounters, StatsSizes
  <2> QED BY <1>2, <1>4, <2>1, <2>2
<1>12. ASSUME NEW g \in Goroutines, ClearStart(g) \/ StatsStart(g)
       PROVE  OutsideSweeps'
  <2>1. PICK fr : Sweep(g, fr) /\ fr.pc \in {"clear", "counters"}
    BY <1>12 DEF ClearStart, StatsStart
  <2>2. /\ call' = [call EXCEPT ![g] = fr] /\ during \in [Goroutines -> Observations]
        /\ during' = [during EXCEPT ![g].empty = (StoredKeys = {})]
    BY <2>1 DEF Sweep, MInv, CInv, TypeOK
  <2>3. /\ Sweeping(g)'
        /\ \A h \in Goroutines : h # g => call'[h] = call[h] /\ during'[h] = during[h]
    BY <2>1, <2>2, OneCall DEF Sweeping
  <2> QED BY <2>3 DEF MInv, OutsideSweeps, Sweeping
<1>13. ASSUME NEW g \in Goroutines, ClearReturn(g) \/ StatsReturn(g)
       PROVE  OutsideSweeps'
  <2>1. /\ call' = [call EXCEPT ![g] = Idle] /\ during \in [Goroutines -> Observations]
        /\ during' = [during EXCEPT ![g] = Unseen]
    BY <1>13 DEF ClearReturn, StatsReturn, Return, MInv, CInv, TypeOK
  <2>2. /\ during'[g].stored = {}
        /\ \A h \in Goroutines : h # g => call'[h] = call[h] /\ during'[h] = during[h]
    BY <2>1, OneCall DEF Unseen
  <2> QED BY <2>2 DEF MInv, OutsideSweeps, Sweeping
<1>14. ASSUME NEW k \in Keys, Cleanup(k)
       PROVE  OutsideSweeps'
  BY <1>3, <1>4, <1>14 DEF Cleanup
<1>15. CASE UNCHANGED vars \/ Finished
  BY <1>3, <1>4, <1>15 DEF vars, Finished
<1> QED
  BY <1>1, <1>5, <1>6, <1>7, <1>8, <1>9, <1>10, <1>11, <1>12, <1>13, <1>14, <1>15
  DEF Next

\* Every step keeps the keys at home.
LEMMA MapInvNext ==
    ASSUME HashCount <= IntHalf, MInv, [Next]_vars
    PROVE  MInv'
<1>1. CInv'
  BY NextInv DEF MInv
<1>2. KeysAtHome'
  <2>1. CASE KeysGoHome
    BY <2>1 DEF MInv, KeysAtHome, KeysGoHome
  <2>2. CASE shards' = shards
    BY <2>2 DEF MInv, KeysAtHome
  <2>3. KeysGoHome \/ shards' = shards
    <3>1. ASSUME NEW g \in Goroutines,
                 StatsStart(g) \/ StatsCounters(g) \/ StatsSizes(g)
                    \/ ClearStart(g) \/ ClearReturn(g) \/ StatsReturn(g)
          PROVE  shards' = shards
      BY <3>1
      DEF StatsStart, StatsCounters, StatsSizes, ClearStart, ClearReturn, StatsReturn,
          Sweep, Return
    <3> QED BY <3>1, OtherStepsWait DEF MInv
  <2> QED BY <2>1, <2>2, <2>3
<1> QED BY <1>1, <1>2, OutsideSweepsNext DEF MInv

-----------------------------------------------------------------------------
(* The cache is one map.                                                   *)

\* Every step of the cache is a step of the map, or none.
LEMMA NextIsMapStep ==
    ASSUME HashCount <= IntHalf, MInv, MInv', [Next]_vars
    PROVE  [Map!Next]_(Map!vars)
<1>1. ASSUME NEW g \in Goroutines, NEW k \in Keys, NEW size \in Sizes, Set(g, k, size)
      PROVE  Map!Next
  BY <1>1, SetIsSet DEF Map!Next
<1>2. ASSUME NEW g \in Goroutines, NEW k \in Keys, Get(g, k)
      PROVE  Map!Next
  BY <1>2, GetIsGet DEF Map!Next
<1>3. ASSUME NEW g \in Goroutines, NEW k \in Keys, Delete(g, k)
      PROVE  Map!Next
  BY <1>3, DeleteIsDelete DEF Map!Next
<1>4. ASSUME NEW g \in Goroutines, EvictOne(g)
      PROVE  Map!Next
  BY <1>4, EvictOneIsEvict DEF Map!Next
<1>5. ASSUME NEW g \in Goroutines, SetReturn(g)
      PROVE  Map!Next
  BY <1>5, SetReturnIsSetReturn DEF Map!Next
<1>6. ASSUME NEW g \in Goroutines, GetExpired(g)
      PROVE  Map!Next
  BY <1>6, GetExpiredIsExpire DEF Map!Next
<1>7. ASSUME NEW g \in Goroutines, GetCount(g)
      PROVE  Map!Next
  BY <1>7, GetCountIsGetReturn DEF Map!Next
<1>8. ASSUME NEW g \in Goroutines, ClearStart(g)
      PROVE  Map!Next
  BY <1>8, ClearStartIsClearStart DEF Map!Next
<1>9. ASSUME NEW g \in Goroutines, ClearShard(g)
      PROVE  Map!Next
  BY <1>9, ClearShardIsClearSome DEF Map!Next
<1>10. ASSUME NEW g \in Goroutines, ClearReturn(g)
       PROVE  Map!Next
  BY <1>10, ClearReturnIsClearReturn DEF Map!Next
<1>11. ASSUME NEW k \in Keys, Cleanup(k)
       PROVE  Map!Next
  BY <1>11, CleanupIsCleanup DEF Map!Next
<1>12. ASSUME NEW g \in Goroutines,
              StatsStart(g) \/ StatsCounters(g) \/ StatsSizes(g) \/ StatsReturn(g)
       PROVE  UNCHANGED Map!vars
  BY <1>12, StatsIsNoStep
<1>13. CASE UNCHANGED vars \/ Finished
  <2>1. shards' = shards /\ call' = call /\ during' = during /\ maxSize' = maxSize
    BY <1>13 DEF vars, Finished
  <2>2. Clearing' = Clearing
    BY <2>1 DEF Clearing, StoredKeys
  <2>3. UNCHANGED Map!vars
    BY <2>1, <2>2, MapUntouched
  <2> QED BY <2>3
<1> QED
  BY <1>1, <1>2, <1>3, <1>4, <1>5, <1>6, <1>7, <1>8, <1>9, <1>10, <1>11, <1>12, <1>13
  DEF Next

\* The shards together are one map (cache.go:255-267), for every number of callers,
\* keys and cores and every limit: a Get finds what the last Set of its key stored
\* unless something has removed it, an operation leaves the items of other keys
\* alone, all items together are within the limit whenever no Set is inside, and a
\* Clear returns when each item it began with is gone or was stored anew.
THEOREM ShardsAreOneMap ==
    ASSUME HashCount <= IntHalf
    PROVE  Spec => IsOneMap
<1>1. Init => MInv
  <2> SUFFICES ASSUME Init PROVE MInv
    OBVIOUS
  <2>1. CInv
    BY InitInv
  <2>2. KeysAtHome
    BY ClearedProperties DEF Init, KeysAtHome
  <2>3. OutsideSweeps
    BY DEF Init, OutsideSweeps, Unseen
  <2> QED BY <2>1, <2>2, <2>3 DEF MInv
<1>2. MInv /\ [Next]_vars => MInv'
  BY MapInvNext
<1>3. Init => Map!Init
  <2> SUFFICES ASSUME Init PROVE Map!Init
    OBVIOUS
  <2>1. MInv
    BY <1>1
  <2>2. /\ maxSize \in MaxSizes /\ shards = [i \in Shards |-> NewShard]
        /\ \A g \in Goroutines : call[g].pc = "idle"
    BY DEF Init, Idle
  <2>3. DOMAIN ItemsIn(shards) = {}
    BY <2>2, ShardOfKey, ClearedProperties DEF ItemsIn, KeysIn
  <2>4. CleanupsIn(shards) = [k \in Keys |-> 0]
    BY <2>2, ShardOfKey DEF CleanupsIn, NewShard
  <2>5. SetsIn(call) = {} /\ DOMAIN GetsIn(call) = {} /\ DOMAIN Clearing = {}
    BY <2>2 DEF SetsIn, GetsIn, Clearing, ClearsIn
  <2>6. ItemsIn(shards) = <<>> /\ GetsIn(call) = <<>> /\ Clearing = <<>>
    BY <2>3, <2>5 DEF ItemsIn, GetsIn, Clearing
  <2> QED BY <2>1, <2>2, <2>4, <2>5, <2>6, MapVariables DEF Map!Init
<1>4. MInv /\ MInv' /\ [Next]_vars => [Map!Next]_(Map!vars)
  BY NextIsMapStep
<1> QED BY <1>1, <1>2, <1>3, <1>4, PTL DEF Spec, IsOneMap, Map!Spec
=============================================================================
