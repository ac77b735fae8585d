------------------------ MODULE CacheShardRefinement -------------------------
(***************************************************************************)
(* A shard, cut as the code cuts it and with every race of its unlocked    *)
(* reads, implements ShardContract: the promise the cache is built on.     *)
(*                                                                         *)
(* The contract stores an item when the Set takes the lock, with the bytes *)
(* it will have; counts it the moment a Get counts; and sees nothing of    *)
(* the writing in place, of the reads without the lock and of the list.    *)
(***************************************************************************)
EXTENDS CacheShardProofs

-----------------------------------------------------------------------------
(* Maps and records.                                                       *)

\* Functions on the same keys are equal when their values are.
LEMMA SameItems ==
    ASSUME NEW S, NEW f, f = [k \in S |-> f[k]], NEW h, h = [k \in S |-> h[k]],
           \A k \in S : f[k] = h[k]
    PROVE  f = h
OBVIOUS

\* Functions that differ at one place.
LEMMA OneChanges ==
    ASSUME NEW S, NEW f, f = [x \in S |-> f[x]], NEW h, h = [x \in S |-> h[x]],
           NEW a \in S, \A x \in S : x # a => h[x] = f[x]
    PROVE  h = [f EXCEPT ![a] = h[a]]
OBVIOUS

\* s is the record of a shard, with these fields and its items.
Reads(s, started, hits, misses, evictions, writer) ==
    /\ s = [items |-> s.items, cleanups |-> s.cleanups, hits |-> s.hits,
            misses |-> s.misses, evictions |-> s.evictions, writer |-> s.writer]
    /\ s.cleanups = started
    /\ s.hits = hits
    /\ s.misses = misses
    /\ s.evictions = evictions
    /\ s.writer = writer

\* The items of s, a function on K.
IsMap(s, K) == s.items = [k \in K |-> s.items[k]]

\* The fields determine the record.
LEMMA SameRecords ==
    ASSUME NEW a, NEW b, NEW c, NEW d, NEW e,
           NEW s, Reads(s, a, b, c, d, e), NEW t, Reads(t, a, b, c, d, e),
           s.items = t.items
    PROVE  s = t
BY DEF Reads

\* So they do with the items one by one.
LEMMA SameShards ==
    ASSUME NEW a, NEW b, NEW c, NEW d, NEW e,
           NEW s, Reads(s, a, b, c, d, e), NEW t, Reads(t, a, b, c, d, e),
           NEW K, IsMap(s, K), IsMap(t, K), \A k \in K : s.items[k] = t.items[k]
    PROVE  s = t
<1>1. s.items = t.items
  BY SameItems DEF IsMap
<1> QED BY <1>1, SameRecords

-----------------------------------------------------------------------------
(* What the operators of the contract make of a shard.                     *)

\* Set.
LEMMA StoredReads ==
    ASSUME NEW a, NEW b, NEW c, NEW d, NEW e,
           NEW s, Reads(s, a, b, c, d, e), NEW g, NEW k, NEW size,
           NEW t, t = Contract!Stored(s, g, k, size),
           NEW K, K = DOMAIN s.items \cup {k}
    PROVE  /\ Reads(t, a, b, c, d, g)
           /\ IsMap(t, K)
           /\ t.items[k] = size
           /\ \A j \in K : j # k => t.items[j] = s.items[j]
<1> DEFINE x == [j \in K |-> IF j = k THEN size ELSE s.items[j]]
           r == [s EXCEPT !.items = x]
<1>1. /\ x = [j \in K |-> x[j]]
      /\ x[k] = size
      /\ \A j \in K : j # k => x[j] = s.items[j]
  OBVIOUS
<1>2. t = [s EXCEPT !.items = x, !.writer = g]
  BY DEF Contract!Stored
<1> HIDE DEF x
<1>3. t = [r EXCEPT !.writer = g]
  BY <1>2
<1>4. Reads(r, a, b, c, d, e) /\ r.items = x
  BY DEF Reads
<1> HIDE DEF r
<1>5. Reads(t, a, b, c, d, g) /\ t.items = r.items
  BY <1>3, <1>4 DEF Reads
<1>6. t.items = x
  BY <1>4, <1>5
<1>7. IsMap(t, K)
  BY <1>1, <1>6, Zenon DEF IsMap
<1> QED BY <1>1, <1>5, <1>6, <1>7, Zenon

\* A key leaves.
LEMMA WithoutReads ==
    ASSUME NEW a, NEW b, NEW c, NEW d, NEW e,
           NEW s, Reads(s, a, b, c, d, e), NEW k,
           NEW t, t = Contract!Without(s, k),
           NEW K, K = DOMAIN s.items \ {k}
    PROVE  /\ Reads(t, a, b, c, d, e)
           /\ IsMap(t, K)
           /\ \A j \in K : t.items[j] = s.items[j]
<1> DEFINE x == [j \in K |-> s.items[j]]
<1>1. /\ x = [j \in K |-> x[j]]
      /\ \A j \in K : x[j] = s.items[j]
  OBVIOUS
<1>2. t = [s EXCEPT !.items = x]
  BY DEF Contract!Without
<1> HIDE DEF x
<1>3. Reads(t, a, b, c, d, e) /\ t.items = x
  BY <1>2 DEF Reads
<1>4. IsMap(t, K)
  BY <1>1, <1>3, Zenon DEF IsMap
<1> QED BY <1>1, <1>3, <1>4, Zenon

\* It leaves by an eviction.
LEMMA EvictedReads ==
    ASSUME NEW a, NEW b, NEW c, NEW d, NEW e,
           NEW s, Reads(s, a, b, c, d, e), NEW k
    PROVE  /\ Reads(Contract!Evicted(s, k), a, b, c, d + 1, e)
           /\ Contract!Evicted(s, k).items = Contract!Without(s, k).items
<1> DEFINE w == Contract!Without(s, k)
           x == Contract!Evicted(s, k)
<1>1. Reads(w, a, b, c, d, e)
  BY WithoutReads
<1>2. x = [w EXCEPT !.evictions = @ + 1]
  BY DEF Contract!Evicted
<1> HIDE DEF w, x
<1>3. Reads(x, a, b, c, d + 1, e) /\ x.items = w.items
  BY <1>1, <1>2 DEF Reads
<1> QED BY <1>3, Zenon DEF w, x

\* By a cleanup.
LEMMA CleanedUpReads ==
    ASSUME NEW a, NEW b, NEW c, NEW d, NEW e,
           NEW s, Reads(s, a, b, c, d, e), NEW k
    PROVE  /\ Reads(Contract!CleanedUp(s, k), [a EXCEPT ![k] = @ - 1], b, c, d, e)
           /\ Contract!CleanedUp(s, k).items = Contract!Without(s, k).items
<1> DEFINE w == Contract!Without(s, k)
           less == [w.cleanups EXCEPT ![k] = @ - 1]
           y == Contract!CleanedUp(s, k)
<1>1. Reads(w, a, b, c, d, e)
  BY WithoutReads
<1>2. y = [w EXCEPT !.cleanups = less]
  BY DEF Contract!CleanedUp
<1> HIDE DEF w, y
<1>3. less = [a EXCEPT ![k] = @ - 1]
  BY <1>1 DEF Reads
<1> HIDE DEF less
<1>4. Reads(y, less, b, c, d, e) /\ y.items = w.items
  BY <1>1, <1>2 DEF Reads
<1> QED BY <1>3, <1>4, Zenon DEF w, y

\* The items stay: the lock is given back.
LEMMA UnlockedReads ==
    ASSUME NEW a, NEW b, NEW c, NEW d, NEW e, NEW s, Reads(s, a, b, c, d, e)
    PROVE  /\ Reads(Contract!Unlocked(s), a, b, c, d, NoGoroutine)
           /\ Contract!Unlocked(s).items = s.items
BY DEF Contract!Unlocked, Reads

\* A Get starts a cleanup.
LEMMA StartedReads ==
    ASSUME NEW a, NEW b, NEW c, NEW d, NEW e,
           NEW s, Reads(s, a, b, c, d, e), NEW k
    PROVE  /\ Reads(Contract!CleanupStarted(s, k), [a EXCEPT ![k] = @ + 1], b, c, d, e)
           /\ Contract!CleanupStarted(s, k).items = s.items
<1> DEFINE more == [s.cleanups EXCEPT ![k] = @ + 1]
           y == Contract!CleanupStarted(s, k)
<1>1. y = [s EXCEPT !.cleanups = more]
  BY DEF Contract!CleanupStarted
<1>2. more = [a EXCEPT ![k] = @ + 1]
  BY DEF Reads
<1> HIDE DEF y, more
<1>3. Reads(y, more, b, c, d, e) /\ y.items = s.items
  BY <1>1 DEF Reads
<1> QED BY <1>2, <1>3, Zenon DEF y

\* Clear.
LEMMA ClearedReads ==
    ASSUME NEW a, NEW b, NEW c, NEW d, NEW e, NEW s, Reads(s, a, b, c, d, e)
    PROVE  /\ Reads(Contract!Cleared(s), a, 0, 0, 0, NoGoroutine)
           /\ Contract!Cleared(s).items = <<>>
BY DEF Contract!Cleared, Contract!NewShard, Reads

-----------------------------------------------------------------------------
(* What the contract sees.                                                 *)

\* The bytes of the keys, and what the Gets have still to count.
Weights == [k \in DOMAIN data |-> SizeOf(k)]
Pendings == [g \in Goroutines |-> Pending(g)]

\* The shard, as a record.
LEMMA ShardReads ==
    /\ Reads(Shard, cleanups, stats.hits, stats.misses, stats.evictions, mu)
    /\ IsMap(Shard, DOMAIN data) /\ DOMAIN Shard.items = DOMAIN data
    /\ Shard.items = Weights
<1>1. Shard.items = Weights
  BY DEF Shard, Weights
<1>2. IsMap(Shard, DOMAIN data) /\ DOMAIN Shard.items = DOMAIN data
  BY <1>1 DEF IsMap, Weights
<1>3. Reads(Shard, cleanups, stats.hits, stats.misses, stats.evictions, mu)
  BY DEF Shard, Reads
<1> QED BY <1>1, <1>2, <1>3

\* After a step, too.
LEMMA ShardReadsNext ==
    /\ Reads(Shard', cleanups', stats'.hits, stats'.misses, stats'.evictions, mu')
    /\ IsMap(Shard', DOMAIN data') /\ DOMAIN Shard'.items = DOMAIN data'
    /\ Shard'.items = Weights'
<1>1. Shard'.items = Weights'
  BY DEF Shard, Weights
<1>2. IsMap(Shard', DOMAIN data') /\ DOMAIN Shard'.items = DOMAIN data'
  BY <1>1 DEF IsMap, Weights
<1>3. Reads(Shard', cleanups', stats'.hits, stats'.misses, stats'.evictions, mu')
  BY DEF Shard, Reads
<1> QED BY <1>1, <1>2, <1>3

\* The goroutine that writes a key is the only one that writes.
LEMMA WeightsProperties ==
    IInv => /\ Weights \in [DOMAIN data -> Nat]
            /\ \A k \in DOMAIN data \ BeingWritten : Weights[k] = Sizes[k]
            /\ \A g \in Goroutines :
                  call[g].pc = "write" => Weights[call[g].key] = call[g].new.size
<1> SUFFICES ASSUME IInv
             PROVE  /\ Weights \in [DOMAIN data -> Nat]
                    /\ \A k \in DOMAIN data \ BeingWritten : Weights[k] = Sizes[k]
                    /\ \A g \in Goroutines : call[g].pc = "write"
                          => Weights[call[g].key] = call[g].new.size
  OBVIOUS
<1>1. ASSUME NEW k \in DOMAIN data \ BeingWritten PROVE Weights[k] = Sizes[k]
  <2>1. ~\E g \in Goroutines : call[g].pc = "write" /\ call[g].key = k
    BY DEF BeingWritten
  <2>2. SizeOf(k) = heap[data[k]].size
    BY <2>1 DEF SizeOf
  <2> QED BY <2>2 DEF Weights, Sizes
<1>2. ASSUME NEW g \in Goroutines, call[g].pc = "write"
      PROVE  Weights[call[g].key] = call[g].new.size
  <2> DEFINE k == call[g].key
             w == CHOOSE h \in Goroutines : call[h].pc = "write" /\ call[h].key = k
  <2>1. k \in DOMAIN data
    BY <1>2 DEF IInv, ItemIdentity, BeingWritten
  <2>2. \A h \in Goroutines : call[h].pc = "write" => h = g
    BY <1>2 DEF IInv, LockHeld
  <2>3. w \in Goroutines /\ call[w].pc = "write"
    BY <1>2
  <2>4. w = g
    BY <2>2, <2>3
  <2>5. SizeOf(k) = call[w].new.size
    BY <1>2 DEF SizeOf
  <2> QED BY <2>1, <2>4, <2>5 DEF Weights
<1>3. Weights \in [DOMAIN data -> Nat]
  <2>1. ASSUME NEW k \in DOMAIN data PROVE Weights[k] \in Nat
    <3>1. CASE k \notin BeingWritten
      BY <1>1, <3>1, DataProperties
    <3>2. CASE k \in BeingWritten
      <4>1. PICK g \in Goroutines : call[g].pc = "write" /\ call[g].key = k
        BY <3>2 DEF BeingWritten
      <4>2. call[g] \in SetFrames
        BY <4>1, FrameKinds DEF IInv, TypeOK
      <4> QED BY <1>2, <4>1, <4>2 DEF SetFrames, Fields
    <3> QED BY <3>1, <3>2
  <2>2. Weights = [k \in DOMAIN data |-> Weights[k]]
    BY DEF Weights
  <2> QED BY <2>1, <2>2
<1> QED BY <1>1, <1>2, <1>3

\* So it is after a step.
LEMMA WeightsNext ==
    ASSUME IInv'
    PROVE  /\ Weights' \in [DOMAIN data' -> Nat]
           /\ \A k \in (DOMAIN data \ BeingWritten)' : Weights'[k] = Sizes'[k]
           /\ \A g \in Goroutines :
                 call'[g].pc = "write" => Weights'[call'[g].key] = call'[g].new.size
<1>1. (IInv => /\ Weights \in [DOMAIN data -> Nat]
               /\ \A k \in DOMAIN data \ BeingWritten : Weights[k] = Sizes[k]
               /\ \A g \in Goroutines :
                     call[g].pc = "write" => Weights[call[g].key] = call[g].new.size)'
  BY WeightsProperties, PTL
<1> QED BY <1>1

\* While no Set writes, a key has the bytes of its item.
LEMMA SettledWeights ==
    ASSUME IInv, BeingWritten = {}
    PROVE  Weights = Sizes
<1>1. \A k \in DOMAIN data : Weights[k] = Sizes[k]
  BY WeightsProperties
<1>2. /\ Weights = [k \in DOMAIN data |-> Weights[k]]
      /\ Sizes = [k \in DOMAIN data |-> Sizes[k]]
  BY DEF Weights, Sizes
<1> QED BY <1>1, <1>2, SameItems

\* After a step, too.
LEMMA SettledWeightsNext ==
    ASSUME IInv', BeingWritten' = {}
    PROVE  Weights' = Sizes'
<1>1. \A k \in DOMAIN data' : Weights'[k] = Sizes'[k]
  BY WeightsNext
<1>2. /\ Weights' = [k \in DOMAIN data' |-> Weights'[k]]
      /\ Sizes' = [k \in DOMAIN data' |-> Sizes'[k]]
  BY DEF Weights, Sizes
<1> QED BY <1>1, <1>2, SameItems

\* A step that starts no writing and ends none leaves the bytes as they were, if
\* it leaves the map and the sizes of its items.
LEMMA WeightsKept ==
    ASSUME IInv, IInv', data' = data,
           \A g \in Goroutines :
              /\ call'[g].pc = "write" <=> call[g].pc = "write"
              /\ call[g].pc = "write" => /\ call'[g].key = call[g].key
                                         /\ call'[g].new = call[g].new,
           \A k \in DOMAIN data : heap'[data[k]].size = heap[data[k]].size
    PROVE  Weights' = Weights
<1>1. BeingWritten' = BeingWritten
  BY DEF BeingWritten
<1>2. \A k \in DOMAIN data : Sizes'[k] = Sizes[k]
  BY DEF Sizes
<1>3. ASSUME NEW k \in DOMAIN data PROVE Weights'[k] = Weights[k]
  <2>1. CASE k \notin BeingWritten
    BY <1>1, <1>2, <2>1, WeightsProperties, WeightsNext
  <2>2. CASE k \in BeingWritten
    <3>1. PICK g \in Goroutines : call[g].pc = "write" /\ call[g].key = k
      BY <2>2 DEF BeingWritten
    <3> QED BY <3>1, WeightsProperties, WeightsNext
  <2> QED BY <2>1, <2>2
<1>4. /\ Weights = [k \in DOMAIN data |-> Weights[k]]
      /\ Weights' = [k \in DOMAIN data |-> Weights'[k]]
  BY DEF Weights
<1> QED BY <1>3, <1>4, SameItems

\* The collector takes no item from the map.
LEMMA ItemsOfMapKept ==
    ASSUME IInv', NEW c, heap' = Collected(heap, data', c)
    PROVE  \A k \in DOMAIN data' : heap'[data'[k]] = heap[data'[k]]
<1>1. \A k \in DOMAIN data' : data'[k] \in DOMAIN heap'
  BY DEF IInv, ItemIdentity, Reachable
<1> QED BY <1>1, CollectedIsQuiet

\* While no Set writes, the contract's size is currentSize.
LEMMA SizeOfRecord ==
    ASSUME IInv, BeingWritten = {}
    PROVE  Contract!Size(Shard) = currentSize
<1>1. Weights = Sizes
  BY SettledWeights
<1>2. DOMAIN data \ {} = DOMAIN data /\ DOMAIN Sizes = DOMAIN data
  BY DEF Sizes
<1>3. Contract!Bytes(Sizes, DOMAIN data) = Bytes(Sizes, DOMAIN data)
  BY DEF Contract!Bytes, Bytes
<1>4. \A S : Contract!Cardinality(S) = Cardinality(S)
  BY Zenon DEF Contract!Cardinality, Cardinality
<1> QED BY <1>1, <1>2, <1>3, <1>4, ShardReads DEF Contract!Size, IInv, SizeExact

-----------------------------------------------------------------------------
(* Gets.                                                                   *)

\* A step of one goroutine changes what it has to count, and nothing else.
LEMMA PendingsMove ==
    ASSUME call \in [Goroutines -> Frames], NEW g \in Goroutines,
           \A h \in Goroutines : h # g => call'[h] = call[h]
    PROVE  /\ Pendings' = [Pendings EXCEPT ![g] = Pending(g)']
           /\ Pendings[g] = Pending(g)
           /\ Pending(g)' = Pending(g) => Pendings' = Pendings
<1>1. \A h \in Goroutines : h # g => Pending(h)' = Pending(h)
  BY DEF Pending
<1>2. DOMAIN Pendings = Goroutines /\ \A h \in Goroutines : Pendings[h] = Pending(h)
  BY DEF Pendings
<1>3. DOMAIN Pendings' = Goroutines /\ \A h \in Goroutines : Pendings'[h] = Pending(h)'
  BY DEF Pendings
<1>4. Pendings = [h \in Goroutines |-> Pendings[h]]
      /\ Pendings' = [h \in Goroutines |-> Pendings'[h]]
  BY DEF Pendings
<1>5. \A h \in Goroutines : h # g => Pendings'[h] = Pendings[h]
  BY <1>1, <1>2, <1>3
<1>6. Pendings' = [Pendings EXCEPT ![g] = Pendings'[g]]
  BY <1>4, <1>5, OneChanges
<1>7. Pending(g)' = Pending(g) => \A h \in Goroutines : Pendings'[h] = Pendings[h]
  BY <1>2, <1>3, <1>5
<1>8. Pending(g)' = Pending(g) => Pendings' = Pendings
  BY <1>4, <1>7, SameItems
<1> QED BY <1>2, <1>3, <1>6, <1>8

\* What a Get has to count, by where it is.
LEMMA PendingCases ==
    ASSUME NEW g \in Goroutines
    PROVE  /\ call[g].pc \in {"check", "touch", "count"}
                 => Pending(g) = Contract!Found(call[g].key)
           /\ call[g].pc = "miss" => Pending(g) = Contract!Absent
           /\ call[g].pc \notin {"check", "touch", "count", "miss"}
                 => Pending(g) = Contract!NoGet
BY DEF Pending, Contract!Found, Contract!Absent, Contract!NoGet

\* And after a step.
LEMMA PendingCasesNext ==
    ASSUME NEW g \in Goroutines
    PROVE  /\ call'[g].pc \in {"check", "touch", "count"}
                 => Pending(g)' = Contract!Found(call'[g].key)
           /\ call'[g].pc = "miss" => Pending(g)' = Contract!Absent
           /\ call'[g].pc \notin {"check", "touch", "count", "miss"}
                 => Pending(g)' = Contract!NoGet
BY DEF Pending, Contract!Found, Contract!Absent, Contract!NoGet

\* The three are different.
LEMMA PendingKinds ==
    ASSUME NEW k
    PROVE  /\ Contract!Found(k) # Contract!NoGet
           /\ Contract!Found(k) # Contract!Absent
           /\ Contract!Absent # Contract!NoGet
BY DEF Contract!Found, Contract!Absent, Contract!NoGet

-----------------------------------------------------------------------------
(* The steps of a Set.                                                     *)

\* The sizes of the values stored, as the contract knows them.
StoredSizes == {RawLen[v] : v \in Values} \cup {PackedLen[v] : v \in Values}

\* What Compress leaves has one of the sizes the contract allows.
LEMMA DerivedSize ==
    ASSUME NEW f, f.payload \in Values, Derived(f)
    PROVE  f.size \in StoredSizes
BY DEF Derived, StoredLen, StoredSizes

\* A Set that has locked the shard stores its item, whether it will write it in
\* place or has made it.
LEMMA SetStores ==
    ASSUME IInv, IInv', GInv, NEW g \in Goroutines,
           SetOverwrite(g) \/ SetInsert(g)
    PROVE  Contract!Store(g, call[g].key, call[g].new.size)
<1> DEFINE k == call[g].key
           size == call[g].new.size
<1>1. /\ call[g].pc = "lock" /\ call[g] \in SetFrames /\ k \in Keys
      /\ mu = NoGoroutine /\ mu' = g
      /\ UNCHANGED <<cleanups, stats>>
  BY FrameKinds DEF SetOverwrite, SetInsert, IInv, TypeOK, SetFrames
<1>2. BeingWritten = {} /\ Weights = Sizes /\ DOMAIN Weights = DOMAIN data
  BY <1>1, WriterKeys, SettledWeights DEF IInv, Weights
<1>3. DOMAIN Weights' = DOMAIN data' /\ DOMAIN data' = DOMAIN data \cup {k}
  BY DEF SetOverwrite, SetInsert, Weights, Put
<1>4. Weights'[k] = size /\ \A j \in DOMAIN data \ {k} : Weights'[j] = Weights[j]
  <2>1. CASE SetOverwrite(g)
    <3>1. /\ call' = [call EXCEPT ![g].pc = "write"]
          /\ UNCHANGED <<data, heap>>
      BY <2>1 DEF SetOverwrite
    <3>2. /\ call'[g].pc = "write" /\ call'[g].key = k /\ call'[g].new = call[g].new
      BY <1>1, <3>1, SetFrameMoves DEF IInv, TypeOK
    <3>3. BeingWritten' = {k}
      <4>1. \A h \in Goroutines : call[h].pc # "write"
        BY <1>2 DEF BeingWritten
      <4>2. \A h \in Goroutines : h # g => call'[h] = call[h]
        BY <3>1 DEF IInv, TypeOK
      <4> QED BY <3>2, <4>1, <4>2 DEF BeingWritten
    <3>4. Weights'[k] = size
      BY <3>2, WeightsNext
    <3>5. \A j \in DOMAIN data \ {k} : Weights'[j] = Sizes'[j]
      BY <3>1, <3>3, WeightsNext
    <3>6. Sizes' = Sizes
      BY <3>1 DEF Sizes
    <3> QED BY <1>2, <3>4, <3>5, <3>6
  <2>2. CASE SetInsert(g)
    <3> DEFINE item == [payload |-> call[g].new.payload,
                        packed |-> call[g].new.packed,
                        size |-> size, expireAt |-> call[g].new.expireAt,
                        accessAt |-> call[g].new.accessAt,
                        createdAt |-> call[g].new.accessAt, accessCount |-> 0]
    <3>1. /\ call' = [call EXCEPT ![g].pc = "evict"]
          /\ k \notin DOMAIN data
          /\ data' = Put(data, k, NewItem)
          /\ heap' = Put(heap, NewItem, item)
      BY <2>2 DEF SetInsert
    <3>2. item.size = size
      OBVIOUS
    <3>3. NewItem \in Items \ DOMAIN heap
      BY <1>1, <3>1, NewItemIsFree DEF Holds
    <3>4. BeingWritten' = {}
      <4>1. call'[g].pc = "evict" /\ \A h \in Goroutines : h # g => call'[h] = call[h]
        BY <1>1, <3>1, SetFrameMoves DEF IInv, TypeOK
      <4> QED BY <1>2, <4>1 DEF BeingWritten
    <3>5. Weights' = Sizes'
      BY <3>4, SettledWeightsNext
    <3>6. \A j \in DOMAIN data' : Sizes'[j] = heap'[data'[j]].size
      BY DEF Sizes
    <3> HIDE DEF item
    <3>7. heap'[data'[k]] = item
      BY <3>1 DEF Put
    <3>8. \A j \in DOMAIN data \ {k} : heap'[data'[j]] = heap[data[j]]
      BY <3>1, <3>3, DataProperties DEF Put
    <3> QED BY <1>2, <1>3, <3>2, <3>5, <3>6, <3>7, <3>8, DataProperties
  <2> QED BY <2>1, <2>2
<1>5. Shard' = Contract!Stored(Shard, g, k, size)
  <2> DEFINE t == Contract!Stored(Shard, g, k, size)
             K == DOMAIN data \cup {k}
  <2>1. K = DOMAIN Shard.items \cup {k}
    BY ShardReads
  <2>2. t = Contract!Stored(Shard, g, k, size)
    OBVIOUS
  <2>3. /\ Reads(Shard', cleanups, stats.hits, stats.misses, stats.evictions, g)
        /\ IsMap(Shard', K)
        /\ Shard'.items = Weights'
    BY <1>1, <1>3, ShardReadsNext
  <2> HIDE DEF t, K
  <2>4. /\ Reads(t, cleanups, stats.hits, stats.misses, stats.evictions, g)
        /\ IsMap(t, K)
        /\ t.items[k] = size
        /\ \A j \in K : j # k => t.items[j] = Shard.items[j]
    <3>1. Reads(Shard, cleanups, stats.hits, stats.misses, stats.evictions, mu)
      BY ShardReads
    <3>2. IsMap(t, K)
      BY <2>1, <2>2, <3>1, StoredReads
    <3> QED BY <2>1, <2>2, <3>1, <3>2, StoredReads
  <2>5. \A j \in K : Shard'.items[j] = t.items[j]
    BY <1>4, <2>3, <2>4, ShardReads DEF K
  <2> QED BY <2>2, <2>3, <2>4, <2>5, SameShards
<1>8. Pendings' = Pendings
  <2>1. call \in [Goroutines -> Frames]
    BY DEF IInv, TypeOK
  <2>2. \A h \in Goroutines : h # g => call'[h] = call[h]
    BY <2>1 DEF SetOverwrite, SetInsert
  <2>3. call'[g].pc \in {"write", "evict"}
    <3>1. \/ call' = [call EXCEPT ![g].pc = "write"]
          \/ call' = [call EXCEPT ![g].pc = "evict"]
      BY DEF SetOverwrite, SetInsert
    <3>2. /\ [call[g] EXCEPT !.pc = "write"].pc = "write"
          /\ [call[g] EXCEPT !.pc = "evict"].pc = "evict"
      BY <1>1, SetFrameMoves
    <3> QED BY <2>1, <3>1, <3>2
  <2>4. Pending(g)' = Pending(g)
    BY <1>1, <2>3, PendingCases, PendingCasesNext
  <2> QED BY <2>1, <2>2, <2>4, PendingsMove
<1>9. Contract!Free(Shard)
  BY <1>1, ShardReads DEF Contract!Free, Reads
<1> QED BY <1>5, <1>8, <1>9 DEF Contract!Store, Pendings

\* A key that leaves the map leaves the contract's items, and no other does; a
\* key that is not there leaves nothing.
LEMMA KeyGoes ==
    ASSUME IInv, IInv', BeingWritten = {}, call' = call, NEW k,
           \/ /\ data' = Drop(data, k)
              /\ heap' = Collected(heap, data', call)
           \/ k \notin DOMAIN data /\ UNCHANGED <<data, heap>>
    PROVE  Shard'.items = Contract!Without(Shard, k).items
<1> DEFINE t == Contract!Without(Shard, k)
           K == DOMAIN data \ {k}
<1>1. BeingWritten' = {}
  BY DEF BeingWritten
<1>2. DOMAIN data' = K /\ \A j \in K : data'[j] = data[j]
  BY DEF Drop
<1>3. \A j \in K : heap'[data'[j]] = heap[data'[j]]
  BY <1>2, ItemsOfMapKept
<1>4. Weights = Sizes /\ Weights' = Sizes'
  BY <1>1, SettledWeights, SettledWeightsNext
<1>5. \A j \in K : Weights'[j] = Weights[j]
  BY <1>2, <1>3, <1>4 DEF Sizes
<1>6. IsMap(Shard', K) /\ \A j \in K : Shard'.items[j] = Shard.items[j]
  BY <1>2, <1>5, ShardReads, ShardReadsNext
<1>7. t = Contract!Without(Shard, k) /\ K = DOMAIN Shard.items \ {k}
  BY ShardReads
<1> HIDE DEF t, K
<1>8. Reads(Shard, cleanups, stats.hits, stats.misses, stats.evictions, mu)
  BY ShardReads
<1>9. IsMap(t, K)
  BY <1>7, <1>8, WithoutReads
<1>10. \A j \in K : t.items[j] = Shard.items[j]
  BY <1>7, <1>8, <1>9, WithoutReads
<1>11. \A j \in K : Shard'.items[j] = t.items[j]
  BY <1>6, <1>10
<1>12. Shard'.items = t.items
  BY <1>6, <1>9, <1>11, SameItems DEF IsMap
<1> QED BY <1>12 DEF t

\* A round of evictIfNeeded is one eviction, over the limit.
LEMMA EvictOneMaps ==
    ASSUME IInv, IInv', NEW g \in Goroutines, EvictOne(g)
    PROVE  \E k \in Keys : Contract!Evict(g, k)
<1> DEFINE k == Victim(evictionList)
<1>1. /\ call[g].pc = "evict" /\ OverLimit
      /\ k \in DOMAIN data
      /\ data' = Drop(data, k)
      /\ heap' = Collected(heap, data', call)
      /\ stats' = [stats EXCEPT !.evictions = @ + 1]
      /\ UNCHANGED <<mu, cleanups, call>>
  BY DEF EvictOne
<1> HIDE DEF k
<1>2. mu = g /\ BeingWritten = {} /\ k \in Keys
  BY <1>1, WriterKeys DEF IInv, TypeOK
<1>3. /\ stats'.evictions = stats.evictions + 1
      /\ stats'.hits = stats.hits /\ stats'.misses = stats.misses
  BY <1>1 DEF IInv, TypeOK, Stats
<1>4. Shard' = Contract!Evicted(Shard, k)
  <2>1. Shard'.items = Contract!Without(Shard, k).items
    BY <1>1, <1>2, KeyGoes
  <2>2. Reads(Shard', cleanups, stats.hits, stats.misses, stats.evictions + 1, mu)
    BY <1>1, <1>3, ShardReadsNext
  <2>3. Reads(Shard, cleanups, stats.hits, stats.misses, stats.evictions, mu)
    BY ShardReads
  <2>4. /\ Reads(Contract!Evicted(Shard, k), cleanups, stats.hits, stats.misses,
                 stats.evictions + 1, mu)
        /\ Contract!Evicted(Shard, k).items = Contract!Without(Shard, k).items
    BY <2>3, EvictedReads
  <2> QED BY <2>1, <2>2, <2>4, SameRecords
<1>5. Contract!Over(Shard, MaxSize)
  BY <1>1, <1>2, SizeOfRecord DEF Contract!Over, OverLimit
<1>6. Shard.writer = g /\ k \in DOMAIN Shard.items
  BY <1>1, <1>2, ShardReads DEF Reads
<1>7. Pendings' = Pendings
  BY <1>1 DEF Pendings, Pending
<1> QED BY <1>2, <1>4, <1>5, <1>6, <1>7 DEF Contract!Evict, Pendings

\* A Set that gives the lock back has room, or has met the empty key.
LEMMA SetReleases ==
    ASSUME IInv, IInv', NEW g \in Goroutines, EvictStop(g) \/ SetDone(g)
    PROVE  Contract!Release(g)
<1>1. /\ call[g].pc = "evict" /\ mu' = NoGoroutine
      /\ call' = [call EXCEPT ![g] = Idle]
      /\ UNCHANGED <<data, heap, cleanups, stats>>
  BY DEF EvictStop, SetDone
<1>2. mu = g /\ BeingWritten = {} /\ BeingWritten' = {} /\ Sizes' = Sizes
  BY <1>1, WriterKeys, SetLeaves DEF IInv
<1>3. Weights' = Weights
  BY <1>2, SettledWeights, SettledWeightsNext
<1>4. Shard' = Contract!Unlocked(Shard)
  <2>1. Reads(Shard', cleanups, stats.hits, stats.misses, stats.evictions, NoGoroutine)
    BY <1>1, ShardReadsNext
  <2>2. Reads(Shard, cleanups, stats.hits, stats.misses, stats.evictions, mu)
    BY ShardReads
  <2>3. /\ Reads(Contract!Unlocked(Shard), cleanups, stats.hits, stats.misses,
                 stats.evictions, NoGoroutine)
        /\ Contract!Unlocked(Shard).items = Shard.items
    BY <2>2, UnlockedReads
  <2>4. Shard'.items = Shard.items
    BY <1>3, ShardReads, ShardReadsNext
  <2> QED BY <2>1, <2>3, <2>4, SameRecords
<1>5. Contract!Over(Shard, MaxSize) => NoKey \in DOMAIN Shard.items
  <2> SUFFICES ASSUME Contract!Over(Shard, MaxSize) PROVE NoKey \in DOMAIN data
    BY ShardReads
  <2>1. OverLimit
    BY <1>2, SizeOfRecord DEF Contract!Over, OverLimit
  <2>2. EvictStop(g)
    BY <2>1 DEF SetDone
  <2>3. DOMAIN data # {}
    <3> SUFFICES ASSUME DOMAIN data = {} PROVE FALSE
      OBVIOUS
    <3>1. DOMAIN data \ {} = {}
      OBVIOUS
    <3>2. currentSize = 0
      BY <1>2, <3>1, BytesNone DEF IInv, SizeExact
    <3> QED BY <2>1, <3>2, SizesAssumption DEF OverLimit
  <2>4. IsList(evictionList)
    BY DEF IInv, ListMatchesData
  <2>5. CASE KeysIn(evictionList) = {}
    BY <1>2, <2>3, <2>5 DEF IInv, ListMatchesData
  <2>6. CASE KeysIn(evictionList) # {}
    <3>1. Victim(evictionList) \in KeysIn(evictionList)
      BY <2>2, <2>4, <2>6, RemoveLeastProperties DEF EvictStop
    <3>2. Victim(evictionList) \in DOMAIN data
      BY <3>1 DEF IInv, ListMatchesData
    <3> QED BY <2>2, <3>2 DEF EvictStop
  <2> QED BY <2>5, <2>6
<1>6. Pendings' = Pendings
  <2>1. call \in [Goroutines -> Frames] /\ Idle.pc = "idle"
    BY DEF IInv, TypeOK, Idle
  <2>2. call'[g].pc = "idle" /\ \A h \in Goroutines : h # g => call'[h] = call[h]
    BY <1>1, <2>1
  <2>3. Pending(g)' = Pending(g)
    BY <1>1, <2>2, PendingCases, PendingCasesNext
  <2> QED BY <2>1, <2>2, <2>3, PendingsMove
<1>7. Shard.writer = g
  BY <1>2, ShardReads DEF Reads
<1> QED BY <1>4, <1>5, <1>6, <1>7 DEF Contract!Release, Pendings

-----------------------------------------------------------------------------
(* Deletes and Clear.                                                      *)

\* A caller's Delete.
LEMMA DeleteMaps ==
    ASSUME IInv, IInv', NEW g \in Goroutines, NEW k \in Keys, Delete(g, k)
    PROVE  Contract!Remove(k)
<1>1. /\ mu = NoGoroutine /\ call' = call
      /\ UNCHANGED <<mu, stats, cleanups>>
      /\ \/ /\ data' = Drop(data, k)
            /\ heap' = Collected(heap, data', call)
         \/ k \notin DOMAIN data /\ UNCHANGED <<data, heap>>
  BY DEF Delete, DeleteLocked
<1>2. Shard'.items = Contract!Without(Shard, k).items
  <2>1. BeingWritten = {}
    BY <1>1, WriterKeys DEF IInv
  <2> QED BY <1>1, <2>1, KeyGoes
<1>3. Reads(Shard, cleanups, stats.hits, stats.misses, stats.evictions, mu)
  BY ShardReads
<1>4. Reads(Shard', cleanups, stats.hits, stats.misses, stats.evictions, mu)
  BY <1>1, ShardReadsNext
<1>5. Reads(Contract!Without(Shard, k), cleanups, stats.hits, stats.misses,
            stats.evictions, mu)
  <2> DEFINE K == DOMAIN Shard.items \ {k}
             t == Contract!Without(Shard, k)
  <2>1. t = Contract!Without(Shard, k) /\ K = DOMAIN Shard.items \ {k}
    OBVIOUS
  <2> HIDE DEF t, K
  <2>2. IsMap(t, K)
    BY <1>3, <2>1, WithoutReads
  <2>3. Reads(t, cleanups, stats.hits, stats.misses, stats.evictions, mu)
    BY <1>3, <2>1, <2>2, WithoutReads
  <2> QED BY <2>3 DEF t
<1>6. Shard' = Contract!Without(Shard, k)
  BY <1>2, <1>4, <1>5, SameRecords
<1>7. Contract!Free(Shard)
  BY <1>1, <1>3 DEF Contract!Free, Reads
<1>8. Pendings' = Pendings
  BY <1>1 DEF Pendings, Pending
<1> QED BY <1>6, <1>7, <1>8 DEF Contract!Remove, Pendings

\* A cleanup's.
LEMMA CleanupMaps ==
    ASSUME IInv, IInv', NEW k \in Keys, CleanupDelete(k)
    PROVE  Contract!Cleanup(k)
<1>1. /\ mu = NoGoroutine /\ call' = call
      /\ UNCHANGED <<mu, stats>>
      /\ cleanups[k] > 0
      /\ cleanups' = [cleanups EXCEPT ![k] = @ - 1]
      /\ \/ /\ data' = Drop(data, k)
            /\ heap' = Collected(heap, data', call)
         \/ k \notin DOMAIN data /\ UNCHANGED <<data, heap>>
  BY DEF CleanupDelete, DeleteLocked
<1>2. Shard'.items = Contract!Without(Shard, k).items
  <2>1. BeingWritten = {}
    BY <1>1, WriterKeys DEF IInv
  <2> QED BY <1>1, <2>1, KeyGoes
<1>3. Reads(Shard, cleanups, stats.hits, stats.misses, stats.evictions, mu)
  BY ShardReads
<1>4. Reads(Shard', cleanups', stats.hits, stats.misses, stats.evictions, mu)
  BY <1>1, ShardReadsNext
<1>5. /\ Reads(Contract!CleanedUp(Shard, k), cleanups', stats.hits, stats.misses,
               stats.evictions, mu)
      /\ Contract!CleanedUp(Shard, k).items = Contract!Without(Shard, k).items
  <2>1. /\ Reads(Contract!CleanedUp(Shard, k), [cleanups EXCEPT ![k] = @ - 1],
                 stats.hits, stats.misses, stats.evictions, mu)
        /\ Contract!CleanedUp(Shard, k).items = Contract!Without(Shard, k).items
    BY <1>3, CleanedUpReads
  <2> QED BY <1>1, <2>1, Zenon
<1>6. Shard' = Contract!CleanedUp(Shard, k)
  BY <1>2, <1>4, <1>5, SameRecords
<1>7. Contract!Free(Shard) /\ Shard.cleanups[k] > 0
  BY <1>1, <1>3 DEF Contract!Free, Reads
<1>8. Pendings' = Pendings
  BY <1>1 DEF Pendings, Pending
<1> QED BY <1>6, <1>7, <1>8 DEF Contract!Cleanup, Pendings

\* Clear.
LEMMA ClearMaps ==
    ASSUME IInv, IInv', NEW g \in Goroutines, Clear(g)
    PROVE  Contract!Clear
<1>1. /\ mu = NoGoroutine /\ mu' = NoGoroutine
      /\ data' = <<>>
      /\ stats' = [hits |-> 0, misses |-> 0, evictions |-> 0]
      /\ UNCHANGED <<cleanups, call>>
  BY DEF Clear
<1>2. Reads(Shard, cleanups, stats.hits, stats.misses, stats.evictions, mu)
  BY ShardReads
<1>3. Reads(Shard', cleanups, 0, 0, 0, NoGoroutine) /\ IsMap(Shard', {})
  BY <1>1, ShardReadsNext
<1>4. /\ Reads(Contract!Cleared(Shard), cleanups, 0, 0, 0, NoGoroutine)
      /\ Contract!Cleared(Shard).items = <<>>
  BY <1>2, ClearedReads
<1>5. Shard'.items = <<>>
  BY <1>3 DEF IsMap
<1>6. Shard' = Contract!Cleared(Shard)
  BY <1>3, <1>4, <1>5, SameRecords
<1>7. Contract!Free(Shard)
  BY <1>1, <1>2 DEF Contract!Free, Reads
<1>8. Pendings' = Pendings
  BY <1>1 DEF Pendings, Pending
<1> QED BY <1>6, <1>7, <1>8 DEF Contract!Clear, Pendings
-----------------------------------------------------------------------------
(* The steps of a Get, and those the contract does not see.                *)

\* The shard is as it was if the bytes of its keys are.
LEMMA ShardKept ==
    ASSUME Weights' = Weights, UNCHANGED <<mu, stats, cleanups>>
    PROVE  Shard' = Shard
<1>1. /\ Reads(Shard, cleanups, stats.hits, stats.misses, stats.evictions, mu)
      /\ Shard.items = Weights
  BY ShardReads
<1>2. /\ Reads(Shard', cleanups, stats.hits, stats.misses, stats.evictions, mu)
      /\ Shard'.items = Weights
  BY ShardReadsNext
<1> QED BY <1>1, <1>2, SameRecords

\* A goroutine that neither writes nor starts to leaves the bytes as they were.
LEMMA WeightsOfReader ==
    ASSUME IInv, IInv', NEW g \in Goroutines, data' = data,
           call[g].pc # "write", call'[g].pc # "write",
           \A h \in Goroutines : h # g => call'[h] = call[h],
           \A k \in DOMAIN data : heap'[data[k]].size = heap[data[k]].size
    PROVE  Weights' = Weights
<1>1. \A h \in Goroutines :
         /\ call'[h].pc = "write" <=> call[h].pc = "write"
         /\ call[h].pc = "write" => /\ call'[h].key = call[h].key
                                    /\ call'[h].new = call[h].new
  OBVIOUS
<1> QED BY <1>1, WeightsKept

\* A Get looks its key up.
LEMMA GetLooksUp ==
    ASSUME IInv, IInv', NEW g \in Goroutines, NEW k \in Keys,
           GetFound(g, k) \/ GetAbsent(g, k)
    PROVE  Contract!Lookup(g, k)
<1>1. /\ call[g].pc = "idle" /\ mu = NoGoroutine
      /\ UNCHANGED <<data, heap, mu, stats, cleanups>>
  BY DEF GetFound, GetAbsent, Start, Idle
<1>2. call \in [Goroutines -> Frames]
  BY DEF IInv, TypeOK
<1>3. \A h \in Goroutines : h # g => call'[h] = call[h]
  BY <1>2 DEF GetFound, GetAbsent
<1>4. /\ k \in DOMAIN data => call'[g].pc = "check" /\ call'[g].key = k
      /\ k \notin DOMAIN data => call'[g].pc = "miss"
  BY <1>2 DEF GetFound, GetAbsent
<1>5. Shard' = Shard
  <2>1. Weights' = Weights
    BY <1>1, <1>3, <1>4, WeightsOfReader
  <2> QED BY <1>1, <2>1, ShardKept
<1>6. Pendings[g] = Contract!NoGet
  <2>1. Pending(g) = Contract!NoGet
    BY <1>1, PendingCases
  <2> QED BY <2>1 DEF Pendings
<1>7. Pendings' = [Pendings EXCEPT ![g] = IF k \in DOMAIN Shard.items
                                          THEN Contract!Found(k) ELSE Contract!Absent]
  <2>1. /\ k \in DOMAIN data => Pending(g)' = Contract!Found(k)
        /\ k \notin DOMAIN data => Pending(g)' = Contract!Absent
    BY <1>4, PendingCasesNext
  <2>2. Pendings' = [Pendings EXCEPT ![g] = Pending(g)']
    BY <1>2, <1>3, PendingsMove
  <2> QED BY <2>1, <2>2, ShardReads
<1>8. Contract!Free(Shard)
  BY <1>1, ShardReads DEF Contract!Free, Reads
<1> QED BY <1>5, <1>6, <1>7, <1>8 DEF Contract!Lookup, Pendings

\* It finds the item past its TTL, and starts a cleanup.
LEMMA GetExpires ==
    ASSUME IInv, IInv', NEW g \in Goroutines, GetExpired(g)
    PROVE  \E k \in Keys : Contract!Expire(g, k)
<1> DEFINE k == call[g].key
<1>1. /\ call[g].pc = "check"
      /\ cleanups' = [cleanups EXCEPT ![k] = @ + 1]
      /\ call' = [call EXCEPT ![g] = [pc |-> "miss", key |-> k, result |-> Missing]]
      /\ heap' = Collected(heap, data, call')
      /\ UNCHANGED <<data, mu, stats>>
  BY DEF GetExpired
<1>2. call \in [Goroutines -> Frames] /\ k \in Keys
  BY <1>1, FrameKinds DEF IInv, TypeOK, HoldingFrames
<1> HIDE DEF k
<1>3. call'[g].pc = "miss" /\ \A h \in Goroutines : h # g => call'[h] = call[h]
  BY <1>1, <1>2
<1>4. Weights' = Weights
  <2>1. heap' = Collected(heap, data', call')
    BY <1>1
  <2>2. \A j \in DOMAIN data' : heap'[data'[j]] = heap[data'[j]]
    BY <2>1, ItemsOfMapKept
  <2> QED BY <1>1, <1>3, <2>2, WeightsOfReader
<1>5. Shard' = Contract!CleanupStarted(Shard, k)
  <2>1. Reads(Shard, cleanups, stats.hits, stats.misses, stats.evictions, mu)
    BY ShardReads
  <2>2. /\ Reads(Contract!CleanupStarted(Shard, k), [cleanups EXCEPT ![k] = @ + 1],
                 stats.hits, stats.misses, stats.evictions, mu)
        /\ Contract!CleanupStarted(Shard, k).items = Shard.items
    BY <2>1, StartedReads
  <2>3. /\ Reads(Contract!CleanupStarted(Shard, k), cleanups', stats.hits,
                 stats.misses, stats.evictions, mu)
        /\ Contract!CleanupStarted(Shard, k).items = Shard.items
    BY <1>1, <2>2, Zenon
  <2>4. Reads(Shard', cleanups', stats.hits, stats.misses, stats.evictions, mu)
    BY <1>1, ShardReadsNext
  <2>5. Shard'.items = Shard.items
    BY <1>4, ShardReads, ShardReadsNext
  <2> QED BY <2>3, <2>4, <2>5, SameRecords
<1>6. Pendings[g] = Contract!Found(k)
  BY <1>1, PendingCases DEF Pendings, k
<1>7. Pendings' = [Pendings EXCEPT ![g] = Contract!Absent]
  BY <1>2, <1>3, PendingsMove, PendingCasesNext
<1> QED BY <1>2, <1>5, <1>6, <1>7 DEF Contract!Expire, Pendings

\* It counts its hit, or its miss.
LEMMA GetCounts ==
    ASSUME IInv, IInv', NEW g \in Goroutines, GetCountHit(g) \/ GetCountMiss(g)
    PROVE  Contract!Count(g)
<1>1. /\ call \in [Goroutines -> Frames] /\ stats \in Stats
      /\ UNCHANGED <<data, heap, mu, cleanups>>
  BY DEF GetCountHit, GetCountMiss, IInv, TypeOK
<1>2. /\ call[g].pc \in {"count", "miss"}
      /\ call'[g].pc \in {"flag", "answer"}
      /\ \A h \in Goroutines : h # g => call'[h] = call[h]
  <2>1. CASE GetCountHit(g)
    <3>1. /\ call[g].pc = "count"
          /\ call' = [call EXCEPT ![g] = [call[g] EXCEPT !.pc = "flag"]]
      BY <2>1 DEF GetCountHit
    <3>2. [call[g] EXCEPT !.pc = "flag"].pc = "flag"
      BY <1>1, <3>1, FrameKinds, HoldingFrameMoves
    <3> QED BY <1>1, <3>1, <3>2
  <2>2. CASE GetCountMiss(g)
    <3>1. /\ call[g].pc = "miss"
          /\ call' = [call EXCEPT ![g] = [call[g] EXCEPT !.pc = "answer"]]
      BY <2>2 DEF GetCountMiss
    <3>2. [call[g] EXCEPT !.pc = "answer"].pc = "answer"
      BY <1>1, <3>1, FrameKinds DEF AnswerFrames
    <3> QED BY <1>1, <3>1, <3>2
  <2> QED BY <2>1, <2>2
<1>3. Weights' = Weights
  BY <1>1, <1>2, WeightsOfReader
<1>4. Reads(Shard, cleanups, stats.hits, stats.misses, stats.evictions, mu)
  BY ShardReads
<1>5. Shard'.items = Shard.items
  BY <1>3, ShardReads, ShardReadsNext
<1>6. Pendings' = [Pendings EXCEPT ![g] = Contract!NoGet]
  BY <1>1, <1>2, PendingsMove, PendingCasesNext
<1>7. CASE GetCountHit(g)
  <2>1. /\ stats'.hits = stats.hits + 1
        /\ stats'.misses = stats.misses /\ stats'.evictions = stats.evictions
    BY <1>1, <1>7 DEF GetCountHit, Stats
  <2>2. Reads(Shard', cleanups, stats.hits + 1, stats.misses, stats.evictions, mu)
    BY <1>1, <2>1, ShardReadsNext
  <2>3. Shard' = Contract!Counted(Shard, TRUE)
    <3> DEFINE t == Contract!Counted(Shard, TRUE)
    <3>1. /\ Reads(t, cleanups, stats.hits + 1, stats.misses, stats.evictions, mu)
          /\ t.items = Shard.items
      BY <1>4 DEF Contract!Counted, Reads
    <3> HIDE DEF t
    <3>2. Shard' = t
      BY <1>5, <2>2, <3>1, SameRecords
    <3> QED BY <3>2, Zenon DEF t
  <2>4. Pendings[g] = Contract!Found(call[g].key)
    BY <1>7, PendingCases DEF Pendings, GetCountHit
  <2>5. Pendings[g] # Contract!NoGet /\ (Pendings[g] # Contract!Absent) = TRUE
    BY <2>4, PendingKinds
  <2>6. Shard' = Contract!Counted(Shard, Pendings[g] # Contract!Absent)
    BY <2>3, <2>5
  <2> QED BY <1>6, <2>5, <2>6 DEF Contract!Count, Pendings
<1>8. CASE GetCountMiss(g)
  <2>1. /\ stats'.misses = stats.misses + 1
        /\ stats'.hits = stats.hits /\ stats'.evictions = stats.evictions
    BY <1>1, <1>8 DEF GetCountMiss, Stats
  <2>2. Reads(Shard', cleanups, stats.hits, stats.misses + 1, stats.evictions, mu)
    BY <1>1, <2>1, ShardReadsNext
  <2>3. Shard' = Contract!Counted(Shard, FALSE)
    <3> DEFINE t == Contract!Counted(Shard, FALSE)
    <3>1. /\ Reads(t, cleanups, stats.hits, stats.misses + 1, stats.evictions, mu)
          /\ t.items = Shard.items
      BY <1>4 DEF Contract!Counted, Reads
    <3> HIDE DEF t
    <3>2. Shard' = t
      BY <1>5, <2>2, <3>1, SameRecords
    <3> QED BY <3>2, Zenon DEF t
  <2>4. Pendings[g] = Contract!Absent
    BY <1>8, PendingCases DEF Pendings, GetCountMiss
  <2>5. Pendings[g] # Contract!NoGet /\ (Pendings[g] # Contract!Absent) = FALSE
    BY <2>4, PendingKinds
  <2>6. Shard' = Contract!Counted(Shard, Pendings[g] # Contract!Absent)
    BY <2>3, <2>5
  <2> QED BY <1>6, <2>5, <2>6 DEF Contract!Count, Pendings
<1> QED BY <1>7, <1>8

\* An access recorded on an item leaves its size.
LEMMA TouchKeepsSizes ==
    ASSUME IInv, NEW g \in Goroutines, GetTouch(g)
    PROVE  \A j \in DOMAIN heap : heap'[j].size = heap[j].size
<1> DEFINE i == call[g].item
           c == heap[i].accessCount + 1
           r == [heap[i] EXCEPT !.accessAt = now, !.accessCount = c]
<1>1. i \in DOMAIN heap
  BY DEF GetTouch, IInv, ItemIdentity, Reachable, Holds
<1>2. heap[i] \in CacheItem /\ heap \in [DOMAIN heap -> CacheItem]
  BY <1>1 DEF IInv, TypeOK
<1>3. heap' = [heap EXCEPT ![i].accessAt = now, ![i].accessCount = @ + 1]
  BY DEF GetTouch
<1>4. heap' = [heap EXCEPT ![i] = r]
  BY <1>1, <1>2, <1>3 DEF CacheItem
<1>5. r.size = heap[i].size
  <2> HIDE DEF c
  <2> QED BY <1>2 DEF CacheItem
<1> HIDE DEF r
<1> QED BY <1>1, <1>2, <1>4, <1>5

\* The contract has stored the item that a Set writes in place since that Set took
\* the lock: writing it changes nothing.
LEMMA InstallKeepsWeights ==
    ASSUME IInv, IInv', NEW g \in Goroutines, SetInstall(g)
    PROVE  Weights' = Weights
<1> DEFINE k == call[g].key
           new == call[g].new
           old == heap[data[k]]
           item == [payload |-> new.payload, packed |-> new.packed,
                    size |-> new.size, expireAt |-> new.expireAt,
                    accessAt |-> new.accessAt, createdAt |-> old.createdAt,
                    accessCount |-> old.accessCount]
<1>1. /\ call[g].pc = "write" /\ call[g] \in SetFrames
      /\ call' = [call EXCEPT ![g] = [call[g] EXCEPT !.pc = "evict"]]
      /\ heap' = [heap EXCEPT ![data[k]] = item]
      /\ UNCHANGED <<data, mu>>
  BY FrameKinds DEF SetInstall, IInv, TypeOK
<1>2. item.size = new.size
  OBVIOUS
<1> HIDE DEF item
<1>3. BeingWritten = {k} /\ k \in DOMAIN data
  BY <1>1, WriterKeys DEF IInv, ItemIdentity
<1>4. call'[g].pc = "evict"
  <2>1. [call[g] EXCEPT !.pc = "evict"].pc = "evict"
    BY <1>1, SetFrameMoves
  <2> QED BY <1>1, <2>1 DEF IInv, TypeOK
<1>5. Weights' = Sizes'
  <2>1. \A h \in Goroutines : call[h].pc = "write" => h = g
    BY <1>1 DEF IInv, LockHeld
  <2>2. \A h \in Goroutines : h # g => call'[h] = call[h]
    BY <1>1 DEF IInv, TypeOK
  <2>3. BeingWritten' = {}
    BY <1>4, <2>1, <2>2 DEF BeingWritten
  <2> QED BY <2>3, SettledWeightsNext
<1>6. Weights'[k] = Weights[k]
  BY <1>1, <1>2, <1>3, <1>5, DataProperties, WeightsProperties DEF Sizes
<1>7. ASSUME NEW j \in DOMAIN data, j # k PROVE Weights'[j] = Weights[j]
  <2>1. data[j] # data[k]
    BY <1>3, <1>7 DEF IInv, ItemIdentity, IsInjective
  <2>2. heap'[data[j]] = heap[data[j]]
    BY <1>1, <2>1, DataProperties
  <2>3. Weights[j] = heap[data[j]].size
    BY <1>3, <1>7, WeightsProperties DEF Sizes
  <2> QED BY <1>1, <1>5, <2>2, <2>3 DEF Sizes
<1>8. /\ Weights = [j \in DOMAIN data |-> Weights[j]]
      /\ Weights' = [j \in DOMAIN data |-> Weights'[j]]
  BY <1>1 DEF Weights
<1> QED BY <1>6, <1>7, <1>8, SameItems

\* What a goroutine does that changes neither the shard's bytes nor its counts,
\* the contract does not see.
LEMMA UnseenStep ==
    ASSUME IInv, NEW g \in Goroutines,
           \A h \in Goroutines : h # g => call'[h] = call[h],
           UNCHANGED <<mu, stats, cleanups>>, Weights' = Weights,
           Pending(g)' = Pending(g)
    PROVE  Shard' = Shard /\ Pendings' = Pendings
<1>1. call \in [Goroutines -> Frames]
  BY DEF IInv, TypeOK
<1> QED BY <1>1, ShardKept, PendingsMove

\* A Set that prepares its item.
LEMMA SetStartUnseen ==
    ASSUME IInv, IInv', NEW g \in Goroutines, NEW k \in Keys, NEW v \in Values,
           NEW ttl \in TTLs, SetStart(g, k, v, ttl)
    PROVE  Shard' = Shard /\ Pendings' = Pendings
<1>1. /\ call[g].pc = "idle"
      /\ call' = [call EXCEPT ![g] = [pc |-> "lock", key |-> k,
                                      new |-> Prepared(v, ttl)]]
      /\ UNCHANGED <<data, heap, mu, stats, cleanups>>
  BY DEF SetStart, Start, Idle
<1>2. /\ call'[g].pc = "lock"
      /\ \A h \in Goroutines : h # g => call'[h] = call[h]
  BY <1>1 DEF IInv, TypeOK
<1>3. Weights' = Weights
  BY <1>1, <1>2, WeightsOfReader
<1>4. Pending(g)' = Pending(g)
  BY <1>1, <1>2, PendingCases, PendingCasesNext
<1> QED BY <1>1, <1>2, <1>3, <1>4, UnseenStep

\* A Set that writes its item in place.
LEMMA SetInstallUnseen ==
    ASSUME IInv, IInv', NEW g \in Goroutines, SetInstall(g)
    PROVE  Shard' = Shard /\ Pendings' = Pendings
<1>1. /\ call[g].pc = "write" /\ call[g] \in SetFrames
      /\ call' = [call EXCEPT ![g] = [call[g] EXCEPT !.pc = "evict"]]
      /\ UNCHANGED <<mu, stats, cleanups>>
  BY FrameKinds DEF SetInstall, IInv, TypeOK
<1>2. [call[g] EXCEPT !.pc = "evict"].pc = "evict"
  BY <1>1, SetFrameMoves
<1>3. /\ call'[g].pc = "evict"
      /\ \A h \in Goroutines : h # g => call'[h] = call[h]
  BY <1>1, <1>2 DEF IInv, TypeOK
<1>4. Pending(g)' = Pending(g)
  BY <1>1, <1>3, PendingCases, PendingCasesNext
<1> QED BY <1>1, <1>3, <1>4, InstallKeepsWeights, UnseenStep

\* A Get that has found its key and goes on with the item at hand.
LEMMA GetHoldsUnseen ==
    ASSUME IInv, IInv', NEW g \in Goroutines, GetFresh(g) \/ GetTouch(g)
    PROVE  Shard' = Shard /\ Pendings' = Pendings
<1>1. /\ call[g].pc \in {"check", "touch"}
      /\ call[g] \in HoldingFrames
      /\ UNCHANGED <<data, mu, stats, cleanups>>
  BY FrameKinds DEF GetFresh, GetTouch, IInv, TypeOK
<1>2. /\ \/ call' = [call EXCEPT ![g] = [call[g] EXCEPT !.pc = "touch"]]
         \/ call' = [call EXCEPT ![g] = [call[g] EXCEPT !.pc = "count"]]
  BY DEF GetFresh, GetTouch
<1>3. /\ [call[g] EXCEPT !.pc = "touch"].pc = "touch"
      /\ [call[g] EXCEPT !.pc = "touch"].key = call[g].key
      /\ [call[g] EXCEPT !.pc = "count"].pc = "count"
      /\ [call[g] EXCEPT !.pc = "count"].key = call[g].key
  BY <1>1, HoldingFrameMoves
<1>4. /\ call'[g].pc \in {"touch", "count"} /\ call'[g].key = call[g].key
      /\ \A h \in Goroutines : h # g => call'[h] = call[h]
  BY <1>2, <1>3 DEF IInv, TypeOK
<1>5. \A k \in DOMAIN data : heap'[data[k]].size = heap[data[k]].size
  <2>1. CASE GetFresh(g)
    BY <2>1 DEF GetFresh
  <2>2. CASE GetTouch(g)
    BY <2>2, TouchKeepsSizes, DataProperties
  <2> QED BY <2>1, <2>2
<1>6. Weights' = Weights
  BY <1>1, <1>4, <1>5, WeightsOfReader
<1>7. Pending(g)' = Pending(g)
  BY <1>1, <1>4, PendingCases, PendingCasesNext
<1> QED BY <1>1, <1>4, <1>6, <1>7, UnseenStep

\* A Get that has counted reads its item and answers.
LEMMA GetAnswersUnseen ==
    ASSUME IInv, IInv', NEW g \in Goroutines,
           GetReadFlag(g) \/ GetReadValue(g) \/ GetReturn(g)
    PROVE  Shard' = Shard /\ Pendings' = Pendings
<1>1. /\ call[g].pc \in {"flag", "value", "answer"}
      /\ call'[g].pc \in {"value", "answer", "idle"}
      /\ \A h \in Goroutines : h # g => call'[h] = call[h]
      /\ UNCHANGED <<data, mu, stats, cleanups>>
  BY DEF GetReadFlag, GetReadValue, GetReturn, Idle, IInv, TypeOK
<1>2. \A k \in DOMAIN data : heap'[data[k]] = heap[data[k]]
  <2>1. CASE heap' = heap
    BY <2>1
  <2>2. CASE GetReadValue(g)
    <3>1. heap' = Collected(heap, data, call') /\ data' = data
      BY <2>2 DEF GetReadValue
    <3>2. heap' = Collected(heap, data', call')
      BY <3>1
    <3> QED BY <3>1, <3>2, ItemsOfMapKept
  <2> QED BY <2>1, <2>2 DEF GetReadFlag, GetReturn
<1>3. Weights' = Weights
  BY <1>1, <1>2, WeightsOfReader
<1>4. Pending(g)' = Pending(g)
  BY <1>1, PendingCases, PendingCasesNext
<1> QED BY <1>1, <1>3, <1>4, UnseenStep

\* The clock, and rest.
LEMMA RestUnseen ==
    ASSUME Tick \/ UNCHANGED vars
    PROVE  Shard' = Shard /\ Pendings' = Pendings
<1>1. UNCHANGED <<data, heap, call, mu, stats, cleanups>>
  BY DEF Tick, vars
<1>2. Weights' = Weights /\ Pendings' = Pendings
  BY <1>1 DEF Weights, SizeOf, Pendings, Pending
<1> QED BY <1>1, <1>2, ShardKept

-----------------------------------------------------------------------------
(* The refinement.                                                         *)

\* A shard starts as the contract does.
LEMMA InitMaps == ASSUME Init PROVE Contract!Init
<1>1. Pendings = [g \in Goroutines |-> Contract!NoGet]
  <2>1. \A g \in Goroutines : Pending(g) = Contract!NoGet
    BY PendingCases DEF Init, Idle
  <2> QED BY <2>1, Zenon DEF Pendings
<1>2. Shard = Contract!NewShard
  <2>1. Weights = <<>>
    <3>1. DOMAIN data = {}
      BY DEF Init
    <3> QED BY <3>1 DEF Weights
  <2>2. /\ cleanups = [k \in Keys |-> 0] /\ mu = NoGoroutine
        /\ stats.hits = 0 /\ stats.misses = 0 /\ stats.evictions = 0
    BY DEF Init
  <2> QED BY <2>1, <2>2 DEF Shard, Weights, Contract!NewShard
<1> QED BY <1>1, <1>2 DEF Contract!Init, Pendings

\* Every step of a shard is a step of the contract, or none.
LEMMA NextMaps ==
    ASSUME IInv, IInv', GInv, [Next]_vars
    PROVE  Contract!Next \/ (Shard' = Shard /\ Pendings' = Pendings)
<1>1. CASE UNCHANGED vars \/ Tick \/ Finished
  BY <1>1, RestUnseen DEF Finished
<1>2. ASSUME NEW g \in Goroutines, Call(g)
      PROVE  Contract!Next \/ (Shard' = Shard /\ Pendings' = Pendings)
  <2>1. ASSUME NEW k \in Keys, NEW v \in Values, NEW ttl \in TTLs,
               SetStart(g, k, v, ttl)
        PROVE  Shard' = Shard /\ Pendings' = Pendings
    BY <2>1, SetStartUnseen
  <2>2. ASSUME NEW k \in Keys, GetFound(g, k) \/ GetAbsent(g, k)
        PROVE  Contract!Lookup(g, k)
    BY <2>2, GetLooksUp
  <2>3. ASSUME NEW k \in Keys, Delete(g, k) PROVE Contract!Remove(k)
    BY <2>3, DeleteMaps
  <2>4. CASE Clear(g)
    <3>1. Contract!Clear
      BY <2>4, ClearMaps
    <3> QED BY <3>1 DEF Contract!Next
  <2>5. ASSUME NEW k \in Keys, Contract!Lookup(g, k) \/ Contract!Remove(k)
        PROVE  Contract!Next
    BY <2>5 DEF Contract!Next
  <2> QED BY <1>2, <2>1, <2>2, <2>3, <2>4, <2>5 DEF Call
<1>3. ASSUME NEW g \in Goroutines, Step(g)
      PROVE  Contract!Next \/ (Shard' = Shard /\ Pendings' = Pendings)
  <2>1. CASE SetOverwrite(g) \/ SetInsert(g)
    <3>1. /\ call[g].pc = "lock" /\ call[g] \in SetFrames
      BY <2>1, FrameKinds DEF SetOverwrite, SetInsert, IInv, TypeOK
    <3>2. call[g].key \in Keys /\ call[g].new.payload \in Values
      BY <3>1 DEF SetFrames, Fields
    <3>3. call[g].new.size \in StoredSizes
      BY <3>1, <3>2, DerivedSize DEF GInv, ItemsDerived
    <3>4. Contract!Store(g, call[g].key, call[g].new.size)
      BY <2>1, SetStores
    <3> QED BY <3>2, <3>3, <3>4 DEF Contract!Next, StoredSizes
  <2>2. CASE EvictOne(g)
    <3>1. \E k \in Keys : Contract!Evict(g, k)
      BY <2>2, EvictOneMaps
    <3> QED BY <3>1 DEF Contract!Next
  <2>3. CASE EvictStop(g) \/ SetDone(g)
    <3>1. Contract!Release(g)
      BY <2>3, SetReleases
    <3> QED BY <3>1 DEF Contract!Next
  <2>4. CASE GetExpired(g)
    <3>1. \E k \in Keys : Contract!Expire(g, k)
      BY <2>4, GetExpires
    <3> QED BY <3>1 DEF Contract!Next
  <2>5. CASE GetCountHit(g) \/ GetCountMiss(g)
    <3>1. Contract!Count(g)
      BY <2>5, GetCounts
    <3> QED BY <3>1 DEF Contract!Next
  <2>6. CASE SetInstall(g)
    BY <2>6, SetInstallUnseen
  <2>7. CASE GetFresh(g) \/ GetTouch(g)
    BY <2>7, GetHoldsUnseen
  <2>8. CASE GetReadFlag(g) \/ GetReadValue(g) \/ GetReturn(g)
    BY <2>8, GetAnswersUnseen
  <2> QED BY <1>3, <2>1, <2>2, <2>3, <2>4, <2>5, <2>6, <2>7, <2>8 DEF Step
<1>4. ASSUME NEW k \in Keys, CleanupDelete(k) PROVE Contract!Next
  <2>1. Contract!Cleanup(k)
    BY <1>4, CleanupMaps
  <2> QED BY <2>1 DEF Contract!Next
<1> QED BY <1>1, <1>2, <1>3, <1>4 DEF Next

\* A shard implements its contract: cut as the code cuts it and with every race
\* of its unlocked reads, it stores, evicts, removes and counts once each and
\* under the conditions the contract gives.
THEOREM ShardImplementsContract == Spec => ImplementsContract
<1>1. Init => Contract!Init
  BY InitMaps
<1>2. IInv /\ IInv' /\ GInv /\ [Next]_vars => [Contract!Next]_(Contract!vars)
  BY NextMaps DEF Contract!vars, Pendings
<1>3. IInv /\ [Next]_vars => IInv'
  BY NextInv
<1> QED BY <1>1, <1>2, <1>3, Invariance, GetsAreSound, PTL
    DEF Spec, ImplementsContract, Contract!Spec
=============================================================================
