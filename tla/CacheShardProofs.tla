-------------------------- MODULE CacheShardProofs --------------------------
(***************************************************************************)
(* The accounts of a shard and the answers of its Gets are right for every *)
(* number of goroutines and keys, every value, size, limit and TTL, and    *)
(* every policy: the map, the eviction list and the two counters agree at  *)
(* every step, the limit holds whenever no Set is inside, and what a Get   *)
(* finds was bound to its key at some moment of the call.                  *)
(***************************************************************************)
EXTENDS CacheShard, EvictionListsProofs, ByteCountProofs

\* The lock is held by the one goroutine that is between Lock and Unlock, items
\* are not confused, and the accounts are right: what makes the rest inductive.
IInv ==
    /\ TypeOK
    /\ LockHeld
    /\ ItemIdentity
    /\ ListMatchesData
    /\ CountExact
    /\ SizeExact

-----------------------------------------------------------------------------
(* Calls and their frames.                                                 *)

\* The program counter of a frame tells its kind.
LEMMA FrameKinds ==
    ASSUME NEW fr \in Frames
    PROVE  /\ fr.pc = "idle" => fr = Idle
           /\ fr.pc \in {"lock", "write", "evict"} => fr \in SetFrames
           /\ fr.pc \in {"check", "touch", "count", "flag"} => fr \in HoldingFrames
           /\ fr.pc = "value" => fr \in ReadFrames
           /\ fr.pc \in {"miss", "answer"} => fr \in AnswerFrames
BY DEF Frames, Idle, SetFrames, HoldingFrames, ReadFrames, AnswerFrames

\* A Set that moves on keeps its key and its fields.
LEMMA SetFrameMoves ==
    ASSUME NEW fr \in SetFrames, NEW pc \in {"lock", "write", "evict"}
    PROVE  LET to == [fr EXCEPT !.pc = pc]
           IN  to \in SetFrames /\ to.pc = pc /\ to.key = fr.key /\ to.new = fr.new
BY DEF SetFrames

\* A Get that moves on keeps its key and its item.
LEMMA HoldingFrameMoves ==
    ASSUME NEW fr \in HoldingFrames, NEW pc \in {"check", "touch", "count", "flag"}
    PROVE  LET to == [fr EXCEPT !.pc = pc]
           IN  /\ to \in HoldingFrames /\ to.pc = pc
               /\ to.key = fr.key /\ to.item = fr.item
BY DEF HoldingFrames

\* Which key is being written, by what the holder of the lock does.
LEMMA WriterKeys ==
    ASSUME TypeOK, LockHeld
    PROVE  /\ mu = NoGoroutine => BeingWritten = {}
           /\ \A g \in Goroutines :
                 /\ call[g].pc = "evict" => mu = g /\ BeingWritten = {}
                 /\ call[g].pc = "write" => mu = g /\ BeingWritten = {call[g].key}
<1>1. \A g \in Goroutines : call[g].pc = "write" => mu = g
  BY DEF LockHeld
<1>2. \A g \in Goroutines : call[g].pc = "evict" => mu = g
  BY DEF LockHeld
<1>3. NoGoroutine \notin Goroutines
  BY CallersAssumption
<1> QED BY <1>1, <1>2, <1>3 DEF BeingWritten

\* What Set prepares, and what a Get may see of it.
LEMMA PreparedType ==
    ASSUME NEW v \in Values, NEW ttl \in TTLs, now \in Nat
    PROVE  Prepared(v, ttl) \in Fields
<1>1. /\ RawLen[v] \in Nat /\ PackedLen[v] \in Nat /\ CompressSize \in Int
      /\ ttl \in Int
  BY SizesAssumption, ClockAssumption
<1>2. (RawLen[v] > CompressSize /\ PackedLen[v] < RawLen[v]) \in BOOLEAN
  BY <1>1
<1>3. (IF ttl > 0 THEN now + ttl ELSE NoExpiry) \in Nat
  BY <1>1 DEF NoExpiry
<1> QED BY <1>1, <1>2, <1>3 DEF Prepared, Fields

\* A Get sees a sighting.
LEMMA SightType ==
    ASSUME NEW f, f.payload \in Values, f.expireAt \in Nat
    PROVE  Sight(f) \in Sighting
<1>1. (~Expired(f)) \in BOOLEAN
  BY Zenon DEF Expired
<1> QED BY <1>1 DEF Sight, Sighting

\* Shown keeps the type of the history.
LEMMA ShownType ==
    ASSUME TypeOK, NEW k, NEW f, f.payload \in Values, f.expireAt \in Nat
    PROVE  Shown(k, f) \in [Goroutines -> SUBSET Sighting]
<1>1. Sight(f) \in Sighting
  BY SightType
<1>2. seen \in [Goroutines -> SUBSET Sighting]
  BY DEF TypeOK
<1> QED BY <1>1, <1>2 DEF Shown

-----------------------------------------------------------------------------
(* Steps that leave the map and the accounts alone.                        *)

\* The three accounts need only the same map, list, counters and sizes.
LEMMA AccountsKept ==
    ASSUME ListMatchesData, CountExact, SizeExact,
           UNCHANGED <<data, evictionList, currentSize, currentCount>>,
           BeingWritten' = BeingWritten, Sizes' = Sizes
    PROVE  ListMatchesData' /\ CountExact' /\ SizeExact'
<1>1. ListMatchesData'
  BY DEF ListMatchesData
<1>2. CountExact'
  BY DEF CountExact
<1>3. SizeExact'
  BY DEF SizeExact
<1> QED BY <1>1, <1>2, <1>3

\* The collector keeps the reachable items as they are.
LEMMA CollectedProperties ==
    ASSUME NEW h, NEW d, NEW c, Reachable(d, c) \subseteq DOMAIN h
    PROVE  Collected(h, d, c) = [i \in Reachable(d, c) |-> h[i]]
<1> DEFINE R == Reachable(d, c)
<1>1. DOMAIN h \cap R = R
  OBVIOUS
<1>2. Collected(h, d, c) = [i \in DOMAIN h \cap R |-> h[i]]
  BY DEF Collected
<1> HIDE DEF R
<1>3. Collected(h, d, c) = [i \in R |-> h[i]]
  BY <1>1, <1>2
<1> QED BY <1>3 DEF R

\* A goroutine outside the lock takes a step of its own: it may pick an item up
\* from the map, keep the one it has, or let it go.
LEMMA LocalStep ==
    ASSUME IInv, NEW g \in Goroutines, NEW fr \in Frames,
           call[g].pc \notin {"write", "evict"},
           fr.pc \notin {"write", "evict"},
           call' = [call EXCEPT ![g] = fr],
           UNCHANGED <<data, evictionList, currentSize, currentCount, mu>>,
           Holds(call', g) =>
              \/ fr.key \in DOMAIN data /\ fr.item = data[fr.key]
              \/ /\ Holds(call, g)
                 /\ fr.key = call[g].key
                 /\ fr.item = call[g].item,
           \/ heap' = Collected(heap, data, call')
           \/ /\ heap' = heap
              /\ Holds(call, g) => Holds(call', g) /\ fr.item = call[g].item
    PROVE  /\ call' \in [Goroutines -> Frames]
           /\ DOMAIN heap' \in SUBSET Items /\ heap' \in [DOMAIN heap' -> CacheItem]
           /\ LockHeld' /\ ItemIdentity'
           /\ ListMatchesData' /\ CountExact' /\ SizeExact'
<1>1. /\ call \in [Goroutines -> Frames]
      /\ DOMAIN heap \in SUBSET Items /\ heap \in [DOMAIN heap -> CacheItem]
      /\ DOMAIN data \in SUBSET Keys /\ data \in [DOMAIN data -> Items]
  BY DEF IInv, TypeOK
<1>2. /\ call' \in [Goroutines -> Frames]
      /\ call'[g] = fr
      /\ \A h \in Goroutines : h # g => call'[h] = call[h]
  BY <1>1
<1>3. \A h \in Goroutines : call'[h].pc = "write" <=> call[h].pc = "write"
  BY <1>2
<1>4. BeingWritten' = BeingWritten
  BY <1>2, <1>3 DEF BeingWritten
<1>5. LockHeld'
  BY <1>2 DEF IInv, LockHeld
<1>6. \A h \in Goroutines : h # g => (Holds(call', h) <=> Holds(call, h))
  BY <1>2 DEF Holds
<1>7. DOMAIN heap = Reachable(data, call)
  BY DEF IInv, ItemIdentity
<1>8. Reachable(data, call') \subseteq Reachable(data, call)
  BY <1>2, <1>6 DEF Reachable
<1>9. /\ DOMAIN heap' = Reachable(data, call')
      /\ \A i \in DOMAIN heap' : heap'[i] = heap[i]
      /\ heap' \in [DOMAIN heap' -> CacheItem]
  <2>1. CASE heap' = Collected(heap, data, call')
    <3>1. Reachable(data, call') \subseteq DOMAIN heap
      BY <1>7, <1>8
    <3>2. heap' = [i \in Reachable(data, call') |-> heap[i]]
      <4>1. Collected(heap, data, call') = [i \in Reachable(data, call') |-> heap[i]]
        BY ONLY <3>1, CollectedProperties
      <4> QED BY <2>1, <4>1, Zenon
    <3>3. \A i \in Reachable(data, call') : heap[i] \in CacheItem
      BY <1>1, <3>1
    <3> QED BY <3>2, <3>3
  <2>2. CASE /\ heap' = heap
             /\ Holds(call, g) => Holds(call', g) /\ fr.item = call[g].item
    <3>1. Reachable(data, call) \subseteq Reachable(data, call')
      BY <1>2, <1>6, <2>2 DEF Reachable
    <3> QED BY <1>1, <1>7, <1>8, <2>2, <3>1
  <2> QED BY <2>1, <2>2
<1>10. DOMAIN heap' \in SUBSET Items
  BY <1>1, <1>7, <1>8, <1>9
<1>11. Sizes' = Sizes
  <2>1. \A k \in DOMAIN data : data[k] \in DOMAIN heap'
    BY <1>9 DEF Reachable
  <2> QED BY <1>9, <2>1 DEF Sizes
<1>12. ItemIdentity'
  <2>1. IsInjective(data)' /\ (BeingWritten \subseteq DOMAIN data)'
    BY <1>4 DEF IInv, ItemIdentity, IsInjective
  <2>2. ASSUME NEW h \in Goroutines, NEW k \in DOMAIN data,
               Holds(call', h), call'[h].item = data[k]
        PROVE  call'[h].key = k
    <3>1. CASE h # g
      BY <2>2, <3>1, <1>2, <1>6 DEF IInv, ItemIdentity
    <3>2. CASE h = g
      BY <2>2, <3>2, <1>2 DEF IInv, ItemIdentity, IsInjective
    <3> QED BY <3>1, <3>2
  <2> QED BY <1>9, <2>1, <2>2 DEF ItemIdentity
<1>13. ListMatchesData' /\ CountExact' /\ SizeExact'
  BY <1>4, <1>11, AccountsKept DEF IInv
<1> QED BY <1>2, <1>5, <1>9, <1>10, <1>12, <1>13

\* Set stamps its item, outside the lock.
LEMMA SetStartInv ==
    ASSUME IInv, NEW g \in Goroutines, NEW k \in Keys, NEW v \in Values,
           NEW ttl \in TTLs, SetStart(g, k, v, ttl)
    PROVE  IInv'
<1> DEFINE fr == [pc |-> "lock", key |-> k, new |-> Prepared(v, ttl)]
<1>1. fr \in Frames
  BY PreparedType DEF IInv, TypeOK, Frames, SetFrames
<1>2. /\ call[g].pc = "idle" /\ fr.pc = "lock"
      /\ call' = [call EXCEPT ![g] = fr]
      /\ UNCHANGED <<data, heap, evictionList, currentSize, currentCount, mu,
                     stats, cleanups, now, seen>>
      /\ ops' = ops + 1
  BY DEF SetStart, Start, Idle
<1> HIDE DEF fr
<1>3. ~Holds(call, g) /\ ~Holds(call', g)
  BY <1>2 DEF Holds, IInv, TypeOK
<1>4. /\ call' \in [Goroutines -> Frames]
      /\ LockHeld' /\ ItemIdentity'
      /\ ListMatchesData' /\ CountExact' /\ SizeExact'
  BY <1>1, <1>2, <1>3, LocalStep
<1>5. TypeOK'
  BY <1>2, <1>4 DEF IInv, TypeOK
<1> QED BY <1>4, <1>5 DEF IInv

\* Get picks an item up.
LEMMA GetFoundInv ==
    ASSUME IInv, NEW g \in Goroutines, NEW k \in Keys, GetFound(g, k)
    PROVE  IInv'
<1> DEFINE fr == [pc |-> "check", key |-> k, item |-> data[k]]
<1>1. /\ fr \in Frames
      /\ fr.pc = "check" /\ fr.key \in DOMAIN data /\ fr.item = data[fr.key]
  BY DEF GetFound, IInv, TypeOK, Frames, HoldingFrames
<1>2. /\ call[g].pc = "idle"
      /\ call' = [call EXCEPT ![g] = fr]
      /\ UNCHANGED <<data, heap, evictionList, currentSize, currentCount, mu,
                     stats, cleanups, now>>
      /\ ops' = ops + 1
      /\ seen' = [seen EXCEPT ![g] = {Sight(heap[data[k]])}]
      /\ k \in DOMAIN data
  BY DEF GetFound, Start, Idle
<1> HIDE DEF fr
<1>3. ~Holds(call, g)
  BY <1>2 DEF Holds
<1>4. /\ call' \in [Goroutines -> Frames]
      /\ LockHeld' /\ ItemIdentity'
      /\ ListMatchesData' /\ CountExact' /\ SizeExact'
  BY <1>1, <1>2, <1>3, LocalStep
<1>5. Sight(heap[data[k]]) \in Sighting
  <2>1. heap[data[k]] \in CacheItem
    BY <1>2 DEF IInv, TypeOK, ItemIdentity, Reachable
  <2> QED BY <2>1, SightType DEF CacheItem
<1>6. TypeOK'
  BY <1>2, <1>4, <1>5 DEF IInv, TypeOK
<1> QED BY <1>4, <1>6 DEF IInv

\* Get finds nothing.
LEMMA GetAbsentInv ==
    ASSUME IInv, NEW g \in Goroutines, NEW k \in Keys, GetAbsent(g, k)
    PROVE  IInv'
<1> DEFINE fr == [pc |-> "miss", key |-> k, result |-> Missing]
<1>1. fr \in Frames /\ fr.pc = "miss"
  BY DEF Frames, AnswerFrames, Answers
<1>2. /\ call[g].pc = "idle"
      /\ call' = [call EXCEPT ![g] = fr]
      /\ UNCHANGED <<data, heap, evictionList, currentSize, currentCount, mu,
                     stats, cleanups, now, seen>>
      /\ ops' = ops + 1
  BY DEF GetAbsent, Start, Idle
<1> HIDE DEF fr
<1>3. ~Holds(call, g) /\ ~Holds(call', g)
  BY <1>1, <1>2 DEF Holds, IInv, TypeOK
<1>4. /\ call' \in [Goroutines -> Frames]
      /\ LockHeld' /\ ItemIdentity'
      /\ ListMatchesData' /\ CountExact' /\ SizeExact'
  BY <1>1, <1>2, <1>3, LocalStep
<1>5. TypeOK'
  BY <1>2, <1>4 DEF IInv, TypeOK
<1> QED BY <1>4, <1>5 DEF IInv

\* Get lets an expired item go and starts a cleanup.
LEMMA GetExpiredInv ==
    ASSUME IInv, NEW g \in Goroutines, GetExpired(g)
    PROVE  IInv'
<1> DEFINE fr == [pc |-> "miss", key |-> call[g].key, result |-> Missing]
<1>1. /\ call[g].pc = "check" /\ call[g] \in HoldingFrames
  BY FrameKinds DEF GetExpired, IInv, TypeOK
<1>2. fr \in Frames /\ fr.pc = "miss"
  BY <1>1 DEF Frames, AnswerFrames, HoldingFrames, Answers
<1>3. /\ call' = [call EXCEPT ![g] = fr]
      /\ heap' = Collected(heap, data, call')
      /\ UNCHANGED <<data, evictionList, currentSize, currentCount, mu, stats,
                     now, ops, seen>>
      /\ cleanups' = [cleanups EXCEPT ![call[g].key] = @ + 1]
  BY DEF GetExpired
<1> HIDE DEF fr
<1>4. ~Holds(call', g)
  BY <1>2, <1>3 DEF Holds, IInv, TypeOK
<1>5. /\ call' \in [Goroutines -> Frames]
      /\ DOMAIN heap' \in SUBSET Items /\ heap' \in [DOMAIN heap' -> CacheItem]
      /\ LockHeld' /\ ItemIdentity'
      /\ ListMatchesData' /\ CountExact' /\ SizeExact'
  BY <1>1, <1>2, <1>3, <1>4, LocalStep
<1>6. cleanups' \in [Keys -> Nat]
  <2>1. cleanups \in [Keys -> Nat] /\ call[g].key \in Keys
    BY <1>1 DEF IInv, TypeOK, HoldingFrames
  <2>2. cleanups[call[g].key] + 1 \in Nat
    BY <2>1
  <2> QED BY <1>3, <2>1, <2>2
<1>7. TypeOK'
  BY <1>3, <1>5, <1>6 DEF IInv, TypeOK
<1> QED BY <1>5, <1>7 DEF IInv

\* Get keeps a live item.
LEMMA GetFreshInv ==
    ASSUME IInv, NEW g \in Goroutines, GetFresh(g)
    PROVE  IInv'
<1> DEFINE fr == [call[g] EXCEPT !.pc = "touch"]
<1>1. /\ call[g].pc = "check" /\ call[g] \in HoldingFrames
  BY FrameKinds DEF GetFresh, IInv, TypeOK
<1>2. /\ fr \in Frames /\ fr.pc = "touch"
      /\ fr.key = call[g].key /\ fr.item = call[g].item
  BY <1>1, HoldingFrameMoves DEF Frames
<1>3. /\ call' = [call EXCEPT ![g] = fr]
      /\ UNCHANGED <<data, heap, evictionList, currentSize, currentCount, mu,
                     stats, cleanups, now, ops, seen>>
  BY DEF GetFresh
<1> HIDE DEF fr
<1>4. Holds(call, g) /\ Holds(call', g)
  BY <1>1, <1>2, <1>3 DEF Holds, IInv, TypeOK
<1>5. /\ call' \in [Goroutines -> Frames]
      /\ LockHeld' /\ ItemIdentity'
      /\ ListMatchesData' /\ CountExact' /\ SizeExact'
  BY <1>1, <1>2, <1>3, <1>4, LocalStep
<1>6. TypeOK'
  BY <1>3, <1>5 DEF IInv, TypeOK
<1> QED BY <1>5, <1>6 DEF IInv

\* Get counts a hit.
LEMMA GetCountHitInv ==
    ASSUME IInv, NEW g \in Goroutines, GetCountHit(g)
    PROVE  IInv'
<1> DEFINE fr == [call[g] EXCEPT !.pc = "flag"]
<1>1. /\ call[g].pc = "count" /\ call[g] \in HoldingFrames
  BY FrameKinds DEF GetCountHit, IInv, TypeOK
<1>2. /\ fr \in Frames /\ fr.pc = "flag"
      /\ fr.key = call[g].key /\ fr.item = call[g].item
  BY <1>1, HoldingFrameMoves DEF Frames
<1>3. /\ call' = [call EXCEPT ![g] = fr]
      /\ UNCHANGED <<data, heap, evictionList, currentSize, currentCount, mu,
                     cleanups, now, ops, seen>>
      /\ stats' = [stats EXCEPT !.hits = @ + 1]
  BY DEF GetCountHit
<1> HIDE DEF fr
<1>4. Holds(call, g) /\ Holds(call', g)
  BY <1>1, <1>2, <1>3 DEF Holds, IInv, TypeOK
<1>5. /\ call' \in [Goroutines -> Frames]
      /\ LockHeld' /\ ItemIdentity'
      /\ ListMatchesData' /\ CountExact' /\ SizeExact'
  BY <1>1, <1>2, <1>3, <1>4, LocalStep
<1>6. stats' \in Stats
  BY <1>3 DEF IInv, TypeOK, Stats
<1>7. TypeOK'
  BY <1>3, <1>5, <1>6 DEF IInv, TypeOK
<1> QED BY <1>5, <1>7 DEF IInv

\* What a Get reads of its item, now or half written, is of the right type.
LEMMA VersionsType ==
    ASSUME IInv, NEW g \in Goroutines, Holds(call, g),
           NEW p \in Versions(call[g].item)
    PROVE  p.payload \in Values /\ p.packed \in BOOLEAN
<1>1. call[g].item \in DOMAIN heap
  BY DEF IInv, ItemIdentity, Reachable
<1>2. heap[call[g].item] \in CacheItem
  BY <1>1 DEF IInv, TypeOK
<1>3. \A h \in Goroutines : call[h].pc = "write" => call[h].new \in Fields
  BY FrameKinds DEF IInv, TypeOK, SetFrames
<1>4. p \in CacheItem \/ p \in Fields
  BY <1>2, <1>3 DEF Versions
<1> QED BY <1>4 DEF CacheItem, Fields

\* Get reads the Compressed flag.
LEMMA GetReadFlagInv ==
    ASSUME IInv, NEW g \in Goroutines, GetReadFlag(g)
    PROVE  IInv'
<1>1. /\ call[g].pc = "flag" /\ call[g] \in HoldingFrames
  BY FrameKinds DEF GetReadFlag, IInv, TypeOK
<1>2. Holds(call, g)
  BY <1>1 DEF Holds
<1>3. PICK a \in Versions(call[g].item) :
         call' = [call EXCEPT ![g] = [pc |-> "value", key |-> call[g].key,
                                      item |-> call[g].item,
                                      packed |-> a.packed]]
  BY DEF GetReadFlag
<1> DEFINE fr == [pc |-> "value", key |-> call[g].key,
                  item |-> call[g].item, packed |-> a.packed]
<1>4. a.packed \in BOOLEAN
  BY <1>2, VersionsType
<1>5. /\ fr \in Frames /\ fr.pc = "value"
      /\ fr.key = call[g].key /\ fr.item = call[g].item
  BY <1>1, <1>4 DEF Frames, HoldingFrames, ReadFrames
<1>6. /\ call' = [call EXCEPT ![g] = fr]
      /\ UNCHANGED <<data, heap, evictionList, currentSize, currentCount, mu,
                     stats, cleanups, now, ops, seen>>
  BY <1>3 DEF GetReadFlag
<1> HIDE DEF fr
<1>7. Holds(call', g)
  BY <1>5, <1>6 DEF Holds, IInv, TypeOK
<1>8. /\ call' \in [Goroutines -> Frames]
      /\ LockHeld' /\ ItemIdentity'
      /\ ListMatchesData' /\ CountExact' /\ SizeExact'
  BY <1>1, <1>2, <1>5, <1>6, <1>7, LocalStep
<1>9. TypeOK'
  BY <1>6, <1>8 DEF IInv, TypeOK
<1> QED BY <1>8, <1>9 DEF IInv

\* Get reads the value and lets the item go.
LEMMA GetReadValueInv ==
    ASSUME IInv, NEW g \in Goroutines, GetReadValue(g)
    PROVE  IInv'
<1>1. /\ call[g].pc = "value" /\ call[g] \in ReadFrames
  BY FrameKinds DEF GetReadValue, IInv, TypeOK
<1>2. Holds(call, g)
  BY <1>1 DEF Holds
<1>3. PICK p, n \in Versions(call[g].item) :
         call' = [call EXCEPT ![g] =
                     [pc |-> "answer", key |-> call[g].key,
                      result |-> Decoded(p, n, call[g].packed)]]
  BY DEF GetReadValue
<1> DEFINE fr == [pc |-> "answer", key |-> call[g].key,
                  result |-> Decoded(p, n, call[g].packed)]
<1>4. Decoded(p, n, call[g].packed) \in Answers
  <2>1. p.payload \in Values
    BY <1>2, VersionsType
  <2> QED BY <2>1 DEF Decoded, Answers
<1>5. fr \in Frames /\ fr.pc = "answer"
  BY <1>1, <1>4 DEF Frames, ReadFrames, AnswerFrames
<1>6. /\ call' = [call EXCEPT ![g] = fr]
      /\ heap' = Collected(heap, data, call')
      /\ UNCHANGED <<data, evictionList, currentSize, currentCount, mu, stats,
                     cleanups, now, ops, seen>>
  BY <1>3 DEF GetReadValue
<1> HIDE DEF fr
<1>7. ~Holds(call', g)
  BY <1>5, <1>6 DEF Holds, IInv, TypeOK
<1>8. /\ call' \in [Goroutines -> Frames]
      /\ DOMAIN heap' \in SUBSET Items /\ heap' \in [DOMAIN heap' -> CacheItem]
      /\ LockHeld' /\ ItemIdentity'
      /\ ListMatchesData' /\ CountExact' /\ SizeExact'
  BY <1>1, <1>5, <1>6, <1>7, LocalStep
<1>9. TypeOK'
  BY <1>6, <1>8 DEF IInv, TypeOK
<1> QED BY <1>8, <1>9 DEF IInv

\* Get counts a miss.
LEMMA GetCountMissInv ==
    ASSUME IInv, NEW g \in Goroutines, GetCountMiss(g)
    PROVE  IInv'
<1> DEFINE fr == [call[g] EXCEPT !.pc = "answer"]
<1>1. /\ call[g].pc = "miss" /\ call[g] \in AnswerFrames
  BY FrameKinds DEF GetCountMiss, IInv, TypeOK
<1>2. fr \in Frames /\ fr.pc = "answer"
  BY <1>1 DEF Frames, AnswerFrames
<1>3. /\ call' = [call EXCEPT ![g] = fr]
      /\ UNCHANGED <<data, heap, evictionList, currentSize, currentCount, mu,
                     cleanups, now, ops, seen>>
      /\ stats' = [stats EXCEPT !.misses = @ + 1]
  BY DEF GetCountMiss
<1> HIDE DEF fr
<1>4. ~Holds(call, g) /\ ~Holds(call', g)
  BY <1>1, <1>2, <1>3 DEF Holds, IInv, TypeOK
<1>5. /\ call' \in [Goroutines -> Frames]
      /\ LockHeld' /\ ItemIdentity'
      /\ ListMatchesData' /\ CountExact' /\ SizeExact'
  BY <1>1, <1>2, <1>3, <1>4, LocalStep
<1>6. stats' \in Stats
  BY <1>3 DEF IInv, TypeOK, Stats
<1>7. TypeOK'
  BY <1>3, <1>5, <1>6 DEF IInv, TypeOK
<1> QED BY <1>5, <1>7 DEF IInv

\* Get returns.
LEMMA GetReturnInv ==
    ASSUME IInv, NEW g \in Goroutines, GetReturn(g)
    PROVE  IInv'
<1>1. Idle \in Frames /\ Idle.pc = "idle"
  BY DEF Frames, Idle
<1>2. /\ call[g].pc = "answer"
      /\ call' = [call EXCEPT ![g] = Idle]
      /\ UNCHANGED <<data, heap, evictionList, currentSize, currentCount, mu,
                     stats, cleanups, now, ops>>
      /\ seen' = [seen EXCEPT ![g] = {}]
  BY DEF GetReturn
<1>3. ~Holds(call, g) /\ ~Holds(call', g)
  BY <1>1, <1>2 DEF Holds, IInv, TypeOK
<1>4. /\ call' \in [Goroutines -> Frames]
      /\ LockHeld' /\ ItemIdentity'
      /\ ListMatchesData' /\ CountExact' /\ SizeExact'
  BY <1>1, <1>2, <1>3, LocalStep
<1>5. TypeOK'
  BY <1>2, <1>4 DEF IInv, TypeOK
<1> QED BY <1>4, <1>5 DEF IInv

\* Every key of the map has an item, with a size.
LEMMA DataProperties ==
    ASSUME IInv
    PROVE  /\ IsFiniteSet(DOMAIN data)
           /\ \A k \in DOMAIN data :
                 /\ data[k] \in DOMAIN heap
                 /\ heap[data[k]] \in CacheItem
                 /\ Sizes[k] = heap[data[k]].size
                 /\ Sizes[k] \in Nat
<1>1. IsFiniteSet(DOMAIN data)
  BY CallersAssumption, FS_Subset DEF IInv, TypeOK
<1>2. ASSUME NEW k \in DOMAIN data
      PROVE  /\ data[k] \in DOMAIN heap
             /\ heap[data[k]] \in CacheItem
             /\ Sizes[k] = heap[data[k]].size
             /\ Sizes[k] \in Nat
  <2>1. data[k] \in DOMAIN heap
    BY DEF IInv, ItemIdentity, Reachable
  <2>2. heap[data[k]] \in CacheItem
    BY <2>1 DEF IInv, TypeOK
  <2>3. Sizes[k] = heap[data[k]].size
    BY DEF Sizes
  <2> QED BY <2>1, <2>2, <2>3 DEF CacheItem
<1> QED BY <1>1, <1>2

\* Nothing about the structure of the shard changes with the clock.
LEMMA TickInv == ASSUME IInv, Tick PROVE IInv'
<1>1. /\ UNCHANGED <<data, heap, evictionList, currentSize, currentCount, mu,
                     stats, cleanups, call, ops, seen>>
      /\ now' = now + 1
  BY DEF Tick
<1>2. TypeOK'
  BY <1>1 DEF IInv, TypeOK
<1>3. LockHeld' /\ ItemIdentity'
  BY <1>1 DEF IInv, LockHeld, ItemIdentity, Reachable, Holds, IsInjective, BeingWritten
<1>4. BeingWritten' = BeingWritten /\ Sizes' = Sizes
  BY <1>1 DEF BeingWritten, Sizes
<1>5. ListMatchesData' /\ CountExact' /\ SizeExact'
  BY <1>1, <1>4, AccountsKept DEF IInv
<1> QED BY <1>2, <1>3, <1>5 DEF IInv

\* Nor when nothing happens.
LEMMA StutterInv == ASSUME IInv, UNCHANGED vars PROVE IInv'
<1>1. UNCHANGED <<data, heap, evictionList, currentSize, currentCount, mu,
                  stats, cleanups, call, now, ops, seen>>
  BY DEF vars
<1>2. TypeOK'
  BY <1>1 DEF IInv, TypeOK
<1>3. LockHeld' /\ ItemIdentity'
  BY <1>1 DEF IInv, LockHeld, ItemIdentity, Reachable, Holds, IsInjective, BeingWritten
<1>4. BeingWritten' = BeingWritten /\ Sizes' = Sizes
  BY <1>1 DEF BeingWritten, Sizes
<1>5. ListMatchesData' /\ CountExact' /\ SizeExact'
  BY <1>1, <1>4, AccountsKept DEF IInv
<1> QED BY <1>2, <1>3, <1>5 DEF IInv

-----------------------------------------------------------------------------
(* Get touches an item, which may have left the map.                       *)

\* The list keeps its keys, the items keep their sizes.
LEMMA GetTouchInv ==
    ASSUME IInv, NEW g \in Goroutines, GetTouch(g)
    PROVE  IInv'
<1> DEFINE i == call[g].item
           fr == [call[g] EXCEPT !.pc = "count"]
<1>1. /\ call[g].pc = "touch" /\ call[g] \in HoldingFrames
      /\ mu = NoGoroutine
  BY FrameKinds DEF GetTouch, IInv, TypeOK
<1>2. /\ fr \in Frames /\ fr.pc = "count" /\ fr.key = call[g].key /\ fr.item = i
  BY <1>1, HoldingFrameMoves DEF Frames
<1>3. /\ call' = [call EXCEPT ![g] = fr]
      /\ UNCHANGED <<data, currentSize, currentCount, mu, stats, cleanups, now,
                     ops, seen>>
  BY DEF GetTouch
<1>4. call \in [Goroutines -> Frames] /\ now \in Nat
  BY DEF IInv, TypeOK
<1> HIDE DEF fr
<1>5. /\ call' \in [Goroutines -> Frames]
      /\ \A h \in Goroutines :
            /\ Holds(call', h) <=> Holds(call, h)
            /\ Holds(call, h) => /\ call'[h].item = call[h].item
                                 /\ call'[h].key = call[h].key
            /\ call'[h].pc = "write" <=> call[h].pc = "write"
            /\ call'[h].pc \in {"write", "evict"} <=> call[h].pc \in {"write", "evict"}
            /\ call[h].pc = "write" => call'[h].key = call[h].key
  BY <1>1, <1>2, <1>3, <1>4 DEF Holds
<1>6. /\ i \in DOMAIN heap /\ heap[i] \in CacheItem
      /\ DOMAIN heap \in SUBSET Items /\ heap \in [DOMAIN heap -> CacheItem]
  <2>1. Holds(call, g)
    BY <1>1 DEF Holds
  <2>2. i \in DOMAIN heap
    BY <2>1 DEF IInv, ItemIdentity, Reachable
  <2> QED BY <2>2 DEF IInv, TypeOK
<1>7. /\ DOMAIN heap' = DOMAIN heap
      /\ heap' \in [DOMAIN heap -> CacheItem]
      /\ \A j \in DOMAIN heap : heap'[j].size = heap[j].size
  <2> DEFINE c == heap[i].accessCount + 1
             r == [heap[i] EXCEPT !.accessAt = now, !.accessCount = c]
  <2>1. r \in CacheItem /\ r.size = heap[i].size
    <3>1. c \in Nat
      BY <1>6 DEF CacheItem
    <3> HIDE DEF c
    <3> QED BY <1>4, <1>6, <3>1 DEF CacheItem
  <2>2. heap' = [heap EXCEPT ![i].accessAt = now, ![i].accessCount = @ + 1]
    BY DEF GetTouch
  <2>3. heap' = [heap EXCEPT ![i] = r]
    BY <1>6, <2>2 DEF CacheItem
  <2> HIDE DEF r
  <2> QED BY <1>6, <2>1, <2>3
<1>8. IsList(evictionList') /\ KeysIn(evictionList') = KeysIn(evictionList)
  <2>1. heap[i].accessCount + 1 \in Nat \ {0}
    BY <1>6 DEF CacheItem
  <2>2. evictionList' \in ListUpdate(evictionList, call[g].key,
                                     heap[i].accessCount + 1, now)
    BY DEF GetTouch
  <2>3. IsList(evictionList)
    BY DEF IInv, ListMatchesData
  <2> QED BY <1>4, <2>1, <2>2, <2>3, ListUpdateProperties
<1>9. BeingWritten' = BeingWritten
  BY <1>5 DEF BeingWritten
<1>10. Sizes' = Sizes
  BY <1>3, <1>7, DataProperties DEF Sizes
<1>11. ItemIdentity'
  <2>1. Reachable(data, call') = Reachable(data, call)
    BY <1>5 DEF Reachable
  <2>2. DOMAIN heap' = Reachable(data', call')
    BY <1>3, <1>7, <2>1 DEF IInv, ItemIdentity
  <2>3. IsInjective(data)' /\ (BeingWritten \subseteq DOMAIN data)'
    BY <1>3, <1>9 DEF IInv, ItemIdentity, IsInjective
  <2>4. \A h \in Goroutines, k \in DOMAIN data :
           Holds(call', h) /\ call'[h].item = data[k] => call'[h].key = k
    BY <1>5 DEF IInv, ItemIdentity
  <2> QED BY <1>3, <2>2, <2>3, <2>4 DEF ItemIdentity
<1>12. ListMatchesData'
  BY <1>3, <1>8, <1>9 DEF IInv, ListMatchesData
<1>13. CountExact' /\ SizeExact'
  BY <1>3, <1>9, <1>10 DEF IInv, CountExact, SizeExact
<1>14. LockHeld'
  BY <1>3, <1>5 DEF IInv, LockHeld
<1>15. TypeOK'
  <2>1. IsListType(evictionList')
    BY <1>8, ListHasType
  <2> QED BY <1>3, <1>5, <1>6, <1>7, <2>1 DEF IInv, TypeOK
<1> QED BY <1>11, <1>12, <1>13, <1>14, <1>15 DEF IInv

-----------------------------------------------------------------------------
(* Set overwrites.                                                         *)

\* The old item's bytes and the key's place in the list are given up together.
LEMMA SetOverwriteInv ==
    ASSUME IInv, NEW g \in Goroutines, SetOverwrite(g)
    PROVE  IInv'
<1> DEFINE k == call[g].key
           fr == [call[g] EXCEPT !.pc = "write"]
<1>1. /\ call[g].pc = "lock" /\ call[g] \in SetFrames
      /\ mu = NoGoroutine /\ k \in DOMAIN data
  BY FrameKinds DEF SetOverwrite, IInv, TypeOK
<1>2. fr \in Frames /\ fr.pc = "write" /\ fr.key = k
  BY <1>1, SetFrameMoves DEF Frames
<1>3. /\ call' = [call EXCEPT ![g] = fr] /\ mu' = g
      /\ UNCHANGED <<data, heap, currentCount, stats, cleanups, now, ops>>
      /\ currentSize' = currentSize - heap[data[k]].size
      /\ seen' = Shown(k, call[g].new)
      /\ evictionList' \in ListRemove(evictionList, k)
  BY DEF SetOverwrite
<1>4. call \in [Goroutines -> Frames]
  BY DEF IInv, TypeOK
<1> HIDE DEF fr
<1>5. /\ call' \in [Goroutines -> Frames]
      /\ call'[g] = fr
      /\ \A h \in Goroutines : h # g => call'[h] = call[h]
  BY <1>2, <1>3, <1>4
<1>6. BeingWritten = {}
  BY <1>1, WriterKeys DEF IInv
<1>7. LockHeld'
  BY <1>1, <1>2, <1>3, <1>5, CallersAssumption DEF IInv, LockHeld
<1>8. BeingWritten' = {k}
  <2>1. \A h \in Goroutines : call'[h].pc = "write" <=> h = g
    BY <1>2, <1>5, <1>6 DEF BeingWritten
  <2> QED BY <1>2, <1>5, <2>1 DEF BeingWritten
<1>9. \A h \in Goroutines :
         /\ Holds(call', h) <=> Holds(call, h)
         /\ Holds(call, h) => call'[h] = call[h]
  BY <1>1, <1>2, <1>5 DEF Holds
<1>10. ItemIdentity'
  <2>1. Reachable(data, call') = Reachable(data, call)
    BY <1>9 DEF Reachable
  <2>2. DOMAIN heap' = Reachable(data', call')
    BY <1>3, <2>1 DEF IInv, ItemIdentity
  <2>3. IsInjective(data)' /\ (BeingWritten \subseteq DOMAIN data)'
    BY <1>1, <1>3, <1>8 DEF IInv, ItemIdentity, IsInjective
  <2>4. \A h \in Goroutines, j \in DOMAIN data :
           Holds(call', h) /\ call'[h].item = data[j] => call'[h].key = j
    BY <1>9 DEF IInv, ItemIdentity
  <2> QED BY <1>3, <2>2, <2>3, <2>4 DEF ItemIdentity
<1>11. IsList(evictionList') /\ KeysIn(evictionList') = KeysIn(evictionList) \ {k}
  BY <1>3, ListRemoveProperties DEF IInv, ListMatchesData
<1>12. ListMatchesData'
  BY <1>3, <1>6, <1>8, <1>11 DEF IInv, ListMatchesData
<1>13. CountExact'
  BY <1>3 DEF IInv, CountExact
<1>14. SizeExact'
  <2>1. Sizes' = Sizes
    BY <1>3 DEF Sizes
  <2>2. currentSize = Cardinality(Bytes(Sizes, DOMAIN data))
    <3>1. DOMAIN data \ {} = DOMAIN data
      OBVIOUS
    <3> QED BY <1>6, <3>1 DEF IInv, SizeExact
  <2>3. Cardinality(Bytes(Sizes, DOMAIN data \ {k}))
          = Cardinality(Bytes(Sizes, DOMAIN data)) - Sizes[k]
    BY <1>1, DataProperties, BytesRemove
  <2>4. Sizes[k] = heap[data[k]].size
    BY <1>1, DataProperties
  <2>5. currentSize' = Cardinality(Bytes(Sizes, DOMAIN data \ {k}))
    BY <1>3, <2>2, <2>3, <2>4
  <2> QED BY <1>3, <1>8, <2>1, <2>5 DEF SizeExact
<1>15. TypeOK'
  <2>1. IsListType(evictionList')
    BY <1>11, ListHasType
  <2>2. currentSize' \in Int
    <3>1. heap[data[k]].size \in Nat /\ currentSize \in Int
      BY <1>1, DataProperties DEF IInv, TypeOK
    <3> QED BY <1>3, <3>1
  <2>3. seen' \in [Goroutines -> SUBSET Sighting]
    BY <1>1, <1>3, ShownType DEF IInv, SetFrames, Fields
  <2> QED BY <1>3, <1>5, <2>1, <2>2, <2>3 DEF IInv, TypeOK
<1> QED BY <1>7, <1>10, <1>12, <1>13, <1>14, <1>15 DEF IInv

\* The new bytes and the place in the list come back together.
LEMMA SetInstallInv ==
    ASSUME IInv, NEW g \in Goroutines, SetInstall(g)
    PROVE  IInv'
<1> DEFINE k == call[g].key
           new == call[g].new
           old == heap[data[k]]
           item == [payload |-> new.payload, packed |-> new.packed,
                    size |-> new.size, expireAt |-> new.expireAt,
                    accessAt |-> new.accessAt, createdAt |-> old.createdAt,
                    accessCount |-> old.accessCount]
           fr == [call[g] EXCEPT !.pc = "evict"]
<1>1. call[g].pc = "write" /\ call[g] \in SetFrames
  BY FrameKinds DEF SetInstall, IInv, TypeOK
<1>2. fr \in Frames /\ fr.pc = "evict" /\ fr.key = k
  BY <1>1, SetFrameMoves DEF Frames
<1>3. /\ call' = [call EXCEPT ![g] = fr]
      /\ UNCHANGED <<data, currentCount, mu, stats, cleanups, now, ops, seen>>
      /\ heap' = [heap EXCEPT ![data[k]] = item]
      /\ currentSize' = currentSize + new.size
      /\ evictionList' \in ListAdd(evictionList, k, old.accessCount, now)
  BY DEF SetInstall
<1>4. call \in [Goroutines -> Frames] /\ now \in Nat /\ currentSize \in Int
  BY DEF IInv, TypeOK
<1>5. mu = g /\ BeingWritten = {k} /\ k \in Keys /\ k \in DOMAIN data
  BY <1>1, WriterKeys DEF IInv, SetFrames, ItemIdentity
<1>6. data[k] \in DOMAIN heap /\ old \in CacheItem
  BY <1>5, DataProperties
<1>7. item \in CacheItem /\ item.size = new.size /\ new.size \in Nat
  BY <1>1, <1>6 DEF SetFrames, Fields, CacheItem
<1> HIDE DEF fr, item, old
<1>8. /\ call' \in [Goroutines -> Frames]
      /\ call'[g] = fr
      /\ \A h \in Goroutines : h # g => call'[h] = call[h]
  BY <1>2, <1>3, <1>4
<1>9. BeingWritten' = {}
  <2>1. \A h \in Goroutines : call[h].pc = "write" => h = g
    BY <1>5 DEF IInv, LockHeld
  <2>2. \A h \in Goroutines : call'[h].pc # "write"
    BY <1>2, <1>8, <2>1
  <2> QED BY <2>2 DEF BeingWritten
<1>10. LockHeld'
  BY <1>1, <1>2, <1>3, <1>5, <1>8 DEF IInv, LockHeld
<1>11. \A h \in Goroutines :
         /\ Holds(call', h) <=> Holds(call, h)
         /\ Holds(call, h) => call'[h] = call[h]
  BY <1>1, <1>2, <1>8 DEF Holds
<1>12. /\ DOMAIN heap' = DOMAIN heap
       /\ heap' \in [DOMAIN heap -> CacheItem]
       /\ DOMAIN heap \in SUBSET Items
       /\ heap'[data[k]] = item
       /\ \A i \in DOMAIN heap : i # data[k] => heap'[i] = heap[i]
  BY <1>3, <1>6, <1>7 DEF IInv, TypeOK
<1>13. ItemIdentity'
  <2>1. Reachable(data, call') = Reachable(data, call)
    BY <1>11 DEF Reachable
  <2>2. DOMAIN heap' = Reachable(data', call')
    BY <1>3, <1>12, <2>1 DEF IInv, ItemIdentity
  <2>3. IsInjective(data)' /\ (BeingWritten \subseteq DOMAIN data)'
    BY <1>3, <1>9 DEF IInv, ItemIdentity, IsInjective
  <2>4. \A h \in Goroutines, j \in DOMAIN data :
           Holds(call', h) /\ call'[h].item = data[j] => call'[h].key = j
    BY <1>11 DEF IInv, ItemIdentity
  <2> QED BY <1>3, <2>2, <2>3, <2>4 DEF ItemIdentity
<1>14. /\ IsList(evictionList') /\ KeysIn(evictionList') = KeysIn(evictionList) \cup {k}
  <2>1. IsList(evictionList) /\ k \notin KeysIn(evictionList)
    BY <1>5 DEF IInv, ListMatchesData
  <2>2. old.accessCount \in Nat
    BY <1>6 DEF CacheItem
  <2> QED BY <1>3, <1>4, <1>5, <2>1, <2>2, ListAddProperties
<1>15. ListMatchesData'
  BY <1>3, <1>5, <1>9, <1>14 DEF IInv, ListMatchesData
<1>16. CountExact'
  BY <1>3 DEF IInv, CountExact
<1>17. SizeExact'
  <2> DEFINE K == DOMAIN data \ {k}
  <2>1. /\ \A j \in K : Sizes'[j] = Sizes[j] /\ Sizes[j] \in Nat
        /\ Sizes'[k] = new.size
    <3>1. \A j \in K : data[j] # data[k] /\ data[j] \in DOMAIN heap
      BY <1>5, DataProperties DEF IInv, ItemIdentity, IsInjective
    <3>2. \A j \in DOMAIN data : Sizes'[j] = heap'[data[j]].size
      BY <1>3 DEF Sizes
    <3> QED BY <1>5, <1>7, <1>12, <3>1, <3>2, DataProperties
  <2>2. IsFiniteSet(K) /\ k \notin K /\ K \cup {k} = DOMAIN data \ {}
    BY <1>5, DataProperties, FS_Subset
  <2>3. Bytes(Sizes', K) = Bytes(Sizes, K)
    BY <2>1, BytesAgree
  <2>4. Cardinality(Bytes(Sizes', K \cup {k}))
          = Cardinality(Bytes(Sizes', K)) + Sizes'[k]
    <3>1. \A j \in K \cup {k} : Sizes'[j] \in Nat
      BY <1>7, <2>1
    <3> QED BY <2>2, <3>1, BytesAdd
  <2>5. currentSize = Cardinality(Bytes(Sizes, K))
    BY <1>5 DEF IInv, SizeExact
  <2>6. currentSize' = Cardinality(Bytes(Sizes', DOMAIN data \ {}))
    BY <1>3, <2>1, <2>2, <2>3, <2>4, <2>5
  <2> QED BY <1>3, <1>9, <2>6 DEF SizeExact
<1>18. TypeOK'
  <2>1. IsListType(evictionList')
    BY <1>14, ListHasType
  <2>2. currentSize' \in Int
    BY <1>3, <1>4, <1>7
  <2> QED BY <1>3, <1>8, <1>12, <2>1, <2>2 DEF IInv, TypeOK
<1> QED BY <1>10, <1>13, <1>15, <1>16, <1>17, <1>18 DEF IInv

-----------------------------------------------------------------------------
(* Set inserts.                                                            *)

\* A function has no more values than arguments.
LEMMA ImageBound ==
    ASSUME NEW S, IsFiniteSet(S), NEW f
    PROVE  /\ IsFiniteSet({f[x] : x \in S})
           /\ Cardinality({f[x] : x \in S}) <= Cardinality(S)
<1> DEFINE T == {f[x] : x \in S}
           r == [x \in S |-> f[x]]
<1>1. r \in Surjection(S, T)
  BY DEF Surjection
<1> HIDE DEF r, T
<1>2. IsFiniteSet(T) /\ Cardinality(T) <= Cardinality(S)
  BY <1>1, FS_Surjection
<1> QED BY <1>2 DEF T

\* While a goroutine holds no item and a key has none, there is a free address:
\* every item in use is some other key's or some other goroutine's.
LEMMA NewItemIsFree ==
    ASSUME IInv, NEW g \in Goroutines, ~Holds(call, g),
           NEW k \in Keys, k \notin DOMAIN data
    PROVE  NewItem \in Items \ DOMAIN heap
<1> DEFINE D == DOMAIN data
           G == {h \in Goroutines : Holds(call, h)}
           held == [h \in Goroutines |-> call[h].item]
           A == {data[j] : j \in D}
           B == {held[h] : h \in G}
<1>1. IsFiniteSet(D) /\ IsFiniteSet(Goroutines) /\ IsFiniteSet(Keys) /\ IsFiniteSet(Items)
  BY DataProperties, CallersAssumption
<1>2. IsFiniteSet(G) /\ Cardinality(G) <= Cardinality(Goroutines)
  BY <1>1, FS_Subset
<1>3. Cardinality(D) < Cardinality(Keys)
  <2>1. D \subseteq Keys /\ D # Keys
    BY DEF IInv, TypeOK
  <2>2. Cardinality(D) <= Cardinality(Keys) /\ Cardinality(D) # Cardinality(Keys)
    BY <1>1, <2>1, FS_Subset
  <2> QED BY <1>1, <2>2, FS_CardinalityType
<1>4. IsFiniteSet(A) /\ Cardinality(A) <= Cardinality(D)
  BY <1>1, ImageBound
<1>5. IsFiniteSet(B) /\ Cardinality(B) <= Cardinality(G)
  <2> HIDE DEF held, G
  <2> QED BY <1>2, ImageBound
<1>6. DOMAIN heap = A \cup B
  <2>1. \A h \in G : held[h] = call[h].item
    OBVIOUS
  <2> QED BY <2>1 DEF IInv, ItemIdentity, Reachable
<1> HIDE DEF A, B, G, D
<1>7. Cardinality(A \cup B) < Cardinality(Items)
  <2>1. Cardinality(A \cup B)
          = Cardinality(A) + Cardinality(B) - Cardinality(A \cap B)
    BY <1>4, <1>5, FS_Union
  <2>2. IsFiniteSet(A \cap B)
    BY <1>4, FS_Intersection
  <2>3. /\ Cardinality(A) \in Nat /\ Cardinality(B) \in Nat
        /\ Cardinality(A \cap B) \in Nat /\ Cardinality(G) \in Nat
        /\ Cardinality(D) \in Nat /\ Cardinality(Goroutines) \in Nat
        /\ Cardinality(Keys) \in Nat /\ Cardinality(Items) \in Nat
    BY <1>1, <1>2, <1>4, <1>5, <2>2, FS_CardinalityType
  <2>4. Cardinality(Items) >= Cardinality(Keys) + Cardinality(Goroutines)
    BY HeapAssumption
  <2> QED BY <1>2, <1>3, <1>4, <1>5, <2>1, <2>3, <2>4
<1>8. Items # DOMAIN heap
  <2>1. Cardinality(Items) \in Nat
    BY <1>1, FS_CardinalityType
  <2> QED BY <1>6, <1>7, <2>1
<1>9. DOMAIN heap \subseteq Items
  BY DEF IInv, TypeOK
<1>10. \E i \in Items : i \notin DOMAIN heap
  BY <1>8, <1>9
<1> QED BY <1>10 DEF NewItem

\* A new key enters the map, the list and the counters together.
LEMMA SetInsertInv ==
    ASSUME IInv, NEW g \in Goroutines, SetInsert(g)
    PROVE  IInv'
<1> DEFINE k == call[g].key
           new == call[g].new
           n == NewItem
           item == [payload |-> new.payload, packed |-> new.packed,
                    size |-> new.size, expireAt |-> new.expireAt,
                    accessAt |-> new.accessAt, createdAt |-> new.accessAt,
                    accessCount |-> 0]
           fr == [call[g] EXCEPT !.pc = "evict"]
<1>1. /\ call[g].pc = "lock" /\ call[g] \in SetFrames
      /\ mu = NoGoroutine /\ k \notin DOMAIN data /\ k \in Keys
  BY FrameKinds DEF SetInsert, IInv, TypeOK, SetFrames
<1>2. fr \in Frames /\ fr.pc = "evict" /\ fr.key = k
  BY <1>1, SetFrameMoves DEF Frames
<1>3. /\ call' = [call EXCEPT ![g] = fr] /\ mu' = g
      /\ UNCHANGED <<stats, cleanups, now, ops>>
      /\ data' = Put(data, k, n)
      /\ heap' = Put(heap, n, item)
      /\ currentSize' = currentSize + new.size
      /\ currentCount' = currentCount + 1
      /\ evictionList' \in ListAdd(evictionList, k, 0, now)
      /\ seen' = Shown(k, new)
  BY DEF SetInsert
<1>4. /\ call \in [Goroutines -> Frames] /\ now \in Nat /\ currentSize \in Int
      /\ DOMAIN data \in SUBSET Keys /\ data \in [DOMAIN data -> Items]
      /\ DOMAIN heap \in SUBSET Items /\ heap \in [DOMAIN heap -> CacheItem]
  BY DEF IInv, TypeOK
<1>5. n \in Items /\ n \notin DOMAIN heap
  <2>1. ~Holds(call, g)
    BY <1>1 DEF Holds
  <2> QED BY <1>1, <2>1, NewItemIsFree
<1>6. item \in CacheItem /\ item.size = new.size /\ new.size \in Nat
  BY <1>1 DEF SetFrames, Fields, CacheItem
<1>7. seen' \in [Goroutines -> SUBSET Sighting]
  BY <1>1, <1>3, ShownType DEF IInv, SetFrames, Fields
<1> HIDE DEF fr, item, n
<1>8. /\ call' \in [Goroutines -> Frames]
      /\ call'[g] = fr
      /\ \A h \in Goroutines : h # g => call'[h] = call[h]
  BY <1>2, <1>3, <1>4
<1>9. BeingWritten = {}
  BY <1>1, WriterKeys DEF IInv
<1>10. BeingWritten' = {}
  <2>1. \A h \in Goroutines : call'[h].pc # "write"
    BY <1>2, <1>8, <1>9 DEF BeingWritten
  <2> QED BY <2>1 DEF BeingWritten
<1>11. LockHeld'
  BY <1>1, <1>2, <1>3, <1>8, CallersAssumption DEF IInv, LockHeld
<1>12. \A h \in Goroutines :
         /\ Holds(call', h) <=> Holds(call, h)
         /\ Holds(call, h) => call'[h] = call[h]
  BY <1>1, <1>2, <1>8 DEF Holds
<1>13. /\ DOMAIN data' = DOMAIN data \cup {k}
       /\ data'[k] = n
       /\ \A j \in DOMAIN data : data'[j] = data[j] /\ data[j] \in DOMAIN heap
       /\ data' \in [DOMAIN data' -> Items] /\ DOMAIN data' \in SUBSET Keys
  <2>1. \A j \in DOMAIN data : data[j] \in DOMAIN heap
    BY DataProperties
  <2> QED BY <1>1, <1>3, <1>4, <1>5, <2>1 DEF Put
<1>14. /\ DOMAIN heap' = DOMAIN heap \cup {n}
       /\ heap'[n] = item
       /\ \A i \in DOMAIN heap : heap'[i] = heap[i]
       /\ heap' \in [DOMAIN heap' -> CacheItem] /\ DOMAIN heap' \in SUBSET Items
  BY <1>3, <1>4, <1>5, <1>6 DEF Put
<1>15. \A h \in Goroutines : Holds(call, h) => call[h].item \in DOMAIN heap
  BY DEF IInv, ItemIdentity, Reachable
<1>16. ItemIdentity'
  <2>1. Reachable(data', call') = Reachable(data, call) \cup {n}
    BY <1>12, <1>13 DEF Reachable
  <2>2. DOMAIN heap' = Reachable(data', call')
    BY <1>14, <2>1 DEF IInv, ItemIdentity
  <2>3. IsInjective(data')
    <3>1. \A i, j \in DOMAIN data : data[i] = data[j] => i = j
      BY DEF IInv, ItemIdentity, IsInjective
    <3> QED BY <1>5, <1>13, <3>1 DEF IsInjective
  <2>4. ASSUME NEW h \in Goroutines, NEW j \in DOMAIN data',
               Holds(call', h), call'[h].item = data'[j]
        PROVE  call'[h].key = j
    <3>1. /\ Holds(call, h) /\ call'[h] = call[h] /\ call[h].item \in DOMAIN heap
      BY <2>4, <1>12, <1>15
    <3>2. j \in DOMAIN data
      BY <2>4, <3>1, <1>5, <1>13
    <3> QED BY <2>4, <3>1, <3>2, <1>13 DEF IInv, ItemIdentity
  <2> QED BY <1>10, <2>2, <2>3, <2>4 DEF ItemIdentity
<1>17. IsList(evictionList') /\ KeysIn(evictionList') = KeysIn(evictionList) \cup {k}
  <2>1. IsList(evictionList) /\ k \notin KeysIn(evictionList)
    BY <1>1 DEF IInv, ListMatchesData
  <2> DEFINE unread == 0
  <2>2. unread \in Nat /\ evictionList' \in ListAdd(evictionList, k, unread, now)
    BY <1>3
  <2> HIDE DEF unread
  <2> QED BY <1>1, <1>4, <2>1, <2>2, ListAddProperties
<1>18. ListMatchesData'
  BY <1>9, <1>10, <1>13, <1>17 DEF IInv, ListMatchesData
<1>19. CountExact'
  <2>1. Cardinality(DOMAIN data \cup {k}) = Cardinality(DOMAIN data) + 1
    BY <1>1, DataProperties, FS_AddElement
  <2> QED BY <1>3, <1>13, <2>1 DEF IInv, CountExact
<1>20. SizeExact'
  <2> DEFINE K == DOMAIN data
  <2>1. /\ \A j \in K : Sizes'[j] = Sizes[j] /\ Sizes[j] \in Nat
        /\ Sizes'[k] = new.size
    <3>1. \A j \in DOMAIN data' : Sizes'[j] = heap'[data'[j]].size
      BY DEF Sizes
    <3> QED BY <1>6, <1>13, <1>14, <3>1, DataProperties
  <2>2. IsFiniteSet(K) /\ k \notin K
    BY <1>1, DataProperties
  <2>3. Bytes(Sizes', K) = Bytes(Sizes, K)
    BY <2>1, BytesAgree
  <2>4. Cardinality(Bytes(Sizes', K \cup {k}))
          = Cardinality(Bytes(Sizes', K)) + Sizes'[k]
    <3>1. \A j \in K \cup {k} : Sizes'[j] \in Nat
      BY <1>6, <2>1
    <3> QED BY <2>2, <3>1, BytesAdd
  <2>5. K \ {} = K /\ DOMAIN data' \ {} = K \cup {k}
    BY <1>13
  <2>6. currentSize = Cardinality(Bytes(Sizes, K))
    BY <1>9, <2>5 DEF IInv, SizeExact
  <2>7. currentSize' = Cardinality(Bytes(Sizes', DOMAIN data' \ {}))
    BY <1>3, <2>1, <2>3, <2>4, <2>5, <2>6
  <2> QED BY <1>10, <2>7 DEF SizeExact
<1>21. TypeOK'
  <2>1. IsListType(evictionList')
    BY <1>17, ListHasType
  <2>2. currentSize' \in Int /\ currentCount' \in Int /\ mu' \in Goroutines
    BY <1>3, <1>4, <1>6 DEF IInv, TypeOK
  <2> QED BY <1>3, <1>7, <1>8, <1>13, <1>14, <2>1, <2>2 DEF IInv, TypeOK
<1> QED BY <1>11, <1>16, <1>18, <1>19, <1>20, <1>21 DEF IInv

-----------------------------------------------------------------------------
(* A key leaves the map, with its item's bytes, while no Set writes.       *)

\* The accounts after it, by whichever action.
LEMMA KeyLeaves ==
    ASSUME IInv, BeingWritten = {}, NEW k \in DOMAIN data,
           data' = Drop(data, k), heap' = Collected(heap, data', call),
           currentSize' = currentSize - heap[data[k]].size,
           currentCount' = currentCount - 1,
           UNCHANGED <<mu, call>>,
           IsList(evictionList'),
           KeysIn(evictionList') = KeysIn(evictionList) \ {k}
    PROVE  /\ DOMAIN data' \in SUBSET Keys /\ data' \in [DOMAIN data' -> Items]
           /\ DOMAIN heap' \in SUBSET Items /\ heap' \in [DOMAIN heap' -> CacheItem]
           /\ IsListType(evictionList')
           /\ currentSize' \in Int /\ currentSize' <= currentSize
           /\ currentCount' \in Int
           /\ LockHeld' /\ ItemIdentity'
           /\ ListMatchesData' /\ CountExact' /\ SizeExact'
<1>1. /\ DOMAIN data \in SUBSET Keys /\ data \in [DOMAIN data -> Items]
      /\ DOMAIN heap \in SUBSET Items /\ heap \in [DOMAIN heap -> CacheItem]
      /\ currentSize \in Int /\ currentCount \in Int
  BY DEF IInv, TypeOK
<1>2. /\ DOMAIN data' = DOMAIN data \ {k}
      /\ \A j \in DOMAIN data' : data'[j] = data[j]
      /\ data' \in [DOMAIN data' -> Items]
  BY <1>1 DEF Drop
<1>3. /\ heap[data[k]].size = Sizes[k] /\ Sizes[k] \in Nat
      /\ IsFiniteSet(DOMAIN data)
      /\ \A j \in DOMAIN data : Sizes[j] \in Nat
  BY DataProperties
<1>4. BeingWritten' = {}
  BY DEF BeingWritten
<1>5. LockHeld'
  BY DEF IInv, LockHeld
<1>6. Reachable(data', call) \subseteq DOMAIN heap
  BY <1>2 DEF IInv, ItemIdentity, Reachable
<1>7. /\ DOMAIN heap' = Reachable(data', call)
      /\ DOMAIN heap' \subseteq Items
      /\ \A i \in DOMAIN heap' : heap'[i] = heap[i]
      /\ heap' \in [DOMAIN heap' -> CacheItem]
  <2>1. heap' = [i \in Reachable(data', call) |-> heap[i]]
    BY <1>6, CollectedProperties
  <2> QED BY <1>1, <1>6, <2>1
<1>8. ItemIdentity'
  <2>1. IsInjective(data')
    BY <1>2 DEF IInv, ItemIdentity, IsInjective
  <2>2. \A h \in Goroutines, j \in DOMAIN data' :
           Holds(call, h) /\ call[h].item = data'[j] => call[h].key = j
    BY <1>2 DEF IInv, ItemIdentity
  <2>3. (\A h \in Goroutines, j \in DOMAIN data :
           Holds(call, h) /\ call[h].item = data[j] => call[h].key = j)'
    BY <2>2 DEF Holds
  <2> QED BY <1>4, <1>7, <2>1, <2>3 DEF ItemIdentity
<1>9. ListMatchesData'
  BY <1>2, <1>4 DEF IInv, ListMatchesData
<1>10. CountExact' /\ currentCount' \in Int
  <2>1. Cardinality(DOMAIN data \ {k}) = Cardinality(DOMAIN data) - 1
    BY <1>3, FS_RemoveElement
  <2> QED BY <1>1, <1>2, <2>1 DEF IInv, CountExact
<1>11. SizeExact'
  <2>1. \A j \in DOMAIN data' : Sizes'[j] = Sizes[j]
    <3>1. \A j \in DOMAIN data' : data'[j] \in DOMAIN heap'
      BY <1>7 DEF Reachable
    <3>2. \A j \in DOMAIN data' : Sizes'[j] = heap'[data'[j]].size
      BY DEF Sizes
    <3>3. \A j \in DOMAIN data : Sizes[j] = heap[data[j]].size
      BY DEF Sizes
    <3> QED BY <1>2, <1>7, <3>1, <3>2, <3>3
  <2>2. Bytes(Sizes', DOMAIN data') = Bytes(Sizes, DOMAIN data')
    BY <2>1, BytesAgree
  <2>3. Cardinality(Bytes(Sizes, DOMAIN data \ {k}))
          = Cardinality(Bytes(Sizes, DOMAIN data)) - Sizes[k]
    BY <1>3, BytesRemove
  <2>4. DOMAIN data \ {} = DOMAIN data /\ DOMAIN data' \ {} = DOMAIN data'
    OBVIOUS
  <2>5. currentSize = Cardinality(Bytes(Sizes, DOMAIN data))
    BY <2>4 DEF IInv, SizeExact
  <2>6. currentSize' = Cardinality(Bytes(Sizes', DOMAIN data' \ {}))
    BY <1>2, <1>3, <2>2, <2>3, <2>4, <2>5
  <2> QED BY <1>4, <2>6 DEF SizeExact
<1>12. currentSize' \in Int /\ currentSize' <= currentSize
  BY <1>1, <1>3
<1>13. IsListType(evictionList')
  BY ListHasType
<1> QED BY <1>1, <1>2, <1>5, <1>7, <1>8, <1>9, <1>10, <1>11, <1>12, <1>13

-----------------------------------------------------------------------------
(* Set evicts.                                                             *)

\* The victim leaves the list and the map together.
LEMMA EvictOneInv ==
    ASSUME IInv, NEW g \in Goroutines, EvictOne(g)
    PROVE  IInv'
<1> DEFINE k == Victim(evictionList)
<1>1. call[g].pc = "evict" /\ BeingWritten = {} /\ k \in DOMAIN data
  BY WriterKeys DEF EvictOne, IInv
<1>2. /\ evictionList' \in RemoveLeast(evictionList)
      /\ data' = Drop(data, k)
      /\ heap' = Collected(heap, data', call)
      /\ currentSize' = currentSize - heap[data[k]].size
      /\ currentCount' = currentCount - 1
      /\ UNCHANGED <<mu, call>>
      /\ UNCHANGED <<cleanups, now, ops, seen>>
      /\ stats' = [stats EXCEPT !.evictions = @ + 1]
      /\ k # NoKey
  BY DEF EvictOne
<1>3. IsList(evictionList') /\ KeysIn(evictionList') = KeysIn(evictionList) \ {k}
  <2>1. IsList(evictionList)
    BY DEF IInv, ListMatchesData
  <2>2. KeysIn(evictionList) # {}
    BY <1>1, <1>2 DEF IInv, ListMatchesData
  <2> QED BY <1>2, <2>1, <2>2, RemoveLeastProperties
<1> HIDE DEF k
<1>4. /\ DOMAIN data' \in SUBSET Keys /\ data' \in [DOMAIN data' -> Items]
      /\ DOMAIN heap' \in SUBSET Items /\ heap' \in [DOMAIN heap' -> CacheItem]
      /\ IsListType(evictionList')
      /\ currentSize' \in Int
      /\ currentCount' \in Int
      /\ LockHeld' /\ ItemIdentity'
      /\ ListMatchesData' /\ CountExact' /\ SizeExact'
  BY <1>1, <1>2, <1>3, KeyLeaves
<1>5. stats' \in Stats
  BY <1>2 DEF IInv, TypeOK, Stats
<1>6. TypeOK'
  BY <1>2, <1>4, <1>5 DEF IInv, TypeOK
<1> QED BY <1>4, <1>6 DEF IInv

\* What leaving the lock does to the frames.
LEMMA SetLeaves ==
    ASSUME IInv, NEW g \in Goroutines, call[g].pc = "evict",
           call' = [call EXCEPT ![g] = Idle], mu' = NoGoroutine,
           UNCHANGED <<data, heap>>
    PROVE  /\ call' \in [Goroutines -> Frames]
           /\ BeingWritten = {} /\ BeingWritten' = {}
           /\ LockHeld' /\ ItemIdentity' /\ Sizes' = Sizes
<1>1. call \in [Goroutines -> Frames] /\ Idle \in Frames /\ Idle.pc = "idle"
  BY DEF IInv, TypeOK, Frames, Idle
<1>2. /\ call' \in [Goroutines -> Frames]
      /\ call'[g] = Idle
      /\ \A h \in Goroutines : h # g => call'[h] = call[h]
  BY <1>1
<1>3. mu = g /\ BeingWritten = {}
  BY WriterKeys DEF IInv
<1>4. BeingWritten' = {}
  <2>1. \A h \in Goroutines : call'[h].pc # "write"
    <3>1. \A h \in Goroutines : call[h].pc = "write" => mu = h
      BY DEF IInv, LockHeld
    <3>2. \A h \in Goroutines : h # g => call[h].pc # "write"
      BY <1>3, <3>1
    <3> QED BY <1>1, <1>2, <3>2
  <2> QED BY <2>1 DEF BeingWritten
<1>5. LockHeld'
  <2>1. call'[g].pc \notin {"write", "evict"} /\ mu' # g
    BY <1>1, <1>2, CallersAssumption
  <2>2. ASSUME NEW h \in Goroutines, h # g
        PROVE  call'[h].pc \notin {"write", "evict"} /\ mu' # h
    <3>1. mu # h
      BY <1>3, <2>2
    <3>2. call[h].pc \notin {"write", "evict"}
      BY <3>1 DEF IInv, LockHeld
    <3> QED BY <1>2, <2>2, <3>2, CallersAssumption
  <2> QED BY <2>1, <2>2 DEF LockHeld
<1>6. \A h \in Goroutines :
         /\ Holds(call', h) <=> Holds(call, h)
         /\ Holds(call, h) => call'[h] = call[h]
  BY <1>1, <1>2 DEF Holds
<1>7. ItemIdentity'
  <2>1. Reachable(data, call') = Reachable(data, call)
    BY <1>6 DEF Reachable
  <2>2. DOMAIN heap' = Reachable(data', call')
    BY <2>1 DEF IInv, ItemIdentity
  <2>3. IsInjective(data)' /\ (BeingWritten \subseteq DOMAIN data)'
    BY <1>4 DEF IInv, ItemIdentity, IsInjective
  <2>4. \A h \in Goroutines, j \in DOMAIN data :
           Holds(call', h) /\ call'[h].item = data[j] => call'[h].key = j
    BY <1>6 DEF IInv, ItemIdentity
  <2> QED BY <2>2, <2>3, <2>4 DEF ItemIdentity
<1>8. Sizes' = Sizes
  BY DEF Sizes
<1> QED BY <1>2, <1>3, <1>4, <1>5, <1>7, <1>8

\* evictOne gives up on a list that holds the keys of the map, the empty key
\* perhaps excepted: what RemoveLeast removed was that key, or nothing.
LEMMA EvictStopInv ==
    ASSUME IInv, NEW g \in Goroutines, EvictStop(g)
    PROVE  IInv'
<1>1. /\ call[g].pc = "evict"
      /\ call' = [call EXCEPT ![g] = Idle] /\ mu' = NoGoroutine
      /\ UNCHANGED <<data, heap>>
      /\ UNCHANGED <<currentSize, currentCount, stats, cleanups, now, ops, seen>>
      /\ evictionList' \in RemoveLeast(evictionList)
      /\ \/ Victim(evictionList) = NoKey
         \/ Victim(evictionList) \notin DOMAIN data
  BY DEF EvictStop
<1>2. /\ call' \in [Goroutines -> Frames]
      /\ BeingWritten = {} /\ BeingWritten' = {}
      /\ LockHeld' /\ ItemIdentity' /\ Sizes' = Sizes
  BY <1>1, SetLeaves
<1>3. ListMatchesData'
  <2>1. IsList(evictionList)
    BY DEF IInv, ListMatchesData
  <2>2. CASE KeysIn(evictionList) = {}
    <3>1. evictionList' = evictionList
      BY <1>1, <2>1, <2>2, RemoveLeastProperties
    <3> QED BY <1>1, <1>2, <3>1 DEF IInv, ListMatchesData
  <2>3. CASE KeysIn(evictionList) # {}
    <3>1. /\ IsList(evictionList')
          /\ Victim(evictionList) \in KeysIn(evictionList)
          /\ KeysIn(evictionList') = KeysIn(evictionList) \ {Victim(evictionList)}
      BY <1>1, <2>1, <2>3, RemoveLeastProperties
    <3>2. Victim(evictionList) = NoKey
      BY <1>1, <1>2, <3>1 DEF IInv, ListMatchesData
    <3> QED BY <1>1, <1>2, <3>1, <3>2 DEF IInv, ListMatchesData
  <2> QED BY <2>2, <2>3
<1>4. CountExact' /\ SizeExact'
  BY <1>1, <1>2 DEF IInv, CountExact, SizeExact
<1>5. TypeOK'
  <2>1. IsListType(evictionList')
    BY <1>3, ListHasType DEF ListMatchesData
  <2> QED BY <1>1, <1>2, <2>1 DEF IInv, TypeOK
<1> QED BY <1>2, <1>3, <1>4, <1>5 DEF IInv

\* Set returns within the limit.
LEMMA SetDoneInv ==
    ASSUME IInv, NEW g \in Goroutines, SetDone(g)
    PROVE  IInv'
<1>1. /\ call[g].pc = "evict"
      /\ call' = [call EXCEPT ![g] = Idle] /\ mu' = NoGoroutine
      /\ UNCHANGED <<data, heap>>
      /\ UNCHANGED <<evictionList, currentSize, currentCount, stats, cleanups,
                     now, ops, seen>>
  BY DEF SetDone
<1>2. /\ call' \in [Goroutines -> Frames]
      /\ BeingWritten = {} /\ BeingWritten' = {}
      /\ LockHeld' /\ ItemIdentity' /\ Sizes' = Sizes
  BY <1>1, SetLeaves
<1>3. ListMatchesData' /\ CountExact' /\ SizeExact'
  BY <1>1, <1>2, AccountsKept DEF IInv
<1>4. TypeOK'
  BY <1>1, <1>2 DEF IInv, TypeOK
<1> QED BY <1>2, <1>3, <1>4 DEF IInv

-----------------------------------------------------------------------------
(* Delete and Clear.                                                       *)

\* Delete of a key takes it out of everything, and of a missing key does nothing.
LEMMA DeleteLockedKeeps ==
    ASSUME IInv, NEW k \in Keys, DeleteLocked(k), UNCHANGED <<mu, call>>
    PROVE  /\ DOMAIN data' \in SUBSET Keys /\ data' \in [DOMAIN data' -> Items]
           /\ DOMAIN heap' \in SUBSET Items /\ heap' \in [DOMAIN heap' -> CacheItem]
           /\ IsListType(evictionList')
           /\ currentSize' \in Int /\ currentSize' <= currentSize
           /\ currentCount' \in Int
           /\ LockHeld' /\ ItemIdentity'
           /\ ListMatchesData' /\ CountExact' /\ SizeExact'
<1>1. BeingWritten = {}
  BY WriterKeys DEF DeleteLocked, IInv
<1>2. CASE k \in DOMAIN data
  <2>1. /\ data' = Drop(data, k)
        /\ heap' = Collected(heap, data', call)
        /\ currentSize' = currentSize - heap[data[k]].size
        /\ currentCount' = currentCount - 1
        /\ evictionList' \in ListRemove(evictionList, k)
    BY <1>2 DEF DeleteLocked
  <2>2. IsList(evictionList') /\ KeysIn(evictionList') = KeysIn(evictionList) \ {k}
    BY <2>1, ListRemoveProperties DEF IInv, ListMatchesData
  <2> QED BY <1>1, <1>2, <2>1, <2>2, KeyLeaves
<1>3. CASE k \notin DOMAIN data
  <2>1. UNCHANGED <<data, heap, currentSize, currentCount, evictionList>>
    BY <1>3 DEF DeleteLocked
  <2>2. /\ DOMAIN data \in SUBSET Keys /\ data \in [DOMAIN data -> Items]
        /\ DOMAIN heap \in SUBSET Items /\ heap \in [DOMAIN heap -> CacheItem]
        /\ IsListType(evictionList)
        /\ currentSize \in Int /\ currentCount \in Int
    BY DEF IInv, TypeOK
  <2>3. LockHeld' /\ ItemIdentity'
    BY <2>1 DEF IInv, LockHeld, ItemIdentity, Reachable, Holds, IsInjective, BeingWritten
  <2>4. BeingWritten' = BeingWritten /\ Sizes' = Sizes
    BY <2>1 DEF BeingWritten, Sizes
  <2>5. ListMatchesData' /\ CountExact' /\ SizeExact'
    BY <2>1, <2>4, AccountsKept DEF IInv
  <2>6. currentSize' <= currentSize
    BY <2>1, <2>2
  <2> QED BY <2>1, <2>2, <2>3, <2>5, <2>6
<1> QED BY <1>2, <1>3

\* A caller deletes.
LEMMA DeleteInv ==
    ASSUME IInv, NEW g \in Goroutines, NEW k \in Keys, Delete(g, k)
    PROVE  IInv'
<1>1. /\ DeleteLocked(k) /\ UNCHANGED <<mu, call>>
      /\ UNCHANGED <<stats, cleanups, now, seen>>
      /\ ops' = ops + 1
  BY DEF Delete, Start
<1>2. /\ DOMAIN data' \in SUBSET Keys /\ data' \in [DOMAIN data' -> Items]
      /\ DOMAIN heap' \in SUBSET Items /\ heap' \in [DOMAIN heap' -> CacheItem]
      /\ IsListType(evictionList')
      /\ currentSize' \in Int
      /\ currentCount' \in Int
      /\ LockHeld' /\ ItemIdentity'
      /\ ListMatchesData' /\ CountExact' /\ SizeExact'
  BY <1>1, DeleteLockedKeeps
<1>3. TypeOK'
  BY <1>1, <1>2 DEF IInv, TypeOK
<1> QED BY <1>2, <1>3 DEF IInv

\* A cleanup goroutine deletes: whatever it deletes, the accounts stay right.
LEMMA CleanupDeleteInv ==
    ASSUME IInv, NEW k \in Keys, CleanupDelete(k)
    PROVE  IInv'
<1>1. /\ DeleteLocked(k) /\ UNCHANGED <<mu, call>>
      /\ UNCHANGED <<stats, now, ops, seen>>
      /\ cleanups[k] > 0
      /\ cleanups' = [cleanups EXCEPT ![k] = @ - 1]
  BY DEF CleanupDelete
<1>2. /\ DOMAIN data' \in SUBSET Keys /\ data' \in [DOMAIN data' -> Items]
      /\ DOMAIN heap' \in SUBSET Items /\ heap' \in [DOMAIN heap' -> CacheItem]
      /\ IsListType(evictionList')
      /\ currentSize' \in Int
      /\ currentCount' \in Int
      /\ LockHeld' /\ ItemIdentity'
      /\ ListMatchesData' /\ CountExact' /\ SizeExact'
  BY <1>1, DeleteLockedKeeps
<1>3. cleanups' \in [Keys -> Nat]
  <2>1. cleanups \in [Keys -> Nat]
    BY DEF IInv, TypeOK
  <2>2. cleanups[k] - 1 \in Nat
    BY <1>1, <2>1
  <2> QED BY <1>1, <2>1, <2>2
<1>4. TypeOK'
  BY <1>1, <1>2, <1>3 DEF IInv, TypeOK
<1> QED BY <1>2, <1>4 DEF IInv

\* Clear empties the shard; Gets keep their items.
LEMMA ClearInv ==
    ASSUME IInv, NEW g \in Goroutines, Clear(g)
    PROVE  IInv'
<1>1. /\ mu = NoGoroutine
      /\ data' = <<>>
      /\ heap' = Collected(heap, data', call)
      /\ evictionList' = ListNew
      /\ currentSize' = 0 /\ currentCount' = 0
      /\ stats' = [hits |-> 0, misses |-> 0, evictions |-> 0]
      /\ UNCHANGED <<mu, cleanups, call, now, seen>>
      /\ ops' = ops + 1
  BY DEF Clear, Start
<1>2. DOMAIN data' = {}
  BY <1>1
<1>3. BeingWritten' = {}
  <2>1. BeingWritten = {}
    BY <1>1, WriterKeys DEF IInv
  <2> QED BY <1>1, <2>1 DEF BeingWritten
<1>4. Reachable(data', call) \subseteq DOMAIN heap
  BY <1>2 DEF IInv, ItemIdentity, Reachable
<1>5. /\ DOMAIN heap' = Reachable(data', call)
      /\ DOMAIN heap' \in SUBSET Items
      /\ heap' \in [DOMAIN heap' -> CacheItem]
  <2>1. heap' = [i \in Reachable(data', call) |-> heap[i]]
    BY <1>1, <1>4, CollectedProperties
  <2>2. DOMAIN heap \in SUBSET Items /\ heap \in [DOMAIN heap -> CacheItem]
    BY DEF IInv, TypeOK
  <2> QED BY <1>4, <2>1, <2>2
<1>6. LockHeld'
  BY <1>1 DEF IInv, LockHeld
<1>7. ItemIdentity'
  BY <1>1, <1>2, <1>3, <1>5 DEF ItemIdentity, IsInjective
<1>8. ListMatchesData'
  BY <1>1, <1>2, <1>3, ListNewProperties DEF ListMatchesData
<1>9. CountExact'
  BY <1>1, <1>2, FS_EmptySet DEF CountExact
<1>10. SizeExact'
  <2>1. DOMAIN data' \ {} = {}
    BY <1>2
  <2>2. Cardinality(Bytes(Sizes', {})) = 0
    BY BytesNone
  <2> QED BY <1>1, <1>3, <2>1, <2>2 DEF SizeExact
<1>11. TypeOK'
  <2>1. IsListType(evictionList')
    BY <1>1, ListNewProperties, ListHasType
  <2>2. DOMAIN data' \in SUBSET Keys /\ data' \in [DOMAIN data' -> Items]
    BY <1>1, <1>2
  <2>3. stats' \in Stats
    BY <1>1 DEF Stats
  <2>4. currentSize' \in Int /\ currentCount' \in Int
    BY <1>1
  <2> QED BY <1>1, <1>5, <2>1, <2>2, <2>3, <2>4 DEF IInv, TypeOK
<1> QED BY <1>6, <1>7, <1>8, <1>9, <1>10, <1>11 DEF IInv

-----------------------------------------------------------------------------
(* The invariant.                                                          *)

\* A new shard.
LEMMA InitInv == ASSUME Init PROVE IInv
<1>1. /\ data = <<>> /\ heap = <<>> /\ evictionList = ListNew
      /\ currentSize = 0 /\ currentCount = 0 /\ mu = NoGoroutine
      /\ stats = [hits |-> 0, misses |-> 0, evictions |-> 0]
      /\ cleanups = [k \in Keys |-> 0]
      /\ call = [g \in Goroutines |-> Idle]
      /\ now = 1 /\ ops = 0
      /\ seen = [g \in Goroutines |-> {}]
  BY DEF Init
<1>2. DOMAIN data = {} /\ DOMAIN heap = {}
  BY <1>1
<1>3. \A g \in Goroutines : call[g].pc = "idle"
  BY <1>1 DEF Idle
<1>4. BeingWritten = {} /\ \A g \in Goroutines : ~Holds(call, g)
  BY <1>3 DEF BeingWritten, Holds
<1>5. TypeOK
  <2>1. IsListType(evictionList)
    BY <1>1, ListNewProperties, ListHasType
  <2>2. call \in [Goroutines -> Frames]
    BY <1>1 DEF Frames
  <2>3. stats \in Stats /\ cleanups \in [Keys -> Nat]
    BY <1>1 DEF Stats
  <2>4. /\ DOMAIN data \in SUBSET Keys /\ data \in [DOMAIN data -> Items]
        /\ DOMAIN heap \in SUBSET Items /\ heap \in [DOMAIN heap -> CacheItem]
    BY <1>1, <1>2
  <2> QED BY <1>1, <2>1, <2>2, <2>3, <2>4 DEF TypeOK
<1>6. LockHeld
  BY <1>1, <1>3, CallersAssumption DEF LockHeld
<1>7. ItemIdentity
  BY <1>2, <1>4 DEF ItemIdentity, Reachable, IsInjective
<1>8. ListMatchesData
  BY <1>1, <1>2, <1>4, ListNewProperties DEF ListMatchesData
<1>9. CountExact
  BY <1>1, <1>2, FS_EmptySet DEF CountExact
<1>10. SizeExact
  <2>1. DOMAIN data \ {} = {}
    BY <1>2
  <2>2. Cardinality(Bytes(Sizes, {})) = 0
    BY BytesNone
  <2> QED BY <1>1, <1>4, <2>1, <2>2 DEF SizeExact
<1> QED BY <1>5, <1>6, <1>7, <1>8, <1>9, <1>10 DEF IInv

\* Every step, by action.
LEMMA NextInv == ASSUME IInv, [Next]_vars PROVE IInv'
<1>1. CASE UNCHANGED vars
  BY <1>1, StutterInv
<1>2. ASSUME NEW g \in Goroutines, Call(g) PROVE IInv'
  <2>1. ASSUME NEW k \in Keys, NEW v \in Values, NEW ttl \in TTLs,
               SetStart(g, k, v, ttl)
        PROVE  IInv'
    BY <2>1, SetStartInv
  <2>2. ASSUME NEW k \in Keys, GetFound(g, k) PROVE IInv'
    BY <2>2, GetFoundInv
  <2>3. ASSUME NEW k \in Keys, GetAbsent(g, k) PROVE IInv'
    BY <2>3, GetAbsentInv
  <2>4. ASSUME NEW k \in Keys, Delete(g, k) PROVE IInv'
    BY <2>4, DeleteInv
  <2>5. CASE Clear(g)
    BY <2>5, ClearInv
  <2> QED BY <1>2, <2>1, <2>2, <2>3, <2>4, <2>5 DEF Call
<1>3. ASSUME NEW g \in Goroutines, Step(g) PROVE IInv'
  <2>1. CASE SetOverwrite(g)   BY <2>1, SetOverwriteInv
  <2>2. CASE SetInstall(g)     BY <2>2, SetInstallInv
  <2>3. CASE SetInsert(g)      BY <2>3, SetInsertInv
  <2>4. CASE EvictOne(g)       BY <2>4, EvictOneInv
  <2>5. CASE EvictStop(g)      BY <2>5, EvictStopInv
  <2>6. CASE SetDone(g)        BY <2>6, SetDoneInv
  <2>7. CASE GetExpired(g)     BY <2>7, GetExpiredInv
  <2>8. CASE GetFresh(g)       BY <2>8, GetFreshInv
  <2>9. CASE GetTouch(g)       BY <2>9, GetTouchInv
  <2>10. CASE GetCountHit(g)   BY <2>10, GetCountHitInv
  <2>11. CASE GetReadFlag(g)   BY <2>11, GetReadFlagInv
  <2>12. CASE GetReadValue(g)  BY <2>12, GetReadValueInv
  <2>13. CASE GetCountMiss(g)  BY <2>13, GetCountMissInv
  <2>14. CASE GetReturn(g)     BY <2>14, GetReturnInv
  <2> QED BY <1>3, <2>1, <2>2, <2>3, <2>4, <2>5, <2>6, <2>7, <2>8, <2>9,
             <2>10, <2>11, <2>12, <2>13, <2>14 DEF Step
<1>4. ASSUME NEW k \in Keys, CleanupDelete(k) PROVE IInv'
  BY <1>4, CleanupDeleteInv
<1>5. CASE Tick
  BY <1>5, TickInv
<1>6. CASE Finished
  BY <1>6, StutterInv DEF Finished
<1> QED BY <1>1, <1>2, <1>3, <1>4, <1>5, <1>6 DEF Next

\* Every state of a shard satisfies the invariant.
THEOREM Invariance == Spec => []IInv
<1>1. Init => IInv
  BY InitInv
<1>2. IInv /\ [Next]_vars => IInv'
  BY NextInv
<1> QED BY <1>1, <1>2, PTL DEF Spec

\* Every variable of a shard keeps its type; in particular the counters of
\* pending cleanups never go below zero.
THEOREM TypeCorrect == Spec => []TypeOK
<1>1. IInv => TypeOK
  BY DEF IInv
<1> QED BY <1>1, Invariance, PTL

\* Two keys never share an item, and an item a Get goes on using after it let go
\* of the lock is never in the map under another key, however long it waits.
THEOREM ItemsKeepTheirKey == Spec => []ItemIdentity
<1>1. IInv => ItemIdentity
  BY DEF IInv
<1> QED BY <1>1, Invariance, PTL

\* The eviction list tracks the keys of the map, under each of the policies and
\* whatever Gets do to it with items that have left the map.
THEOREM ListTracksData == Spec => []ListMatchesData
<1>1. IInv => ListMatchesData
  BY DEF IInv
<1> QED BY <1>1, Invariance, PTL

\* currentCount is the number of keys in the map.
THEOREM CountIsExact == Spec => []CountExact
<1>1. IInv => CountExact
  BY DEF IInv
<1> QED BY <1>1, Invariance, PTL

\* currentSize is the number of bytes of the items in the map.
THEOREM SizeIsExact == Spec => []SizeExact
<1>1. IInv => SizeExact
  BY DEF IInv
<1> QED BY <1>1, Invariance, PTL

-----------------------------------------------------------------------------
(* The limit.                                                              *)

\* evictOne gives up over the limit only if the empty key is in use: otherwise
\* an empty list means an empty map, whose items take no bytes.
LEMMA NeverGivesUp ==
    ASSUME IInv, NEW g \in Goroutines, EvictStop(g)
    PROVE  NoKey \in Keys
<1>1. /\ call[g].pc = "evict" /\ MaxSize > 0 /\ currentSize > MaxSize
      /\ \/ Victim(evictionList) = NoKey
         \/ Victim(evictionList) \notin DOMAIN data
      /\ evictionList' \in RemoveLeast(evictionList)
  BY DEF EvictStop, OverLimit
<1>2. BeingWritten = {}
  BY <1>1, WriterKeys DEF IInv
<1>3. IsList(evictionList) /\ KeysIn(evictionList) \subseteq DOMAIN data
  BY <1>2 DEF IInv, ListMatchesData
<1>4. DOMAIN data \subseteq Keys
  BY DEF IInv, TypeOK
<1>5. CASE KeysIn(evictionList) # {}
  <2>1. Victim(evictionList) \in KeysIn(evictionList)
    BY <1>1, <1>3, <1>5, RemoveLeastProperties
  <2> QED BY <1>1, <1>3, <1>4, <2>1
<1>6. CASE KeysIn(evictionList) = {} /\ DOMAIN data # {}
  BY <1>2, <1>4, <1>6 DEF IInv, ListMatchesData
<1>7. DOMAIN data # {}
  <2> SUFFICES ASSUME DOMAIN data = {} PROVE FALSE
    OBVIOUS
  <2>1. DOMAIN data \ {} = {}
    OBVIOUS
  <2>2. currentSize = 0
    BY <1>2, <2>1, BytesNone DEF IInv, SizeExact
  <2> QED BY <1>1, <2>2, SizesAssumption
<1> QED BY <1>5, <1>6, <1>7

\* Only a Set raises the size, and it holds the lock until the limit holds again.
LEMMA NextWithinLimit ==
    ASSUME IInv, WithinLimit, [Next]_vars
    PROVE  WithinLimit'
<1>1. MaxSize \in Int /\ NoGoroutine \notin Goroutines /\ currentSize \in Int
  BY SizesAssumption, CallersAssumption DEF IInv, TypeOK
<1>2. CASE UNCHANGED <<mu, currentSize>>
  BY <1>2 DEF WithinLimit
<1>3. CASE mu' \in Goroutines
  BY <1>1, <1>3 DEF WithinLimit
<1>4. ASSUME NEW g \in Goroutines, Call(g) PROVE WithinLimit'
  <2>1. ASSUME NEW k \in Keys, Delete(g, k) PROVE WithinLimit'
    <3>1. mu' = mu /\ currentSize' \in Int /\ currentSize' <= currentSize
      BY <2>1, DeleteLockedKeeps DEF Delete
    <3> QED BY <1>1, <3>1 DEF WithinLimit
  <2>2. CASE Clear(g)
    BY <1>1, <2>2 DEF Clear, WithinLimit
  <2>3. ASSUME NEW k \in Keys, GetFound(g, k) \/ GetAbsent(g, k) PROVE WithinLimit'
    BY <1>2, <2>3 DEF GetFound, GetAbsent
  <2>4. ASSUME NEW k \in Keys, NEW v \in Values, NEW ttl \in TTLs,
               SetStart(g, k, v, ttl)
        PROVE  WithinLimit'
    BY <1>2, <2>4 DEF SetStart
  <2> QED BY <1>4, <2>1, <2>2, <2>3, <2>4 DEF Call
<1>5. ASSUME NEW g \in Goroutines, Step(g) PROVE WithinLimit'
  <2>1. CASE SetOverwrite(g) \/ SetInsert(g)
    BY <1>3, <2>1 DEF SetOverwrite, SetInsert
  <2>2. CASE SetInstall(g) \/ EvictOne(g)
    <3>1. mu = g /\ mu' = mu
      BY <2>2, WriterKeys DEF SetInstall, EvictOne, IInv
    <3> QED BY <1>3, <3>1
  <2>3. CASE EvictStop(g)
    BY <2>3, NeverGivesUp DEF WithinLimit
  <2>4. CASE SetDone(g)
    <3>1. ~OverLimit /\ currentSize' = currentSize
      BY <2>4 DEF SetDone
    <3> QED BY <1>1, <3>1 DEF OverLimit, WithinLimit
  <2>5. CASE \/ GetExpired(g) \/ GetFresh(g) \/ GetTouch(g) \/ GetCountHit(g)
             \/ GetReadFlag(g) \/ GetReadValue(g) \/ GetCountMiss(g) \/ GetReturn(g)
    BY <1>2, <2>5 DEF GetExpired, GetFresh, GetTouch, GetCountHit, GetReadFlag,
                      GetReadValue, GetCountMiss, GetReturn
  <2> QED BY <1>5, <2>1, <2>2, <2>3, <2>4, <2>5 DEF Step
<1>6. ASSUME NEW k \in Keys, CleanupDelete(k) PROVE WithinLimit'
  <2>1. mu' = mu /\ currentSize' \in Int /\ currentSize' <= currentSize
    BY <1>6, DeleteLockedKeeps DEF CleanupDelete
  <2> QED BY <1>1, <2>1 DEF WithinLimit
<1>7. CASE Tick \/ UNCHANGED vars
  BY <1>2, <1>7 DEF Tick, vars
<1> QED BY <1>4, <1>5, <1>6, <1>7 DEF Next, Finished

\* Whenever no Set is inside, a shard whose keys are not empty is within its
\* limit, for every size of item, items larger than the limit included.
THEOREM LimitHolds == Spec => []WithinLimit
<1>1. Init => WithinLimit
  BY SizesAssumption DEF Init, WithinLimit
<1>2. IInv /\ WithinLimit /\ [Next]_vars => WithinLimit'
  BY NextWithinLimit
<1> QED BY <1>1, <1>2, Invariance, PTL DEF Spec

-----------------------------------------------------------------------------
(* What Gets answer.  A Get reads its item without the lock, and the item  *)
(* may be overwritten, or leave the map, meanwhile: whatever it can find   *)
(* there was bound to its key at some moment of the call.                  *)

\* Whether Compress is used for a value, and the bytes it is stored in.
Packs(v) == RawLen[v] > CompressSize /\ PackedLen[v] < RawLen[v]
StoredLen(v) == IF Packs(v) THEN PackedLen[v] ELSE RawLen[v]

\* An item, or the fields a Set has prepared, as Compress leaves them.
Derived(f) == f.packed = Packs(f.payload) /\ f.size = StoredLen(f.payload)

\* No item is a mixture of two values.
ItemsDerived ==
    /\ \A i \in DOMAIN heap : Derived(heap[i])
    /\ \A g \in Goroutines :
          call[g].pc \in {"lock", "write", "evict"} => Derived(call[g].new)

\* S holds the value of version v, with its TTL, and seen before it expired
\* unless it has expired by now.
Witnessed(S, v) ==
    \E f \in S : /\ f.payload = v.payload
                 /\ f.expireAt = v.expireAt
                 /\ f.live \/ Expired(v)

\* A miss is justified by what the Get has seen.
Justified(S) ==
    \/ \E f \in S : Expired(f)
    \/ \E e, f \in S : e.expireAt # NoExpiry /\ f.expireAt = NoExpiry

\* Every version a Get may read has been seen, whenever it reads it; a Get past
\* its expiry check has seen a live value; what it read of the Compressed flag is
\* the flag of a value seen.
GetSound(g) ==
    /\ call[g].pc \in {"idle", "lock", "write", "evict"} => seen[g] = {}
    /\ Holds(call, g) => \A v \in Versions(call[g].item) : Witnessed(seen[g], v)
    /\ call[g].pc \in {"touch", "count", "flag", "value"}
          => \E f \in seen[g] : f.live
    /\ call[g].pc = "value"
          => \E f \in seen[g] : Packs(f.payload) = call[g].packed
    /\ call[g].pc = "miss" => call[g].result = Missing
    /\ call[g].pc \in {"miss", "answer"} /\ call[g].result = Missing
          => seen[g] = {} \/ Justified(seen[g])
    /\ call[g].pc = "answer" /\ call[g].result # Missing
          => \E f \in seen[g] : f.live
    /\ call[g].pc = "answer" /\ call[g].result \in Values
          => \E f \in seen[g] : f.payload = call[g].result
    /\ call[g].pc = "answer" /\ call[g].result = Corrupt
          => \E e, f \in seen[g] : e.payload # f.payload

GInv == ItemsDerived /\ \A g \in Goroutines : GetSound(g)

-----------------------------------------------------------------------------
(* Versions and sightings.                                                 *)

\* What a Get sees of a version.
LEMMA SightProperties ==
    ASSUME NEW f
    PROVE  /\ Sight(f).payload = f.payload
           /\ Sight(f).live <=> ~Expired(f)
           /\ Sight(f).expireAt = f.expireAt
BY DEF Sight

\* A version that has just been shown has a witness.
LEMMA ShownIsWitnessed ==
    ASSUME NEW f, NEW S, Sight(f) \in S
    PROVE  Witnessed(S, f)
BY SightProperties, Zenon DEF Witnessed

\* A witness goes on being one: sightings are kept, and what has not expired now
\* had not expired before.
LEMMA StaysWitnessed ==
    ASSUME NEW S, NEW u, Witnessed(S, u), u.expireAt \in Nat,
           NEW T, S \subseteq T, NEW v, v.payload = u.payload,
           v.expireAt = u.expireAt,
           now \in Nat, now' \in Nat, now <= now'
    PROVE  Witnessed(T, v)'
<1>1. PICK f \in S : /\ f.payload = u.payload
                     /\ f.expireAt = u.expireAt
                     /\ f.live \/ Expired(u)
  BY Zenon DEF Witnessed
<1>2. Expired(u) => Expired(v)'
  BY DEF Expired, NoExpiry
<1>3. /\ f \in T
      /\ f.payload = v.payload
      /\ f.expireAt = v.expireAt
      /\ f.live \/ Expired(v)'
  BY <1>1, <1>2, Zenon
<1> QED BY <1>3, Zenon DEF Witnessed

\* What a Get may read is typed, and is as Compress left it.
LEMMA VersionProperties ==
    ASSUME IInv, GInv, NEW g \in Goroutines, Holds(call, g),
           NEW v \in Versions(call[g].item)
    PROVE  /\ v.payload \in Values /\ v.expireAt \in Nat
           /\ Derived(v)
           /\ Witnessed(seen[g], v)
<1>1. call[g].item \in DOMAIN heap
  BY DEF IInv, ItemIdentity, Reachable
<1>2. heap[call[g].item] \in CacheItem /\ Derived(heap[call[g].item])
  BY <1>1 DEF IInv, TypeOK, GInv, ItemsDerived
<1>3. \A h \in Goroutines :
         call[h].pc = "write" => call[h].new \in Fields /\ Derived(call[h].new)
  BY FrameKinds DEF IInv, TypeOK, SetFrames, GInv, ItemsDerived
<1>4. (v \in CacheItem \/ v \in Fields) /\ Derived(v)
  BY <1>2, <1>3 DEF Versions
<1>5. Witnessed(seen[g], v)
  BY DEF GInv, GetSound
<1> QED BY <1>4, <1>5 DEF CacheItem, Fields

\* A step that changes no item and no writer gives a Get nothing new to read.
LEMMA SameVersions ==
    ASSUME NEW i, heap'[i] = heap[i],
           \A g \in Goroutines : call'[g].pc = "write"
              => /\ call[g].pc = "write"
                 /\ call'[g].key = call[g].key /\ call'[g].new = call[g].new
                 /\ data'[call[g].key] = data[call[g].key]
    PROVE  Versions(i)' \subseteq Versions(i)
BY DEF Versions

\* A justification stays one: what has expired is expired.
LEMMA StaysJustified ==
    ASSUME NEW S, S \subseteq Sighting, Justified(S),
           now \in Nat, now' \in Nat, now <= now'
    PROVE  Justified(S)'
<1>1. CASE \E f \in S : Expired(f)
  <2>1. PICK f \in S : Expired(f)
    BY <1>1
  <2>2. f.expireAt \in Nat
    BY DEF Sighting
  <2>3. Expired(f)'
    BY <2>1, <2>2 DEF Expired
  <2> QED BY <2>3, Zenon DEF Justified
<1>2. CASE \E e, f \in S : e.expireAt # NoExpiry /\ f.expireAt = NoExpiry
  BY <1>2, Zenon DEF Justified
<1> QED BY <1>1, <1>2, Zenon DEF Justified

\* A clock that stands does not go back.
LEMMA ClockStands ==
    ASSUME IInv, now' = now
    PROVE  now <= now'
BY DEF IInv, TypeOK

\* The Get of a goroutine is sound after a step that is not its own if all that
\* it may read by then has been seen.
LEMMA Undisturbed ==
    ASSUME IInv, IInv', now <= now',
           NEW h \in Goroutines, GetSound(h), call'[h] = call[h],
           seen[h] \subseteq seen'[h],
           seen'[h] = seen[h] \/ Holds(call, h),
           Holds(call, h)
              => \A v \in Versions(call[h].item)' : Witnessed(seen[h], v)'
    PROVE  GetSound(h)'
<1>1. Holds(call', h) <=> Holds(call, h)
  BY DEF Holds
<1>2. CASE Holds(call, h)
  <2>1. Holds(call', h) => \A v \in Versions(call[h].item)' : Witnessed(seen[h], v)'
    BY <1>2
  <2>2. call[h].pc \in {"check", "touch", "count", "flag", "value"}
    BY <1>2 DEF Holds
  <2> QED BY <2>1, <2>2 DEF GetSound
<1>3. CASE ~Holds(call, h)
  <2>1. now \in Nat /\ now' \in Nat /\ seen[h] \subseteq Sighting
    BY DEF IInv, TypeOK
  <2>2. seen'[h] = seen[h]
    BY <1>3
  <2>3. Justified(seen[h]) => Justified(seen[h])'
    <3> DEFINE S == seen[h]
    <3>1. S' = S
      BY <2>2
    <3> QED BY <2>1, <3>1, StaysJustified
  <2> QED BY <1>1, <1>3, <2>2, <2>3 DEF GetSound
<1> QED BY <1>2, <1>3

\* A step that changes no item, starts no writing and lets the goroutines in G
\* go on.
LEMMA QuietStep ==
    ASSUME IInv, IInv', GInv, NEW G \in SUBSET Goroutines,
           \A h \in Goroutines \ G : call'[h] = call[h] /\ seen'[h] = seen[h],
           \A g \in G : call'[g].pc # "write",
           \A g \in G : call'[g].pc \in {"lock", "evict"} => Derived(call'[g].new),
           \A i \in DOMAIN heap' : i \in DOMAIN heap /\ heap'[i] = heap[i],
           data' = data \/ BeingWritten = {},
           now <= now',
           \A g \in G : GetSound(g)'
    PROVE  GInv'
<1>1. \A g \in Goroutines : call'[g].pc = "write"
         => /\ call[g].pc = "write"
            /\ call'[g].key = call[g].key /\ call'[g].new = call[g].new
            /\ data'[call[g].key] = data[call[g].key]
  BY DEF BeingWritten
<1>2. ASSUME NEW h \in Goroutines \ G PROVE GetSound(h)'
  <2>1. ASSUME Holds(call, h), NEW v \in Versions(call[h].item)'
        PROVE  Witnessed(seen[h], v)'
    <3>1. call[h].item \in DOMAIN heap'
      BY <2>1 DEF IInv, ItemIdentity, Reachable, Holds
    <3>2. v \in Versions(call[h].item)
      BY <1>1, <3>1, SameVersions
    <3>3. v.expireAt \in Nat /\ Witnessed(seen[h], v)
      BY <2>1, <3>2, VersionProperties
    <3>4. now \in Nat /\ now' \in Nat
      BY DEF IInv, TypeOK
    <3>5. Witnessed(seen[h], v)'
      <4> DEFINE S == seen[h]
      <4>1. S' = S
        OBVIOUS
      <4> QED BY <3>3, <3>4, <4>1, StaysWitnessed
    <3> QED BY <3>5
  <2>2. GetSound(h)
    BY DEF GInv
  <2> QED BY <2>1, <2>2, Undisturbed
<1>3. ItemsDerived'
  BY DEF GInv, ItemsDerived
<1> QED BY <1>2, <1>3 DEF GInv

\* A step of one goroutine.
LEMMA OwnStep ==
    ASSUME IInv, IInv', GInv, NEW g \in Goroutines,
           \A h \in Goroutines \ {g} : call'[h] = call[h] /\ seen'[h] = seen[h],
           call'[g].pc # "write",
           call'[g].pc \in {"lock", "evict"} => Derived(call'[g].new),
           \A i \in DOMAIN heap' : i \in DOMAIN heap /\ heap'[i] = heap[i],
           data' = data \/ BeingWritten = {},
           now' = now,
           GetSound(g)'
    PROVE  GInv'
<1>1. \A h \in {g} : /\ call'[h].pc # "write"
                     /\ call'[h].pc \in {"lock", "evict"} => Derived(call'[h].new)
                     /\ GetSound(h)'
  OBVIOUS
<1>2. now <= now'
  BY DEF IInv, TypeOK
<1> QED BY <1>1, <1>2, QuietStep

\* What the collector leaves is as it was.
LEMMA CollectedIsQuiet ==
    ASSUME NEW h, NEW d, NEW c
    PROVE  \A i \in DOMAIN Collected(h, d, c) :
              i \in DOMAIN h /\ Collected(h, d, c)[i] = h[i]
BY DEF Collected

-----------------------------------------------------------------------------
(* Steps of a Get that change no item.                                     *)

\* A caller that is not in a Get has seen nothing.
LEMMA SetStartSound ==
    ASSUME IInv, IInv', GInv, NEW g \in Goroutines, NEW k \in Keys,
           NEW v \in Values, NEW ttl \in TTLs, SetStart(g, k, v, ttl)
    PROVE  GInv'
<1> DEFINE fr == [pc |-> "lock", key |-> k, new |-> Prepared(v, ttl)]
<1>1. /\ call[g].pc = "idle"
      /\ call' = [call EXCEPT ![g] = fr]
      /\ UNCHANGED <<data, heap, now, seen>>
  BY DEF SetStart, Start, Idle
<1>2. Derived(Prepared(v, ttl))
  BY DEF Derived, Prepared, Packs, StoredLen
<1>3. /\ call'[g] = fr
      /\ \A h \in Goroutines \ {g} : call'[h] = call[h]
  BY <1>1 DEF IInv, TypeOK
<1>4. GetSound(g)'
  BY <1>1, <1>3 DEF GInv, GetSound, Holds
<1> QED BY <1>1, <1>2, <1>3, <1>4, OwnStep

\* The value found is the first one seen.
LEMMA GetFoundSound ==
    ASSUME IInv, IInv', GInv, NEW g \in Goroutines, NEW k \in Keys, GetFound(g, k)
    PROVE  GInv'
<1> DEFINE fr == [pc |-> "check", key |-> k, item |-> data[k]]
<1>1. /\ call' = [call EXCEPT ![g] = fr]
      /\ UNCHANGED <<data, heap, now, mu>>
      /\ mu = NoGoroutine
      /\ seen' = [seen EXCEPT ![g] = {Sight(heap[data[k]])}]
  BY DEF GetFound
<1>2. /\ call'[g] = fr
      /\ \A h \in Goroutines \ {g} : call'[h] = call[h] /\ seen'[h] = seen[h]
      /\ seen'[g] = {Sight(heap[data[k]])}
  BY <1>1 DEF IInv, TypeOK
<1>3. /\ call'[g].pc = "check" /\ call'[g].item = data[k]
      /\ \A h \in Goroutines : call'[h].pc # "write"
  BY <1>1, <1>2, CallersAssumption DEF IInv, LockHeld
<1>4. \A v \in Versions(call[g].item)' : v = heap[data[k]]
  BY <1>1, <1>3 DEF Versions
<1>5. ASSUME NEW v \in Versions(call[g].item)' PROVE Witnessed(seen[g], v)'
  <2>1. v.expireAt \in Nat
    <3>1. heap[data[k]] \in CacheItem
      BY DataProperties DEF GetFound
    <3> QED BY <1>4, <3>1 DEF CacheItem
  <2>2. Witnessed(seen'[g], v)
    BY <1>2, <1>4, ShownIsWitnessed
  <2>3. now \in Nat /\ now' \in Nat /\ now <= now'
    BY <1>1 DEF IInv, TypeOK
  <2> QED BY <2>1, <2>2, <2>3, StaysWitnessed
<1>6. GetSound(g)'
  BY <1>3, <1>5 DEF GetSound, Holds
<1> QED BY <1>1, <1>2, <1>3, <1>6, OwnStep

\* Get finds nothing: it has seen nothing.
LEMMA GetAbsentSound ==
    ASSUME IInv, IInv', GInv, NEW g \in Goroutines, NEW k \in Keys, GetAbsent(g, k)
    PROVE  GInv'
<1>1. /\ call[g].pc = "idle"
      /\ call' = [call EXCEPT ![g] = [pc |-> "miss", key |-> k, result |-> Missing]]
      /\ UNCHANGED <<data, heap, now, seen>>
  BY DEF GetAbsent, Start, Idle
<1>2. /\ call'[g].pc = "miss" /\ call'[g].result = Missing
      /\ \A h \in Goroutines \ {g} : call'[h] = call[h]
  BY <1>1 DEF IInv, TypeOK
<1>3. GetSound(g)'
  BY <1>1, <1>2 DEF GInv, GetSound, Holds
<1> QED BY <1>1, <1>2, <1>3, OwnStep

\* While a Get moves on with its item, what it may read stays the same.
LEMMA StillHeld ==
    ASSUME IInv, IInv', GInv, NEW g \in Goroutines, Holds(call, g),
           UNCHANGED <<data, heap, now, seen>>,
           call'[g].pc # "write", call'[g].item = call[g].item,
           \A h \in Goroutines \ {g} : call'[h] = call[h]
    PROVE  \A v \in Versions(call[g].item)' : Witnessed(seen[g], v)'
<1> SUFFICES ASSUME NEW v \in Versions(call[g].item)'
             PROVE  Witnessed(seen[g], v)'
  OBVIOUS
<1>1. v \in Versions(call[g].item)
  BY SameVersions
<1>2. v.expireAt \in Nat /\ Witnessed(seen[g], v)
  BY <1>1, VersionProperties
<1>3. now \in Nat /\ now' \in Nat /\ now <= now'
  BY DEF IInv, TypeOK
<1> QED BY <1>2, <1>3, StaysWitnessed

\* The item is past its TTL, or the two reads were of different TTLs.
LEMMA GetExpiredSound ==
    ASSUME IInv, IInv', GInv, NEW g \in Goroutines, GetExpired(g)
    PROVE  GInv'
<1>1. /\ call[g].pc = "check"
      /\ call' = [call EXCEPT ![g] = [pc |-> "miss", key |-> call[g].key,
                                      result |-> Missing]]
      /\ heap' = Collected(heap, data, call')
      /\ UNCHANGED <<data, now, seen>>
  BY DEF GetExpired
<1>2. PICK a, b \in Versions(call[g].item) :
         a.expireAt # NoExpiry /\ now > b.expireAt
  BY DEF GetExpired
<1>3. Holds(call, g)
  BY <1>1 DEF Holds
<1>4. PICK e, f \in seen[g] : e.expireAt = a.expireAt /\ f.expireAt = b.expireAt
  BY <1>3, VersionProperties, Zenon DEF Witnessed
<1>5. Justified(seen[g])'
  <2>1. Justified(seen[g])
    <3>1. CASE f.expireAt = NoExpiry
      BY <1>2, <1>4, <3>1 DEF Justified
    <3>2. CASE f.expireAt # NoExpiry
      BY <1>2, <1>4, <3>2 DEF Justified, Expired
    <3> QED BY <3>1, <3>2
  <2> QED BY <1>1, <2>1 DEF Justified, Expired
<1>6. /\ call'[g].pc = "miss" /\ call'[g].result = Missing
      /\ \A h \in Goroutines \ {g} : call'[h] = call[h]
  BY <1>1 DEF IInv, TypeOK
<1>7. GetSound(g)'
  BY <1>1, <1>5, <1>6 DEF GetSound, Holds
<1> QED BY <1>1, <1>6, <1>7, CollectedIsQuiet, OwnStep

\* The item is alive: it was so when it was seen.
LEMMA GetFreshSound ==
    ASSUME IInv, IInv', GInv, NEW g \in Goroutines, GetFresh(g)
    PROVE  GInv'
<1>1. /\ call[g].pc = "check"
      /\ call' = [call EXCEPT ![g].pc = "touch"]
      /\ UNCHANGED <<data, heap, now, seen>>
  BY DEF GetFresh
<1>2. PICK a, b \in Versions(call[g].item) :
         a.expireAt = NoExpiry \/ now <= b.expireAt
  BY DEF GetFresh
<1>3. Holds(call, g) /\ call[g] \in HoldingFrames
  BY <1>1, FrameKinds DEF Holds, IInv, TypeOK
<1>4. \E f \in seen[g] : f.live
  <2>1. /\ Witnessed(seen[g], a) /\ Witnessed(seen[g], b)
        /\ a.expireAt \in Nat /\ b.expireAt \in Nat /\ now \in Nat
    BY <1>3, VersionProperties DEF IInv, TypeOK
  <2>2. ~Expired(a) \/ ~Expired(b)
    BY <1>2, <2>1 DEF Expired, NoExpiry
  <2> QED BY <2>1, <2>2, Zenon DEF Witnessed
<1>5. /\ call'[g].pc = "touch" /\ call'[g].item = call[g].item
      /\ \A h \in Goroutines \ {g} : call'[h] = call[h]
  BY <1>1, <1>3, HoldingFrameMoves DEF IInv, TypeOK
<1>6. \A v \in Versions(call[g].item)' : Witnessed(seen[g], v)'
  BY <1>1, <1>3, <1>5, StillHeld
<1>7. GetSound(g)'
  BY <1>1, <1>4, <1>5, <1>6 DEF GetSound, Holds
<1> QED BY <1>1, <1>5, <1>7, OwnStep

\* Counting a hit changes nothing that a Get may read.
LEMMA GetCountHitSound ==
    ASSUME IInv, IInv', GInv, NEW g \in Goroutines, GetCountHit(g)
    PROVE  GInv'
<1>1. /\ call[g].pc = "count"
      /\ call' = [call EXCEPT ![g].pc = "flag"]
      /\ UNCHANGED <<data, heap, now, seen>>
  BY DEF GetCountHit
<1>2. Holds(call, g) /\ call[g] \in HoldingFrames
  BY <1>1, FrameKinds DEF Holds, IInv, TypeOK
<1>3. /\ call'[g].pc = "flag" /\ call'[g].item = call[g].item
      /\ \A h \in Goroutines \ {g} : call'[h] = call[h]
  BY <1>1, <1>2, HoldingFrameMoves DEF IInv, TypeOK
<1>4. \A v \in Versions(call[g].item)' : Witnessed(seen[g], v)'
  BY <1>1, <1>2, <1>3, StillHeld
<1>5. \E f \in seen[g] : f.live
  BY <1>1 DEF GInv, GetSound
<1>6. GetSound(g)'
  BY <1>1, <1>3, <1>4, <1>5 DEF GetSound, Holds
<1> QED BY <1>1, <1>3, <1>6, OwnStep

\* The flag read is that of a value seen.
LEMMA GetReadFlagSound ==
    ASSUME IInv, IInv', GInv, NEW g \in Goroutines, GetReadFlag(g)
    PROVE  GInv'
<1>1. call[g].pc = "flag" /\ UNCHANGED <<data, heap, now, seen>>
  BY DEF GetReadFlag
<1>2. PICK a \in Versions(call[g].item) :
         call' = [call EXCEPT ![g] = [pc |-> "value", key |-> call[g].key,
                                      item |-> call[g].item,
                                      packed |-> a.packed]]
  BY DEF GetReadFlag
<1>3. Holds(call, g)
  BY <1>1 DEF Holds
<1>4. /\ call'[g].pc = "value" /\ call'[g].item = call[g].item
      /\ call'[g].packed = a.packed
      /\ \A h \in Goroutines \ {g} : call'[h] = call[h]
  BY <1>2 DEF IInv, TypeOK
<1>5. \A v \in Versions(call[g].item)' : Witnessed(seen[g], v)'
  BY <1>1, <1>3, <1>4, StillHeld
<1>6. \E f \in seen[g] : Packs(f.payload) = a.packed
  <2>1. Derived(a) /\ Witnessed(seen[g], a)
    BY <1>3, VersionProperties
  <2>2. PICK f \in seen[g] : f.payload = a.payload
    BY <2>1, Zenon DEF Witnessed
  <2> QED BY <2>1, <2>2, Zenon DEF Derived
<1>7. \E f \in seen[g] : f.live
  BY <1>1 DEF GInv, GetSound
<1>8. GetSound(g)'
  BY <1>1, <1>4, <1>5, <1>6, <1>7 DEF GetSound, Holds
<1> QED BY <1>1, <1>4, <1>8, OwnStep

\* Pointer and length of one value, with its flag, give the value; of different
\* ones, they show that the item was overwritten.
LEMMA GetReadValueSound ==
    ASSUME IInv, IInv', GInv, NEW g \in Goroutines, GetReadValue(g)
    PROVE  GInv'
<1>1. /\ call[g].pc = "value"
      /\ heap' = Collected(heap, data, call')
      /\ UNCHANGED <<data, now, seen>>
  BY DEF GetReadValue
<1>2. PICK p, n \in Versions(call[g].item) :
         call' = [call EXCEPT ![g] =
                     [pc |-> "answer", key |-> call[g].key,
                      result |-> Decoded(p, n, call[g].packed)]]
  BY DEF GetReadValue
<1> DEFINE result == Decoded(p, n, call[g].packed)
<1>3. Holds(call, g)
  BY <1>1 DEF Holds
<1>4. /\ call'[g].pc = "answer" /\ call'[g].result = result
      /\ \A h \in Goroutines \ {g} : call'[h] = call[h]
  BY <1>2 DEF IInv, TypeOK
<1>5. /\ p.payload \in Values /\ Derived(p) /\ Witnessed(seen[g], p)
      /\ Derived(n) /\ Witnessed(seen[g], n)
  BY <1>3, VersionProperties
<1>6. PICK fp \in seen[g], fn \in seen[g], fa \in seen[g] :
         /\ fp.payload = p.payload /\ fn.payload = n.payload
         /\ Packs(fa.payload) = call[g].packed
  <2>1. /\ \E f \in seen[g] : f.payload = p.payload
        /\ \E f \in seen[g] : f.payload = n.payload
    BY <1>5, Zenon DEF Witnessed
  <2>2. \E f \in seen[g] : Packs(f.payload) = call[g].packed
    BY <1>1 DEF GInv, GetSound
  <2> QED BY <2>1, <2>2
<1>7. CASE p.packed = call[g].packed /\ p.size = n.size
  <2>1. result = p.payload /\ result # Missing /\ result # Corrupt
    BY <1>5, <1>7, AnswersAssumption DEF Decoded
  <2>2. \E f \in seen[g] : f.live
    BY <1>1 DEF GInv, GetSound
  <2>3. GetSound(g)'
    BY <1>1, <1>4, <1>6, <2>1, <2>2 DEF GetSound, Holds
  <2> QED BY <1>1, <1>4, <2>3, CollectedIsQuiet, OwnStep
<1>8. CASE p.packed # call[g].packed \/ p.size # n.size
  <2>1. result = Corrupt /\ result # Missing /\ result \notin Values
    BY <1>8, AnswersAssumption DEF Decoded
  <2>2. fp.payload # fn.payload \/ fp.payload # fa.payload
    BY <1>5, <1>6, <1>8, Zenon DEF Derived
  <2>3. \E f \in seen[g] : f.live
    BY <1>1 DEF GInv, GetSound
  <2>4. GetSound(g)'
    BY <1>1, <1>4, <1>6, <2>1, <2>2, <2>3 DEF GetSound, Holds
  <2> QED BY <1>1, <1>4, <2>4, CollectedIsQuiet, OwnStep
<1> QED BY <1>7, <1>8

\* Counting a miss changes nothing.
LEMMA GetCountMissSound ==
    ASSUME IInv, IInv', GInv, NEW g \in Goroutines, GetCountMiss(g)
    PROVE  GInv'
<1>1. /\ call[g].pc = "miss"
      /\ call' = [call EXCEPT ![g].pc = "answer"]
      /\ UNCHANGED <<data, heap, now, seen>>
  BY DEF GetCountMiss
<1>2. call[g] \in AnswerFrames
  BY <1>1, FrameKinds DEF IInv, TypeOK
<1>3. /\ call'[g].pc = "answer" /\ call'[g].result = call[g].result
      /\ \A h \in Goroutines \ {g} : call'[h] = call[h]
  BY <1>1, <1>2 DEF IInv, TypeOK, AnswerFrames
<1>4. /\ call[g].result = Missing /\ Missing \notin Values /\ Missing # Corrupt
      /\ seen[g] = {} \/ Justified(seen[g])'
  BY <1>1, AnswersAssumption DEF GInv, GetSound, Justified, Expired
<1>5. GetSound(g)'
  BY <1>1, <1>3, <1>4 DEF GetSound, Holds
<1> QED BY <1>1, <1>3, <1>5, OwnStep

\* Get returns and forgets.
LEMMA GetReturnSound ==
    ASSUME IInv, IInv', GInv, NEW g \in Goroutines, GetReturn(g)
    PROVE  GInv'
<1>1. /\ call' = [call EXCEPT ![g] = Idle]
      /\ UNCHANGED <<data, heap, now>>
      /\ seen' = [seen EXCEPT ![g] = {}]
  BY DEF GetReturn
<1>2. /\ call'[g].pc = "idle" /\ seen'[g] = {}
      /\ \A h \in Goroutines \ {g} : call'[h] = call[h] /\ seen'[h] = seen[h]
  BY <1>1 DEF IInv, TypeOK, Idle
<1>3. GetSound(g)'
  BY <1>2 DEF GetSound, Holds
<1> QED BY <1>1, <1>2, <1>3, OwnStep

-----------------------------------------------------------------------------
(* Steps by which keys leave the map, or nothing happens to it.            *)

\* No caller moves, the clock may; keys may leave the map.
LEMMA NobodyMoves ==
    ASSUME IInv, IInv', GInv, UNCHANGED <<call, seen>>, now <= now',
           heap' = heap \/ heap' = Collected(heap, data', call),
           data' = data \/ BeingWritten = {}
    PROVE  GInv'
<1>1. {} \in SUBSET Goroutines
  OBVIOUS
<1>2. \A i \in DOMAIN heap' : i \in DOMAIN heap /\ heap'[i] = heap[i]
  BY CollectedIsQuiet
<1> QED BY <1>1, <1>2, QuietStep

\* Delete's locked part.
LEMMA DeleteLockedQuiet ==
    ASSUME IInv, NEW k \in Keys, DeleteLocked(k)
    PROVE  /\ heap' = heap \/ heap' = Collected(heap, data', call)
           /\ BeingWritten = {}
BY WriterKeys DEF DeleteLocked, IInv

\* A round of the eviction loop.
LEMMA EvictOneSound ==
    ASSUME IInv, IInv', GInv, NEW g \in Goroutines, EvictOne(g)
    PROVE  GInv'
<1>1. BeingWritten = {}
  BY WriterKeys DEF EvictOne, IInv
<1>2. now <= now'
  BY DEF EvictOne, IInv, TypeOK
<1>3. UNCHANGED <<call, seen>> /\ heap' = Collected(heap, data', call)
  BY DEF EvictOne
<1> QED BY <1>1, <1>2, <1>3, NobodyMoves

\* Giving up evicting, and being done.
LEMMA SetLeavesSound ==
    ASSUME IInv, IInv', GInv, NEW g \in Goroutines, EvictStop(g) \/ SetDone(g)
    PROVE  GInv'
<1>1. /\ call[g].pc = "evict"
      /\ call' = [call EXCEPT ![g] = Idle]
      /\ UNCHANGED <<data, heap, now, seen>>
  BY DEF EvictStop, SetDone
<1>2. /\ call'[g].pc = "idle"
      /\ \A h \in Goroutines \ {g} : call'[h] = call[h]
  BY <1>1 DEF IInv, TypeOK, Idle
<1>3. GetSound(g)'
  BY <1>1, <1>2 DEF GInv, GetSound, Holds
<1> QED BY <1>1, <1>2, <1>3, OwnStep

-----------------------------------------------------------------------------
(* Steps that write an item.                                               *)

\* GetTouch writes nothing that another Get answers with.
LEMMA GetTouchSound ==
    ASSUME IInv, IInv', GInv, NEW g \in Goroutines, GetTouch(g)
    PROVE  GInv'
<1> DEFINE i == call[g].item
<1>1. /\ call[g].pc = "touch" /\ mu = NoGoroutine
      /\ call' = [call EXCEPT ![g].pc = "count"]
      /\ heap' = [heap EXCEPT ![i].accessAt = now, ![i].accessCount = @ + 1]
      /\ UNCHANGED <<data, mu, now, seen>>
  BY DEF GetTouch
<1>2. Holds(call, g) /\ call[g] \in HoldingFrames
  BY <1>1, FrameKinds DEF Holds, IInv, TypeOK
<1>3. /\ call'[g].pc = "count" /\ call'[g].item = i
      /\ \A h \in Goroutines \ {g} : call'[h] = call[h]
  BY <1>1, <1>2, HoldingFrameMoves DEF IInv, TypeOK
<1>4. \A h \in Goroutines : call[h].pc # "write" /\ call'[h].pc # "write"
  BY <1>1, <1>3, CallersAssumption DEF IInv, LockHeld
<1>5. /\ DOMAIN heap' = DOMAIN heap
      /\ \A j \in DOMAIN heap : /\ heap'[j].payload = heap[j].payload
                                /\ heap'[j].packed = heap[j].packed
                                /\ heap'[j].size = heap[j].size
                                /\ heap'[j].expireAt = heap[j].expireAt
  BY <1>1 DEF IInv, TypeOK, CacheItem
<1>6. ASSUME NEW h \in Goroutines, Holds(call, h),
             NEW v \in Versions(call[h].item)'
      PROVE  Witnessed(seen[h], v)'
  <2> DEFINE j == call[h].item
             u == heap[j]
  <2>1. j \in DOMAIN heap /\ call'[h].item = j
    BY <1>3, <1>6 DEF IInv, ItemIdentity, Reachable
  <2>2. v = heap'[j]
    BY <1>4, <2>1 DEF Versions
  <2>3. u \in Versions(j)
    BY DEF Versions
  <2>4. u.expireAt \in Nat /\ Witnessed(seen[h], u)
    BY <1>6, <2>3, VersionProperties
  <2>5. v.payload = u.payload /\ v.expireAt = u.expireAt
    BY <1>5, <2>1, <2>2
  <2>6. now \in Nat /\ now' \in Nat /\ now <= now' /\ seen'[h] = seen[h]
    BY <1>1 DEF IInv, TypeOK
  <2> HIDE DEF u
  <2> QED BY <2>4, <2>5, <2>6, StaysWitnessed
<1>7. GetSound(g)'
  <2>1. \A v \in Versions(call[g].item)' : Witnessed(seen[g], v)'
    BY <1>2, <1>6
  <2>2. \E f \in seen[g] : f.live
    BY <1>1 DEF GInv, GetSound
  <2> QED BY <1>1, <1>3, <2>1, <2>2 DEF GetSound, Holds
<1>8. ASSUME NEW h \in Goroutines \ {g} PROVE GetSound(h)'
  BY <1>1, <1>3, <1>6, ClockStands, Undisturbed DEF GInv
<1>9. ItemsDerived'
  BY <1>1, <1>3, <1>5 DEF GInv, ItemsDerived, Derived
<1> QED BY <1>7, <1>8, <1>9 DEF GInv

\* Shown gives the Gets of a key a witness, and takes none from any.
LEMMA ShownProperties ==
    ASSUME IInv, IInv', NEW k, NEW f, f.expireAt \in Nat, seen' = Shown(k, f),
           now' = now, NEW h \in Goroutines
    PROVE  /\ seen[h] \subseteq seen'[h]
           /\ seen'[h] = seen[h] \/ Holds(call, h)
           /\ Holds(call, h) /\ call[h].key = k => Witnessed(seen[h], f)'
<1>1. seen'[h] = IF Holds(call, h) /\ call[h].key = k THEN seen[h] \cup {Sight(f)}
                                                      ELSE seen[h]
  BY DEF Shown
<1>2. ASSUME Holds(call, h), call[h].key = k PROVE Witnessed(seen[h], f)'
  <2>1. Witnessed(seen'[h], f)
    BY <1>1, <1>2, ShownIsWitnessed
  <2>2. now \in Nat /\ now' \in Nat /\ now <= now'
    BY DEF IInv, TypeOK
  <2> QED BY <2>1, <2>2, StaysWitnessed
<1> QED BY <1>1, <1>2

\* A Get that holds the item which is about to be written is shown the value.
LEMMA SetOverwriteSound ==
    ASSUME IInv, IInv', GInv, NEW g \in Goroutines, SetOverwrite(g)
    PROVE  GInv'
<1> DEFINE k == call[g].key
           new == call[g].new
<1>1. /\ call[g].pc = "lock" /\ mu = NoGoroutine /\ k \in DOMAIN data
      /\ call' = [call EXCEPT ![g].pc = "write"]
      /\ UNCHANGED <<data, heap, now>>
      /\ seen' = Shown(k, new)
  BY DEF SetOverwrite
<1>2. call[g] \in SetFrames
  BY <1>1, FrameKinds DEF IInv, TypeOK
<1>3. /\ call'[g].pc = "write" /\ call'[g].key = k /\ call'[g].new = new
      /\ \A h \in Goroutines \ {g} : call'[h] = call[h]
  BY <1>1, <1>2, SetFrameMoves DEF IInv, TypeOK
<1>4. \A h \in Goroutines : call[h].pc # "write" /\ (call'[h].pc = "write" => h = g)
  BY <1>1, <1>3, CallersAssumption DEF IInv, LockHeld
<1>5. new.expireAt \in Nat
  BY <1>2 DEF SetFrames, Fields
<1>6. ASSUME NEW h \in Goroutines \ {g} PROVE GetSound(h)'
  <2>1. /\ seen[h] \subseteq seen'[h]
        /\ seen'[h] = seen[h] \/ Holds(call, h)
        /\ Holds(call, h) /\ call[h].key = k => Witnessed(seen[h], new)'
    BY <1>1, <1>5, ShownProperties
  <2>2. ASSUME Holds(call, h), NEW v \in Versions(call[h].item)'
        PROVE  Witnessed(seen[h], v)'
    <3> DEFINE i == call[h].item
    <3>1. v = heap[i] \/ (v = new /\ data[k] = i)
      BY <1>1, <1>3, <1>4 DEF Versions
    <3>2. CASE v = heap[i]
      <4>1. v \in Versions(i)
        BY <3>2 DEF Versions
      <4>2. v.expireAt \in Nat /\ Witnessed(seen[h], v)
        BY <2>2, <4>1, VersionProperties
      <4>3. now \in Nat /\ now' \in Nat /\ now <= now'
        BY <1>1 DEF IInv, TypeOK
      <4> QED BY <2>1, <4>2, <4>3, StaysWitnessed
    <3>3. CASE v = new /\ data[k] = i
      <4>1. call[h].key = k
        BY <1>1, <2>2, <3>3 DEF IInv, ItemIdentity
      <4> QED BY <1>3, <2>1, <2>2, <3>3, <4>1
    <3> QED BY <3>1, <3>2, <3>3
  <2>3. GetSound(h)
    BY DEF GInv
  <2> QED BY <1>1, <1>3, <2>1, <2>2, <2>3, ClockStands, Undisturbed
<1>7. GetSound(g)'
  <2>1. seen[g] = {} /\ ~Holds(call, g)
    BY <1>1 DEF GInv, GetSound, Holds
  <2>2. seen'[g] = {}
    BY <1>1, <2>1 DEF Shown
  <2> QED BY <1>3, <2>2 DEF GetSound, Holds
<1>8. ItemsDerived'
  BY <1>1, <1>3 DEF GInv, ItemsDerived
<1> QED BY <1>6, <1>7, <1>8 DEF GInv

\* What the item becomes has been shown before.
LEMMA SetInstallSound ==
    ASSUME IInv, IInv', GInv, NEW g \in Goroutines, SetInstall(g)
    PROVE  GInv'
<1> DEFINE k == call[g].key
           new == call[g].new
<1>1. /\ call[g].pc = "write"
      /\ call' = [call EXCEPT ![g].pc = "evict"]
      /\ UNCHANGED <<data, now, seen>>
      /\ heap' = [heap EXCEPT ![data[k]] =
                    [payload |-> new.payload, packed |-> new.packed,
                     size |-> new.size, expireAt |-> new.expireAt,
                     accessAt |-> new.accessAt,
                     createdAt |-> heap[data[k]].createdAt,
                     accessCount |-> heap[data[k]].accessCount]]
  BY DEF SetInstall
<1>2. call[g] \in SetFrames
  BY <1>1, FrameKinds DEF IInv, TypeOK
<1>3. /\ call'[g].pc = "evict" /\ call'[g].new = new
      /\ \A h \in Goroutines \ {g} : call'[h] = call[h]
  BY <1>1, <1>2, SetFrameMoves DEF IInv, TypeOK
<1>4. \A h \in Goroutines : call'[h].pc # "write" /\ (call[h].pc = "write" => h = g)
  BY <1>1, <1>3, CallersAssumption DEF IInv, LockHeld
<1>5. /\ DOMAIN heap' = DOMAIN heap
      /\ \A i \in DOMAIN heap :
            LET from == IF i = data[k] THEN new ELSE heap[i]
            IN  /\ heap'[i].payload = from.payload
                /\ heap'[i].packed = from.packed
                /\ heap'[i].size = from.size
                /\ heap'[i].expireAt = from.expireAt
  BY <1>1 DEF IInv, TypeOK
<1>6. ASSUME NEW h \in Goroutines \ {g} PROVE GetSound(h)'
  <2>1. ASSUME Holds(call, h), NEW v \in Versions(call[h].item)'
        PROVE  Witnessed(seen[h], v)'
    <3> DEFINE i == call[h].item
               u == IF i = data[k] THEN new ELSE heap[i]
    <3>1. i \in DOMAIN heap
      BY <2>1 DEF IInv, ItemIdentity, Reachable
    <3>2. v = heap'[i]
      BY <1>3, <1>4 DEF Versions
    <3>3. u \in Versions(i)
      BY <1>1 DEF Versions
    <3>4. u.expireAt \in Nat /\ Witnessed(seen[h], u)
      BY <2>1, <3>3, VersionProperties
    <3>5. v.payload = u.payload /\ v.expireAt = u.expireAt
      BY <1>5, <3>1, <3>2
    <3>6. now \in Nat /\ now' \in Nat /\ now <= now' /\ seen'[h] = seen[h]
      BY <1>1 DEF IInv, TypeOK
    <3> HIDE DEF u
    <3> QED BY <3>4, <3>5, <3>6, StaysWitnessed
  <2>2. GetSound(h)
    BY DEF GInv
  <2> QED BY <1>1, <1>3, <2>1, <2>2, ClockStands, Undisturbed
<1>7. GetSound(g)'
  <2>1. seen'[g] = {}
    BY <1>1 DEF GInv, GetSound
  <2> QED BY <1>3, <2>1 DEF GetSound, Holds
<1>8. ItemsDerived'
  <2>1. Derived(new) /\ \A i \in DOMAIN heap : Derived(heap[i])
    BY <1>1 DEF GInv, ItemsDerived
  <2>2. \A i \in DOMAIN heap' : Derived(heap'[i])
    BY <1>5, <2>1 DEF Derived
  <2>3. \A h \in Goroutines :
           call'[h].pc \in {"lock", "write", "evict"} => Derived(call'[h].new)
    BY <1>3, <2>1 DEF GInv, ItemsDerived
  <2> QED BY <2>2, <2>3 DEF ItemsDerived, Derived
<1> QED BY <1>6, <1>7, <1>8 DEF GInv

\* The new item is at an address that no Get holds.
LEMMA SetInsertSound ==
    ASSUME IInv, IInv', GInv, NEW g \in Goroutines, SetInsert(g)
    PROVE  GInv'
<1> DEFINE k == call[g].key
           new == call[g].new
           n == NewItem
           item == [payload |-> new.payload, packed |-> new.packed,
                    size |-> new.size, expireAt |-> new.expireAt,
                    accessAt |-> new.accessAt, createdAt |-> new.accessAt,
                    accessCount |-> 0]
<1>1. /\ call[g].pc = "lock" /\ mu = NoGoroutine
      /\ k \notin DOMAIN data
      /\ call' = [call EXCEPT ![g].pc = "evict"]
      /\ now' = now
      /\ seen' = Shown(k, new)
      /\ heap' = Put(heap, n, item)
  BY DEF SetInsert
<1>2. call[g] \in SetFrames
  BY <1>1, FrameKinds DEF IInv, TypeOK
<1>3. /\ call'[g].pc = "evict" /\ call'[g].new = new
      /\ \A h \in Goroutines \ {g} : call'[h] = call[h]
  BY <1>1, <1>2, SetFrameMoves DEF IInv, TypeOK
<1>4. \A h \in Goroutines : call[h].pc # "write" /\ call'[h].pc # "write"
  BY <1>1, <1>3, CallersAssumption DEF IInv, LockHeld
<1>5. new.expireAt \in Nat /\ k \in Keys
  BY <1>2 DEF SetFrames, Fields
<1>6. n \notin DOMAIN heap
  <2>1. ~Holds(call, g)
    BY <1>1 DEF Holds
  <2> QED BY <1>1, <1>5, <2>1, NewItemIsFree
<1>7. /\ DOMAIN heap' = DOMAIN heap \cup {n}
      /\ heap'[n] = item
      /\ \A i \in DOMAIN heap : heap'[i] = heap[i]
  BY <1>1, <1>6 DEF Put
<1>8. ASSUME NEW h \in Goroutines \ {g} PROVE GetSound(h)'
  <2>1. seen[h] \subseteq seen'[h] /\ (seen'[h] = seen[h] \/ Holds(call, h))
    BY <1>1, <1>5, ShownProperties
  <2>2. ASSUME Holds(call, h), NEW v \in Versions(call[h].item)'
        PROVE  Witnessed(seen[h], v)'
    <3> DEFINE i == call[h].item
    <3>1. i \in DOMAIN heap
      BY <2>2 DEF IInv, ItemIdentity, Reachable
    <3>2. v \in Versions(i)
      BY <1>3, <1>4, <1>7, <3>1 DEF Versions
    <3>3. v.expireAt \in Nat /\ Witnessed(seen[h], v)
      BY <2>2, <3>2, VersionProperties
    <3>4. now \in Nat /\ now' \in Nat /\ now <= now'
      BY <1>1 DEF IInv, TypeOK
    <3> QED BY <2>1, <3>3, <3>4, StaysWitnessed
  <2>3. GetSound(h)
    BY DEF GInv
  <2> QED BY <1>1, <1>3, <2>1, <2>2, <2>3, ClockStands, Undisturbed
<1>9. GetSound(g)'
  <2>1. seen[g] = {} /\ ~Holds(call, g)
    BY <1>1 DEF GInv, GetSound, Holds
  <2>2. seen'[g] = {}
    BY <1>1, <2>1 DEF Shown
  <2> QED BY <1>3, <2>2 DEF GetSound, Holds
<1>10. ItemsDerived'
  <2>1. Derived(new) /\ \A i \in DOMAIN heap : Derived(heap[i])
    BY <1>1 DEF GInv, ItemsDerived
  <2>2. \A i \in DOMAIN heap' : Derived(heap'[i])
    BY <1>7, <2>1 DEF Derived
  <2>3. \A h \in Goroutines :
           call'[h].pc \in {"lock", "write", "evict"} => Derived(call'[h].new)
    BY <1>3, <2>1 DEF GInv, ItemsDerived
  <2> QED BY <2>2, <2>3 DEF ItemsDerived, Derived
<1> QED BY <1>8, <1>9, <1>10 DEF GInv

-----------------------------------------------------------------------------
(* The answers.                                                            *)

\* Nobody has seen anything of a new shard.
LEMMA InitSound == ASSUME Init PROVE GInv
<1>1. /\ heap = <<>>
      /\ call = [g \in Goroutines |-> Idle]
      /\ seen = [g \in Goroutines |-> {}]
  BY DEF Init
<1>2. \A g \in Goroutines : call[g].pc = "idle" /\ seen[g] = {}
  BY <1>1 DEF Idle
<1>3. ItemsDerived
  BY <1>1, <1>2 DEF ItemsDerived
<1>4. \A g \in Goroutines : GetSound(g)
  BY <1>2 DEF GetSound, Holds
<1> QED BY <1>3, <1>4 DEF GInv

\* Every step, by action.
LEMMA NextSound == ASSUME IInv, GInv, [Next]_vars PROVE GInv'
<1>1. IInv'
  BY NextInv
<1>2. ASSUME NEW g \in Goroutines, Call(g) PROVE GInv'
  <2>1. ASSUME NEW k \in Keys, NEW v \in Values, NEW ttl \in TTLs,
               SetStart(g, k, v, ttl)
        PROVE  GInv'
    BY <1>1, <2>1, SetStartSound
  <2>2. ASSUME NEW k \in Keys, GetFound(g, k) PROVE GInv'
    BY <1>1, <2>2, GetFoundSound
  <2>3. ASSUME NEW k \in Keys, GetAbsent(g, k) PROVE GInv'
    BY <1>1, <2>3, GetAbsentSound
  <2>4. ASSUME NEW k \in Keys, Delete(g, k) PROVE GInv'
    <3>1. UNCHANGED <<call, seen>> /\ now <= now' /\ DeleteLocked(k)
      BY <2>4 DEF Delete, IInv, TypeOK
    <3> QED BY <1>1, <3>1, DeleteLockedQuiet, NobodyMoves
  <2>5. CASE Clear(g)
    <3>1. /\ UNCHANGED <<call, seen>> /\ now <= now'
          /\ heap' = Collected(heap, data', call)
          /\ BeingWritten = {}
      BY <2>5, WriterKeys DEF Clear, IInv, TypeOK
    <3> QED BY <1>1, <3>1, NobodyMoves
  <2> QED BY <1>2, <2>1, <2>2, <2>3, <2>4, <2>5 DEF Call
<1>3. ASSUME NEW g \in Goroutines, Step(g) PROVE GInv'
  <2>1. CASE SetOverwrite(g)   BY <1>1, <2>1, SetOverwriteSound
  <2>2. CASE SetInstall(g)     BY <1>1, <2>2, SetInstallSound
  <2>3. CASE SetInsert(g)      BY <1>1, <2>3, SetInsertSound
  <2>4. CASE EvictOne(g)       BY <1>1, <2>4, EvictOneSound
  <2>5. CASE EvictStop(g) \/ SetDone(g)
    BY <1>1, <2>5, SetLeavesSound
  <2>6. CASE GetExpired(g)     BY <1>1, <2>6, GetExpiredSound
  <2>7. CASE GetFresh(g)       BY <1>1, <2>7, GetFreshSound
  <2>8. CASE GetTouch(g)       BY <1>1, <2>8, GetTouchSound
  <2>9. CASE GetCountHit(g)    BY <1>1, <2>9, GetCountHitSound
  <2>10. CASE GetReadFlag(g)   BY <1>1, <2>10, GetReadFlagSound
  <2>11. CASE GetReadValue(g)  BY <1>1, <2>11, GetReadValueSound
  <2>12. CASE GetCountMiss(g)  BY <1>1, <2>12, GetCountMissSound
  <2>13. CASE GetReturn(g)     BY <1>1, <2>13, GetReturnSound
  <2> QED BY <1>3, <2>1, <2>2, <2>3, <2>4, <2>5, <2>6, <2>7, <2>8, <2>9,
             <2>10, <2>11, <2>12, <2>13 DEF Step
<1>4. ASSUME NEW k \in Keys, CleanupDelete(k) PROVE GInv'
  <2>1. UNCHANGED <<call, seen>> /\ now <= now' /\ DeleteLocked(k)
    BY <1>4 DEF CleanupDelete, IInv, TypeOK
  <2> QED BY <1>1, <2>1, DeleteLockedQuiet, NobodyMoves
<1>5. CASE Tick
  <2>1. UNCHANGED <<call, seen, heap, data>> /\ now <= now'
    BY <1>5 DEF Tick, IInv, TypeOK
  <2> QED BY <1>1, <2>1, NobodyMoves
<1>6. CASE UNCHANGED vars
  <2>1. UNCHANGED <<call, seen, heap, data>> /\ now <= now'
    BY <1>6 DEF vars, IInv, TypeOK
  <2> QED BY <1>1, <2>1, NobodyMoves
<1> QED BY <1>2, <1>3, <1>4, <1>5, <1>6 DEF Next, Finished

\* Every state of a shard satisfies the invariant.
THEOREM GetsAreSound == Spec => []GInv
<1>1. Init => GInv
  BY InitSound
<1>2. IInv /\ GInv /\ [Next]_vars => GInv'
  BY NextSound
<1> QED BY <1>1, <1>2, Invariance, PTL DEF Spec

\* A value that a Get returns was bound to its key at some moment of the call,
\* although the item is read without the lock, when it may have been overwritten
\* or have left the map.
THEOREM AnswersAreCurrent == Spec => []HitIsCurrent
<1>1. GInv => HitIsCurrent
  BY DEF GInv, GetSound, HitIsCurrent
<1> QED BY <1>1, GetsAreSound, PTL

\* A Get returns mangled bytes, or fails to decompress, only if a Set of another
\* value to its key overlapped it.
THEOREM MangledOnlyByRaces == Spec => []CorruptOnlyIfOverwritten
<1>1. GInv => CorruptOnlyIfOverwritten
  BY DEF GInv, GetSound, CorruptOnlyIfOverwritten
<1> QED BY <1>1, GetsAreSound, PTL

\* A Get that hits saw its key unexpired during the call.
THEOREM HitsAreLive == Spec => []HitIsLive
<1>1. GInv => HitIsLive
  BY DEF GInv, GetSound, HitIsLive
<1> QED BY <1>1, GetsAreSound, PTL

\* A Get that found its key reports it missing only if the item has expired, or a
\* Set took its TTL away, or gave it one, during the call.
THEOREM MissesAreJustified == Spec => []MissIsJustified
<1>1. GInv => MissIsJustified
  BY DEF GInv, GetSound, Justified, MissIsJustified, MissesFound
<1> QED BY <1>1, GetsAreSound, PTL
=============================================================================
