----------------------------- MODULE CacheShard -----------------------------
(***************************************************************************)
(* One shard of the cache (shard.go): a map guarded by a read-write mutex, *)
(* its eviction list, its byte and item counts, and its statistics, used   *)
(* by several goroutines at once.                                          *)
(*                                                                         *)
(* A method is cut where another goroutine can see or change what it uses: *)
(* Set stamps its item before it takes the lock, overwrites an existing    *)
(* item in place, and evicts one item at a time; Get looks its item up     *)
(* under the lock and goes on using the pointer after it has let go of it. *)
(* Delete and Clear do nothing outside the lock and are one step each.     *)
(*                                                                         *)
(* heap holds the CacheItems that are reachable: from the map, or from a   *)
(* Get that still has the pointer.  An item keeps its identity when its    *)
(* value is overwritten, and outlives its removal from the map for as long *)
(* as a Get holds it.                                                      *)
(*                                                                         *)
(* A definition marked "Fault:" is not part of the model (EvictionLists).  *)
(***************************************************************************)
EXTENDS EvictionLists, ByteCount

CONSTANTS
    Goroutines,     \* the callers
    NoGoroutine,    \* the lock has no writer
    Items,          \* addresses of cache items
    Values,         \* the values callers store
    RawLen,         \* bytes of a value as given to Set
    PackedLen,      \* bytes of a value after Compress
    CompressSize,   \* only values longer than this are compressed
    MaxSize,        \* the shard's memory limit; none when not positive
    TTLs,           \* the TTLs callers give
    Corrupt,        \* a Get's answer that is no value: mangled bytes, or an error
    Missing,        \* ErrKeyNotFound
    MaxNow,         \* bound on the clock
    MaxOps          \* bound on the number of calls

NoExpiry == 0       \* the zero time.Time, before every clock reading

ASSUME CallersAssumption ==
    /\ NoGoroutine \notin Goroutines
    /\ IsFiniteSet(Goroutines) /\ IsFiniteSet(Keys) /\ IsFiniteSet(Items)

\* Allocation never fails: an address is free whenever Set needs one.
ASSUME HeapAssumption ==
    Cardinality(Items) >= Cardinality(Keys) + Cardinality(Goroutines)

ASSUME SizesAssumption ==
    /\ RawLen \in [Values -> Nat]
    /\ PackedLen \in [Values -> Nat]
    /\ CompressSize \in Int
    /\ MaxSize \in Int

ASSUME AnswersAssumption ==
    Corrupt # Missing /\ {Corrupt, Missing} \cap Values = {}

ASSUME ClockAssumption == TTLs \subseteq Int /\ MaxNow \in Nat /\ MaxOps \in Nat

VARIABLES
    data,           \* the map: key -> item address
    heap,           \* the reachable items: address -> CacheItem
    evictionList,
    currentSize,
    currentCount,
    mu,             \* the writer holding s.mu, or NoGoroutine
    stats,
    cleanups,       \* key -> goroutines started by `go s.Delete(key)`
    call,           \* goroutine -> the call it is in, and its local variables
    now,            \* the clock
    ops,            \* calls started so far
    seen            \* history: goroutine -> what its Get could have returned

vars == <<data, heap, evictionList, currentSize, currentCount, mu, stats,
          cleanups, call, now, ops, seen>>

-----------------------------------------------------------------------------
(* Values of the variables.                                                *)

\* What Set computes before it takes the lock.
Fields == [payload : Values, packed : BOOLEAN, size : Nat,
           expireAt : Nat, accessAt : Nat]

CacheItem == [payload : Values, packed : BOOLEAN, size : Nat,
              expireAt : Nat, accessAt : Nat, createdAt : Nat,
              accessCount : Nat]

Stats == [hits : Nat, misses : Nat, evictions : Nat]

Idle == [pc |-> "idle"]

SetFrames == [pc : {"lock", "write", "evict"}, key : Keys, new : Fields]

HoldingFrames == [pc : {"check", "touch", "count", "flag"},
                  key : Keys, item : Items]

ReadFrames == [pc : {"value"}, key : Keys, item : Items, packed : BOOLEAN]

Answers == Values \cup {Corrupt, Missing}

AnswerFrames == [pc : {"miss", "answer"}, key : Keys, result : Answers]

Frames == {Idle} \cup SetFrames \cup HoldingFrames \cup ReadFrames
                 \cup AnswerFrames

\* A binding of a key that a Get of it could return: the value, when it expires,
\* and whether it was alive when the Get met it.
Sighting == [payload : Values, expireAt : Nat, live : BOOLEAN]

TypeOK ==
    /\ DOMAIN data \in SUBSET Keys
    /\ data \in [DOMAIN data -> Items]
    /\ DOMAIN heap \in SUBSET Items
    /\ heap \in [DOMAIN heap -> CacheItem]
    /\ IsListType(evictionList)
    /\ currentSize \in Int
    /\ currentCount \in Int
    /\ mu \in Goroutines \cup {NoGoroutine}
    /\ stats \in Stats
    /\ cleanups \in [Keys -> Nat]
    /\ call \in [Goroutines -> Frames]
    /\ now \in Nat
    /\ ops \in Nat
    /\ seen \in [Goroutines -> SUBSET Sighting]

-----------------------------------------------------------------------------
(* Helpers.                                                                *)

Holds(c, g) == c[g].pc \in {"check", "touch", "count", "flag", "value"}

\* The items the garbage collector keeps.
Reachable(d, c) ==
    {d[k] : k \in DOMAIN d} \cup {c[g].item : g \in {h \in Goroutines : Holds(c, h)}}

Collected(h, d, c) == [i \in DOMAIN h \cap Reachable(d, c) |-> h[i]]

\* Fault: an item that left the map is used again while a Get still has it.
PooledItem == CHOOSE i \in Items : \A k \in DOMAIN data : data[k] # i

\* The address of a new item.
NewItem == CHOOSE i \in Items : i \notin DOMAIN heap

Expired(item) == item.expireAt # NoExpiry /\ now > item.expireAt

\* Fault: items are counted where bytes are meant.
TooMany == MaxSize > 0 /\ currentCount > MaxSize

OverLimit == MaxSize > 0 /\ currentSize > MaxSize

\* Compress is tried above the threshold and kept when it saves bytes.
Prepared(v, ttl) ==
    LET packed == RawLen[v] > CompressSize /\ PackedLen[v] < RawLen[v]
    IN  [payload  |-> v,
         packed   |-> packed,
         size     |-> IF packed THEN PackedLen[v] ELSE RawLen[v],
         expireAt |-> IF ttl > 0 THEN now + ttl ELSE NoExpiry,
         accessAt |-> now]

\* What an unlocked read of the fields of item i may find.  While a Set writes
\* them, every read of every word finds the old or the new contents.
Versions(i) ==
    {heap[i]} \cup
    {call[g].new : g \in {h \in Goroutines : /\ call[h].pc = "write"
                                             /\ data[call[h].key] = i}}

\* Fault: what is not compressed is decompressed.
DecodedInverted(p, n, packed) ==
    IF p.packed # packed /\ p.size = n.size THEN p.payload ELSE Corrupt

\* The answer from the data pointer of version p, the length of version n, and
\* the Compressed flag as it was read: decompressing raw bytes fails, returning
\* compressed ones, or a slice cut or overrun by a foreign length, mangles.
Decoded(p, n, packed) ==
    IF p.packed = packed /\ p.size = n.size THEN p.payload ELSE Corrupt

Sight(f) == [payload |-> f.payload, expireAt |-> f.expireAt,
             live |-> ~Expired(f)]

\* A Set of key k shows its value to the Gets that have found k.
Shown(k, f) ==
    [g \in Goroutines |->
        IF Holds(call, g) /\ call[g].key = k THEN seen[g] \cup {Sight(f)}
                                             ELSE seen[g]]

Init ==
    /\ data = <<>>
    /\ heap = <<>>
    /\ evictionList = ListNew
    /\ currentSize = 0
    /\ currentCount = 0
    /\ mu = NoGoroutine
    /\ stats = [hits |-> 0, misses |-> 0, evictions |-> 0]
    /\ cleanups = [k \in Keys |-> 0]
    /\ call = [g \in Goroutines |-> Idle]
    /\ now = 1
    /\ ops = 0
    /\ seen = [g \in Goroutines |-> {}]

Start(g) ==
    /\ call[g] = Idle
    /\ ops < MaxOps
    /\ ops' = ops + 1

-----------------------------------------------------------------------------
(* Set.                                                                    *)

\* Before the lock: read the clock, compress, compute the expiry.
SetStart(g, k, v, ttl) ==
    /\ Start(g)
    /\ call' = [call EXCEPT ![g] = [pc |-> "lock", key |-> k,
                                    new |-> Prepared(v, ttl)]]
    /\ UNCHANGED <<data, heap, evictionList, currentSize, currentCount, mu,
                   stats, cleanups, now, seen>>

\* Fault: the bytes of the old value are not given back.
SetOverwriteLeaks(g) ==
    /\ call[g].pc = "lock"
    /\ mu = NoGoroutine
    /\ call[g].key \in DOMAIN data
    /\ evictionList' \in ListRemove(evictionList, call[g].key)
    /\ seen' = Shown(call[g].key, call[g].new)
    /\ mu' = g
    /\ call' = [call EXCEPT ![g].pc = "write"]
    /\ UNCHANGED <<data, heap, currentSize, currentCount, stats, cleanups, now,
                   ops>>

\* The key exists: lock, take its item out of the accounts and of the list.
SetOverwrite(g) ==
    /\ call[g].pc = "lock"
    /\ mu = NoGoroutine
    /\ call[g].key \in DOMAIN data
    /\ LET k == call[g].key
       IN  /\ currentSize' = currentSize - heap[data[k]].size
           /\ evictionList' \in ListRemove(evictionList, k)
           /\ seen' = Shown(k, call[g].new)
    /\ mu' = g
    /\ call' = [call EXCEPT ![g].pc = "write"]
    /\ UNCHANGED <<data, heap, currentCount, stats, cleanups, now, ops>>

\* Write the item in place.  It keeps its AccessCount and CreatedAt.
SetInstall(g) ==
    /\ call[g].pc = "write"
    /\ LET k == call[g].key
           new == call[g].new
           old == heap[data[k]]
       IN  /\ heap' = [heap EXCEPT ![data[k]] =
                          [payload |-> new.payload, packed |-> new.packed,
                           size |-> new.size, expireAt |-> new.expireAt,
                           accessAt |-> new.accessAt,
                           createdAt |-> old.createdAt,
                           accessCount |-> old.accessCount]]
           /\ currentSize' = currentSize + new.size
           /\ evictionList' \in ListAdd(evictionList, k, old.accessCount, now)
    /\ call' = [call EXCEPT ![g].pc = "evict"]
    /\ UNCHANGED <<data, currentCount, mu, stats, cleanups, now, ops, seen>>

\* The key is new: lock, make an item, enter it in the map and in the list.
SetInsert(g) ==
    /\ call[g].pc = "lock"
    /\ mu = NoGoroutine
    /\ call[g].key \notin DOMAIN data
    /\ LET k == call[g].key
           new == call[g].new
       IN  /\ data' = Put(data, k, NewItem)
           /\ heap' = Put(heap, NewItem,
                          [payload |-> new.payload, packed |-> new.packed,
                           size |-> new.size, expireAt |-> new.expireAt,
                           accessAt |-> new.accessAt,
                           createdAt |-> new.accessAt,
                           accessCount |-> 0])
           /\ currentSize' = currentSize + new.size
           /\ currentCount' = currentCount + 1
           /\ evictionList' \in ListAdd(evictionList, k, 0, now)
           /\ seen' = Shown(k, new)
    /\ mu' = g
    /\ call' = [call EXCEPT ![g].pc = "evict"]
    /\ UNCHANGED <<stats, cleanups, now, ops>>

\* One round of evictIfNeeded whose evictOne evicts.
EvictOne(g) ==
    /\ call[g].pc = "evict"
    /\ OverLimit
    /\ LET k == Victim(evictionList)
       IN  /\ k # NoKey
           /\ k \in DOMAIN data
           /\ evictionList' \in RemoveLeast(evictionList)
           /\ data' = Drop(data, k)
           /\ heap' = Collected(heap, data', call)
           /\ currentSize' = currentSize - heap[data[k]].size
    /\ currentCount' = currentCount - 1
    /\ stats' = [stats EXCEPT !.evictions = @ + 1]
    /\ UNCHANGED <<mu, cleanups, call, now, ops, seen>>

\* One whose evictOne returns false: RemoveLeast names no key, or one that is
\* not in the map.  The loop ends, over the limit, and Set returns.
EvictStop(g) ==
    /\ call[g].pc = "evict"
    /\ OverLimit
    /\ \/ Victim(evictionList) = NoKey
       \/ Victim(evictionList) \notin DOMAIN data
    /\ evictionList' \in RemoveLeast(evictionList)
    /\ mu' = NoGoroutine
    /\ call' = [call EXCEPT ![g] = Idle]
    /\ UNCHANGED <<data, heap, currentSize, currentCount, stats, cleanups,
                   now, ops, seen>>

\* Fault: Set returns without Unlock.
SetDoneLocked(g) ==
    /\ call[g].pc = "evict"
    /\ ~OverLimit
    /\ call' = [call EXCEPT ![g] = Idle]
    /\ UNCHANGED <<data, heap, evictionList, currentSize, currentCount, mu, stats,
                   cleanups, now, ops, seen>>

\* Fault: Set returns after any number of evictions.
SetDoneEarly(g) ==
    /\ call[g].pc = "evict"
    /\ mu' = NoGoroutine
    /\ call' = [call EXCEPT ![g] = Idle]
    /\ UNCHANGED <<data, heap, evictionList, currentSize, currentCount, stats,
                   cleanups, now, ops, seen>>

\* Within the limit: unlock and return.
SetDone(g) ==
    /\ call[g].pc = "evict"
    /\ ~OverLimit
    /\ mu' = NoGoroutine
    /\ call' = [call EXCEPT ![g] = Idle]
    /\ UNCHANGED <<data, heap, evictionList, currentSize, currentCount, stats,
                   cleanups, now, ops, seen>>

-----------------------------------------------------------------------------
(* Get.                                                                    *)

\* Look the key up under the read lock, which waits for writers only.
GetFound(g, k) ==
    /\ Start(g)
    /\ mu = NoGoroutine
    /\ k \in DOMAIN data
    /\ call' = [call EXCEPT ![g] = [pc |-> "check", key |-> k,
                                    item |-> data[k]]]
    /\ seen' = [seen EXCEPT ![g] = {Sight(heap[data[k]])}]
    /\ UNCHANGED <<data, heap, evictionList, currentSize, currentCount, mu,
                   stats, cleanups, now>>

GetAbsent(g, k) ==
    /\ Start(g)
    /\ mu = NoGoroutine
    /\ k \notin DOMAIN data
    /\ call' = [call EXCEPT ![g] = [pc |-> "miss", key |-> k,
                                    result |-> Missing]]
    /\ UNCHANGED <<data, heap, evictionList, currentSize, currentCount, mu,
                   stats, cleanups, now, seen>>

\* Fault: the zero time is taken for a time long past.
GetExpiredZero(g) ==
    /\ call[g].pc = "check"
    /\ \E a \in Versions(call[g].item) : now > a.expireAt
    /\ cleanups' = [cleanups EXCEPT ![call[g].key] = @ + 1]
    /\ call' = [call EXCEPT ![g] = [pc |-> "miss", key |-> call[g].key,
                                    result |-> Missing]]
    /\ heap' = Collected(heap, data, call')
    /\ UNCHANGED <<data, evictionList, currentSize, currentCount, mu, stats,
                   now, ops, seen>>

\* Fault: nothing is started to remove the expired item.
GetExpiredKept(g) ==
    /\ call[g].pc = "check"
    /\ \E a, b \in Versions(call[g].item) :
          a.expireAt # NoExpiry /\ now > b.expireAt
    /\ call' = [call EXCEPT ![g] = [pc |-> "miss", key |-> call[g].key,
                                    result |-> Missing]]
    /\ heap' = Collected(heap, data, call')
    /\ UNCHANGED <<data, evictionList, currentSize, currentCount, mu, stats,
                   cleanups, now, ops, seen>>

\* IsZero and After each read ExpireAt, without the lock.  After(zero) holds.
GetExpired(g) ==
    /\ call[g].pc = "check"
    /\ \E a, b \in Versions(call[g].item) :
          a.expireAt # NoExpiry /\ now > b.expireAt
    /\ cleanups' = [cleanups EXCEPT ![call[g].key] = @ + 1]
    /\ call' = [call EXCEPT ![g] = [pc |-> "miss", key |-> call[g].key,
                                    result |-> Missing]]
    /\ heap' = Collected(heap, data, call')
    /\ UNCHANGED <<data, evictionList, currentSize, currentCount, mu, stats,
                   now, ops, seen>>

\* Fault: the expiry is not looked at.
GetUnchecked(g) ==
    /\ call[g].pc = "check"
    /\ call' = [call EXCEPT ![g].pc = "touch"]
    /\ UNCHANGED <<data, heap, evictionList, currentSize, currentCount, mu,
                   stats, cleanups, now, ops, seen>>

GetFresh(g) ==
    /\ call[g].pc = "check"
    /\ \E a, b \in Versions(call[g].item) :
          a.expireAt = NoExpiry \/ now <= b.expireAt
    /\ call' = [call EXCEPT ![g].pc = "touch"]
    /\ UNCHANGED <<data, heap, evictionList, currentSize, currentCount, mu,
                   stats, cleanups, now, ops, seen>>

\* Lock, count the access on the item at hand, and move the key in the list:
\* by now the map may hold another item for the key, or none.
GetTouch(g) ==
    /\ call[g].pc = "touch"
    /\ mu = NoGoroutine
    /\ LET i == call[g].item
       IN  /\ heap' = [heap EXCEPT ![i].accessAt = now,
                                   ![i].accessCount = @ + 1]
           /\ evictionList' \in ListUpdate(evictionList, call[g].key,
                                           heap[i].accessCount + 1, now)
    /\ call' = [call EXCEPT ![g].pc = "count"]
    /\ UNCHANGED <<data, currentSize, currentCount, mu, stats, cleanups, now,
                   ops, seen>>

GetCountHit(g) ==
    /\ call[g].pc = "count"
    /\ stats' = [stats EXCEPT !.hits = @ + 1]
    /\ call' = [call EXCEPT ![g].pc = "flag"]
    /\ UNCHANGED <<data, heap, evictionList, currentSize, currentCount, mu,
                   cleanups, now, ops, seen>>

\* Read item.Compressed, then item.Value (a pointer and a length), unlocked.
GetReadFlag(g) ==
    /\ call[g].pc = "flag"
    /\ \E a \in Versions(call[g].item) :
          call' = [call EXCEPT ![g] = [pc |-> "value", key |-> call[g].key,
                                       item |-> call[g].item,
                                       packed |-> a.packed]]
    /\ UNCHANGED <<data, heap, evictionList, currentSize, currentCount, mu,
                   stats, cleanups, now, ops, seen>>

GetReadValue(g) ==
    /\ call[g].pc = "value"
    /\ \E p, n \in Versions(call[g].item) :
          call' = [call EXCEPT ![g] =
                      [pc |-> "answer", key |-> call[g].key,
                       result |-> Decoded(p, n, call[g].packed)]]
    /\ heap' = Collected(heap, data, call')
    /\ UNCHANGED <<data, evictionList, currentSize, currentCount, mu, stats,
                   cleanups, now, ops, seen>>

GetCountMiss(g) ==
    /\ call[g].pc = "miss"
    /\ stats' = [stats EXCEPT !.misses = @ + 1]
    /\ call' = [call EXCEPT ![g].pc = "answer"]
    /\ UNCHANGED <<data, heap, evictionList, currentSize, currentCount, mu,
                   cleanups, now, ops, seen>>

GetReturn(g) ==
    /\ call[g].pc = "answer"
    /\ call' = [call EXCEPT ![g] = Idle]
    /\ seen' = [seen EXCEPT ![g] = {}]
    /\ UNCHANGED <<data, heap, evictionList, currentSize, currentCount, mu,
                   stats, cleanups, now, ops>>

-----------------------------------------------------------------------------
(* Delete, by a caller or by a cleanup goroutine, and Clear.               *)

\* Fault: the count goes down before the key is looked up.
DeleteCountsFirst(k) ==
    /\ mu = NoGoroutine
    /\ currentCount' = currentCount - 1
    /\ IF k \in DOMAIN data
       THEN /\ data' = Drop(data, k)
            /\ heap' = Collected(heap, data', call)
            /\ currentSize' = currentSize - heap[data[k]].size
            /\ evictionList' \in ListRemove(evictionList, k)
       ELSE UNCHANGED <<data, heap, currentSize, evictionList>>

DeleteLocked(k) ==
    /\ mu = NoGoroutine
    /\ IF k \in DOMAIN data
       THEN /\ data' = Drop(data, k)
            /\ heap' = Collected(heap, data', call)
            /\ currentSize' = currentSize - heap[data[k]].size
            /\ currentCount' = currentCount - 1
            /\ evictionList' \in ListRemove(evictionList, k)
       ELSE UNCHANGED <<data, heap, currentSize, currentCount, evictionList>>

Delete(g, k) ==
    /\ Start(g)
    /\ DeleteLocked(k)
    /\ UNCHANGED <<mu, stats, cleanups, call, now, seen>>

\* Fault: a cleanup does not wait for the lock (TryLock).
CleanupDeleteTries(k) ==
    /\ cleanups[k] > 0
    /\ IF mu = NoGoroutine
       THEN DeleteLocked(k)
       ELSE UNCHANGED <<data, heap, currentSize, currentCount, evictionList>>
    /\ cleanups' = [cleanups EXCEPT ![k] = @ - 1]
    /\ UNCHANGED <<mu, stats, call, now, ops, seen>>

CleanupDelete(k) ==
    /\ cleanups[k] > 0
    /\ DeleteLocked(k)
    /\ cleanups' = [cleanups EXCEPT ![k] = @ - 1]
    /\ UNCHANGED <<mu, stats, call, now, ops, seen>>

Clear(g) ==
    /\ Start(g)
    /\ mu = NoGoroutine
    /\ data' = <<>>
    /\ heap' = Collected(heap, data', call)
    /\ evictionList' = ListNew
    /\ currentSize' = 0
    /\ currentCount' = 0
    /\ stats' = [hits |-> 0, misses |-> 0, evictions |-> 0]
    /\ UNCHANGED <<mu, cleanups, call, now, seen>>

-----------------------------------------------------------------------------
Tick ==
    /\ now < MaxNow
    /\ now' = now + 1
    /\ UNCHANGED <<data, heap, evictionList, currentSize, currentCount, mu,
                   stats, cleanups, call, ops, seen>>

\* All calls made and returned: the only place where the system may rest.
Finished ==
    /\ ops = MaxOps
    /\ now = MaxNow
    /\ \A g \in Goroutines : call[g] = Idle
    /\ \A k \in Keys : cleanups[k] = 0
    /\ UNCHANGED vars

\* A caller makes a call.
Call(g) ==
    \/ \E k \in Keys, v \in Values, ttl \in TTLs : SetStart(g, k, v, ttl)
    \/ \E k \in Keys : GetFound(g, k)
    \/ \E k \in Keys : GetAbsent(g, k)
    \/ \E k \in Keys : Delete(g, k)
    \/ Clear(g)

\* A caller goes on with the call it is in.
Step(g) ==
    \/ SetOverwrite(g)
    \/ SetInstall(g)
    \/ SetInsert(g)
    \/ EvictOne(g)
    \/ EvictStop(g)
    \/ SetDone(g)
    \/ GetExpired(g)
    \/ GetFresh(g)
    \/ GetTouch(g)
    \/ GetCountHit(g)
    \/ GetReadFlag(g)
    \/ GetReadValue(g)
    \/ GetCountMiss(g)
    \/ GetReturn(g)

Next ==
    \/ \E g \in Goroutines : Call(g) \/ Step(g)
    \/ \E k \in Keys : CleanupDelete(k)
    \/ Tick
    \/ Finished

Spec == Init /\ [][Next]_vars

\* The Go scheduler runs every goroutine that can run, and a sync.RWMutex is
\* not refused for ever to one that waits for it.
Fairness ==
    /\ \A g \in Goroutines : WF_vars(Step(g))
    /\ \A k \in Keys : WF_vars(CleanupDelete(k))
    /\ WF_vars(Tick)

FairSpec == Spec /\ Fairness

-----------------------------------------------------------------------------
(* Accounts: the map, the list and the two counters tell the same story.   *)

\* The key whose item is out of the accounts while a Set writes it.
BeingWritten == {call[g].key : g \in {h \in Goroutines : call[h].pc = "write"}}

Sizes == [k \in DOMAIN data |-> heap[data[k]].size]

\* Items are not shared and not reused while in use: no two keys have one item,
\* an item a Get holds is in the map for no other key than the Get's, and what
\* is allocated is what the map or a Get can reach.
ItemIdentity ==
    /\ DOMAIN heap = Reachable(data, call)
    /\ IsInjective(data)
    /\ \A g \in Goroutines, k \in DOMAIN data :
          Holds(call, g) /\ call[g].item = data[k] => call[g].key = k
    /\ BeingWritten \subseteq DOMAIN data

\* The eviction list is well formed and tracks exactly the keys of the map
\* whenever the lock is free, whatever Gets did to it with outdated items.  A
\* key it misses can never be evicted.  Only the empty key can drop out of it:
\* evictOne takes its name for "nothing to evict" after RemoveLeast removed it.
ListMatchesData ==
    /\ IsList(evictionList)
    /\ KeysIn(evictionList) \subseteq DOMAIN data \ BeingWritten
    /\ DOMAIN data \ BeingWritten \subseteq KeysIn(evictionList) \cup {NoKey}

\* currentCount is the number of keys in the map, through overwrites, evictions
\* and deletions that race with them.
CountExact == currentCount = Cardinality(DOMAIN data)

\* currentSize is the number of bytes in the map: Set gives back the size it
\* finds in the item, and no other path changes the size of an item in the map.
SizeExact ==
    currentSize = Cardinality(Bytes(Sizes, DOMAIN data \ BeingWritten))

\* With no empty key, the shard is within its limit whenever no Set is inside:
\* evictIfNeeded never gives up early (cache_test.go:258-261 asserts it of the
\* statistics).
WithinLimit ==
    mu = NoGoroutine /\ MaxSize > 0 /\ NoKey \notin Keys => currentSize <= MaxSize

\* The lock has a writer exactly while some Set is between Lock and Unlock.
LockHeld ==
    \A g \in Goroutines : mu = g <=> call[g].pc \in {"write", "evict"}

-----------------------------------------------------------------------------
(* Gets: the item they hold is read and written without the lock, and may  *)
(* have left the map.                                                      *)

\* A value a Get returns was bound to its key at some moment of the call.
HitIsCurrent ==
    \A g \in Goroutines :
        call[g].pc = "answer" /\ call[g].result \in Values
            => \E f \in seen[g] : f.payload = call[g].result

\* A Get answers with something else than a value or ErrKeyNotFound only when
\* a Set of another value to its key overlapped it.
CorruptOnlyIfOverwritten ==
    \A g \in Goroutines :
        call[g].pc = "answer" /\ call[g].result = Corrupt
            => \E e, f \in seen[g] : e.payload # f.payload

\* An item past its TTL is not returned (cache.go:189): a Get that hits found
\* the key unexpired, or met a Set that renewed it.
HitIsLive ==
    \A g \in Goroutines :
        call[g].pc = "answer" /\ call[g].result # Missing
            => \E f \in seen[g] : f.live

MissesFound(g) ==
    call[g].pc = "answer" /\ call[g].result = Missing /\ seen[g] # {}

\* A Get that found its key reports it missing (ErrKeyNotFound) only if the item
\* has expired, or if a Set took the TTL from the item, or gave it one, while
\* the Get was at it: renewing a TTL makes no Get fail, nor does storing once
\* more what has none.
MissIsJustified ==
    \A g \in Goroutines :
        MissesFound(g)
            => \/ \E f \in seen[g] : Expired(f)
               \/ \E e, f \in seen[g] : e.expireAt # NoExpiry /\ f.expireAt = NoExpiry

\* What the comments promise: ErrKeyNotFound only "if not found or expired"
\* (shard.go:178, cache.go:186).  The code breaks it: IsZero and After
\* (shard.go:198) may read the ExpireAts of two versions of the item, of which
\* After's is the zero time, long gone by, and IsZero's is not.
MissIsExpired ==
    \A g \in Goroutines : MissesFound(g) => \E f \in seen[g] : Expired(f)

\* Every answer of Get is a value some caller stored, or ErrKeyNotFound: what
\* "fully thread-safe" (cache.go:10) and "transparently decompressed on
\* retrieval" (README.md:254) amount to.  The code breaks it.
GetAnswersStoredValue ==
    \A g \in Goroutines :
        call[g].pc = "answer" => call[g].result # Corrupt

-----------------------------------------------------------------------------
(* Evictions.                                                              *)

Evicting == \E g \in Goroutines : call[g].pc = "evict" /\ OverLimit

\* LRU evicts the key with the oldest AccessAt (shard.go:49).  Only with one
\* caller: a Set stamps its item before it waits for the lock.
EvictsLeastRecent ==
    Evicting /\ Victim(evictionList) \in DOMAIN data
        => \A k \in DOMAIN data :
               heap[data[Victim(evictionList)]].accessAt <= heap[data[k]].accessAt

\* minFreq is "the current minimum frequency" (eviction.go:172).  The code breaks
\* it: a Get that still holds a deleted item lends its AccessCount to the node of
\* the key's new item; when the node falls back to its own item's count, Update
\* does not lower minFreq.
MinFreqIsCurrent == Policy = "LFU" => MinFreqIsLeast(evictionList)

\* LFU evicts a key whose node has the least frequency of all, and of these the
\* one used longest ago (eviction.go:159-160).  Only with one caller, for the
\* reason above.
EvictsLeastFrequentNode ==
    Policy = "LFU" /\ Evicting /\ Victim(evictionList) # NoKey
        => LET nodes == evictionList.nodes
               v == nodes[Victim(evictionList)]
           IN  \A k \in DOMAIN nodes :
                   \/ v.frequency < nodes[k].frequency
                   \/ /\ v.frequency = nodes[k].frequency
                      /\ v.lastUsed <= nodes[k].lastUsed

\* The frequency LFU keeps for a key is the number of reads of its item, those
\* before it was last overwritten included, but never less than one: an item
\* read once ranks with the items never read (eviction.go:228-229).  Only with
\* one caller; what two make of it, MinFreqIsCurrent shows.
FrequencyCountsReads ==
    Policy = "LFU"
        => \A k \in KeysIn(evictionList) \ BeingWritten :
               LET reads == heap[data[k]].accessCount
               IN  evictionList.nodes[k].frequency = IF reads = 0 THEN 1 ELSE reads

\* A queue has key j in front of key k.
Ahead(queue, j, k) == \E a, b \in DOMAIN queue : a < b /\ queue[a] = j /\ queue[b] = k

\* Keys do not overtake each other, and one that enters goes behind those there.
InTurn(old, new) ==
    \A j \in ToSet(old) \cap ToSet(new), k \in ToSet(new) :
        (j # k /\ k \notin ToSet(old)) \/ Ahead(old, j, k) => Ahead(new, j, k)

QueueKept ==
    Policy = "FIFO"
        => /\ InTurn(evictionList, evictionList')
           /\ stats'.evictions > stats.evictions
                 => \A k \in ToSet(evictionList'),
                       j \in ToSet(evictionList) \ ToSet(evictionList') :
                          Ahead(evictionList, j, k)

\* FIFO evicts the key that entered the queue longest ago, whatever was read since
\* (eviction.go:493-494): keys in the queue do not overtake each other, one that
\* enters goes behind them, and the first is evicted.  Set makes an overwritten
\* key leave the queue and enter again, which is not what Add promises: see
\* OverwriteKeepsPlace.
FirstInFirstOut == [][QueueKept]_vars

\* "Adding an existing key doesn't change its position in the queue"
\* (eviction.go:455-456, eviction_test.go:144): keys stand in the order in which
\* their items were created, and an item keeps its CreatedAt when it is
\* overwritten.  The code breaks it: Set removes the key from the list before it
\* adds it (shard.go:139, 148), so Add does not find it there.
OverwriteKeepsPlace ==
    Policy = "FIFO"
        => \A j, k \in DOMAIN data :
               Ahead(evictionList, j, k)
                   => heap[data[j]].createdAt <= heap[data[k]].createdAt

\* A Set evicts the item it has just stored only if that one is over the limit
\* by itself (cache.go:173: "old items may be evicted").  It holds of LRU and
\* FIFO, whose new item is last in line; LFU's is first.
NewItemStays ==
    \A g \in Goroutines :
        call[g].pc = "evict" /\ OverLimit /\ call[g].key = Victim(evictionList)
            => heap[data[call[g].key]].size > MaxSize

-----------------------------------------------------------------------------
(* Expiry.                                                                 *)

\* A cleanup goroutine removes expired items only (cache.go:189).  The code
\* breaks it: `go s.Delete(key)` does not look at the item it deletes.
CleanupRemovesOnlyExpired ==
    [][\A k \in Keys :
          CleanupDelete(k) /\ k \in DOMAIN data => Expired(heap[data[k]])]_vars

-----------------------------------------------------------------------------
(* What the shard is to the cache built on it: a ShardContract.            *)

\* The bytes of a key: while a Set writes its item, those it will have.
SizeOf(k) ==
    IF \E g \in Goroutines : call[g].pc = "write" /\ call[g].key = k
    THEN call[CHOOSE g \in Goroutines : call[g].pc = "write" /\ call[g].key = k].new.size
    ELSE heap[data[k]].size

Shard == [items |-> [k \in DOMAIN data |-> SizeOf(k)], cleanups |-> cleanups,
          hits |-> stats.hits, misses |-> stats.misses,
          evictions |-> stats.evictions, writer |-> mu]

\* What the Get of goroutine g has found and not counted yet.
Pending(g) ==
    CASE call[g].pc \in {"check", "touch", "count"} ->
            [get |-> "found", key |-> call[g].key]
      [] call[g].pc = "miss" -> [get |-> "absent"]
      [] OTHER -> [get |-> "none"]

Contract ==
    INSTANCE ShardContract WITH
        shard <- Shard,
        pending <- [g \in Goroutines |-> Pending(g)],
        Sizes <- {RawLen[v] : v \in Values} \cup {PackedLen[v] : v \in Values}

\* Every step of the shard, cut as the code cuts it and with every race of its
\* unlocked reads, is one step of the contract or none: storing, evicting,
\* removing and counting happen once each and under their conditions.
ImplementsContract == Contract!Spec

-----------------------------------------------------------------------------
(* Liveness, under FairSpec.                                               *)

\* Every call returns: the eviction loop ends and the lock is always given back.
CallsReturn == \A g \in Goroutines : (call[g] # Idle) ~> (call[g] = Idle)

\* "Expired items are automatically removed from the cache during retrieval"
\* (cache.go:189): after a Get has found its item expired the key leaves the map,
\* whoever else wants the lock.  Without such a Get it may stay for ever.
ExpiredIsRemoved == \A k \in Keys : (cleanups[k] > 0) ~> (k \notin DOMAIN data)
=============================================================================
