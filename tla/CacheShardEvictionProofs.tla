---------------------- MODULE CacheShardEvictionProofs ----------------------
(***************************************************************************)
(* Which key leaves a shard that is over its limit, for every number of    *)
(* goroutines and keys and every size: the order of the queues, and the    *)
(* place in it of an item that a Set has just stored; and, for one caller  *)
(* beside any number of cleanup goroutines, the order of use that LRU and  *)
(* LFU stand for.                                                          *)
(***************************************************************************)
EXTENDS CacheShardProofs

-----------------------------------------------------------------------------
(* The order of a queue.                                                   *)

\* In a queue that stays as it is, every key keeps its turn.
LEMMA SameTurn == ASSUME NEW s PROVE InTurn(s, s)
BY DEF InTurn

\* A key that leaves lets the others keep their turn.
LEMMA WithoutInTurn ==
    ASSUME NEW s \in Seq(Keys), IsInjective(s), NEW x
    PROVE  InTurn(s, Without(s, x))
<1> DEFINE r == Without(s, x)
<1>1. r \in Seq(Keys) /\ ToSet(r) = ToSet(s) \ {x}
  BY WithoutProperties
<1>2. CASE x \notin ToSet(s)
  BY <1>2, SameTurn DEF Without
<1>3. CASE x \in ToSet(s)
  <2>1. PICK n \in 1 .. Len(s) :
           /\ s[n] = x
           /\ Len(r) = Len(s) - 1
           /\ \A i \in 1 .. Len(s) - 1 : r[i] = IF i < n THEN s[i] ELSE s[i + 1]
    BY <1>3, WithoutPlaces
  <2> HIDE DEF r
  <2> SUFFICES ASSUME NEW j \in ToSet(s) \cap ToSet(r), NEW k \in ToSet(r), Ahead(s, j, k)
               PROVE  Ahead(r, j, k)
    BY <1>1 DEF InTurn, r
  <2>2. PICK a \in 1 .. Len(s), b \in 1 .. Len(s) : a < b /\ s[a] = j /\ s[b] = k
    BY DEF Ahead
  <2>3. a # n /\ b # n
    BY <1>1, <2>1, <2>2
  <2> DEFINE to(i) == IF i < n THEN i ELSE i - 1
  <2>4. to(a) \in 1 .. Len(r) /\ to(b) \in 1 .. Len(r) /\ to(a) < to(b)
    BY <2>1, <2>2, <2>3
  <2>5. ASSUME NEW i \in 1 .. Len(s), i # n PROVE r[to(i)] = s[i]
    <3>1. CASE i < n
      <4>1. to(i) = i /\ i \in 1 .. Len(s) - 1
        BY <3>1
      <4> QED BY <2>1, <3>1, <4>1
    <3>2. CASE i > n
      <4>1. to(i) = i - 1 /\ i - 1 \in 1 .. Len(s) - 1 /\ ~(i - 1 < n) /\ (i - 1) + 1 = i
        BY <3>2
      <4> QED BY <2>1, <4>1
    <3> QED BY <2>5, <3>1, <3>2
  <2>6. DOMAIN r = 1 .. Len(r)
    BY <1>1
  <2>7. r[to(a)] = j /\ r[to(b)] = k
    BY <2>2, <2>3, <2>5
  <2> HIDE DEF to
  <2> QED BY <2>4, <2>6, <2>7 DEF Ahead
<1> QED BY <1>2, <1>3

\* A key that enters goes behind all.
LEMMA AppendInTurn ==
    ASSUME NEW s \in Seq(Keys), NEW x \in Keys
    PROVE  /\ InTurn(s, Append(s, x))
           /\ \A j \in ToSet(s) : Ahead(Append(s, x), j, x)
<1> DEFINE r == Append(s, x)
<1>1. /\ r \in Seq(Keys) /\ Len(r) = Len(s) + 1
      /\ \A i \in 1 .. Len(s) : r[i] = s[i]
      /\ r[Len(s) + 1] = x
  BY AppendProperties
<1>2. DOMAIN r = 1 .. Len(s) + 1 /\ Len(s) \in Nat
  BY <1>1
<1> HIDE DEF r
<1>3. ASSUME NEW j \in ToSet(s) PROVE Ahead(r, j, x)
  <2>1. PICK a \in 1 .. Len(s) : s[a] = j
    BY DEF ToSet
  <2>2. a \in DOMAIN r /\ Len(s) + 1 \in DOMAIN r /\ a < Len(s) + 1
    BY <1>2
  <2> QED BY <1>1, <2>1, <2>2 DEF Ahead
<1>4. ASSUME NEW j, NEW k, Ahead(s, j, k) PROVE Ahead(r, j, k)
  <2>1. PICK a \in 1 .. Len(s), b \in 1 .. Len(s) : a < b /\ s[a] = j /\ s[b] = k
    BY <1>4 DEF Ahead
  <2>2. a \in DOMAIN r /\ b \in DOMAIN r
    BY <1>2
  <2> QED BY <1>1, <2>1, <2>2 DEF Ahead
<1>5. \A k \in ToSet(r) : k \notin ToSet(s) => k = x
  BY <1>1, <1>2 DEF ToSet
<1> QED BY <1>3, <1>4, <1>5 DEF InTurn, r

\* The first leaves, which was ahead of all.
LEMMA TailInTurn ==
    ASSUME NEW s \in Seq(Keys), IsInjective(s), s # <<>>
    PROVE  /\ InTurn(s, Tail(s))
           /\ \A k \in ToSet(Tail(s)) : Ahead(s, Head(s), k)
<1> DEFINE t == Tail(s)
<1>1. /\ t \in Seq(Keys)
      /\ Len(t) = Len(s) - 1
      /\ \A i \in 1 .. Len(t) : t[i] = s[i + 1]
      /\ Head(s) = s[1]
      /\ Len(s) \in Nat \ {0}
  BY HeadTailProperties, EmptySeq
<1>2. DOMAIN t = 1 .. Len(s) - 1 /\ DOMAIN s = 1 .. Len(s)
  BY <1>1
<1>3. Head(s) \notin ToSet(t)
  BY TailProperties
<1> HIDE DEF t
<1>4. ASSUME NEW k \in ToSet(t) PROVE Ahead(s, s[1], k)
  <2>1. PICK i \in 1 .. Len(s) - 1 : s[i + 1] = k
    BY <1>1, <1>2 DEF ToSet
  <2>2. 1 \in DOMAIN s /\ i + 1 \in DOMAIN s /\ 1 < i + 1
    BY <1>1
  <2> QED BY <2>1, <2>2 DEF Ahead
<1>5. ASSUME NEW j \in ToSet(t), NEW k \in ToSet(t), Ahead(s, j, k) PROVE Ahead(t, j, k)
  <2>1. PICK a \in 1 .. Len(s), b \in 1 .. Len(s) : a < b /\ s[a] = j /\ s[b] = k
    BY <1>5 DEF Ahead
  <2>2. a # 1
    BY <1>1, <1>3, <2>1
  <2>3. /\ a - 1 \in DOMAIN t /\ b - 1 \in DOMAIN t /\ a - 1 < b - 1
        /\ t[a - 1] = j /\ t[b - 1] = k
    BY <1>1, <1>2, <2>1, <2>2
  <2> QED BY <2>3 DEF Ahead
<1>6. ToSet(t) \subseteq ToSet(s)
  BY TailProperties DEF t
<1> QED BY <1>1, <1>4, <1>5, <1>6 DEF InTurn, t

\* A queue as evictOne finds it.
LEMMA RemoveLeastInTurn ==
    ASSUME NEW s \in Seq(Keys), IsInjective(s), NEW r, r = QueueRemoveLeast(s)
    PROVE  /\ InTurn(s, r)
           /\ \A k \in ToSet(r), j \in ToSet(s) \ ToSet(r) : Ahead(s, j, k)
<1>1. CASE s = <<>>
  BY <1>1, SameTurn DEF QueueRemoveLeast
<1>2. CASE s # <<>>
  BY <1>2, TailProperties, TailInTurn DEF QueueRemoveLeast
<1> QED BY <1>1, <1>2

-----------------------------------------------------------------------------
(* FIFO.                                                                   *)

\* The list is a queue.
LEMMA QueueOfList ==
    ASSUME IInv, Policy # "LFU"
    PROVE  evictionList \in Seq(Keys) /\ IsInjective(evictionList)
BY DEF IInv, ListMatchesData, IsList, IsQueue

\* A key is taken out.
LEMMA RemoveKeepsQueue ==
    ASSUME IInv, NEW x, evictionList' \in ListRemove(evictionList, x), stats' = stats
    PROVE  QueueKept
<1> SUFFICES ASSUME Policy = "FIFO" PROVE QueueKept
  BY DEF QueueKept
<1>1. evictionList' = Without(evictionList, x)
  BY DEF ListRemove
<1>2. InTurn(evictionList, evictionList')
  BY <1>1, QueueOfList, WithoutInTurn
<1>3. ~(stats'.evictions > stats.evictions)
  BY DEF IInv, TypeOK, Stats
<1> QED BY <1>2, <1>3 DEF QueueKept

\* A key is put in.
LEMMA AddKeepsQueue ==
    ASSUME IInv, NEW x \in Keys, NEW count, NEW t,
           evictionList' \in ListAdd(evictionList, x, count, t), stats' = stats
    PROVE  QueueKept
<1> SUFFICES ASSUME Policy = "FIFO" PROVE QueueKept
  BY DEF QueueKept
<1>1. evictionList' = FIFOAdd(evictionList, x)
  BY DEF ListAdd
<1>2. InTurn(evictionList, evictionList')
  BY <1>1, QueueOfList, SameTurn, AppendInTurn DEF FIFOAdd
<1>3. ~(stats'.evictions > stats.evictions)
  BY DEF IInv, TypeOK, Stats
<1> QED BY <1>2, <1>3 DEF QueueKept

\* The first is taken out, by an eviction or in vain.
LEMMA EvictionKeepsQueue ==
    ASSUME IInv, evictionList' \in RemoveLeast(evictionList)
    PROVE  QueueKept
<1> SUFFICES ASSUME Policy = "FIFO" PROVE QueueKept
  BY DEF QueueKept
<1>1. evictionList' = QueueRemoveLeast(evictionList)
  BY DEF RemoveLeast
<1> QED BY <1>1, QueueOfList, RemoveLeastInTurn DEF QueueKept

\* Nothing is.
LEMMA SameQueueKept ==
    ASSUME evictionList' = evictionList
    PROVE  QueueKept
BY SameTurn DEF QueueKept

\* Delete.
LEMMA DeleteKeepsQueue ==
    ASSUME IInv, NEW k, DeleteLocked(k), stats' = stats
    PROVE  QueueKept
BY RemoveKeepsQueue, SameQueueKept DEF DeleteLocked

\* No step lets a key overtake another.
LEMMA NextKeepsQueue ==
    ASSUME IInv, [Next]_vars
    PROVE  QueueKept
<1>1. ASSUME NEW g \in Goroutines, Call(g) PROVE QueueKept
  <2>1. ASSUME NEW k \in Keys, NEW v \in Values, NEW ttl \in TTLs, SetStart(g, k, v, ttl)
        PROVE  QueueKept
    BY <2>1, SameQueueKept DEF SetStart
  <2>2. ASSUME NEW k \in Keys, GetFound(g, k) \/ GetAbsent(g, k) PROVE QueueKept
    BY <2>2, SameQueueKept DEF GetFound, GetAbsent
  <2>3. ASSUME NEW k \in Keys, Delete(g, k) PROVE QueueKept
    BY <2>3, DeleteKeepsQueue DEF Delete
  <2>4. CASE Clear(g)
    <3> SUFFICES ASSUME Policy = "FIFO" PROVE QueueKept
      BY DEF QueueKept
    <3>1. ToSet(evictionList') = {}
      BY <2>4 DEF Clear, ListNew, ToSet
    <3>2. ~(stats'.evictions > stats.evictions)
      BY <2>4 DEF Clear, IInv, TypeOK, Stats
    <3> QED BY <3>1, <3>2 DEF QueueKept, InTurn
  <2> QED BY <1>1, <2>1, <2>2, <2>3, <2>4 DEF Call
<1>2. ASSUME NEW g \in Goroutines, Step(g) PROVE QueueKept
  <2>1. CASE SetOverwrite(g)
    BY <2>1, RemoveKeepsQueue DEF SetOverwrite
  <2>2. CASE SetInstall(g) \/ SetInsert(g)
    <3>1. call[g].key \in Keys
      BY <2>2, FrameKinds DEF SetInstall, SetInsert, IInv, TypeOK, SetFrames
    <3> QED BY <2>2, <3>1, AddKeepsQueue DEF SetInstall, SetInsert
  <2>3. CASE EvictOne(g) \/ EvictStop(g)
    BY <2>3, EvictionKeepsQueue DEF EvictOne, EvictStop
  <2>4. CASE GetTouch(g)
    <3> SUFFICES ASSUME Policy = "FIFO" PROVE QueueKept
      BY DEF QueueKept
    <3> QED BY <2>4, SameQueueKept DEF GetTouch, ListUpdate, FIFOUpdate
  <2>5. CASE \/ SetDone(g) \/ GetExpired(g) \/ GetFresh(g) \/ GetCountHit(g)
             \/ GetReadFlag(g) \/ GetReadValue(g) \/ GetCountMiss(g) \/ GetReturn(g)
    BY <2>5, SameQueueKept DEF SetDone, GetExpired, GetFresh, GetCountHit,
                               GetReadFlag, GetReadValue, GetCountMiss, GetReturn
  <2> QED BY <1>2, <2>1, <2>2, <2>3, <2>4, <2>5 DEF Step
<1>3. ASSUME NEW k \in Keys, CleanupDelete(k) PROVE QueueKept
  BY <1>3, DeleteKeepsQueue DEF CleanupDelete
<1>4. CASE Tick \/ UNCHANGED vars
  BY <1>4, SameQueueKept DEF Tick, vars
<1> QED BY <1>1, <1>2, <1>3, <1>4 DEF Next, Finished

\* A FIFO shard evicts the key that was stored longest ago: what goes on in it,
\* reads and concurrent calls included, lets no key overtake another, and the
\* first in the queue is the one that is evicted (eviction.go:493-494).
THEOREM QueueIsFirstInFirstOut == Spec => FirstInFirstOut
<1>1. IInv /\ [Next]_vars => QueueKept
  BY NextKeepsQueue
<1> QED BY <1>1, Invariance, PTL DEF Spec, FirstInFirstOut

-----------------------------------------------------------------------------
(* The item a Set has just stored.                                         *)

\* While a Set evicts, its key is behind all others.
NewIsLast ==
    \A g \in Goroutines :
        call[g].pc = "evict" /\ call[g].key \in ToSet(evictionList)
            => \A j \in ToSet(evictionList) :
                   j = call[g].key \/ Ahead(evictionList, j, call[g].key)

\* It is when it enters the queue.
LEMMA EntersLast ==
    ASSUME IInv, Policy # "LFU", NEW x \in Keys, x \notin ToSet(evictionList),
           NEW count, NEW t, evictionList' \in ListAdd(evictionList, x, count, t)
    PROVE  \A j \in ToSet(evictionList') : j = x \/ Ahead(evictionList', j, x)
<1>1. evictionList' = Append(evictionList, x)
  BY PolicyAssumption DEF ListAdd, LRUAdd, FIFOAdd, Without
<1>2. ToSet(evictionList') = ToSet(evictionList) \cup {x}
  BY <1>1, QueueOfList, AppendNew
<1> QED BY <1>1, <1>2, QueueOfList, AppendInTurn

\* It stays so while the Set evicts.
LEMMA StaysLast ==
    ASSUME NewIsLast,
           \A g \in Goroutines : call'[g].pc = "evict" => call'[g] = call[g],
           (\E g \in Goroutines : call[g].pc = "evict")
              => /\ InTurn(evictionList, evictionList')
                 /\ ToSet(evictionList') \subseteq ToSet(evictionList)
    PROVE  NewIsLast'
<1> SUFFICES ASSUME NEW g \in Goroutines, call'[g].pc = "evict",
                    call'[g].key \in ToSet(evictionList'),
                    NEW j \in ToSet(evictionList'), j # call'[g].key
             PROVE  Ahead(evictionList', j, call'[g].key)
  BY DEF NewIsLast, Ahead
<1>1. call'[g] = call[g]
  OBVIOUS
<1>2. /\ InTurn(evictionList, evictionList')
      /\ ToSet(evictionList') \subseteq ToSet(evictionList)
  BY <1>1
<1>3. Ahead(evictionList, j, call[g].key)
  BY <1>1, <1>2 DEF NewIsLast
<1> QED BY <1>1, <1>2, <1>3 DEF InTurn

\* No step puts another key behind it.
LEMMA NextKeepsLast ==
    ASSUME IInv, NewIsLast, Policy # "LFU", [Next]_vars
    PROVE  NewIsLast'
<1> DEFINE Calm == \A g \in Goroutines : call'[g].pc = "evict" => call'[g] = call[g]
<1>1. evictionList' = evictionList /\ Calm => NewIsLast'
  BY StaysLast, SameTurn
<1>2. mu = NoGoroutine /\ Calm => NewIsLast'
  <2>1. mu = NoGoroutine => \A g \in Goroutines : call[g].pc # "evict"
    BY CallersAssumption DEF IInv, LockHeld
  <2> QED BY <2>1, StaysLast
<1>3. call \in [Goroutines -> Frames]
  BY DEF IInv, TypeOK
<1>4. ASSUME NEW g \in Goroutines, Call(g) PROVE NewIsLast'
  <2>1. ASSUME NEW k \in Keys, NEW v \in Values, NEW ttl \in TTLs, SetStart(g, k, v, ttl)
        PROVE  NewIsLast'
    BY <1>1, <1>3, <2>1 DEF SetStart
  <2>2. ASSUME NEW k \in Keys, GetFound(g, k) \/ GetAbsent(g, k) PROVE NewIsLast'
    BY <1>1, <1>3, <2>2 DEF GetFound, GetAbsent
  <2>3. ASSUME NEW k \in Keys, Delete(g, k) PROVE NewIsLast'
    BY <1>2, <2>3 DEF Delete, DeleteLocked
  <2>4. CASE Clear(g)
    BY <1>2, <2>4 DEF Clear
  <2> QED BY <1>4, <2>1, <2>2, <2>3, <2>4 DEF Call
<1>5. ASSUME NEW g \in Goroutines, SetInstall(g) \/ SetInsert(g) PROVE NewIsLast'
  <2> DEFINE k == call[g].key
  <2>1. /\ k \in Keys /\ call[g] \in SetFrames
        /\ k \notin ToSet(evictionList)
    <3>1. call[g].pc \in {"lock", "write"}
      BY <1>5 DEF SetInstall, SetInsert
    <3>2. call[g] \in SetFrames
      BY <1>3, <3>1, FrameKinds
    <3>3. k \in BeingWritten \/ k \notin DOMAIN data
      BY <1>5 DEF SetInstall, SetInsert, BeingWritten
    <3> QED BY <3>2, <3>3 DEF SetFrames, IInv, ListMatchesData, KeysIn
  <2>2. \A j \in ToSet(evictionList') : j = k \/ Ahead(evictionList', j, k)
    BY <1>5, <2>1, EntersLast DEF SetInstall, SetInsert
  <2>3. call' = [call EXCEPT ![g].pc = "evict"]
    BY <1>5 DEF SetInstall, SetInsert
  <2>4. call'[g].key = k /\ \A h \in Goroutines : h # g => call'[h] = call[h]
    BY <1>3, <2>1, <2>3, SetFrameMoves
  <2>5. ASSUME NEW h \in Goroutines, call'[h].pc = "evict" PROVE h = g
    <3> SUFFICES ASSUME h # g PROVE FALSE
      OBVIOUS
    <3>1. mu = h
      BY <2>4, <2>5 DEF IInv, LockHeld
    <3>2. mu = g \/ mu = NoGoroutine
      BY <1>5 DEF SetInstall, SetInsert, IInv, LockHeld
    <3> QED BY <3>1, <3>2, CallersAssumption
  <2> QED BY <2>2, <2>4, <2>5 DEF NewIsLast
<1>6. ASSUME NEW g \in Goroutines, EvictOne(g) PROVE NewIsLast'
  <2>1. evictionList' = QueueRemoveLeast(evictionList) /\ call' = call
    BY <1>6 DEF EvictOne, RemoveLeast
  <2>2. InTurn(evictionList, evictionList')
    BY <2>1, QueueOfList, RemoveLeastInTurn
  <2>3. ToSet(evictionList') \subseteq ToSet(evictionList)
    BY <2>1, QueueOfList, TailProperties DEF QueueRemoveLeast
  <2> QED BY <2>1, <2>2, <2>3, StaysLast
<1>7. ASSUME NEW g \in Goroutines, EvictStop(g) PROVE NewIsLast'
  <2>1. evictionList' = QueueRemoveLeast(evictionList)
    BY <1>7 DEF EvictStop, RemoveLeast
  <2>2. InTurn(evictionList, evictionList')
    BY <2>1, QueueOfList, RemoveLeastInTurn
  <2>3. ToSet(evictionList') \subseteq ToSet(evictionList)
    BY <2>1, QueueOfList, TailProperties DEF QueueRemoveLeast
  <2>4. Calm
    BY <1>3, <1>7 DEF EvictStop, Idle
  <2> QED BY <2>2, <2>3, <2>4, StaysLast
<1>8. ASSUME NEW g \in Goroutines, SetOverwrite(g) \/ GetTouch(g) PROVE NewIsLast'
  <2>1. Calm
    <3>1. call[g].pc \in {"lock", "touch"} /\ call[g] \in Frames
      BY <1>3, <1>8 DEF SetOverwrite, GetTouch
    <3>2. call'[g].pc \in {"write", "count"}
      <4>1. call[g] \in SetFrames \/ call[g] \in HoldingFrames
        BY <3>1, FrameKinds
      <4> QED BY <1>3, <1>8, <4>1, SetFrameMoves, HoldingFrameMoves
              DEF SetOverwrite, GetTouch, SetFrames, HoldingFrames
    <3>3. \A h \in Goroutines : h # g => call'[h] = call[h]
      BY <1>3, <1>8 DEF SetOverwrite, GetTouch
    <3> QED BY <3>2, <3>3
  <2> QED BY <1>2, <1>8, <2>1 DEF SetOverwrite, GetTouch
<1>9. ASSUME NEW g \in Goroutines, \/ GetFresh(g) \/ GetCountHit(g) PROVE NewIsLast'
  <2>1. call[g] \in HoldingFrames
    BY <1>3, <1>9, FrameKinds DEF GetFresh, GetCountHit
  <2>2. call'[g].pc \in {"touch", "flag"}
    BY <1>3, <1>9, <2>1, HoldingFrameMoves DEF GetFresh, GetCountHit, HoldingFrames
  <2> QED BY <1>1, <1>3, <1>9, <2>2 DEF GetFresh, GetCountHit
<1>10. ASSUME NEW g \in Goroutines, GetCountMiss(g) PROVE NewIsLast'
  <2>1. call[g] \in AnswerFrames
    BY <1>3, <1>10, FrameKinds DEF GetCountMiss
  <2>2. call'[g].pc = "answer"
    BY <1>3, <1>10, <2>1 DEF GetCountMiss, AnswerFrames
  <2> QED BY <1>1, <1>3, <1>10, <2>2 DEF GetCountMiss
<1>11. ASSUME NEW g \in Goroutines,
              \/ SetDone(g) \/ GetExpired(g) \/ GetReadFlag(g) \/ GetReadValue(g)
              \/ GetReturn(g)
       PROVE  NewIsLast'
  BY <1>1, <1>3, <1>11 DEF SetDone, GetExpired, GetReadFlag, GetReadValue, GetReturn,
                           Idle
<1>12. ASSUME NEW k \in Keys, CleanupDelete(k) PROVE NewIsLast'
  BY <1>2, <1>12 DEF CleanupDelete, DeleteLocked
<1>13. CASE Tick \/ UNCHANGED vars
  BY <1>1, <1>13 DEF Tick, vars
<1> QED
  BY <1>4, <1>5, <1>6, <1>7, <1>8, <1>9, <1>10, <1>11, <1>12, <1>13
  DEF Next, Step, Finished

\* The one that is first and behind all is alone, and takes up all the bytes.
LEMMA AloneIsTooBig ==
    ASSUME IInv, NewIsLast, Policy # "LFU", NoKey \notin Keys
    PROVE  NewItemStays
<1> SUFFICES ASSUME NEW g \in Goroutines, call[g].pc = "evict", OverLimit,
                    call[g].key = Victim(evictionList)
             PROVE  heap[data[call[g].key]].size > MaxSize
  BY DEF NewItemStays
<1> DEFINE k == call[g].key
           s == evictionList
<1>1. k \in Keys
  BY FrameKinds DEF IInv, TypeOK, SetFrames
<1>2. s \in Seq(Keys) /\ IsInjective(s)
  BY QueueOfList
<1>3. s # <<>> /\ k = Head(s)
  BY <1>1 DEF Victim, QueueVictim
<1>4. k = s[1] /\ 1 \in DOMAIN s /\ DOMAIN s = 1 .. Len(s)
  BY <1>2, <1>3, EmptySeq
<1>5. k \in ToSet(s)
  BY <1>4 DEF ToSet
<1>6. ToSet(s) = {k}
  <2> SUFFICES ASSUME NEW j \in ToSet(s), j # k PROVE FALSE
    BY <1>5
  <2>1. PICK a \in DOMAIN s, b \in DOMAIN s : a < b /\ s[a] = j /\ s[b] = k
    BY <1>5 DEF NewIsLast, Ahead
  <2>2. b = 1
    BY <1>2, <1>4, <2>1 DEF IsInjective
  <2> QED BY <1>4, <2>1, <2>2
<1>7. BeingWritten = {}
  BY WriterKeys DEF IInv
<1>8. DOMAIN data = {k}
  <2>1. DOMAIN data \subseteq Keys
    BY DEF IInv, TypeOK
  <2>2. KeysIn(s) = {k}
    BY <1>6 DEF KeysIn
  <2> QED BY <1>7, <2>1, <2>2 DEF IInv, ListMatchesData
<1>9. Sizes[k] = heap[data[k]].size /\ Sizes[k] \in Nat
  BY <1>8, DataProperties DEF Sizes
<1>10. currentSize = Sizes[k]
  <2>1. currentSize = Cardinality(Bytes(Sizes, {k}))
    BY <1>7, <1>8 DEF IInv, SizeExact
  <2> DEFINE none == {}
  <2>2. IsFiniteSet(none) /\ k \notin none /\ none \cup {k} = {k}
    BY FS_EmptySet
  <2>3. Cardinality(Bytes(Sizes, none)) = 0
    BY BytesNone
  <2> HIDE DEF none
  <2>4. Cardinality(Bytes(Sizes, none \cup {k})) = Cardinality(Bytes(Sizes, none)) + Sizes[k]
    BY <1>9, <2>2, BytesAdd
  <2> QED BY <1>9, <2>1, <2>2, <2>3, <2>4
<1> QED BY <1>9, <1>10 DEF OverLimit

\* A Set of an LRU or a FIFO shard evicts the item it has just stored only if that
\* one is over the limit by itself, whatever the other goroutines do: its key is
\* last in line, and stays last until the Set has made room.
THEOREM NewItemIsLast ==
    ASSUME Policy # "LFU", NoKey \notin Keys
    PROVE  Spec => []NewItemStays
<1>1. Init => NewIsLast
  BY DEF Init, NewIsLast, Idle
<1>2. IInv /\ NewIsLast /\ [Next]_vars => NewIsLast'
  BY NextKeepsLast
<1>3. IInv /\ NewIsLast => NewItemStays
  BY AloneIsTooBig
<1> QED BY <1>1, <1>2, <1>3, Invariance, PTL DEF Spec

-----------------------------------------------------------------------------
(* One caller: its Sets stamp their items in the order in which they store *)
(* them, and the item of its Get is the one in the map, unless a cleanup   *)
(* goroutine has removed it.                                               *)

OneCaller == \A g, h \in Goroutines : g = h

HeldIsMapped ==
    \A g \in Goroutines :
        Holds(call, g) /\ call[g].key \in DOMAIN data
            => call[g].item = data[call[g].key]

\* A step that enters nothing into the list; nor into the map and the heap.
ListLoses ==
    \/ evictionList' = evictionList
    \/ \E k \in Keys : evictionList' \in ListRemove(evictionList, k)
    \/ evictionList' \in RemoveLeast(evictionList)
    \/ evictionList' = ListNew

EntersNothing ==
    /\ now <= now'
    /\ \A k \in DOMAIN data' : k \in DOMAIN data /\ data'[k] = data[k]
    /\ \A i \in DOMAIN heap' : i \in DOMAIN heap /\ heap'[i] = heap[i]
    /\ ListLoses
    /\ \A g \in Goroutines :
          /\ call'[g].pc \in {"lock", "write"}
                => \/ call'[g].new.accessAt = now
                   \/ call[g].pc \in {"lock", "write"} /\ call'[g].new = call[g].new
          /\ Holds(call', g)
                => \/ /\ Holds(call, g)
                      /\ call'[g].key = call[g].key /\ call'[g].item = call[g].item
                   \/ /\ call'[g].key \in DOMAIN data
                      /\ call'[g].item = data[call'[g].key]

\* A step of a call does when its frame has the fields of no other Set, and the
\* item of no other Get.
LEMMA CallEntersNothing ==
    ASSUME IInv, NEW g \in Goroutines, NEW fr, call' = [call EXCEPT ![g] = fr],
           UNCHANGED <<data, now>>, ListLoses,
           heap' = heap \/ heap' = Collected(heap, data', call'),
           fr.pc \in {"lock", "write"}
              => \/ fr.new.accessAt = now
                 \/ call[g].pc \in {"lock", "write"} /\ fr.new = call[g].new,
           fr.pc \in {"check", "touch", "count", "flag", "value"}
              => \/ Holds(call, g) /\ fr.key = call[g].key /\ fr.item = call[g].item
                 \/ fr.key \in DOMAIN data /\ fr.item = data[fr.key]
    PROVE  EntersNothing
<1>1. \A i \in DOMAIN heap' : i \in DOMAIN heap /\ heap'[i] = heap[i]
  BY DEF Collected
<1>2. now <= now'
  BY DEF IInv, TypeOK
<1>3. /\ call'[g] = fr
      /\ \A h \in Goroutines : h # g => call'[h] = call[h]
  BY DEF IInv, TypeOK
<1>4. ASSUME NEW h \in Goroutines
      PROVE  /\ call'[h].pc \in {"lock", "write"}
                   => \/ call'[h].new.accessAt = now
                      \/ call[h].pc \in {"lock", "write"} /\ call'[h].new = call[h].new
             /\ Holds(call', h)
                   => \/ /\ Holds(call, h)
                         /\ call'[h].key = call[h].key /\ call'[h].item = call[h].item
                      \/ /\ call'[h].key \in DOMAIN data
                         /\ call'[h].item = data[call'[h].key]
  <2>1. CASE h = g
    BY <1>3, <2>1 DEF Holds
  <2>2. CASE h # g
    BY <1>3, <2>2 DEF Holds
  <2> QED BY <2>1, <2>2
<1> QED BY <1>1, <1>2, <1>4 DEF EntersNothing

\* A step of no call.
LEMMA NoCallEntersNothing ==
    ASSUME call' = call, now <= now',
           \A k \in DOMAIN data' : k \in DOMAIN data /\ data'[k] = data[k],
           heap' = heap \/ heap' = Collected(heap, data', call),
           ListLoses
    PROVE  EntersNothing
<1>1. \A i \in DOMAIN heap' : i \in DOMAIN heap /\ heap'[i] = heap[i]
  BY DEF Collected
<1>2. \A g \in Goroutines : Holds(call', g) <=> Holds(call, g)
  BY DEF Holds
<1> QED BY <1>1, <1>2 DEF EntersNothing

\* Every step but three is such a step.
LEMMA NextEntersNothing ==
    ASSUME IInv, [Next]_vars
    PROVE  \/ EntersNothing
           \/ \E g \in Goroutines : SetInsert(g) \/ SetInstall(g) \/ GetTouch(g)
<1>1. call \in [Goroutines -> Frames] /\ now \in Nat
  BY DEF IInv, TypeOK
<1>2. ASSUME NEW k \in Keys, DeleteLocked(k), call' = call, now' = now
      PROVE  EntersNothing
  <2>1. \A j \in DOMAIN data' : j \in DOMAIN data /\ data'[j] = data[j]
    BY <1>2 DEF DeleteLocked, Drop
  <2> QED BY <1>1, <1>2, <2>1, NoCallEntersNothing DEF DeleteLocked, ListLoses
<1>3. ASSUME NEW g \in Goroutines, Call(g) PROVE EntersNothing
  <2>1. ASSUME NEW k \in Keys, NEW v \in Values, NEW ttl \in TTLs, SetStart(g, k, v, ttl)
        PROVE  EntersNothing
    <3> DEFINE fr == [pc |-> "lock", key |-> k, new |-> Prepared(v, ttl)]
    <3>1. fr.pc = "lock" /\ fr.new.accessAt = now
      BY DEF Prepared
    <3>2. call' = [call EXCEPT ![g] = fr] /\ UNCHANGED <<data, heap, evictionList, now>>
      BY <2>1 DEF SetStart
    <3> HIDE DEF fr
    <3> QED BY <3>1, <3>2, CallEntersNothing DEF ListLoses
  <2>2. ASSUME NEW k \in Keys, GetFound(g, k) PROVE EntersNothing
    <3> DEFINE fr == [pc |-> "check", key |-> k, item |-> data[k]]
    <3>1. /\ fr.pc = "check" /\ fr.key = k /\ fr.item = data[k] /\ k \in DOMAIN data
          /\ call' = [call EXCEPT ![g] = fr] /\ UNCHANGED <<data, heap, evictionList, now>>
      BY <2>2 DEF GetFound
    <3> HIDE DEF fr
    <3> QED BY <3>1, CallEntersNothing DEF ListLoses
  <2>3. ASSUME NEW k \in Keys, GetAbsent(g, k) PROVE EntersNothing
    <3> DEFINE fr == [pc |-> "miss", key |-> k, result |-> Missing]
    <3>1. /\ fr.pc = "miss"
          /\ call' = [call EXCEPT ![g] = fr] /\ UNCHANGED <<data, heap, evictionList, now>>
      BY <2>3 DEF GetAbsent
    <3> HIDE DEF fr
    <3> QED BY <3>1, CallEntersNothing DEF ListLoses
  <2>4. ASSUME NEW k \in Keys, Delete(g, k) PROVE EntersNothing
    BY <1>2, <2>4 DEF Delete
  <2>5. CASE Clear(g)
    <3>1. /\ data' = <<>> /\ call' = call /\ now <= now' /\ evictionList' = ListNew
          /\ heap' = Collected(heap, data', call)
      BY <1>1, <2>5 DEF Clear
    <3>2. \A j \in DOMAIN data' : j \in DOMAIN data /\ data'[j] = data[j]
      BY <3>1
    <3> QED BY <3>1, <3>2, NoCallEntersNothing DEF ListLoses
  <2> QED BY <1>3, <2>1, <2>2, <2>3, <2>4, <2>5 DEF Call
<1>4. ASSUME NEW g \in Goroutines, SetOverwrite(g) PROVE EntersNothing
  <2> DEFINE fr == [call[g] EXCEPT !.pc = "write"]
  <2>1. call[g].pc = "lock" /\ call[g] \in SetFrames
    BY <1>1, <1>4, FrameKinds DEF SetOverwrite
  <2>2. fr.pc = "write" /\ fr.new = call[g].new
    BY <2>1, SetFrameMoves
  <2>3. call[g].key \in Keys
    BY <2>1 DEF SetFrames
  <2>4. /\ call' = [call EXCEPT ![g] = fr] /\ UNCHANGED <<data, heap, now>>
        /\ evictionList' \in ListRemove(evictionList, call[g].key)
    BY <1>4 DEF SetOverwrite
  <2> HIDE DEF fr
  <2> QED BY <2>1, <2>2, <2>3, <2>4, CallEntersNothing DEF ListLoses
<1>5. ASSUME NEW g \in Goroutines, EvictOne(g) PROVE EntersNothing
  <2>1. /\ data' = Drop(data, Victim(evictionList)) /\ call' = call /\ now <= now'
        /\ heap' = Collected(heap, data', call)
        /\ evictionList' \in RemoveLeast(evictionList)
    BY <1>1, <1>5 DEF EvictOne
  <2>2. \A j \in DOMAIN data' : j \in DOMAIN data /\ data'[j] = data[j]
    BY <2>1 DEF Drop
  <2> QED BY <2>1, <2>2, NoCallEntersNothing DEF ListLoses
<1>6. ASSUME NEW g \in Goroutines, EvictStop(g) PROVE EntersNothing
  <2>1. /\ call' = [call EXCEPT ![g] = Idle] /\ UNCHANGED <<data, heap, now>>
        /\ evictionList' \in RemoveLeast(evictionList)
    BY <1>6 DEF EvictStop
  <2>2. Idle.pc = "idle"
    BY DEF Idle
  <2> QED BY <2>1, <2>2, CallEntersNothing DEF ListLoses
<1>7. ASSUME NEW g \in Goroutines, SetDone(g) \/ GetReturn(g) PROVE EntersNothing
  <2>1. call' = [call EXCEPT ![g] = Idle] /\ UNCHANGED <<data, heap, evictionList, now>>
    BY <1>7 DEF SetDone, GetReturn
  <2>2. Idle.pc = "idle"
    BY DEF Idle
  <2> QED BY <2>1, <2>2, CallEntersNothing DEF ListLoses
<1>8. ASSUME NEW g \in Goroutines, GetFresh(g) \/ GetCountHit(g) PROVE EntersNothing
  <2> PICK pc \in {"touch", "flag"} : call' = [call EXCEPT ![g].pc = pc]
    BY <1>8 DEF GetFresh, GetCountHit
  <2> DEFINE fr == [call[g] EXCEPT !.pc = pc]
  <2>1. call[g] \in HoldingFrames /\ Holds(call, g)
    BY <1>1, <1>8, FrameKinds DEF GetFresh, GetCountHit, Holds
  <2>2. fr.pc = pc /\ fr.key = call[g].key /\ fr.item = call[g].item
    BY <2>1, HoldingFrameMoves
  <2>3. call' = [call EXCEPT ![g] = fr] /\ UNCHANGED <<data, heap, evictionList, now>>
    BY <1>8 DEF GetFresh, GetCountHit
  <2> HIDE DEF fr
  <2> QED BY <2>1, <2>2, <2>3, CallEntersNothing DEF ListLoses
<1>9. ASSUME NEW g \in Goroutines, GetExpired(g) PROVE EntersNothing
  <2> DEFINE fr == [pc |-> "miss", key |-> call[g].key, result |-> Missing]
  <2>1. /\ fr.pc = "miss"
        /\ call' = [call EXCEPT ![g] = fr] /\ UNCHANGED <<data, evictionList, now>>
        /\ heap' = Collected(heap, data', call')
    BY <1>9 DEF GetExpired
  <2> HIDE DEF fr
  <2> QED BY <2>1, CallEntersNothing DEF ListLoses
<1>10. ASSUME NEW g \in Goroutines, GetReadFlag(g) PROVE EntersNothing
  <2>1. PICK a \in Versions(call[g].item) :
           call' = [call EXCEPT ![g] = [pc |-> "value", key |-> call[g].key,
                                        item |-> call[g].item, packed |-> a.packed]]
    BY <1>10 DEF GetReadFlag
  <2> DEFINE fr == [pc |-> "value", key |-> call[g].key, item |-> call[g].item,
                    packed |-> a.packed]
  <2>2. /\ fr.pc = "value" /\ fr.key = call[g].key /\ fr.item = call[g].item
        /\ UNCHANGED <<data, heap, evictionList, now>> /\ Holds(call, g)
    BY <1>10 DEF GetReadFlag, Holds
  <2>3. call' = [call EXCEPT ![g] = fr]
    BY <2>1
  <2> HIDE DEF fr
  <2> QED BY <2>2, <2>3, CallEntersNothing DEF ListLoses
<1>11. ASSUME NEW g \in Goroutines, GetReadValue(g) PROVE EntersNothing
  <2>1. PICK p, n \in Versions(call[g].item) :
           call' = [call EXCEPT ![g] = [pc |-> "answer", key |-> call[g].key,
                                        result |-> Decoded(p, n, call[g].packed)]]
    BY <1>11 DEF GetReadValue
  <2> DEFINE fr == [pc |-> "answer", key |-> call[g].key,
                    result |-> Decoded(p, n, call[g].packed)]
  <2>2. /\ fr.pc = "answer" /\ UNCHANGED <<data, evictionList, now>>
        /\ heap' = Collected(heap, data', call')
    BY <1>11 DEF GetReadValue
  <2>3. call' = [call EXCEPT ![g] = fr]
    BY <2>1
  <2> HIDE DEF fr
  <2> QED BY <2>2, <2>3, CallEntersNothing DEF ListLoses
<1>12. ASSUME NEW g \in Goroutines, GetCountMiss(g) PROVE EntersNothing
  <2> DEFINE fr == [call[g] EXCEPT !.pc = "answer"]
  <2>1. call[g] \in AnswerFrames
    BY <1>1, <1>12, FrameKinds DEF GetCountMiss
  <2>2. fr.pc = "answer"
    BY <2>1 DEF AnswerFrames
  <2>3. call' = [call EXCEPT ![g] = fr] /\ UNCHANGED <<data, heap, evictionList, now>>
    BY <1>12 DEF GetCountMiss
  <2> HIDE DEF fr
  <2> QED BY <2>2, <2>3, CallEntersNothing DEF ListLoses
<1>13. ASSUME NEW k \in Keys, CleanupDelete(k) PROVE EntersNothing
  BY <1>2, <1>13 DEF CleanupDelete
<1>14. CASE Tick \/ UNCHANGED vars
  BY <1>1, <1>14, NoCallEntersNothing DEF Tick, vars, ListLoses
<1> QED
  BY <1>3, <1>4, <1>5, <1>6, <1>7, <1>8, <1>9, <1>10, <1>11, <1>12, <1>13, <1>14
  DEF Next, Step, Finished

\* What the three others do: a Set of a new key stores its item, unread.
LEMMA InsertEffect ==
    ASSUME IInv, NEW g \in Goroutines, SetInsert(g)
    PROVE  LET k == call[g].key
           IN  /\ call[g].pc = "lock" /\ k \in Keys
               /\ k \notin DOMAIN data /\ DOMAIN data' = DOMAIN data \cup {k}
               /\ \A j \in DOMAIN data : data'[j] = data[j] /\ data[j] \in DOMAIN heap
               /\ DOMAIN heap' = DOMAIN heap \cup {data'[k]}
               /\ \A i \in DOMAIN heap : heap'[i] = heap[i]
               /\ heap'[data'[k]].accessAt = call[g].new.accessAt
               /\ heap'[data'[k]].accessCount = 0
               /\ call'[g].pc = "evict" /\ now' = now
               /\ evictionList' \in ListAdd(evictionList, k, 0, now)
<1> DEFINE k == call[g].key
           new == call[g].new
           n == NewItem
           item == [payload |-> new.payload, packed |-> new.packed,
                    size |-> new.size, expireAt |-> new.expireAt,
                    accessAt |-> new.accessAt, createdAt |-> new.accessAt,
                    accessCount |-> 0]
<1>1. /\ call[g].pc = "lock" /\ call[g] \in SetFrames
      /\ k \notin DOMAIN data /\ k \in Keys
  BY FrameKinds DEF SetInsert, IInv, TypeOK, SetFrames
<1>2. /\ data' = Put(data, k, n)
      /\ heap' = Put(heap, n, item)
      /\ call' = [call EXCEPT ![g].pc = "evict"] /\ now' = now
      /\ evictionList' \in ListAdd(evictionList, k, 0, now)
  BY DEF SetInsert
<1>3. n \notin DOMAIN heap
  <2>1. ~Holds(call, g)
    BY <1>1 DEF Holds
  <2> QED BY <1>1, <2>1, NewItemIsFree
<1>4. item.accessAt = new.accessAt /\ item.accessCount = 0
  OBVIOUS
<1>5. call'[g].pc = "evict"
  <2>1. call \in [Goroutines -> Frames]
    BY DEF IInv, TypeOK
  <2> QED BY <1>1, <1>2, <2>1, SetFrameMoves
<1>6. \A j \in DOMAIN data : data[j] \in DOMAIN heap
  BY DataProperties
<1> HIDE DEF item, n
<1>7. /\ DOMAIN data' = DOMAIN data \cup {k} /\ data'[k] = n
      /\ \A j \in DOMAIN data : data'[j] = data[j]
  BY <1>1, <1>2 DEF Put
<1>8. /\ DOMAIN heap' = DOMAIN heap \cup {n} /\ heap'[n] = item
      /\ \A i \in DOMAIN heap : heap'[i] = heap[i]
  BY <1>2, <1>3 DEF Put
<1> QED BY <1>1, <1>2, <1>4, <1>5, <1>6, <1>7, <1>8

\* An overwriting Set stores its item, with the old one's count, under the key.
LEMMA InstallEffect ==
    ASSUME IInv, NEW g \in Goroutines, SetInstall(g)
    PROVE  LET k == call[g].key
           IN  /\ call[g].pc = "write" /\ k \in Keys
               /\ k \in DOMAIN data /\ k \notin KeysIn(evictionList)
               /\ data' = data /\ data[k] \in DOMAIN heap
               /\ DOMAIN heap' = DOMAIN heap
               /\ \A i \in DOMAIN heap : i # data[k] => heap'[i] = heap[i]
               /\ heap'[data[k]].accessAt = call[g].new.accessAt
               /\ heap'[data[k]].accessCount = heap[data[k]].accessCount
               /\ call'[g].pc = "evict" /\ now' = now
               /\ evictionList' \in ListAdd(evictionList, k, heap[data[k]].accessCount, now)
<1> DEFINE k == call[g].key
           new == call[g].new
           old == heap[data[k]]
           item == [payload |-> new.payload, packed |-> new.packed,
                    size |-> new.size, expireAt |-> new.expireAt,
                    accessAt |-> new.accessAt, createdAt |-> old.createdAt,
                    accessCount |-> old.accessCount]
<1>1. call[g].pc = "write" /\ call[g] \in SetFrames
  BY FrameKinds DEF SetInstall, IInv, TypeOK
<1>2. /\ heap' = [heap EXCEPT ![data[k]] = item]
      /\ call' = [call EXCEPT ![g].pc = "evict"] /\ now' = now /\ data' = data
      /\ evictionList' \in ListAdd(evictionList, k, old.accessCount, now)
  BY DEF SetInstall
<1>3. k \in Keys /\ k \in DOMAIN data /\ k \notin KeysIn(evictionList)
  <2>1. BeingWritten = {k}
    BY <1>1, WriterKeys DEF IInv
  <2> QED BY <1>1, <2>1 DEF IInv, SetFrames, ItemIdentity, ListMatchesData
<1>4. data[k] \in DOMAIN heap /\ heap \in [DOMAIN heap -> CacheItem]
  BY <1>3, DataProperties DEF IInv, TypeOK
<1>5. item.accessAt = new.accessAt /\ item.accessCount = old.accessCount
  OBVIOUS
<1>6. call'[g].pc = "evict"
  <2>1. call \in [Goroutines -> Frames]
    BY DEF IInv, TypeOK
  <2> QED BY <1>1, <1>2, <2>1, SetFrameMoves
<1> HIDE DEF item, old
<1>7. /\ DOMAIN heap' = DOMAIN heap /\ heap'[data[k]] = item
      /\ \A i \in DOMAIN heap : i # data[k] => heap'[i] = heap[i]
  BY <1>2, <1>4
<1> QED BY <1>1, <1>2, <1>3, <1>4, <1>5, <1>6, <1>7 DEF old

\* A Get counts and stamps its item, in the map or not, and tells the list.
LEMMA TouchEffect ==
    ASSUME IInv, NEW g \in Goroutines, GetTouch(g)
    PROVE  LET i == call[g].item
           IN  /\ Holds(call, g) /\ call[g].key \in Keys
               /\ BeingWritten = {} /\ data' = data /\ now' = now
               /\ i \in DOMAIN heap /\ DOMAIN heap' = DOMAIN heap
               /\ \A j \in DOMAIN heap : j # i => heap'[j] = heap[j]
               /\ heap'[i].accessAt = now
               /\ heap'[i].accessCount = heap[i].accessCount + 1
               /\ heap[i].accessCount \in Nat
               /\ call'[g].pc = "count" /\ call'[g].key = call[g].key
               /\ call'[g].item = i
               /\ evictionList' \in ListUpdate(evictionList, call[g].key,
                                               heap[i].accessCount + 1, now)
<1> DEFINE i == call[g].item
           c == heap[i].accessCount + 1
           r == [heap[i] EXCEPT !.accessAt = now, !.accessCount = c]
<1>1. /\ call[g].pc = "touch" /\ call[g] \in HoldingFrames /\ mu = NoGoroutine
      /\ Holds(call, g)
  BY FrameKinds DEF GetTouch, IInv, TypeOK, Holds
<1>2. /\ heap' = [heap EXCEPT ![i].accessAt = now, ![i].accessCount = @ + 1]
      /\ call' = [call EXCEPT ![g].pc = "count"] /\ now' = now /\ data' = data
      /\ evictionList' \in ListUpdate(evictionList, call[g].key, c, now)
  BY DEF GetTouch
<1>3. i \in DOMAIN heap /\ heap[i] \in CacheItem /\ heap \in [DOMAIN heap -> CacheItem]
  <2>1. i \in DOMAIN heap
    BY <1>1 DEF IInv, ItemIdentity, Reachable
  <2> QED BY <2>1 DEF IInv, TypeOK
<1>4. call[g].key \in Keys /\ BeingWritten = {}
  BY <1>1, WriterKeys DEF HoldingFrames, IInv
<1>5. heap[i].accessCount \in Nat
  BY <1>3 DEF CacheItem
<1>6. heap' = [heap EXCEPT ![i] = r]
  BY <1>2, <1>3 DEF CacheItem
<1>7. r.accessAt = now /\ r.accessCount = c
  <2> HIDE DEF c
  <2> QED BY <1>3 DEF CacheItem
<1>8. call'[g].pc = "count" /\ call'[g].key = call[g].key /\ call'[g].item = i
  <2>1. call \in [Goroutines -> Frames]
    BY DEF IInv, TypeOK
  <2> QED BY <1>1, <1>2, <2>1, HoldingFrameMoves
<1> HIDE DEF r
<1>9. /\ DOMAIN heap' = DOMAIN heap /\ heap'[i] = r
      /\ \A j \in DOMAIN heap : j # i => heap'[j] = heap[j]
  BY <1>3, <1>6
<1> QED BY <1>1, <1>2, <1>3, <1>4, <1>5, <1>7, <1>8, <1>9

\* No step takes the item of a Get out of the map and puts another one in.
LEMMA NextKeepsHeld ==
    ASSUME IInv, OneCaller, HeldIsMapped, [Next]_vars
    PROVE  HeldIsMapped'
<1>1. CASE EntersNothing
  BY <1>1 DEF EntersNothing, HeldIsMapped
<1>2. ASSUME NEW g \in Goroutines, SetInsert(g) \/ SetInstall(g) PROVE HeldIsMapped'
  <2>1. call'[g].pc = "evict"
    BY <1>2, InsertEffect, InstallEffect
  <2> QED BY <2>1 DEF HeldIsMapped, Holds, OneCaller
<1>3. ASSUME NEW g \in Goroutines, GetTouch(g) PROVE HeldIsMapped'
  <2>1. /\ Holds(call, g) /\ data' = data
        /\ call'[g].key = call[g].key /\ call'[g].item = call[g].item
    BY <1>3, TouchEffect
  <2> QED BY <2>1 DEF HeldIsMapped, OneCaller
<1> QED BY <1>1, <1>2, <1>3, NextEntersNothing

-----------------------------------------------------------------------------
(* LRU with one caller.                                                    *)

\* Of two keys in a queue, one is ahead, and not both.
LEMMA AheadProperties ==
    ASSUME NEW s \in Seq(Keys), IsInjective(s)
    PROVE  /\ \A j, k : Ahead(s, j, k) => j # k /\ ~Ahead(s, k, j)
           /\ \A j, k : Ahead(s, j, k) => j \in ToSet(s) /\ k \in ToSet(s)
           /\ \A j, k \in ToSet(s) : j # k => Ahead(s, j, k) \/ Ahead(s, k, j)
<1> DOMAIN s = 1 .. Len(s) /\ Len(s) \in Nat
  OBVIOUS
<1>1. ASSUME NEW j, NEW k, Ahead(s, j, k) PROVE j # k /\ ~Ahead(s, k, j)
  <2>1. PICK a \in DOMAIN s, b \in DOMAIN s : a < b /\ s[a] = j /\ s[b] = k
    BY <1>1 DEF Ahead
  <2>2. ASSUME NEW c \in DOMAIN s, NEW d \in DOMAIN s, c < d, s[c] = k, s[d] = j
        PROVE  FALSE
    <3>1. c = b /\ d = a
      BY <2>1, <2>2 DEF IsInjective
    <3> QED BY <2>1, <2>2, <3>1
  <2>3. j # k
    BY <2>1 DEF IsInjective
  <2> QED BY <2>2, <2>3 DEF Ahead
<1>2. ASSUME NEW j, NEW k, Ahead(s, j, k) PROVE j \in ToSet(s) /\ k \in ToSet(s)
  BY <1>2 DEF Ahead, ToSet
<1>3. ASSUME NEW j \in ToSet(s), NEW k \in ToSet(s), j # k
      PROVE  Ahead(s, j, k) \/ Ahead(s, k, j)
  <2>1. PICK a \in DOMAIN s, b \in DOMAIN s : s[a] = j /\ s[b] = k
    BY DEF ToSet
  <2>2. a < b \/ b < a
    BY <1>3, <2>1
  <2> QED BY <2>1, <2>2 DEF Ahead
<1> QED BY <1>1, <1>2, <1>3

\* A queue goes by the times of its keys.
Chronological(s, time) == \A j, k \in ToSet(s) : Ahead(s, j, k) => time[j] <= time[k]

\* It still does when keys leave,
LEMMA LeavingKeepsOrder ==
    ASSUME NEW s \in Seq(Keys), IsInjective(s), NEW r \in Seq(Keys), IsInjective(r),
           InTurn(s, r), ToSet(r) \subseteq ToSet(s),
           NEW f, NEW h, Chronological(s, f), \A k \in ToSet(r) : h[k] = f[k]
    PROVE  Chronological(r, h)
<1> SUFFICES ASSUME NEW j \in ToSet(r), NEW k \in ToSet(r), Ahead(r, j, k)
             PROVE  h[j] <= h[k]
  BY DEF Chronological
<1>1. j # k /\ ~Ahead(r, k, j)
  BY AheadProperties
<1>2. ~Ahead(s, k, j)
  BY <1>1 DEF InTurn
<1>3. Ahead(s, j, k)
  BY <1>1, <1>2, AheadProperties
<1> QED BY <1>3 DEF Chronological

\* and when one enters that is the latest.
LEMMA EnteringKeepsOrder ==
    ASSUME NEW s \in Seq(Keys), IsInjective(s), NEW x \in Keys, x \notin ToSet(s),
           NEW f, NEW h, Chronological(s, f),
           \A k \in ToSet(s) : h[k] = f[k] /\ h[k] <= h[x]
    PROVE  Chronological(Append(s, x), h)
<1> DEFINE r == Append(s, x)
<1>1. /\ r \in Seq(Keys) /\ IsInjective(r) /\ ToSet(r) = ToSet(s) \cup {x}
      /\ InTurn(s, r) /\ \A j \in ToSet(s) : Ahead(r, j, x)
  BY AppendNew, AppendInTurn
<1> HIDE DEF r
<1> SUFFICES ASSUME NEW j \in ToSet(r), NEW k \in ToSet(r), Ahead(r, j, k)
             PROVE  h[j] <= h[k]
  BY DEF Chronological, r
<1>2. j # k /\ ~Ahead(r, k, j)
  BY <1>1, AheadProperties
<1>3. j \in ToSet(s)
  BY <1>1, <1>2
<1>4. CASE k = x
  BY <1>3, <1>4
<1>5. CASE k \in ToSet(s)
  <2>1. ~Ahead(s, k, j)
    BY <1>1, <1>2, <1>3, <1>5 DEF InTurn
  <2>2. Ahead(s, j, k)
    BY <1>2, <1>3, <1>5, <2>1, AheadProperties
  <2> QED BY <1>3, <1>5, <2>2 DEF Chronological
<1> QED BY <1>1, <1>4, <1>5

AccessedAt == [k \in DOMAIN data |-> heap[data[k]].accessAt]

\* The list goes by AccessAt, no item is from the future, and a Set's is the latest.
Recency ==
    /\ Chronological(evictionList, AccessedAt)
    /\ \A i \in DOMAIN heap : heap[i].accessAt <= now
    /\ \A g \in Goroutines :
          call[g].pc \in {"lock", "write"}
             => /\ call[g].new.accessAt <= now
                /\ \A i \in DOMAIN heap : heap[i].accessAt <= call[g].new.accessAt

\* The list that is left is in order.
LEMMA ListLosesInOrder ==
    ASSUME IInv, Policy = "LRU", ListLoses
    PROVE  /\ InTurn(evictionList, evictionList')
           /\ ToSet(evictionList') \subseteq ToSet(evictionList)
<1> DEFINE s == evictionList
           r == evictionList'
<1>1. s \in Seq(Keys) /\ IsInjective(s)
  BY QueueOfList
<1>2. CASE r = s
  BY <1>2, SameTurn
<1>3. ASSUME NEW k \in Keys, r \in ListRemove(s, k) PROVE InTurn(s, r) /\ ToSet(r) \subseteq ToSet(s)
  BY <1>1, <1>3, WithoutInTurn, WithoutProperties DEF ListRemove
<1>4. CASE r \in RemoveLeast(s)
  BY <1>1, <1>4, RemoveLeastInTurn, TailProperties DEF RemoveLeast, QueueRemoveLeast
<1>5. CASE r = ListNew
  BY <1>5 DEF ListNew, ToSet, InTurn
<1> QED BY <1>2, <1>3, <1>4, <1>5 DEF ListLoses

\* The times of items and of Sets.
LEMMA TimesType ==
    ASSUME IInv
    PROVE  /\ now \in Nat
           /\ \A i \in DOMAIN heap : heap[i].accessAt \in Nat
           /\ \A g \in Goroutines :
                 call[g].pc \in {"lock", "write"} => call[g].new.accessAt \in Nat
<1>1. \A i \in DOMAIN heap : heap[i] \in CacheItem
  BY DEF IInv, TypeOK
<1>2. \A g \in Goroutines : call[g].pc \in {"lock", "write"} => call[g].new \in Fields
  BY FrameKinds DEF IInv, TypeOK, SetFrames
<1> QED BY <1>1, <1>2 DEF IInv, TypeOK, CacheItem, Fields

\* The keys of the list are in the map, and have an item each.
LEMMA ListedItems ==
    ASSUME IInv, Policy = "LRU"
    PROVE  \A k \in ToSet(evictionList) : k \in DOMAIN data /\ data[k] \in DOMAIN heap
BY DataProperties DEF IInv, ListMatchesData, KeysIn

\* A step that enters nothing.
LEMMA LosingKeepsRecency ==
    ASSUME IInv, IInv', Policy = "LRU", Recency, EntersNothing
    PROVE  Recency'
<1>1. Chronological(evictionList', AccessedAt')
  <2>1. /\ InTurn(evictionList, evictionList')
        /\ ToSet(evictionList') \subseteq ToSet(evictionList)
    BY ListLosesInOrder DEF EntersNothing
  <2>2. /\ evictionList' \in Seq(Keys) /\ IsInjective(evictionList')
        /\ \A k \in ToSet(evictionList') : k \in DOMAIN data' /\ data'[k] \in DOMAIN heap'
    <3>1. evictionList' \in Seq(Keys) /\ IsInjective(evictionList')
      BY DEF IInv, ListMatchesData, IsList, IsQueue
    <3>2. ToSet(evictionList') \subseteq DOMAIN data'
      BY DEF IInv, ListMatchesData, KeysIn
    <3>3. \A k \in DOMAIN data' : data'[k] \in DOMAIN heap'
      BY DEF IInv, ItemIdentity, Reachable
    <3> QED BY <3>1, <3>2, <3>3
  <2>3. \A k \in ToSet(evictionList') : AccessedAt'[k] = AccessedAt[k]
    BY <2>2 DEF EntersNothing, AccessedAt
  <2>4. /\ evictionList \in Seq(Keys) /\ IsInjective(evictionList)
        /\ Chronological(evictionList, AccessedAt)
    BY QueueOfList DEF Recency
  <2> DEFINE f == AccessedAt
             h == AccessedAt'
             r == evictionList'
  <2>5. \A k \in ToSet(r) : h[k] = f[k]
    BY <2>3
  <2>6. r \in Seq(Keys) /\ IsInjective(r) /\ InTurn(evictionList, r)
        /\ ToSet(r) \subseteq ToSet(evictionList)
    BY <2>1, <2>2
  <2>7. Chronological(evictionList, f)
    BY <2>4
  <2> HIDE DEF f, h, r
  <2>8. Chronological(r, h)
    BY <2>4, <2>5, <2>6, <2>7, LeavingKeepsOrder
  <2> QED BY <2>8 DEF h, r
<1>2. now \in Nat /\ now' \in Nat /\ now <= now'
  BY DEF EntersNothing, IInv, TypeOK
<1>3. \A i \in DOMAIN heap' : i \in DOMAIN heap /\ heap'[i] = heap[i]
  BY DEF EntersNothing
<1>4. \A i \in DOMAIN heap : heap[i].accessAt \in Nat /\ heap[i].accessAt <= now
  BY TimesType DEF Recency
<1>5. ASSUME NEW g \in Goroutines, call'[g].pc \in {"lock", "write"}
      PROVE  /\ call'[g].new.accessAt <= now'
             /\ \A i \in DOMAIN heap' : heap'[i].accessAt <= call'[g].new.accessAt
  <2>1. CASE call'[g].new.accessAt = now
    BY <1>2, <1>3, <1>4, <2>1
  <2>2. CASE call[g].pc \in {"lock", "write"} /\ call'[g].new = call[g].new
    BY <1>2, <1>3, <2>2, TimesType DEF Recency
  <2> QED BY <1>5, <2>1, <2>2 DEF EntersNothing
<1>6. \A i \in DOMAIN heap' : heap'[i].accessAt <= now'
  BY <1>2, <1>3, <1>4
<1> QED BY <1>1, <1>5, <1>6 DEF Recency

\* A Set puts its key at the end, and its item is the latest.
LEMMA StoringKeepsRecency ==
    ASSUME IInv, IInv', Policy = "LRU", OneCaller, Recency,
           NEW g \in Goroutines, SetInsert(g) \/ SetInstall(g)
    PROVE  Recency'
<1> DEFINE k == call[g].key
           t == call[g].new.accessAt
<1>1. /\ call[g].pc \in {"lock", "write"} /\ call'[g].pc = "evict" /\ now' = now
      /\ k \in Keys /\ k \notin ToSet(evictionList)
      /\ evictionList' = Append(evictionList, k)
  <2>1. k \in Keys /\ k \notin ToSet(evictionList)
    BY InsertEffect, InstallEffect, ListedItems DEF KeysIn
  <2>2. evictionList' = LRUAdd(evictionList, k)
    BY InsertEffect, InstallEffect DEF ListAdd
  <2> QED BY <2>1, <2>2, InsertEffect, InstallEffect DEF LRUAdd, Without
<1>2. t \in Nat /\ t <= now /\ \A i \in DOMAIN heap : heap[i].accessAt <= t
  BY <1>1, TimesType DEF Recency
<1>3. /\ k \in DOMAIN data' /\ heap'[data'[k]].accessAt = t
      /\ \A i \in DOMAIN heap' : i # data'[k] => i \in DOMAIN heap /\ heap'[i] = heap[i]
      /\ \A j \in DOMAIN data : j # k => j \in DOMAIN data' /\ data'[j] = data[j]
  <2>1. CASE SetInsert(g)
    BY <2>1, InsertEffect
  <2>2. CASE SetInstall(g)
    BY <2>2, InstallEffect
  <2> QED BY <2>1, <2>2
<1>4. \A j \in ToSet(evictionList) :
         /\ AccessedAt'[j] = AccessedAt[j]
         /\ AccessedAt'[j] <= AccessedAt'[k]
  <2> SUFFICES ASSUME NEW j \in ToSet(evictionList)
               PROVE  /\ AccessedAt'[j] = AccessedAt[j]
                      /\ AccessedAt'[j] <= AccessedAt'[k]
    OBVIOUS
  <2>1. j # k /\ j \in DOMAIN data /\ data[j] \in DOMAIN heap
    BY <1>1, ListedItems
  <2>2. j \in DOMAIN data' /\ data'[j] = data[j]
    BY <1>3, <2>1
  <2>3. data'[j] # data'[k]
    <3>1. IsInjective(data')
      BY DEF IInv, ItemIdentity
    <3> QED BY <1>3, <2>1, <2>2, <3>1 DEF IsInjective
  <2>4. data'[j] \in DOMAIN heap'
    BY <2>2 DEF IInv, ItemIdentity, Reachable
  <2>5. heap'[data'[j]] = heap[data[j]]
    BY <1>3, <2>2, <2>3, <2>4
  <2> QED BY <1>2, <1>3, <2>1, <2>2, <2>5 DEF AccessedAt
<1>5. Chronological(evictionList', AccessedAt')
  BY <1>1, <1>4, QueueOfList, EnteringKeepsOrder DEF Recency
<1>6. \A i \in DOMAIN heap' : heap'[i].accessAt <= now'
  BY <1>1, <1>2, <1>3 DEF Recency
<1>7. \A h \in Goroutines : call'[h].pc \notin {"lock", "write"}
  BY <1>1 DEF OneCaller
<1> QED BY <1>5, <1>6, <1>7 DEF Recency

\* A Get moves its key to the end, and makes its item the latest.
LEMMA TouchKeepsRecency ==
    ASSUME IInv, IInv', Policy = "LRU", NoKey \notin Keys, OneCaller, HeldIsMapped,
           Recency, NEW g \in Goroutines, GetTouch(g)
    PROVE  Recency'
<1> DEFINE k == call[g].key
           i == call[g].item
           s == evictionList
<1>1. /\ data' = data /\ now' = now /\ now \in Nat /\ k \in Keys
      /\ heap'[i].accessAt = now /\ i \in DOMAIN heap
      /\ DOMAIN heap' = DOMAIN heap
      /\ \A j \in DOMAIN heap : j # i => heap'[j] = heap[j]
      /\ call'[g].pc = "count"
      /\ evictionList' = LRUUpdate(s, k)
  BY TouchEffect, TimesType DEF ListUpdate
<1>2. s \in Seq(Keys) /\ IsInjective(s)
  BY QueueOfList
<1>3. \A j \in ToSet(s) : j \in DOMAIN data /\ data[j] \in DOMAIN heap
  BY ListedItems
<1>4. \A j \in ToSet(s) : j # k => data[j] # i
  BY <1>3, TouchEffect DEF IInv, ItemIdentity
<1>5. \A j \in ToSet(s) :
         /\ j # k => AccessedAt'[j] = AccessedAt[j]
         /\ AccessedAt'[j] \in Nat /\ AccessedAt'[j] <= now
  BY <1>1, <1>3, <1>4, TimesType DEF AccessedAt, Recency
<1>6. Chronological(evictionList', AccessedAt')
  <2>1. CASE k \in ToSet(s)
    <3> DEFINE r == Without(s, k)
    <3>1. /\ r \in Seq(Keys) /\ IsInjective(r) /\ ToSet(r) = ToSet(s) \ {k}
          /\ InTurn(s, r)
      BY <1>2, WithoutProperties, WithoutInTurn
    <3> HIDE DEF r
    <3>2. \A j \in ToSet(r) : AccessedAt'[j] = AccessedAt[j]
      BY <1>5, <3>1
    <3>3. Chronological(r, AccessedAt')
      BY <1>2, <3>1, <3>2, LeavingKeepsOrder DEF Recency
    <3>4. AccessedAt'[k] = now
      <4>1. data[k] = i
        BY <1>3, <2>1, TouchEffect DEF HeldIsMapped
      <4> QED BY <1>1, <1>3, <2>1, <4>1 DEF AccessedAt
    <3>5. \A j \in ToSet(r) : AccessedAt'[j] <= AccessedAt'[k]
      BY <1>5, <3>1, <3>4
    <3>6. Chronological(Append(r, k), AccessedAt')
      BY <1>1, <3>1, <3>3, <3>5, EnteringKeepsOrder
    <3> QED BY <1>1, <2>1, <3>6 DEF LRUUpdate, r
  <2>2. CASE k \notin ToSet(s)
    <3>1. evictionList' = s
      BY <1>1, <2>2 DEF LRUUpdate
    <3>2. \A j \in ToSet(s) : AccessedAt'[j] = AccessedAt[j]
      BY <1>5, <2>2
    <3> QED BY <1>2, <3>1, <3>2 DEF Recency, Chronological
  <2> QED BY <2>1, <2>2
<1>7. \A j \in DOMAIN heap' : heap'[j].accessAt <= now'
  BY <1>1 DEF Recency
<1>8. \A h \in Goroutines : call'[h].pc \notin {"lock", "write"}
  BY <1>1 DEF OneCaller
<1> QED BY <1>6, <1>7, <1>8 DEF Recency

\* The first of the list is the least recent of the map.
LEMMA FirstIsLeastRecent ==
    ASSUME IInv, Recency, Policy = "LRU", NoKey \notin Keys
    PROVE  EvictsLeastRecent
<1> DEFINE s == evictionList
           v == Victim(s)
<1> SUFFICES ASSUME NEW g \in Goroutines, call[g].pc = "evict", v \in DOMAIN data,
                    NEW k \in DOMAIN data
             PROVE  heap[data[v]].accessAt <= heap[data[k]].accessAt
  BY DEF EvictsLeastRecent, Evicting
<1>1. s \in Seq(Keys) /\ IsInjective(s)
  BY QueueOfList
<1>2. BeingWritten = {} /\ DOMAIN data \subseteq Keys
  BY WriterKeys DEF IInv, TypeOK
<1>3. ToSet(s) = DOMAIN data
  BY <1>2 DEF IInv, ListMatchesData, KeysIn
<1>4. s # <<>> /\ v = Head(s)
  BY <1>2 DEF Victim, QueueVictim
<1>5. k = v \/ Ahead(s, v, k)
  BY <1>1, <1>3, <1>4, TailProperties, TailInTurn
<1>6. heap[data[k]].accessAt \in Nat
  BY DataProperties, TimesType
<1>7. CASE k = v
  BY <1>6, <1>7
<1>8. CASE Ahead(s, v, k)
  BY <1>3, <1>8 DEF Recency, Chronological, AccessedAt
<1> QED BY <1>5, <1>7, <1>8

\* With one caller, an LRU shard evicts the key with the oldest AccessAt, whatever
\* cleanup goroutines do meanwhile.
THEOREM LeastRecentIsEvicted ==
    ASSUME Policy = "LRU", NoKey \notin Keys, OneCaller
    PROVE  Spec => []EvictsLeastRecent
<1>1. Init => HeldIsMapped /\ Recency
  BY DEF Init, HeldIsMapped, Holds, Recency, Chronological, ListNew, ToSet, Idle
<1>2. IInv /\ IInv' /\ HeldIsMapped /\ Recency /\ [Next]_vars
         => HeldIsMapped' /\ Recency'
  BY NextKeepsHeld, NextEntersNothing, LosingKeepsRecency, StoringKeepsRecency,
     TouchKeepsRecency
<1>3. IInv /\ Recency => EvictsLeastRecent
  BY FirstIsLeastRecent
<1>4. IInv /\ [Next]_vars => IInv'
  BY NextInv
<1> QED BY <1>1, <1>2, <1>3, <1>4, Invariance, PTL DEF Spec

-----------------------------------------------------------------------------
(* LFU with one caller.                                                    *)

\* The nodes and minFreq agree with the items.
Frequencies == FrequencyCountsReads /\ MinFreqIsLeast(evictionList)

\* The list is well formed, its keys are in the map, and have an item each.
LEMMA ListedNodes ==
    ASSUME IInv, Policy = "LFU"
    PROVE  /\ IsLFU(evictionList)
           /\ \A k \in DOMAIN evictionList.nodes :
                 /\ k \in DOMAIN data /\ k \notin BeingWritten
                 /\ data[k] \in DOMAIN heap
                 /\ heap[data[k]].accessCount \in Nat
<1>1. IsLFU(evictionList) /\ DOMAIN evictionList.nodes \subseteq DOMAIN data \ BeingWritten
  BY DEF IInv, ListMatchesData, IsList, KeysIn
<1>2. \A k \in DOMAIN data : data[k] \in DOMAIN heap /\ heap[data[k]].accessCount \in Nat
  BY DataProperties DEF CacheItem
<1> QED BY <1>1, <1>2

\* The nodes that are left are as they were.
LEMMA ListLosesNodes ==
    ASSUME IInv, Policy = "LFU", ListLoses
    PROVE  LET n == evictionList.nodes
               m == evictionList'.nodes
           IN  /\ \A k \in DOMAIN m : k \in DOMAIN n /\ m[k] = n[k]
               /\ MinFreqIsLeast(evictionList) => MinFreqIsLeast(evictionList')
<1>1. IsLFU(evictionList)
  BY ListedNodes
<1>2. CASE evictionList' = evictionList
  BY <1>2
<1>3. ASSUME NEW k \in Keys, evictionList' \in ListRemove(evictionList, k)
      PROVE  evictionList' \in LFURemove(evictionList, k)
  BY <1>3 DEF ListRemove
<1>4. CASE evictionList' \in RemoveLeast(evictionList)
  <2>1. evictionList' \in LFURemoveLeast(evictionList)
    BY <1>4 DEF RemoveLeast
  <2> QED BY <1>1, <2>1, LFURemoveLeastNodes
<1>5. CASE evictionList' = ListNew
  BY <1>5 DEF ListNew, NewLFU, MinFreqIsLeast
<1> QED BY <1>1, <1>2, <1>3, <1>4, <1>5, LFURemoveNodes DEF ListLoses

\* A step that enters nothing.
LEMMA LosingKeepsFrequencies ==
    ASSUME IInv, IInv', Policy = "LFU", Frequencies, EntersNothing
    PROVE  Frequencies'
<1> DEFINE n == evictionList.nodes
           m == evictionList'.nodes
<1>1. /\ \A k \in DOMAIN m : k \in DOMAIN n /\ m[k] = n[k]
      /\ MinFreqIsLeast(evictionList')
  BY ListLosesNodes DEF EntersNothing, Frequencies
<1>2. ASSUME NEW k \in DOMAIN m
      PROVE  m[k].frequency = IF heap'[data'[k]].accessCount = 0 THEN 1
                              ELSE heap'[data'[k]].accessCount
  <2>1. k \in DOMAIN n /\ k \notin BeingWritten
    BY <1>1, ListedNodes
  <2>2. m[k].frequency = IF heap[data[k]].accessCount = 0 THEN 1
                         ELSE heap[data[k]].accessCount
    BY <1>1, <2>1 DEF Frequencies, FrequencyCountsReads, KeysIn
  <2>3. k \in DOMAIN data'
    BY DEF IInv, ListMatchesData, KeysIn
  <2>4. data'[k] \in DOMAIN heap'
    BY <2>3 DEF IInv, ItemIdentity, Reachable
  <2>5. heap'[data'[k]] = heap[data[k]]
    BY <2>3, <2>4 DEF EntersNothing
  <2> QED BY <2>2, <2>5
<1> QED BY <1>1, <1>2 DEF Frequencies, FrequencyCountsReads, KeysIn

\* A Set enters a node with the reads of the item that it stores.
LEMMA StoringKeepsFrequencies ==
    ASSUME IInv, IInv', Policy = "LFU", Frequencies,
           NEW g \in Goroutines, SetInsert(g) \/ SetInstall(g)
    PROVE  Frequencies'
<1> DEFINE k == call[g].key
           n == evictionList.nodes
           m == evictionList'.nodes
           c == heap'[data'[k]].accessCount
           f == IF c = 0 THEN 1 ELSE c
<1>1. /\ k \in Keys /\ k \notin DOMAIN n /\ c \in Nat
      /\ evictionList' \in ListAdd(evictionList, k, c, now)
      /\ \A j \in DOMAIN n : heap'[data'[j]] = heap[data[j]]
  <2>1. CASE SetInsert(g)
    <3>1. k \notin DOMAIN n
      BY <2>1, InsertEffect, ListedNodes
    <3>2. c = 0
      BY <2>1, InsertEffect
    <3>3. k \in Keys /\ evictionList' \in ListAdd(evictionList, k, 0, now)
      BY <2>1, InsertEffect
    <3>4. \A j \in DOMAIN n : heap'[data'[j]] = heap[data[j]]
      BY <2>1, InsertEffect, ListedNodes
    <3> HIDE DEF c, k
    <3> QED BY <3>1, <3>2, <3>3, <3>4
  <2>2. CASE SetInstall(g)
    <3>1. k \notin DOMAIN n
      BY <2>2, InstallEffect DEF KeysIn
    <3>2. c = heap[data[k]].accessCount /\ k \in DOMAIN data
      BY <2>2, InstallEffect
    <3>3. heap[data[k]].accessCount \in Nat
      BY <3>2, DataProperties DEF CacheItem
    <3>4. /\ k \in Keys
          /\ evictionList' \in ListAdd(evictionList, k, heap[data[k]].accessCount, now)
      BY <2>2, InstallEffect
    <3>5. ASSUME NEW j \in DOMAIN n PROVE heap'[data'[j]] = heap[data[j]]
      <4>1. j # k /\ j \in DOMAIN data /\ data[j] \in DOMAIN heap
        BY <3>1, ListedNodes
      <4>2. data[j] # data[k]
        BY <3>2, <4>1 DEF IInv, ItemIdentity, IsInjective
      <4> QED BY <2>2, <4>1, <4>2, InstallEffect
    <3> HIDE DEF c, k
    <3> QED BY <3>1, <3>2, <3>3, <3>4, <3>5
  <2> QED BY <2>1, <2>2
<1>2. now \in Nat /\ f \in Nat \ {0} /\ IsLFU(evictionList)
  BY <1>1, ListedNodes DEF IInv, TypeOK
<1>3. evictionList' \in LFUInsert(evictionList, k, f, now)
  BY <1>1 DEF ListAdd, LFUAdd
<1>4. /\ m[k].frequency = f
      /\ \A j \in DOMAIN n : m[j] = n[j]
      /\ MinFreqIsLeast(evictionList')
      /\ DOMAIN m = DOMAIN n \cup {k}
  <2> HIDE DEF f, k
  <2>1. k \in Keys /\ k \notin DOMAIN evictionList.nodes
    BY <1>1
  <2>2. DOMAIN m = DOMAIN n \cup {k}
    BY <1>2, <1>3, <2>1, LFUInsertProperties
  <2>3. m[k].frequency = f /\ \A j \in DOMAIN n : m[j] = n[j]
    BY <1>2, <1>3, <2>1, LFUInsertNodes
  <2>4. MinFreqIsLeast(evictionList')
    BY <1>2, <1>3, <2>1, LFUInsertNodes DEF Frequencies
  <2> QED BY <2>2, <2>3, <2>4
<1>5. ASSUME NEW j \in DOMAIN m
      PROVE  m[j].frequency = IF heap'[data'[j]].accessCount = 0 THEN 1
                              ELSE heap'[data'[j]].accessCount
  <2>1. CASE j = k
    BY <1>4, <2>1
  <2>2. CASE j # k
    <3>1. j \in DOMAIN n /\ j \notin BeingWritten
      BY <1>4, <2>2, ListedNodes
    <3>2. n[j].frequency = IF heap[data[j]].accessCount = 0 THEN 1
                           ELSE heap[data[j]].accessCount
      BY <3>1 DEF Frequencies, FrequencyCountsReads, KeysIn
    <3> QED BY <1>1, <1>4, <3>1, <3>2
  <2> QED BY <2>1, <2>2
<1> QED BY <1>4, <1>5 DEF Frequencies, FrequencyCountsReads, KeysIn

\* A Get moves the node of its key up to the reads of its item, which is the
\* key's; when the key has gone, no other's.
LEMMA TouchKeepsFrequencies ==
    ASSUME IInv, IInv', Policy = "LFU", HeldIsMapped, Frequencies,
           NEW g \in Goroutines, GetTouch(g)
    PROVE  Frequencies'
<1> DEFINE k == call[g].key
           i == call[g].item
           c == heap[i].accessCount + 1
           n == evictionList.nodes
           m == evictionList'.nodes
<1>1. /\ data' = data /\ k \in Keys /\ heap[i].accessCount \in Nat
      /\ heap'[i].accessCount = c
      /\ \A j \in DOMAIN heap : j # i => heap'[j] = heap[j]
      /\ evictionList' \in LFUUpdate(evictionList, k, c, now)
      /\ Holds(call, g)
  BY TouchEffect DEF ListUpdate
<1>2. now \in Nat /\ c \in Nat \ {0} /\ IsLFU(evictionList)
  BY <1>1, ListedNodes DEF IInv, TypeOK
<1>3. k \in DOMAIN n => data[k] = i
  BY <1>1, ListedNodes DEF HeldIsMapped
<1>4. ASSUME NEW j \in DOMAIN n, j # k PROVE heap'[data[j]] = heap[data[j]]
  <2>1. j \in DOMAIN data /\ data[j] \in DOMAIN heap
    BY ListedNodes
  <2>2. data[j] # i
    BY <1>1, <1>4, <2>1 DEF IInv, ItemIdentity
  <2> QED BY <1>1, <2>1, <2>2
<1>5. \A j \in DOMAIN n :
         n[j].frequency = IF heap[data[j]].accessCount = 0 THEN 1
                          ELSE heap[data[j]].accessCount
  BY ListedNodes DEF Frequencies, FrequencyCountsReads, KeysIn
<1>6. CASE k \in DOMAIN n
  <2>1. evictionList' \in LFUMove(evictionList, k, c, now)
    BY <1>1, <1>6 DEF LFUUpdate
  <2>2. n[k].frequency <= c
    BY <1>1, <1>3, <1>5, <1>6
  <2> HIDE DEF c, k
  <2>3. /\ m[k].frequency = c
        /\ \A j \in DOMAIN n : j # k => m[j] = n[j]
        /\ DOMAIN m = DOMAIN n
        /\ MinFreqIsLeast(evictionList')
    BY <1>2, <1>6, <2>1, <2>2, LFUMoveNodes, LFUMoveProperties DEF Frequencies
  <2>4. ASSUME NEW j \in DOMAIN m
        PROVE  m[j].frequency = IF heap'[data'[j]].accessCount = 0 THEN 1
                                ELSE heap'[data'[j]].accessCount
    <3>1. CASE j = k
      BY <1>1, <1>2, <1>3, <1>6, <2>3, <3>1
    <3>2. CASE j # k
      BY <1>1, <1>4, <1>5, <2>3, <3>2
    <3> QED BY <3>1, <3>2
  <2> QED BY <2>3, <2>4 DEF Frequencies, FrequencyCountsReads, KeysIn
<1>7. CASE k \notin DOMAIN n
  <2>1. evictionList' = evictionList
    BY <1>1, <1>7 DEF LFUUpdate
  <2>2. \A j \in DOMAIN n : heap'[data'[j]] = heap[data[j]]
    BY <1>1, <1>4, <1>7
  <2> QED BY <1>5, <2>1, <2>2 DEF Frequencies, FrequencyCountsReads, KeysIn
<1> QED BY <1>6, <1>7

\* The victim is a node of minFreq, the one used longest ago.
LEMMA VictimIsLeastFrequent ==
    ASSUME IInv, Frequencies
    PROVE  EvictsLeastFrequentNode
<1> DEFINE l == evictionList
           v == Victim(l)
<1> SUFFICES ASSUME Policy = "LFU", v # NoKey, NEW k \in DOMAIN l.nodes
             PROVE  \/ l.nodes[v].frequency < l.nodes[k].frequency
                    \/ /\ l.nodes[v].frequency = l.nodes[k].frequency
                       /\ l.nodes[v].lastUsed <= l.nodes[k].lastUsed
  BY DEF EvictsLeastFrequentNode
<1>1. IsLFU(l)
  BY ListedNodes
<1>2. l.minFreq \in Nat /\ l.nodes[k].frequency \in Nat /\ l.minFreq <= l.nodes[k].frequency
  BY <1>1 DEF IsLFU, IsLFUType, IsNodes, LFUNode, Frequencies, MinFreqIsLeast
<1>3. LFUCandidates(l) # <<>>
  BY <1>1, OldestProperties
<1>4. v = Oldest(l)
  BY <1>3 DEF Victim, LFUVictim
<1> QED BY <1>1, <1>2, <1>4, OldestProperties

\* With one caller, the nodes count the reads of the items: LFU's order is the order
\* of use, whatever cleanup goroutines do meanwhile.
LEMMA FrequenciesInvariance ==
    ASSUME Policy = "LFU", OneCaller
    PROVE  Spec => []Frequencies
<1>1. Init => HeldIsMapped /\ Frequencies
  <2> SUFFICES ASSUME Init PROVE HeldIsMapped /\ Frequencies
    OBVIOUS
  <2>1. HeldIsMapped
    BY DEF Init, HeldIsMapped, Holds, Idle
  <2>2. evictionList = NewLFU
    BY DEF Init, ListNew
  <2> QED BY <2>1, <2>2
       DEF Frequencies, FrequencyCountsReads, KeysIn, MinFreqIsLeast, NewLFU
<1>2. IInv /\ IInv' /\ HeldIsMapped /\ Frequencies /\ [Next]_vars
         => HeldIsMapped' /\ Frequencies'
  BY NextKeepsHeld, NextEntersNothing, LosingKeepsFrequencies, StoringKeepsFrequencies,
     TouchKeepsFrequencies
<1>3. IInv /\ [Next]_vars => IInv'
  BY NextInv
<1> QED BY <1>1, <1>2, <1>3, Invariance, PTL DEF Spec

\* With one caller, the frequency LFU keeps for a key is the number of reads of its
\* item, or one for an item never read.
THEOREM FrequenciesCountReads ==
    ASSUME Policy = "LFU", OneCaller
    PROVE  Spec => []FrequencyCountsReads
<1>1. Frequencies => FrequencyCountsReads
  BY DEF Frequencies
<1> QED BY <1>1, FrequenciesInvariance, PTL

\* With one caller, minFreq is the least frequency, and LFU evicts a key whose node
\* has it, of these the one used longest ago.
THEOREM LeastFrequentIsEvicted ==
    ASSUME Policy = "LFU", OneCaller
    PROVE  Spec => []EvictsLeastFrequentNode
<1>1. IInv /\ Frequencies => EvictsLeastFrequentNode
  BY VictimIsLeastFrequent
<1> QED BY <1>1, FrequenciesInvariance, Invariance, PTL
=============================================================================
