--------------------------- MODULE EvictionLists ---------------------------
(***************************************************************************)
(* The three eviction policies of eviction.go, as operators on the value   *)
(* of the list.  None of the Go lists is safe for concurrent use: a shard  *)
(* calls them with its lock held, so one call is one step of its           *)
(* specification and needs no variables here.                              *)
(*                                                                         *)
(* An LRU or FIFO list (container/list and the nodeMap that indexes it) is *)
(* the sequence of its keys, the next victim first.  An LFU list keeps its *)
(* three Go fields: nodes, the frequency buckets, and minFreq.             *)
(*                                                                         *)
(* Operations that may end in several ways (updateMinFreq ranges over a Go *)
(* map, in any order) return the set of lists they may leave behind.       *)
(*                                                                         *)
(* A definition marked "Fault:" is not part of the model.  It is the next  *)
(* definition with a plausible bug, for showing that a property sees it.   *)
(***************************************************************************)
EXTENDS Integers, Sequences, FiniteSets, SequencesExt

CONSTANTS
    Keys,       \* the cache keys
    NoKey,      \* the empty string, RemoveLeast's "there is nothing to evict"
    Policy      \* which list a shard owns

ASSUME PolicyAssumption == Policy \in {"LRU", "LFU", "FIFO"}

-----------------------------------------------------------------------------
(* Helpers on sequences of keys and on maps.                               *)

\* The list without the element of key k, if it has one.
Without(s, k) ==
    IF k \in ToSet(s)
    THEN RemoveAt(s, CHOOSE i \in DOMAIN s : s[i] = k)
    ELSE s

\* The map f with k bound to v (m[k] = v), and without k (delete(m, k)).
Put(f, k, v) == [x \in DOMAIN f \cup {k} |-> IF x = k THEN v ELSE f[x]]
Drop(f, k) == [x \in DOMAIN f \ {k} |-> f[x]]

-----------------------------------------------------------------------------
(* LRU: the Go list read from its back.  FIFO: read from its front.        *)

\* Fault: PushBack for PushFront.
LRUAddBack(s, k) == <<k>> \o Without(s, k)

LRUAdd(s, k) == Append(Without(s, k), k)

\* Fault: a key the list does not track is added.
LRUUpdateAdds(s, k) == Append(Without(s, k), k)

LRUUpdate(s, k) == IF k \in ToSet(s) THEN Append(Without(s, k), k) ELSE s

\* A key the queue already holds keeps its place.
FIFOAdd(s, k) == IF k \in ToSet(s) THEN s ELSE Append(s, k)

\* Fault: a key that is read goes to the back.
FIFOUpdateMoves(s, k) == LRUUpdate(s, k)

\* Update only refreshes the item pointer of the node, which nothing reads.
FIFOUpdate(s, k) == s

QueueVictim(s) == IF s = <<>> THEN NoKey ELSE Head(s)

\* Fault: the victim is named but not removed.
QueuePeekLeast(s) == s

QueueRemoveLeast(s) == IF s = <<>> THEN s ELSE Tail(s)

-----------------------------------------------------------------------------
(* LFU.  Buckets are created on demand and never deleted.                  *)

\* Fault: minFreq is left at zero.
ZeroLFU == [nodes |-> <<>>, frequencies |-> <<>>, minFreq |-> 0]

NewLFU == [nodes |-> <<>>, frequencies |-> <<>>, minFreq |-> 1]

Bucket(buckets, f) == IF f \in DOMAIN buckets THEN buckets[f] ELSE <<>>

addToFrequency(buckets, k, f) == Put(buckets, f, Append(Bucket(buckets, f), k))

removeFromFrequency(buckets, k, f) ==
    IF f \in DOMAIN buckets
    THEN [buckets EXCEPT ![f] = Without(@, k)]
    ELSE buckets

\* What updateMinFreq may leave in minFreq when it finds m there.  A bucket m
\* in use stays.  Otherwise the loop starts from 1 and takes the frequency at
\* hand when it is lower or when it reads 1 in minFreq.  It does so too when
\* that 1 came from bucket 1: with bucket 1 in use the result depends on which
\* buckets the loop visits after it, and can be any of them.
updateMinFreq(buckets, m) ==
    LET used == {f \in DOMAIN buckets : buckets[f] # <<>>}
    IN  IF m \in used THEN {m}
        ELSE IF used = {} THEN {1}
        ELSE IF 1 \in used THEN used
        ELSE {f \in used : \A g \in used : f <= g}

\* Fault: minFreq is not looked at when a bucket loses a key.
LFUKeepMinFreq(nodes, buckets, m) ==
    {[nodes |-> nodes, frequencies |-> buckets, minFreq |-> m]}

LFUWith(nodes, buckets, m) ==
    {[nodes |-> nodes, frequencies |-> buckets, minFreq |-> f] :
        f \in updateMinFreq(buckets, m)}

\* An existing node takes frequency f; only a change of frequency moves it.
LFUMove(l, k, f, t) ==
    LET old == l.nodes[k].frequency
        nodes == [l.nodes EXCEPT ![k] = [frequency |-> f, lastUsed |-> t]]
    IN  IF old = f
        THEN {[l EXCEPT !.nodes = nodes]}
        ELSE LFUWith(nodes,
                     addToFrequency(removeFromFrequency(l.frequencies, k, old),
                                    k, f),
                     l.minFreq)

\* A new node: an item never read counts as read once.
LFUInsert(l, k, f, t) ==
    LET nodes == Put(l.nodes, k, [frequency |-> f, lastUsed |-> t])
        buckets == addToFrequency(l.frequencies, k, f)
        lower == f < l.minFreq \/ Bucket(buckets, l.minFreq) = <<>>
    IN  {[nodes |-> nodes, frequencies |-> buckets,
          minFreq |-> IF lower THEN f ELSE l.minFreq]}

LFUAdd(l, k, count, t) ==
    IF k \in DOMAIN l.nodes
    THEN LFUMove(l, k, count, t)
    ELSE LFUInsert(l, k, IF count = 0 THEN 1 ELSE count, t)

LFURemove(l, k) ==
    IF k \in DOMAIN l.nodes
    THEN LFUWith(Drop(l.nodes, k),
                 removeFromFrequency(l.frequencies, k, l.nodes[k].frequency),
                 l.minFreq)
    ELSE {l}

\* Fault: a key the list does not track is added.
LFUUpdateAdds(l, k, count, t) == LFUAdd(l, k, count, t)

LFUUpdate(l, k, count, t) ==
    IF k \in DOMAIN l.nodes THEN LFUMove(l, k, count, t) ELSE {l}

\* The bucket RemoveLeast looks in; it gives up when it is empty.
LFUCandidates(l) ==
    IF DOMAIN l.nodes = {} THEN <<>> ELSE Bucket(l.frequencies, l.minFreq)

\* The candidate used longest ago, the first of them in the bucket on a tie.
Oldest(l) ==
    LET b == LFUCandidates(l)
        lastUsed(i) == l.nodes[b[i]].lastUsed
        i == CHOOSE i \in DOMAIN b :
                 \A j \in DOMAIN b : \/ lastUsed(i) < lastUsed(j)
                                     \/ lastUsed(i) = lastUsed(j) /\ i <= j
    IN  b[i]

LFUVictim(l) == IF LFUCandidates(l) = <<>> THEN NoKey ELSE Oldest(l)

LFURemoveLeast(l) ==
    IF LFUCandidates(l) = <<>>
    THEN {l}
    ELSE LFUWith(Drop(l.nodes, Oldest(l)),
                 removeFromFrequency(l.frequencies, Oldest(l), l.minFreq),
                 l.minFreq)

-----------------------------------------------------------------------------
(* The EvictionList interface: one operator per method, by policy.  count  *)
(* is the item's AccessCount and t the time of the call.                   *)

ListNew == IF Policy = "LFU" THEN NewLFU ELSE <<>>

ListAdd(l, k, count, t) ==
    CASE Policy = "LRU"  -> {LRUAdd(l, k)}
      [] Policy = "FIFO" -> {FIFOAdd(l, k)}
      [] Policy = "LFU"  -> LFUAdd(l, k, count, t)

ListRemove(l, k) ==
    IF Policy = "LFU" THEN LFURemove(l, k) ELSE {Without(l, k)}

ListUpdate(l, k, count, t) ==
    CASE Policy = "LRU"  -> {LRUUpdate(l, k)}
      [] Policy = "FIFO" -> {FIFOUpdate(l, k)}
      [] Policy = "LFU"  -> LFUUpdate(l, k, count, t)

\* RemoveLeast: the key it returns, and the lists it may leave behind.
Victim(l) == IF Policy = "LFU" THEN LFUVictim(l) ELSE QueueVictim(l)

RemoveLeast(l) ==
    IF Policy = "LFU" THEN LFURemoveLeast(l) ELSE {QueueRemoveLeast(l)}

\* The keys a list tracks.
KeysIn(l) == IF Policy = "LFU" THEN DOMAIN l.nodes ELSE ToSet(l)

-----------------------------------------------------------------------------
(* Well-formed lists: the two halves of each Go structure agree.           *)

IsQueue(s) == s \in Seq(Keys) /\ IsInjective(s)

LFUNode == [frequency : Nat \ {0}, lastUsed : Nat]

IsNodes(nodes) ==
    DOMAIN nodes \subseteq Keys /\ nodes \in [DOMAIN nodes -> LFUNode]

IsBuckets(buckets) ==
    /\ DOMAIN buckets \subseteq Nat \ {0}
    /\ buckets \in [DOMAIN buckets -> Seq(Keys)]

IsLFUType(l) ==
    /\ l = [nodes |-> l.nodes, frequencies |-> l.frequencies,
            minFreq |-> l.minFreq]
    /\ IsNodes(l.nodes)
    /\ IsBuckets(l.frequencies)
    /\ l.minFreq \in Nat \ {0}

\* Every node is in the bucket of its frequency, once, and nowhere else.
Matches(nodes, buckets) ==
    /\ \A f \in DOMAIN buckets :
          /\ IsInjective(buckets[f])
          /\ \A k \in ToSet(buckets[f]) :
                k \in DOMAIN nodes /\ nodes[k].frequency = f
    /\ \A k \in DOMAIN nodes :
          /\ nodes[k].frequency \in DOMAIN buckets
          /\ k \in ToSet(buckets[nodes[k].frequency])

\* RemoveLeast never looks in an empty bucket while there are nodes.
MinFreqInUse(l) ==
    DOMAIN l.nodes # {} => Bucket(l.frequencies, l.minFreq) # <<>>

IsLFU(l) ==
    IsLFUType(l) /\ Matches(l.nodes, l.frequencies) /\ MinFreqInUse(l)

IsListType(l) == IF Policy = "LFU" THEN IsLFUType(l) ELSE l \in Seq(Keys)

IsList(l) == IF Policy = "LFU" THEN IsLFU(l) ELSE IsQueue(l)

\* minFreq names the lowest frequency any node has.
MinFreqIsLeast(l) ==
    \A k \in DOMAIN l.nodes : l.minFreq <= l.nodes[k].frequency

=============================================================================
