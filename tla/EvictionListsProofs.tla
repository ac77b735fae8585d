------------------------ MODULE EvictionListsProofs ------------------------
(***************************************************************************)
(* What the operations of the eviction lists do to the keys they track,    *)
(* and that they keep the lists well formed: stated for the interface,     *)
(* proved for each policy.                                                 *)
(***************************************************************************)
EXTENDS EvictionLists, TLAPS, SequenceTheorems, FiniteSetTheorems,
        WellFoundedInduction

-----------------------------------------------------------------------------
(* Sequences without repetitions.                                          *)

\* Without takes a key out and moves those behind it up.
LEMMA WithoutPlaces ==
    ASSUME NEW S, NEW s \in Seq(S), NEW k, k \in ToSet(s)
    PROVE  /\ Without(s, k) \in Seq(S)
           /\ \E n \in 1 .. Len(s) :
                 /\ s[n] = k
                 /\ Len(Without(s, k)) = Len(s) - 1
                 /\ \A i \in 1 .. Len(s) - 1 :
                       Without(s, k)[i] = IF i < n THEN s[i] ELSE s[i + 1]
<1> DEFINE n == CHOOSE i \in DOMAIN s : s[i] = k
           r == RemoveAt(s, n)
<1>1. n \in 1 .. Len(s) /\ s[n] = k
  BY DEF ToSet
<1>2. Without(s, k) = r
  BY DEF Without
<1> HIDE DEF n
<1> DEFINE a == SubSeq(s, 1, n - 1)
           b == SubSeq(s, n + 1, Len(s))
<1>3. /\ a \in Seq(S) /\ Len(a) = n - 1
      /\ \A i \in 1 .. n - 1 : a[i] = s[i]
  BY <1>1, SubSeqProperties
<1>4. /\ b \in Seq(S) /\ Len(b) = Len(s) - n
      /\ \A i \in 1 .. Len(s) - n : b[i] = s[n + i]
  BY <1>1, SubSeqProperties
<1> HIDE DEF a, b
<1>5. /\ a \o b \in Seq(S)
      /\ Len(a \o b) = Len(a) + Len(b)
      /\ \A i \in 1 .. Len(a) + Len(b) :
            (a \o b)[i] = IF i <= Len(a) THEN a[i] ELSE b[i - Len(a)]
  BY <1>3, <1>4, ConcatProperties
<1>6. Len(a) + Len(b) = Len(s) - 1
  BY <1>1, <1>3, <1>4
<1>7. r = a \o b
  BY DEF RemoveAt, a, b
<1>8. ASSUME NEW i \in 1 .. Len(s) - 1
      PROVE  (a \o b)[i] = IF i < n THEN s[i] ELSE s[i + 1]
  <2>1. CASE i < n
    BY <2>1, <1>1, <1>3, <1>4, <1>5, <1>6
  <2>2. CASE ~(i < n)
    <3>1. i - (n - 1) \in 1 .. Len(s) - n /\ n + (i - (n - 1)) = i + 1
      BY <2>2, <1>1
    <3>2. (a \o b)[i] = b[i - (n - 1)]
      BY <2>2, <1>1, <1>3, <1>4, <1>5, <1>6
    <3> QED BY <2>2, <3>1, <3>2, <1>4
  <2> QED BY <2>1, <2>2
<1> HIDE DEF r
<1> QED BY <1>1, <1>2, <1>5, <1>6, <1>7, <1>8

\* It takes exactly one key out and repeats none.
LEMMA WithoutProperties ==
    ASSUME NEW S, NEW s \in Seq(S), IsInjective(s), NEW k
    PROVE  /\ Without(s, k) \in Seq(S)
           /\ IsInjective(Without(s, k))
           /\ ToSet(Without(s, k)) = ToSet(s) \ {k}
<1>1. CASE k \notin ToSet(s)
  BY <1>1 DEF Without, ToSet
<1>2. CASE k \in ToSet(s)
  <2> DEFINE r == Without(s, k)
  <2>1. PICK n \in 1 .. Len(s) :
           /\ s[n] = k
           /\ Len(r) = Len(s) - 1
           /\ \A i \in 1 .. Len(s) - 1 : r[i] = IF i < n THEN s[i] ELSE s[i + 1]
    BY <1>2, WithoutPlaces
  <2>2. /\ r \in Seq(S)
        /\ Len(r) = Len(s) - 1
        /\ \A i \in 1 .. Len(r) : r[i] = IF i < n THEN s[i] ELSE s[i + 1]
    BY <1>2, <2>1, WithoutPlaces
  <2> HIDE DEF r
  <2>3. IsInjective(r)
    <3> DEFINE from(i) == IF i < n THEN i ELSE i + 1
    <3>1. \A i \in 1 .. Len(r) : from(i) \in DOMAIN s /\ r[i] = s[from(i)]
      BY <2>1, <2>2
    <3>2. \A i \in 1 .. Len(r), j \in 1 .. Len(r) : from(i) = from(j) => i = j
      BY <2>1, <2>2
    <3> HIDE DEF from
    <3>3. \A p \in DOMAIN s, q \in DOMAIN s : s[p] = s[q] => p = q
      BY Zenon DEF IsInjective
    <3>4. DOMAIN r = 1 .. Len(r)
      BY <2>2
    <3> QED BY ONLY <3>1, <3>2, <3>3, <3>4 DEF IsInjective
  <2>4. \A x \in ToSet(s) \ {k} : x \in ToSet(r)
    <3> SUFFICES ASSUME NEW j \in 1 .. Len(s), s[j] # k PROVE s[j] \in ToSet(r)
      BY DEF ToSet
    <3>1. CASE j < n
      <4>1. j \in 1 .. Len(r) /\ r[j] = s[j]
        BY <3>1, <2>1, <2>2
      <4> QED BY <4>1, <2>2 DEF ToSet
    <3>2. CASE j > n
      <4>1. j - 1 \in 1 .. Len(r) /\ r[j - 1] = s[j]
        BY <3>2, <2>1, <2>2
      <4> QED BY <4>1, <2>2 DEF ToSet
    <3> QED BY <3>1, <3>2, <2>1
  <2>5. \A x \in ToSet(r) : x \in ToSet(s) \ {k}
    BY <2>1, <2>2 DEF ToSet, IsInjective
  <2> QED BY <2>2, <2>3, <2>4, <2>5 DEF r
<1> QED BY <1>1, <1>2

\* Appending a key the sequence does not have.
LEMMA AppendNew ==
    ASSUME NEW S, NEW s \in Seq(S), IsInjective(s), NEW k \in S, k \notin ToSet(s)
    PROVE  /\ Append(s, k) \in Seq(S)
           /\ IsInjective(Append(s, k))
           /\ ToSet(Append(s, k)) = ToSet(s) \cup {k}
<1> DEFINE r == Append(s, k)
<1>1. /\ r \in Seq(S)
      /\ Len(r) = Len(s) + 1
      /\ \A i \in 1 .. Len(s) : r[i] = s[i]
      /\ r[Len(s) + 1] = k
  BY AppendProperties
<1>2. \A i \in 1 .. Len(s) : s[i] # k
  BY DEF ToSet
<1> HIDE DEF r
<1>3. IsInjective(r)
  BY <1>1, <1>2 DEF IsInjective
<1>4. ToSet(r) = ToSet(s) \cup {k}
  <2>1. \A x \in ToSet(s) \cup {k} : x \in ToSet(r)
    <3>1. Len(s) \in Nat /\ Len(s) + 1 \in 1 .. Len(r)
      BY <1>1
    <3>2. k \in ToSet(r)
      BY <1>1, <3>1 DEF ToSet
    <3>3. ASSUME NEW i \in 1 .. Len(s) PROVE s[i] \in ToSet(r)
      BY <1>1, <3>1 DEF ToSet
    <3> QED BY <3>2, <3>3 DEF ToSet
  <2>2. \A x \in ToSet(r) : x \in ToSet(s) \cup {k}
    BY <1>1 DEF ToSet
  <2> QED BY <2>1, <2>2
<1> QED BY <1>1, <1>3, <1>4 DEF r

\* The head of a sequence without repetitions is not in its tail.
LEMMA TailProperties ==
    ASSUME NEW S, NEW s \in Seq(S), IsInjective(s), s # <<>>
    PROVE  /\ Tail(s) \in Seq(S)
           /\ IsInjective(Tail(s))
           /\ Head(s) \in ToSet(s)
           /\ ToSet(Tail(s)) = ToSet(s) \ {Head(s)}
<1> DEFINE t == Tail(s)
<1>1. /\ t \in Seq(S)
      /\ Len(t) = Len(s) - 1
      /\ \A i \in 1 .. Len(t) : t[i] = s[i + 1]
      /\ Head(s) = s[1]
      /\ Len(s) \in Nat \ {0}
  BY HeadTailProperties, EmptySeq
<1> HIDE DEF t
<1>2. IsInjective(t)
  <2> SUFFICES ASSUME NEW i \in 1 .. Len(t), NEW j \in 1 .. Len(t), t[i] = t[j]
               PROVE  i = j
    BY <1>1 DEF IsInjective
  <2>1. /\ i + 1 \in DOMAIN s /\ j + 1 \in DOMAIN s
        /\ s[i + 1] = s[j + 1]
    BY <1>1
  <2>2. i + 1 = j + 1
    BY <2>1 DEF IsInjective
  <2> QED BY <2>2, <1>1
<1>3. Head(s) \in ToSet(s)
  BY <1>1 DEF ToSet
<1>4. \A x \in ToSet(t) : x \in ToSet(s) \ {s[1]}
  <2> SUFFICES ASSUME NEW i \in 1 .. Len(t) PROVE t[i] \in ToSet(s) \ {s[1]}
    BY <1>1 DEF ToSet
  <2>1. i + 1 \in DOMAIN s /\ 1 \in DOMAIN s /\ i + 1 # 1 /\ t[i] = s[i + 1]
    BY <1>1
  <2>2. s[i + 1] # s[1]
    BY <2>1 DEF IsInjective
  <2> QED BY <2>1, <2>2 DEF ToSet
<1>5. \A x \in ToSet(s) \ {s[1]} : x \in ToSet(t)
  <2> SUFFICES ASSUME NEW j \in 1 .. Len(s), s[j] # s[1] PROVE s[j] \in ToSet(t)
    BY DEF ToSet
  <2>1. j - 1 \in 1 .. Len(t) /\ t[j - 1] = s[j]
    BY <1>1
  <2> QED BY <2>1, <1>1 DEF ToSet
<1> QED BY <1>1, <1>2, <1>3, <1>4, <1>5 DEF t

-----------------------------------------------------------------------------
(* LFU: moving keys between buckets.                                       *)

\* A key leaves the nodes and the bucket of its frequency together.
LEMMA BucketRemove ==
    ASSUME NEW nodes, NEW buckets, NEW k \in DOMAIN nodes,
           IsNodes(nodes), IsBuckets(buckets), Matches(nodes, buckets)
    PROVE  LET b == removeFromFrequency(buckets, k, nodes[k].frequency)
           IN  /\ IsNodes(Drop(nodes, k))
               /\ IsBuckets(b)
               /\ Matches(Drop(nodes, k), b)
<1> DEFINE f == nodes[k].frequency
           b == removeFromFrequency(buckets, k, f)
           n == Drop(nodes, k)
<1>1. f \in DOMAIN buckets
  BY DEF Matches
<1>2. /\ buckets[f] \in Seq(Keys)
      /\ IsInjective(buckets[f])
  BY <1>1 DEF IsBuckets, Matches
<1>3. /\ Without(buckets[f], k) \in Seq(Keys)
      /\ IsInjective(Without(buckets[f], k))
      /\ ToSet(Without(buckets[f], k)) = ToSet(buckets[f]) \ {k}
  BY <1>2, WithoutProperties
<1>4. /\ DOMAIN b = DOMAIN buckets
      /\ b[f] = Without(buckets[f], k)
      /\ \A g \in DOMAIN buckets : g # f => b[g] = buckets[g]
  BY <1>1 DEF removeFromFrequency, IsBuckets
<1>5. /\ DOMAIN n = DOMAIN nodes \ {k}
      /\ \A x \in DOMAIN n : n[x] = nodes[x]
  BY DEF Drop
<1>6. IsNodes(n)
  BY DEF IsNodes, Drop
<1>7. IsBuckets(b)
  BY <1>1, <1>3 DEF IsBuckets, removeFromFrequency
<1> HIDE DEF b, n
<1>8. Matches(n, b)
  <2>1. ASSUME NEW g \in DOMAIN b
        PROVE  /\ IsInjective(b[g])
               /\ \A x \in ToSet(b[g]) : x \in DOMAIN n /\ n[x].frequency = g
    <3>1. CASE g = f
      BY <3>1, <1>1, <1>3, <1>4, <1>5 DEF Matches
    <3>2. CASE g # f
      BY <3>2, <1>4, <1>5 DEF Matches
    <3> QED BY <3>1, <3>2
  <2>2. ASSUME NEW x \in DOMAIN n
        PROVE  n[x].frequency \in DOMAIN b /\ x \in ToSet(b[n[x].frequency])
    <3>1. x \in DOMAIN nodes /\ x # k /\ n[x] = nodes[x]
      BY <1>5
    <3>2. /\ nodes[x].frequency \in DOMAIN buckets
          /\ x \in ToSet(buckets[nodes[x].frequency])
      BY <3>1 DEF Matches
    <3> QED BY <3>1, <3>2, <1>3, <1>4
  <2> QED BY <2>1, <2>2 DEF Matches
<1> QED BY <1>6, <1>7, <1>8 DEF b, n

\* A new key enters the nodes and the bucket of its frequency together.
LEMMA BucketAdd ==
    ASSUME NEW nodes, NEW buckets, NEW k \in Keys, k \notin DOMAIN nodes,
           NEW f \in Nat \ {0}, NEW t \in Nat,
           IsNodes(nodes), IsBuckets(buckets), Matches(nodes, buckets)
    PROVE  LET n == Put(nodes, k, [frequency |-> f, lastUsed |-> t])
               b == addToFrequency(buckets, k, f)
           IN  /\ IsNodes(n)
               /\ IsBuckets(b)
               /\ Matches(n, b)
               /\ f \in DOMAIN b
               /\ b[f] # <<>>
<1> DEFINE r == [frequency |-> f, lastUsed |-> t]
           n == Put(nodes, k, r)
           b == addToFrequency(buckets, k, f)
           old == Bucket(buckets, f)
<1>1. r \in LFUNode /\ r.frequency = f
  BY DEF LFUNode
<1>2. /\ old \in Seq(Keys)
      /\ IsInjective(old)
      /\ k \notin ToSet(old)
      /\ \A x \in ToSet(old) : x \in DOMAIN nodes /\ nodes[x].frequency = f
  <2>1. CASE f \in DOMAIN buckets
    BY <2>1 DEF Bucket, IsBuckets, Matches
  <2>2. CASE f \notin DOMAIN buckets
    BY <2>2 DEF Bucket, IsInjective, ToSet
  <2> QED BY <2>1, <2>2
<1> HIDE DEF old
<1>3. /\ Append(old, k) \in Seq(Keys)
      /\ IsInjective(Append(old, k))
      /\ ToSet(Append(old, k)) = ToSet(old) \cup {k}
  BY <1>2, AppendNew
<1>4. /\ DOMAIN b = DOMAIN buckets \cup {f}
      /\ b[f] = Append(old, k)
      /\ \A g \in DOMAIN buckets : g # f => b[g] = buckets[g]
  BY DEF addToFrequency, Put, old
<1>5. /\ DOMAIN n = DOMAIN nodes \cup {k}
      /\ n[k] = r
      /\ \A x \in DOMAIN nodes : n[x] = nodes[x]
      /\ n = [x \in DOMAIN n |-> n[x]]
  BY DEF Put
<1>6. b = [g \in DOMAIN b |-> b[g]]
  BY DEF addToFrequency, Put
<1> HIDE DEF b, n, r
<1>7. IsNodes(n)
  BY <1>1, <1>5 DEF IsNodes
<1>8. IsBuckets(b)
  BY <1>3, <1>4, <1>6 DEF IsBuckets
<1>9. Matches(n, b)
  <2>1. ASSUME NEW g \in DOMAIN b
        PROVE  /\ IsInjective(b[g])
               /\ \A x \in ToSet(b[g]) : x \in DOMAIN n /\ n[x].frequency = g
    <3>1. CASE g = f
      BY <3>1, <1>1, <1>2, <1>3, <1>4, <1>5
    <3>2. CASE g # f
      BY <3>2, <1>4, <1>5 DEF Matches
    <3> QED BY <3>1, <3>2
  <2>2. ASSUME NEW x \in DOMAIN n
        PROVE  n[x].frequency \in DOMAIN b /\ x \in ToSet(b[n[x].frequency])
    <3>1. CASE x = k
      BY <3>1, <1>1, <1>3, <1>4, <1>5
    <3>2. CASE x # k
      <4>1. /\ x \in DOMAIN nodes /\ n[x] = nodes[x]
            /\ nodes[x].frequency \in DOMAIN buckets
            /\ x \in ToSet(buckets[nodes[x].frequency])
        BY <3>2, <1>5 DEF Matches
      <4>2. CASE nodes[x].frequency = f
        <5>1. x \in ToSet(old)
          BY <4>1, <4>2 DEF old, Bucket
        <5> QED BY <4>1, <4>2, <5>1, <1>3, <1>4
      <4>3. CASE nodes[x].frequency # f
        BY <4>1, <4>3, <1>4
      <4> QED BY <4>2, <4>3
    <3> QED BY <3>1, <3>2
  <2> QED BY <2>1, <2>2 DEF Matches
<1>10. b[f] # <<>>
  BY <1>3, <1>4 DEF ToSet
<1> QED BY <1>4, <1>7, <1>8, <1>9, <1>10 DEF b, n, r

\* Nodes and buckets that match make a well-formed list with any minFreq that
\* updateMinFreq may choose: it never points at an empty bucket while there
\* are nodes, whatever the order of its loop.
LEMMA LFUWithProperties ==
    ASSUME NEW nodes, NEW buckets, NEW m \in Nat \ {0},
           IsNodes(nodes), IsBuckets(buckets), Matches(nodes, buckets),
           NEW l \in LFUWith(nodes, buckets, m)
    PROVE  IsLFU(l) /\ l.nodes = nodes
<1> DEFINE used == {f \in DOMAIN buckets : buckets[f] # <<>>}
<1>1. PICK f \in updateMinFreq(buckets, m) :
          l = [nodes |-> nodes, frequencies |-> buckets, minFreq |-> f]
  BY DEF LFUWith
<1>2. used \subseteq Nat \ {0}
  BY DEF IsBuckets
<1>3. f \in Nat \ {0} /\ (used # {} => f \in used)
  BY <1>2 DEF updateMinFreq
<1>4. DOMAIN nodes # {} => used # {}
  <2> SUFFICES ASSUME NEW k \in DOMAIN nodes PROVE used # {}
    OBVIOUS
  <2>1. /\ nodes[k].frequency \in DOMAIN buckets
        /\ k \in ToSet(buckets[nodes[k].frequency])
    BY DEF Matches
  <2>2. buckets[nodes[k].frequency] # <<>>
    BY <2>1 DEF ToSet
  <2> QED BY <2>1, <2>2
<1>5. /\ l.nodes = nodes /\ l.frequencies = buckets /\ l.minFreq = f
      /\ l = [nodes |-> l.nodes, frequencies |-> l.frequencies,
              minFreq |-> l.minFreq]
  BY <1>1
<1>6. MinFreqInUse(l)
  BY <1>3, <1>4, <1>5 DEF MinFreqInUse, Bucket
<1>7. IsLFUType(l)
  BY <1>3, <1>5 DEF IsLFUType
<1> QED BY <1>5, <1>6, <1>7 DEF IsLFU

-----------------------------------------------------------------------------
(* LFU: the methods.                                                       *)

\* A new node: minFreq stays in use, or moves to the node.
LEMMA LFUInsertProperties ==
    ASSUME NEW l, IsLFU(l), NEW k \in Keys, k \notin DOMAIN l.nodes,
           NEW f \in Nat \ {0}, NEW t \in Nat, NEW m \in LFUInsert(l, k, f, t)
    PROVE  IsLFU(m) /\ DOMAIN m.nodes = DOMAIN l.nodes \cup {k}
<1> DEFINE n == Put(l.nodes, k, [frequency |-> f, lastUsed |-> t])
           b == addToFrequency(l.frequencies, k, f)
           lower == f < l.minFreq \/ Bucket(b, l.minFreq) = <<>>
<1>1. m = [nodes |-> n, frequencies |-> b,
           minFreq |-> IF lower THEN f ELSE l.minFreq]
  BY DEF LFUInsert
<1>2. /\ IsNodes(n) /\ IsBuckets(b) /\ Matches(n, b)
      /\ f \in DOMAIN b /\ b[f] # <<>>
  BY BucketAdd DEF IsLFU, IsLFUType
<1>3. DOMAIN n = DOMAIN l.nodes \cup {k}
  BY DEF Put
<1>4. l.minFreq \in Nat \ {0}
  BY DEF IsLFU, IsLFUType
<1> HIDE DEF n, b
<1>5. IsLFUType(m)
  BY <1>1, <1>2, <1>4 DEF IsLFUType
<1>6. MinFreqInUse(m)
  BY <1>1, <1>2 DEF MinFreqInUse, Bucket
<1> QED BY <1>1, <1>2, <1>3, <1>5, <1>6 DEF IsLFU

\* A node moves from bucket to bucket, or stays in its own.
LEMMA LFUMoveProperties ==
    ASSUME NEW l, IsLFU(l), NEW k \in DOMAIN l.nodes, NEW f \in Nat \ {0},
           NEW t \in Nat, NEW m \in LFUMove(l, k, f, t)
    PROVE  IsLFU(m) /\ DOMAIN m.nodes = DOMAIN l.nodes
<1> DEFINE old == l.nodes[k].frequency
           r == [frequency |-> f, lastUsed |-> t]
           n == [l.nodes EXCEPT ![k] = r]
           b == removeFromFrequency(l.frequencies, k, old)
<1>1. /\ IsNodes(l.nodes) /\ IsBuckets(l.frequencies)
      /\ Matches(l.nodes, l.frequencies)
      /\ l.minFreq \in Nat \ {0} /\ MinFreqInUse(l) /\ k \in Keys
      /\ l = [nodes |-> l.nodes, frequencies |-> l.frequencies,
              minFreq |-> l.minFreq]
  BY DEF IsLFU, IsLFUType, IsNodes
<1>2. /\ DOMAIN n = DOMAIN l.nodes
      /\ n[k] = r
      /\ \A x \in DOMAIN l.nodes : x # k => n[x] = l.nodes[x]
  BY <1>1 DEF IsNodes
<1>3. CASE old = f
  <2>1. m = [nodes |-> n, frequencies |-> l.frequencies, minFreq |-> l.minFreq]
    BY <1>1, <1>3 DEF LFUMove
  <2>2. \A x \in DOMAIN n : n[x].frequency = l.nodes[x].frequency
    BY <1>2, <1>3
  <2>3. IsNodes(n)
    BY <1>1 DEF IsNodes, LFUNode
  <2> HIDE DEF n
  <2>4. Matches(n, l.frequencies)
    BY <1>1, <1>2, <2>2 DEF Matches
  <2> QED BY <1>1, <1>2, <2>1, <2>3, <2>4 DEF IsLFU, IsLFUType, MinFreqInUse
<1>4. CASE old # f
  <2> DEFINE n2 == Put(Drop(l.nodes, k), k, r)
             b2 == addToFrequency(b, k, f)
  <2>1. IsNodes(Drop(l.nodes, k)) /\ IsBuckets(b) /\ Matches(Drop(l.nodes, k), b)
    BY <1>1, BucketRemove
  <2>2. k \notin DOMAIN Drop(l.nodes, k)
    BY DEF Drop
  <2>3. IsNodes(n2) /\ IsBuckets(b2) /\ Matches(n2, b2)
    BY <1>1, <2>1, <2>2, BucketAdd
  <2>4. n2 = n
    BY <1>1 DEF Put, Drop, IsNodes
  <2>5. m \in LFUWith(n, b2, l.minFreq)
    BY <1>4 DEF LFUMove
  <2> HIDE DEF n, n2, b2
  <2>6. IsLFU(m) /\ m.nodes = n
    BY <1>1, <2>3, <2>4, <2>5, LFUWithProperties
  <2> QED BY <1>2, <2>6
<1> QED BY <1>3, <1>4

\* A node leaves; minFreq leaves a bucket it emptied.
LEMMA LFURemoveProperties ==
    ASSUME NEW l, IsLFU(l), NEW k, NEW m \in LFURemove(l, k)
    PROVE  IsLFU(m) /\ DOMAIN m.nodes = DOMAIN l.nodes \ {k}
<1>1. CASE k \in DOMAIN l.nodes
  <2> DEFINE n == Drop(l.nodes, k)
             b == removeFromFrequency(l.frequencies, k, l.nodes[k].frequency)
  <2>1. IsNodes(n) /\ IsBuckets(b) /\ Matches(n, b)
    BY <1>1, BucketRemove DEF IsLFU, IsLFUType
  <2>2. m \in LFUWith(n, b, l.minFreq)
    BY <1>1 DEF LFURemove
  <2>3. DOMAIN n = DOMAIN l.nodes \ {k}
    BY DEF Drop
  <2> HIDE DEF n, b
  <2> QED BY <2>1, <2>2, <2>3, LFUWithProperties DEF IsLFU, IsLFUType
<1>2. CASE k \notin DOMAIN l.nodes
  BY <1>2 DEF LFURemove
<1> QED BY <1>1, <1>2

-----------------------------------------------------------------------------
(* LFU: the victim.                                                        *)

\* A strict order on a finite set that is not empty has a minimal element.
LEMMA MinimalElement ==
    ASSUME NEW S, IsFiniteSet(S), S # {}, NEW R,
           \A x \in S : <<x, x>> \notin R,
           \A x, y, z \in S : <<x, y>> \in R /\ <<y, z>> \in R => <<x, z>> \in R
    PROVE  \E x \in S : \A y \in S : <<y, x>> \notin R
<1> DEFINE Below(x) == {y \in S : <<y, x>> \in R}
           T == {Below(x) : x \in S}
<1>1. T \subseteq FiniteSubsetsOf(S) /\ T # {}
  <2>1. T \subseteq SUBSET S /\ T # {}
    <3>1. \A x \in S : Below(x) \in SUBSET S
      OBVIOUS
    <3>2. PICK x \in S : TRUE
      OBVIOUS
    <3> HIDE DEF Below
    <3>3. Below(x) \in T
      OBVIOUS
    <3> QED BY <3>1, <3>3
  <2>2. FiniteSubsetsOf(S) = SUBSET S
    BY FS_FiniteSubsetsOfFinite
  <2> QED BY <2>1, <2>2
<1>2. PICK B \in T : \A C \in T : <<C, B>> \notin StrictSubsetOrdering(S)
  <2>1. IsWellFoundedOn(StrictSubsetOrdering(S), FiniteSubsetsOf(S))
    BY FS_StrictSubsetOrderingWellFounded
  <2> HIDE DEF T
  <2> QED BY <1>1, <2>1, WFMin
<1>3. PICK x \in S : B = Below(x)
  BY <1>2
<1>4. ASSUME NEW y \in S, <<y, x>> \in R PROVE FALSE
  <2>1. Below(y) \subseteq Below(x) /\ y \in Below(x) /\ y \notin Below(y)
    BY <1>4
  <2>2. <<Below(y), Below(x)>> \in StrictSubsetOrdering(S)
    BY <2>1 DEF StrictSubsetOrdering
  <2> QED BY <1>2, <1>3, <2>2
<1> QED BY <1>4

\* RemoveLeast finds a victim in the bucket of minFreq whenever there are nodes,
\* and no node of that bucket was used before it.
LEMMA OldestProperties ==
    ASSUME NEW l, IsLFU(l), DOMAIN l.nodes # {}
    PROVE  /\ LFUCandidates(l) # <<>>
           /\ l.minFreq \in DOMAIN l.frequencies
           /\ Oldest(l) \in DOMAIN l.nodes
           /\ l.nodes[Oldest(l)].frequency = l.minFreq
           /\ \A k \in DOMAIN l.nodes :
                 l.nodes[k].frequency = l.minFreq
                    => l.nodes[Oldest(l)].lastUsed <= l.nodes[k].lastUsed
<1> DEFINE b == LFUCandidates(l)
           lastUsed(i) == l.nodes[b[i]].lastUsed
           Before(i, j) == \/ lastUsed(i) < lastUsed(j)
                           \/ lastUsed(i) = lastUsed(j) /\ i <= j
           Least(i) == \A j \in DOMAIN b : Before(i, j)
<1>1. b = Bucket(l.frequencies, l.minFreq) /\ b # <<>>
  BY DEF LFUCandidates, IsLFU, MinFreqInUse
<1>2. l.minFreq \in DOMAIN l.frequencies /\ b = l.frequencies[l.minFreq]
  BY <1>1 DEF Bucket
<1>3. b \in Seq(Keys)
  BY <1>2 DEF IsLFU, IsLFUType, IsBuckets
<1>4. \A i \in DOMAIN b : /\ b[i] \in DOMAIN l.nodes
                          /\ l.nodes[b[i]].frequency = l.minFreq
  BY <1>2 DEF IsLFU, Matches, ToSet
<1> HIDE DEF b
<1>5. \A i \in DOMAIN b : lastUsed(i) \in Nat
  BY <1>4 DEF IsLFU, IsLFUType, IsNodes, LFUNode
<1>6. \E i \in DOMAIN b : Least(i)
  <2> DEFINE S == DOMAIN b
             R == {p \in S \X S : \/ lastUsed(p[1]) < lastUsed(p[2])
                                  \/ /\ lastUsed(p[1]) = lastUsed(p[2])
                                     /\ p[1] < p[2]}
  <2> HIDE DEF lastUsed
  <2>1. /\ S = 1 .. Len(b) /\ Len(b) \in Nat \ {0} /\ S \subseteq Nat
    BY <1>1, <1>3, EmptySeq
  <2>2. S # {} /\ IsFiniteSet(S)
    <3>1. 1 \in 1 .. Len(b) /\ IsFiniteSet(1 .. Len(b))
      BY <2>1, FS_Interval
    <3> HIDE DEF S
    <3> QED BY <2>1, <3>1
  <2> HIDE DEF S
  <2>3. \A x \in S : <<x, x>> \notin R
    BY <1>5, <2>1 DEF S
  <2>4. \A x, y, z \in S : <<x, y>> \in R /\ <<y, z>> \in R => <<x, z>> \in R
    BY <1>5, <2>1 DEF S
  <2> HIDE DEF R
  <2>5. PICK x \in S : \A y \in S : <<y, x>> \notin R
    BY <2>2, <2>3, <2>4, MinimalElement
  <2>6. ASSUME NEW y \in S PROVE Before(x, y)
    <3>1. ~(lastUsed(y) < lastUsed(x)) /\ ~(lastUsed(y) = lastUsed(x) /\ y < x)
      BY <2>5, <2>6 DEF R
    <3> QED BY <3>1, <1>5, <2>1 DEF S
  <2> QED BY <2>6 DEF S
<1>7. Oldest(l) = b[CHOOSE i \in DOMAIN b : Least(i)]
  BY DEF Oldest, b
<1>8. \E i \in DOMAIN b : Oldest(l) = b[i] /\ Least(i)
  <2> HIDE DEF Least
  <2> QED BY <1>6, <1>7
<1>9. ASSUME NEW k \in DOMAIN l.nodes, l.nodes[k].frequency = l.minFreq
      PROVE  l.nodes[Oldest(l)].lastUsed <= l.nodes[k].lastUsed
  <2>1. PICK i \in DOMAIN b : Oldest(l) = b[i] /\ Least(i)
    BY <1>8
  <2>2. PICK j \in DOMAIN b : k = b[j]
    BY <1>2, <1>9 DEF IsLFU, Matches, ToSet
  <2>3. Before(i, j)
    BY <2>1
  <2> QED BY <1>5, <2>1, <2>2, <2>3
<1> QED BY <1>1, <1>2, <1>4, <1>8, <1>9 DEF b

\* RemoveLeast finds a node whenever there is one.
LEMMA LFURemoveLeastProperties ==
    ASSUME NEW l, IsLFU(l), NEW m \in LFURemoveLeast(l)
    PROVE  /\ IsLFU(m)
           /\ DOMAIN l.nodes = {} => LFUVictim(l) = NoKey /\ m = l
           /\ DOMAIN l.nodes # {} =>
                 /\ LFUVictim(l) \in DOMAIN l.nodes
                 /\ DOMAIN m.nodes = DOMAIN l.nodes \ {LFUVictim(l)}
<1>1. CASE DOMAIN l.nodes = {}
  BY <1>1 DEF LFURemoveLeast, LFUVictim, LFUCandidates
<1>2. CASE DOMAIN l.nodes # {}
  <2> DEFINE k == Oldest(l)
             n == Drop(l.nodes, k)
             b == removeFromFrequency(l.frequencies, k, l.minFreq)
  <2>1. /\ LFUCandidates(l) # <<>>
        /\ k \in DOMAIN l.nodes
        /\ l.nodes[k].frequency = l.minFreq
    BY <1>2, OldestProperties
  <2>2. IsNodes(n) /\ IsBuckets(b) /\ Matches(n, b)
    BY <2>1, BucketRemove DEF IsLFU, IsLFUType
  <2>3. m \in LFUWith(n, b, l.minFreq) /\ LFUVictim(l) = k
    BY <2>1 DEF LFURemoveLeast, LFUVictim
  <2>4. DOMAIN n = DOMAIN l.nodes \ {k}
    BY DEF Drop
  <2> HIDE DEF k, n, b
  <2>5. IsLFU(m) /\ m.nodes = n
    BY <2>2, <2>3, LFUWithProperties DEF IsLFU, IsLFUType
  <2> QED BY <1>2, <2>1, <2>3, <2>4, <2>5
<1> QED BY <1>1, <1>2

-----------------------------------------------------------------------------
(* LFU: the nodes, and minFreq when it starts as the least frequency.      *)

\* updateMinFreq leaves the least frequency when it finds no more than that: the
\* 1 of bucket 1 then is what it found.
LEMMA LFUWithLeast ==
    ASSUME NEW nodes, NEW buckets, NEW m \in Nat \ {0},
           IsNodes(nodes), IsBuckets(buckets), Matches(nodes, buckets),
           \A k \in DOMAIN nodes : m <= nodes[k].frequency,
           NEW l \in LFUWith(nodes, buckets, m)
    PROVE  MinFreqIsLeast(l)
<1> DEFINE used == {f \in DOMAIN buckets : buckets[f] # <<>>}
<1>1. PICK f \in updateMinFreq(buckets, m) :
          l = [nodes |-> nodes, frequencies |-> buckets, minFreq |-> f]
  BY DEF LFUWith
<1>2. ASSUME NEW g \in used
      PROVE  g \in Nat \ {0} /\ \E k \in DOMAIN nodes : nodes[k].frequency = g
  <2>1. g \in DOMAIN buckets /\ buckets[g] \in Seq(Keys) /\ buckets[g] # <<>>
    BY DEF IsBuckets
  <2>2. 1 \in DOMAIN buckets[g]
    <3>1. Len(buckets[g]) \in Nat /\ Len(buckets[g]) # 0
      BY <2>1, EmptySeq
    <3>2. DOMAIN buckets[g] = 1 .. Len(buckets[g])
      BY <2>1
    <3> QED BY <3>1, <3>2
  <2>3. buckets[g][1] \in ToSet(buckets[g])
    BY <2>2 DEF ToSet
  <2> QED BY <2>1, <2>3 DEF Matches, IsBuckets
<1>3. \A k \in DOMAIN nodes : nodes[k].frequency \in used
  BY DEF Matches, ToSet
<1>4. \A k \in DOMAIN nodes : nodes[k].frequency \in Nat
  BY DEF IsNodes, LFUNode
<1>5. \A k \in DOMAIN nodes : f <= nodes[k].frequency
  <2>1. CASE f = m
    BY <2>1
  <2>2. CASE f # m
    <3>1. m \notin used /\ f \in updateMinFreq(buckets, m)
      BY <2>2 DEF updateMinFreq
    <3>2. 1 \notin used
      <4> SUFFICES ASSUME 1 \in used PROVE FALSE
        OBVIOUS
      <4>1. PICK k \in DOMAIN nodes : nodes[k].frequency = 1
        BY <1>2
      <4>2. m = 1
        BY <4>1
      <4> QED BY <3>1, <4>2
    <3>3. used = {} \/ \A g \in used : f <= g
      BY <3>1, <3>2 DEF updateMinFreq
    <3> HIDE DEF used
    <3> QED BY <1>3, <3>3
  <2> QED BY <2>1, <2>2
<1> QED BY <1>1, <1>5 DEF MinFreqIsLeast

\* A new node lowers minFreq to its frequency, or finds one that is as low.
LEMMA LFUInsertNodes ==
    ASSUME NEW l, IsLFU(l), NEW k \in Keys, k \notin DOMAIN l.nodes,
           NEW f \in Nat \ {0}, NEW t \in Nat, NEW m \in LFUInsert(l, k, f, t)
    PROVE  /\ m.nodes[k].frequency = f
           /\ \A x \in DOMAIN l.nodes : m.nodes[x] = l.nodes[x]
           /\ MinFreqIsLeast(l) => MinFreqIsLeast(m)
<1> DEFINE r == [frequency |-> f, lastUsed |-> t]
           n == Put(l.nodes, k, r)
           b == addToFrequency(l.frequencies, k, f)
           lower == f < l.minFreq \/ Bucket(b, l.minFreq) = <<>>
<1>1. m = [nodes |-> n, frequencies |-> b,
           minFreq |-> IF lower THEN f ELSE l.minFreq]
  BY DEF LFUInsert
<1>2. /\ DOMAIN n = DOMAIN l.nodes \cup {k} /\ n[k] = r
      /\ \A x \in DOMAIN l.nodes : n[x] = l.nodes[x]
  BY DEF Put
<1>3. /\ l.minFreq \in Nat \ {0} /\ MinFreqInUse(l)
      /\ \A x \in DOMAIN l.nodes : l.nodes[x].frequency \in Nat
  BY DEF IsLFU, IsLFUType, IsNodes, LFUNode
<1>4. ASSUME Bucket(b, l.minFreq) = <<>> PROVE DOMAIN l.nodes = {}
  <2>1. /\ DOMAIN b = DOMAIN l.frequencies \cup {f}
        /\ b[f] = Append(Bucket(l.frequencies, f), k)
        /\ \A g \in DOMAIN l.frequencies : g # f => b[g] = l.frequencies[g]
    BY DEF addToFrequency, Put
  <2>2. b[f] # <<>>
    <3>1. Bucket(l.frequencies, f) \in Seq(Keys)
      BY DEF Bucket, IsLFU, IsLFUType, IsBuckets
    <3> HIDE DEF b
    <3> QED BY <2>1, <3>1, AppendProperties, EmptySeq
  <2>3. l.minFreq # f
    BY <1>4, <2>1, <2>2 DEF Bucket
  <2>4. Bucket(l.frequencies, l.minFreq) = <<>>
    BY <1>4, <2>1, <2>3 DEF Bucket
  <2> QED BY <1>3, <2>4 DEF MinFreqInUse
<1> HIDE DEF n, b
<1>5. ASSUME MinFreqIsLeast(l) PROVE MinFreqIsLeast(m)
  <2>1. ASSUME NEW x \in DOMAIN l.nodes PROVE m.minFreq <= l.nodes[x].frequency
    BY <1>1, <1>3, <1>4, <1>5, <2>1 DEF MinFreqIsLeast
  <2>2. m.minFreq <= f
    BY <1>1, <1>3
  <2> QED BY <1>1, <1>2, <2>1, <2>2 DEF MinFreqIsLeast
<1> QED BY <1>1, <1>2, <1>5

\* A node that moves up leaves minFreq the least frequency.
LEMMA LFUMoveNodes ==
    ASSUME NEW l, IsLFU(l), NEW k \in DOMAIN l.nodes, NEW f \in Nat \ {0},
           NEW t \in Nat, NEW m \in LFUMove(l, k, f, t)
    PROVE  /\ m.nodes[k].frequency = f
           /\ \A x \in DOMAIN l.nodes : x # k => m.nodes[x] = l.nodes[x]
           /\ MinFreqIsLeast(l) /\ l.nodes[k].frequency <= f => MinFreqIsLeast(m)
<1> DEFINE old == l.nodes[k].frequency
           r == [frequency |-> f, lastUsed |-> t]
           n == [l.nodes EXCEPT ![k] = r]
           b == removeFromFrequency(l.frequencies, k, old)
<1>1. /\ IsNodes(l.nodes) /\ IsBuckets(l.frequencies)
      /\ Matches(l.nodes, l.frequencies)
      /\ l.minFreq \in Nat \ {0} /\ k \in Keys
      /\ l = [nodes |-> l.nodes, frequencies |-> l.frequencies,
              minFreq |-> l.minFreq]
      /\ \A x \in DOMAIN l.nodes : l.nodes[x].frequency \in Nat
  BY DEF IsLFU, IsLFUType, IsNodes, LFUNode
<1>2. /\ DOMAIN n = DOMAIN l.nodes /\ n[k] = r
      /\ \A x \in DOMAIN l.nodes : x # k => n[x] = l.nodes[x]
  BY <1>1 DEF IsNodes
<1>3. ASSUME MinFreqIsLeast(l), old <= f
      PROVE  \A x \in DOMAIN n : l.minFreq <= n[x].frequency
  BY <1>1, <1>2, <1>3 DEF MinFreqIsLeast
<1>4. CASE old = f
  <2>1. m = [nodes |-> n, frequencies |-> l.frequencies, minFreq |-> l.minFreq]
    BY <1>1, <1>4 DEF LFUMove
  <2> HIDE DEF n
  <2> QED BY <1>2, <1>3, <2>1 DEF MinFreqIsLeast
<1>5. CASE old # f
  <2> DEFINE n2 == Put(Drop(l.nodes, k), k, r)
             b2 == addToFrequency(b, k, f)
  <2>1. IsNodes(Drop(l.nodes, k)) /\ IsBuckets(b) /\ Matches(Drop(l.nodes, k), b)
    BY <1>1, BucketRemove
  <2>2. k \notin DOMAIN Drop(l.nodes, k)
    BY DEF Drop
  <2>3. IsNodes(n2) /\ IsBuckets(b2) /\ Matches(n2, b2)
    BY <1>1, <2>1, <2>2, BucketAdd
  <2>4. n2 = n
    BY <1>1 DEF Put, Drop, IsNodes
  <2>5. m \in LFUWith(n, b2, l.minFreq)
    BY <1>5 DEF LFUMove
  <2> HIDE DEF n, n2, b2
  <2>6. m.nodes = n
    BY <1>1, <2>3, <2>4, <2>5, LFUWithProperties
  <2>7. ASSUME MinFreqIsLeast(l), old <= f PROVE MinFreqIsLeast(m)
    BY <1>1, <1>3, <2>3, <2>4, <2>5, <2>7, LFUWithLeast
  <2> QED BY <1>2, <2>6, <2>7
<1> QED BY <1>4, <1>5

\* The nodes that stay are as they were, and so is minFreq the least frequency,
\* when a key is removed,
LEMMA LFURemoveNodes ==
    ASSUME NEW l, IsLFU(l), NEW k, NEW m \in LFURemove(l, k)
    PROVE  /\ \A x \in DOMAIN m.nodes : x \in DOMAIN l.nodes /\ m.nodes[x] = l.nodes[x]
           /\ MinFreqIsLeast(l) => MinFreqIsLeast(m)
<1>1. CASE k \in DOMAIN l.nodes
  <2> DEFINE n == Drop(l.nodes, k)
             b == removeFromFrequency(l.frequencies, k, l.nodes[k].frequency)
  <2>1. IsNodes(n) /\ IsBuckets(b) /\ Matches(n, b)
    BY <1>1, BucketRemove DEF IsLFU, IsLFUType
  <2>2. m \in LFUWith(n, b, l.minFreq) /\ l.minFreq \in Nat \ {0}
    BY <1>1 DEF LFURemove, IsLFU, IsLFUType
  <2>3. \A x \in DOMAIN n : x \in DOMAIN l.nodes /\ n[x] = l.nodes[x]
    BY DEF Drop
  <2> HIDE DEF n, b
  <2>4. m.nodes = n
    BY <2>1, <2>2, LFUWithProperties
  <2>5. ASSUME MinFreqIsLeast(l) PROVE MinFreqIsLeast(m)
    <3>1. \A x \in DOMAIN n : l.minFreq <= n[x].frequency
      BY <2>3, <2>5 DEF MinFreqIsLeast
    <3> QED BY <2>1, <2>2, <3>1, LFUWithLeast
  <2> QED BY <2>3, <2>4, <2>5
<1>2. CASE k \notin DOMAIN l.nodes
  BY <1>2 DEF LFURemove
<1> QED BY <1>1, <1>2

\* and when RemoveLeast takes one.
LEMMA LFURemoveLeastNodes ==
    ASSUME NEW l, IsLFU(l), NEW m \in LFURemoveLeast(l)
    PROVE  /\ \A x \in DOMAIN m.nodes : x \in DOMAIN l.nodes /\ m.nodes[x] = l.nodes[x]
           /\ MinFreqIsLeast(l) => MinFreqIsLeast(m)
<1>1. CASE DOMAIN l.nodes = {}
  BY <1>1, LFURemoveLeastProperties
<1>2. CASE DOMAIN l.nodes # {}
  <2>1. /\ Oldest(l) \in DOMAIN l.nodes
        /\ l.nodes[Oldest(l)].frequency = l.minFreq
        /\ LFUCandidates(l) # <<>>
    BY <1>2, OldestProperties
  <2>2. m \in LFURemove(l, Oldest(l))
    BY <2>1 DEF LFURemoveLeast, LFURemove
  <2> QED BY <2>2, LFURemoveNodes
<1> QED BY <1>1, <1>2

-----------------------------------------------------------------------------
(* The interface, for every policy: what a shard relies on.                *)

\* A new or cleared list is well formed and tracks nothing.
THEOREM ListNewProperties == IsList(ListNew) /\ KeysIn(ListNew) = {}
<1>1. CASE Policy = "LFU"
  <2>1. /\ ListNew.nodes = <<>> /\ ListNew.frequencies = <<>>
        /\ ListNew.minFreq = 1
        /\ ListNew = [nodes |-> ListNew.nodes,
                      frequencies |-> ListNew.frequencies,
                      minFreq |-> ListNew.minFreq]
    BY <1>1 DEF ListNew, NewLFU
  <2>2. DOMAIN ListNew.nodes = {} /\ DOMAIN ListNew.frequencies = {}
    BY <2>1
  <2>3. IsNodes(ListNew.nodes) /\ IsBuckets(ListNew.frequencies)
    BY <2>1, <2>2 DEF IsNodes, IsBuckets
  <2>4. Matches(ListNew.nodes, ListNew.frequencies)
    BY <2>2 DEF Matches
  <2>5. MinFreqInUse(ListNew)
    BY <2>2 DEF MinFreqInUse
  <2>6. IsLFU(ListNew)
    BY <2>1, <2>3, <2>4, <2>5 DEF IsLFU, IsLFUType
  <2> QED BY <1>1, <2>2, <2>6 DEF IsList, KeysIn
<1>2. CASE Policy # "LFU"
  BY <1>2 DEF ListNew, IsList, IsQueue, KeysIn, ToSet, IsInjective
<1> QED BY <1>1, <1>2

\* A well-formed list has the type of a list.
THEOREM ListHasType == ASSUME NEW l, IsList(l) PROVE IsListType(l)
BY DEF IsList, IsListType, IsLFU, IsQueue

\* Add of a key the list does not track, as Set calls it, adds that key.
THEOREM ListAddProperties ==
    ASSUME NEW l, IsList(l), NEW k \in Keys, k \notin KeysIn(l),
           NEW count \in Nat, NEW t \in Nat, NEW m \in ListAdd(l, k, count, t)
    PROVE  IsList(m) /\ KeysIn(m) = KeysIn(l) \cup {k}
<1>1. CASE Policy = "LFU"
  <2>1. PICK f \in Nat \ {0} : m \in LFUInsert(l, k, f, t)
    BY <1>1 DEF ListAdd, LFUAdd, KeysIn
  <2> QED BY <1>1, <2>1, LFUInsertProperties DEF IsList, KeysIn
<1>2. CASE Policy # "LFU"
  <2>1. l \in Seq(Keys) /\ IsInjective(l) /\ k \notin ToSet(l)
    BY <1>2 DEF IsList, IsQueue, KeysIn
  <2>2. m = Append(l, k)
    <3>1. CASE Policy = "LRU"
      BY <3>1, <2>1 DEF ListAdd, LRUAdd, Without
    <3>2. CASE Policy = "FIFO"
      BY <3>2, <2>1 DEF ListAdd, FIFOAdd
    <3> QED BY <1>2, <3>1, <3>2, PolicyAssumption
  <2> QED BY <1>2, <2>1, <2>2, AppendNew DEF IsList, IsQueue, KeysIn
<1> QED BY <1>1, <1>2

\* Remove takes out its key and no other, whether the list tracks it or not.
THEOREM ListRemoveProperties ==
    ASSUME NEW l, IsList(l), NEW k, NEW m \in ListRemove(l, k)
    PROVE  IsList(m) /\ KeysIn(m) = KeysIn(l) \ {k}
<1>1. CASE Policy = "LFU"
  BY <1>1, LFURemoveProperties DEF ListRemove, IsList, KeysIn
<1>2. CASE Policy # "LFU"
  BY <1>2, WithoutProperties DEF ListRemove, IsList, IsQueue, KeysIn
<1> QED BY <1>1, <1>2

\* Update changes which key is the next victim, never which keys are tracked,
\* even if the item it is given is no longer the one in the map.
THEOREM ListUpdateProperties ==
    ASSUME NEW l, IsList(l), NEW k, NEW count \in Nat \ {0}, NEW t \in Nat,
           NEW m \in ListUpdate(l, k, count, t)
    PROVE  IsList(m) /\ KeysIn(m) = KeysIn(l)
<1>1. CASE Policy = "LFU"
  <2>1. CASE k \in DOMAIN l.nodes
    BY <1>1, <2>1, LFUMoveProperties DEF ListUpdate, LFUUpdate, IsList, KeysIn
  <2>2. CASE k \notin DOMAIN l.nodes
    BY <1>1, <2>2 DEF ListUpdate, LFUUpdate
  <2> QED BY <1>1, <2>1, <2>2
<1>2. CASE Policy = "LRU"
  <2>1. l \in Seq(Keys) /\ IsInjective(l)
    BY <1>2 DEF IsList, IsQueue
  <2>2. CASE k \in ToSet(l)
    <3> DEFINE s == Without(l, k)
    <3>1. s \in Seq(Keys) /\ IsInjective(s) /\ ToSet(s) = ToSet(l) \ {k}
      BY <2>1, WithoutProperties
    <3>2. k \in Keys
      BY <2>1, <2>2 DEF ToSet
    <3>3. m = Append(s, k)
      BY <1>2, <2>2 DEF ListUpdate, LRUUpdate
    <3> HIDE DEF s
    <3>4. m \in Seq(Keys) /\ IsInjective(m) /\ ToSet(m) = ToSet(s) \cup {k}
      BY <3>1, <3>2, <3>3, AppendNew
    <3> QED BY <1>2, <2>2, <3>1, <3>4 DEF IsList, IsQueue, KeysIn
  <2>3. CASE k \notin ToSet(l)
    BY <1>2, <2>3 DEF ListUpdate, LRUUpdate
  <2> QED BY <2>2, <2>3
<1>3. CASE Policy = "FIFO"
  BY <1>3 DEF ListUpdate, FIFOUpdate
<1> QED BY <1>1, <1>2, <1>3, PolicyAssumption

\* RemoveLeast names a tracked key and takes it out; only of an empty list does
\* it name none.  Evictions can therefore go on as long as there are keys.
THEOREM RemoveLeastProperties ==
    ASSUME NEW l, IsList(l), NEW m \in RemoveLeast(l)
    PROVE  /\ IsList(m)
           /\ KeysIn(l) = {} => Victim(l) = NoKey /\ m = l
           /\ KeysIn(l) # {} => /\ Victim(l) \in KeysIn(l)
                                /\ KeysIn(m) = KeysIn(l) \ {Victim(l)}
<1>1. CASE Policy = "LFU"
  BY <1>1, LFURemoveLeastProperties DEF RemoveLeast, Victim, IsList, KeysIn
<1>2. CASE Policy # "LFU"
  <2>1. l \in Seq(Keys) /\ IsInjective(l)
    BY <1>2 DEF IsList, IsQueue
  <2>2. CASE l = <<>>
    <3>1. KeysIn(l) = {}
      BY <1>2, <2>2 DEF KeysIn, ToSet
    <3> QED BY <1>2, <2>2, <3>1 DEF RemoveLeast, QueueRemoveLeast, Victim, QueueVictim
  <2>3. CASE l # <<>>
    <3>1. m = Tail(l) /\ Victim(l) = Head(l)
      BY <1>2, <2>3 DEF RemoveLeast, QueueRemoveLeast, Victim, QueueVictim
    <3>2. /\ Tail(l) \in Seq(Keys) /\ IsInjective(Tail(l))
          /\ Head(l) \in ToSet(l)
          /\ ToSet(Tail(l)) = ToSet(l) \ {Head(l)}
      BY <2>1, <2>3, TailProperties
    <3>3. KeysIn(l) # {}
      BY <1>2, <3>2 DEF KeysIn
    <3> QED BY <1>2, <3>1, <3>2, <3>3 DEF IsList, IsQueue, KeysIn
  <2> QED BY <2>2, <2>3
<1> QED BY <1>1, <1>2
=============================================================================
