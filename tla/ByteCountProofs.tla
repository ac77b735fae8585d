--------------------------- MODULE ByteCountProofs ---------------------------
(***************************************************************************)
(* The bytes of a set of keys are finitely many, and grow and shrink by    *)
(* the size of each key that joins or leaves.                              *)
(***************************************************************************)
EXTENDS ByteCount, FiniteSetTheorems, WellFoundedInduction, TLAPS

\* The bytes of a key are as many as its size, and of none but its own.
LEMMA BytesFinite ==
    ASSUME NEW K, IsFiniteSet(K), NEW sizes, \A k \in K : sizes[k] \in Nat
    PROVE  IsFiniteSet(Bytes(sizes, K))
<1> DEFINE B(k) == {k} \X (1 .. sizes[k])
           T == {B(k) : k \in K}
<1>1. \A k \in K : IsFiniteSet(B(k))
  <2> SUFFICES ASSUME NEW k \in K PROVE IsFiniteSet(B(k))
    OBVIOUS
  <2>1. 1 \in Int /\ sizes[k] \in Int
    OBVIOUS
  <2>2. IsFiniteSet({k}) /\ IsFiniteSet(1 .. sizes[k])
    BY <2>1, FS_Singleton, FS_Interval
  <2> QED BY <2>2, FS_Product
<1>2. IsFiniteSet(T)
  <2> DEFINE f == [k \in K |-> B(k)]
  <2>1. f \in Surjection(K, T)
    <3> HIDE DEF B
    <3> QED BY DEF Surjection
  <2> HIDE DEF f, T
  <2> QED BY <2>1, FS_Surjection
<1> QED BY <1>1, <1>2, FS_UNION DEF Bytes

\* As many bytes as the size says.
LEMMA IntervalSize ==
    ASSUME NEW n \in Nat
    PROVE  IsFiniteSet(1 .. n) /\ Cardinality(1 .. n) = n
BY FS_Interval

\* A key adds its size.
LEMMA BytesAdd ==
    ASSUME NEW K, IsFiniteSet(K), NEW k, k \notin K, NEW sizes,
           \A j \in K \cup {k} : sizes[j] \in Nat
    PROVE  Cardinality(Bytes(sizes, K \cup {k}))
              = Cardinality(Bytes(sizes, K)) + sizes[k]
<1> DEFINE A == Bytes(sizes, K)
           B == {k} \X (1 .. sizes[k])
<1>. sizes[k] \in Nat
  OBVIOUS
<1>1. IsFiniteSet(A)
  BY BytesFinite
<1>2. IsFiniteSet(B) /\ Cardinality(B) = sizes[k]
  <2>1. IsFiniteSet({k}) /\ Cardinality({k}) = 1
    BY FS_Singleton
  <2>2. IsFiniteSet(1 .. sizes[k]) /\ Cardinality(1 .. sizes[k]) = sizes[k]
    BY ONLY sizes[k] \in Nat, IntervalSize
  <2>3. /\ IsFiniteSet(B)
        /\ Cardinality(B) = Cardinality({k}) * Cardinality(1 .. sizes[k])
    BY <2>1, <2>2, FS_Product
  <2> QED BY <2>1, <2>2, <2>3
<1>3. A \cap B = {}
  BY DEF Bytes
<1>4. Bytes(sizes, K \cup {k}) = A \cup B
  BY DEF Bytes
<1> HIDE DEF A, B
<1>5. Cardinality(A \cup B) = Cardinality(A) + Cardinality(B) - Cardinality(A \cap B)
  BY <1>1, <1>2, FS_Union
<1>6. Cardinality(A) \in Nat /\ Cardinality(A \cap B) = 0
  BY <1>1, <1>3, FS_CardinalityType, FS_EmptySet
<1>7. Cardinality(A \cup B) = Cardinality(A) + sizes[k]
  BY <1>2, <1>5, <1>6
<1> QED BY <1>4, <1>7 DEF A

\* A key takes its size away.
LEMMA BytesRemove ==
    ASSUME NEW K, IsFiniteSet(K), NEW k \in K, NEW sizes,
           \A j \in K : sizes[j] \in Nat
    PROVE  Cardinality(Bytes(sizes, K \ {k}))
              = Cardinality(Bytes(sizes, K)) - sizes[k]
<1>. sizes[k] \in Nat
  OBVIOUS
<1>1. IsFiniteSet(K \ {k}) /\ k \notin K \ {k} /\ (K \ {k}) \cup {k} = K
  BY FS_RemoveElement
<1>2. \A j \in (K \ {k}) \cup {k} : sizes[j] \in Nat
  OBVIOUS
<1>3. Cardinality(Bytes(sizes, (K \ {k}) \cup {k}))
        = Cardinality(Bytes(sizes, K \ {k})) + sizes[k]
  BY <1>1, <1>2, BytesAdd
<1>4. Cardinality(Bytes(sizes, K \ {k})) \in Nat
  BY <1>1, BytesFinite, FS_CardinalityType
<1> QED BY <1>1, <1>3, <1>4

\* Bytes depends on the sizes of the keys at hand only.
LEMMA BytesAgree ==
    ASSUME NEW K, NEW s, NEW t, \A k \in K : s[k] = t[k]
    PROVE  Bytes(s, K) = Bytes(t, K)
BY DEF Bytes

\* No keys, no bytes.
LEMMA BytesNone == ASSUME NEW sizes PROVE Cardinality(Bytes(sizes, {})) = 0
BY FS_EmptySet DEF Bytes

\* Among numbers there is a least: what holds at zero, and never ends to hold, holds
\* for all of them.
LEMMA LeastNumber ==
    ASSUME NEW S, S \subseteq Nat, S # {}
    PROVE  \E m \in S : \A n \in S : m <= n
<1> DEFINE R == {ss \in Nat \X Nat : ss[1] < ss[2]}
<1>1. IsWellFoundedOn(R, Nat)
  BY NatLessThanWellFounded DEF OpToRel
<1>2. PICK m \in S : \A n \in S : <<n, m>> \notin R
  <2> HIDE DEF R
  <2> QED BY <1>1, WFMin
<1>3. \A n \in S : ~(n < m)
  BY <1>2
<1> QED BY <1>3

\* Two sets of keys take no more than both.
LEMMA BytesUnion ==
    ASSUME NEW A, NEW B, NEW sizes, IsFiniteSet(A), IsFiniteSet(B),
           \A k \in A \cup B : sizes[k] \in Nat
    PROVE  Cardinality(Bytes(sizes, A \cup B))
              <= Cardinality(Bytes(sizes, A)) + Cardinality(Bytes(sizes, B))
<1> DEFINE X == Bytes(sizes, A)
           Y == Bytes(sizes, B)
<1>1. IsFiniteSet(X) /\ IsFiniteSet(Y)
  BY BytesFinite
<1>2. Bytes(sizes, A \cup B) = X \cup Y
  BY DEF Bytes
<1> HIDE DEF X, Y
<1>3. Cardinality(X \cup Y) = Cardinality(X) + Cardinality(Y) - Cardinality(X \cap Y)
  BY <1>1, FS_Union
<1>4. X \cap Y \subseteq X
  OBVIOUS
<1>5. /\ Cardinality(X) \in Nat /\ Cardinality(Y) \in Nat
      /\ Cardinality(X \cap Y) \in Nat
  BY <1>1, <1>4, FS_Subset, FS_CardinalityType
<1>6. Cardinality(X \cup Y) <= Cardinality(X) + Cardinality(Y)
  BY <1>3, <1>5
<1> QED BY <1>2, <1>6 DEF X, Y

\* The keys of n parts take no more than n times what each may.
LEMMA BytesOfParts ==
    ASSUME NEW n \in Nat, NEW parts, NEW sizes, NEW most \in Nat,
           \A i \in 0 .. n - 1 : /\ IsFiniteSet(parts[i])
                                 /\ \A k \in parts[i] : sizes[k] \in Nat
                                 /\ Cardinality(Bytes(sizes, parts[i])) <= most
    PROVE  Cardinality(Bytes(sizes, UNION {parts[i] : i \in 0 .. n - 1})) <= n * most
<1> DEFINE First(m) == UNION {parts[i] : i \in 0 .. m - 1}
           Good(m) == /\ IsFiniteSet(First(m))
                      /\ \A k \in First(m) : sizes[k] \in Nat
                      /\ Cardinality(Bytes(sizes, First(m))) <= m * most
           bad == {m \in 0 .. n : ~Good(m)}
<1>1. Good(0)
  <2>1. First(0) = {}
    <3>1. 0 .. 0 - 1 = {}
      OBVIOUS
    <3> QED BY <3>1
  <2> HIDE DEF First
  <2>2. IsFiniteSet(First(0)) /\ Cardinality(Bytes(sizes, First(0))) = 0
    BY <2>1, BytesNone, FS_EmptySet
  <2>3. 0 * most = 0
    OBVIOUS
  <2> QED BY <2>1, <2>2, <2>3
<1>2. ASSUME NEW m \in 0 .. n - 1, Good(m) PROVE Good(m + 1)
  <2> DEFINE A == First(m)
             B == parts[m]
  <2>1. First(m + 1) = A \cup B
    <3>1. 0 .. (m + 1) - 1 = (0 .. m - 1) \cup {m}
      OBVIOUS
    <3>2. First(m + 1) = UNION {parts[i] : i \in (0 .. m - 1) \cup {m}}
      BY <3>1
    <3> QED BY <3>2
  <2>2. /\ IsFiniteSet(A) /\ IsFiniteSet(B)
        /\ \A k \in A \cup B : sizes[k] \in Nat
        /\ Cardinality(Bytes(sizes, A)) <= m * most
        /\ Cardinality(Bytes(sizes, B)) <= most
    BY <1>2
  <2> HIDE DEF First, A, B
  <2>3. /\ IsFiniteSet(A \cup B)
        /\ Cardinality(Bytes(sizes, A \cup B))
             <= Cardinality(Bytes(sizes, A)) + Cardinality(Bytes(sizes, B))
    BY <2>2, FS_Union, BytesUnion
  <2>4. /\ Cardinality(Bytes(sizes, A)) \in Nat /\ Cardinality(Bytes(sizes, B)) \in Nat
        /\ Cardinality(Bytes(sizes, A \cup B)) \in Nat
    <3>1. /\ \A k \in A : sizes[k] \in Nat
          /\ \A k \in B : sizes[k] \in Nat
      BY <2>2
    <3> QED BY <2>2, <2>3, <3>1, BytesFinite, FS_CardinalityType
  <2>5. (m + 1) * most = m * most + most /\ m * most \in Nat
    OBVIOUS
  <2>6. Cardinality(Bytes(sizes, A \cup B)) <= (m + 1) * most
    BY <2>2, <2>3, <2>4, <2>5
  <2> QED BY <2>1, <2>2, <2>3, <2>6
<1> HIDE DEF Good
<1>3. bad = {}
  <2> SUFFICES ASSUME bad # {} PROVE FALSE
    OBVIOUS
  <2>1. PICK m \in bad : \A j \in bad : m <= j
    <3>1. bad \subseteq Nat
      OBVIOUS
    <3> HIDE DEF bad
    <3> QED BY <3>1, LeastNumber
  <2>2. m \in 0 .. n /\ ~Good(m) /\ m # 0
    BY <1>1, <2>1
  <2>3. m - 1 \in 0 .. n - 1 /\ (m - 1) + 1 = m
    BY <2>2
  <2>4. Good(m - 1)
    BY <2>1, <2>3
  <2> QED BY <1>2, <2>2, <2>3, <2>4
<1>4. Good(n)
  BY <1>3
<1> QED BY <1>4 DEF Good
=============================================================================
