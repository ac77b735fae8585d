----------------------------- MODULE LoopProofs -----------------------------
(***************************************************************************)
(* What the loops of the program compute: the least frequency for every    *)
(* set of buckets and every order in which Go may visit them, and the unit *)
(* and the tenths that formatBytes prints for every number of bytes that a *)
(* float64 has, and every unit.                                            *)
(***************************************************************************)
EXTENDS LoopCalls, ByteCountProofs

-----------------------------------------------------------------------------
(* The loop of updateMinFreq.                                              *)

\* The buckets in use among those that are to come, and the least of some
\* frequencies.
Used(buckets, todo) == {f \in todo : buckets[f] # <<>>}

Least(S) == {f \in S : \A g \in S : f <= g}

\* What the loop may leave in minFreq from here: m is in it, todo is to come.
Ahead(buckets, todo, m) ==
    LET used == Used(buckets, todo)
    IN  IF used = {} THEN {m}
        ELSE IF 1 \in used THEN used
        ELSE IF m = 1 THEN Least(used)
        ELSE Least(used \cup {m})

\* A bucket that is empty changes nothing.
LEMMA VisitEmpty ==
    ASSUME NEW buckets, NEW todo, NEW f \in todo, NEW m, buckets[f] = <<>>
    PROVE  Ahead(buckets, todo \ {f}, visit(buckets, f, m)) = Ahead(buckets, todo, m)
<1>1. visit(buckets, f, m) = m /\ Used(buckets, todo \ {f}) = Used(buckets, todo)
  BY DEF visit, Used
<1> QED BY <1>1 DEF Ahead

\* While bucket 1 is not in use, the loop finds the least frequency whichever
\* bucket comes next.
LEMMA VisitInAnyOrder ==
    ASSUME NEW buckets, NEW todo \in SUBSET (Nat \ {0}), NEW f \in todo,
           NEW m \in Nat \ {0}, 1 \notin Used(buckets, todo)
    PROVE  Ahead(buckets, todo \ {f}, visit(buckets, f, m)) = Ahead(buckets, todo, m)
<1>1. CASE buckets[f] = <<>>
  BY <1>1, VisitEmpty
<1>2. CASE buckets[f] # <<>>
  <2> DEFINE U == Used(buckets, todo)
             W == Used(buckets, todo \ {f})
             v == visit(buckets, f, m)
  <2>1. U = W \cup {f} /\ f \notin W /\ U \in SUBSET (Nat \ {0}) /\ f # 1 /\ 1 \notin W
    <3>1. f \in U /\ U \subseteq todo /\ W = U \ {f} /\ 1 \notin U
      BY <1>2 DEF Used
    <3> HIDE DEF U, W
    <3> QED BY <3>1
  <2>2. v = IF f < m \/ m = 1 THEN f ELSE m
    BY <1>2 DEF visit
  <2>3. v \in Nat \ {0} /\ v # 1
    BY <2>1, <2>2
  <2>4. Ahead(buckets, todo, m) = IF m = 1 THEN Least(U) ELSE Least(U \cup {m})
    BY <2>1 DEF Ahead
  <2>5. Ahead(buckets, todo \ {f}, v) = IF W = {} THEN {v} ELSE Least(W \cup {v})
    BY <2>1, <2>3 DEF Ahead
  <2> HIDE DEF U, W, v
  <2>6. {v} = Least({v})
    BY <2>3 DEF Least
  <2>7. Ahead(buckets, todo \ {f}, v) = Least(W \cup {v})
    <3>1. CASE W = {}
      <4>1. W \cup {v} = {v}
        BY <3>1
      <4>2. Ahead(buckets, todo \ {f}, v) = {v}
        BY <2>5, <3>1
      <4> QED BY <2>6, <4>1, <4>2
    <3> QED BY <2>5, <3>1
  <2>8. Ahead(buckets, todo \ {f}, v) = Ahead(buckets, todo, m)
    <3>1. CASE m = 1
      <4>1. W \cup {v} = U
        BY <2>1, <2>2, <3>1
      <4> QED BY <2>4, <2>7, <3>1, <4>1
    <3>2. CASE m # 1
      <4>1. Ahead(buckets, todo, m) = Least(W \cup {f, m})
        <5>1. U \cup {m} = W \cup {f, m}
          BY <2>1
        <5> QED BY <2>4, <3>2, <5>1
      <4>2. Least(W \cup {f, m}) = Least(W \cup {v})
        <5>1. v = IF f < m THEN f ELSE m
          BY <2>2, <3>2
        <5>2. W \subseteq Nat /\ f \in Nat
          BY <2>1
        <5>3. ASSUME NEW r \in Least(W \cup {f, m}) PROVE r \in Least(W \cup {v})
          BY <5>1, <5>2, <5>3 DEF Least
        <5>4. ASSUME NEW r \in Least(W \cup {v}) PROVE r \in Least(W \cup {f, m})
          BY <5>1, <5>2, <5>4 DEF Least
        <5> QED BY <5>3, <5>4
      <4> QED BY <2>7, <4>1, <4>2
    <3> QED BY <3>1, <3>2
  <2> QED BY <2>8 DEF v
<1> QED BY <1>1, <1>2

\* With bucket 1 in use every frequency in use may be the result, and no other.
LEMMA VisitWithBucketOne ==
    ASSUME NEW buckets, NEW todo \in SUBSET (Nat \ {0}), NEW m \in Nat \ {0},
           1 \in Used(buckets, todo)
    PROVE  Ahead(buckets, todo, m)
             = UNION {Ahead(buckets, todo \ {f}, visit(buckets, f, m)) : f \in todo}
<1> DEFINE U == Used(buckets, todo)
           Next1(f) == Ahead(buckets, todo \ {f}, visit(buckets, f, m))
<1>0. U \in SUBSET (Nat \ {0}) /\ U \subseteq todo /\ 1 \in U
  BY DEF Used
<1>1. Ahead(buckets, todo, m) = U
  BY DEF Ahead
<1>2. ASSUME NEW f \in todo \ U PROVE Next1(f) = U
  BY <1>1, <1>2, VisitEmpty DEF Used
<1>3. ASSUME NEW f \in U, f # 1 PROVE Next1(f) = U \ {f}
  <2>1. Used(buckets, todo \ {f}) = U \ {f} /\ 1 \in U \ {f}
    BY <1>3 DEF Used
  <2> QED BY <2>1 DEF Ahead
<1>4. Next1(1) = IF U = {1} THEN {1} ELSE Least(U \ {1})
  <2>1. Used(buckets, todo \ {1}) = U \ {1}
    BY DEF Used
  <2>2. visit(buckets, 1, m) = 1
    BY DEF visit, Used
  <2> HIDE DEF U
  <2> QED BY <1>0, <2>1, <2>2 DEF Ahead
<1> HIDE DEF U, Next1
<1>5. ASSUME NEW f \in todo PROVE Next1(f) \subseteq U
  BY <1>0, <1>2, <1>3, <1>4 DEF Least
<1>6. ASSUME NEW r \in U PROVE \E f \in todo : r \in Next1(f)
  <2>1. CASE \E f \in U : f # 1 /\ f # r
    BY <1>0, <1>3, <2>1
  <2>2. CASE \A f \in U : f = 1 \/ f = r
    <3>1. CASE r = 1
      <4>1. U = {1}
        BY <1>0, <2>2, <3>1
      <4> QED BY <1>0, <1>4, <3>1, <4>1
    <3>2. CASE r # 1
      <4>1. U \ {1} = {r} /\ U # {1}
        BY <1>0, <1>6, <2>2, <3>2
      <4>2. r \in Least({r})
        BY <1>0, <1>6 DEF Least
      <4> QED BY <1>0, <1>4, <4>1, <4>2
    <3> QED BY <3>1, <3>2
  <2> QED BY <2>1, <2>2
<1>7. U = UNION {Next1(f) : f \in todo}
  BY <1>5, <1>6
<1> QED BY <1>1, <1>7 DEF Next1

\* One more bucket is visited: what the loop may leave is what it may leave after
\* one of those to come.
LEMMA AheadOfOneVisit ==
    ASSUME NEW buckets, NEW todo \in SUBSET (Nat \ {0}), todo # {}, NEW m \in Nat \ {0}
    PROVE  Ahead(buckets, todo, m)
             = UNION {Ahead(buckets, todo \ {f}, visit(buckets, f, m)) : f \in todo}
<1>1. CASE 1 \in Used(buckets, todo)
  BY <1>1, VisitWithBucketOne
<1>2. CASE 1 \notin Used(buckets, todo)
  <2>1. \A f \in todo :
           Ahead(buckets, todo \ {f}, visit(buckets, f, m)) = Ahead(buckets, todo, m)
    BY <1>2, VisitInAnyOrder
  <2> QED BY <2>1
<1> QED BY <1>1, <1>2

\* The loop reads in minFreq the 1 it started with or the frequency of a bucket.
LEMMA VisitReads ==
    ASSUME NEW buckets, NEW f \in DOMAIN buckets, NEW m \in DOMAIN buckets \cup {1}
    PROVE  visit(buckets, f, m) \in DOMAIN buckets \cup {1}
BY DEF visit

\* The loop leaves what the closed form says, for all buckets and in every order:
\* of the functions that satisfy the loop's equation there is one, Ahead.
LEMMA LoopClosedForm ==
    ASSUME NEW buckets, NEW minFreq, DOMAIN buckets \in SUBSET (Nat \ {0}),
           IsFiniteSet(DOMAIN buckets)
    PROVE  updateMinFreqLoop(buckets, minFreq) = updateMinFreq(buckets, minFreq)
<1> DEFINE D == DOMAIN buckets
           M == D \cup {1}
           Step(g, todo) == [m \in M |->
                               IF todo = {} THEN {m}
                               ELSE UNION {g[todo \ {f}][visit(buckets, f, m)] : f \in todo}]
           closed == [todo \in SUBSET D |-> [m \in M |-> Ahead(buckets, todo, m)]]
           after == CHOOSE g : g = [todo \in SUBSET D |-> Step(g, todo)]
           Good(n) == \A todo \in SUBSET D :
                         Cardinality(todo) = n => after[todo] = closed[todo]
           bad == {n \in Nat : ~Good(n)}
<1>1. \A todo \in SUBSET D : closed[todo] = [m \in M |-> Ahead(buckets, todo, m)]
  OBVIOUS
<1>2. ASSUME NEW todo \in SUBSET D PROVE closed[todo] = Step(closed, todo)
  <2>1. ASSUME NEW m \in M
        PROVE  Ahead(buckets, todo, m)
                 = IF todo = {} THEN {m}
                   ELSE UNION {closed[todo \ {f}][visit(buckets, f, m)] : f \in todo}
    <3>1. CASE todo = {}
      BY <3>1 DEF Ahead, Used
    <3>2. CASE todo # {}
      <4>1. todo \in SUBSET (Nat \ {0}) /\ m \in Nat \ {0}
        OBVIOUS
      <4>2. Ahead(buckets, todo, m)
              = UNION {Ahead(buckets, todo \ {f}, visit(buckets, f, m)) : f \in todo}
        BY <3>2, <4>1, AheadOfOneVisit
      <4>3. ASSUME NEW f \in todo
            PROVE  closed[todo \ {f}][visit(buckets, f, m)]
                     = Ahead(buckets, todo \ {f}, visit(buckets, f, m))
        <5>1. visit(buckets, f, m) \in M
          BY VisitReads
        <5>2. todo \ {f} \in SUBSET D
          OBVIOUS
        <5> HIDE DEF closed, M
        <5> QED BY <1>1, <5>1, <5>2
      <4> HIDE DEF closed
      <4> QED BY <3>2, <4>2, <4>3
    <3> QED BY <3>1, <3>2
  <2> HIDE DEF closed
  <2> QED BY <1>1, <2>1
<1>3. closed = [todo \in SUBSET D |-> Step(closed, todo)]
  <2>1. closed = [todo \in SUBSET D |-> closed[todo]]
    OBVIOUS
  <2> HIDE DEF closed, Step
  <2> QED BY <1>2, <2>1
<1> HIDE DEF closed
<1>4. after = [todo \in SUBSET D |-> Step(after, todo)]
  <2> HIDE DEF Step
  <2> QED BY <1>3
<1>5. \A todo \in SUBSET D : after[todo] = Step(after, todo)
  <2> HIDE DEF after, Step
  <2> QED BY <1>4
<1> HIDE DEF after
<1>6. \A n \in Nat : (\A j \in Nat : j < n => Good(j)) => Good(n)
  <2> SUFFICES ASSUME NEW n \in Nat, \A j \in Nat : j < n => Good(j),
                      NEW todo \in SUBSET D, Cardinality(todo) = n
               PROVE  after[todo] = closed[todo]
    OBVIOUS
  <2>1. \A f \in todo : after[todo \ {f}] = closed[todo \ {f}]
    <3> SUFFICES ASSUME NEW f \in todo PROVE after[todo \ {f}] = closed[todo \ {f}]
      OBVIOUS
    <3>1. IsFiniteSet(todo)
      BY FS_Subset
    <3>2. Cardinality(todo \ {f}) = n - 1 /\ n - 1 \in Nat
      <4>1. IsFiniteSet(todo \ {f}) /\ Cardinality(todo \ {f}) = Cardinality(todo) - 1
        BY <3>1, FS_RemoveElement
      <4>2. Cardinality(todo \ {f}) \in Nat
        BY <4>1, FS_CardinalityType
      <4> QED BY <4>1, <4>2
    <3>3. Good(n - 1)
      BY <3>2
    <3> QED BY <3>2, <3>3
  <2>2. Step(after, todo) = Step(closed, todo)
    <3>1. \A m \in M : {after[todo \ {f}][visit(buckets, f, m)] : f \in todo}
                         = {closed[todo \ {f}][visit(buckets, f, m)] : f \in todo}
      BY <2>1
    <3> HIDE DEF M
    <3> QED BY <3>1
  <2> QED BY <1>2, <1>5, <2>2
<1> HIDE DEF Good
<1>7. bad = {}
  <2> SUFFICES ASSUME bad # {} PROVE FALSE
    OBVIOUS
  <2>1. PICK n \in bad : \A j \in bad : n <= j
    <3>1. bad \subseteq Nat
      OBVIOUS
    <3> HIDE DEF bad
    <3> QED BY <3>1, LeastNumber
  <2> QED BY <1>6, <2>1
<1>8. after[D] = closed[D]
  <2>1. Cardinality(D) \in Nat
    BY FS_CardinalityType
  <2>2. Good(Cardinality(D))
    BY <1>7, <2>1
  <2> QED BY <2>2 DEF Good
<1>9. after[D][1] = Ahead(buckets, D, 1)
  <2>1. D \in SUBSET D /\ 1 \in M
    OBVIOUS
  <2> HIDE DEF D, M
  <2>2. closed[D] = [m \in M |-> Ahead(buckets, D, m)]
    BY <1>1, <2>1
  <2> QED BY <1>8, <2>1, <2>2
<1>10. Ahead(buckets, D, 1) = LET used == Used(buckets, D)
                              IN  IF used = {} THEN {1}
                                  ELSE IF 1 \in used THEN used ELSE Least(used)
  BY DEF Ahead
<1>11. updateMinFreqLoop(buckets, minFreq)
         = IF Bucket(buckets, minFreq) # <<>> THEN {minFreq} ELSE after[D][1]
  BY DEF updateMinFreqLoop, after
<1>12. Bucket(buckets, minFreq) # <<>> <=> minFreq \in Used(buckets, D)
  BY DEF Bucket, Used
<1> QED BY <1>9, <1>10, <1>11, <1>12 DEF updateMinFreq, Used, Least

-----------------------------------------------------------------------------
(* The calls.                                                              *)

\* A state is a call with one of its inputs.
Called == input = Idle \/ input \in Inputs

\* No call is made with anything else.
LEMMA CallsHaveInputs == Spec => []Called
<1>1. Init => Called
  BY DEF Init, Called
<1>2. Called /\ [Next]_input => Called'
  BY DEF Called, Next, Call, Return
<1> QED BY <1>1, <1>2, PTL DEF Spec

\* The function that is called tells the input.
LEMMA InputOfCall ==
    ASSUME Called
    PROVE  /\ input.fn = "updateMinFreq" => input.buckets \in AllBuckets
           /\ input.fn = "formatBytes" => input.bytes \in -Int64Half .. Int64Half - 1
<1>1. CASE input = Idle
  BY <1>1 DEF Idle
<1>2. CASE input \in [fn : {"updateMinFreq"}, buckets : AllBuckets, minFreq : 1 .. MaxFreq]
  BY <1>2
<1>3. CASE input \in [fn : {"formatBytes"}, bytes : -Int64Half .. Int64Half - 1]
  BY <1>3
<1>4. CASE input \in OtherInputs
  BY <1>4, LoopsAssumption
<1> QED BY <1>1, <1>2, <1>3, <1>4 DEF Called, Inputs

\* Whatever buckets there are, and in whatever order Go visits them, the loop of
\* updateMinFreq (eviction.go:397-407) leaves what the model of the LFU list says:
\* LoopMatchesClosedForm.
THEOREM LoopsMatchClosedForm == Spec => []LoopMatchesClosedForm
<1>1. Called => LoopMatchesClosedForm
  <2> SUFFICES ASSUME Called, input.fn = "updateMinFreq"
               PROVE  updateMinFreqLoop(input.buckets, input.minFreq)
                        = updateMinFreq(input.buckets, input.minFreq)
    BY DEF LoopMatchesClosedForm
  <2>1. PICK F \in SUBSET (1 .. MaxFreq) : input.buckets \in [F -> {<<>>, <<NoKey>>}]
    BY InputOfCall DEF AllBuckets
  <2>2. DOMAIN input.buckets = F
    BY <2>1
  <2>3. F \in SUBSET (Nat \ {0})
    BY LoopsAssumption
  <2>4. IsFiniteSet(F)
    <3>1. IsFiniteSet(1 .. MaxFreq)
      BY LoopsAssumption, FS_Interval
    <3> QED BY <3>1, FS_Subset
  <2> QED BY <2>2, <2>3, <2>4, LoopClosedForm
<1> QED BY <1>1, CallsHaveInputs, PTL

-----------------------------------------------------------------------------
(* formatBytes.                                                            *)

\* A product grows with its factor.
LEMMA ProductGrows ==
    ASSUME NEW b \in Nat, NEW c \in Nat, NEW d \in Nat, c <= d
    PROVE  b * c \in Nat /\ b * d \in Nat /\ b * c <= b * d
<1>1. b * (d - c) \in Nat /\ b * d = b * c + b * (d - c)
  OBVIOUS
<1> QED BY <1>1

\* The remainder is what the quotient leaves over.
LEMMA RemainderProperties ==
    ASSUME NEW a \in Nat, NEW b \in Nat \ {0}
    PROVE  a \div b \in Nat /\ a % b \in Nat /\ a % b < b /\ a = b * (a \div b) + (a % b)
BY Z3

\* A quotient rounded down is at least c when the dividend is c times the divisor.
LEMMA QuotientAtLeast ==
    ASSUME NEW a \in Nat, NEW b \in Nat \ {0}, NEW c \in Nat
    PROVE  a \div b \in Nat /\ (a \div b < c <=> a < b * c)
<1> DEFINE q == a \div b
<1>1. q \in Nat /\ b * q <= a /\ a < b * q + b
  <2>1. b * q \in Int /\ q \in Nat
    BY RemainderProperties
  <2> QED BY <2>1, RemainderProperties
<1> HIDE DEF q
<1>2. b * (q + 1) = b * q + b /\ b * c \in Nat /\ b * q \in Nat
  BY <1>1
<1>3. CASE q < c
  <2>1. b * (q + 1) <= b * c
    BY <1>1, <1>3, ProductGrows
  <2> QED BY <1>1, <1>2, <1>3, <2>1
<1>4. CASE c <= q
  <2>1. b * c <= b * q
    BY <1>1, <1>4, ProductGrows
  <2> QED BY <1>1, <1>2, <1>4, <2>1
<1> QED BY <1>1, <1>3, <1>4 DEF q

\* Rounding finds the nearest number, and does not pass a number that the quotient
\* does not.
LEMMA RoundsToNearest ==
    ASSUME NEW n \in Nat, NEW d \in Nat \ {0}
    PROVE  LET t == RoundHalfEven(n, d)
           IN  /\ t \in Nat
               /\ -d <= 2 * (t * d - n) /\ 2 * (t * d - n) <= d
               /\ \A c \in Nat : d * c <= n => c <= t
               /\ \A c \in Nat : n < d * c => t <= c
<1> DEFINE q == n \div d
           r == n % d
           t == RoundHalfEven(n, d)
<1>1. q \in Nat /\ r \in Nat /\ r < d /\ n = d * q + r
  BY RemainderProperties
<1>2. (t = q /\ 2 * r <= d) \/ (t = q + 1 /\ d <= 2 * r)
  BY <1>1 DEF RoundHalfEven
<1>3. \A c \in Nat : q < c <=> n < d * c
  BY QuotientAtLeast
<1> HIDE DEF q, r, t
<1>4. t \in Nat
  BY <1>1, <1>2
<1>5. -d <= 2 * (t * d - n) /\ 2 * (t * d - n) <= d
  <2>1. CASE t = q /\ 2 * r <= d
    <3>1. t * d - n = -r
      BY <1>1, <2>1
    <3> QED BY <1>1, <2>1, <3>1
  <2>2. CASE t = q + 1 /\ d <= 2 * r
    <3>1. t * d - n = d - r
      <4>1. (q + 1) * d = d * q + d
        BY <1>1
      <4> QED BY <1>1, <2>2, <4>1
    <3> QED BY <1>1, <2>2, <3>1
  <2> QED BY <1>2, <2>1, <2>2
<1>6. ASSUME NEW c \in Nat PROVE (d * c <= n => c <= t) /\ (n < d * c => t <= c)
  <2>1. d * c \in Nat
    OBVIOUS
  <2> QED BY <1>1, <1>2, <1>3, <2>1
<1> QED BY <1>4, <1>5, <1>6 DEF t

\* The units grow by the same factor.
LEMMA UnitsGrow ==
    /\ UnitBytes[1] = 1 /\ UnitBytes[2] = Unit
    /\ \A i \in 1 .. 7 : UnitBytes[i] \in Nat \ {0}
    /\ \A i \in 1 .. 6 : UnitBytes[i + 1] = Unit * UnitBytes[i]
<1>0. Unit \in Nat \ {0}
  BY FormatAssumption
<1>1. \A x \in Nat \ {0} : Unit * x \in Nat \ {0}
  BY <1>0
<1> DEFINE MB == Unit * Unit
           GB == Unit * MB
           TB == Unit * GB
           PB == Unit * TB
           EB == Unit * PB
<1>2. UnitBytes = <<1, Unit, MB, GB, TB, PB, EB>>
  BY DEF UnitBytes
<1>3. MB \in Nat \ {0}
  BY <1>0, <1>1
<1>4. GB \in Nat \ {0}
  <2> HIDE DEF MB
  <2> QED BY <1>1, <1>3
<1>5. TB \in Nat \ {0}
  <2> HIDE DEF GB
  <2> QED BY <1>1, <1>4
<1>6. PB \in Nat \ {0}
  <2> HIDE DEF TB
  <2> QED BY <1>1, <1>5
<1>7. EB \in Nat \ {0}
  <2> HIDE DEF PB
  <2> QED BY <1>1, <1>6
<1>8. /\ MB = Unit * Unit /\ GB = Unit * MB /\ TB = Unit * GB /\ PB = Unit * TB
      /\ EB = Unit * PB /\ Unit = Unit * 1
  BY <1>0
<1> HIDE DEF MB, GB, TB, PB, EB
<1>9. /\ UnitBytes[1] = 1 /\ UnitBytes[2] = Unit /\ UnitBytes[3] = MB
      /\ UnitBytes[4] = GB /\ UnitBytes[5] = TB /\ UnitBytes[6] = PB
      /\ UnitBytes[7] = EB
  BY <1>2
<1>10. \A i \in 1 .. 7 : i \in {1, 2, 3, 4, 5, 6, 7}
  OBVIOUS
<1>11. \A i \in 1 .. 7 : UnitBytes[i] \in Nat \ {0}
  BY <1>0, <1>3, <1>4, <1>5, <1>6, <1>7, <1>9, <1>10
<1>12. ASSUME NEW i \in 1 .. 6 PROVE UnitBytes[i + 1] = Unit * UnitBytes[i]
  <2>1. i \in {1, 2, 3, 4, 5, 6}
    OBVIOUS
  <2> QED BY <1>8, <1>9, <2>1
<1> QED BY <1>9, <1>11, <1>12

\* One division by Unit: the number is less, and below a unit when it was below the
\* next one.
LEMMA OneDivision ==
    ASSUME NEW n \in Nat, n >= Unit
    PROVE  /\ n \div Unit \in Nat /\ n \div Unit < n
           /\ \A i \in 1 .. 6 : n \div Unit < UnitBytes[i] <=> n < UnitBytes[i + 1]
<1>0. Unit \in Nat \ {0} /\ 2 <= Unit
  BY FormatAssumption
<1>1. ASSUME NEW i \in 1 .. 6
      PROVE  n \div Unit < UnitBytes[i] <=> n < UnitBytes[i + 1]
  <2>1. UnitBytes[i] \in Nat /\ UnitBytes[i + 1] = Unit * UnitBytes[i]
    BY UnitsGrow
  <2> QED BY <1>0, <2>1, QuotientAtLeast
<1>2. n \div Unit \in Nat /\ (n \div Unit < n <=> n < Unit * n)
  BY <1>0, QuotientAtLeast
<1>3. n * 2 <= n * Unit
  BY <1>0, ProductGrows
<1>4. n < Unit * n
  BY <1>0, <1>3
<1> QED BY <1>1, <1>2, <1>4

\* The loop stops at the largest unit that is not more than the bytes: of the
\* functions that satisfy the loop's equation there is one, Reached.
LEMMA DivideFindsUnit ==
    ASSUME NEW bytes \in Nat, Unit <= bytes, bytes < UnitBytes[7]
    PROVE  \E i \in 2 .. 6 : /\ UnitBytes[i] <= bytes /\ bytes < UnitBytes[i + 1]
                             /\ divide(bytes) = [div |-> UnitBytes[i], exp |-> i - 2]
<1> DEFINE S == 0 .. bytes
           R(i) == [div |-> UnitBytes[i], exp |-> i - 2]
           Reached(n) == IF n < UnitBytes[2] THEN R(2)
                         ELSE IF n < UnitBytes[3] THEN R(3)
                         ELSE IF n < UnitBytes[4] THEN R(4)
                         ELSE IF n < UnitBytes[5] THEN R(5)
                         ELSE IF n < UnitBytes[6] THEN R(6)
                         ELSE R(7)
           Step(g, n) == IF n >= Unit
                         THEN [div |-> g[n \div Unit].div * Unit,
                               exp |-> g[n \div Unit].exp + 1]
                         ELSE [div |-> Unit, exp |-> 0]
           closed == [n \in S |-> Reached(n)]
           loop == CHOOSE g : g = [n \in S |-> Step(g, n)]
           bad == {n \in S : loop[n] # closed[n]}
<1>0. Unit \in Nat /\ UnitBytes[2] = Unit /\ \A i \in 1 .. 7 : UnitBytes[i] \in Nat
  BY FormatAssumption, UnitsGrow
<1>1. ASSUME NEW n \in S, n >= Unit
      PROVE  /\ n \div Unit \in S /\ n \div Unit < n
             /\ \A i \in 1 .. 6 : n \div Unit < UnitBytes[i] <=> n < UnitBytes[i + 1]
  BY <1>0, <1>1, OneDivision
<1>2. ASSUME NEW i \in 1 .. 6
      PROVE  /\ R(i).div * Unit = UnitBytes[i + 1] /\ R(i).exp + 1 = R(i + 1).exp
             /\ R(i + 1) = [div |-> R(i).div * Unit, exp |-> R(i).exp + 1]
  <2>1. UnitBytes[i] \in Nat /\ Unit \in Nat /\ UnitBytes[i + 1] = Unit * UnitBytes[i]
    BY UnitsGrow, FormatAssumption
  <2>2. (i + 1) - 2 = (i - 2) + 1
    OBVIOUS
  <2> QED BY <2>1, <2>2
<1>3. R(2) = [div |-> Unit, exp |-> 0]
  BY UnitsGrow
<1> HIDE DEF R
<1>4. \A n \in S : closed[n] = Step(closed, n)
  <2> SUFFICES ASSUME NEW n \in S PROVE Reached(n) = Step(closed, n)
    OBVIOUS
  <2>1. CASE n < Unit
    BY <1>0, <1>3, <2>1
  <2>2. CASE n >= Unit
    <3> DEFINE q == n \div Unit
    <3>1. /\ q \in S
          /\ \A i \in 1 .. 6 : q < UnitBytes[i] <=> n < UnitBytes[i + 1]
      BY <1>1, <2>2
    <3>2. Step(closed, n) = [div |-> Reached(q).div * Unit, exp |-> Reached(q).exp + 1]
      BY <2>2, <3>1
    <3> HIDE DEF q
    <3>3. /\ q < UnitBytes[2] <=> n < UnitBytes[3]
          /\ q < UnitBytes[3] <=> n < UnitBytes[4]
          /\ q < UnitBytes[4] <=> n < UnitBytes[5]
          /\ q < UnitBytes[5] <=> n < UnitBytes[6]
          /\ q < UnitBytes[6] <=> n < UnitBytes[7]
      BY <3>1
    <3>4. /\ R(3) = [div |-> R(2).div * Unit, exp |-> R(2).exp + 1]
          /\ R(4) = [div |-> R(3).div * Unit, exp |-> R(3).exp + 1]
          /\ R(5) = [div |-> R(4).div * Unit, exp |-> R(4).exp + 1]
          /\ R(6) = [div |-> R(5).div * Unit, exp |-> R(5).exp + 1]
          /\ R(7) = [div |-> R(6).div * Unit, exp |-> R(6).exp + 1]
      BY <1>2
    <3>5. n < UnitBytes[7] /\ ~(n < UnitBytes[2])
      BY <1>0, <2>2
    <3> HIDE DEF Step, closed
    <3> QED BY <3>2, <3>3, <3>4, <3>5
  <2> QED BY <1>0, <2>1, <2>2
<1>5. closed = [n \in S |-> Step(closed, n)]
  <2>1. closed = [n \in S |-> closed[n]]
    OBVIOUS
  <2> HIDE DEF closed, Step
  <2> QED BY <1>4, <2>1
<1>6. \A n \in S : closed[n] = Reached(n)
  OBVIOUS
<1> HIDE DEF closed, Reached
<1>7. loop = [n \in S |-> Step(loop, n)]
  <2> HIDE DEF Step
  <2> QED BY <1>5
<1>8. \A n \in S : loop[n] = Step(loop, n)
  <2> HIDE DEF loop, Step
  <2> QED BY <1>7
<1>9. divide(bytes) = loop[bytes \div Unit]
  BY DEF divide
<1> HIDE DEF loop
<1>10. bad = {}
  <2> SUFFICES ASSUME bad # {} PROVE FALSE
    OBVIOUS
  <2>1. PICK n \in bad : \A j \in bad : n <= j
    <3>1. bad \subseteq Nat
      OBVIOUS
    <3> HIDE DEF bad
    <3> QED BY <3>1, LeastNumber
  <2>2. n \in S /\ loop[n] # closed[n]
    BY <2>1
  <2>3. n >= Unit
    <3>1. CASE n < Unit
      <4>1. Step(loop, n) = Step(closed, n)
        BY <1>0, <2>2, <3>1
      <4> QED BY <1>4, <1>8, <2>2, <4>1
    <3> QED BY <1>0, <2>2, <3>1
  <2>4. n \div Unit \in S /\ n \div Unit < n
    BY <1>1, <2>2, <2>3
  <2>5. loop[n \div Unit] = closed[n \div Unit]
    BY <2>1, <2>2, <2>4
  <2>6. Step(loop, n) = Step(closed, n)
    BY <2>5
  <2> QED BY <1>4, <1>8, <2>2, <2>6
<1>11. /\ bytes \div Unit \in S
       /\ \A i \in 1 .. 6 : bytes \div Unit < UnitBytes[i] <=> bytes < UnitBytes[i + 1]
  BY <1>1
<1>12. divide(bytes) = Reached(bytes \div Unit)
  BY <1>6, <1>9, <1>10, <1>11
<1> DEFINE q == bytes \div Unit
<1>13. /\ q < UnitBytes[2] <=> bytes < UnitBytes[3]
       /\ q < UnitBytes[3] <=> bytes < UnitBytes[4]
       /\ q < UnitBytes[4] <=> bytes < UnitBytes[5]
       /\ q < UnitBytes[5] <=> bytes < UnitBytes[6]
       /\ q < UnitBytes[6] <=> bytes < UnitBytes[7]
  BY <1>11
<1>14. divide(bytes) = Reached(q)
  BY <1>12
<1> HIDE DEF q
<1>15. \E i \in 2 .. 6 : /\ UnitBytes[i] <= bytes /\ bytes < UnitBytes[i + 1]
                         /\ divide(bytes) = R(i)
  BY <1>0, <1>13, <1>14 DEF Reached
<1> QED BY <1>15 DEF R

\* What is right about the text of a number of bytes.
Right(f, size, minus) ==
    /\ f.end = "answer"
    /\ f.minus <=> minus
    /\ \E i \in DOMAIN UnitNames :
          LET error == f.tenths * UnitBytes[i] - 10 * size
          IN  /\ f.unit = UnitNames[i]
              /\ -UnitBytes[i] <= 2 * error
              /\ 2 * error <= UnitBytes[i]
    /\ f.unit = "B" \/ f.tenths >= 10
    /\ f.tenths <= 10 * Unit

\* The unit of a positive number is the largest that fits, and its tenths are the
\* nearest.
LEMMA PositiveIsRight ==
    ASSUME NEW bytes \in Nat, bytes < UnitBytes[7], bytes < FloatExact
    PROVE  Right(formatPositive(bytes), bytes, FALSE)
<1> DEFINE f == formatPositive(bytes)
<1>0. Unit \in Nat \ {0}
  BY FormatAssumption
<1>1. CASE bytes < Unit
  <2>1. f = [end |-> "answer", minus |-> FALSE, tenths |-> 10 * bytes, unit |-> "B"]
    BY <1>1 DEF formatPositive
  <2> HIDE DEF f
  <2>2. /\ f.end = "answer" /\ f.minus = FALSE /\ f.unit = "B"
        /\ f.tenths = 10 * bytes
    BY <2>1
  <2>3. 1 \in DOMAIN UnitNames /\ UnitNames[1] = "B" /\ UnitBytes[1] = 1
    BY UnitsGrow DEF UnitNames
  <2>4. f.tenths * UnitBytes[1] - 10 * bytes = 0 /\ f.tenths <= 10 * Unit
    BY <1>0, <1>1, <2>2, <2>3
  <2>5. \E i \in DOMAIN UnitNames :
           LET error == f.tenths * UnitBytes[i] - 10 * bytes
           IN  /\ f.unit = UnitNames[i]
               /\ -UnitBytes[i] <= 2 * error
               /\ 2 * error <= UnitBytes[i]
    BY <2>2, <2>3, <2>4
  <2> QED BY <2>2, <2>4, <2>5 DEF Right, f
<1>2. CASE Unit <= bytes
  <2>1. PICK i \in 2 .. 6 : /\ UnitBytes[i] <= bytes /\ bytes < UnitBytes[i + 1]
                            /\ divide(bytes) = [div |-> UnitBytes[i], exp |-> i - 2]
    BY <1>2, DivideFindsUnit
  <2> DEFINE d == UnitBytes[i]
             t == RoundHalfEven(10 * bytes, d)
  <2>2. d \in Nat \ {0} /\ UnitBytes[i + 1] = Unit * d /\ 10 * bytes \in Nat
    BY UnitsGrow
  <2>3. f = [end |-> "answer", minus |-> FALSE, tenths |-> t, unit |-> units[i - 1]]
    <3>1. divide(bytes).div = d /\ divide(bytes).exp + 1 = i - 1
      BY <2>1
    <3>2. i - 1 \in DOMAIN units
      BY DEF units
    <3>3. ~(bytes < Unit)
      BY <1>0, <1>2
    <3>4. float64(bytes) = bytes
      BY DEF float64
    <3> HIDE DEF d
    <3> QED BY <3>1, <3>2, <3>3, <3>4 DEF formatPositive
  <2>4. units[i - 1] = UnitNames[i] /\ i \in DOMAIN UnitNames /\ UnitNames[i] # "B"
    <3>1. i \in {2, 3, 4, 5, 6}
      OBVIOUS
    <3> QED BY <3>1 DEF units, UnitNames
  <2>5. /\ t \in Nat
        /\ -d <= 2 * (t * d - 10 * bytes) /\ 2 * (t * d - 10 * bytes) <= d
        /\ \A c \in Nat : d * c <= 10 * bytes => c <= t
        /\ \A c \in Nat : 10 * bytes < d * c => t <= c
    BY <2>2, RoundsToNearest
  <2> HIDE DEF d, t
  <2>6. 10 <= t
    <3>1. d * 10 <= 10 * bytes
      BY <2>1, <2>2 DEF d
    <3> QED BY <2>5, <3>1
  <2>7. t <= 10 * Unit
    <3>1. bytes < Unit * d
      BY <2>1, <2>2
    <3>2. d * (10 * Unit) = 10 * (Unit * d) /\ Unit * d \in Nat /\ 10 * Unit \in Nat
      BY <1>0, <2>2
    <3>3. 10 * bytes < d * (10 * Unit)
      BY <3>1, <3>2
    <3> QED BY <2>5, <3>2, <3>3
  <2> HIDE DEF f
  <2>8. /\ f.end = "answer" /\ f.minus = FALSE /\ f.unit = UnitNames[i]
        /\ f.tenths = t
    BY <2>3, <2>4
  <2>9. \E j \in DOMAIN UnitNames :
           LET error == f.tenths * UnitBytes[j] - 10 * bytes
           IN  /\ f.unit = UnitNames[j]
               /\ -UnitBytes[j] <= 2 * error
               /\ 2 * error <= UnitBytes[j]
    BY <2>4, <2>5, <2>8 DEF d
  <2> QED BY <2>5, <2>6, <2>7, <2>8, <2>9 DEF Right, f
<1>3. bytes < Unit \/ Unit <= bytes
  BY <1>0
<1> QED BY <1>1, <1>2, <1>3

\* What formatBytes prints is the nearest number of tenths of the largest unit that
\* fits, with its sign, for every number that a float64 has, but the least int64 and
\* those that have no unit (utils.go:359-365): FormatIsNearest.
THEOREM FormatsAreNearest == Spec => []FormatIsNearest
<1>1. Called => FormatIsNearest
  <2> SUFFICES ASSUME Called, input.fn = "formatBytes"
               PROVE  FormatIsNearest
    BY DEF FormatIsNearest
  <2> DEFINE b == input.bytes
             size == IF b < 0 THEN -b ELSE b
  <2>1. b \in Int
    BY InputOfCall, FormatAssumption
  <2>2. size \in Nat
    BY <2>1
  <2>3. ASSUME size < UnitBytes[7], size < FloatExact, b # -Int64Half
        PROVE  Right(formatBytes(b), size, b < 0)
    <3> DEFINE p == formatPositive(size)
    <3>1. Right(p, size, FALSE)
      BY <2>2, <2>3, PositiveIsRight
    <3>2. CASE b >= 0
      <4>1. formatBytes(b) = p /\ (b < 0) = FALSE
        BY <2>1, <2>3, <3>2 DEF formatBytes
      <4> QED BY <3>1, <4>1
    <3>3. CASE b < 0
      <4>1. size = -b
        BY <3>3
      <4>2. p # Panic
        <5>1. p.end = "answer"
          BY <3>1 DEF Right
        <5>2. Panic.end = "index out of range"
          BY DEF Panic
        <5> HIDE DEF p
        <5> QED BY <5>1, <5>2
      <4>3. formatBytes(b) = [p EXCEPT !.minus = TRUE]
        BY <2>1, <2>3, <3>3, <4>1, <4>2 DEF formatBytes
      <4>4. \E s, t : p = [end |-> "answer", minus |-> FALSE, tenths |-> s, unit |-> t]
        BY <4>2 DEF formatPositive
      <4> HIDE DEF p, size
      <4>5. PICK s, t : p = [end |-> "answer", minus |-> FALSE, tenths |-> s, unit |-> t]
        BY <4>4
      <4>6. formatBytes(b) = [end |-> "answer", minus |-> TRUE, tenths |-> s, unit |-> t]
        BY <4>3, <4>5
      <4>7. /\ formatBytes(b).end = p.end /\ formatBytes(b).unit = p.unit
            /\ formatBytes(b).tenths = p.tenths /\ formatBytes(b).minus = TRUE
        BY <4>5, <4>6
      <4> QED BY <3>1, <3>3, <4>7 DEF Right
    <3> QED BY <2>1, <3>2, <3>3
  <2> HIDE DEF Called
  <2> QED BY <2>3 DEF FormatIsNearest, Right
<1> QED BY <1>1, CallsHaveInputs, PTL
=============================================================================
