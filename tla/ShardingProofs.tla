--------------------------- MODULE ShardingProofs ---------------------------
(***************************************************************************)
(* The shard of a key is in range, and the limits of the shards against    *)
(* the limit of the cache, for every number of shards and every limit; the *)
(* number of shards, for every number of cores.                            *)
(***************************************************************************)
EXTENDS Sharding, TLAPS

\* Quotients rounded down, for divisors that are not numerals.
LEMMA DivisionProperties ==
    ASSUME NEW a \in Nat, NEW b \in Nat \ {0}
    PROVE  /\ a \div b \in Nat
           /\ b * (a \div b) <= a
           /\ a < b * (a \div b) + b
BY Z3

\* Where an int has more than the 32 bits of a hash (cache.go:267), the index is
\* one of the shards, and it is the plain remainder.
THEOREM IndexInRange ==
    ASSUME HashCount <= IntHalf,
           NEW hash \in 0 .. HashCount - 1,
           NEW shardCount \in Nat \ {0}
    PROVE  shardIndex(hash, shardCount) \in 0 .. shardCount - 1
<1>1. AsInt(hash) = hash
  <2>1. hash \in Nat /\ hash < IntHalf /\ IntHalf \in Nat
    BY WidthAssumption
  <2>2. hash % (2 * IntHalf) = hash
    BY <2>1
  <2> QED  BY <2>1, <2>2 DEF AsInt
<1>2. hash \in Nat
  BY WidthAssumption
<1>3. Quotient(hash, shardCount) = hash \div shardCount
  BY <1>2 DEF Quotient
<1> QED
  BY <1>1, <1>2, <1>3, DivisionProperties DEF shardIndex, Remainder

\* A cache with a limit gives every shard a positive one (cache.go:151-153), for
\* zero would be no limit.
THEOREM EveryShardIsLimited ==
    ASSUME NEW maxSize \in Nat \ {0}, NEW shardCount \in Nat \ {0}
    PROVE  ShardLimit(maxSize, shardCount) \in Nat \ {0}
BY DivisionProperties DEF ShardLimit, Quotient

\* All shards together may use no more than the configured limit, or one byte
\* each; and less than shardCount bytes of the limit are out of their reach.
THEOREM LimitsAddUp ==
    ASSUME NEW maxSize \in Nat \ {0}, NEW shardCount \in Nat \ {0}
    PROVE  LET all == shardCount * ShardLimit(maxSize, shardCount)
           IN  /\ all <= maxSize \/ all = shardCount
               /\ maxSize < all + shardCount
BY DivisionProperties DEF ShardLimit, Quotient

-----------------------------------------------------------------------------
(* The number of shards.                                                   *)

\* The loop of roundToPowerOfTwo ends, for the numbers getOptimalShardCount gives
\* it, at the first power of two that is not below n.  The definition chooses a
\* function that satisfies the loop's equation; closed is one.
LEMMA RoundToPowerOfTwo ==
    ASSUME NEW n \in 4 .. 256
    PROVE  LET power == roundToPowerOfTwo(n)
           IN  /\ power \in {4, 8, 16, 32, 64, 128, 256}
               /\ n <= power /\ power < 2 * n
<1> DEFINE S == 1 .. 2 * n
           Reached(p) == IF p >= n THEN p
                         ELSE IF 2 * p >= n THEN 2 * p
                         ELSE IF 4 * p >= n THEN 4 * p
                         ELSE IF 8 * p >= n THEN 8 * p
                         ELSE IF 16 * p >= n THEN 16 * p
                         ELSE IF 32 * p >= n THEN 32 * p
                         ELSE IF 64 * p >= n THEN 64 * p
                         ELSE IF 128 * p >= n THEN 128 * p
                         ELSE 256 * p
           closed == [p \in S |-> Reached(p)]
           loop == CHOOSE f : f = [p \in S |-> IF p < n THEN f[2 * p] ELSE p]
<1>1. \A p \in S : Reached(p) = IF p < n THEN Reached(2 * p) ELSE p
  OBVIOUS
<1>2. closed = [p \in S |-> IF p < n THEN closed[2 * p] ELSE p]
  <2> HIDE DEF Reached
  <2>1. \A p \in S : p < n => 2 * p \in S
    OBVIOUS
  <2>2. \A p \in S : closed[p] = IF p < n THEN closed[2 * p] ELSE p
    BY <1>1, <2>1
  <2>3. closed = [p \in S |-> closed[p]]
    OBVIOUS
  <2> HIDE DEF closed
  <2> QED BY <2>2, <2>3
<1> HIDE DEF closed
<1>3. loop = [p \in S |-> IF p < n THEN loop[2 * p] ELSE p]
  BY <1>2
<1> HIDE DEF loop
<1>4. \A p \in S : loop[p] = IF p < n THEN loop[2 * p] ELSE p
  BY <1>3
<1>5. /\ loop[1] = loop[4]
      /\ loop[4] = IF 4 < n THEN loop[8] ELSE 4
      /\ 4 < n => loop[8] = IF 8 < n THEN loop[16] ELSE 8
      /\ 8 < n => loop[16] = IF 16 < n THEN loop[32] ELSE 16
      /\ 16 < n => loop[32] = IF 32 < n THEN loop[64] ELSE 32
      /\ 32 < n => loop[64] = IF 64 < n THEN loop[128] ELSE 64
      /\ 64 < n => loop[128] = IF 128 < n THEN loop[256] ELSE 128
      /\ 128 < n => loop[256] = 256
  BY <1>4
<1>6. roundToPowerOfTwo(n) = loop[1]
  BY DEF roundToPowerOfTwo, loop
<1> QED BY <1>5, <1>6

\* The number of shards is a power of two (utils.go:266), at least 4 and at most
\* 256, with two shards per core where that is not too many, and never as many as
\* four.
THEOREM ShardCountIsPowerOfTwo ==
    ASSUME NEW cores \in Nat \ {0}
    PROVE  LET n == getOptimalShardCount(cores)
           IN  /\ n \in {4, 8, 16, 32, 64, 128, 256}
               /\ n >= 2 * cores \/ n = 256
               /\ n < 4 * cores \/ n = 4
<1> DEFINE m == IF 2 * cores < 4 THEN 4 ELSE IF 2 * cores > 256 THEN 256 ELSE 2 * cores
<1>1. m \in 4 .. 256
  OBVIOUS
<1>2. getOptimalShardCount(cores) = roundToPowerOfTwo(m)
  BY DEF getOptimalShardCount
<1>3. /\ roundToPowerOfTwo(m) \in {4, 8, 16, 32, 64, 128, 256}
      /\ m <= roundToPowerOfTwo(m) /\ roundToPowerOfTwo(m) < 2 * m
  <2> HIDE DEF m
  <2> QED BY <1>1, RoundToPowerOfTwo
<1> HIDE DEF m
<1>4. m = IF 2 * cores < 4 THEN 4 ELSE IF 2 * cores > 256 THEN 256 ELSE 2 * cores
  BY DEF m
<1> QED BY <1>2, <1>3, <1>4
=============================================================================
