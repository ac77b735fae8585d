------------------------------ MODULE Sharding ------------------------------
(***************************************************************************)
(* How many shards a cache has, which of them a key goes to, and how much  *)
(* memory each may use (NewCache and getShard in cache.go, utils.go).      *)
(*                                                                         *)
(* A hash is a number below HashCount; fnv1a itself is in Utils.  A        *)
(* definition marked "Fault:" is not part of the model (EvictionLists).    *)
(***************************************************************************)
EXTENDS Integers

CONSTANTS
    HashCount,      \* the values of a uint32
    IntHalf         \* the non-negative values of an int

ASSUME WidthAssumption == HashCount \in Nat \ {0} /\ IntHalf \in Nat \ {0}

\* Go's division and remainder, which round towards zero.
Quotient(a, b) == IF a >= 0 THEN a \div b ELSE -((-a) \div b)

Remainder(a, b) == a - b * Quotient(a, b)

\* int(h): the same bits, read as a signed number.
AsInt(h) ==
    LET bits == h % (2 * IntHalf)
    IN  IF bits < IntHalf THEN bits ELSE bits - 2 * IntHalf

shardIndex(hash, shardCount) == Remainder(AsInt(hash), shardCount)

\* The loop that doubles power from 1 until it reaches n.
roundToPowerOfTwo(n) ==
    LET doubled[power \in 1 .. 2 * n] ==
            IF power < n THEN doubled[2 * power] ELSE power
    IN  IF n <= 1 THEN 1 ELSE doubled[1]

getOptimalShardCount(numCPU) ==
    LET twice == 2 * numCPU
    IN  roundToPowerOfTwo(IF twice < 4 THEN 4
                          ELSE IF twice > 256 THEN 256 ELSE twice)

\* Fault: the limit per shard is rounded up.
ShardLimitUp(maxSize, shardCount) ==
    IF maxSize <= 0 THEN maxSize ELSE (maxSize + shardCount - 1) \div shardCount

\* A shard's part of the limit, at least one byte: zero would mean no limit.
ShardLimit(maxSize, shardCount) ==
    LET part == Quotient(maxSize, shardCount)
    IN  IF part = 0 /\ maxSize > 0 THEN 1 ELSE part

=============================================================================
