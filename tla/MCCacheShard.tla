---------------------------- MODULE MCCacheShard ----------------------------
(* Small instances of CacheShard for TLC.  Sizes are in units of bytes.    *)
EXTENDS CacheShard

CONSTANTS
    k1, k2, k3,             \* keys
    small, big, huge        \* values

\* small is stored raw.  big is over the compression threshold and shrinks.
\* huge is over the threshold too, does not compress, and exceeds MaxSize.
MCRawLen == [v \in Values |-> IF v = small THEN 1 ELSE IF v = big THEN 3 ELSE 4]
MCPackedLen == [v \in Values |-> IF v = small THEN 1 ELSE IF v = big THEN 2 ELSE 4]
MCCompressSize == 2

KeysAndCallers == Permutations(Keys \ {NoKey}) \cup Permutations(Goroutines)
=============================================================================
