----------------------------- MODULE ByteCount ------------------------------
(***************************************************************************)
(* The bytes a set of keys takes, as a set: its cardinality is the sum of  *)
(* the sizes.                                                              *)
(***************************************************************************)
EXTENDS Integers, FiniteSets

\* The bytes of the keys in K: as many for each as its item takes.
Bytes(sizes, K) == UNION {{k} \X (1 .. sizes[k]) : k \in K}
=============================================================================
