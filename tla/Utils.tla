-------------------------------- MODULE Utils --------------------------------
(***************************************************************************)
(* The hash that spreads keys over shards and the size estimates, of       *)
(* utils.go.                                                               *)
(*                                                                         *)
(* A string is a sequence of bytes.  A type or value that calculateSize    *)
(* meets is a record with a kind, as reflection shows it.  A definition    *)
(* marked "Fault:" is not part of the model (EvictionLists).               *)
(***************************************************************************)
EXTENDS Sharding, Sequences, SequencesExt, Bitwise

CONSTANTS
    OffsetBasis,    \* where fnv1a starts
    Prime           \* what it multiplies with

ASSUME HashAssumption ==
    OffsetBasis \in 0 .. HashCount - 1 /\ Prime \in 0 .. HashCount - 1

-----------------------------------------------------------------------------
(* fnv1a.  HashCount, a power of two, may be less than 2^32: xor with a    *)
(* byte and multiplication carry nothing downwards, so what is computed    *)
(* modulo 256 is the low byte of the hash.                                 *)

\* Fault: OR for XOR.
fnv1aOr(key) ==
    FoldLeft(LAMBDA hash, byte : ((hash | byte) * Prime) % HashCount,
             OffsetBasis, key)

fnv1a(key) ==
    FoldLeft(LAMBDA hash, byte : ((hash ^^ byte) * Prime) % HashCount,
             OffsetBasis, key)

-----------------------------------------------------------------------------
(* Size estimates.  A value carries its type; a nil slice or map has no    *)
(* elements; a pointer or interface holds another value, or Nil.           *)

Nil == [type |-> [kind |-> "nil"]]

\* The two tables of kinds that take the same room whatever their value.
ValueSizes == [bool |-> 1, int8 |-> 1, int16 |-> 2, int32 |-> 4, int64 |-> 8,
               complex64 |-> 8, complex128 |-> 16, chan |-> 96, func |-> 8]

\* Fault: every integer takes a word.
TypeSizesWord == [ValueSizes EXCEPT !.int32 = 8]

TypeSizes == [bool |-> 1, int8 |-> 1, int16 |-> 2, int32 |-> 4, int64 |-> 8,
              complex64 |-> 8, complex128 |-> 16, chan |-> 96, func |-> 8]

RECURSIVE calculateTypeSize(_)
calculateTypeSize(t) ==
    CASE t.kind \in DOMAIN TypeSizes -> TypeSizes[t.kind]
      [] t.kind = "string"    -> 24
      [] t.kind = "slice"     -> 24 + calculateTypeSize(t.elem) * 4
      [] t.kind = "array"     -> calculateTypeSize(t.elem) * t.len
      [] t.kind = "map"       -> 8 + (calculateTypeSize(t.key)
                                        + calculateTypeSize(t.elem)) * 4
      [] t.kind = "ptr"       -> 8
      [] t.kind = "interface" -> 16
      [] t.kind = "struct"    ->
            FoldLeft(LAMBDA size, field : size + calculateTypeSize(field),
                     0, t.fields)

\* Fault: only the elements of a map are counted.
MapSizeKeyless(t, len) == 8 + (calculateTypeSize(t.elem) * len * 3) \div 2

MapSize(t, len) ==
    LET pairs == (calculateTypeSize(t.key) + calculateTypeSize(t.elem)) * len
    IN  8 + pairs + pairs \div 2

\* Elements of slices, arrays and maps are not looked at; what pointers,
\* interfaces and fields hold is.
RECURSIVE calculateValueSize(_)
calculateValueSize(v) ==
    LET t == v.type
    IN  CASE t.kind = "nil" -> 0
          [] t.kind \in DOMAIN ValueSizes -> ValueSizes[t.kind]
          [] t.kind = "string"    -> 16 + v.len
          [] t.kind = "slice"     -> 24 + calculateTypeSize(t.elem) * v.len
          [] t.kind = "array"     -> calculateTypeSize(t.elem) * t.len
          [] t.kind = "map"       -> MapSize(t, v.len)
          [] t.kind = "ptr"       -> 8 + calculateValueSize(v.to)
          [] t.kind = "interface" -> 16 + calculateValueSize(v.to)
          [] t.kind = "struct"    ->
                FoldLeft(LAMBDA size, field : size + calculateValueSize(field),
                         0, v.fields)
=============================================================================
