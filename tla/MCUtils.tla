------------------------------ MODULE MCUtils -------------------------------
(***************************************************************************)
(* The hash and the size estimates over bounded inputs, beside the         *)
(* functions of LoopCalls: each property compares a function with what it  *)
(* is to do.                                                               *)
(***************************************************************************)
EXTENDS LoopCalls, Sharding, Utils

CONSTANTS
    Bytes,          \* bytes a prefix of a key is made of
    MaxLen          \* elements of slices, arrays, maps; fields of structs

-----------------------------------------------------------------------------
(* Inputs.                                                                 *)

UpTo(S, n) == UNION {[1 .. m -> S] : m \in 0 .. n}

Fixed == {[kind |-> kind] : kind \in DOMAIN TypeSizes}

Arrays(T) == [kind : {"array"}, elem : T, len : 0 .. MaxLen]
Structs(T, n) == [kind : {"struct"}, fields : UpTo(T, n)]

\* Types whose values take the same room, and types built of them.
FlatTypes == Fixed \cup Arrays(Fixed) \cup Structs(Fixed, MaxLen)
                   \cup Arrays(Arrays(Fixed)) \cup Structs(Arrays(Fixed), 1)

RECURSIVE Zero(_)
Zero(t) ==
    CASE t.kind = "struct" ->
            [type |-> t, fields |-> [i \in DOMAIN t.fields |-> Zero(t.fields[i])]]
      [] t.kind \in {"ptr", "interface"} -> [type |-> t, to |-> Nil]
      [] OTHER -> [type |-> t]

Pointer(v) == [type |-> [kind |-> "ptr", elem |-> v.type], to |-> v]
Interface(v) == [type |-> [kind |-> "interface"], to |-> v]

FlatValues == {Zero(t) : t \in FlatTypes}

Values == FlatValues \cup {Pointer(v) : v \in FlatValues \cup {Nil}}
                     \cup {Interface(v) : v \in FlatValues \cup {Nil}}

Containers ==
    [type : [kind : {"slice"}, elem : FlatTypes], len : 0 .. MaxLen]
    \cup [type : [kind : {"map"}, key : Fixed, elem : Fixed], len : 0 .. MaxLen]

UtilInputs ==
    [fn : {"fnv1a"}, prefix : UpTo(Bytes, 2), numCPU : {1, 2, 3, 8, 128}]
    \cup [fn : {"calculateSize"}, value : Values]
    \cup [fn : {"calculateSize of a container"}, container : Containers]

-----------------------------------------------------------------------------
(* Properties.                                                             *)

\* Keys spread evenly (utils.go:229-231): of the 256 keys that differ in their
\* last byte only, every shard gets the same number, on every machine, for a
\* step of the hash is one to one on bytes and the number of shards a power of
\* two.
ShardsEven ==
    input.fn = "fnv1a"
        => LET n == getOptimalShardCount(input.numCPU)
               shard(byte) == shardIndex(fnv1a(Append(input.prefix, byte)), n)
           IN  \A i \in 0 .. n - 1 :
                   Cardinality({byte \in 0 .. 255 : shard(byte) = i}) = 256 \div n

\* calculateValueSize and calculateTypeSize agree on every value that is all in
\* one place, and on what a pointer or an interface holds: the elements of a
\* slice are counted by type, those of a struct by value.
SizesAgree ==
    input.fn = "calculateSize"
        => LET v == input.value
           IN  calculateValueSize(v) =
                   calculateTypeSize(v.type)
                   + IF v.type.kind \in {"ptr", "interface"} /\ v.to # Nil
                     THEN calculateTypeSize(v.to.type)
                     ELSE 0

\* A slice or map is estimated to take at least what its elements and keys take
\* one by one, and at most half as much again and a header.
ContainerHoldsItsElements ==
    input.fn = "calculateSize of a container"
        => LET c == input.container
               each == calculateValueSize(Zero(c.type.elem))
                       + IF c.type.kind = "map" THEN calculateValueSize(Zero(c.type.key))
                                                ELSE 0
               size == calculateValueSize(c)
           IN  c.len * each < size /\ 2 * size <= 3 * c.len * each + 2 * 24
=============================================================================
