--------------------------- MODULE CacheContract ---------------------------
(***************************************************************************)
(* What the cache promises its callers: it is one map from keys to items,  *)
(* although the items are spread over shards and each operation locks one  *)
(* of these at a time.  A Get finds its key if and only if the map has it; *)
(* items leave by a Delete, a cleanup that a Get has asked for, evictions  *)
(* while a Set is inside, and Clears; whenever no Set is inside the items  *)
(* fit.  Clear is the one operation that takes its time: it returns when   *)
(* each item that was there when it began is gone or was stored anew.      *)
(***************************************************************************)
EXTENDS Integers, FiniteSets, ByteCount

CONSTANTS
    Keys,           \* the cache keys
    Goroutines,     \* the callers
    Sizes,          \* bytes a stored item may take
    MaxSizes,       \* memory limits a cache may be made with
    Least           \* bytes a cache may use whatever its limit

VARIABLES
    maxSize,        \* the configured limit; none when not positive
    items,          \* the map: key -> bytes of its item
    cleanups,       \* key -> cleanups asked for and not done
    setting,        \* the callers inside a Set
    gets,           \* caller inside a Get -> its key, and whether it was found
    clearing        \* caller inside a Clear -> the keys it has still to remove

vars == <<maxSize, items, cleanups, setting, gets, clearing>>

Init ==
    /\ maxSize \in MaxSizes
    /\ items = <<>>
    /\ cleanups = [k \in Keys |-> 0]
    /\ setting = {}
    /\ gets = <<>>
    /\ clearing = <<>>

Outside(g) == g \notin setting \cup DOMAIN gets \cup DOMAIN clearing

\* With f(g) = v for one more caller g; and without caller g.
Enter(f, g, v) == [h \in DOMAIN f \cup {g} |-> IF h = g THEN v ELSE f[h]]
Leave(f, g) == [h \in DOMAIN f \ {g} |-> f[h]]

\* The keys in K are gone, or were stored anew: a Clear has done with them.
Settle(K) == clearing' = [g \in DOMAIN clearing |-> clearing[g] \ K]

Remove(K) ==
    /\ items' = [k \in DOMAIN items \ K |-> items[k]]
    /\ Settle(K)

Fits ==
    LET size == Cardinality(Bytes(items, DOMAIN items))
    IN  maxSize > 0 => size <= maxSize \/ size <= Least

Set(g, k, size) ==
    /\ Outside(g)
    /\ items' = Enter(items, k, size)
    /\ setting' = setting \cup {g}
    /\ Settle({k})
    /\ UNCHANGED <<maxSize, cleanups, gets>>

Evict(k) ==
    /\ setting # {}
    /\ maxSize > 0
    /\ k \in DOMAIN items
    /\ Remove({k})
    /\ UNCHANGED <<maxSize, cleanups, setting, gets>>

SetReturn(g) ==
    /\ g \in setting
    /\ setting' = setting \ {g}
    /\ setting' = {} => Fits
    /\ UNCHANGED <<maxSize, items, cleanups, gets, clearing>>

Get(g, k) ==
    /\ Outside(g)
    /\ gets' = Enter(gets, g, [key |-> k, hit |-> k \in DOMAIN items])
    /\ UNCHANGED <<maxSize, items, cleanups, setting, clearing>>

\* The item found is past its TTL.
Expire(g) ==
    /\ g \in DOMAIN gets
    /\ gets[g].hit
    /\ gets' = Enter(gets, g, [key |-> gets[g].key, hit |-> FALSE])
    /\ cleanups' = [cleanups EXCEPT ![gets[g].key] = @ + 1]
    /\ UNCHANGED <<maxSize, items, setting, clearing>>

GetReturn(g) ==
    /\ g \in DOMAIN gets
    /\ gets' = Leave(gets, g)
    /\ UNCHANGED <<maxSize, items, cleanups, setting, clearing>>

Delete(k) ==
    /\ Remove({k})
    /\ UNCHANGED <<maxSize, cleanups, setting, gets>>

Cleanup(k) ==
    /\ cleanups[k] > 0
    /\ cleanups' = [cleanups EXCEPT ![k] = @ - 1]
    /\ Remove({k})
    /\ UNCHANGED <<maxSize, setting, gets>>

ClearStart(g) ==
    /\ Outside(g)
    /\ clearing' = Enter(clearing, g, DOMAIN items)
    /\ UNCHANGED <<maxSize, items, cleanups, setting, gets>>

ClearSome ==
    /\ DOMAIN clearing # {}
    /\ \E K \in SUBSET DOMAIN items : Remove(K)
    /\ UNCHANGED <<maxSize, cleanups, setting, gets>>

ClearReturn(g) ==
    /\ g \in DOMAIN clearing
    /\ clearing[g] = {}
    /\ clearing' = Leave(clearing, g)
    /\ UNCHANGED <<maxSize, items, cleanups, setting, gets>>

Next ==
    \/ \E g \in Goroutines, k \in Keys :
          Get(g, k) \/ \E size \in Sizes : Set(g, k, size)
    \/ \E g \in Goroutines :
          SetReturn(g) \/ Expire(g) \/ GetReturn(g) \/ ClearStart(g) \/ ClearReturn(g)
    \/ \E k \in Keys : Evict(k) \/ Delete(k) \/ Cleanup(k)
    \/ ClearSome

Spec == Init /\ [][Next]_vars
=============================================================================
