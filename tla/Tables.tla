-------------------------------- MODULE Tables --------------------------------
(***************************************************************************)
(* Map, Set, WeakMap and WeakSet (native_Map.c, native_Set.c).             *)
(*                                                                         *)
(* A table is the sequence of its entries [k, v] in the order of insertion *)
(* (a Set's entry has its value as key and as value).  The C arrays that   *)
(* hold the entries are invisible to the garbage collector; a hidden array *)
(* "@@keep", rewritten after every change, is what keeps keys and values   *)
(* alive.                                                                  *)
(***************************************************************************)
EXTENDS Integers, Sequences, SequencesExt

CONSTANT ClassOf      \* ClassOf[v]: the key the callback of groupBy gives to v

Entry(k, v) == [k |-> k, v |-> v]
Flag(b)     == [t |-> "bool", n |-> IF b THEN 1 ELSE 0]
Count(n)    == [t |-> "int", n |-> n]
Error       == [t |-> "error", n |-> 0]

\* Numbers and booleans are compared as numbers, NaN with nothing; any other
\* two values are equal when they have one type and are the same.
MapKeyEq(x, y) ==
    LET Number(v) == v.t \in {"int", "bool"}
    IN  \/ Number(x) /\ Number(y) /\ x.n = y.n
        \/ ~ Number(x) /\ ~ Number(y) /\ x = y /\ x.t # "nan"

Places(e, k) == {i \in 1 .. Len(e) : MapKeyEq(e[i].k, k)}
MapFind(e, k) ==
    IF Places(e, k) = {} THEN 0 ELSE CHOOSE i \in Places(e, k) : \A j \in Places(e, k) : i <= j

\* The key that is there stays, with the new value.
MapSetImpl(e, k, v) ==
    LET i == MapFind(e, k)
    IN  IF i > 0 THEN [e EXCEPT ![i].v = v] ELSE Append(e, Entry(k, v))

SetAddImpl(e, k) == IF MapFind(e, k) > 0 THEN e ELSE Append(e, Entry(k, k))

MapDelete(e, k) == IF MapFind(e, k) = 0 THEN e ELSE RemoveAt(e, MapFind(e, k))

\* map_sync_size and set_sync_size: what @@keep holds afterwards.
SyncedMap(e) == FlattenSeq([i \in 1 .. Len(e) |-> <<e[i].k, e[i].v>>])
SyncedSet(e) == [i \in 1 .. Len(e) |-> e[i].k]

Keys(e)   == [i \in 1 .. Len(e) |-> e[i].k]
Values(e) == [i \in 1 .. Len(e) |-> e[i].v]
Pairs(e)  == FlattenSeq([i \in 1 .. Len(e) |-> <<e[i].k, e[i].v>>])

\* new Map(pairs): a pair of fewer than two elements is passed over.
MapOf(pairs) ==
    FoldLeft(LAMBDA e, p : IF Len(p) >= 2 THEN MapSetImpl(e, p[1], p[2]) ELSE e, <<>>, pairs)
SetOf(values) == FoldLeft(SetAddImpl, <<>>, values)

\* Map.groupBy: every element is added to the bucket of its key; a bucket is
\* the sequence of its elements.
MapGroupBy(items) ==
    LET Add(e, x) == LET i == MapFind(e, ClassOf[x])
                     IN  IF i > 0 THEN [e EXCEPT ![i].v = Append(@, x)]
                         ELSE Append(e, Entry(ClassOf[x], <<x>>))
        groups == FoldLeft(Add, <<>>, items)
    IN  FlattenSeq([i \in 1 .. Len(groups) |-> <<groups[i].k>> \o groups[i].v])

IsWeakKey(k) == k.t = "object"

Gives(e, out) == [tab |-> e, out |-> out]

\* Methods shared by the four classes, then those of a kind of table.
MapRuns(e, o) ==
    CASE o.m = "set"     -> Gives(MapSetImpl(e, o.k, o.v), <<>>)
      [] o.m = "wset"    -> IF IsWeakKey(o.k) THEN Gives(MapSetImpl(e, o.k, o.v), <<>>)
                            ELSE Gives(e, <<Error>>)
      [] o.m = "get"     -> Gives(e, IF MapFind(e, o.k) = 0 THEN <<>> ELSE <<e[MapFind(e, o.k)].v>>)
      [] o.m = "has"     -> Gives(e, <<Flag(MapFind(e, o.k) > 0)>>)
      [] o.m = "delete"  -> Gives(MapDelete(e, o.k), <<Flag(MapFind(e, o.k) > 0)>>)
      [] o.m = "clear"   -> Gives(<<>>, <<>>)
      [] o.m = "size"    -> Gives(e, <<Count(Len(e))>>)
      [] o.m = "keys"    -> Gives(e, Keys(e))
      [] o.m = "values"  -> Gives(e, Values(e))
      [] o.m = "entries" -> Gives(e, Pairs(e))
      [] o.m = "new"     -> Gives(MapOf(<<<<o.k, o.v>>, <<o.k>>, <<o.v, o.k>>>>), <<>>)
      [] o.m = "groupBy" -> Gives(e, MapGroupBy(<<o.k, o.v, o.k>>))

SetRuns(e, o) ==
    CASE o.m = "add"     -> Gives(SetAddImpl(e, o.k), <<>>)
      [] o.m = "wadd"    -> IF IsWeakKey(o.k) THEN Gives(SetAddImpl(e, o.k), <<>>)
                            ELSE Gives(e, <<Error>>)
      [] o.m = "has"     -> Gives(e, <<Flag(MapFind(e, o.k) > 0)>>)
      [] o.m = "delete"  -> Gives(MapDelete(e, o.k), <<Flag(MapFind(e, o.k) > 0)>>)
      [] o.m = "clear"   -> Gives(<<>>, <<>>)
      [] o.m = "size"    -> Gives(e, <<Count(Len(e))>>)
      [] o.m = "values"  -> Gives(e, Keys(e))
      [] o.m = "entries" -> Gives(e, Pairs(e))
      [] o.m = "new"     -> Gives(SetOf(<<o.k, o.v, o.k>>), <<>>)

\* Mutant: an update of an entry that is there does not rewrite @@keep.
Syncs_OnlyGrowth(e, o) ==
    \/ o.m \in {"clear", "new"}
    \/ o.m \in {"set", "wset", "add", "wadd"} /\ MapFind(e, o.k) = 0
    \/ o.m = "delete" /\ MapFind(e, o.k) > 0

\* Whether the call goes through the code that rewrites @@keep.  A new table
\* rewrites it with its first entry.
Syncs(e, o) ==
    \/ o.m \in {"set", "clear", "new"}
    \/ o.m = "wset" /\ IsWeakKey(o.k)
    \/ o.m = "add" /\ MapFind(e, o.k) = 0
    \/ o.m = "wadd" /\ IsWeakKey(o.k) /\ MapFind(e, o.k) = 0
    \/ o.m = "delete" /\ MapFind(e, o.k) > 0
===============================================================================
