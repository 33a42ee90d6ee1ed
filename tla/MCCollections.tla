---------------------------- MODULE MCCollections ----------------------------
(***************************************************************************)
(* Small instances of Collections: arrays of up to three elements, Maps    *)
(* and Sets of up to three keys, a hash map of four keys in two buckets.   *)
(***************************************************************************)
EXTENDS Collections

Null   == Value("null", 0)
Obj(n) == Value("object", n)
Str(n) == Value("string", n)
Arr(n) == Value("array", n)

MCInner == <<<<Num(1), Undef>>, <<Num(2), Arr(1)>>>>

AllValues == {Num(n) : n \in -1 .. 10} \cup
             {Undef, NaN(0), NaN(1), Null, Bool(TRUE), Bool(FALSE), Str(1), Obj(1), Obj(2), Arr(1), Arr(2)}
\* "-1" < "0" < "1" < "10" < "2" < ... < "NaN" < "a", as strcmp has them.
MCTextRank == [v \in AllValues |->
    CASE v.t = "int" -> IF v.n = 10 THEN 3 ELSE IF v.n <= 1 THEN v.n + 1 ELSE v.n + 2
      [] v.t = "nan" -> 20
      [] OTHER -> 30]

(***************************************************************************)
(* Arrays.                                                                 *)
(***************************************************************************)
MCStartArrays == {<<>>, <<Num(1)>>, <<Num(2), Num(1)>>, <<Num(10), Num(2), Num(1)>>,
                  <<Num(2), NaN(0), Num(2)>>, <<Arr(2), Undef, Num(2)>>}

Indices == -2 .. 2
OrNone  == Indices \cup {Absent}
C(m, x, y, z, v) == Call(m, x, y, z, v, "none")

\* lastIndexOf is given no index before the beginning, splice a start and no
\* negative count; join no undefined element; indexOf and lastIndexOf no NaN that
\* is an element itself (see the README).
MCArrayCalls ==
         {C(m, Absent, Absent, Absent, v) : m \in {"push", "unshift", "concat", "construct", "of"},
                                            v \in {Num(2), Arr(1)}}
    \cup {C("construct", Absent, Absent, Absent, Num(-1))}
    \cup {C(m, Absent, Absent, Absent, Undef) : m \in {"pop", "shift", "reverse", "keys", "values",
                                            "entries", "from", "join", "toLocaleString"}}
    \cup {C(m, x, Absent, Absent, Undef) : m \in {"at", "flat"}, x \in OrNone}
    \cup {C("length=", x, Absent, Absent, Undef) : x \in 0 .. 4}
    \cup {C("[]=", x, Absent, Absent, Num(1)) : x \in 0 .. 3}
    \cup {C("[]", x, Absent, Absent, Undef) : x \in 0 .. 4}
    \cup {C("slice", x, y, Absent, Undef) : x \in OrNone, y \in OrNone}
    \cup {C("splice", x, y, z, Num(1)) : x \in Indices, y \in {0, 1, 2, Absent}, z \in {1, Absent}}
    \cup {C("fill", x, y, Absent, Num(1)) : x \in OrNone, y \in OrNone}
    \cup {C("copyWithin", x, y, z, Undef) : x \in Indices, y \in OrNone, z \in {-1, 2, Absent}}
    \cup {C(m, x, Absent, Absent, v) : m \in {"includes", "indexOf"}, x \in OrNone,
                                       v \in {Num(2), NaN(1), Undef}}
    \cup {C("lastIndexOf", x, Absent, Absent, v) : x \in {0, 1, 2, Absent}, v \in {Num(2), NaN(1)}}
    \cup {Call("sort", Absent, Absent, Absent, Undef, c) : c \in {"text", "reverse", "equal",
                                                                  "parity"}}

MCArrayLoops == {"forEach", "map", "flatMap", "filter", "find", "findIndex", "findLast",
                 "findLastIndex", "some", "every", "reduce", "reduceRight", "forOf"}
\* A callback does not shorten its array, and writes only past its element.
MCCallbackCalls == {C("push", Absent, Absent, Absent, Num(2)), C("[]=", 2, Absent, Absent, Num(1))}
MCReturns == {Num(0), Arr(1)}

(***************************************************************************)
(* Maps and Sets.                                                          *)
(***************************************************************************)
\* Keys no two of which are numbers and booleans of one value.
TableKeys == {Num(1), Str(1), Obj(1)}
TC(m, k, v) == [m |-> m, k |-> k, v |-> v]
MCClassOf == [v \in AllValues |-> IF v.t = "int" THEN Num(1) ELSE Str(1)]

Shared == {TC(m, k, Undef) : m \in {"has", "delete"}, k \in TableKeys}
          \cup {TC(m, Undef, Undef) : m \in {"clear", "size", "values", "entries"}}
MCTableCalls == [k \in {"array", "map", "set", "hash"} |->
    CASE k = "map" -> Shared \cup {TC(m, j, v) : m \in {"set", "wset", "new", "groupBy"},
                                                 j \in TableKeys, v \in {Obj(2), Obj(1)}}
                             \cup {TC("get", j, Undef) : j \in TableKeys} \cup {TC("keys", Undef, Undef)}
      [] k = "set" -> Shared \cup {TC(m, j, Obj(1)) : m \in {"add", "wadd", "new"}, j \in TableKeys}
      [] OTHER -> {}]

\* A callback of filter does not replace the element it was handed, a comparator
\* none of those that are being sorted, and one of a Map's forEach deletes only
\* entries that are still to come.
MCMayCall(s, l, o) ==
    /\ ~ (l.m = "filter" /\ o.m = "[]=" /\ o.x = l.i)
    /\ ~ (l.m = "sort" /\ o.m = "[]=" /\ o.x < Len(l.vals))
    /\ o.m = "delete" /\ "copy" \in DOMAIN l /\ l.copy = <<>> =>
          o.k \notin {s[i].k : i \in 1 .. l.i}

MCTableCallbackCalls == [k \in {"array", "map", "set", "hash"} |->
    CASE k = "map" -> {TC("set", j, Obj(1)) : j \in TableKeys}
                      \cup {TC("delete", j, Undef) : j \in TableKeys}
      [] k = "set" -> {TC("add", Str(1), Undef), TC("clear", Undef, Undef)}
                      \cup {TC("delete", j, Undef) : j \in TableKeys}
      [] OTHER -> {}]

MCHash == [k \in {"a", "b", "c", "d"} |->
    CASE k = "a" -> 0 [] k = "b" -> 2 [] k = "c" -> 4 [] k = "d" -> 5]
==============================================================================
