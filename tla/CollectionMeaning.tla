-------------------------- MODULE CollectionMeaning --------------------------
(***************************************************************************)
(* What the language says of the calls that ArrayMethods and Tables carry  *)
(* out: an array is a sequence with its own length, a Map or a Set a       *)
(* function with an order on its domain.                                   *)
(***************************************************************************)
EXTENDS Integers, FiniteSets, Sequences, SequencesExt

CONSTANTS Absent, Inner, TextRank, ClassOf

LOCAL Val(t, n) == [t |-> t, n |-> n]
LOCAL Nothing   == Val("undef", 0)
LOCAL N(n)      == Val("int", n)
LOCAL B(b)      == Val("bool", IF b THEN 1 ELSE 0)

Yields(s, out) == [arr |-> s, out |-> out]

(***************************************************************************)
(* Arrays.                                                                 *)
(***************************************************************************)
\* The positions 1 .. Len(s) + 1 that a relative index, absent or not, selects.
Position(x, s, default) ==
    LET i == IF x = Absent THEN default ELSE x
    IN  IF i >= 0 THEN (IF i < Len(s) THEN i + 1 ELSE Len(s) + 1)
        ELSE IF Len(s) + i >= 0 THEN Len(s) + i + 1 ELSE 1

LOCAL Same(x, y) == x = y \/ (x.t = "nan" /\ y.t = "nan")    \* SameValueZero
LOCAL Strict(x, y) == x = y /\ x.t # "nan"

\* The elements of s at the positions of P, in order.
Chosen(s, P) == [k \in 1 .. Cardinality(P) |->
                    s[CHOOSE i \in P : Cardinality({j \in P : j < i}) = k - 1]]
Without(s, P) == Chosen(s, DOMAIN s \ P)

\* The order of sort, stable: an element stands after those that precede it
\* and after the equal ones that stood before it.
Precedes(c, x, y) ==
    CASE x = Nothing \/ y = Nothing -> x # Nothing
      [] c = "reverse" -> TextRank[y] < TextRank[x]
      [] c = "equal"   -> FALSE
      [] c = "parity"  -> TextRank[x] % 2 < TextRank[y] % 2
      [] OTHER         -> TextRank[x] < TextRank[y]
StableSort(s, c) ==
    LET Rank(i) == 1 + Cardinality({j \in DOMAIN s :
                           \/ Precedes(c, s[j], s[i]) /\ (s[j] # s[i])
                           \/ j < i /\ (s[j] = s[i] \/ ~ Precedes(c, s[i], s[j]))})
    IN  [k \in DOMAIN s |-> s[CHOOSE i \in DOMAIN s : Rank(i) = k]]

\* Arrays of arrays, flattened to a depth.
Flat(s, depth) ==
    LET One(t) == FlattenSeq([i \in DOMAIN t |-> IF t[i].t = "array" THEN Inner[t[i].n] ELSE <<t[i]>>])
    IN  IF depth <= 0 THEN s ELSE IF depth = 1 THEN One(s) ELSE One(One(s))

Permutes(s, r) == \A x \in Range(s) \cup Range(r) :
    Cardinality({i \in DOMAIN s : s[i] = x}) = Cardinality({i \in DOMAIN r : r[i] = x})

\* The first and the last index of v at the positions P, or -1.
Index(s, v, P, last) ==
    LET hits == {i \in P : Strict(s[i], v)}
    IN  IF hits = {} THEN -1
        ELSE (CHOOSE i \in hits : \A j \in hits : IF last THEN j <= i ELSE i <= j) - 1

SpliceMeans(s, o) ==
    LET from  == Position(o.x, s, 0)
        count == IF o.y = Absent THEN Len(s) ELSE o.y
        P     == {i \in DOMAIN s : from <= i /\ i < from + count}
        new   == IF o.z = Absent THEN <<>> ELSE <<o.v>>
    IN  Yields(SubSeq(s, 1, from - 1) \o new \o Chosen(s, {i \in DOMAIN s : i >= from} \ P), Chosen(s, P))

CopyMeans(s, o) ==
    LET to == Position(o.x, s, 0)  from == Position(o.y, s, 0)  end == Position(o.z, s, Len(s))
    IN  [i \in DOMAIN s |-> IF i >= to /\ i - to < end - from THEN s[from + i - to] ELSE s[i]]

\* What the array is afterwards and what the call gives.
ArrayMeans(s, o) ==
    CASE o.m = "push"        -> Yields(s \o <<o.v>>, <<N(Len(s) + 1)>>)
      [] o.m = "unshift"     -> Yields(<<o.v>> \o s, <<N(Len(s) + 1)>>)
      [] o.m = "pop"         -> Yields(Without(s, {Len(s)}), Chosen(s, DOMAIN s \cap {Len(s)}))
      [] o.m = "shift"       -> Yields(Without(s, {1}), Chosen(s, DOMAIN s \cap {1}))
      [] o.m = "slice"       -> Yields(s, Chosen(s, {i \in DOMAIN s :
                                    Position(o.x, s, 0) <= i /\ i < Position(o.y, s, Len(s))}))
      [] o.m = "splice"      -> SpliceMeans(s, o)
      [] o.m = "concat"      -> Yields(s, s \o Flat(<<o.v>>, 1))
      [] o.m = "join"        -> Yields(s, s)
      [] o.m = "toLocaleString" -> Yields(s, [i \in DOMAIN s |->
                                    IF s[i] = Nothing THEN Val("blank", 0) ELSE s[i]])
      [] o.m = "includes"    -> Yields(s, <<B(\E i \in Position(o.x, s, 0) .. Len(s) : Same(s[i], o.v))>>)
      [] o.m = "indexOf"     -> Yields(s, <<N(Index(s, o.v, Position(o.x, s, 0) .. Len(s), FALSE))>>)
      [] o.m = "lastIndexOf" -> Yields(s, <<N(Index(s, o.v,
                                    {i \in DOMAIN s : i <= Position(o.x, s, Len(s) - 1)}, TRUE))>>)
      [] o.m = "fill"        -> Yields([i \in DOMAIN s |-> IF Position(o.x, s, 0) <= i
                                    /\ i < Position(o.y, s, Len(s)) THEN o.v ELSE s[i]], <<>>)
      [] o.m = "copyWithin"  -> Yields(CopyMeans(s, o), <<>>)
      [] o.m = "flat"        -> Yields(s, Flat(s, IF o.x = Absent THEN 1 ELSE o.x))
      [] o.m = "at"          -> LET i == IF o.x = Absent THEN 0 ELSE o.x
                                IN  Yields(s, Chosen(s, DOMAIN s \cap {IF i < 0 THEN Len(s) + i + 1 ELSE i + 1}))
      [] o.m = "reverse"     -> Yields([i \in DOMAIN s |-> s[Len(s) + 1 - i]], <<>>)
      [] o.m = "sort"        -> Yields(StableSort(s, o.c), <<>>)
      [] o.m = "keys"        -> Yields(s, [i \in DOMAIN s |-> N(i - 1)])
      [] o.m = "values"      -> Yields(s, s)
      [] o.m = "entries"     -> Yields(s, FlattenSeq([i \in DOMAIN s |-> <<N(i - 1), s[i]>>]))
      [] o.m = "length="     -> Yields([i \in 1 .. o.x |-> IF i <= Len(s) THEN s[i] ELSE Nothing], <<>>)
      [] o.m = "[]="         -> Yields([i \in 1 .. (IF o.x + 1 > Len(s) THEN o.x + 1 ELSE Len(s)) |->
                                    IF i = o.x + 1 THEN o.v ELSE IF i <= Len(s) THEN s[i] ELSE Nothing], <<>>)
      [] o.m = "[]"          -> Yields(s, Chosen(s, DOMAIN s \cap {o.x + 1}))
      [] o.m = "construct"   -> Yields(IF o.v.t = "int" THEN [i \in 1 .. o.v.n |-> Nothing] ELSE <<o.v>>,
                                       IF o.v.t = "int" /\ o.v.n < 0 THEN <<Val("error", 0)>> ELSE <<>>)
      [] o.m = "of"          -> Yields(<<o.v>>, <<>>)
      [] o.m = "from"        -> Yields(s, <<>>)

(***************************************************************************)
(* Tables: keys in their order, val[k] the value of k.                     *)
(***************************************************************************)
Keyed(keys, val) == [keys |-> keys, val |-> val]
Has(t, k) == k \in DOMAIN t.val

Set(t, k, v) == Keyed(IF Has(t, k) THEN t.keys ELSE t.keys \o <<k>>,
                      [j \in DOMAIN t.val \cup {k} |-> IF j = k THEN v ELSE t.val[j]])
Delete(t, k) == Keyed(SelectSeq(t.keys, LAMBDA j : j # k), [j \in DOMAIN t.val \ {k} |-> t.val[j]])
None         == Keyed(<<>>, [j \in {} |-> Nothing])

LOCAL Result(t, out) == [tab |-> t, out |-> out]

\* For a Set, add is set with the value itself.
TableMeans(t, o) ==
    CASE o.m \in {"set", "wset"} -> IF o.m = "wset" /\ o.k.t # "object" THEN Result(t, <<Val("error", 0)>>)
                                    ELSE Result(Set(t, o.k, o.v), <<>>)
      [] o.m \in {"add", "wadd"} -> IF o.m = "wadd" /\ o.k.t # "object" THEN Result(t, <<Val("error", 0)>>)
                                    ELSE Result(Set(t, o.k, o.k), <<>>)
      [] o.m = "get"     -> Result(t, IF Has(t, o.k) THEN <<t.val[o.k]>> ELSE <<>>)
      [] o.m = "has"     -> Result(t, <<B(Has(t, o.k))>>)
      [] o.m = "delete"  -> Result(Delete(t, o.k), <<B(Has(t, o.k))>>)
      [] o.m = "clear"   -> Result(None, <<>>)
      [] o.m = "size"    -> Result(t, <<N(Cardinality(DOMAIN t.val))>>)
      [] o.m = "keys"    -> Result(t, t.keys)
      [] o.m = "values"  -> Result(t, [i \in DOMAIN t.keys |-> t.val[t.keys[i]]])
      [] o.m = "entries" -> Result(t, FlattenSeq([i \in DOMAIN t.keys |-> <<t.keys[i], t.val[t.keys[i]]>>]))

\* The table that new Map and new Set fill from what they are given.
NewMeans(o, isMap) ==
    IF isMap THEN Set(Set(None, o.k, o.v), o.v, o.k) ELSE Set(Set(None, o.k, o.k), o.v, o.v)

GroupMeans(items) ==
    LET classes == {ClassOf[x] : x \in Range(items)}
        Members(c) == SelectSeq(items, LAMBDA x : ClassOf[x] = c)
        At(c) == CHOOSE i \in DOMAIN items : ClassOf[items[i]] = c
                                             /\ \A j \in DOMAIN items : ClassOf[items[j]] = c => i <= j
        order == SetToSortSeq(classes, LAMBDA c, d : At(c) < At(d))
    IN  FlattenSeq([i \in DOMAIN order |-> <<order[i]>> \o Members(order[i])])
==============================================================================
