--------------------------- MODULE NumericMeaning ---------------------------
(***************************************************************************)
(* What the language says of BigInts and of views over a buffer: BigInts   *)
(* are the integers; a method of a view replaces a set of elements, all    *)
(* computed from the buffer as it was, and no other byte.                  *)
(***************************************************************************)
EXTENDS Integers, FiniteSets, Sequences

CONSTANTS ByteBits, Absent, NoCallback, Raises

(***************************************************************************)
(* Integers.                                                               *)
(***************************************************************************)
LOCAL Mag(n) == IF n < 0 THEN -n ELSE n
Quotient(a, b) == IF (a < 0) = (b < 0) THEN Mag(a) \div Mag(b) ELSE -(Mag(a) \div Mag(b))

\* Bit i of the two's complement of n, which goes on to the left for ever.
\* Operands of bitwise operators are below 2 ^ 12 here.
LOCAL BitAt(n, i) == (n \div 2 ^ i) % 2
LOCAL Bitwise(a, b, Op(_, _)) ==
    LET top == 12
        sum[i \in 0 .. top] == Op(BitAt(a, i), BitAt(b, i)) * 2 ^ i + (IF i = 0 THEN 0 ELSE sum[i - 1])
    IN  IF BitAt(a, top) + BitAt(b, top) = 0 \/ Op(BitAt(a, top), BitAt(b, top)) = 0
        THEN sum[top] ELSE sum[top - 1] - 2 ^ top

Integer(op, a, b) ==
    CASE op = "+" -> a + b
      [] op = "-" -> a - b
      [] op = "*" -> a * b
      [] op \in {"/", "%"} /\ b = 0 -> Raises
      [] op = "/" -> Quotient(a, b)
      [] op = "%" -> a - b * Quotient(a, b)
      [] op \in {"**", "<<", ">>"} /\ b < 0 -> Raises
      [] op = "**" -> IF b = 0 THEN 1 ELSE a ^ b
      [] op = "&" -> Bitwise(a, b, LAMBDA x, y : x * y)
      [] op = "|" -> Bitwise(a, b, LAMBDA x, y : x + y - x * y)
      [] op = "^" -> Bitwise(a, b, LAMBDA x, y : (x + y) % 2)
      [] op = "<<" -> a * 2 ^ b
      [] op = ">>" -> a \div 2 ^ b
      [] op \in {">>>", "+x"} -> Raises
      [] op = "-x" -> -a
      [] op = "~x" -> -a - 1
      [] op = "++" -> a + 1
      [] op = "--" -> a - 1
      [] op = "asUintN" -> a % 2 ^ b
      [] op = "asIntN" -> IF b = 0 THEN 0 ELSE ((a + 2 ^ (b - 1)) % 2 ^ b) - 2 ^ (b - 1)

\* The value of digits in a radix.
Value(digits, radix) ==
    LET v[i \in 0 .. Len(digits)] == IF i = 0 THEN 0 ELSE v[i - 1] * radix + digits[i]
    IN  v[Len(digits)]

(***************************************************************************)
(* Elements.                                                               *)
(***************************************************************************)
LOCAL Base == 2 ^ ByteBits
LOCAL Val(t, q) == [t |-> t, q |-> q]
LOCAL N(n) == Val("num", 4 * n)
LOCAL B(b) == Val("bool", IF b THEN 1 ELSE 0)
LOCAL Undef == Val("undef", 0)
LOCAL ByteWidth(k) == IF k \in {"Int8", "Uint8", "Uint8Clamped", "DataView"} THEN 1
                 ELSE IF k \in {"Int16", "Uint16"} THEN 2 ELSE 4
LOCAL M(k) == Base ^ ByteWidth(k)
LOCAL Low(k) == IF k \in {"Int8", "Int16", "Float64", "BigInt64"} THEN -(M(k) \div 2) ELSE 0
LOCAL Trunc(q) == IF q < 0 THEN -((-q) \div 4) ELSE q \div 4

\* The value of element kind k that a number or a BigInt becomes.
Converted(k, v) ==
    LET exact == IF v.t = "big" THEN v.q ELSE Trunc(v.q)
        near(n) == Mag(4 * n - v.q)
    IN  CASE k = "Float64" -> v
          [] v.t = "nan" -> N(0)
          [] k = "Uint8Clamped" ->
                N(CHOOSE n \in 0 .. M(k) - 1 : \A j \in (0 .. M(k) - 1) \ {n} :
                     near(n) < near(j) \/ (near(n) = near(j) /\ n % 2 = 0))
          [] OTHER ->
                LET r == CHOOSE r \in Low(k) .. Low(k) + M(k) - 1 : (r - exact) % M(k) = 0
                IN  IF k \in {"BigInt64", "BigUint64"} THEN Val("big", r) ELSE N(r)

\* Byte j of an element of kind k, counted from its low end; NaN has a pattern
\* of its own.
ByteOf(k, el, j) ==
    LET u == IF el.t = "nan" THEN M(k) \div 2 ELSE IF el.t = "big" \/ k = "Float64" THEN el.q ELSE el.q \div 4
    IN  (u \div Base ^ j) % Base

LOCAL Sum(buf, at, n, little) ==
    LET s[j \in 0 .. n] == IF j = 0 THEN 0
                           ELSE s[j - 1] + buf[at + j - 1] * Base ^ (IF little THEN j - 1 ELSE n - j)
    IN  s[n]

ValueOf(k, u) ==
    LET n == ((u - Low(k)) % M(k)) + Low(k)
    IN  CASE k = "Float64" -> IF n = Low(k) THEN Val("nan", 0) ELSE Val("num", n)
          [] k \in {"BigInt64", "BigUint64"} -> Val("big", n)
          [] OTHER -> N(n)

El(buf, w, i) == IF i \in 0 .. w.len - 1 THEN ValueOf(w.kind, Sum(buf, w.off + i * ByteWidth(w.kind), ByteWidth(w.kind), TRUE))
                 ELSE Undef
All(buf, w) == [i \in 1 .. w.len |-> El(buf, w, i - 1)]

\* The buffer after the elements new (a function from indices to values) have
\* replaced those of the view w; indices outside the view are passed over.
With(buf, w, new) ==
    [b \in DOMAIN buf |->
        LET i == (b - w.off) \div ByteWidth(w.kind)
        IN  IF i \in DOMAIN new \cap (0 .. w.len - 1)
            THEN ByteOf(w.kind, Converted(w.kind, new[i]), (b - w.off) % ByteWidth(w.kind)) ELSE buf[b]]
LOCAL Bytes(buf) == Cardinality(DOMAIN buf)
LOCAL One(i, v) == [j \in {i} |-> v]

(***************************************************************************)
(* Methods.                                                                *)
(***************************************************************************)
Is(buf, out) == [buf |-> buf, out |-> out]
LOCAL Fails(buf, e) == Is(buf, <<Val(e, 0)>>)

\* The indices from .. to - 1 of a sequence of n that relative indices select.
LOCAL Rel(x, n, default) == LET i == IF x = Absent THEN default ELSE IF x < 0 THEN n + x ELSE x
                            IN  IF i < 0 THEN 0 ELSE IF i > n THEN n ELSE i
Selected(o, n) == {i \in 0 .. n - 1 : Rel(o.x, n, 0) <= i /\ i < Rel(o.y, n, n)}
LOCAL InOrder(S) == [k \in 1 .. Cardinality(S) |-> CHOOSE i \in S : Cardinality({j \in S : j < i}) = k - 1]
LOCAL Kept(k, vals) == [i \in DOMAIN vals |-> Converted(k, vals[i])]

\* A view made of a kind and bounds, and whether the bounds are legal.
ViewMeans(buf, o, size, strict) ==
    LET off == IF o.x = Absent THEN 0 ELSE o.x
        left == Bytes(buf) - off
        len == IF o.y = Absent THEN left \div size ELSE o.y
    IN  IF /\ off \in 0 .. Bytes(buf)
           /\ strict => off % size = 0 /\ (o.y = Absent => left % size = 0)
           /\ len >= 0 /\ len * size <= left
        THEN Is(buf, <<[kind |-> o.w.kind, off |-> off, len |-> len]>>)
        ELSE Fails(buf, "RangeError")

SubarrayMeans(buf, o) ==
    LET S == Selected(o, o.w.len)
    IN  Is(buf, <<[kind |-> o.w.kind, off |-> o.w.off + Rel(o.x, o.w.len, 0) * ByteWidth(o.w.kind), len |-> Cardinality(S)]>>)

CopyMeans(buf, o) ==
    LET n == o.w.len
        to == Rel(o.x, n, 0)  from == Rel(o.y, n, 0)  end == Rel(o.z, n, n)
        new == {i \in to .. n - 1 : i - to < end - from}
    IN  Is(With(buf, o.w, [i \in new |-> El(buf, o.w, from + i - to)]), <<>>)

\* A stable sort of the elements as they were: an element goes after those that
\* are less, and after the equal ones before it.  What the comparison function
\* has written meanwhile stays outside the view.
LOCAL Less(c, x, y) == CASE c = "sort" -> x.q < y.q [] c = "sortReverse" -> y.q < x.q [] OTHER -> FALSE
SortMeans(buf, o) ==
    LET el(i) == El(buf, o.w, i)
        I == 0 .. o.w.len - 1
        rank(i) == Cardinality({j \in I : Less(o.m, el(j), el(i)) \/ (j < i /\ ~ Less(o.m, el(i), el(j)))})
        written == IF o.m = "sort" \/ o.w.len < 2 \/ o.c.w = NoCallback THEN buf
                   ELSE With(buf, o.c.w, One(o.c.d, o.c.v))
    IN  Is(With(written, o.w, [k \in I |-> el(CHOOSE i \in I : rank(i) = k)]), <<>>)

\* The first or last index of a value among the indices I, or -1.
IndexMeans(buf, o, I, last) ==
    LET hits == {i \in I : El(buf, o.w, i) = o.v[1]}
    IN  IF hits = {} THEN -1 ELSE CHOOSE i \in hits : \A j \in hits : IF last THEN j <= i ELSE i <= j
FromFirst(o)  == {i \in 0 .. o.w.len - 1 : i >= Rel(o.x, o.w.len, 0)}
UntilLast(o)  == {i \in 0 .. o.w.len - 1 : i <= (IF o.x = Absent THEN i ELSE IF o.x < 0 THEN o.x + o.w.len ELSE o.x)}

(***************************************************************************)
(* Loops with a callback: run k of n visits the index idx[k] and sees the  *)
(* buffer hist[k - 1], with what the callbacks before it have written.     *)
(***************************************************************************)
LOCAL OddEl(v) == v.t # "nan" /\ (IF v.t = "big" THEN v.q % 2 = 1 ELSE (v.q \div 4) % 2 = 1)
LOCAL Shifted(v) == IF v.t = "num" THEN [v EXCEPT !.q = @ + 14] ELSE v

LoopMeans(buf, o) ==
    LET n == o.w.len
        idx == [k \in 1 .. n |-> IF o.m = "reduceRight" THEN n - k ELSE k - 1]
        reducing == o.m \in {"reduce", "reduceRight"}
        skipped == IF reducing /\ o.x = Absent THEN 1 ELSE 0
        hist[k \in 0 .. n] ==
            IF k <= skipped \/ o.c.w = NoCallback THEN buf
            ELSE With(hist[k - 1], o.c.w, One(idx[k] + o.c.d, o.c.v))
        el == [k \in 1 .. n |-> El(hist[k - 1], o.w, idx[k])]
        ends == {k \in skipped + 1 .. n :
                    \/ o.c.raise = idx[k]
                    \/ o.m \in {"find", "findIndex", "some"} /\ OddEl(el[k])
                    \/ o.m = "every" /\ ~ OddEl(el[k])}
        end == CHOOSE k \in ends : \A j \in ends : k <= j
        raised == ends # {} /\ o.c.raise = idx[end]
        odd == SelectSeq(el, OddEl)
        sum[k \in 0 .. n] ==
            IF k = 0 THEN (IF o.x = Absent THEN <<>> ELSE <<N(o.x)>>)
            ELSE IF sum[k - 1] = <<>> THEN <<el[k]>>
            ELSE IF sum[k - 1][1].t = "nan" \/ el[k].t = "nan" THEN <<Val("nan", 0)>>
            ELSE <<Val(sum[k - 1][1].t, sum[k - 1][1].q + el[k].q)>>
        out == CASE o.m = "find"      -> <<IF ends = {} THEN Undef ELSE el[end]>>
                 [] o.m = "findIndex" -> <<N(IF ends = {} THEN -1 ELSE idx[end])>>
                 [] o.m = "some"      -> <<B(ends # {})>>
                 [] o.m = "every"     -> <<B(ends = {})>>
                 [] o.m = "forEach"   -> <<>>
                 [] o.m = "map"       -> Kept(o.w.kind, [k \in 1 .. n |-> Shifted(el[k])])
                 [] o.m = "filter"    -> odd
                 [] reducing          -> sum[n]
    IN  IF reducing /\ o.x = Absent /\ n = 0 THEN Fails(buf, "TypeError")
        ELSE IF raised THEN Fails(hist[end - 1], "raised")
        ELSE Is(hist[IF ends = {} THEN n ELSE end], out)

\* from(source, mapFn): the callbacks are handed the source as it was.
FromMeans(buf, o) ==
    LET src == All(buf, o.s)
        stop == IF o.c.raise < Len(src) THEN o.c.raise ELSE Len(src)
        hist[k \in 0 .. stop] == IF k = 0 \/ o.c.w = NoCallback THEN buf
                                 ELSE With(hist[k - 1], o.c.w, One(k - 1 + o.c.d, o.c.v))
    IN  IF stop < Len(src) THEN Fails(hist[stop], "raised")
        ELSE Is(hist[stop], Kept(o.w.kind, [i \in DOMAIN src |-> Shifted(src[i])]))

(***************************************************************************)
(* DataViews and Atomics.                                                  *)
(***************************************************************************)
LOCAL IntKind(n, signed) == CASE n = 1 -> IF signed THEN "Int8" ELSE "Uint8"
                              [] n = 2 -> IF signed THEN "Int16" ELSE "Uint16"
                              [] n = 4 -> IF signed THEN "BigInt64" ELSE "BigUint64"
DvKind(o) == CASE o.m \in {"getInt", "setInt"} -> IntKind(o.z, TRUE)
               [] o.m = "getUint" -> IntKind(o.z, FALSE)
               [] o.m \in {"getFloat", "setFloat"} -> "Float64"
               [] o.m \in {"getBig", "setBig"} -> "BigInt64"
               [] o.m = "getBigU" -> "BigUint64"

DataViewMeans(buf, o) ==
    LET k == DvKind(o)
        at == o.w.off + o.x
        e == Converted(k, o.v[1])
    IN  IF ~ (o.x >= 0 /\ o.x + o.z <= o.w.len) THEN Fails(buf, "RangeError")
        ELSE IF o.m \in {"setInt", "setFloat", "setBig"}
        THEN Is([b \in DOMAIN buf |-> IF b - at \in 0 .. o.z - 1
                    THEN ByteOf(k, e, IF o.y = 1 THEN b - at ELSE o.z - 1 - (b - at)) ELSE buf[b]], <<>>)
        ELSE Is(buf, <<ValueOf(k, Sum(buf, at, o.z, o.y = 1))>>)

AtomicMeans(buf, o) ==
    LET old == El(buf, o.w, o.x)
        int(v) == IF v.t = "big" THEN v.q ELSE Trunc(v.q)
        As(n) == IF old.t = "big" THEN Val("big", n) ELSE N(n)
        change == o.m # "compareExchange" \/ old = Converted(o.w.kind, o.e[1])
        new == CASE o.m = "add" -> As(int(old) + int(o.v[1])) [] o.m = "sub" -> As(int(old) - int(o.v[1]))
                 [] o.m = "and" -> As(Integer("&", int(old), int(o.v[1])))
                 [] o.m = "or"  -> As(Integer("|", int(old), int(o.v[1])))
                 [] o.m = "xor" -> As(Integer("^", int(old), int(o.v[1])))
                 [] OTHER       -> o.v[1]
        after == IF change THEN With(buf, o.w, One(o.x, new)) ELSE buf
    IN  CASE o.w.kind = "Float64"       -> Fails(buf, "TypeError")
          [] o.x \notin 0 .. o.w.len - 1 -> Fails(buf, "RangeError")
          [] o.m = "wait"               -> Fails(buf, "TypeError")
          [] o.m = "notify"             -> Is(buf, <<N(0)>>)
          [] o.m = "load"               -> Is(buf, <<old>>)
          [] OTHER -> Is(after, <<IF o.m = "store" THEN El(after, o.w, o.x) ELSE old>>)

Means(buf, o) ==
    LET n == o.w.len
        I == 0 .. n - 1
    IN CASE o.m = "view" -> ViewMeans(buf, o, ByteWidth(o.w.kind), TRUE)
         [] o.m = "dataview" -> ViewMeans(buf, o, 1, FALSE)
         [] o.m = "bufferSlice" -> Is(buf, [k \in 1 .. Cardinality(Selected(o, Bytes(buf))) |->
                                               N(buf[InOrder(Selected(o, Bytes(buf)))[k]])])
         [] o.m = "subarray" -> SubarrayMeans(buf, o)
         [] o.m = "slice" -> LET s == InOrder(Selected(o, n)) IN Is(buf, [k \in DOMAIN s |-> El(buf, o.w, s[k])])
         [] o.m = "set" -> Is(With(buf, o.w, [i \in o.x .. o.x + o.s.len - 1 |-> El(buf, o.s, i - o.x)]), <<>>)
         [] o.m = "setArray" -> Is(With(buf, o.w, [i \in o.x .. o.x + Len(o.v) - 1 |-> o.v[i - o.x + 1]]), <<>>)
         [] o.m = "fill" -> Is(With(buf, o.w, [i \in Selected(o, n) |-> o.v[1]]), <<>>)
         [] o.m = "reverse" -> Is(With(buf, o.w, [i \in I |-> El(buf, o.w, n - 1 - i)]), <<>>)
         [] o.m = "copyWithin" -> CopyMeans(buf, o)
         [] o.m \in {"sort", "sortReverse", "sortEqual"} -> SortMeans(buf, o)
         [] o.m = "indexOf" -> Is(buf, <<N(IndexMeans(buf, o, FromFirst(o), FALSE))>>)
         [] o.m = "lastIndexOf" -> Is(buf, <<N(IndexMeans(buf, o, UntilLast(o), TRUE))>>)
         [] o.m = "includes" -> Is(buf, <<B(IndexMeans(buf, o, FromFirst(o), FALSE) # -1)>>)
         [] o.m = "at" -> Is(buf, <<El(buf, o.w, IF o.x < 0 THEN n + o.x ELSE o.x)>>)
         [] o.m \in {"join", "values"} -> Is(buf, All(buf, o.w))
         [] o.m = "keys" -> Is(buf, [k \in 1 .. n |-> N(k - 1)])
         [] o.m = "entries" -> Is(buf, [k \in 1 .. n |-> <<N(k - 1), El(buf, o.w, k - 1)>>])
         [] o.m = "of" -> Is(buf, Kept(o.w.kind, o.v))
         [] o.m = "construct" -> Is(buf, Kept(o.w.kind, All(buf, o.s)))
         [] o.m = "constructLength" -> IF o.x < 0 THEN Fails(buf, "RangeError")
                                       ELSE Is(buf, [k \in 1 .. o.x |-> Converted(o.w.kind, Val(IF o.w.kind \in {"BigInt64", "BigUint64"} THEN "big" ELSE "num", 0))])
         [] o.m = "[]" -> Is(buf, <<El(buf, o.w, o.x)>>)
         [] o.m = "[]=" -> Is(With(buf, o.w, One(o.x, o.v[1])), <<>>)
         [] o.m = "[]+=" -> LET old == El(buf, o.w, o.x)
                            IN  IF old = Undef /\ o.v[1].t = "big" THEN Fails(buf, "TypeError")
                                ELSE Is(With(buf, o.w, One(o.x, IF old.t \in {"nan", "undef"} THEN Val("nan", 0)
                                                           ELSE Val(old.t, old.q + o.v[1].q))), <<>>)
         [] o.m = "from" -> FromMeans(buf, o)
         [] o.m \in {"getInt", "getUint", "getFloat", "getBig", "getBigU", "setInt", "setFloat", "setBig"} ->
                DataViewMeans(buf, o)
         [] o.m \in {"load", "store", "add", "sub", "and", "or", "xor", "exchange",
                     "compareExchange", "wait", "notify"} -> AtomicMeans(buf, o)
         [] o.m = "isLockFree" -> Is(buf, <<B(o.x \in {1, 2, 4, 8})>>)
         [] OTHER -> LoopMeans(buf, o)
=============================================================================
