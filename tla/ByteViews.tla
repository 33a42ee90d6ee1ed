----------------------------- MODULE ByteViews ------------------------------
(***************************************************************************)
(* Typed arrays, DataViews and Atomics of mario_js over one byte buffer    *)
(* (native_TypedArray.c, native_DataView.c, native_Atomics.c,              *)
(* native_ArrayBuffer.c, var_typedarray_* in mario.c).  A byte has         *)
(* ByteBits bits where the program has 8, a float is a fixed-point number  *)
(* of quarters.  A value is [t, q]: a number q / 4, NaN, or a BigInt q.    *)
(* A view is [kind, off, len]: its elements lie in the buffer from off on, *)
(* the low byte first.                                                     *)
(***************************************************************************)
EXTENDS Integers, Sequences, SequencesExt, Bitwise

CONSTANTS ByteBits,
          Absent,        \* an argument left out
          NoCallback

ByteBase == 2 ^ ByteBits

Val(t, q)  == [t |-> t, q |-> q]
Num(n)     == Val("num", 4 * n)
NaN        == Val("nan", 0)
Undef      == Val("undef", 0)
Bool(b)    == Val("bool", IF b THEN 1 ELSE 0)
Error(e)   == Val(e, 0)
RangeError == <<Error("RangeError")>>
TypeError  == <<Error("TypeError")>>

\* The element types: sizes in bytes (half of the program's for the widest).
Size(kind) == CASE kind \in {"Int8", "Uint8", "Uint8Clamped"} -> 1
                [] kind \in {"Int16", "Uint16"} -> 2
                [] kind \in {"Float64", "BigInt64", "BigUint64"} -> 4
Signed(kind) == kind \in {"Int8", "Int16", "Float64", "BigInt64"}
IsBig(kind)  == kind \in {"BigInt64", "BigUint64"}
Modulus(kind) == 2 ^ (ByteBits * Size(kind))

\* ta_to_integer: towards zero, NaN is 0.
ToInteger(v) == CASE v.t = "big" -> v.q
                  [] v.t # "num" -> 0
                  [] v.q < 0     -> -((-v.q) \div 4)
                  [] OTHER       -> v.q \div 4

\* Mutant: halves are rounded up.
Clamped_HalfUp(v) ==
    LET n == IF v.t = "num" THEN v.q ELSE 0
    IN  IF n <= 0 THEN 0 ELSE IF n >= 4 * (ByteBase - 1) THEN ByteBase - 1 ELSE (n + 2) \div 4

\* To the nearest integer, a half to the even one.
Clamped(v) ==
    LET n  == IF v.t = "num" THEN v.q ELSE 0
        fl == n \div 4
        diff == n % 4
    IN  IF n <= 0 THEN 0
        ELSE IF n >= 4 * (ByteBase - 1) THEN ByteBase - 1
        ELSE IF diff > 2 THEN fl + 1 ELSE IF diff < 2 THEN fl
        ELSE IF fl % 2 = 0 THEN fl ELSE fl + 1

\* The bits a value is stored as, and back; the largest negative stands for NaN.
Bits(kind, v) ==
    CASE kind = "Uint8Clamped" -> Clamped(v)
      [] kind = "Float64" -> IF v.t = "nan" THEN Modulus(kind) \div 2
                             ELSE (IF v.t = "num" THEN v.q ELSE 0) % Modulus(kind)
      [] OTHER -> ToInteger(v) % Modulus(kind)

FromBits(kind, u) ==
    LET n == IF Signed(kind) /\ u >= Modulus(kind) \div 2 THEN u - Modulus(kind) ELSE u
    IN  CASE kind = "Float64" -> IF u = Modulus(kind) \div 2 THEN NaN ELSE Val("num", n)
          [] IsBig(kind)      -> Val("big", n)
          [] OTHER            -> Num(n)

\* n bytes at a position of the buffer as a number, and a number written there.
LoadBytes(buf, at, n, little) ==
    FoldLeft(LAMBDA u, i : u + buf[at + i] * ByteBase ^ (IF little THEN i ELSE n - 1 - i),
             0, [i \in 1 .. n |-> i - 1])
StoreBytes(buf, at, n, little, u) ==
    [b \in DOMAIN buf |->
        IF b >= at /\ b < at + n
        THEN (u \div ByteBase ^ (IF little THEN b - at ELSE n - 1 - (b - at))) % ByteBase
        ELSE buf[b]]

Place(view, i) == view.off + i * Size(view.kind)
Inside(view, i) == i >= 0 /\ i < view.len

GetAt(buf, view, i) ==
    IF Inside(view, i) THEN FromBits(view.kind, LoadBytes(buf, Place(view, i), Size(view.kind), TRUE))
    ELSE Undef

SetAt(buf, view, i, v) ==
    IF Inside(view, i) THEN StoreBytes(buf, Place(view, i), Size(view.kind), TRUE, Bits(view.kind, v))
    ELSE buf

Elements(buf, view) == [i \in 1 .. view.len |-> GetAt(buf, view, i - 1)]

\* A new typed array over a buffer of its own, and what it holds.
Fresh(kind, vals) == [i \in DOMAIN vals |-> FromBits(kind, Bits(kind, vals[i]))]

Gives(buf, out) == [buf |-> buf, out |-> out]

ClampRel(x, len, default) ==
    LET i == IF x = Absent THEN default ELSE x
    IN  IF i < 0 THEN (IF i + len < 0 THEN 0 ELSE i + len) ELSE IF i > len THEN len ELSE i

(***************************************************************************)
(* Constructors over the buffer: a view, or an error.  A call o has a      *)
(* method m, a view w (of which a constructor takes the kind), arguments   *)
(* x, y, z (numbers or Absent), values v, e, and a second view s.          *)
(***************************************************************************)
Bytes(buf) == Cardinality(DOMAIN buf)
Given(x, default) == IF x = Absent THEN default ELSE x

ConstructView(buf, o) ==
    LET n    == Bytes(buf)
        size == Size(o.w.kind)
        off  == Given(o.x, 0)
        len  == Given(o.y, (n - off) \div size)
    IN  IF \/ off < 0 \/ off > n \/ off % size # 0
           \/ o.y = Absent /\ (n - off) % size # 0
           \/ len < 0 \/ off + len * size > n
        THEN RangeError ELSE <<[kind |-> o.w.kind, off |-> off, len |-> len]>>

ConstructDataView(buf, o) ==
    LET n   == Bytes(buf)
        off == Given(o.x, 0)
        len == Given(o.y, n - off)
    IN  IF off < 0 \/ off > n \/ len < 0 \/ off + len > n THEN RangeError
        ELSE <<[kind |-> "DataView", off |-> off, len |-> len]>>

BufferSlice(buf, x, y) ==
    LET begin == ClampRel(x, Bytes(buf), 0)
        end   == ClampRel(y, Bytes(buf), Bytes(buf))
    IN  [i \in 1 .. end - begin |-> Num(buf[begin + i - 1])]

(***************************************************************************)
(* Methods that call no script.                                            *)
(***************************************************************************)
Subarray(buf, o) ==
    LET begin == ClampRel(o.x, o.w.len, 0)
        end   == ClampRel(o.y, o.w.len, o.w.len)
    IN  Gives(buf, <<[kind |-> o.w.kind, off |-> Place(o.w, begin),
                      len |-> IF end > begin THEN end - begin ELSE 0]>>)

Slice(buf, o) ==
    LET begin == ClampRel(o.x, o.w.len, 0)
        end   == ClampRel(o.y, o.w.len, o.w.len)
    IN  Gives(buf, Fresh(o.w.kind, [i \in 1 .. end - begin |-> GetAt(buf, o.w, begin + i - 1)]))

\* Element by element, each read when its turn comes.
SetFromView(buf, o) ==
    Gives(FoldLeft(LAMBDA b, i : SetAt(b, o.w, o.x + i, GetAt(b, o.s, i)), buf,
                   [i \in 1 .. o.s.len |-> i - 1]), <<>>)
SetFromArray(buf, o) ==
    Gives(FoldLeft(LAMBDA b, i : SetAt(b, o.w, o.x + i - 1, o.v[i]), buf, [i \in DOMAIN o.v |-> i]), <<>>)

Fill(buf, o) ==
    LET start == ClampRel(o.x, o.w.len, 0)
        end   == ClampRel(o.y, o.w.len, o.w.len)
    IN  Gives(FoldLeft(LAMBDA b, i : SetAt(b, o.w, i, o.v[1]), buf,
                       [k \in 1 .. end - start |-> start + k - 1]), <<>>)

\* From both ends inwards.
ReverseInPlace(buf, o) ==
    LET Swap(b, i) == LET j == o.w.len - 1 - i
                          x == GetAt(b, o.w, i)
                          y == GetAt(b, o.w, j)
                      IN  SetAt(SetAt(b, o.w, j, x), o.w, i, y)
    IN  Gives(FoldLeft(Swap, buf, [k \in 1 .. o.w.len \div 2 |-> k - 1]), <<>>)

\* memmove: the bytes as they were.
CopyWithin(buf, o) ==
    LET len   == o.w.len
        to    == ClampRel(o.x, len, 0)
        start == ClampRel(o.y, len, 0)
        end   == ClampRel(o.z, len, len)
        count == IF to + end - start > len THEN len - to ELSE end - start
        dst   == Place(o.w, to)
        src   == Place(o.w, start)
        bytes == count * Size(o.w.kind)
    IN  Gives([b \in DOMAIN buf |-> IF count > 0 /\ b >= dst /\ b < dst + bytes
                                    THEN buf[src + b - dst] ELSE buf[b]], <<>>)

\* As BigInts, or as doubles, where undefined is 0 and NaN is neither less nor greater.
CmpDefault(x, y) ==
    LET q(v) == IF v.t = "big" THEN 4 * v.q ELSE v.q
    IN  IF x.t = "nan" \/ y.t = "nan" \/ q(x) = q(y) THEN 0 ELSE IF q(x) < q(y) THEN -1 ELSE 1

\* The comparison functions a script gives.
CmpBy(c, x, y) == CASE c = "sort" -> CmpDefault(x, y)
                    [] c = "sortReverse" -> CmpDefault(y, x)
                    [] c = "sortEqual"   -> 0

\* One round of the insertion sort: to the left past what is greater.
Inserted(s, key, c) ==
    LET stops == {j \in DOMAIN s : CmpBy(c, s[j], key) <= 0}
        at == FoldLeft(LAMBDA m, j : IF j \in stops THEN j ELSE m, 0, [j \in DOMAIN s |-> j])
    IN  SubSeq(s, 1, at) \o <<key>> \o SubSeq(s, at + 1, Len(s))

SameType(el, v) == (el.t = "big") <=> (v.t = "big")

FirstFrom(x, len) == IF x = Absent THEN 0 ELSE IF x >= 0 THEN x ELSE IF x + len < 0 THEN 0 ELSE x + len

\* The indices whose element compares equal, from a first one on.
Matches(buf, o, from) ==
    SelectSeq([k \in 1 .. o.w.len |-> k - 1],
              LAMBDA i : i >= from /\ CmpDefault(GetAt(buf, o.w, i), o.v[1]) = 0)

IndexOf(buf, o) ==
    LET found == SelectSeq(Matches(buf, o, FirstFrom(o.x, o.w.len)),
                           LAMBDA i : SameType(GetAt(buf, o.w, i), o.v[1]))
    IN  Gives(buf, <<Num(IF found = <<>> THEN -1 ELSE Head(found))>>)

Includes(buf, o) == Gives(buf, <<Bool(Matches(buf, o, FirstFrom(o.x, o.w.len)) # <<>>)>>)

LastIndexOf(buf, o) ==
    LET last  == IF o.x = Absent THEN o.w.len - 1 ELSE IF o.x < 0 THEN o.x + o.w.len ELSE o.x
        found == SelectSeq(Matches(buf, o, 0), LAMBDA i : i <= last /\ SameType(GetAt(buf, o.w, i), o.v[1]))
    IN  Gives(buf, <<Num(IF found = <<>> THEN -1 ELSE Last(found))>>)

At(buf, o) ==
    LET i == IF o.x < 0 THEN o.x + o.w.len ELSE o.x
    IN  Gives(buf, <<GetAt(buf, o.w, i)>>)

Join(buf, o)    == Gives(buf, Elements(buf, o.w))
Values(buf, o)  == Gives(buf, Elements(buf, o.w))      \* an iterator over a copy
Keys(buf, o)    == Gives(buf, [i \in 1 .. o.w.len |-> Num(i - 1)])
Entries(buf, o) == Gives(buf, [i \in 1 .. o.w.len |-> <<Num(i - 1), GetAt(buf, o.w, i - 1)>>])

Of(buf, o)        == Gives(buf, Fresh(o.w.kind, o.v))
ConstructFrom(buf, o) == Gives(buf, Fresh(o.w.kind, Elements(buf, o.s)))
ConstructLength(buf, o) ==
    Gives(buf, IF o.x < 0 THEN RangeError ELSE [i \in 1 .. o.x |-> FromBits(o.w.kind, 0)])

Read(buf, o)  == Gives(buf, <<GetAt(buf, o.w, o.x)>>)
Write(buf, o) == Gives(SetAt(buf, o.w, o.x, o.v[1]), <<>>)
\* ta[i] += v: the element is read for the slot, and the sum written through it.
\* What is outside is undefined, which is NaN to a number and nothing to a BigInt.
Bump(buf, o) ==
    LET old == GetAt(buf, o.w, o.x)
        sum == IF old.t \in {"nan", "undef"} THEN NaN ELSE Val(old.t, old.q + o.v[1].q)
    IN  IF old.t = "undef" /\ o.v[1].t = "big" THEN Gives(buf, TypeError)
        ELSE Gives(SetAt(buf, o.w, o.x, sum), <<>>)

(***************************************************************************)
(* Methods that run a callback c on each element.  The callback may write  *)
(* c.v to the element at c.d from the current index of the view c.w; at    *)
(* the index c.raise it raises an error, after which no callback is        *)
(* entered.  It returns whether the element is odd, or, for map and from,  *)
(* the element and 3.5, or, for reduce, the sum.                           *)
(***************************************************************************)
Odd(v) == v.t # "nan" /\ (v.q \div (IF v.t = "big" THEN 1 ELSE 4)) % 2 = 1
Mapped(v) == IF v.t = "num" THEN Val("num", v.q + 14) ELSE v
Added(x, y) == IF x.t = "nan" \/ y.t = "nan" THEN NaN ELSE Val(x.t, x.q + y.q)

Effect(c, buf, i) == IF c.w = NoCallback THEN buf ELSE SetAt(buf, c.w, i + c.d, c.v)

\* A copy is sorted and written back, over what the comparison function has
\* written to the element c.d of the view c.w meanwhile.  An error it raises in
\* the round c.raise makes everything "equal" from there on.
Sort(buf, o) ==
    LET els    == Elements(buf, o.w)
        n      == Len(els)
        rounds == IF o.c.raise < n THEN o.c.raise ELSE n
        sorted == FoldLeft(LAMBDA s, key : Inserted(s, key, o.m), <<>>, SubSeq(els, 1, rounds))
                  \o SubSeq(els, rounds + 1, n)
        asked  == o.m # "sort" /\ rounds > 1
        b0     == IF asked THEN Effect(o.c, buf, 0) ELSE buf
    IN  Gives(FoldLeft(LAMBDA b, i : SetAt(b, o.w, i - 1, sorted[i]), b0, [i \in 1 .. n |-> i]),
              IF o.m # "sort" /\ rounds < n THEN <<Error("raised")>> ELSE <<>>)

Stops(m, el) == \/ m \in {"find", "findIndex", "some"} /\ Odd(el)
                \/ m = "every" /\ ~ Odd(el)

\* acc: what is collected; out: the answer once there is one.
Visit(o, r, i) ==
    LET el == GetAt(r.buf, o.w, i)
        b  == Effect(o.c, r.buf, i)
    IN  IF r.done THEN r
        ELSE IF o.c.raise = i THEN [r EXCEPT !.done = TRUE, !.out = <<Error("raised")>>]
        ELSE [buf |-> b, done |-> Stops(o.m, el),
              acc |-> CASE o.m = "map"    -> Append(r.acc, Mapped(el))
                        [] o.m = "filter" -> IF Odd(el) THEN Append(r.acc, el) ELSE r.acc
                        [] o.m \in {"reduce", "reduceRight"} -> <<IF r.acc = <<>> THEN el ELSE Added(r.acc[1], el)>>
                        [] OTHER          -> r.acc,
              out |-> CASE o.m = "find" /\ Odd(el)      -> <<el>>
                        [] o.m = "findIndex" /\ Odd(el) -> <<Num(i)>>
                        [] o.m = "some" /\ Odd(el)      -> <<Bool(TRUE)>>
                        [] o.m = "every" /\ ~ Odd(el)   -> <<Bool(FALSE)>>
                        [] OTHER                        -> r.out]

AtEnd(o, r) ==
    CASE o.m = "find"      -> <<Undef>>
      [] o.m = "findIndex" -> <<Num(-1)>>
      [] o.m = "some"      -> <<Bool(FALSE)>>
      [] o.m = "every"     -> <<Bool(TRUE)>>
      [] o.m = "forEach"   -> <<>>
      [] o.m \in {"map", "filter"} -> Fresh(o.w.kind, r.acc)
      [] o.m \in {"reduce", "reduceRight"} -> r.acc

Loop(buf, o) ==
    LET n     == o.w.len
        right == o.m = "reduceRight"
        order == [k \in 1 .. n |-> IF right THEN n - k ELSE k - 1]
        first == o.m \in {"reduce", "reduceRight"} /\ o.x = Absent
        r0 == [buf |-> buf, done |-> FALSE, out |-> <<>>,
               acc |-> IF first /\ n > 0 THEN <<GetAt(buf, o.w, order[1])>>
                       ELSE IF first \/ o.m \notin {"reduce", "reduceRight"} THEN <<>> ELSE <<Num(o.x)>>]
        r  == FoldLeft(LAMBDA q, i : Visit(o, q, i), r0, IF first /\ n > 0 THEN Tail(order) ELSE order)
    IN  IF first /\ n = 0 THEN Gives(buf, TypeError)
        ELSE Gives(r.buf, IF r.done THEN r.out ELSE AtEnd(o, r))

\* from(source, mapFn): the source is collected before the callbacks run.
From(buf, o) ==
    LET src == Elements(buf, o.s)
        n   == Len(src)
        stop == IF o.c.raise < n THEN o.c.raise ELSE n
        after == FoldLeft(LAMBDA b, i : Effect(o.c, b, i), buf, [k \in 1 .. stop |-> k - 1])
    IN  Gives(after, IF stop < n THEN <<Error("raised")>> ELSE Fresh(o.w.kind, [i \in DOMAIN src |-> Mapped(src[i])]))

(***************************************************************************)
(* DataView: x is the offset, z the number of bytes, y 1 when the low      *)
(* byte comes first, w the view with its own bounds.                       *)
(***************************************************************************)
DvOutside(o) == o.x < 0 \/ o.x + o.z > o.w.len

DvGet(buf, o) ==
    LET u == LoadBytes(buf, o.w.off + o.x, o.z, o.y = 1)
        m == ByteBase ^ o.z
    IN  IF DvOutside(o) THEN Gives(buf, RangeError)
        ELSE Gives(buf, CASE o.m = "getInt"    -> <<Num(IF u >= m \div 2 THEN u - m ELSE u)>>
                          [] o.m = "getUint"   -> <<Num(u)>>
                          [] o.m = "getFloat"  -> <<FromBits("Float64", u)>>
                          [] o.m = "getBig"    -> <<FromBits("BigInt64", u)>>
                          [] o.m = "getBigU"   -> <<FromBits("BigUint64", u)>>)

DvSet(buf, o) ==
    LET u == IF o.m = "setFloat" THEN Bits("Float64", o.v[1]) ELSE ToInteger(o.v[1])
    IN  IF DvOutside(o) THEN Gives(buf, RangeError)
        ELSE Gives(StoreBytes(buf, o.w.off + o.x, o.z, o.y = 1, u), <<>>)

(***************************************************************************)
(* Atomics, in an engine with one thread: nobody waits, nobody is woken.   *)
(***************************************************************************)
AtomCheck(o) ==
    IF o.w.kind = "Float64" THEN TypeError
    ELSE IF ~ Inside(o.w, o.x) THEN RangeError ELSE <<>>

\* Two's complement, on as many bits as the element has.
AtomNew(m, kind, old, v, expected) ==
    LET M == Modulus(kind)
        a == ToInteger(old)
        b == ToInteger(v)
        new == CASE m = "add" -> a + b
                 [] m = "sub" -> a - b
                 [] m = "and" -> (a % M) & (b % M)
                 [] m = "or"  -> (a % M) | (b % M)
                 [] m = "xor" -> (a % M) ^^ (b % M)
                 [] m \in {"store", "exchange"} -> b
                 [] m = "compareExchange" -> IF a = ToInteger(expected) THEN b ELSE a
    IN  IF IsBig(kind) THEN Val("big", new) ELSE Num(new)

Atomic(buf, o) ==
    LET m == o.m
        old == GetAt(buf, o.w, o.x)
        b   == SetAt(buf, o.w, o.x, AtomNew(m, o.w.kind, old, o.v[1], o.e[1]))
    IN  CASE AtomCheck(o) # <<>> -> Gives(buf, AtomCheck(o))
          [] m = "load"   -> Gives(buf, <<old>>)
          [] m = "wait"   -> Gives(buf, TypeError)
          [] m = "notify" -> Gives(buf, <<Num(0)>>)
          [] m = "store"  -> Gives(b, <<GetAt(b, o.w, o.x)>>)
          [] OTHER        -> Gives(b, <<old>>)

IsLockFree(buf, o) == Gives(buf, <<Bool(o.x \in {1, 2, 4, 8})>>)

(***************************************************************************)
(* What a call does to the buffer and gives.                               *)
(***************************************************************************)
Runs(buf, o) ==
    CASE o.m = "subarray" -> Subarray(buf, o)
      [] o.m = "slice" -> Slice(buf, o)
      [] o.m = "set" -> SetFromView(buf, o)
      [] o.m = "setArray" -> SetFromArray(buf, o)
      [] o.m = "fill" -> Fill(buf, o)
      [] o.m = "reverse" -> ReverseInPlace(buf, o)
      [] o.m = "copyWithin" -> CopyWithin(buf, o)
      [] o.m \in {"sort", "sortReverse", "sortEqual"} -> Sort(buf, o)
      [] o.m = "indexOf" -> IndexOf(buf, o)
      [] o.m = "lastIndexOf" -> LastIndexOf(buf, o)
      [] o.m = "includes" -> Includes(buf, o)
      [] o.m = "at" -> At(buf, o)
      [] o.m = "join" -> Join(buf, o)
      [] o.m = "values" -> Values(buf, o)
      [] o.m = "keys" -> Keys(buf, o)
      [] o.m = "entries" -> Entries(buf, o)
      [] o.m = "of" -> Of(buf, o)
      [] o.m = "construct" -> ConstructFrom(buf, o)
      [] o.m = "constructLength" -> ConstructLength(buf, o)
      [] o.m = "[]" -> Read(buf, o)
      [] o.m = "[]=" -> Write(buf, o)
      [] o.m = "[]+=" -> Bump(buf, o)
      [] o.m = "from" -> From(buf, o)
      [] o.m \in {"getInt", "getUint", "getFloat", "getBig", "getBigU"} -> DvGet(buf, o)
      [] o.m \in {"setInt", "setFloat", "setBig"} -> DvSet(buf, o)
      [] o.m \in {"load", "store", "add", "sub", "and", "or", "xor", "exchange",
                  "compareExchange", "wait", "notify"} -> Atomic(buf, o)
      [] o.m = "isLockFree" -> IsLockFree(buf, o)
      [] o.m = "view" -> Gives(buf, ConstructView(buf, o))
      [] o.m = "dataview" -> Gives(buf, ConstructDataView(buf, o))
      [] o.m = "bufferSlice" -> Gives(buf, BufferSlice(buf, o.x, o.y))
      [] OTHER -> Loop(buf, o)
=============================================================================
