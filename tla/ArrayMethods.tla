---------------------------- MODULE ArrayMethods ----------------------------
(***************************************************************************)
(* The array of mario_js: the store (var_array_ in mario.c) and the methods  *)
(* of Array.prototype that run no script (native_Array.c).                 *)
(*                                                                         *)
(* An array is the hash map of its elements, keyed by the index: a         *)
(* function from a finite set of indices to values.  It has no length of   *)
(* its own: the length is the NUMBER of elements, so every method relies   *)
(* on the indices being 0 .. length-1 without a gap.                       *)
(*                                                                         *)
(* A value is a record [t, n] of its type and of what tells two values of  *)
(* the type apart; of a NaN n is the var that holds it.  Every answer is a *)
(* sequence of values.                                                     *)
(***************************************************************************)
EXTENDS Integers, FiniteSets, Sequences, SequencesExt

CONSTANTS
    Absent,        \* an argument the script did not give (undefined)
    Inner,         \* Inner[n]: the elements of the array value [t |-> "array", n |-> n]
    TextRank       \* TextRank[v]: the place of v's text in the order of strcmp

Value(t, n) == [t |-> t, n |-> n]
Num(n)      == Value("int", n)
Bool(b)     == Value("bool", IF b THEN 1 ELSE 0)
Undef       == Value("undef", 0)
NaN(n)      == Value("nan", n)

Truthy(v)   == CASE v.t \in {"int", "bool"} -> v.n # 0
                 [] v.t \in {"undef", "null", "nan"} -> FALSE
                 [] OTHER -> TRUE

(***************************************************************************)
(* The store.                                                              *)
(***************************************************************************)
Size(a) == Cardinality(DOMAIN a)

Assign(a, i, v) == [j \in DOMAIN a \cup {i} |-> IF j = i THEN v ELSE a[j]]

\* A read that creates: the element and every hole before it, when the index
\* lies at or past the length.
Materialised(a, i) ==
    CASE i < 0 \/ i \in DOMAIN a -> a
      [] OTHER -> LET new == {i} \cup (IF i >= Size(a) THEN Size(a) .. i ELSE {})
                  IN  [j \in DOMAIN a \cup new |-> IF j \in DOMAIN a THEN a[j] ELSE Undef]

Element(a, i) == IF i \in DOMAIN a THEN a[i] ELSE Undef

\* A read that does not create.
Peek(a, i) == IF i >= 0 /\ i \in DOMAIN a THEN <<a[i]>> ELSE <<>>

\* Mutant: writing past the end does not fill the holes before the element.
Put_Unfilled(a, i, v) == IF i < 0 THEN a ELSE Assign(a, i, v)

Put(a, i, v) == IF i < 0 THEN a ELSE Assign(Materialised(a, i), i, v)

\* The new element takes the index that is the length; an element that is
\* there already is replaced.
Appended(a, v) == Assign(a, Size(a), v)
AppendAll(a, s) == FoldLeft(LAMBDA b, v : Appended(b, v), a, s)

Deleted(a, i) == [j \in DOMAIN a \ {i} |-> a[j]]

Resize(a, n) ==
    IF n < Size(a) THEN [j \in DOMAIN a \ (n .. Size(a) - 1) |-> a[j]]
    ELSE AppendAll(a, [i \in 1 .. n - Size(a) |-> Undef])

\* What a loop over 0 .. length-1 with creating reads finds, and leaves.
Elements(a) == [i \in 1 .. Size(a) |-> Element(a, i - 1)]
Touched(a, from, upto) ==
    FoldLeft(LAMBDA b, i : Materialised(b, i), a, [k \in 1 .. upto - from |-> from + k - 1])

Empty == [i \in {} |-> Undef]
FromSeq(s) == [i \in 0 .. Len(s) - 1 |-> s[i + 1]]

\* Swaps the outer pairs, reading (and so creating) both of each.
Reversed(a) ==
    LET n == Size(a)
        b == FoldLeft(LAMBDA c, i : Materialised(Materialised(c, i), n - i - 1),
                     a, [k \in 1 .. n \div 2 |-> k - 1])
    IN  [j \in DOMAIN b |->
            IF (j < n \div 2) \/ (j >= n - (n \div 2) /\ j < n) THEN b[n - j - 1] ELSE b[j]]

(***************************************************************************)
(* Equality and arguments.                                                 *)
(***************************************************************************)
\* One var equals itself, a NaN too.  svz: any two NaNs are equal (includes),
\* or not (indexOf).
ArrayValEq(x, y, svz) == x = y \/ (svz /\ x.t = "nan" /\ y.t = "nan")

Clamped(i, lo, hi) == IF i < lo THEN lo ELSE IF i > hi THEN hi ELSE i
FromEnd(i, size)   == IF i < 0 THEN i + size ELSE i

RelIndex(x, size, default) ==
    IF x = Absent THEN default ELSE Clamped(FromEnd(x, size), 0, size)

IntArg(x, default) == IF x = Absent THEN default ELSE x

(***************************************************************************)
(* The methods.  Each gives the array it leaves and its answer.            *)
(***************************************************************************)
Gives(a, out) == [arr |-> a, out |-> out]

\* The methods that read every element leave what they read created.
Read(a) == Touched(a, 0, Size(a))

\* unshift, shift and splice rebuild the array: the elements 0 .. length-1 are
\* copied out, deleted, and appended again around the new ones.
Rebuilt(a, s) ==
    LET cleared == [j \in DOMAIN Read(a) \ (0 .. Size(a) - 1) |-> Read(a)[j]]
    IN  AppendAll(cleared, s)

PushM(a, v)    == LET b == Appended(a, v) IN Gives(b, <<Num(Size(b))>>)
UnshiftM(a, v) == LET b == Rebuilt(a, <<v>> \o Elements(a)) IN Gives(b, <<Num(Size(b))>>)

PopM(a) ==
    LET last == Size(a) - 1
    IN  IF last < 0 \/ last \notin DOMAIN a THEN Gives(a, <<>>)
        ELSE Gives(Deleted(a, last), <<a[last]>>)

ShiftM(a) ==
    IF Size(a) = 0 THEN Gives(a, <<>>)
    ELSE Gives(Rebuilt(a, Tail(Elements(a))), <<Element(a, 0)>>)

SliceM(a, x, y) ==
    LET n == Size(a)
        start == Clamped(FromEnd(IntArg(x, 0), n), 0, n)
        end   == Clamped(FromEnd(IntArg(y, n), n), 0, n)
    IN  Gives(Touched(a, start, end), SubSeq(Elements(a), start + 1, end))

SpliceM(a, x, y, items) ==
    LET n == Size(a)
        start == Clamped(FromEnd(IntArg(x, 0), n), 0, n)
        count == IF y = Absent THEN n - start ELSE Clamped(y, 0, n - start)
        all   == Elements(a)
    IN  Gives(Rebuilt(a, SubSeq(all, 1, start) \o items \o SubSeq(all, start + count + 1, n)),
              SubSeq(all, start + 1, start + count))

IsArray(v) == v.t = "array"
ConcatM(a, v) ==
    Gives(Read(a), Elements(a) \o (IF IsArray(v) THEN Inner[v.n] ELSE <<v>>))

\* The texts joined: undefined and null have a text too.
JoinM(a) == Gives(Read(a), Elements(a))

Blank == Value("blank", 0)
ToLocaleM(a) ==
    Gives(Read(a), [i \in 1 .. Size(a) |-> IF Element(a, i - 1).t \in {"undef", "null"}
                                           THEN Blank ELSE Element(a, i - 1)])

Found(a, v, where, svz) == {i \in where : ArrayValEq(Element(a, i), v, svz)}
MinOf(S) == CHOOSE i \in S : \A j \in S : i <= j
MaxOf(S) == CHOOSE i \in S : \A j \in S : i >= j

IncludesM(a, v, x) ==
    LET n == Size(a)
        hits == Found(a, v, RelIndex(x, n, 0) .. n - 1, TRUE)
    IN  Gives(Touched(a, RelIndex(x, n, 0), IF hits = {} THEN n ELSE MinOf(hits) + 1),
              <<Bool(hits # {})>>)

IndexOfM(a, v, x) ==
    LET n == Size(a)
        hits == Found(a, v, RelIndex(x, n, 0) .. n - 1, FALSE)
    IN  Gives(Touched(a, RelIndex(x, n, 0), IF hits = {} THEN n ELSE MinOf(hits) + 1),
              <<Num(IF hits = {} THEN -1 ELSE MinOf(hits))>>)

LastIndexOfM(a, v, x) ==
    LET n == Size(a)
        from == IF x = Absent THEN n - 1 ELSE Clamped(RelIndex(x, n, n - 1), 0, n - 1)
        hits == Found(a, v, 0 .. from, FALSE)
    IN  Gives(Touched(a, IF hits = {} THEN 0 ELSE MaxOf(hits), from + 1),
              <<Num(IF hits = {} THEN -1 ELSE MaxOf(hits))>>)

FillM(a, v, x, y) ==
    LET n == Size(a)
        cells == RelIndex(x, n, 0) .. RelIndex(y, n, n) - 1
        b == Touched(a, RelIndex(x, n, 0), RelIndex(y, n, n))
    IN  Gives([j \in DOMAIN b |-> IF j \in cells THEN v ELSE b[j]], <<>>)

CopyWithinM(a, x, y, z) ==
    LET n == Size(a)
        target == RelIndex(x, n, 0)
        start  == RelIndex(y, n, 0)
        end    == RelIndex(z, n, n)
        copied == SubSeq(Elements(a), start + 1, end)
        cells  == target .. Clamped(target + Len(copied), 0, n) - 1
        b == Touched(Touched(a, start, end), target, Clamped(target + Len(copied), 0, n))
    IN  IF start >= end \/ target >= n THEN Gives(a, <<>>)
        ELSE Gives([j \in DOMAIN b |-> IF j \in cells THEN copied[j - target + 1] ELSE b[j]], <<>>)

RECURSIVE FlattenInto(_, _)
FlattenInto(s, depth) ==
    FlattenSeq([i \in 1 .. Len(s) |->
        IF IsArray(s[i]) /\ depth > 0 THEN FlattenInto(Inner[s[i].n], depth - 1) ELSE <<s[i]>>])

FlatM(a, x) == Gives(Read(a), FlattenInto(Elements(a), Clamped(IntArg(x, 1), 0, 100000)))

AtM(a, x) ==
    LET i == FromEnd(IntArg(x, 0), Size(a))
    IN  IF i < 0 \/ i >= Size(a) THEN Gives(a, <<>>)
        ELSE Gives(Materialised(a, i), <<Element(a, i)>>)

ReverseM(a) == Gives(Reversed(a), <<>>)
SetLengthM(a, n) == Gives(Resize(a, IF n > 0 THEN n ELSE 0), <<>>)

\* keys, values and entries are snapshots behind an iterator.
KeysM(a)    == Gives(a, [i \in 1 .. Size(a) |-> Num(i - 1)])
ValuesM(a)  == Gives(Read(a), Elements(a))
EntriesM(a) == Gives(Read(a), [i \in 1 .. 2 * Size(a) |->
                   IF i % 2 = 1 THEN Num((i - 1) \div 2) ELSE Element(a, (i \div 2) - 1)])

\* new Array(x), new Array(v, v), and Array.of(v, v): a number alone is a length.
ConstructM(v)  == IF v.t = "int" THEN (IF v.n < 0 THEN Gives(Empty, <<Value("error", 0)>>)
                                       ELSE Gives(Resize(Empty, v.n), <<>>))
                  ELSE Gives(Appended(Empty, v), <<>>)
OfM(v)         == Gives(Appended(Empty, v), <<>>)

\* Array.from an iterable (its elements in turn) or an array-like: a fresh array.
FromM(a)       == Gives(FromSeq(Elements(a)), <<>>)

(***************************************************************************)
(* sort: an insertion sort of the elements, undefined last.  Here by their *)
(* texts; with a comparator of the script's it is a loop of Collections.   *)
(***************************************************************************)
Compare(c, x, y) ==
    CASE x = Undef \/ y = Undef -> (IF x = Undef THEN 1 ELSE 0) - (IF y = Undef THEN 1 ELSE 0)
      [] c = "text"    -> TextRank[x] - TextRank[y]
      [] c = "reverse" -> TextRank[y] - TextRank[x]
      [] c = "equal"   -> 0
      [] c = "parity"  -> (TextRank[x] % 2) - (TextRank[y] % 2)

\* An element goes past the last one before it that is not greater.
Insert(s, x) ==
    LET notGreater == {j \in DOMAIN s : Compare("text", s[j], x) <= 0}
    IN  InsertAt(s, (IF notGreater = {} THEN 0 ELSE MaxOf(notGreater)) + 1, x)

SortM(a) ==
    LET sorted == FoldLeft(Insert, <<>>, Elements(a))
    IN  IF Size(a) < 2 THEN Gives(a, <<>>)
        ELSE Gives([j \in DOMAIN Read(a) |-> IF j < Size(a) THEN sorted[j + 1] ELSE a[j]], <<>>)

(***************************************************************************)
(* A call, as the script writes it: m is the method, x, y, z its numbers,  *)
(* v its value, c the comparator.                                          *)
(***************************************************************************)
Call(m, x, y, z, v, c) == [m |-> m, x |-> x, y |-> y, z |-> z, v |-> v, c |-> c]

Runs(a, o) ==
    CASE o.m = "push"        -> PushM(a, o.v)
      [] o.m = "unshift"     -> UnshiftM(a, o.v)
      [] o.m = "pop"         -> PopM(a)
      [] o.m = "shift"       -> ShiftM(a)
      [] o.m = "slice"       -> SliceM(a, o.x, o.y)
      [] o.m = "splice"      -> SpliceM(a, o.x, o.y, IF o.z = Absent THEN <<>> ELSE <<o.v>>)
      [] o.m = "concat"      -> ConcatM(a, o.v)
      [] o.m = "join"        -> JoinM(a)
      [] o.m = "toLocaleString" -> ToLocaleM(a)
      [] o.m = "includes"    -> IncludesM(a, o.v, o.x)
      [] o.m = "indexOf"     -> IndexOfM(a, o.v, o.x)
      [] o.m = "lastIndexOf" -> LastIndexOfM(a, o.v, o.x)
      [] o.m = "fill"        -> FillM(a, o.v, o.x, o.y)
      [] o.m = "copyWithin"  -> CopyWithinM(a, o.x, o.y, o.z)
      [] o.m = "flat"        -> FlatM(a, o.x)
      [] o.m = "at"          -> AtM(a, o.x)
      [] o.m = "reverse"     -> ReverseM(a)
      [] o.m = "sort"        -> SortM(a)
      [] o.m = "keys"        -> KeysM(a)
      [] o.m = "values"      -> ValuesM(a)
      [] o.m = "entries"     -> EntriesM(a)
      [] o.m = "length="     -> SetLengthM(a, o.x)
      [] o.m = "[]="         -> Gives(Put(a, o.x, o.v), <<>>)
      [] o.m = "[]"          -> Gives(a, Peek(a, o.x))
      [] o.m = "delete"      -> Gives(Deleted(a, o.x), <<>>)
      [] o.m = "construct"   -> ConstructM(o.v)
      [] o.m = "of"          -> OfM(o.v)
      [] o.m = "from"        -> FromM(a)
=============================================================================
