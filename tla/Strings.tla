------------------------------ MODULE Strings ------------------------------
(***************************************************************************)
(* The methods of String that take no RegExp.  A string is a sequence of   *)
(* bytes; some methods count bytes, others decode the characters.  An      *)
(* argument left out is Absent; `null` in its place is left out too.       *)
(***************************************************************************)
EXTENDS Integers, SequencesExt

CONSTANTS
    Absent,
    LeadLength(_),   \* how many bytes a character has that starts with a byte
    Order(_),        \* a byte's value
    Spaces,          \* what trim() takes off
    Lowered(_), Raised(_),
    Blank

Undefined == <<"undefined">>
NaN == <<"NaN">>
Clamp(i, lo, hi) == IF i < lo THEN lo ELSE IF i > hi THEN hi ELSE i
Or_(arg, otherwise) == IF arg = Absent THEN otherwise ELSE arg
Bytes(s, from, to) == SubSeq(s, from + 1, to)
OccursAt(s, t, i) == i >= 0 /\ i + Len(t) <= Len(s) /\ Bytes(s, i, i + Len(t)) = t
\* The first occurrence in a loop from i, or -1.
FindFrom(s, t, i) ==
    LET at == {k \in i .. Len(s) - Len(t) : OccursAt(s, t, k)} IN IF at = {} THEN -1 ELSE CHOOSE k \in at : \A j \in at : k <= j

-----------------------------------------------------------------------------
(* By bytes. *)
Substr(s, start, length) ==
    LET from == Clamp(IF start < 0 THEN start + Len(s) ELSE start, 0, Len(s))
        left == Len(s) - from
        len == Or_(length, left)
    IN  IF len <= 0 \/ left <= 0 THEN <<>> ELSE Bytes(s, from, from + (IF len > left THEN left ELSE len))

Slice(s, begin, end) ==
    LET Back(i) == IF i < 0 THEN (IF Len(s) + i < 0 THEN 0 ELSE Len(s) + i) ELSE i
        from == Back(begin)
        to == IF end = Absent THEN Len(s) ELSE Back(end)
        last == IF to > Len(s) THEN Len(s) ELSE to
    IN  IF from >= Len(s) \/ from >= last THEN <<>> ELSE Bytes(s, from, last)

Substring(s, start, end) ==
    LET a == Clamp(start, 0, Len(s))
        b == Clamp(Or_(end, Len(s)), 0, Len(s))
    IN  IF a > b THEN Bytes(s, b, a) ELSE Bytes(s, a, b)

IndexOf(s, t, fromIndex) ==
    LET from == IF Or_(fromIndex, 0) < 0 THEN 0 ELSE Or_(fromIndex, 0)
    IN  IF t = <<>> THEN (IF from > Len(s) THEN Len(s) ELSE from)
        ELSE IF from >= Len(s) \/ Len(t) > Len(s) THEN -1 ELSE FindFrom(s, t, from)

LastIndexOf(s, t, fromIndex) ==
    LET from == IF Or_(fromIndex, Len(s)) > Len(s) THEN Len(s) ELSE Or_(fromIndex, Len(s))
        scan[i \in -1 .. Len(s)] ==
            IF i = -1 THEN -1 ELSE IF i <= from /\ OccursAt(s, t, i) THEN i ELSE scan[i - 1]
    IN  IF t = <<>> THEN (IF from < 0 THEN 0 ELSE from) ELSE scan[Len(s)]

StartsWith(s, t, position) ==
    LET at == Clamp(Or_(position, 0), 0, Len(s)) IN t = <<>> \/ OccursAt(s, t, at)
EndsWith(s, t, position) ==
    LET end == Clamp(Or_(position, Len(s)), 0, Len(s)) IN t = <<>> \/ (Len(t) <= end /\ OccursAt(s, t, end - Len(t)))
Includes(s, t, position) ==
    LET at == Clamp(Or_(position, 0), 0, Len(s)) IN t = <<>> \/ FindFrom(s, t, at) # -1

TrimStart(s) ==
    LET skip[i \in 0 .. Len(s)] == IF i < Len(s) /\ s[i + 1] \in Spaces THEN skip[i + 1] ELSE i
    IN  Bytes(s, skip[0], Len(s))
TrimEnd(s) ==
    LET drop[i \in 0 .. Len(s)] == IF i > 0 /\ s[i] \in Spaces THEN drop[i - 1] ELSE i
    IN  Bytes(s, 0, drop[Len(s)])
Trim(s) == TrimEnd(TrimStart(s))

ToLowerCase(s) == [i \in DOMAIN s |-> Lowered(s[i])]
ToUpperCase(s) == [i \in DOMAIN s |-> Raised(s[i])]
Repeat(s, count) == FlattenSeq([i \in 1 .. (IF count < 0 THEN 0 ELSE count) |-> s])
BuildPad(pad, need) ==
    [i \in 1 .. need |-> IF pad = <<>> THEN Blank ELSE pad[((i - 1) % Len(pad)) + 1]]
Need(s, target) == IF target > Len(s) THEN target - Len(s) ELSE 0
PadStart(s, target, pad) == BuildPad(pad, Need(s, target)) \o s
PadEnd(s, target, pad) == s \o BuildPad(pad, Need(s, target))
Concat(s, args) == s \o FlattenSeq(args)

LocaleCompare(s, t) ==
    LET differ == {i \in 1 .. Len(s) : i <= Len(t) /\ s[i] # t[i]}
        first == CHOOSE i \in differ : \A j \in differ : i <= j
    IN  IF differ # {} THEN (IF Order(s[first]) < Order(t[first]) THEN -1 ELSE 1)
        ELSE IF Len(s) < Len(t) THEN -1 ELSE IF Len(s) > Len(t) THEN 1 ELSE 0

\* Pieces between the occurrences of a separator, the last one included.
RECURSIVE PiecesFrom(_, _, _, _)
PiecesFrom(s, sep, start, limit) ==
    LET found == FindFrom(s, sep, start)
    IN  IF found = -1 THEN <<Bytes(s, start, Len(s))>>
        ELSE <<Bytes(s, start, found)>>
             \o (IF limit = 1 THEN <<>> ELSE PiecesFrom(s, sep, found + Len(sep), limit - 1))
Split(s, separator, limitArg) ==
    LET limit == IF limitArg = Absent \/ limitArg < 0 THEN -1 ELSE limitArg
        one == IF limit = -1 \/ limit > Len(s) THEN Len(s) ELSE limit
    IN  IF limit = 0 THEN <<>>
        ELSE IF separator = <<>> THEN <<s>>
        ELSE IF separator[1] = <<>> THEN [i \in 1 .. one |-> <<s[i]>>]
        ELSE PiecesFrom(s, separator[1], 0, limit)

\* The first occurrence; before everything when there is nothing to find.
Replace(s, t, by) ==
    LET at == FindFrom(s, t, 0)
    IN  IF t = <<>> THEN by \o s
        ELSE IF at = -1 THEN s ELSE Bytes(s, 0, at) \o by \o Bytes(s, at + Len(t), Len(s))

-----------------------------------------------------------------------------
(* By characters.  A character cut short by the end stands for its first byte. *)
CharLength(s, p) ==
    LET len == LeadLength(s[p + 1]) IN IF p + len <= Len(s) THEN len ELSE 1
RECURSIVE Place(_, _, _)
\* Where the i-th character from p starts, or the end.
Place(s, p, i) == IF i = 0 \/ p >= Len(s) THEN p ELSE Place(s, p + CharLength(s, p), i - 1)
Character(s, p) == Bytes(s, p, p + CharLength(s, p))
RECURSIVE CountFrom(_, _)
CountFrom(s, p) == IF p >= Len(s) THEN 0 ELSE 1 + CountFrom(s, p + CharLength(s, p))

CharAt(s, index) == IF index < 0 \/ Place(s, 0, index) >= Len(s) THEN <<>> ELSE Character(s, Place(s, 0, index))
CodeAt(s, index, none) == IF index < 0 \/ Place(s, 0, index) >= Len(s) THEN none ELSE Character(s, Place(s, 0, index))
CharCodeAt(s, index) == CodeAt(s, index, NaN)
CodePointAt(s, index) == CodeAt(s, index, Undefined)
StringAt(s, index) ==
    LET at == IF index < 0 THEN index + CountFrom(s, 0) ELSE index
    IN  IF at < 0 \/ at >= CountFrom(s, 0) THEN Undefined ELSE Character(s, Place(s, 0, at))

RECURSIVE ReplacedFrom(_, _, _, _), Interleaved(_, _, _)
ReplacedFrom(s, t, by, i) ==
    IF i >= Len(s) THEN <<>>
    ELSE IF OccursAt(s, t, i) THEN by \o ReplacedFrom(s, t, by, i + Len(t))
    ELSE <<s[i + 1]>> \o ReplacedFrom(s, t, by, i + 1)
Interleaved(s, by, p) ==
    IF p >= Len(s) THEN by ELSE by \o Character(s, p) \o Interleaved(s, by, p + CharLength(s, p))
ReplaceEvery(s, t, by) == IF t = <<>> THEN Interleaved(s, by, 0) ELSE ReplacedFrom(s, t, by, 0)

\* UTF8: a list of characters; one that is cut short ends the reading, and one
\* of two bytes is read as two.
ReadLength(b) == IF LeadLength(b) = 2 THEN 1 ELSE LeadLength(b)
RECURSIVE CharsFrom(_, _)
CharsFrom(s, p) ==
    LET to == p + ReadLength(s[p + 1])
    IN  IF p >= Len(s) \/ to > Len(s) THEN <<>> ELSE <<Bytes(s, p, to)>> \o CharsFrom(s, to)
Utf8New(s) == CharsFrom(s, 0)
Utf8Len(u) == Len(u)
Utf8ToStr(u) == FlattenSeq(u)
Utf8Set(u, at, c) ==
    IF c = <<>> THEN (IF at \in 0 .. Len(u) - 1 THEN RemoveAt(u, at + 1) ELSE u)
    ELSE IF at \in 0 .. Len(u) - 1 THEN [u EXCEPT ![at + 1] = c] ELSE u
Utf8Substr(u, start, length) ==
    LET from == IF start < 0 THEN 0 ELSE start
        left == Len(u) - from
    IN  IF left <= 0 \/ length <= 0 THEN <<>> ELSE SubSeq(u, from + 1, from + (IF length > left THEN left ELSE length))

\* A call: the method `m`, numbers `a` and `b`, strings `t` and `u`.
Runs(s, o) ==
    CASE o.m = "substr" -> Substr(s, o.a, o.b)
      [] o.m = "slice" -> Slice(s, o.a, o.b)
      [] o.m = "substring" -> Substring(s, o.a, o.b)
      [] o.m = "indexOf" -> IndexOf(s, o.t, o.b)
      [] o.m = "lastIndexOf" -> LastIndexOf(s, o.t, o.b)
      [] o.m = "startsWith" -> StartsWith(s, o.t, o.b)
      [] o.m = "endsWith" -> EndsWith(s, o.t, o.b)
      [] o.m = "includes" -> Includes(s, o.t, o.b)
      [] o.m = "trim" -> Trim(s)
      [] o.m = "trimStart" -> TrimStart(s)
      [] o.m = "trimEnd" -> TrimEnd(s)
      [] o.m = "toLowerCase" -> ToLowerCase(s)
      [] o.m = "toUpperCase" -> ToUpperCase(s)
      [] o.m = "repeat" -> Repeat(s, o.a)
      [] o.m = "padStart" -> PadStart(s, o.a, o.t)
      [] o.m = "padEnd" -> PadEnd(s, o.a, o.t)
      [] o.m = "concat" -> Concat(s, <<o.t, o.u>>)
      [] o.m = "localeCompare" -> LocaleCompare(s, o.t)
      [] o.m = "split" -> Split(s, <<o.t>>, o.b)
      [] o.m = "splitNothing" -> Split(s, <<>>, o.b)
      [] o.m = "replace" -> Replace(s, o.t, o.u)
      [] o.m = "replaceAll" -> ReplaceEvery(s, o.t, o.u)
      [] o.m = "charAt" -> CharAt(s, o.a)
      [] o.m = "charCodeAt" -> CharCodeAt(s, o.a)
      [] o.m = "codePointAt" -> CodePointAt(s, o.a)
      [] o.m = "at" -> StringAt(s, o.a)
      [] o.m = "utf8Length" -> Utf8Len(Utf8New(s))
      [] o.m = "utf8Set" -> Utf8ToStr(Utf8Set(Utf8New(s), o.a, o.t))
      [] o.m = "utf8Substr" -> Utf8ToStr(Utf8Substr(Utf8New(s), o.a, o.b))
=============================================================================
