---------------------------- MODULE StringMeaning ----------------------------
(***************************************************************************)
(* What the methods of String mean: a string is a sequence of characters,  *)
(* a character is what one position of it holds.                           *)
(***************************************************************************)
EXTENDS Integers, SequencesExt

CONSTANTS Absent, Order(_), Spaces, Lowered(_), Raised(_), Blank

Undefined == <<"undefined">>
NaN == <<"NaN">>
Greatest(S) == CHOOSE n \in S : \A m \in S : m <= n
Smallest(S) == CHOOSE n \in S : \A m \in S : n <= m
Between(n, lo, hi) == Smallest({hi, Greatest({lo, n})})
Given(arg, otherwise) == IF arg = Absent THEN otherwise ELSE arg

\* The characters at the positions from a up to, without, b.
Part(s, a, b) == SubSeq(s, a + 1, b)
FromEnd(s, i) == Between(IF i < 0 THEN Len(s) + i ELSE i, 0, Len(s))
Occurrences(s, t) == {k \in 0 .. Len(s) - Len(t) : Part(s, k, k + Len(t)) = t}

\* The occurrences that do not overlap, from the left.
RECURSIVE Apart(_, _, _)
Apart(s, t, from) ==
    LET ks == {k \in Occurrences(s, t) : k >= from}
    IN  IF ks = {} THEN <<>> ELSE <<Smallest(ks)>> \o Apart(s, t, Smallest(ks) + Len(t))
\* What lies between them.
Gaps(s, t, ks) ==
    [i \in 1 .. Len(ks) + 1 |-> Part(s, IF i = 1 THEN 0 ELSE ks[i - 1] + Len(t), IF i > Len(ks) THEN Len(s) ELSE ks[i])]
Joined(parts, by) == FlattenSeq([i \in DOMAIN parts |-> IF i = 1 THEN parts[i] ELSE by \o parts[i]])
Every(s) == [i \in DOMAIN s |-> <<s[i]>>]
Pieces(s, t) == IF t = <<>> THEN Every(s) ELSE Gaps(s, t, Apart(s, t, 0))
UpTo(list, limit) == IF limit = Absent \/ limit < 0 THEN list ELSE SubSeq(list, 1, Smallest({limit, Len(list)}))

Inner(s) == {i \in DOMAIN s : s[i] \notin Spaces}
TrimmedStart(s) == IF Inner(s) = {} THEN <<>> ELSE SubSeq(s, Smallest(Inner(s)), Len(s))
TrimmedEnd(s) == IF Inner(s) = {} THEN <<>> ELSE SubSeq(s, 1, Greatest(Inner(s)))

Filling(s, length, pad) ==
    LET with == IF pad = <<>> THEN <<Blank>> ELSE pad
        need == Greatest({0, length - Len(s)})
    IN  Part(FlattenSeq([i \in 1 .. need |-> with]), 0, need)

\* The order of the first difference; a string comes after its beginnings.
Compared(s, t) ==
    LET n == Greatest({k \in 0 .. Smallest({Len(s), Len(t)}) : Part(s, 0, k) = Part(t, 0, k)})
        Rank(u) == IF Len(u) = n THEN -1 ELSE Order(u[n + 1])
    IN  IF s = t THEN 0 ELSE IF Rank(s) < Rank(t) THEN -1 ELSE 1

CharacterAt(s, i, none) == IF i \in 0 .. Len(s) - 1 THEN <<s[i + 1]>> ELSE none

Means(s, o) ==
    CASE o.m = "substr" -> Part(s, FromEnd(s, o.a), Between(FromEnd(s, o.a) + Given(o.b, Len(s)), 0, Len(s)))
      [] o.m = "slice" -> Part(s, FromEnd(s, o.a), FromEnd(s, Given(o.b, Len(s))))
      [] o.m = "substring" ->
           LET ends == {Between(o.a, 0, Len(s)), Between(Given(o.b, Len(s)), 0, Len(s))}
           IN  Part(s, Smallest(ends), Greatest(ends))
      [] o.m = "indexOf" ->
           LET ks == {k \in Occurrences(s, o.t) : k >= Between(Given(o.b, 0), 0, Len(s))}
           IN  IF ks = {} THEN -1 ELSE Smallest(ks)
      [] o.m = "lastIndexOf" ->
           LET ks == {k \in Occurrences(s, o.t) : k <= Greatest({0, Given(o.b, Len(s))})}
           IN  IF ks = {} THEN -1 ELSE Greatest(ks)
      [] o.m = "startsWith" -> Between(Given(o.b, 0), 0, Len(s)) \in Occurrences(s, o.t)
      [] o.m = "endsWith" -> Between(Given(o.b, Len(s)), 0, Len(s)) - Len(o.t) \in Occurrences(s, o.t)
      [] o.m = "includes" -> \E k \in Occurrences(s, o.t) : k >= Between(Given(o.b, 0), 0, Len(s))
      [] o.m = "trim" -> TrimmedEnd(TrimmedStart(s))
      [] o.m = "trimStart" -> TrimmedStart(s)
      [] o.m = "trimEnd" -> TrimmedEnd(s)
      [] o.m = "toLowerCase" -> [i \in DOMAIN s |-> Lowered(s[i])]
      [] o.m = "toUpperCase" -> [i \in DOMAIN s |-> Raised(s[i])]
      [] o.m = "repeat" -> FlattenSeq([i \in 1 .. o.a |-> s])
      [] o.m = "padStart" -> Filling(s, o.a, o.t) \o s
      [] o.m = "padEnd" -> s \o Filling(s, o.a, o.t)
      [] o.m = "concat" -> s \o o.t \o o.u
      [] o.m = "localeCompare" -> Compared(s, o.t)
      [] o.m = "split" -> UpTo(Pieces(s, o.t), o.b)
      [] o.m = "splitNothing" -> UpTo(<<s>>, o.b)
      [] o.m = "replace" ->
           IF Occurrences(s, o.t) = {} THEN s
           ELSE Part(s, 0, Smallest(Occurrences(s, o.t))) \o o.u
                \o Part(s, Smallest(Occurrences(s, o.t)) + Len(o.t), Len(s))
      [] o.m = "replaceAll" -> IF o.t = <<>> THEN o.u \o Joined(Every(s) \o <<<<>>>>, o.u)
                               ELSE Joined(Gaps(s, o.t, Apart(s, o.t, 0)), o.u)
      [] o.m = "charAt" -> CharacterAt(s, o.a, <<>>)
      [] o.m = "charCodeAt" -> CharacterAt(s, o.a, NaN)
      [] o.m = "codePointAt" -> CharacterAt(s, o.a, Undefined)
      [] o.m = "at" -> CharacterAt(s, IF o.a < 0 THEN o.a + Len(s) ELSE o.a, Undefined)
      [] o.m = "utf8Length" -> Len(s)
      [] o.m = "utf8Set" -> IF o.a \in 0 .. Len(s) - 1 THEN Part(s, 0, o.a) \o o.t \o Part(s, o.a + 1, Len(s)) ELSE s
      [] o.m = "utf8Substr" -> Part(s, Between(o.a, 0, Len(s)), Between(Greatest({o.a, 0}) + o.b, 0, Len(s)))
=============================================================================
