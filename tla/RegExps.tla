------------------------------ MODULE RegExps ------------------------------
(***************************************************************************)
(* Regular expressions: the pattern's text is parsed into nodes, the nodes *)
(* are emitted as a program, and a backtracking machine runs it.  On top   *)
(* of it lastIndex, and the methods of String that take a RegExp.          *)
(*                                                                         *)
(* A character is a byte.  Positions in a text count from 0, as in the     *)
(* code; a group that took no part has the position -1 (None).             *)
(***************************************************************************)
EXTENDS Integers, SequencesExt

CONSTANTS
    Alphabet,        \* the bytes, in their order: a sequence
    Newline,
    Lower(_),        \* tolower
    Shorthands,      \* what \d \w \s stand for: letter -> set of bytes
    Wide(_),         \* the encoding of a character beyond one byte
    WideChars,       \* the escapes that stand for such a character
    MaxGroups, MaxRep, MaxDepth, MaxLoopDepth, LbScan, MaxSteps, MaxBt

None == -1
Bytes == ToSet(Alphabet)
Ord(c) == CHOOSE i \in DOMAIN Alphabet : Alphabet[i] = c
DigitChars == <<"0", "1", "2", "3">>
IsDigit(c) == c \in ToSet(DigitChars)
DigitOf(c) == (CHOOSE i \in 1 .. 4 : DigitChars[i] = c) - 1
IsWord(c) == c \in Shorthands["w"]
BothCases(set) == {c \in Bytes : \E d \in set : Lower(c) = Lower(d)}

(***************************************************************************)
(* The pattern.  A reader is at `i` of the text `p`; `n` is the node read  *)
(* last, `ok` is FALSE once an error has been met.                         *)
(***************************************************************************)
Node(t) == [t |-> t, kids |-> <<>>]
Kids(t, kids) == [t |-> t, kids |-> kids]
CharNode(c) == [t |-> "char", kids |-> <<>>, c |-> c]
ClassNode(set) == [t |-> "class", kids |-> <<>>, set |-> set]
RefNode(g) == [t |-> "bref", kids |-> <<>>, g |-> g]
\* A character of several bytes is a chain of them.
WideChain(c) == Kids("cat", [i \in DOMAIN Wide(c) |-> CharNode(Wide(c)[i])])

End == "end of pattern"
At(r, k) == IF k > Len(r.p) THEN End ELSE r.p[k]
Peek(r) == At(r, r.i)
Skip(r, k) == [r EXCEPT !.i = @ + k]
Read(r, node) == [r EXCEPT !.n = node]
Fails(r) == [r EXCEPT !.ok = FALSE]
Close(r, c) == LET ks == {k \in r.i .. Len(r.p) : r.p[k] = c} IN IF ks = {} THEN 0 ELSE CHOOSE k \in ks : \A j \in ks : k <= j

\* The number the digits at k make, and the place after them.
Number(r, k) ==
    LET To(last) == [v |-> FoldLeft(LAMBDA v, c : 10 * v + DigitOf(c), 0, SubSeq(r.p, k, last)),
                     got |-> last >= k, i |-> last + 1]
    IN  To(CHOOSE e \in k - 1 .. Len(r.p) : ~ IsDigit(At(r, e + 1)) /\ \A j \in k .. e : IsDigit(r.p[j]))

\* {n} {n,} {n,m} behind the opening brace, or no quantifier at all.
Limits(r, min, max) ==
    LET To(mx, i) == [ok |-> TRUE, min |-> min.v, max |-> mx, i |-> i]
    IN  CASE min.got /\ At(r, min.i) = "}" -> To(min.v, min.i + 1)
          [] min.got /\ At(r, min.i) = "," /\ At(r, min.i + 1) = "}" -> To(None, min.i + 2)
          [] min.got /\ At(r, min.i) = "," /\ max.got /\ At(r, max.i) = "}" -> To(max.v, max.i + 1)
          [] OTHER -> [ok |-> FALSE]
UpTo(r, min) == Limits(r, min, Number(r, min.i + 1))
Braces(r) == UpTo(r, Number(r, r.i))

\* An escaped character: a shorthand for a set, a wide character, or itself.
ShorthandOf(c) ==
    IF c \in DOMAIN Shorthands THEN Shorthands[c]
    ELSE Bytes \ Shorthands[IF c = "D" THEN "d" ELSE IF c = "W" THEN "w" ELSE "s"]
IsShorthand(c) == c \in DOMAIN Shorthands \cup {"D", "W", "S"}
Meant(c) == IF c = "n" THEN Newline ELSE c

\* The members of a class up to its "]": bytes in a set, the others in a list.
RECURSIVE Members(_, _, _, _)
Members(r, negate, set, wide) ==
    LET escaped == Peek(r) = "\\"
        c == IF escaped THEN Meant(At(r, r.i + 1)) ELSE Peek(r)
        b == Skip(r, IF escaped THEN 2 ELSE 1)
        range == Peek(b) = "-" /\ At(b, b.i + 1) \notin {"]", End}
        far == At(b, b.i + 1) = "\\"
        hi == IF far THEN Meant(At(b, b.i + 2)) ELSE At(b, b.i + 1)
        cased(more) == IF r.icase THEN BothCases(more) ELSE more
        spread == {d \in Bytes : Ord(c) <= Ord(d) /\ Ord(d) <= Ord(hi)}
    IN  CASE c = End -> Fails(r)
          [] c = "]" /\ ~ escaped ->
               LET all == ClassNode(IF negate THEN Bytes \ set ELSE set)
               IN  Read(b, FoldLeft(LAMBDA n, w : Kids("alt", <<n, WideChain(w)>>), all, IF negate THEN <<>> ELSE wide))
          [] escaped /\ IsShorthand(c) -> Members(b, negate, set \cup ShorthandOf(c), wide)
          [] escaped /\ c \in WideChars -> Members(b, negate, set, Append(wide, c))
          [] range -> IF (far /\ IsShorthand(hi)) \/ Ord(hi) < Ord(c) THEN Fails(b)
                    ELSE Members(Skip(b, IF far THEN 3 ELSE 2), negate, set \cup cased(spread), wide)
          [] OTHER -> Members(b, negate, set \cup cased({c}), wide)
Class(r) == IF Peek(r) = "^" THEN Members(Skip(r, 1), TRUE, {}, <<>>) ELSE Members(r, FALSE, {}, <<>>)

\* An escape outside a class.
Escape(r) ==
    LET c == Peek(r)
        name == SubSeq(r.p, r.i + 2, Close(r, ">") - 1)
        named == {g \in DOMAIN r.names : r.names[g] = name}
    IN  CASE c = End -> Fails(r)
          [] c = "b" -> Read(Skip(r, 1), Node("wb"))
          [] c = "B" -> Read(Skip(r, 1), Node("nwb"))
          [] IsDigit(c) /\ c # "0" -> Read(Skip(r, 1), RefNode(DigitOf(c)))
          [] c = "k" /\ At(r, r.i + 1) = "<" ->
               IF Close(r, ">") = 0 \/ named = {} THEN Fails(r)
               ELSE Read([r EXCEPT !.i = Close(r, ">") + 1], RefNode(CHOOSE g \in named : \A h \in named : g <= h))
          [] IsShorthand(c) -> Read(Skip(r, 1), ClassNode(ShorthandOf(c)))
          [] c \in WideChars -> Read(Skip(r, 1), WideChain(c))
          [] OTHER -> Read(Skip(r, 1), CharNode(Meant(c)))

\* What opens a group: how long it is, what the group is.
Opening(r) ==
    LET k == At(r, r.i + 1)
        l == At(r, r.i + 2)
        Is(t, neg, len) == [ok |-> TRUE, t |-> t, neg |-> neg, len |-> len, name |-> <<>>]
    IN  CASE Peek(r) # "?" -> Is("group", FALSE, 0)
          [] k = ":" -> Is("plain", FALSE, 2)
          [] k \in {"=", "!"} -> Is("la", k = "!", 2)
          [] k = "<" /\ l \in {"=", "!"} -> Is("lb", l = "!", 3)
          [] k = "<" /\ Close(r, ">") > r.i + 2 ->
               [Is("group", FALSE, Close(r, ">") + 1 - r.i) EXCEPT !.name = SubSeq(r.p, r.i + 2, Close(r, ">") - 1)]
          [] OTHER -> [ok |-> FALSE]

\* rp_alt, rp_cat, rp_rep, rp_atom: the first is called from the last.
RECURSIVE Alternatives(_)
TakesIndex(o) == o.t \in {"group", "lb"}
Closed(o, g, body) ==
    IF ~ body.ok \/ Peek(body) # ")" THEN Fails(body)
    ELSE Read([Skip(body, 1) EXCEPT !.depth = @ - 1],
              [t |-> o.t, kids |-> <<body.n>>, neg |-> o.neg, g |-> IF o.t = "group" THEN g ELSE 0])
Opened(o, r) ==
    LET g == r.ng + 1
    IN  IF ~ o.ok \/ (TakesIndex(o) /\ g >= MaxGroups) \/ r.depth >= MaxDepth THEN Fails(r)
        ELSE Closed(o, g, Alternatives([Skip(r, o.len) EXCEPT !.ng = IF TakesIndex(o) THEN g ELSE @, !.depth = @ + 1,
                                                              !.names = IF TakesIndex(o) THEN Append(@, o.name) ELSE @]))
Group(r) == Opened(Opening(r), r)

Atom(r) ==
    LET c == Peek(r)
        b == Skip(r, 1)
    IN  CASE c = "(" -> Group(b)
          [] c = "." -> Read(b, Node("any"))
          [] c = "[" -> Class(b)
          [] c = "^" -> Read(b, Node("bol"))
          [] c = "$" -> Read(b, Node("eol"))
          [] c = "\\" -> Escape(b)
          [] c = "{" -> IF Braces(b).ok THEN Fails(b) ELSE Read(b, CharNode(c))
          [] c \in {"*", "+", "?"} -> Fails(b)
          [] OTHER -> Read(b, CharNode(c))

Quantifier(a) ==
    LET To(min, max) == [ok |-> TRUE, min |-> min, max |-> max, i |-> a.i + 1]
    IN  CASE Peek(a) = "*" -> To(0, None)
          [] Peek(a) = "+" -> To(1, None)
          [] Peek(a) = "?" -> To(0, 1)
          [] Peek(a) = "{" -> Braces(Skip(a, 1))
          [] OTHER -> [ok |-> FALSE]
Bounded(a, q) ==
    LET b == [a EXCEPT !.i = q.i]
        lazy == Peek(b) = "?"
    IN  IF ~ a.ok \/ ~ q.ok THEN a
        ELSE IF q.min > MaxRep \/ q.max > MaxRep \/ (q.max # None /\ q.max < q.min) THEN Fails(b)
        ELSE Read(Skip(b, IF lazy THEN 1 ELSE 0),
                  [t |-> "rep", kids |-> <<a.n>>, min |-> q.min, max |-> q.max, lazy |-> lazy])
Quantified(a) == Bounded(a, Quantifier(a))
Repeated(r) == Quantified(Atom(r))

RECURSIVE Sequence(_, _), Others(_)
Longer(next, head) == IF next.ok THEN Sequence(next, Append(head, next.n)) ELSE next
Sequence(r, head) ==
    IF Peek(r) \in {"|", ")", End} THEN Read(r, Kids("cat", head)) ELSE Longer(Repeated(r), head)
Either(a, b) == IF b.ok THEN Others(Read(b, Kids("alt", <<a.n, b.n>>))) ELSE b
Others(a) == IF ~ a.ok \/ Peek(a) # "|" THEN a ELSE Either(a, Sequence(Skip(a, 1), <<>>))
Alternatives(r) == Others(Sequence(r, <<>>))

Whole(r) == [r EXCEPT !.ok = @ /\ r.i > Len(r.p)]
Parsed(text, flags) ==
    Whole(Alternatives([p |-> text, i |-> 1, ng |-> 0, names |-> <<>>, depth |-> 0, ok |-> TRUE,
                        icase |-> "i" \in flags, n |-> Node("cat")]))

(***************************************************************************)
(* The program.                                                            *)
(***************************************************************************)
RECURSIVE Nullable(_)
Nullable(n) ==
    CASE n.t \in {"cat", "group", "plain"} -> \A k \in DOMAIN n.kids : Nullable(n.kids[k])
      [] n.t = "alt" -> \E k \in DOMAIN n.kids : Nullable(n.kids[k])
      [] n.t = "rep" -> n.min = 0 \/ Nullable(n.kids[1])
      [] OTHER -> n.t \in {"la", "lb"}

\* How many bytes a node can match: <<least, most>>, None for no bound.
Least(a, b) == IF a < b THEN a ELSE b
Most(a, b) == IF a = None \/ b = None THEN None ELSE IF a > b THEN a ELSE b
RECURSIVE Lengths(_)
Lengths(n) ==
    LET l == [k \in DOMAIN n.kids |-> Lengths(n.kids[k])]
    IN  CASE n.t \in {"char", "any", "class"} -> <<1, 1>>
          [] n.t = "bref" -> <<0, None>>
          [] n.t = "cat" -> FoldLeft(LAMBDA s, x : <<s[1] + x[1], IF None \in {s[2], x[2]} THEN None ELSE s[2] + x[2]>>,
                                     <<0, 0>>, l)
          [] n.t = "alt" -> <<Least(l[1][1], l[2][1]), Most(l[1][2], l[2][2])>>
          [] n.t \in {"group", "plain"} -> l[1]
          [] n.t = "rep" -> <<Least(l[1][1] * n.min, LbScan),
                              IF n.max = None THEN (IF l[1][2] > 0 THEN None ELSE 0)
                              ELSE IF l[1][2] = None THEN None ELSE l[1][2] * n.max>>
          [] OTHER -> <<0, 0>>

I(op) == [op |-> op, n |-> 0, x |-> 0, y |-> 0, neg |-> FALSE, c |-> "", set |-> {}]
Here(e) == Len(e.code) + 1
Emit(e, ins) == [e EXCEPT !.code = Append(@, ins)]
Set(e, at, x, y) == [e EXCEPT !.code[at].x = x, !.code[at].y = y]
\* Slots of groups come before those of the loops that may not stand still.
ScratchBase == 2 * MaxGroups
Save(slot) == [I("SAVE") EXCEPT !.n = slot]

RECURSIVE Emitted(_, _)
\* One more, optional, run of the repeated node; a nullable one is guarded.
Inner(e, n) == [Emitted([e EXCEPT !.loops = @ + 1], n) EXCEPT !.loops = e.loops]
OptionalRun(e, n) ==
    LET opened == Emit(e, I("SPLIT"))
        slot == ScratchBase + e.loops
    IN  IF Nullable(n.kids[1]) /\ e.loops < MaxLoopDepth
        THEN Emit(Inner(Emit(opened, Save(slot)), n.kids[1]), [I("EMPCHK") EXCEPT !.n = slot])
        ELSE Inner(opened, n.kids[1])
\* The split at sp goes on with the run, or to the end; lazily the other way.
Splits(e, n, sp) == IF n.lazy THEN Set(e, sp, Here(e), sp + 1) ELSE Set(e, sp, sp + 1, Here(e))

Times(n, k) == [i \in 1 .. k |-> n]
Joined(x, n) == FoldLeft(LAMBDA f, sp : Splits(f, n, sp), x.e, x.splits)
\* The runs that are not required: a loop, or one behind the other.
OptionalRuns(must, n) ==
    IF n.max = None THEN Splits(Emit(OptionalRun(must, n), [I("JMP") EXCEPT !.x = Here(must)]), n, Here(must))
    ELSE Joined(FoldLeft(LAMBDA x, m : [e |-> OptionalRun(x.e, m), splits |-> Append(x.splits, Here(x.e))],
                         [e |-> must, splits |-> <<>>], Times(n, n.max - n.min)), n)
RepeatEmitted(e, n) == OptionalRuns(FoldLeft(Emitted, e, Times(n.kids[1], n.min)), n)

\* An assertion's program ends by itself; the machine goes on behind it.
AssertionEmitted(e, n) ==
    LET l == Lengths(n.kids[1])
        ins == IF n.t = "la" THEN [I("LA") EXCEPT !.neg = n.neg]
               ELSE [I("LB") EXCEPT !.neg = n.neg, !.n = Least(l[1], LbScan), !.y = Least(l[2], LbScan)]
        To(body) == [body EXCEPT !.code[Here(e)].x = Here(body)]
    IN  To(Emit(Emitted(Emit(e, ins), n.kids[1]), I(IF n.t = "la" THEN "LAEND" ELSE "LBEND")))

Plain == [any |-> "ANY", bol |-> "BOL", eol |-> "EOL", wb |-> "WB", nwb |-> "NWB"]
Emitted(e, n) ==
    CASE n.t \in DOMAIN Plain -> Emit(e, I(Plain[n.t]))
      [] n.t = "char" -> Emit(e, [I("CHAR") EXCEPT !.c = n.c])
      [] n.t = "class" -> Emit(e, [I("CLASS") EXCEPT !.set = n.set])
      [] n.t = "bref" -> Emit(e, [I("BREF") EXCEPT !.n = n.g])
      [] n.t \in {"cat", "plain"} -> FoldLeft(Emitted, e, n.kids)
      [] n.t = "group" -> Emit(Emitted(Emit(e, Save(2 * n.g)), n.kids[1]), Save(2 * n.g + 1))
      [] n.t = "alt" ->
           LET Both(a, b) == [Set(b, Here(e), Here(e) + 1, Here(a)) EXCEPT !.code[Here(a) - 1].x = Here(b)]
               To(a) == Both(a, Emitted(a, n.kids[2]))
           IN  To(Emit(Emitted(Emit(e, I("SPLIT")), n.kids[1]), I("JMP")))
      [] n.t = "rep" -> RepeatEmitted(e, n)
      [] OTHER -> AssertionEmitted(e, n)

\* re_compile: the program of a text, or none (ok is FALSE).
Program(r, flags) ==
    [ok |-> r.ok, flags |-> flags, ng |-> r.ng, names |-> r.names,
     code |-> IF ~ r.ok THEN <<>>
              ELSE Emit(Emit(Emitted(Emit([code |-> <<>>, loops |-> 0], Save(0)), r.n), Save(1)), I("MATCH")).code]
Compile(text, flags) == Program(Parsed(text, flags), flags)

(***************************************************************************)
(* The machine: `pc` in the program, `sp` in the text, the alternatives    *)
(* left `bt`, the journal `jr` of the slots written since.  `caps` are the *)
(* slots of the groups, `loops` those of the guards; an assertion's run    *)
(* has its own bt and jr and shares the rest.                              *)
(***************************************************************************)
Machine(p, s) ==
    [p |-> p, s |-> s, caps |-> [k \in 0 .. 2 * p.ng + 1 |-> None], loops |-> [k \in 0 .. MaxLoopDepth - 1 |-> 0],
     steps |-> 0, depth |-> 0, end |-> None, pc |-> 1, sp |-> 0, bt |-> <<>>, jr |-> <<>>, run |-> "on"]
Byte(m, at) == m.s[at + 1]
Inside(m) == m.sp < Len(m.s)
Has(m, flag) == flag \in m.p.flags
Same(m, c, d) == IF Has(m, "i") THEN Lower(c) = Lower(d) ELSE c = d

Goes(m, pc, sp) == [m EXCEPT !.pc = pc, !.sp = sp]
Written(m, slot, v) ==
    IF slot >= ScratchBase THEN [m EXCEPT !.loops[slot - ScratchBase] = v] ELSE [m EXCEPT !.caps[slot] = v]
Slot(m, slot) == IF slot >= ScratchBase THEN m.loops[slot - ScratchBase] ELSE m.caps[slot]

\* A bug: what was tried in vain leaves its groups behind.
Backtrack_KeepsSlots(m) ==
    LET b == Last(m.bt)
    IN  IF m.bt = <<>> THEN [m EXCEPT !.run = "miss"]
        ELSE [m EXCEPT !.pc = b.pc, !.sp = b.sp, !.bt = Front(m.bt), !.jr = SubSeq(m.jr, 1, b.jlen)]

\* The last alternative, with the slots as they were.
Backtrack(m) ==
    LET b == Last(m.bt)
        undone == FoldRight(LAMBDA j, x : Written(x, j[1], j[2]), SubSeq(m.jr, b.jlen + 1, Len(m.jr)), m)
    IN  IF m.bt = <<>> THEN [m EXCEPT !.run = "miss"]
        ELSE [undone EXCEPT !.pc = b.pc, !.sp = b.sp, !.bt = Front(m.bt), !.jr = SubSeq(m.jr, 1, b.jlen)]
IfSo(m, holds) == IF holds THEN Goes(m, m.pc + 1, m.sp) ELSE Backtrack(m)

AtBoundary(m) ==
    (m.sp > 0 /\ IsWord(Byte(m, m.sp - 1))) # (Inside(m) /\ IsWord(Byte(m, m.sp)))

\* What a group matched, again.
Referred(m, g) ==
    LET from == m.caps[2 * g]
        len == m.caps[2 * g + 1] - from
        again == m.sp + len <= Len(m.s) /\ \A k \in 0 .. len - 1 : Same(m, Byte(m, from + k), Byte(m, m.sp + k))
    IN  IF g > m.p.ng THEN Backtrack(m)
        ELSE IF from < 0 \/ len < 0 THEN Goes(m, m.pc + 1, m.sp)
        ELSE IF again THEN Goes(m, m.pc + 1, m.sp + len) ELSE Backtrack(m)

\* Two halves of 2^k steps, so that a long run is no deep recursion.
RECURSIVE Step(_), Steps(_, _)
Steps(m, k) == IF m.run # "on" THEN m ELSE IF k = 0 THEN Step(m) ELSE Steps(Steps(m, k - 1), k - 1)
RECURSIVE Run(_)
Run(m) == IF m.run # "on" THEN m ELSE Run(Steps(m, 6))

\* A run of the program behind an assertion, from sp; it shares what is shared.
SubRun(m, sp, end) == Run([m EXCEPT !.pc = @ + 1, !.sp = sp, !.bt = <<>>, !.jr = <<>>, !.depth = @ + 1, !.end = end])
Shared(m, sub) == [m EXCEPT !.caps = sub.caps, !.loops = sub.loops, !.steps = sub.steps]
\* The starts of a lookbehind, from the nearest to the farthest.
RECURSIVE Behind(_, _, _)
Farther(m, from, lo, sub) ==
    IF sub.run = "hit" \/ sub.steps > MaxSteps THEN sub ELSE Behind(Shared(m, sub), from - 1, lo)
Behind(m, from, lo) ==
    IF from < lo THEN [m EXCEPT !.run = "miss"] ELSE Farther(m, from, lo, SubRun(m, from, m.sp))
Decided(m, i, sub) ==
    IF (sub.run = "hit") # i.neg THEN Goes(Shared(m, sub), i.x, m.sp) ELSE Backtrack(Shared(m, sub))
Asserted(m, i) ==
    LET far == m.sp - (IF i.y = None THEN LbScan ELSE i.y)
    IN  IF m.depth >= MaxDepth THEN Backtrack(m)
        ELSE Decided(m, i, IF i.op = "LA" THEN SubRun(m, m.sp, m.end)
                           ELSE Behind(m, m.sp - i.n, IF far < 0 THEN 0 ELSE far))

Step(m0) ==
    LET m == [m0 EXCEPT !.steps = @ + 1]
        i == m.p.code[m.pc]
        eats(holds) == IF Inside(m) /\ holds THEN Goes(m, m.pc + 1, m.sp + 1) ELSE Backtrack(m)
    IN  CASE m.steps > MaxSteps -> [m EXCEPT !.run = "miss"]
          [] i.op = "CHAR" -> eats(Same(m, Byte(m, m.sp), i.c))
          [] i.op = "ANY" -> eats(Has(m, "s") \/ Byte(m, m.sp) # Newline)
          [] i.op = "CLASS" -> eats(Byte(m, m.sp) \in i.set)
          [] i.op = "JMP" -> Goes(m, i.x, m.sp)
          [] i.op = "SPLIT" ->
               IF Len(m.bt) >= MaxBt THEN Backtrack(m)
               ELSE Goes([m EXCEPT !.bt = Append(@, [pc |-> i.y, sp |-> m.sp, jlen |-> Len(m.jr)])], i.x, m.sp)
          [] i.op = "SAVE" ->
               Goes(Written([m EXCEPT !.jr = Append(@, <<i.n, Slot(m, i.n)>>)], i.n, m.sp), m.pc + 1, m.sp)
          [] i.op = "EMPCHK" -> IfSo(m, Slot(m, i.n) # m.sp)
          [] i.op = "BOL" -> IfSo(m, m.sp = 0 \/ (Has(m, "m") /\ Byte(m, m.sp - 1) = Newline))
          [] i.op = "EOL" -> IfSo(m, ~ Inside(m) \/ (Has(m, "m") /\ Byte(m, m.sp) = Newline))
          [] i.op = "WB" -> IfSo(m, AtBoundary(m))
          [] i.op = "NWB" -> IfSo(m, ~ AtBoundary(m))
          [] i.op = "BREF" -> Referred(m, i.n)
          [] i.op \in {"LA", "LB"} -> Asserted(m, i)
          [] i.op = "LBEND" /\ m.sp # m.end -> Backtrack(m)
          [] OTHER -> [m EXCEPT !.run = "hit"]         \* MATCH, LAEND, LBEND

\* re_match: the first start with a match; the steps of all starts add up.
RECURSIVE From(_, _)
Tried(m, start, done) ==
    IF done.run = "hit" \/ Has(m, "y") \/ done.steps > MaxSteps THEN done
    ELSE From([m EXCEPT !.steps = done.steps, !.loops = done.loops], start + 1)
From(m, start) ==
    IF start > Len(m.s) THEN [m EXCEPT !.run = "miss"]
    ELSE Tried(m, start, Run([m EXCEPT !.sp = start, !.caps = [k \in DOMAIN @ |-> None]]))
Found(m) == [hit |-> m.run = "hit", from |-> m.caps[0], to |-> m.caps[1], caps |-> m.caps]
Match(p, s, start) == Found(From(Machine(p, s), start))

(***************************************************************************)
(* RegExp and the methods of String that take one.  A text that may be     *)
(* missing is a sequence of none or one.                                   *)
(***************************************************************************)
Cut(s, from, to) == SubSeq(s, from + 1, to)
GroupText(s, caps, g) ==
    IF caps[2 * g] >= 0 /\ caps[2 * g + 1] >= caps[2 * g] THEN <<Cut(s, caps[2 * g], caps[2 * g + 1])>> ELSE <<>>
GroupNamed(p, name) ==
    LET gs == {g \in DOMAIN p.names : p.names[g] = name} IN IF gs = {} THEN 0 ELSE CHOOSE g \in gs : \A h \in gs : g <= h

\* js_regexp_result_array2: what exec, match and matchAll give for a match.
Result(p, s, caps) ==
    [index |-> caps[0], groups |-> [g \in 1 .. p.ng + 1 |-> GroupText(s, caps, g - 1)],
     named |-> [name \in {p.names[g] : g \in DOMAIN p.names} \ {<<>>} |->
                    GroupText(s, caps, CHOOSE g \in DOMAIN p.names :
                                           p.names[g] = name /\ \A h \in DOMAIN p.names : p.names[h] = name => h <= g)]]

\* regexp_run: test and exec start at lastIndex and leave the end there.
Results(p, s, m) == IF m.hit THEN <<Result(p, s, m.caps)>> ELSE <<>>
Ended(p, s, last, m) ==
    [out |-> Results(p, s, m),
     last |-> IF m.hit /\ p.flags \cap {"g", "y"} # {} THEN m.to
              ELSE IF p.flags \cap {"g", "y"} # {} THEN 0 ELSE last]
RegExpRun(p, s, last) ==
    LET from == IF p.flags \cap {"g", "y"} # {} THEN last ELSE 0
    IN  IF from \in 0 .. Len(s) THEN Ended(p, s, last, Match(p, s, from)) ELSE [out |-> <<>>, last |-> 0]

\* All matches, one after the other; an empty one steps on by a byte.
RECURSIVE Matches(_, _, _)
Following(p, s, m) ==
    IF ~ m.hit THEN <<>> ELSE <<m>> \o Matches(p, s, IF m.to > m.from THEN m.to ELSE m.to + 1)
Matches(p, s, pos) == IF pos > Len(s) THEN <<>> ELSE Following(p, s, Match(p, s, pos))
MatchMethod(p, s) ==
    LET Texts(all) == [k \in DOMAIN all |-> Cut(s, all[k].from, all[k].to)]
    IN  IF "g" \in p.flags THEN Texts(Matches(p, s, 0)) ELSE Results(p, s, Match(p, s, 0))
MatchAll(p, s) ==
    LET All(ms) == [k \in DOMAIN ms |-> Result(p, s, ms[k].caps)] IN All(Matches(p, s, 0))
Search(p, s) == LET Index(m) == IF m.hit THEN m.from ELSE None IN Index(Match(p, s, 0))

\* str_re_expand: `t` is what is left of the template.
Before == "backtick"
RECURSIVE Expanded(_, _, _, _)
Expanded(p, s, caps, t) ==
    LET c == IF Len(t) < 2 THEN End ELSE t[2]
        two == IsDigit(c) /\ Len(t) > 2 /\ IsDigit(t[3]) /\ 10 * DigitOf(c) + DigitOf(t[3]) <= p.ng
        g == IF two THEN 10 * DigitOf(c) + DigitOf(t[3]) ELSE DigitOf(c)
        closes == {k \in 3 .. Len(t) : t[k] = ">"}
        close == CHOOSE k \in closes : \A j \in closes : k <= j
        name == GroupNamed(p, SubSeq(t, 3, close - 1))
        Text(h) == IF h = 0 THEN <<>> ELSE FlattenSeq(GroupText(s, caps, h))
        On(text, len) == text \o Expanded(p, s, caps, SubSeq(t, len + 1, Len(t)))
    IN  CASE t = <<>> -> <<>>
          [] t[1] # "$" -> On(<<t[1]>>, 1)
          [] c = "$" -> On(<<"$">>, 2)
          [] c = "&" -> On(Cut(s, caps[0], caps[1]), 2)
          [] c = Before -> On(Cut(s, 0, caps[0]), 2)
          [] c = "'" -> On(Cut(s, caps[1], Len(s)), 2)
          [] c = "<" /\ closes # {} -> On(Text(name), close)
          [] IsDigit(c) /\ c # "0" /\ g <= p.ng -> On(Text(g), IF two THEN 3 ELSE 2)
          [] OTHER -> On(<<"$">>, 1)

\* str_re_replace: the template's text, or what a function makes of the match
\* (the match in brackets); `calls` are the arguments it has been given.
RECURSIVE Replaced(_, _, _, _, _)
Pasted(p, s, by, pos, m) ==
    Cut(s, pos, m.from)
    \o (IF by.fn THEN <<"[">> \o Cut(s, m.from, m.to) \o <<"]">> ELSE Expanded(p, s, m.caps, by.t))
    \o (IF m.to > m.from THEN <<>> ELSE Cut(s, m.to, Least(m.to + 1, Len(s))))
Then(out, calls, rest) == [out |-> out \o rest.out, calls |-> calls \o rest.calls]
ReplacedAt(p, s, by, all, pos, m) ==
    LET next == IF m.to > m.from THEN m.to ELSE m.to + 1
    IN  IF ~ m.hit THEN [out |-> Cut(s, pos, Len(s)), calls |-> <<>>]
        ELSE Then(Pasted(p, s, by, pos, m), IF by.fn THEN Results(p, s, m) ELSE <<>>,
                     IF all THEN Replaced(p, s, by, all, next) ELSE [out |-> Cut(s, next, Len(s)), calls |-> <<>>])
Replaced(p, s, by, all, pos) ==
    IF pos > Len(s) THEN [out |-> <<>>, calls |-> <<>>] ELSE ReplacedAt(p, s, by, all, pos, Match(p, s, pos))
ReplaceMethod(p, s, by) == Replaced(p, s, by, "g" \in p.flags, 0)

\* str_re_split: the piece since `piece`, with the groups of the match behind it.
RECURSIVE Pieces(_, _, _, _)
PiecesAt(p, s, piece, m) ==
    IF ~ m.hit THEN <<<<Cut(s, piece, Len(s))>>>>
    ELSE IF m.to = piece THEN Pieces(p, s, piece, m.from + 1)
    ELSE <<<<Cut(s, piece, m.from)>>>> \o [g \in 1 .. p.ng |-> GroupText(s, m.caps, g)] \o Pieces(p, s, m.to, m.to)
Pieces(p, s, piece, scan) ==
    IF scan >= Len(s) THEN <<<<Cut(s, piece, Len(s))>>>> ELSE PiecesAt(p, s, piece, Match(p, s, scan))
SplitMethod(p, s, limit) ==
    LET UpToLimit(all) == IF limit = None \/ limit > Len(all) THEN all ELSE SubSeq(all, 1, limit)
    IN  UpToLimit(IF s # <<>> THEN Pieces(p, s, 0, 0) ELSE IF Match(p, s, 0).hit THEN <<>> ELSE <<<<s>>>>)
=============================================================================
