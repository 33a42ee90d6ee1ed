--------------------------- MODULE PatternMeaning ---------------------------
(***************************************************************************)
(* What a regular expression means, as the language defines it: from a     *)
(* place in a text a pattern goes on to a list of places, best first, each *)
(* with what the groups have matched on the way.  And how it is written.   *)
(***************************************************************************)
EXTENDS Integers, SequencesExt

CONSTANTS Newline, Lower(_), Shorthands, Wide(_)

None == -1

(* Patterns.  Groups have the numbers of their opening parentheses; a
   lookbehind takes a number as well (see the README). *)
P(t) == [t |-> t, kids |-> <<>>]
Ch(c) == [t |-> "ch", kids |-> <<>>, c |-> c]
AnyCh == P("any")
Bol == P("bol")
Eol == P("eol")
Wb == P("wb")
Nwb == P("nwb")
Ref(g) == [t |-> "ref", kids |-> <<>>, g |-> g]
RefTo(name, g) == [t |-> "refTo", kids |-> <<>>, g |-> g, name |-> name]
WideCh(c) == [t |-> "wide", kids |-> <<>>, c |-> c]
\* `items` are bytes, shorthands and ranges, in the order they are written.
Item(kind, a, b) == [kind |-> kind, a |-> a, b |-> b]
Set(items, neg) == [t |-> "set", kids |-> <<>>, items |-> items, neg |-> neg]
Seq_(kids) == [t |-> "seq", kids |-> kids]
Or(kids) == [t |-> "or", kids |-> kids]
Grp(a) == [t |-> "grp", kids |-> <<a>>]
Cap(g, a) == [t |-> "cap", kids |-> <<a>>, g |-> g, name |-> <<>>]
Named(g, name, a) == [t |-> "cap", kids |-> <<a>>, g |-> g, name |-> name]
Q(text, min, max) == [text |-> text, min |-> min, max |-> max]
Rep(a, q, lazy) == [t |-> "rep", kids |-> <<a>>, q |-> q, lazy |-> lazy]
Look(ahead, neg, a) == [t |-> "look", kids |-> <<a>>, ahead |-> ahead, neg |-> neg]

RECURSIVE Printed(_)
Printed(n) ==
    LET k == [i \in DOMAIN n.kids |-> Printed(n.kids[i])]
        item(i) == CASE i.kind = "range" -> <<i.a, "-", i.b>>
                     [] i.kind \in {"shorthand", "wide"} -> <<"\\", i.a>>
                     [] OTHER -> <<i.a>>
    IN  CASE n.t = "ch" -> <<n.c>>
          [] n.t = "any" -> <<".">>
          [] n.t = "bol" -> <<"^">>
          [] n.t = "eol" -> <<"$">>
          [] n.t = "wb" -> <<"\\", "b">>
          [] n.t = "nwb" -> <<"\\", "B">>
          [] n.t = "ref" -> <<"\\", <<"1", "2", "3">>[n.g]>>
          [] n.t = "refTo" -> <<"\\", "k", "<">> \o n.name \o <<">">>
          [] n.t = "wide" -> <<"\\", n.c>>
          [] n.t = "set" -> <<"[">> \o (IF n.neg THEN <<"^">> ELSE <<>>)
                              \o FlattenSeq([i \in DOMAIN n.items |-> item(n.items[i])]) \o <<"]">>
          [] n.t = "seq" -> FlattenSeq(k)
          [] n.t = "or" -> Tail(FlattenSeq([i \in DOMAIN k |-> <<"|">> \o k[i]]))
          [] n.t = "grp" -> <<"(", "?", ":">> \o k[1] \o <<")">>
          [] n.t = "cap" -> <<"(">> \o (IF n.name = <<>> THEN <<>> ELSE <<"?", "<">> \o n.name \o <<">">>)
                              \o k[1] \o <<")">>
          [] n.t = "rep" -> k[1] \o n.q.text \o (IF n.lazy THEN <<"?">> ELSE <<>>)
          [] n.t = "look" -> <<"(", "?">> \o (IF n.ahead THEN <<>> ELSE <<"<">>)
                              \o <<IF n.neg THEN "!" ELSE "=">> \o k[1] \o <<")">>

RECURSIVE GroupsIn(_)
GroupsIn(n) ==
    (IF n.t = "cap" THEN {n.g} ELSE {}) \cup UNION {GroupsIn(n.kids[i]) : i \in DOMAIN n.kids}
RECURSIVE NamesIn(_)
NamesIn(n) ==
    (IF n.t = "cap" /\ n.name # <<>> THEN {<<n.name, n.g>>} ELSE {})
    \cup UNION {NamesIn(n.kids[i]) : i \in DOMAIN n.kids}
RECURSIVE GroupCount(_)
GroupCount(n) ==
    (IF n.t = "cap" \/ (n.t = "look" /\ ~ n.ahead) THEN 1 ELSE 0)
    + FoldLeft(LAMBDA sum, k : sum + GroupCount(k), 0, n.kids)

-----------------------------------------------------------------------------
(* Where a pattern leads.  `in` is the text and the flags, `x` a place `at`
   and the groups `g`: none, or from where to where. *)
Alike(in, c, d) == IF "i" \in in.flags THEN Lower(c) = Lower(d) ELSE c = d
Starts(in, at, text) ==
    at + Len(text) <= Len(in.s) /\ \A k \in DOMAIN text : Alike(in, in.s[at + k], text[k])
InItem(in, c, i) ==
    CASE i.kind = "range" -> \E d \in i.set : Alike(in, c, d)
      [] i.kind = "shorthand" -> IF i.a \in DOMAIN Shorthands THEN c \in Shorthands[i.a]
                                 ELSE c \notin Shorthands[i.b]
      [] i.kind = "wide" -> FALSE
      [] OTHER -> Alike(in, c, i.a)
WideItems(n) == SelectSeq(n.items, LAMBDA i : i.kind = "wide")

IsWordAt(in, k) == k \in DOMAIN in.s /\ in.s[k] \in Shorthands["w"]
Moved(x, len) == [x EXCEPT !.at = @ + len]

RECURSIVE Ways(_, _, _)
\* Every way on from every one of xs.
Onward(n, in, xs) == FlattenSeq([i \in DOMAIN xs |-> Ways(n, in, xs[i])])

\* An iteration forgets the groups inside; one that is not needed has to move.
RECURSIVE Iterations(_, _, _, _, _)
Iterations(n, in, x, min, max) ==
    LET fresh == [x EXCEPT !.g = [g \in DOMAIN @ |-> IF g \in GroupsIn(n) THEN <<>> ELSE @[g]]]
        More(once) == FlattenSeq([i \in DOMAIN once |->
                          Iterations(n, in, once[i], IF min > 0 THEN min - 1 ELSE 0, IF max = None THEN None ELSE max - 1)])
        OrEnd(more) == IF min > 0 THEN more ELSE IF n.lazy THEN <<x>> \o more ELSE more \o <<x>>
    IN  IF max = 0 THEN <<x>>
        ELSE OrEnd(More(SelectSeq(Ways(n.kids[1], in, fresh), LAMBDA y : min > 0 \/ y.at # x.at)))

Ways(n, in, x) ==
    LET here(holds) == IF holds THEN <<x>> ELSE <<>>
        past(text) == IF Starts(in, x.at, text) THEN <<Moved(x, Len(text))>> ELSE <<>>
        one(holds) == IF holds THEN <<Moved(x, 1)>> ELSE <<>>
        inside == x.at < Len(in.s)
        c == in.s[x.at + 1]
        again == IF x.g[n.g] = <<>> THEN <<>> ELSE SubSeq(in.s, x.g[n.g][1] + 1, x.g[n.g][2])
        Ahead(ways) == IF n.neg THEN here(ways = <<>>) ELSE IF ways = <<>> THEN <<>> ELSE <<[ways[1] EXCEPT !.at = x.at]>>
        Reaches(from) == SelectSeq(Ways(n.kids[1], in, [x EXCEPT !.at = from]), LAMBDA y : y.at = x.at) # <<>>
    IN  CASE n.t = "ch" -> past(<<n.c>>)
          [] n.t = "wide" -> past(Wide(n.c))
          [] n.t = "any" -> one(inside /\ ("s" \in in.flags \/ c # Newline))
          [] n.t = "set" -> one(inside /\ (\E i \in DOMAIN n.items : InItem(in, c, n.items[i])) # n.neg)
                            \o FlattenSeq([i \in DOMAIN WideItems(n) |-> past(Wide(WideItems(n)[i].a))])
          [] n.t = "bol" -> here(x.at = 0 \/ ("m" \in in.flags /\ in.s[x.at] = Newline))
          [] n.t = "eol" -> here(~ inside \/ ("m" \in in.flags /\ c = Newline))
          [] n.t = "wb" -> here(IsWordAt(in, x.at) # IsWordAt(in, x.at + 1))
          [] n.t = "nwb" -> here(IsWordAt(in, x.at) = IsWordAt(in, x.at + 1))
          [] n.t \in {"ref", "refTo"} -> past(again)
          [] n.t = "seq" -> FoldLeft(LAMBDA xs, k : Onward(k, in, xs), <<x>>, n.kids)
          [] n.t = "or" -> FlattenSeq([i \in DOMAIN n.kids |-> Ways(n.kids[i], in, x)])
          [] n.t = "grp" -> Ways(n.kids[1], in, x)
          [] n.t = "cap" -> LET Kept(ys) == [i \in DOMAIN ys |-> [ys[i] EXCEPT !.g[n.g] = <<x.at, ys[i].at>>]]
                            IN  Kept(Ways(n.kids[1], in, x))
          [] n.t = "rep" -> Iterations(n, in, x, n.q.min, n.q.max)
          [] n.t = "look" -> IF n.ahead THEN Ahead(Ways(n.kids[1], in, x))
                             ELSE here((\E from \in 0 .. x.at : Reaches(from)) # n.neg)

\* A match at one place, and the first at or after one.
NoGroups(n) == [g \in 1 .. GroupCount(n) |-> <<>>]
Best(k, ways) == IF ways = <<>> THEN <<>> ELSE <<[from |-> k, to |-> ways[1].at, g |-> ways[1].g]>>
MatchAt(n, flags, s, k) == Best(k, Ways(n, [s |-> s, flags |-> flags], [at |-> k, g |-> NoGroups(n)]))
RECURSIVE MatchFrom(_, _, _, _)
MatchFrom(n, flags, s, k) ==
    LET Or_(m) == IF m # <<>> \/ "y" \in flags THEN m ELSE MatchFrom(n, flags, s, k + 1)
    IN  IF k > Len(s) THEN <<>> ELSE Or_(MatchAt(n, flags, s, k))

-----------------------------------------------------------------------------
(* RegExp.prototype.exec and the methods of String built on it. *)
Cut(s, from, to) == SubSeq(s, from + 1, to)
GroupOf(s, m, g) == IF m.g[g] = <<>> THEN <<>> ELSE <<Cut(s, m.g[g][1], m.g[g][2])>>
Answer(n, s, m) ==
    [index |-> m.from,
     groups |-> [g \in 1 .. GroupCount(n) + 1 |-> IF g = 1 THEN <<Cut(s, m.from, m.to)>> ELSE GroupOf(s, m, g - 1)],
     named |-> [name \in {p[1] : p \in NamesIn(n)} |-> GroupOf(s, m, (CHOOSE p \in NamesIn(n) : p[1] = name)[2])]]
Answers(n, s, ms) == [k \in DOMAIN ms |-> Answer(n, s, ms[k])]

Exec(n, flags, s, last) ==
    LET keeps == flags \cap {"g", "y"} # {}
        To(m) == [out |-> Answers(n, s, m), last |-> IF ~ keeps THEN last ELSE IF m = <<>> THEN 0 ELSE m[1].to]
    IN  To(MatchFrom(n, flags, s, IF keeps THEN last ELSE 0))

RECURSIVE AllFrom(_, _, _, _)
AllFrom(n, flags, s, k) ==
    LET AndOn(m) == IF m = <<>> THEN <<>>
                    ELSE m \o AllFrom(n, flags, s, IF m[1].to = m[1].from THEN m[1].to + 1 ELSE m[1].to)
    IN  AndOn(MatchFrom(n, flags, s, k))
Global(n, flags, s) == IF "g" \in flags THEN AllFrom(n, flags, s, 0) ELSE MatchFrom(n, flags, s, 0)

MatchOf(n, flags, s) ==
    LET Given(ms) == IF "g" \in flags THEN [k \in DOMAIN ms |-> Cut(s, ms[k].from, ms[k].to)] ELSE Answers(n, s, ms)
    IN  Given(Global(n, flags, s))
MatchAllOf(n, flags, s) == Answers(n, s, Global(n, flags, s))
SearchOf(n, flags, s) ==
    LET Place(m) == IF m = <<>> THEN None ELSE m[1].from IN Place(MatchFrom(n, flags, s, 0))

\* What a part of a replacement stands for, and how it is written.
Part(k, c, g) == [k |-> k, c |-> c, g |-> g]
PartText(n, s, m, p) ==
    CASE p.k = "is" -> p.c
      [] p.k = "whole" -> Cut(s, m.from, m.to)
      [] p.k = "before" -> Cut(s, 0, m.from)
      [] p.k = "after" -> Cut(s, m.to, Len(s))
      [] p.k = "dollar" -> <<"$">>
      [] OTHER -> IF p.g > GroupCount(n) THEN p.c ELSE FlattenSeq(GroupOf(s, m, p.g))
PartPrinted(p) ==
    CASE p.k = "whole" -> <<"$", "&">>
      [] p.k = "before" -> <<"$", "backtick">>
      [] p.k = "after" -> <<"$", "'">>
      [] p.k = "dollar" -> <<"$", "$">>
      [] OTHER -> p.c
Filled(n, s, by, ms) ==
    LET text(m) == IF by.fn THEN <<"[">> \o Cut(s, m.from, m.to) \o <<"]">>
                   ELSE FlattenSeq([i \in DOMAIN by.parts |-> PartText(n, s, m, by.parts[i])])
        gap(k) == Cut(s, IF k = 1 THEN 0 ELSE ms[k - 1].to, IF k > Len(ms) THEN Len(s) ELSE ms[k].from)
    IN  [out |-> FlattenSeq([k \in 1 .. Len(ms) |-> gap(k) \o text(ms[k])]) \o gap(Len(ms) + 1),
         calls |-> IF by.fn THEN Answers(n, s, ms) ELSE <<>>]
ReplaceOf(n, flags, s, by) == Filled(n, s, by, Global(n, flags, s))

\* Every place is tried for a match that ends after the piece's beginning.
RECURSIVE SplitFrom(_, _, _, _, _)
SplitFrom(n, flags, s, p, q) ==
    LET By(m) == IF m = <<>> \/ m[1].to = p THEN SplitFrom(n, flags, s, p, q + 1)
                 ELSE <<<<Cut(s, p, q)>>>> \o [g \in 1 .. GroupCount(n) |-> GroupOf(s, m[1], g)]
                      \o SplitFrom(n, flags, s, m[1].to, m[1].to)
    IN  IF q >= Len(s) THEN <<<<Cut(s, p, Len(s))>>>> ELSE By(MatchAt(n, flags, s, q))
SplitOf(n, flags, s, limit) ==
    LET Limited(all) == IF limit = None THEN all ELSE SubSeq(all, 1, IF limit < Len(all) THEN limit ELSE Len(all))
    IN  Limited(IF s # <<>> THEN SplitFrom(n, flags, s, 0, 0)
                ELSE IF MatchAt(n, flags, s, 0) # <<>> THEN <<>> ELSE <<<<s>>>>)
=============================================================================
