------------------------------ MODULE MCValues ------------------------------
(***************************************************************************)
(* A small instance of Values: limbs of 4 bits, an int64 of 8, doubles     *)
(* of 6; a buffer of four bytes of 2 bits, under views of every size and   *)
(* at several offsets; strings of characters of one byte and of one of     *)
(* three; and families of patterns.                                        *)
(***************************************************************************)
EXTENDS Values

MCOperands == -5 .. 9 \cup {-257, -128, -16, -15, 15, 16, 17, 127, 128, 255, 256}
\* Halves of numbers of six significant bits.
MCDoubles  == {-640, -512, -256, -248, -63, -32, -3, -1, 0, 1, 2, 5, 31, 62, 63, 128, 248, 256, 264, 512, 1024}

W(kind, off, len) == [kind |-> kind, off |-> off, len |-> len]
BytesView == W("Uint8", 0, 4)
MCViews == {BytesView, W("Int8", 1, 3), W("Uint8Clamped", 0, 3), W("Int16", 0, 2), W("Uint16", 2, 1),
            W("Float64", 0, 1), W("BigInt64", 0, 1), W("BigUint64", 0, 1), W("Uint8", 4, 0)}
Big(w) == V!IsBig(w.kind)
Float(w) == w.kind = "Float64"

Never == 9
NoCb == [w |-> NoCallback, d |-> 0, v |-> V!Undef, raise |-> Never]
C(m, w, x, y, z, v) == [m |-> m, w |-> w, x |-> x, y |-> y, z |-> z, v |-> v, s |-> w, e |-> v, c |-> NoCb]
Nothing == <<>>

Quarters(q) == V!Val("num", q)
\* A view of BigInts is given BigInts, every other view numbers.
ValuesFor(w) == IF Big(w) THEN {V!Val("big", n) : n \in {-1, 77, 300}}
                ELSE {Quarters(q) : q \in {-27, 2, 6, 44}} \cup {V!NaN}
Rel == {-2, 1, Absent}
Idx == {-1, 0, 1, 4}

Plain == UNION {
       {C(m, w, x, y, Absent, Nothing) : m \in {"subarray", "slice"}, x \in Rel, y \in Rel}
  \cup {C("fill", w, x, y, Absent, <<v>>) : x \in Rel, y \in {-1, Absent}, v \in ValuesFor(w)}
  \cup {C("copyWithin", w, x, y, z, Nothing) : x \in {0, 1, -1}, y \in {0, 1, -2}, z \in {Absent, 2}}
  \cup {C(m, w, Absent, Absent, Absent, Nothing) : m \in {"reverse", "join", "values", "keys", "entries"}}
  \cup {C("at", w, x, Absent, Absent, Nothing) : x \in Idx}
  \cup {C(m, w, x, Absent, Absent, <<v>>) : m \in {"indexOf", "lastIndexOf", "includes"}, x \in Rel,
                                        v \in IF Big(w) THEN {V!Val("big", 1)} ELSE {V!Num(1), V!Num(-1)}}
  \cup {C("[]", w, x, Absent, Absent, Nothing) : x \in Idx}
  \cup {C(m, w, x, Absent, Absent, <<v>>) : m \in {"[]=", "[]+="}, x \in Idx, v \in ValuesFor(w) \ {V!NaN}}
  \cup {C("[]=", w, 0, Absent, Absent, <<v>>) : v \in ValuesFor(w)}
  \cup {C("of", w, Absent, Absent, Absent, <<v, u>>) : v \in ValuesFor(w), u \in ValuesFor(w)}
  \cup {C("constructLength", w, x, Absent, Absent, Nothing) : x \in {-1, 0, 2}}
  \cup {C("view", w, x, y, Absent, Nothing) : x \in {Absent, -1, 1, 2, 4, 5}, y \in {Absent, -1, 0, 1, 2}}
  \cup {C("dataview", [w EXCEPT !.kind = "DataView"], x, y, Absent, Nothing) : x \in {Absent, -1, 1, 4, 5},
                                                                  y \in {Absent, -1, 0, 2}}
  \cup {C("bufferSlice", w, x, y, Absent, Nothing) : x \in Rel, y \in Rel}
  : w \in MCViews}

\* The source of set() is another view, or an array; it fits in the target.  Over
\* one buffer no element is written before it has been read (see the README).
Overlap(w, s, x) ==
    \E i \in 0 .. s.len - 1, j \in 0 .. s.len - 1 :
        /\ i < j
        /\ (V!Place(w, x + i) .. V!Place(w, x + i) + V!Size(w.kind) - 1)
           \cap (V!Place(s, j) .. V!Place(s, j) + V!Size(s.kind) - 1) # {}
Sets ==
       {[C("set", w, x, Absent, Absent, Nothing) EXCEPT !.s = s] :
            w \in MCViews, s \in MCViews, x \in {0, 1}}
  \cup {C("setArray", w, x, Absent, Absent, <<Quarters(44), Quarters(-27)>>) : w \in {v \in MCViews : ~ Big(v)}, x \in {0, 1}}
  \cup {[C("construct", w, Absent, Absent, Absent, Nothing) EXCEPT !.s = s] : w \in MCViews, s \in MCViews}

Fitting(o) ==
    CASE o.m = "set"      -> (Big(o.w) <=> Big(o.s)) /\ o.x + o.s.len <= o.w.len /\ ~ Overlap(o.w, o.s, o.x)
      [] o.m = "setArray" -> o.x + 2 <= o.w.len
      [] o.m = "construct" -> Big(o.w) <=> Big(o.s)
      [] OTHER            -> TRUE

\* The default order, and comparison functions: they may write to the buffer.
Sorts == {[C(m, w, Absent, Absent, Absent, Nothing) EXCEPT !.c = c] :
              m \in {"sort", "sortReverse", "sortEqual"}, w \in MCViews,
              c \in {NoCb} \cup {[w |-> BytesView, d |-> d, v |-> V!Num(1), raise |-> Never] : d \in {0, 2, 3}}}

\* What callbacks do: nothing, write ahead of or behind the element, raise.
Callbacks == {NoCb} \cup {[w |-> BytesView, d |-> d, v |-> V!Num(1), raise |-> Never] : d \in {-1, 1}}
             \cup {[w |-> BytesView, d |-> 1, v |-> V!Num(3), raise |-> 1]}
Loops ==
       {[C(m, w, Absent, Absent, Absent, Nothing) EXCEPT !.c = c] :
            m \in {"find", "findIndex", "every", "some", "forEach", "map", "filter", "reduce", "reduceRight"},
            w \in MCViews, c \in Callbacks}
  \cup {[C(m, w, 1, Absent, Absent, Nothing) EXCEPT !.c = c] :
            m \in {"reduce", "reduceRight"}, w \in {v \in MCViews : ~ Big(v)}, c \in Callbacks}
  \cup {[C("from", w, Absent, Absent, Absent, Nothing) EXCEPT !.s = s, !.c = c] :
            w \in {v \in MCViews : ~ Big(v)}, s \in {BytesView, W("Int16", 0, 2), W("Float64", 0, 1)}, c \in Callbacks}

DV == {W("DataView", 0, 4), W("DataView", 1, 3)}
Gets ==
       {C(m, w, x, l, z, Nothing) : m \in {"getInt", "getUint"}, w \in DV, x \in {-1, 0, 1, 2, 3},
                                    l \in {0, 1}, z \in {1, 2}}
  \cup {C(m, w, x, l, 4, Nothing) : m \in {"getFloat", "getBig", "getBigU"}, w \in DV, x \in {0, 1}, l \in {0, 1}}
  \cup {C("setInt", w, x, l, z, <<v>>) : w \in DV, x \in {-1, 0, 2, 3}, l \in {0, 1}, z \in {1, 2},
                                     v \in {Quarters(-27), V!Num(6)}}
  \cup {C("setFloat", w, x, l, 4, <<Quarters(-27)>>) : w \in DV, x \in {0, 1}, l \in {0, 1}}
  \cup {C("setBig", w, x, l, 4, <<V!Val("big", 300)>>) : w \in DV, x \in {0, 1}, l \in {0, 1}}

\* store gives the element as it is afterwards (see the README).
Atoms == UNION {
       {C(m, w, x, Absent, Absent, <<v>>) : m \in {"load", "store", "add", "sub", "and", "or", "xor", "exchange",
                                               "wait", "notify"}, x \in Idx, v \in ValuesFor(w) \ {V!NaN}}
  \cup {[C("compareExchange", w, 0, Absent, Absent, <<v>>) EXCEPT !.e = <<e>>] :
            v \in ValuesFor(w) \ {V!NaN}, e \in IF Big(w) THEN {V!Val("big", 1)} ELSE {V!Num(0), V!Num(1)}}
  : w \in MCViews \ {W("Uint8Clamped", 0, 3)}}
  \cup {C("isLockFree", BytesView, x, Absent, Absent, Nothing) : x \in {3, 4}}

AllCalls == Plain \cup {o \in Sets : Fitting(o)} \cup Sorts \cup Loops \cup Gets \cup Atoms

\* NaN is compared with nothing (see the README).
SearchesNaN(b, o) == o.m \in {"indexOf", "lastIndexOf", "includes"} /\ Float(o.w) /\ V!GetAt(b, o.w, 0) = V!NaN
\* Nor is the widest number of the small floats added to.
Overflows(b, o) == o.m \in {"map", "from", "[]+="} /\ Float(o.w) /\ V!GetAt(b, o.w, 0).q \notin -80 .. 80
MCCalls(b) == {o \in AllCalls : ~ SearchesNaN(b, o) /\ ~ Overflows(b, o)}

-----------------------------------------------------------------------------
(* Strings: "e" is a character of three bytes. *)
MCWide(c) == IF c = "e" THEN <<"e1", "e2", "e3">> ELSE <<c>>
MCAlphabet == <<"nl", " ", "-", "1", "A", "B", "a", "b", "c", "e2", "e3", "e1">>
MCOrder(c) == CHOOSE i \in DOMAIN MCAlphabet : MCAlphabet[i] = MCWide(c)[1]
MCLeadLength(c) == IF c = "e1" THEN 3 ELSE 1
MCLower(c) == IF c = "A" THEN "a" ELSE IF c = "B" THEN "b" ELSE c
MCRaised(c) == IF c = "a" THEN "A" ELSE IF c = "b" THEN "B" ELSE c

SC(m, gives, a, b, t, u) == [m |-> m, gives |-> gives, a |-> a, b |-> b, t |-> t, u |-> u]
Lengths == {Absent, -1, 0, 1, 3}
Starts == {-2, -1, 0, 1, 2, 5}
Needles == {<<>>, <<"a">>, <<"a", "a">>, <<"b", "a">>}

\* Methods that count bytes are called on characters of one byte (see the README).
Counting ==
       {SC(m, "string", a, b, <<>>, <<>>) : m \in {"substr", "slice", "substring"}, a \in Starts, b \in Lengths}
  \cup {SC(m, "place", 0, b, t, <<>>) : m \in {"indexOf", "includes", "startsWith", "endsWith"},
                                    b \in Lengths, t \in Needles}
  \cup {SC("lastIndexOf", "place", 0, b, t, <<>>) : b \in Lengths \ {-1}, t \in Needles}
  \cup {SC(m, "string", a, 0, t, <<>>) : m \in {"padStart", "padEnd"}, a \in {-1, 0, 3, 4}, t \in Needles \ {<<>>}}
  \cup {SC("split", "list", 0, b, <<>>, <<>>) : b \in Lengths}
Decoding ==
       {SC("charAt", "string", a, 0, <<>>, <<>>) : a \in {-1, 0, 1, 2}}
  \cup {SC(m, "character", a, 0, <<>>, <<>>) : m \in {"charCodeAt", "codePointAt"}, a \in {-1, 0, 1, 2}}
  \cup {SC("at", "character", a, 0, <<>>, <<>>) : a \in {-3, -1, 0, 2}}
  \cup {SC("utf8Length", "number", 0, 0, <<>>, <<>>)}
  \cup {SC("utf8Set", "string", a, 0, t, <<>>) : a \in {-1, 0, 1, 4}, t \in {<<>>, <<"b">>, <<"e">>}}
  \cup {SC("utf8Substr", "string", a, b, <<>>, <<>>) : a \in {-1, 0, 1, 4}, b \in {0, 1, 3}}
  \cup {SC(m, "string", 0, 0, <<>>, <<>>) : m \in {"trim", "trimStart", "trimEnd", "toLowerCase", "toUpperCase"}}
  \cup {SC("repeat", "string", a, 0, <<>>, <<>>) : a \in {0, 1, 2}}
  \cup {SC("concat", "string", 0, 0, t, u) : t \in {<<"a">>, <<" ">>}, u \in {<<"b">>, <<"e">>, <<>>}}
  \cup {SC("localeCompare", "number", 0, 0, t, <<>>) : t \in Needles \cup {<<"e">>, <<"b", "A">>}}
  \cup {SC("split", "list", 0, b, t, <<>>) : b \in Lengths, t \in (Needles \ {<<>>}) \cup {<<"e">>}}
  \cup {SC("splitNothing", "list", 0, b, <<>>, <<>>) : b \in Lengths}
  \cup {SC(m, "string", 0, 0, t, u) : m \in {"replace", "replaceAll"}, t \in Needles \cup {<<"e">>},
                                  u \in {<<>>, <<"a">>, <<"e", "a">>}}
MCStringCalls(s) == Decoding \cup (IF "e" \in ToSet(s) THEN {} ELSE Counting)

-----------------------------------------------------------------------------
(* Patterns. *)
MCShorthands == [d |-> {"1"}, w |-> {"1", "A", "B", "a", "b", "c"}, s |-> {"nl", " "}]
Char(c) == PM!Ch(c)
InOrder(x, y) == PM!Seq_(<<x, y>>)
Three(x, y, z) == PM!Seq_(<<x, y, z>>)
Star == PM!Q(<<"*">>, 0, -1)
Plus == PM!Q(<<"+">>, 1, -1)
Maybe == PM!Q(<<"?">>, 0, 1)
Twice == PM!Q(<<"{", "2", "}">>, 2, 2)
FromOne == PM!Q(<<"{", "1", ",", "}">>, 1, -1)
UpToTwo == PM!Q(<<"{", "0", ",", "2", "}">>, 0, 2)
OneOrTwo == PM!Q(<<"{", "1", ",", "2", "}">>, 1, 2)
Quantifiers == {Star, Plus, Maybe, Twice, FromOne, UpToTwo, OneOrTwo}
Greedy(x, q) == PM!Rep(x, q, FALSE)
Words(chars, n) == UNION {[1 .. k -> chars] : k \in 0 .. n}
AB == Words({"a", "b"}, 3)

\* A template, and a function.
Is(cs) == PM!Part("is", cs, 0)
Whole == PM!Part("whole", <<>>, 0)
GroupPart(g) == PM!Part("group", <<"$", PM!Printed(PM!Ref(g))[2]>>, g)
Template == <<Whole, Is(<<"-">>), GroupPart(1), PM!Part("dollar", <<>>, 0)>>
Around == <<PM!Part("before", <<>>, 0), Is(<<"-">>), PM!Part("after", <<>>, 0), GroupPart(2)>>
Me(m, fn, parts, limit) == [m |-> m, fn |-> fn, parts |-> parts, limit |-> limit]
Once == {Me("match", FALSE, <<>>, -1), Me("search", FALSE, <<>>, -1), Me("replace", FALSE, Template, -1),
         Me("replace", FALSE, Around, -1)}
Everywhere == {Me("match", FALSE, <<>>, -1), Me("matchAll", FALSE, <<>>, -1), Me("replace", FALSE, Template, -1),
               Me("replace", TRUE, <<>>, -1)}
Splitting == {Me("split", FALSE, <<>>, -1), Me("split", FALSE, <<>>, 2)}
Pat(n, flags, subjects, methods) == [n |-> n, flags |-> flags, subjects |-> subjects, methods |-> methods]

\* Quantifiers within quantifiers, greedy and lazy, before something that has to
\* follow; a body that may match nothing is the interesting one.
Bodies == {Greedy(Char("a"), Star), PM!Rep(Char("a"), Maybe, TRUE), InOrder(Char("a"), Char("b")),
           PM!Or(<<Char("a"), PM!Seq_(<<>>)>>), PM!Or(<<Char("a"), InOrder(Char("a"), Char("b"))>>),
           InOrder(Greedy(Char("a"), Maybe), Greedy(Char("b"), Star))}
Nested == {Pat(InOrder(PM!Rep(PM!Cap(1, body), q, lazy), rest), {}, AB, Once \cup Splitting) :
             body \in Bodies, q \in Quantifiers, lazy \in BOOLEAN, rest \in {PM!Seq_(<<>>), Char("b")}}
Deep == {Pat(PM!Cap(1, Greedy(PM!Grp(Greedy(PM!Grp(body), q)), Star)), {"g"}, AB, Everywhere) :
           body \in Bodies, q \in {Star, Plus, Maybe, Twice}}

\* Groups and what refers to them.
Referring == {Pat(n, f, AB, IF f = {} THEN Once \cup Splitting ELSE Everywhere) : f \in {{}, {"g"}}, n \in
    {Three(PM!Cap(1, Greedy(PM!AnyCh, q)), PM!Cap(2, Greedy(Char("b"), Maybe)), PM!Ref(g)) : q \in {Star, Plus, Maybe}, g \in {1, 2}}
    \cup {Three(PM!Grp(PM!Or(<<PM!Cap(1, Char("a")), PM!Cap(2, Char("b"))>>)), PM!Ref(1), PM!Ref(2))}
    \cup {Three(PM!Named(1, <<"n">>, PM!AnyCh), Greedy(Char("b"), Star), PM!RefTo(<<"n">>, 1))}
    \cup {InOrder(PM!Cap(1, PM!Or(<<Char("a"), PM!Cap(2, InOrder(Char("b"), Char("a")))>>)), PM!Rep(PM!AnyCh, Star, TRUE))}}

\* Assertions.
Aheads == {PM!Look(TRUE, neg, x) : neg \in BOOLEAN, x \in {Char("b"), Greedy(PM!Set(<<PM!Item("is", "a", "")>>, FALSE), Plus), PM!Eol}}
Behinds == {PM!Look(FALSE, neg, x) : neg \in BOOLEAN,
              x \in {Char("a"), InOrder(Char("a"), Char("b")), PM!Or(<<Char("b"), InOrder(Char("b"), Char("a"))>>), PM!Bol,
                     Greedy(Char("a"), UpToTwo)}}
Asserting ==
       {Pat(Three(Greedy(PM!AnyCh, q), x, Greedy(PM!AnyCh, Maybe)), f, AB, IF f = {} THEN Once ELSE Everywhere) :
            q \in {Star, Maybe, Plus}, x \in Aheads \cup Behinds, f \in {{}, {"g"}}}
  \cup {Pat(InOrder(PM!Look(TRUE, FALSE, PM!Cap(1, Greedy(Char("a"), q))), Three(PM!AnyCh, PM!Ref(1), Char("b"))), {}, AB, Once) :
            q \in {Star, Plus}}
  \cup {Pat(Three(PM!Look(FALSE, neg, PM!Look(TRUE, ~ neg, Char("a"))), PM!AnyCh, x), {}, AB, Once) : neg \in BOOLEAN, x \in Behinds}

\* Lines and words.
Lined == {<<"a", "nl", "b">>, <<"nl">>, <<"a", " ", "b">>, <<"nl", "nl", "a">>, <<"a", "b">>, <<" ", "a", "nl">>, <<>>, <<"1", "-", "A">>}
Placing == {Pat(n, f, Lined, IF "g" \in f THEN Everywhere ELSE Once) :
              f \in {{}, {"m"}, {"g", "m"}, {"s"}, {"g"}},
              n \in {Three(PM!Bol, PM!AnyCh, PM!Eol), Three(PM!Bol, Greedy(PM!AnyCh, Star), PM!Eol), PM!Wb, PM!Nwb,
                     Three(PM!Wb, Greedy(PM!AnyCh, Plus), PM!Wb), InOrder(PM!AnyCh, PM!Nwb), InOrder(PM!Eol, PM!Bol)}}

\* Classes, with and without the case, and characters of several bytes.
Cls(items, neg) == PM!Set(items, neg)
One(c) == PM!Item("is", c, "")
Rng(a, b, s) == [kind |-> "range", a |-> a, b |-> b, set |-> s]
Short(c) == PM!Item("shorthand", c, "")
Other(c, d) == PM!Item("shorthand", c, d)
Classes == {<<One("a")>>, <<Rng("A", "b", {"A", "B", "a", "b"})>>, <<Rng("b", "c", {"b", "c"}), One("A")>>, <<Short("d"), One("b")>>,
            <<Short("w")>>, <<Other("S", "s"), One(" ")>>, <<Other("W", "w")>>, <<One("a"), One("-")>>, <<>>}
Cased == {<<"A", "a">>, <<"b", "A">>, <<"c", "1">>, <<" ", "B">>, <<"nl", "c", "-">>, <<>>}
Classy == {Pat(InOrder(PM!Cap(1, Cls(items, neg)), Greedy(x, Maybe)), f, Cased, IF "g" \in f THEN Everywhere ELSE Once \cup Splitting) :
             items \in Classes, neg \in BOOLEAN, f \in {{}, {"i"}, {"g", "i"}}, x \in {Char("A"), PM!Ref(1)}}
Bytes(s) == FlattenSeq([i \in DOMAIN s |-> MCWide(s[i])])
Beyond == {Bytes(s) : s \in Words({"a", "e"}, 2)}
WideOnes == {Pat(n, f, Beyond, IF f = {} THEN Once \cup Splitting ELSE Everywhere) : f \in {{}, {"g"}}, n \in
    {PM!WideCh("e"), Greedy(PM!WideCh("e"), Plus), InOrder(PM!Bol, PM!Cap(1, Cls(<<One("a"), PM!Item("wide", "e", "")>>, FALSE)))}}

\* lastIndex.
Resumed == {Pat(n, f, Words({"a", "b"}, 3), {}) : f \in {{"g"}, {"y"}, {"g", "y"}, {}}, n \in
    {Char("a"), Greedy(Char("a"), Star), InOrder(Char("b"), Char("a")), PM!Look(FALSE, FALSE, Char("a")), InOrder(PM!AnyCh, PM!Eol)}}

MCPatterns == Nested \cup Deep \cup Referring \cup Asserting \cup Placing \cup Classy \cup WideOnes \cup Resumed
MCMisspelt == {<<"(">>, <<")">>, <<"a", "*", "*">>, <<"*">>, <<"[", "a">>, <<"[", "b", "-", "a", "]">>, <<"\\">>,
               <<"(", "?", "a", ")">>, <<"a", "{", "2", ",", "1", "}">>, <<"\\", "k", "<", "n", ">">>, <<"{", "1", "}">>,
               <<"|", "+">>, <<"(", "?", "<", ">", "a", ")">>, <<"a", "{", "3", "0", "0", "1", "}">>}
==============================================================================
