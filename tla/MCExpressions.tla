--------------------------- MODULE MCExpressions ---------------------------
(***************************************************************************)
(* The statements that are checked.  Each constructor gives a tree (a) and *)
(* the tokens of its text (t) at once, and its binding strength (p), for   *)
(* the parentheses that the text needs.                                    *)
(***************************************************************************)
EXTENDS ExprMeaning

X(a, t, p) == [a |-> a, t |-> t, p |-> p]
Paren(e) == X(<<"paren", e.a>>, <<P("(")>> \o e.t \o <<P(")")>>, 14)
Fit(e, p) == IF e.p < p THEN Paren(e) ELSE e

N(k) == X(<<"num", k>>, <<Num(k)>>, 14)
S(s) == X(<<"str", s>>, <<Str(s)>>, 14)
NullX == X(<<"null">>, <<P("null")>>, 14)
V(x) == X(<<"id", x>>, <<Id(x)>>, 14)
Dot(e, key) == LET b == Fit(e, 13) IN X(<<"mem", b.a, key>>, b.t \o <<P("."), Id(key)>>, 13)
At(e, i) == LET b == Fit(e, 13)
             IN  X(<<"idx", b.a, i.a>>, b.t \o <<P("[")>> \o i.t \o <<P("]")>>, 13)
OptDot(e, key) == LET b == Fit(e, 13) IN X(<<"omem", b.a, key>>, b.t \o <<P("?."), Id(key)>>, 13)
OptAt(e, i) == LET b == Fit(e, 13)
               IN  X(<<"oidx", b.a, i.a>>, b.t \o <<P("?."), P("[")>> \o i.t \o <<P("]")>>, 13)

\* Lists: arguments, elements, members.
Item(e) == Fit(e, 1)
SpreadOf(e) == X(<<"spread", Item(e).a>>, <<P("...")>> \o Item(e).t, 1)
RECURSIVE Commas(_)
Commas(es) == IF es = <<>> THEN <<>>
              ELSE IF Len(es) = 1 THEN es[1].t ELSE es[1].t \o <<P(",")>> \o Commas(Tail(es))
Trees(es) == [k \in DOMAIN es |-> es[k].a]
ArgText(es) == <<P("(")>> \o Commas(es) \o <<P(")")>>
Call_(f, es) == LET b == Fit(f, 13) IN X(<<"call", b.a, Trees(es)>>, b.t \o ArgText(es), 13)
OptCall(f, es) == LET b == Fit(f, 13)
                  IN  X(<<"ocall", b.a, Trees(es)>>, b.t \o <<P("?.")>> \o ArgText(es), 13)
NewX(f, es) == X(<<"new", f.a, Trees(es)>>, <<P("new")>> \o f.t \o ArgText(es), 13)
Arr(es) == X(<<"arr", Trees(es)>>, <<P("[")>> \o Commas(es) \o <<P("]")>>, 14)
Obj(ms) == X(<<"obj", Trees(ms)>>, <<P("{")>> \o Commas(ms) \o <<P("}")>>, 14)
Mem(key, e) == X(<<"named", key, Item(e).a>>, <<Id(key), P(":")>> \o Item(e).t, 1)
Computed(k, e) == X(<<"computed", k.a, Item(e).a>>,
                    <<P("[")>> \o k.t \o <<P("]"), P(":")>> \o Item(e).t, 1)
Spread_(e) == X(<<"spread", "", Item(e).a>>, <<P("...")>> \o Item(e).t, 1)
Short(x) == X(<<"named", x, V(x).a>>, V(x).t, 1)
\* `s1${e}s2`
Tmpl(s1, e, s2) == X(<<"tmpl", <<S(s1).a, e.a, S(s2).a>>>>,
                     <<P("tmpl"), Str(s1), P("${")>> \o e.t \o <<P("}"), Str(s2), P("tmpl")>>, 14)

Level(op) == CASE op = "??" -> 3 [] op = "||" -> 4 [] op = "&&" -> 5 [] op \in {"===", "<"} -> 6
               [] op \in {"+", "-"} -> 8 [] op = "*" -> 9 [] op = "**" -> 10
ShortCircuit == {"??", "||", "&&"}
Bin(op, l, r) ==
  LET p == Level(op)
      \* as ECMAScript demands: no ?? next to || and &&, no unary operator left of **
      a == Fit(l, IF op = "??" /\ l.p \in {4, 5} THEN 14 ELSE IF op = "**" THEN 12
                  ELSE IF p = 6 THEN 7 ELSE IF op = "*" /\ l.a[1] \in {"pre", "un"} THEN 12 ELSE p)
      b == Fit(r, IF op = "??" /\ r.p \in {4, 5} THEN 14 ELSE IF op = "**" THEN 10 ELSE p + 1)
  IN  X(<<IF op \in ShortCircuit THEN "sc" ELSE "bin", op, a.a, b.a>>, a.t \o <<P(op)>> \o b.t, p)
Un(op, e) == LET b == Fit(e, 11) IN X(<<"un", op, b.a>>, <<P(op)>> \o b.t, 11)
Del(e) == X(<<"delete", e.a>>, <<P("delete")>> \o e.t, 11)
Pre(op, e) == X(<<"pre", op, e.a>>, <<P(op)>> \o e.t, 11)
Post(op, e) == X(<<"post", op, e.a>>, e.t \o <<P(op)>>, 12)
Set(op, t, e) == LET b == Fit(e, 1) IN X(<<"set", op, t.a, b.a>>, t.t \o <<P(op)>> \o b.t, 1)
If(c, y, n) == LET q == Fit(c, 3)
                   b == Fit(y, 1)
                   e == Fit(n, 1)
               IN  X(<<"if", q.a, b.a, e.a>>, q.t \o <<P("?")>> \o b.t \o <<P(":")>> \o e.t, 2)
Seq_(l, r) == X(<<"seq", l.a, Fit(r, 1).a>>, l.t \o <<P(",")>> \o Fit(r, 1).t, 0)

-----------------------------------------------------------------------------
(* The statements. *)
VX == V("x")
VO == V("o")
VK == V("k")
OP == Dot(VO, "p")
CallG == Call_(V("g"), <<>>)                \* sets x

Places == {VX, V("c"), OP, Dot(VO, "q"), At(VO, VK), At(V("a"), N(0)), At(V("a"), N(2)), Dot(V("n"), "p"),
           Dot(Dot(VO, "i"), "p"), At(Dot(VO, "i"), VK), Dot(Call_(V("f"), <<VO>>), "p"), At(V("a"), Set("=", V("a"), N(1)))}
Sources == {N(2), V("g"), CallG, Set("=", OP, N(3)), Set("+=", VX, N(1)),
            Seq_(Set("=", VO, V("b")), V("y")), Post("++", OP), Bin("+", VX, OP)}
Stores == {Set(w, t, v) : w \in {"=", "+="}, t \in Places, v \in Sources}
          \cup {Set(w, t, v) : w \in {"-=", "||=", "&&=", "??="}, t \in Places, v \in {N(2), CallG}}
Steps == {Pre(w, t) : w \in {"++", "--"}, t \in Places} \cup {Post(w, t) : w \in {"++", "--"}, t \in Places}
Deletes == {Del(t) : t \in {OP, Dot(VO, "q"), At(VO, VK), At(V("a"), N(1))}}

Operands_ == {VX, OP, NullX, S("s"), CallG, Set("=", OP, N(9)), Post("++", VX),
              Bin("&&", VX, OP), Bin("-", V("y"), VX), Un("-", VX), Pre("++", OP)}
Binaries == {Bin(w, l, r) : w \in {"+", "-", "*", "===", "<", "&&", "||", "??"}, l \in Operands_, r \in Operands_}
            \cup {Bin("**", l, r) : l \in {V("y"), Un("-", VX), Bin("**", VX, N(2))}, r \in {N(2), Bin("**", V("y"), N(2))}}
Prefixed == {Un(w, e) : w \in {"-", "!", "typeof", "void"}, e \in Operands_}
Choices == {If(c, l, r) : c \in {VX, OP, NullX, Bin("<", VX, V("y")), Bin("===", VX, OP), Bin("&&", VX, OP), Bin("??", OP, VX)},
                          l \in {OP, CallG}, r \in {VX, Set("=", VX, N(4)), Seq_(CallG, OP)}}

\* Calls whose arguments change what is called or on what.
ArgLists == {<<>>, <<VX>>, <<CallG, VX>>, <<Set("=", VO, V("b"))>>, <<Set("=", V("f"), V("g"))>>,
             <<Set("=", Dot(VO, "m"), V("g"))>>, <<N(1), SpreadOf(V("a"))>>, <<SpreadOf(Arr(<<CallG, OP>>)), VX>>}
Callees == {V("f"), Dot(VO, "m"), Dot(VO, "q"), At(VO, S("m")), At(Dot(VO, "i"), S("m")), Paren(Dot(VO, "m")), OptDot(VO, "m"),
            OptAt(VO, S("m")), OptDot(V("n"), "m"), Dot(OptDot(VO, "i"), "m"), Dot(Call_(V("f"), <<VO>>), "m"),
            Call_(V("f"), <<V("f")>>), Bin("||", NullX, V("f"))}
Calling == {Call_(c, as) : c \in Callees, as \in ArgLists} \cup {OptCall(c, as) : c \in Callees, as \in ArgLists}
           \cup {NewX(c, as) : c \in {V("f"), Dot(VO, "m"), At(Dot(VO, "i"), S("m")), Paren(Bin("||", NullX, V("f")))}, as \in ArgLists}

\* Chains of links; what follows a short one is left out, up to a parenthesis.
Links(e) == {Dot(e, "i"), At(e, VK), OptDot(e, "i"), OptDot(e, "q"), OptAt(e, Post("++", VX)), Call_(Dot(e, "m"), <<CallG>>),
             Call_(OptDot(e, "m"), <<CallG>>), OptCall(e, <<CallG>>), Paren(OptDot(e, "q"))}
Chains == UNION {UNION {Links(e2) : e2 \in Links(e1)} : e1 \in {VO, V("n"), OP, Dot(VO, "i"), Call_(V("f"), <<VO>>)}}

Items == {VX, CallG, OP, Set("=", OP, N(3)), Arr(<<VX, SpreadOf(V("a"))>>), Call_(V("f"), <<VX>>)}
Literals == {Arr(<<e1, e2>>) : e1 \in Items, e2 \in Items} \cup {Arr(<<e1, SpreadOf(V("a")), e2>>) : e1 \in Items, e2 \in Items}
            \cup {Obj(<<Mem("u", e1), Mem("v", e2)>>) : e1 \in Items, e2 \in Items}
            \cup {Obj(<<Spread_(VO), Computed(VK, e1), Short("x")>>) : e1 \in Items}
            \cup {Obj(<<Mem("f", V("g")), Mem("v", e1)>>) : e1 \in Items}
            \cup {Dot(Obj(<<Mem("p", e1)>>), "p") : e1 \in Items}
            \cup {Tmpl("s", e1, "t") : e1 \in Operands_ \ {Set("=", OP, N(9))}}

Expressions_ == Stores \cup Steps \cup Deletes \cup Binaries \cup Prefixed \cup Choices \cup Calling \cup Chains \cup Literals

\* What a statement finds: numbers; other numbers, objects and keys; an
\* accessor under p; what is neither number nor object.
Base0 == [v |-> [x |-> NumV(1), y |-> NumV(2), z |-> Undef, c |-> NumV(3), k |-> StrV("p"), n |-> Null,
                 o |-> ObjV(1), b |-> ObjV(2), a |-> ObjV(4), f |-> FnV("id"), g |-> FnV("setsX")],
          h |-> <<[p |-> NumV(1), m |-> FnV("id"), i |-> ObjV(3)],
                  [p |-> NumV(8), m |-> FnV("setsX"), i |-> ObjV(3)],
                  [p |-> NumV(6), m |-> FnV("throws"), i |-> ObjV(1), q |-> Null],
                  ("0" :> NumV(1)) @@ ("1" :> NumV(2))>>,
          log |-> <<>>, thrown |-> FALSE]
Numbers == Base0
Others == [Base0 EXCEPT !.v.x = NumV(0), !.v.o = ObjV(2), !.v.k = StrV("r"), !.v.n = ObjV(3),
                           !.h[2] = ("r" :> NumV(4)) @@ @, !.h[3] = ("r" :> NumV(5)) @@ @]
Accessors == [Base0 EXCEPT !.h[1].p = Accessor("get", "set")]
Odd == [Base0 EXCEPT !.v.x = StrV("s"), !.h[1].p = Undef, !.v.n = NumV(0), !.v.f = NumV(1)]

Statement(e, worlds) == [ast |-> e.a, tokens |-> e.t, worlds |-> worlds]
Dropped(e) == IF e.t[1] = P("{") THEN Paren(e) ELSE e
Kept(e) == Set("=", V("z"), e)
OnKey(e) == e.a[1] = "set" /\ e.a[2] \in {"||=", "&&=", "??="} /\ e.a[3][1] = "idx"

\* A logical assignment to the subscript of an accessor, and a store that
\* meets an accessor, or what is no number, only later: MCLaterAccessors.
MCStatements ==
  {Statement(Dropped(e), w) : e \in Expressions_, w \in {<<Numbers, Others>>, <<Odd, Numbers>>}}
  \cup {Statement(Kept(e), w) : e \in Expressions_, w \in {<<Numbers>>, <<Odd>>}}
  \cup {Statement(s, <<Accessors, Numbers>>) : s \in {Dropped(e) : e \in {e \in Expressions_ : ~OnKey(e)}}}

\* The other order: an accessor after a plain member, at the same place.
MCLaterAccessors == {Statement(Dropped(Set(w, OP, N(2))), <<Numbers, Accessors>>) : w \in {"=", "+="}}
                    \cup {Statement(Kept(OP), <<Numbers, Accessors>>)}
=============================================================================
