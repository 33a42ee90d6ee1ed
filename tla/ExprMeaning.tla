---------------------------- MODULE ExprMeaning ----------------------------
(***************************************************************************)
(* What an expression means: its tree is walked from left to right, with   *)
(* no instructions, jumps or stack.  It is the reference for the compiler  *)
(* and the handlers of the module Expressions together.                    *)
(*                                                                         *)
(* It is the meaning mario gives its expressions, which is not always that *)
(* of ECMAScript.  As in mario:                                            *)
(*  - a member that was read as an operand, a callee or a receiver is a    *)
(*    reference until its user takes the value: `o.p - (o.p = 9)` is 0;    *)
(*  - the base of a subscript is a reference if it is a name;              *)
(*  - the functions of `f(..)`, `o.m(..)` and `new F(..)` are looked up    *)
(*    when the arguments are known;                                        *)
(*  - `(o.m)()`, `o.m?.()` and `o?.[k]()` call without a receiver;         *)
(*  - `f()` in an object literal finds a member f written before it;       *)
(*  - a logical assignment always evaluates its right side and ignores     *)
(*    setters; compound assignments ignore const;                          *)
(*  - `++` leaves what is no number as it is.                              *)
(***************************************************************************)
EXTENDS Expressions

\* A result: the data afterwards, the value or reference, and whether an
\* optional chain was cut short.
Got(d, e) == [d |-> d, e |-> e, cut |-> FALSE]
GotV(r) == Got(r.d, Val(r.v))
Of(r) == Deref(r.d, r.e)
Unless(r, rest) == IF r.d.thrown THEN Got(r.d, Val(Undef)) ELSE rest

MathOf == ("+" :> "PLUS") @@ ("-" :> "MINUS") @@ ("*" :> "MULTI") @@ ("**" :> "POW")
          @@ ("+=" :> "PLUS") @@ ("-=" :> "MINUS")
Dyadic(op, a, b) == IF op \in DOMAIN MathOf THEN Math(MathOf[op], a, b)
                    ELSE Compare(IF op = "===" THEN "TEQ" ELSE "LES", a, b)
Monadic(op, v) == CASE op = "-" -> Math("MINUS", NumV(0), v) [] op = "!" -> BoolV(~Truthy(v))
                    [] op = "typeof" -> StrV(TypeName(v)) [] op = "void" -> Undef

\* Does a short-circuit operator stop at its left value?
Stops(op, v) == CASE op \in {"&&", "&&="} -> ~Truthy(v) [] op \in {"||", "||="} -> Truthy(v)
                  [] op \in {"??", "??="} -> ~Nullish(v)

\* Reading and writing a place: reference e, of the object o if a member.
Was(d, o, e) == IF IsAccessor(Deref(d, e)) THEN MaybeCall(d, Deref(d, e)[2], o, <<>>)
                ELSE [d |-> d, v |-> Deref(d, e)]
Becomes(d, o, e, v) ==
  CASE ~IsRef(e) -> d
    [] IsRef(e) /\ IsAccessor(Deref(d, e)) -> MaybeCall(d, Deref(d, e)[3], o, <<v>>).d
    [] OTHER -> Store(d, e, v)

RECURSIVE E(_, _, _), Values(_, _, _, _), Entries(_, _, _), Members_(_, _, _), Text_(_, _, _)

\* The base of a subscript or a call by name; a link of a chain that was cut.
Base_(b, d, in) == IF b[1] = "id" THEN Got(d, VarRef(b[2])) ELSE E(b, d, in)
Link(r, rest) == IF r.d.thrown \/ r.cut THEN [r EXCEPT !.e = Val(Undef)] ELSE rest

\* The place a target names, made if it is not there.
Place(t, d, in) ==
  IF t[1] = "id" THEN [d |-> d, o |-> Undef, e |-> VarRef(t[2])]
  ELSE LET b == Base_(t[2], d, in)
           i == IF t[1] = "mem" THEN Got(b.d, Val(StrV(t[3]))) ELSE E(t[3], b.d, in)
           o == Deref(i.d, b.e)
           w == WriteMember(i.d, o, AsText(Of(i)))
       IN  IF i.d.thrown THEN [d |-> i.d, o |-> Undef, e |-> Val(Undef)]
           ELSE [d |-> w.d, o |-> o, e |-> w.es[Len(w.es)]]

Assigned(op, t, p, v) ==
  LET was == Was(p.d, p.o, p.e)
      new == Math(MathOf[op], was.v, v)
  IN  IF op # "=" THEN Got(Becomes(was.d, p.o, p.e, new), Val(new))
      ELSE IF t[1] = "id" /\ t[2] \in Consts THEN Got(Throw(p.d), Val(Undef))
      ELSE Got(Becomes(p.d, p.o, p.e, v), Val(v))

\* `o.p = v` reaches the member when v is known, `o[k] = v` before.
Assignment(op, t, value, d, in) ==
  LET b == Base_(t[2], d, in)
      late == E(value, b.d, in)
      to == WriteMember(late.d, Of(b), t[3])
      p == Place(t, d, in)
      r == E(value, p.d, in)
  IN  IF t[1] = "mem"
      THEN Unless(late, Assigned(op, t, [d |-> to.d, o |-> Of(b), e |-> to.es[Len(to.es)]], Of(late)))
      ELSE Unless(p, Unless(r, Assigned(op, t, [p EXCEPT !.d = r.d], Of(r))))

Logical(op, t, value, d, in) ==
  LET b == Base_(t[2], d, in)
      made == IF IsObj(Of(b)) /\ ~Has(b.d, Of(b), t[3]) THEN SetMember(b.d, Of(b)[2], t[3], Undef) ELSE b.d
      p == IF t[1] = "mem" THEN ReadMember(made, Of(b), t[3]) ELSE Place(t, d, in)
      r == E(value, p.d, in)
      v == IF Stops(op, Deref(r.d, p.e)) THEN Deref(r.d, p.e) ELSE Of(r)
  IN  Unless(p, Unless(r, Got(IF IsRef(p.e) THEN Store(r.d, p.e, v) ELSE r.d, Val(v))))

Stepped_(op, prefix, t, d, in) ==
  LET p == Place(t, d, in)
      was == Was(p.d, p.o, p.e)
      new == NumV(was.v[2] + (IF op = "++" THEN 1 ELSE -1))
  IN  Unless(p, IF was.v[1] # "num" THEN GotV(was)
                ELSE Got(Becomes(was.d, p.o, p.e, new), Val(IF prefix THEN new ELSE was.v)))

-----------------------------------------------------------------------------
(* Calls.  A list with a spread collects its values one by one. *)
Entries(as, d, in) ==
  IF as = <<>> THEN [d |-> d, es |-> <<>>]
  ELSE LET r == E(Head(as), d, in)
           rest == Entries(Tail(as), r.d, in)
       IN  [d |-> rest.d, es |-> <<r.e>> \o rest.es]

Values(as, d, arr, in) ==
  IF as = <<>> \/ d.thrown THEN d
  ELSE LET a == Head(as)
           r == E(IF a[1] = "spread" THEN a[2] ELSE a, d, arr)
       IN  Values(Tail(as),
                  IF r.d.thrown THEN r.d
                  ELSE IF a[1] = "spread" THEN AppendedAll(r.d, arr, ItemsOf(r.d, Of(r)))
                  ELSE Appended(r.d, arr, Of(r)), arr, in)
ArrayOf(as, d, in) == Values(as, NewObj(d, <<>>), Len(d.h) + 1, in)

Given(as, d, in) ==
  IF \A k \in DOMAIN as : as[k][1] # "spread"
  THEN LET r == Entries(as, d, in)
       IN  [d |-> r.d, vs |-> [k \in DOMAIN r.es |-> IF r.d.thrown THEN Undef ELSE Deref(r.d, r.es[k])]]
  ELSE LET r == ArrayOf(as, d, in)
       IN  [d |-> r, vs |-> IF r.thrown THEN <<>> ELSE ItemsOf(r, ObjV(Len(d.h) + 1))]

Call(c, as, d, in) ==
  LET b == Base_(c[2], d, in)                    \* of `b.m(..)`, `b?.m(..)`
      opt == c[1] = "omem"
      b1 == IF opt THEN Got(b.d, Val(Of(b))) ELSE b
      key == E(c[3], b.d, in)                    \* of `b[k](..)`
      held == Deref(key.d, b.e)
      callee == IF IsObj(held) THEN Member(key.d, held, AsText(Of(key))) ELSE Undef
      byName == Given(as, d, in)
      byMember == Given(as, b1.d, in)
      recv == Deref(byMember.d, b1.e)
      m == IF IsObj(recv) THEN Member(byMember.d, recv, c[3]) ELSE Undef
      getter == Apply(byMember.d, m[2], recv, <<>>)
      byKey == Given(as, key.d, in)
      any == E(c, d, in)
      byValue == Given(as, any.d, in)
      inner == IF in # 0 /\ c[2] \in DOMAIN byName.d.h[in] THEN byName.d.h[in][c[2]] ELSE Undef
  IN  CASE c[1] = "id" ->
             Unless(byName, GotV(CallValue(byName.d, IF IsFn(inner) THEN inner ELSE byName.d.v[c[2]],
                                           Undef, byName.vs)))
        [] c[1] = "mem" \/ opt ->
             IF opt /\ ~b.cut /\ ~b.d.thrown /\ Nullish(Of(b)) THEN [b EXCEPT !.e = Val(Undef), !.cut = TRUE]
             ELSE Link(b, Unless(byMember,
                    GotV(IF IsAccessor(m) THEN CallValue(getter.d, getter.v, recv, byMember.vs)
                         ELSE CallValue(byMember.d, m, recv, byMember.vs))))
        [] c[1] = "idx" ->
             Link(b, Unless(key, Unless(byKey, GotV(CallValue(byKey.d, callee, held, byKey.vs)))))
        [] OTHER ->
             Link(any, Unless(byValue,
                    GotV(CallValue(byValue.d, Deref(byValue.d, any.e), Undef, byValue.vs))))

NewOf(c, as, d, in) ==
  LET f == IF c[1] = "id" THEN Got(d, VarRef(c[2])) ELSE E(c, d, in)
      r == Given(as, f.d, in)
  IN  Unless(f, Unless(r, GotV(Construct(r.d, Deref(r.d, f.e), r.vs))))

-----------------------------------------------------------------------------
Members_(ms, d, obj) ==
  IF ms = <<>> \/ d.thrown THEN d
  ELSE LET m == Head(ms)
           key == IF m[1] = "computed" THEN E(m[2], d, obj) ELSE Got(d, Val(StrV(m[2])))
           r == E(m[3], key.d, obj)
       IN  Members_(Tail(ms),
             IF r.d.thrown THEN r.d
             ELSE IF m[1] = "spread"
             THEN IF IsObj(Of(r)) THEN [r.d EXCEPT !.h[obj] = r.d.h[Of(r)[2]] @@ @] ELSE r.d
             ELSE SetMember(r.d, obj, AsText(Deref(r.d, key.e)), Of(r)), obj)

\* The parts of a template; r holds the text so far.
Text_(parts, r, in) ==
  IF parts = <<>> THEN r
  ELSE LET x == E(Head(parts), r.d, in)
       IN  Text_(Tail(parts), Unless(x, Got(x.d, Val(Math("PLUS", Of(r), Of(x))))), in)

E(a, d, in) ==
  LET x == E(a[2], d, in)
      base == Base_(a[2], d, in)
      opt == E(a[2], d, in)
  IN  IF d.thrown THEN Got(d, Val(Undef))
      ELSE CASE a[1] = "num" -> Got(d, Val(NumV(a[2])))
        [] a[1] = "str" -> Got(d, Val(StrV(a[2])))
        [] a[1] = "null" -> Got(d, Val(Null))
        [] a[1] = "id" -> Got(d, Val(d.v[a[2]]))
        [] a[1] = "paren" -> [x EXCEPT !.cut = FALSE]
        [] a[1] = "mem" -> LET r == ReadMember(base.d, Of(base), a[3]) IN Link(base, Got(r.d, r.e))
        [] a[1] = "idx" -> LET i == E(a[3], base.d, in)
                               r == ReadMember(i.d, Deref(i.d, base.e), AsText(Of(i)))
                           IN  Link(base, Unless(i, Got(r.d, r.e)))
        [] a[1] \in {"omem", "oidx", "ocall"} ->
             LET i == E(a[3], opt.d, in)
                 m == IF a[1] = "omem" THEN ReadMember(opt.d, Of(opt), a[3])
                      ELSE ReadMember(i.d, Deref(i.d, opt.e), AsText(Of(i)))
             IN  IF opt.d.thrown \/ opt.cut \/ Nullish(Of(opt))
                 THEN [opt EXCEPT !.e = Val(Undef), !.cut = ~opt.d.thrown]
                 ELSE IF a[1] = "ocall" THEN Call(<<"value", a[2]>>, a[3], d, in)
                 ELSE IF a[1] = "omem" THEN Got(m.d, m.e) ELSE Unless(i, Got(m.d, m.e))
        [] a[1] = "value" -> x
        [] a[1] = "call" -> Call(a[2], a[3], d, in)
        [] a[1] = "new" -> NewOf(a[2], a[3], d, in)
        [] a[1] = "un" -> LET r == E(a[3], d, in) IN Unless(r, Got(r.d, Val(Monadic(a[2], Of(r)))))
        [] a[1] = "bin" -> LET l == E(a[3], d, in)
                               r == E(a[4], l.d, in)
                           IN  Unless(r, Got(r.d, Val(Dyadic(a[2], Deref(r.d, l.e), Of(r)))))
        [] a[1] = "sc" -> LET l == E(a[3], d, in)
                          IN  Unless(l, IF Stops(a[2], Of(l)) THEN [l EXCEPT !.cut = FALSE]
                                        ELSE [E(a[4], l.d, in) EXCEPT !.cut = FALSE])
        [] a[1] = "if" -> Unless(x, [E(IF Truthy(Of(x)) THEN a[3] ELSE a[4], x.d, in) EXCEPT !.cut = FALSE])
        [] a[1] = "seq" -> Unless(x, [E(a[3], x.d, in) EXCEPT !.cut = FALSE])
        [] a[1] = "set" -> IF a[2] \in {"||=", "&&=", "??="} THEN Logical(a[2], a[3], a[4], d, in)
                           ELSE Assignment(a[2], a[3], a[4], d, in)
        [] a[1] = "pre" -> Stepped_(a[2], TRUE, a[3], d, in)
        [] a[1] = "post" -> Stepped_(a[2], FALSE, a[3], d, in)
        [] a[1] = "delete" ->
             LET b == Base_(a[2][2], d, in)
                 i == IF a[2][1] = "mem" THEN Got(b.d, Val(StrV(a[2][3]))) ELSE E(a[2][3], b.d, in)
             IN  Unless(i, Got(Without(i.d, Deref(i.d, b.e), AsText(Of(i))), Val(BoolV(TRUE))))
        [] a[1] = "arr" -> LET r == ArrayOf(a[2], d, in)
                           IN  Got(r, Val(ObjV(Len(d.h) + 1)))
        [] a[1] = "obj" -> Got(Members_(a[2], NewObj(d, <<>>), Len(d.h) + 1), Val(ObjV(Len(d.h) + 1)))
        [] a[1] = "tmpl" -> Text_(a[2], Got(d, Val(StrV(""))), in)

-----------------------------------------------------------------------------
(* The evaluation of every statement leaves on the value stack exactly     *)
(* what was there before: each operand is consumed by its operator, each   *)
(* jump of a short-circuit operator, of a choice or of a cut chain lands   *)
(* with as many operands as the way around it, and a store that keeps its  *)
(* value to itself takes the POP with it (asserted by no test: an operand  *)
(* too many is only seen when a long loop fills the stack).                *)
OperandsExact == Finished => stack = <<>> /\ lits = <<>>

(* Whenever a statement has been evaluated, also for a second time over    *)
(* code that the first has changed, the variables, objects, effects and    *)
(* their order are those of its tree (ternary, binary_expr, factor and     *)
(* base in compiler.c against the handlers in mario.c).                    *)
EvaluatesAsWritten ==
  Finished \/ data.thrown => data = E(stmt.ast, stmt.worlds[round], 0).d
=============================================================================
