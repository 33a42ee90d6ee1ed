---------------------------- MODULE ExprCompile ----------------------------
(***************************************************************************)
(* The expression compiler of lang/js/compiler.c: one pass over the        *)
(* tokens, instructions appended as it goes, jumps patched when their      *)
(* target is reached, and the LAST instruction rewritten when a later      *)
(* token turns what was read into a target of a write.                     *)
(*                                                                         *)
(* The compiler's state is a record: tokens `t` with the next one at `i`,  *)
(* code `c`, the skips of optional chains still to be patched `opt`        *)
(* (g_optjmp), `recv` (g_arrat_recv: the call that follows has a receiver  *)
(* under its function), and `n`, `spr`: number of arguments and spread of  *)
(* the last argument list.  Jump operands are distances, as in the code.   *)
(* Only well-formed input: the ways out for a syntax error are left out.   *)
(***************************************************************************)
EXTENDS Naturals, Sequences, TLC

CONSTANT Slots     \* names with a slot in the function's frame (pslot_find)

P(s) == <<"p", s>>                  \* punctuation and keywords
Id(x) == <<"id", x>>
Num(k) == <<"num", k>>
Str(s) == <<"str", s>>

I(op, a, n) == [op |-> op, a |-> a, n |-> n]
Op(op) == I(op, "", 0)

Tk(s) == IF s.i > Len(s.t) THEN P("") ELSE s.t[s.i]
Kind(s) == Tk(s)[1]
Is(s, p) == Kind(s) = "p" /\ Tk(s)[2] = p
Text(s) == Tk(s)[2]
Adv(s) == [s EXCEPT !.i = @ + 1]
Gen(s, ins) == [s EXCEPT !.c = Append(@, ins)]
Here(s) == Len(s.c) + 1

\* bc_set_instr: the reserved word at pc becomes a jump to the end of the code.
Patch(s, pc, op) == [s EXCEPT !.c[pc] = I(op, "", Here(s) - pc)]
Reserve(s) == Gen(s, Op("NIL"))

\* The last instruction becomes the one `form` names for it.
Retarget(s, form) ==
  LET last == s.c[Len(s.c)]
  IN  IF last.op \in DOMAIN form THEN [s EXCEPT !.c[Len(s.c)].op = form[last.op]] ELSE s

WriteForm == [ARRAY_AT |-> "ARRAY_AT_W", GET |-> "GETW", LOADV |-> "LOADW",
              LOAD |-> "LOADW", LOADPV |-> "LOADP"]
StepTarget(s) == Retarget(s, WriteForm)

\* pslot_emit_load, pslot_emit_loadv: the binding, or its value.
Load(s, x) == Gen(s, I(IF x \in Slots THEN "LOADP" ELSE "LOAD", x, 0))
LoadV(s, x) == Gen(s, I(IF x \in Slots THEN "LOADPV" ELSE "LOADV", x, 0))

BinPrec == [p \in {"||", "&&", "===", "<", "+", "-", "*", "**"} |->
              CASE p = "||" -> 1 [] p = "&&" -> 2 [] p \in {"===", "<"} -> 6
                [] p \in {"+", "-"} -> 8 [] p = "*" -> 9 [] p = "**" -> 10]
BinInstr == ("===" :> "TEQ") @@ ("<" :> "LES") @@ ("+" :> "PLUS") @@ ("-" :> "MINUS")
              @@ ("*" :> "MULTI") @@ ("**" :> "POW")
AsgInstr == ("=" :> "ASIGN") @@ ("+=" :> "PLUSEQ") @@ ("-=" :> "MINUSEQ")
              @@ ("||=" :> "OREQ") @@ ("&&=" :> "ANDEQ") @@ ("??=" :> "NULLISHEQ")
StepInstr == ("++" :> "PPLUS") @@ ("--" :> "MMINUS")
PrefixInstr == ("!" :> "NOT") @@ ("-" :> "NEG") @@ ("typeof" :> "TYPEOF")

\* The rules call each other through Parse (at the end).
RECURSIVE Parse(_, _, _), Suffixes(_), Climb(_, _)
Base(s) == Parse("base", 0, s)
Ternary(s) == Parse("ternary", 0, s)
Binary(s, min) == Parse("binary", min, s)
Unary(s) == Parse("unary", 0, s)
Factor(s, member) == Parse("factor", member, s)

\* expr_seq: base, base ..., every value but the last dropped.
RECURSIVE SeqRest(_)
SeqRest(s) == IF Is(s, ",") THEN SeqRest(Base(Adv(Gen(s, Op("POP"))))) ELSE s
ExprSeq(s) == SeqRest(Base(s))

-----------------------------------------------------------------------------
\* call_func.  A list with a spread is read a second time, as an array.
RECURSIVE PlainArgs(_, _), Elements(_, _)
PlainArgs(s, n) ==
  IF Is(s, "...") THEN [s EXCEPT !.spr = TRUE]
  ELSE LET a == Base(s)
       IN  IF Is(a, ",") THEN PlainArgs(Adv(a), n + 1)
           ELSE [Adv(a) EXCEPT !.n = n + 1, !.spr = FALSE]

\* The elements of an array, up to the closing token.
Elements(s, close) ==
  CASE Is(s, close) -> Gen(Adv(s), Op("ARRAY_END"))
    [] Is(s, ",") -> Elements(Adv(s), close)
    [] Is(s, "...") -> Elements(Gen(Base(Adv(s)), Op("ARR_SPREAD")), close)
    [] OTHER -> Elements(Gen(Base(s), Op("MEMBER")), close)

Args(s) ==
  LET open == [Adv(s) EXCEPT !.n = 0, !.spr = FALSE]
      read == PlainArgs(open, 0)
  IN  IF Is(open, ")") THEN Adv(open)
      ELSE IF ~read.spr THEN read
      ELSE [Elements(Gen(open, Op("ARRAY")), ")") EXCEPT !.n = 0, !.spr = TRUE]

\* A call instruction for the arguments just read.
Called(s, op, name) == Gen(s, I(IF s.spr THEN op \o "_SPREAD" ELSE op, name, s.n))
CallNamed(s, op, name) == Called(Args(s), op, name)
CallTop(s) ==
  LET recv == s.recv
  IN  Called(Args([s EXCEPT !.recv = FALSE]), IF recv THEN "CALLXO" ELSE "CALLX", "")

\* A subscript; one that a call follows keeps its receiver for the call.
Subscript(s) ==
  LET in == Adv(ExprSeq(Adv(s)))
  IN  IF Is(in, "(") THEN [Gen(in, Op("ARRAY_AT_M")) EXCEPT !.recv = TRUE]
      ELSE Gen(in, Op("ARRAY_AT"))

-----------------------------------------------------------------------------
\* factor_new.  `new X(..)` names its class; any other callee is a value.
RECURSIVE NewPath(_)
NewPath(s) ==
  CASE Is(s, ".") -> NewPath(Gen(Adv(Adv(s)), I("GET", Text(Adv(s)), 0)))
    [] Is(s, "[") -> NewPath(Gen(Adv(ExprSeq(Adv(s))), Op("ARRAY_AT")))
    [] OTHER -> s
NewArgs(s) == IF Is(s, "(") THEN Args(s) ELSE [s EXCEPT !.n = 0, !.spr = FALSE]

FactorNew(s0) ==
  LET s == Adv(s0)
      after == Adv(s)
  IN  CASE Is(s, "(") -> Called(NewArgs(NewPath(Adv(ExprSeq(after)))), "NEWX", "")
        [] Kind(s) = "id" /\ (Is(after, ".") \/ Is(after, "[")) ->
             Called(NewArgs(NewPath(Gen(after, I("LOAD", Text(s), 0)))), "NEWX", "")
        [] OTHER -> Called(NewArgs(after), "NEW", Text(s))

\* factor_json, its data members.
RECURSIVE Members(_)
Members(s) ==
  LET name == Text(s)
      next == Adv(s)
  IN  CASE Is(s, "}") -> Gen(Adv(s), Op("OBJ_END"))
        [] Is(s, ",") -> Members(Adv(s))
        [] Is(s, "...") -> Members(Gen(Base(Adv(s)), Op("OBJ_SPREAD")))
        [] Is(s, "[") -> Members(Gen(Base(Adv(Adv(Base(Adv(s))))), Op("MEMBERV")))
        [] Kind(s) = "id" /\ Is(next, ":") ->
             Members(Gen(Base(Adv(next)), I("MEMBERN", name, 0)))
        [] OTHER -> Members(Gen(Load(next, name), I("MEMBERN", name, 0)))

\* factor_template: chunks and substitutions, added up from the left.
RECURSIVE Template(_, _)
Template(s, first) ==
  LET chunk == Gen(Adv(s), I("STR", Text(s), 0))
      sum == IF first THEN chunk ELSE Gen(chunk, Op("PLUS"))
  IN  IF Is(sum, "tmpl") THEN Adv(sum)
      ELSE Template(Gen(Adv(Base(Adv(sum))), Op("PLUS")), FALSE)

-----------------------------------------------------------------------------
\* The primary of factor: a name (of a member when `member`), a group, a literal.
Named(s, member) ==
  LET x == Text(s)
      after == Adv(s)
  IN  CASE Is(after, "(") -> CallNamed(after, IF member THEN "CALLO" ELSE "CALL", x)
        [] Is(after, "[") -> Subscript(IF member THEN Gen(after, I("GET", x, 0))
                                       ELSE Load(after, x))
        [] OTHER -> IF member THEN Gen(after, I("GET", x, 0))
                    ELSE IF Is(after, ".") THEN Load(after, x) ELSE LoadV(after, x)

Primary(s, member) ==
  CASE Kind(s) = "id" -> Named(s, member)
    [] Kind(s) = "num" -> Gen(Adv(s), I("INT", Text(s), 0))
    [] Kind(s) = "str" -> Gen(Adv(s), I("STR", Text(s), 0))
    [] Is(s, "(") -> Adv(ExprSeq(Adv(s)))      \* the word kept for an arrow goes again
    [] Is(s, "null") -> Gen(Adv(s), Op("NULL"))
    [] Is(s, "tmpl") -> Template(Adv(s), TRUE)
    [] Is(s, "new") -> FactorNew(s)
    [] Is(s, "{") -> Members(Gen(Adv(s), Op("OBJ")))
    [] Is(s, "[") -> Elements(Gen(Adv(s), Op("ARRAY")), "]")

\* `?.`: a guard over an UNDEF and a skip; the skip waits in opt for the end
\* of the chain.
OptionalLink(s) ==
  LET guard == Here(s)
      skip == guard + 2
      body == Reserve(Gen(Reserve(s), Op("UNDEF")))
      after == Adv(body)
      rest == CASE Is(body, "(") -> CallTop(body)
                [] Is(body, "[") -> Gen(Adv(ExprSeq(after)), Op("ARRAY_AT"))
                [] Is(after, "(") -> CallNamed(after, "CALLO", Text(body))
                [] OTHER -> Gen(after, I("GET", Text(body), 0))
  IN  [rest EXCEPT !.c[guard] = I("NULLISH", "", 3), !.opt = Append(@, skip)]

Suffixes(s) ==
  CASE Is(s, ".") -> Suffixes(Factor(Adv(s), TRUE))
    [] Is(s, "?.") -> Suffixes(OptionalLink(Adv(s)))
    [] Is(s, "[") -> Suffixes(Subscript(s))
    [] Is(s, "(") -> Suffixes(CallTop(s))
    [] OTHER -> s

RECURSIVE PatchAll(_, _)
PatchAll(s, pcs) == IF pcs = <<>> THEN s ELSE PatchAll(Patch(s, Head(pcs), "JMP"), Tail(pcs))
FactorRule(s, member) ==
  LET saved == Len(s.opt)
      done == Suffixes(Primary(s, member))
  IN  [PatchAll(done, SubSeq(done.opt, saved + 1, Len(done.opt)))
         EXCEPT !.opt = SubSeq(@, 1, saved)]

\* unary: prefix operators rewrite or follow the operand, then a postfix step.
DeleteForm == [GET |-> "DELETE", ARRAY_AT |-> "DELETE_AT", LOAD |-> "DELETE_VAR",
               LOADV |-> "DELETE_VAR", LOADP |-> "FALSE", LOADPV |-> "FALSE"]
SafeForm == [LOAD |-> "LOAD_SAFE", LOADV |-> "LOAD_SAFE"]

UnaryRule(s) ==
  CASE Is(s, "delete") ->
         LET x == Factor(Adv(s), FALSE)
         IN  IF x.c[Len(x.c)].op \in DOMAIN DeleteForm THEN Retarget(x, DeleteForm)
             ELSE Gen(Gen(x, Op("POP")), Op("TRUE"))
    [] Kind(s) = "p" /\ Text(s) \in DOMAIN StepInstr ->
         Gen(StepTarget(Unary(Adv(s))), Op(StepInstr[Text(s)] \o "_PRE"))
    [] Is(s, "void") -> Gen(Gen(Unary(Adv(s)), Op("POP")), Op("UNDEF"))
    [] Is(s, "typeof") -> Gen(Retarget(Unary(Adv(s)), SafeForm), Op("TYPEOF"))
    [] Kind(s) = "p" /\ Text(s) \in DOMAIN PrefixInstr \ {"typeof"} ->
         Gen(Unary(Adv(s)), Op(PrefixInstr[Text(s)]))
    [] OTHER ->
         LET x == Factor(s, FALSE)
         IN  IF Kind(x) = "p" /\ Text(x) \in DOMAIN StepInstr
             THEN Gen(StepTarget(Adv(x)), Op(StepInstr[Text(x)])) ELSE x

\* binary_expr: precedence climbing.  At the additive level or looser, a
\* leading - ++ -- is applied to the whole term that follows it.
BinaryRule(s, min) ==
  LET term == Binary(Adv(s), BinPrec["+"] + 1)
  IN  IF min <= BinPrec["+"] /\ Is(s, "-") THEN Climb(Gen(term, Op("NEG")), min)
      ELSE IF min <= BinPrec["+"] /\ Kind(s) = "p" /\ Text(s) \in DOMAIN StepInstr
      THEN Climb(Gen(StepTarget(term), Op(StepInstr[Text(s)] \o "_PRE")), min)
      ELSE Climb(Unary(s), min)

Climb(s, min) ==
  IF Kind(s) # "p" \/ Text(s) \notin DOMAIN BinPrec THEN s
  ELSE LET op == Text(s)
           prec == BinPrec[op]
           next == IF op = "**" THEN prec ELSE prec + 1
       IN  IF prec < min THEN s
           ELSE IF op \in {"&&", "||"}
           THEN Climb(Patch(Binary(Reserve(Adv(s)), next), Here(s),
                            IF op = "&&" THEN "SCAND" ELSE "SCOR"), min)
           ELSE Climb(Gen(Binary(Adv(s), next), Op(BinInstr[op])), min)

RECURSIVE Coalesce(_)
Coalesce(s) ==
  IF Is(s, "??") THEN Coalesce(Patch(Binary(Reserve(Adv(s)), 1), Here(s), "NULLISH")) ELSE s

TernaryRule(s) ==
  LET cond == Coalesce(Binary(s, 1))
      yes == Reserve(Base(Adv(Reserve(cond))))
      split == Patch(Adv(yes), Here(cond), "NJMP")
  IN  IF Is(cond, "?") THEN Patch(Base(split), Here(yes) - 1, "JMP") ELSE cond

\* base: an assignment rewrites the last instruction of what it assigns to.
LateForm == [GET |-> "WANCHOR"]       \* = and arithmetic: resolved after the value
LogicForm == [GET |-> "GETLA"]
BaseRule(s) ==
  LET left == Ternary(s)
      op == Text(left)
      logical == op \in {"||=", "&&=", "??="}
      last == left.c[Len(left.c)]
      form == IF last.op = "GET" THEN (IF logical THEN LogicForm ELSE LateForm) ELSE WriteForm
      value == Base(Adv(Retarget(left, form)))
      aimed == IF last.op = "GET" /\ ~logical THEN Gen(value, I("WTARGET", last.a, 0)) ELSE value
  IN  IF Kind(left) = "p" /\ op \in DOMAIN AsgInstr THEN Gen(aimed, Op(AsgInstr[op])) ELSE left

Parse(rule, arg, s) ==
  CASE rule = "base" -> BaseRule(s)
    [] rule = "ternary" -> TernaryRule(s)
    [] rule = "binary" -> BinaryRule(s, arg)
    [] rule = "unary" -> UnaryRule(s)
    [] rule = "factor" -> FactorRule(s, arg)

-----------------------------------------------------------------------------
\* An expression statement: the value of the expression is dropped.
Compile(tokens) ==
  Gen(Base([t |-> tokens, i |-> 1, c |-> <<>>, opt |-> <<>>, recv |-> FALSE,
            n |-> 0, spr |-> FALSE]), Op("POP")).c

\* bc_mark_jump_targets: the positions jumps land on.
JumpOps == {"JMP", "NJMP", "SCAND", "SCOR", "NULLISH"}
Targets(c) == {k + c[k].n : k \in {j \in DOMAIN c : c[j].op \in JumpOps}}
=============================================================================
