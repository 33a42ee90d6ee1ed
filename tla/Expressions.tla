---------------------------- MODULE Expressions ----------------------------
(***************************************************************************)
(* Expression statements on the value stack of the VM (mario.c): the       *)
(* instructions that ExprCompile generates, one action per handler.        *)
(*                                                                         *)
(* A statement is executed several times, as in a loop, and the data it    *)
(* finds may differ from one execution to the next: the code does not stay *)
(* what it was, since a store whose value nobody wants drops the POP after *)
(* it for good (INSTR_OPT_CACHE).                                          *)
(*                                                                         *)
(* A stack entry is a value or a REFERENCE to a binding or member that is  *)
(* read when it is popped (vm_push_node).  Functions are atomic: Apply.    *)
(***************************************************************************)
EXTENDS ExprCompile, FiniteSets, Integers

CONSTANTS
  Statements,    \* records: tokens, their tree, the data each execution meets
  Consts         \* variables declared const

VARIABLES
  stmt,          \* the statement
  round,         \* which execution this is
  code,          \* vm->bc
  pc,            \* the next instruction
  stack,
  lits,          \* the literals under construction, the scopes of OBJ and ARRAY
  cached,        \* instructions with INSTR_OPT_CACHE set
  data           \* variables v, objects h, effects log, thrown

vars == <<stmt, round, code, pc, stack, lits, cached, data>>

-----------------------------------------------------------------------------
(* Values, and the data they live in. *)
Undef == <<"undef">>
Null == <<"null">>
NumV(k) == <<"num", k>>
StrV(s) == <<"str", s>>
BoolV(b) == <<"bool", b>>
ObjV(id) == <<"obj", id>>
FnV(f) == <<"fn", f>>
Accessor(g, s) == <<"acc", g, s>>     \* only ever the value of a member

IsObj(v) == v[1] = "obj"
IsFn(v) == v[1] = "fn"
Nullish(v) == v[1] \in {"undef", "null"}
Truthy(v) == ~(v[1] \in {"undef", "null", "nan"} \/ v \in {NumV(0), StrV(""), BoolV(FALSE)})
AsText(v) == CASE v[1] \in {"num", "str", "bool"} -> IF v[1] = "str" THEN v[2] ELSE ToString(v[2])
               [] v[1] = "undef" -> "undefined" [] v[1] = "nan" -> "NaN"
               [] OTHER -> v[1]
TypeName(v) == CASE v[1] \in {"num", "nan"} -> "number" [] v[1] = "str" -> "string"
                 [] v[1] = "bool" -> "boolean" [] v[1] = "undef" -> "undefined"
                 [] v[1] = "fn" -> "function" [] OTHER -> "object"

\* math_op and compare on what the statements here meet.
AsNum(v) == IF v = Null THEN NumV(0) ELSE v
Math(op, a, b) ==
  LET x == AsNum(a)
      y == AsNum(b)
  IN  IF op = "PLUS" /\ {a[1], b[1]} \cap {"str", "fn", "obj"} # {} THEN StrV(AsText(a) \o AsText(b))
      ELSE IF x[1] # "num" \/ y[1] # "num" THEN <<"nan">>
      ELSE NumV(CASE op = "PLUS" -> x[2] + y[2] [] op = "MINUS" -> x[2] - y[2]
                  [] op = "MULTI" -> x[2] * y[2] [] op = "POW" -> x[2] ^ y[2])
Compare(op, a, b) ==
  IF op = "TEQ" THEN BoolV(a[1] # "nan" /\ a = b)
  ELSE BoolV(a[1] = "num" /\ b[1] = "num" /\ a[2] < b[2])    \* null compares as NaN

Member(d, o, key) == IF key \in DOMAIN d.h[o[2]] THEN d.h[o[2]][key] ELSE Undef
Has(d, v, key) == IsObj(v) /\ key \in DOMAIN d.h[v[2]]
IsAccessor(v) == v[1] = "acc"
SetMember(d, id, key, v) == [d EXCEPT !.h[id] = (key :> v) @@ @]
NewObj(d, members) == [d EXCEPT !.h = Append(@, members)]
ItemsOf(d, v) == [k \in 1..Cardinality(DOMAIN d.h[v[2]]) |-> d.h[v[2]][ToString(k - 1)]]

\* func_call: what the functions of these statements do.  Every call is seen.
Apply(d, f, this, args) ==
  LET seen == [d EXCEPT !.log = Append(@, <<f, this, args>>)]
  IN  CASE f = "get" -> [d |-> seen, v |-> NumV(4)]
        [] f = "setsX" -> [d |-> [seen EXCEPT !.v.x = NumV(5)], v |-> NumV(7)]
        [] f = "throws" -> [d |-> [seen EXCEPT !.thrown = TRUE], v |-> Undef]
        [] OTHER -> [d |-> seen, v |-> IF args = <<>> THEN Undef ELSE args[1]]
Throw(d) == [d EXCEPT !.thrown = TRUE]
CallValue(d, f, this, args) ==
  IF IsFn(f) THEN Apply(d, f[2], this, args) ELSE [d |-> Throw(d), v |-> Undef]
\* new_obj_with_ctor: an object that the function returns replaces the new one.
Construct(d, f, args) ==
  LET r == Apply(NewObj(d, <<>>), f[2], ObjV(Len(d.h) + 1), args)
  IN  IF ~IsFn(f) THEN [d |-> Throw(d), v |-> Undef]
      ELSE IF IsObj(r.v) \/ IsFn(r.v) THEN r ELSE [r EXCEPT !.v = ObjV(Len(d.h) + 1)]

-----------------------------------------------------------------------------
(* Stack entries. *)
Val(v) == [k |-> "val", v |-> v]
VarRef(x) == [k |-> "var", x |-> x]
MemRef(o, key) == [k |-> "mem", o |-> o[2], key |-> key]
Anchor(v) == [k |-> "anchor", v |-> v]

IsRef(e) == e.k \in {"var", "mem"}
Deref(d, e) == CASE e.k = "var" -> d.v[e.x] [] e.k = "mem" -> d.h[e.o][e.key] [] OTHER -> e.v

\* node_replace
Store(d, e, v) == IF e.k = "var" THEN [d EXCEPT !.v[e.x] = v] ELSE [d EXCEPT !.h[e.o][e.key] = v]

\* do_get, array_at_push: a member that is read ...
ReadMember(d, base, key) ==
  LET m == IF IsObj(base) THEN Member(d, base, key) ELSE Undef
      got == Apply(d, m[2], base, <<>>)
  IN  IF ~Has(d, base, key) THEN [d |-> d, e |-> Val(Undef)]
      ELSE IF IsAccessor(m)
      THEN IF m[2] = "" THEN [d |-> d, e |-> Val(Undef)] ELSE [d |-> got.d, e |-> Val(got.v)]
      ELSE [d |-> d, e |-> MemRef(base, key)]

\* ... and one to be written: it exists from now on; an accessor goes with its object.
\* No statement names a member of undefined as its target (README, section 3.1).
WriteMember(d, base, key) ==
  IF ~IsObj(base) THEN [d |-> d, es |-> <<Val(Undef)>>]
  ELSE IF ~Has(d, base, key)
  THEN [d |-> SetMember(d, base[2], key, Undef), es |-> <<MemRef(base, key)>>]
  ELSE [d |-> d, es |-> IF IsAccessor(Member(d, base, key))
                        THEN <<Val(base), MemRef(base, key)>> ELSE <<MemRef(base, key)>>]

-----------------------------------------------------------------------------
(* Execution. *)
Running == pc <= Len(code) /\ ~data.thrown
IsAt(op) == Running /\ code[pc].op = op
Arg == code[pc].a
Top == stack[Len(stack)]
Below(k) == SubSeq(stack, 1, Len(stack) - k)
Value(k) == Deref(data, stack[Len(stack) - k])       \* the k-th under the top
Operands(k) == [j \in 1..k |-> Deref(data, stack[Len(stack) - k + j])]

\* The instruction leaves `st` on the stack and `d` behind, and goes on at `to`.
Leave(d, st, to) ==
  /\ data' = d
  /\ stack' = st
  /\ pc' = to
  /\ UNCHANGED <<stmt, round>>
Plain == UNCHANGED <<code, cached, lits>>
Put(st) == Leave(data, st, pc + 1) /\ Plain

\* A mutant: the POP goes although a jump lands on it.
StoreEnds_IgnoresTargets(d, st, v) ==
  \/ pc \in cached /\ Leave(d, st, pc + 2) /\ Plain
  \/ /\ pc \notin cached /\ code[pc + 1].op = "POP"
     /\ code' = [code EXCEPT ![pc + 1].op = "NIL"]
     /\ cached' = cached \cup {pc}
     /\ UNCHANGED lits
     /\ Leave(d, st, pc + 1)
  \/ pc \notin cached /\ code[pc + 1].op # "POP" /\ Leave(d, Append(st, Val(v)), pc + 1) /\ Plain

\* The end of a store: its value goes on the stack unless the next
\* instruction only drops it; from then on that one is left out.
StoreEnds(d, st, v) ==
  \/ /\ pc \in cached
     /\ Leave(d, st, pc + 2)
     /\ Plain
  \/ /\ pc \notin cached
     /\ code[pc + 1].op = "POP" /\ pc + 1 \notin Targets(code)
     /\ code' = [code EXCEPT ![pc + 1].op = "NIL"]
     /\ cached' = cached \cup {pc}
     /\ UNCHANGED lits
     /\ Leave(d, st, pc + 1)
  \/ /\ pc \notin cached
     /\ ~(code[pc + 1].op = "POP" /\ pc + 1 \notin Targets(code))
     /\ Leave(d, Append(st, Val(v)), pc + 1)
     /\ Plain

Nil == IsAt("NIL") /\ Put(stack)
Pop == IsAt("POP") /\ Put(Below(1))
Jmp == IsAt("JMP") /\ Leave(data, stack, pc + code[pc].n) /\ Plain
Njmp ==
  /\ IsAt("NJMP")
  /\ Leave(data, Below(1), IF Truthy(Value(0)) THEN pc + 1 ELSE pc + code[pc].n)
  /\ Plain

Literal ==
  /\ Running
  /\ \E op \in {"INT", "STR", "NULL", "UNDEF", "TRUE", "FALSE"} :
       /\ code[pc].op = op
       /\ Put(Append(stack, Val(CASE op = "INT" -> NumV(Arg) [] op = "STR" -> StrV(Arg)
                                  [] op = "NULL" -> Null [] op = "UNDEF" -> Undef
                                  [] OTHER -> BoolV(op = "TRUE"))))

LoadRef == (IsAt("LOAD") \/ IsAt("LOADW") \/ IsAt("LOADP")) /\ Put(Append(stack, VarRef(Arg)))
LoadValue ==
  /\ IsAt("LOADV") \/ IsAt("LOADPV") \/ IsAt("LOAD_SAFE")
  /\ Put(Append(stack, Val(data.v[Arg])))

-----------------------------------------------------------------------------
(* Members. *)
Get ==
  /\ IsAt("GET")
  /\ LET r == ReadMember(data, Value(0), Arg)
     IN  Leave(r.d, Append(Below(1), r.e), pc + 1)
  /\ Plain

\* A mutant: a logical assignment reads its member like any other read.
GetLA_Reads ==
  /\ IsAt("GETLA")
  /\ LET r == ReadMember(data, Value(0), Arg)
     IN  Leave(r.d, Append(Below(1), r.e), pc + 1)
  /\ Plain

\* handle_getla: a missing member of a plain object is there before it is read.
GetLA ==
  /\ IsAt("GETLA")
  /\ LET o == Value(0)
         d == IF IsObj(o) /\ ~Has(data, o, Arg) THEN SetMember(data, o[2], Arg, Undef) ELSE data
         r == ReadMember(d, o, Arg)
     IN  Leave(r.d, Append(Below(1), r.e), pc + 1)
  /\ Plain

GetW ==
  /\ IsAt("GETW")
  /\ LET r == WriteMember(data, Value(0), Arg)
     IN  Leave(r.d, Below(1) \o r.es, pc + 1)
  /\ Plain

WAnchor == IsAt("WANCHOR") /\ Put(Append(Below(1), Anchor(Value(0))))
WTarget ==
  /\ IsAt("WTARGET")
  /\ LET r == WriteMember(data, stack[Len(stack) - 1].v, Arg)
     IN  Leave(r.d, Append(Below(2) \o r.es, Val(Value(0))), pc + 1)
  /\ Plain

ArrayAt ==
  /\ IsAt("ARRAY_AT")
  /\ LET r == ReadMember(data, Value(1), AsText(Value(0)))
     IN  Leave(r.d, Append(Below(2), r.e), pc + 1)
  /\ Plain
ArrayAtW ==
  /\ IsAt("ARRAY_AT_W")
  /\ LET r == WriteMember(data, Value(1), AsText(Value(0)))
     IN  Leave(r.d, Below(2) \o r.es, pc + 1)
  /\ Plain
ArrayAtM ==
  /\ IsAt("ARRAY_AT_M")
  /\ LET o == Value(1)
     IN  Put(Below(2) \o <<Val(o), Val(IF IsObj(o) THEN Member(data, o, AsText(Value(0))) ELSE Undef)>>)

Without(d, o, key) == IF IsObj(o) THEN [d EXCEPT !.h[o[2]] = [k \in DOMAIN @ \ {key} |-> @[k]]] ELSE d
Delete ==
  /\ IsAt("DELETE")
  /\ Leave(Without(data, Value(0), Arg), Append(Below(1), Val(BoolV(TRUE))), pc + 1)
  /\ Plain
DeleteAt ==
  /\ IsAt("DELETE_AT")
  /\ Leave(Without(data, Value(1), AsText(Value(0))), Append(Below(2), Val(BoolV(TRUE))), pc + 1)
  /\ Plain

-----------------------------------------------------------------------------
(* Operators. *)
PrefixOp ==
  \/ IsAt("NEG") /\ Put(Append(Below(1), Val(Math("MINUS", NumV(0), Value(0)))))
  \/ IsAt("NOT") /\ Put(Append(Below(1), Val(BoolV(~Truthy(Value(0))))))
  \/ IsAt("TYPEOF") /\ Put(Append(Below(1), Val(StrV(TypeName(Value(0))))))

HandleMath ==
  /\ Running /\ code[pc].op \in {"PLUS", "MINUS", "MULTI", "POW"}
  /\ StoreEnds(data, Below(2), Math(code[pc].op, Value(1), Value(0)))

\* A comparison of integers takes the branch that follows it along.
HandleCompare ==
  /\ Running /\ code[pc].op \in {"TEQ", "LES"}
  /\ LET r == Compare(code[pc].op, Value(1), Value(0))
         fused == code[pc + 1].op = "NJMP" /\ pc + 1 \notin Targets(code)
                  /\ {Value(0)[1], Value(1)[1]} = {"num"}
     IN  IF fused
         THEN Leave(data, Below(2), IF Truthy(r) THEN pc + 2 ELSE pc + 1 + code[pc + 1].n)
         ELSE Leave(data, Append(Below(2), Val(r)), pc + 1)
  /\ Plain

HandleNullish ==
  /\ IsAt("NULLISH")
  /\ IF Nullish(Value(0)) THEN Put(Below(1)) ELSE Leave(data, stack, pc + code[pc].n) /\ Plain
HandleLogicSC ==
  /\ IsAt("SCAND") \/ IsAt("SCOR")
  /\ IF Truthy(Value(0)) = (code[pc].op = "SCOR")
     THEN Leave(data, stack, pc + code[pc].n) /\ Plain ELSE Put(Below(1))

-----------------------------------------------------------------------------
(* Assignments. *)
Target == stack[Len(stack) - 1]
SetterOf(e) == Deref(data, e)[3]
GetterOf(e) == Deref(data, e)[2]
MaybeCall(d, f, this, args) == IF f = "" THEN [d |-> d, v |-> Undef] ELSE Apply(d, f, this, args)

\* handle_asign: the setter's value stays whatever follows.
Asign ==
  /\ IsAt("ASIGN")
  /\ LET v == Value(0)
     IN  IF ~IsRef(Target) THEN StoreEnds(data, Below(2), v)
         ELSE IF IsAccessor(Deref(data, Target))
         THEN /\ Leave(MaybeCall(data, SetterOf(Target), Value(2), <<v>>).d,
                       Append(Below(3), Val(v)), pc + 1)
              /\ Plain
         ELSE IF Target.k = "var" /\ Target.x \in Consts
         THEN Leave(Throw(data), Below(2), pc + 1) /\ Plain
         ELSE StoreEnds(Store(data, Target, v), Below(2), v)

\* handle_math with a target: read now, when the right side is known.
MathAssign ==
  /\ Running /\ code[pc].op \in {"PLUSEQ", "MINUSEQ"}
  /\ LET op == IF code[pc].op = "PLUSEQ" THEN "PLUS" ELSE "MINUS"
         got == MaybeCall(data, GetterOf(Target), Value(2), <<>>)
         new == Math(op, got.v, Value(0))
         sum == Math(op, Value(1), Value(0))
     IN  IF IsAccessor(Value(1))
         THEN /\ Leave(MaybeCall(got.d, SetterOf(Target), Value(2), <<new>>).d,
                       Append(Below(3), Val(new)), pc + 1)
              /\ Plain
         ELSE StoreEnds(IF IsRef(Target) THEN Store(data, Target, sum) ELSE data, Below(2), sum)

LogicAssign ==
  /\ Running /\ code[pc].op \in {"OREQ", "ANDEQ", "NULLISHEQ"}
  /\ LET old == Value(1)
         keep == CASE code[pc].op = "OREQ" -> Truthy(old) [] code[pc].op = "ANDEQ" -> ~Truthy(old)
                   [] OTHER -> ~Nullish(old)
         v == IF keep THEN old ELSE Value(0)
     IN  Leave(IF IsRef(Target) THEN Store(data, Target, v) ELSE data,
               Append(Below(2), Val(v)), pc + 1)
  /\ Plain

\* handle_step, vm_step_op: what is no number stays, and stays on the stack.
Step ==
  /\ Running /\ code[pc].op \in {"PPLUS", "MMINUS", "PPLUS_PRE", "MMINUS_PRE"}
  /\ LET by == IF code[pc].op \in {"PPLUS", "PPLUS_PRE"} THEN 1 ELSE -1
         old == Value(0)
         got == MaybeCall(data, GetterOf(Top), Value(1), <<>>)
         Stepped(v) == IF v[1] = "num" THEN NumV(v[2] + by) ELSE v
         Shown(v) == IF code[pc].op \in {"PPLUS", "MMINUS"} THEN v ELSE Stepped(v)
     IN  IF IsAccessor(old)
         THEN StoreEnds(IF got.v[1] # "num" THEN got.d
                        ELSE MaybeCall(got.d, SetterOf(Top), Value(1), <<Stepped(got.v)>>).d,
                        Below(2), Shown(got.v))
         ELSE IF old[1] # "num" THEN Put(Append(Below(1), Val(old)))
         ELSE StoreEnds(IF IsRef(Top) THEN Store(data, Top, Stepped(old)) ELSE data,
                        Below(1), Shown(old))

-----------------------------------------------------------------------------
(* Calls.  The arguments are on top, those of a spread call in an array. *)
Returns(r, under) == Leave(r.d, Append(Below(under), Val(r.v)), pc + 1) /\ Plain
Args_ == Operands(code[pc].n)
N_ == code[pc].n
Spread == ItemsOf(data, Value(0))

\* find_func: in the literal being built, else a binding.
ByName ==
  LET inner == IF lits = <<>> THEN <<>> ELSE data.h[lits[Len(lits)]]
  IN  IF Arg \in DOMAIN inner /\ IsFn(inner[Arg]) THEN inner[Arg] ELSE data.v[Arg]
\* A method is looked up in its receiver when the arguments are there.
Method(o) == IF IsObj(o) THEN Member(data, o, Arg) ELSE Undef

HandleCall ==
  \/ IsAt("CALL") /\ Returns(CallValue(data, ByName, Undef, Args_), N_)
  \/ /\ IsAt("CALLO")
     /\ LET o == Value(N_)
            m == Method(o)
            got == Apply(data, m[2], o, <<>>)
        IN  Returns(IF IsAccessor(m) /\ m[2] # "" THEN CallValue(got.d, got.v, o, Args_)
                    ELSE CallValue(data, m, o, Args_), N_ + 1)
HandleCallX == IsAt("CALLX") /\ Returns(CallValue(data, Value(N_), Undef, Args_), N_ + 1)
HandleCallXO == IsAt("CALLXO") /\ Returns(CallValue(data, Value(N_), Value(N_ + 1), Args_), N_ + 2)
HandleCallSpread ==
  \/ IsAt("CALL_SPREAD") /\ Returns(CallValue(data, ByName, Undef, Spread), 1)
  \/ IsAt("CALLO_SPREAD") /\ Returns(CallValue(data, Method(Value(1)), Value(1), Spread), 2)
  \/ IsAt("CALLX_SPREAD") /\ Returns(CallValue(data, Value(1), Undef, Spread), 2)
  \/ IsAt("CALLXO_SPREAD") /\ Returns(CallValue(data, Value(1), Value(2), Spread), 3)

HandleNew == IsAt("NEW") /\ Returns(Construct(data, data.v[Arg], Args_), N_)
HandleNewX == IsAt("NEWX") /\ Returns(Construct(data, Value(N_), Args_), N_ + 1)
HandleNewSpread == IsAt("NEW_SPREAD") /\ Returns(Construct(data, data.v[Arg], Spread), 1)
HandleNewXSpread == IsAt("NEWX_SPREAD") /\ Returns(Construct(data, Value(1), Spread), 2)

-----------------------------------------------------------------------------
(* Literals. *)
Building == lits[Len(lits)]
Opens ==
  /\ IsAt("OBJ") \/ IsAt("ARRAY")
  /\ Leave(NewObj(data, <<>>), stack, pc + 1)
  /\ lits' = Append(lits, Len(data.h) + 1)
  /\ UNCHANGED <<code, cached>>
Closes ==
  /\ IsAt("OBJ_END") \/ IsAt("ARRAY_END")
  /\ Leave(data, Append(stack, Val(ObjV(Building))), pc + 1)
  /\ lits' = SubSeq(lits, 1, Len(lits) - 1)
  /\ UNCHANGED <<code, cached>>

Appended(d, id, v) == SetMember(d, id, ToString(Cardinality(DOMAIN d.h[id])), v)
RECURSIVE AppendedAll(_, _, _)
AppendedAll(d, id, vs) ==
  IF vs = <<>> THEN d ELSE AppendedAll(Appended(d, id, Head(vs)), id, Tail(vs))
HandleMember ==
  \/ IsAt("MEMBER") /\ Leave(Appended(data, Building, Value(0)), Below(1), pc + 1) /\ Plain
  \/ IsAt("MEMBERN") /\ Leave(SetMember(data, Building, Arg, Value(0)), Below(1), pc + 1) /\ Plain
  \/ /\ IsAt("MEMBERV")
     /\ Leave(SetMember(data, Building, AsText(Value(1)), Value(0)), Below(2), pc + 1)
     /\ Plain
Spreads ==
  \/ /\ IsAt("ARR_SPREAD")
     /\ Leave(AppendedAll(data, Building, ItemsOf(data, Value(0))), Below(1), pc + 1)
     /\ Plain
  \/ /\ IsAt("OBJ_SPREAD")
     /\ Leave(IF IsObj(Value(0)) THEN [data EXCEPT !.h[Building] = data.h[Value(0)[2]] @@ @] ELSE data,
              Below(1), pc + 1)
     /\ Plain

-----------------------------------------------------------------------------
Init ==
  /\ stmt \in Statements
  /\ round = 1
  /\ code = Compile(stmt.tokens)
  /\ pc = 1
  /\ stack = <<>>
  /\ lits = <<>>
  /\ cached = {}
  /\ data = stmt.worlds[1]

\* The statement is reached again, in other circumstances.
Finished == pc > Len(code) /\ ~data.thrown
Again ==
  /\ Finished /\ round < Len(stmt.worlds)
  /\ round' = round + 1
  /\ pc' = 1
  /\ data' = stmt.worlds[round + 1]
  /\ UNCHANGED <<stmt, code, stack, lits, cached>>

Next ==
  \/ Nil \/ Pop \/ Jmp \/ Njmp \/ Literal \/ LoadRef \/ LoadValue
  \/ Get \/ GetLA \/ GetW \/ WAnchor \/ WTarget \/ ArrayAt \/ ArrayAtW \/ ArrayAtM
  \/ Delete \/ DeleteAt \/ PrefixOp \/ HandleMath \/ HandleCompare \/ HandleNullish
  \/ HandleLogicSC \/ Asign \/ MathAssign \/ LogicAssign \/ Step
  \/ HandleCall \/ HandleCallX \/ HandleCallXO \/ HandleCallSpread
  \/ HandleNew \/ HandleNewX \/ HandleNewSpread \/ HandleNewXSpread
  \/ Opens \/ Closes \/ HandleMember \/ Spreads \/ Again

Spec == Init /\ [][Next]_vars
=============================================================================
