----------------------------- MODULE JSCompile -----------------------------
(***************************************************************************)
(* The statement compiler, lang/js/compiler.c: how each control statement  *)
(* is laid out as bytecode.  The VM finds a scope's anchors by position    *)
(* (LOOP + 2 is the continue slot, LOOP + 3 the break slot, TRY + 2 the    *)
(* catch slot), so the layout is the contract between compiler and VM.     *)
(*                                                                         *)
(* A statement is a record; `s` names its form.  Jump operands are         *)
(* absolute targets here; bc_set_instr encodes them as distances.          *)
(***************************************************************************)
EXTENDS Naturals, Sequences

CONSTANTS NoLabel

\* Statements. A condition is abstract: the run takes it from its tape.
Show(v) == [s |-> "show", v |-> v]                \* f(v);
Throw(v) == [s |-> "throw", v |-> v]              \* throw v;
Fault(v) == [s |-> "fault", v |-> v]              \* an instruction that raises
NativeFault(v) == [s |-> "native", v |-> v]       \* a native call that raises
ReturnV(v) == [s |-> "return", v |-> v]           \* return v;
ReturnVoid == [s |-> "return0"]                   \* return;
CallFn == [s |-> "call"]                          \* show(fn());
CallBack == [s |-> "callback"]                    \* show(native(fn));
BreakTo(l) == [s |-> "break", l |-> l]
ContinueTo(l) == [s |-> "continue", l |-> l]
While(b) == [s |-> "while", b |-> b]
DoWhile(b) == [s |-> "do", b |-> b]
For(v, b) == [s |-> "for", v |-> v, b |-> b]      \* for(; cond; show(v)) b
If(b, e) == [s |-> "if", b |-> b, e |-> e]
Switch(b, d) == [s |-> "switch", b |-> b, d |-> d] \* one case, and a default
Labeled(l, b) == [s |-> "label", l |-> l, b |-> b]
Then(a, b) == [s |-> "seq", a |-> a, b |-> b]
Skip == [s |-> "skip"]
Braces(b) == [s |-> "braces", b |-> b]            \* { b }
None == [s |-> "none"]                            \* no catch, no finally
Try(b, c, f) == [s |-> "try", b |-> b, c |-> c, f |-> f]

\* A statement made of one instruction that starts, suspends or resumes a
\* coroutine: show(k), or show(u + k) with an operand u waiting underneath.
Switching(k, code, v, u) == [s |-> "co", k |-> k, code |-> code, v |-> v, u |-> u]

I(op) == [op |-> op, to |-> 0, arg |-> NoLabel]
J(op, to) == [op |-> op, to |-> to, arg |-> NoLabel]
V(op, arg) == [op |-> op, to |-> 0, arg |-> arg]

\* Compiled(st, p, fn): the code of st placed at p, where a call calls the
\* function that starts at fn.
RECURSIVE Compiled(_, _, _)

\* stmt_while: the condition sits after the anchors, the body in a block.
WhileCode(st, p, fn) ==
  LET body == Compiled(st.b, p + 7, fn)
      end == p + 9 + Len(body)
  IN  <<I("LOOP"), I("NIL"), J("JMP", p + 4), J("JMP", end), I("COND"),
        J("NJMPB", p + 3), I("BLOCK")>>
      \o body
      \o <<I("BLOCK_END"), J("JMPB", p + 2), I("BLOCK_END")>>

\* stmt_do: the body first; continue goes to the condition.
DoCode(st, p, fn) ==
  LET body == Compiled(st.b, p + 5, fn)
      cond == p + 6 + Len(body)
  IN  <<I("LOOP"), J("JMP", p + 4), J("JMP", cond), J("JMP", cond + 3), I("BLOCK")>>
      \o body
      \o <<I("BLOCK_END"), I("COND"), J("NJMPB", p + 3), J("JMPB", p + 4),
           I("BLOCK_END")>>

\* stmt_for without an initialiser: the step precedes the body and is where
\* continue goes.
ForCode(st, p, fn) ==
  LET body == Compiled(st.b, p + 11, fn)
      end == p + 13 + Len(body)
  IN  <<I("LOOP"), J("JMP", p + 4), J("JMP", p + 7), J("JMP", end), I("COND"),
        J("NJMPB", p + 3), J("JMP", p + 10), V("PUSH", st.v), I("SHOW"),
        J("JMPB", p + 4), I("BLOCK")>>
      \o body
      \o <<I("BLOCK_END"), J("JMPB", p + 7), I("BLOCK_END")>>

\* stmt_if, with an else.
IfCode(st, p, fn) ==
  LET then == Compiled(st.b, p + 2, fn)
      else == Compiled(st.e, p + 3 + Len(then), fn)
      end == p + 3 + Len(then) + Len(else)
  IN  <<I("COND"), J("NJMP", p + 3 + Len(then))>> \o then
      \o <<J("JMP", end)>> \o else

\* stmt_switch with one case and a default: the tests, then the bodies, which
\* fall through into each other.
SwitchCode(st, p, fn) ==
  LET case == Compiled(st.b, p + 7, fn)
      dflt == Compiled(st.d, p + 7 + Len(case), fn)
      end == p + 7 + Len(case) + Len(dflt)
  IN  <<I("SWITCH"), J("JMP", p + 3), J("JMP", end), I("COND"),
        J("NJMP", p + 6), J("JMP", p + 7), J("JMP", p + 7 + Len(case))>>
      \o case \o dflt \o <<I("BLOCK_END")>>

\* stmt_label.
LabelCode(st, p, fn) ==
  LET body == Compiled(st.b, p + 3, fn)
  IN  <<V("LABEL", st.l), J("JMP", p + 3), J("JMP", p + 3 + Len(body))>>
      \o body \o <<I("BLOCK_END")>>

\* stmt_try: without a catch the TRY is demoted to a BLOCK; a finally is
\* emitted after the scope's end and its start patched into the opener.
TryCode(st, p, fn) ==
  LET body == Compiled(st.b, p + 3, fn)
      hdl == p + 4 + Len(body)
      catch == IF st.c = None THEN <<>>
               ELSE <<I("CATCH")>> \o Compiled(st.c, hdl + 1, fn)
      end == hdl + Len(catch)
      final == IF st.f = None THEN <<>>
               ELSE Compiled(st.f, end + 1, fn) \o <<I("FINALLY_END")>>
  IN  <<J(IF st.c = None THEN "BLOCK" ELSE "TRY",
          IF st.f = None THEN 0 ELSE end + 1),
        J("JMP", p + 3),
        IF st.c = None THEN I("NIL") ELSE J("JMP", hdl)>>
      \o body \o <<J("JMP", end)>> \o catch \o <<I("BLOCK_END")>> \o final

Compiled(st, p, fn) ==
  CASE st.s = "show" -> <<V("PUSH", st.v), I("SHOW")>>
    [] st.s = "throw" -> <<V("PUSH", st.v), I("THROW")>>
    [] st.s = "fault" -> <<V("VM_THROW", st.v)>>
    [] st.s = "native" -> <<V("NATIVE_THROW", st.v), I("SHOW")>>
    [] st.s = "return" -> <<V("PUSH", st.v), I("RETURNV")>>
    [] st.s = "return0" -> <<I("RETURN")>>
    [] st.s = "call" -> <<J("CALL", fn), I("SHOW")>>
    [] st.s = "callback" -> <<J("CALL_NATIVE", fn), I("SHOW")>>
    [] st.s = "break" -> <<V("BREAK", st.l)>>
    [] st.s = "continue" -> <<V("CONTINUE", st.l)>>
    [] st.s = "skip" -> <<>>
    [] st.s = "seq" -> LET a == Compiled(st.a, p, fn)
                       IN  a \o Compiled(st.b, p + Len(a), fn)
    [] st.s = "braces" -> <<I("BLOCK")>> \o Compiled(st.b, p + 1, fn)
                          \o <<I("BLOCK_END")>>
    [] st.s = "while" -> WhileCode(st, p, fn)
    [] st.s = "do" -> DoCode(st, p, fn)
    [] st.s = "for" -> ForCode(st, p, fn)
    [] st.s = "if" -> IfCode(st, p, fn)
    [] st.s = "switch" -> SwitchCode(st, p, fn)
    [] st.s = "label" -> LabelCode(st, p, fn)
    [] st.s = "try" -> TryCode(st, p, fn)
    [] st.s = "co" -> st.code

\* A script `main` that declares f and g: their code is skipped by the JMP of
\* the header and ends in a RETURN. main calls f, f calls g, g calls itself.
ProgramCode(main, f, g) ==
  LET gcode == Compiled(g, 2, 2) \o <<I("RETURN")>>
      fpc == 2 + Len(gcode)
      fcode == Compiled(f, fpc, 2) \o <<I("RETURN")>>
      start == fpc + Len(fcode)
  IN  <<J("JMP", start)>> \o gcode \o fcode
      \o Compiled(main, start, fpc) \o <<I("END")>>
=============================================================================
