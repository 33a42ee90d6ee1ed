---------------------------- MODULE JSCompletion ---------------------------
(***************************************************************************)
(* What the control statements of the language promise, as completion      *)
(* records: a statement completes normally or abruptly (break, continue,   *)
(* return, throw), a finally body runs whichever way its try is left, and  *)
(* an abrupt finally replaces the completion it interrupts while a normal  *)
(* one restores it.  This is the abstract specification the compiler and   *)
(* the interpreter together implement; it knows nothing of scopes or of a  *)
(* pending slot.  Conditions come from the same tape as in VMRun.          *)
(***************************************************************************)
EXTENDS JSCompile

CONSTANT Undef

\* The state of an evaluation: the conditions left, what was shown, and how
\* the last statement completed. inputs: what is still to be handed to the
\* coroutine this is the body of, each [k : {"next", "throw"}, v].
Completion(t, v, l) == [t |-> t, v |-> v, l |-> l]
Normal == Completion("normal", Undef, NoLabel)
Begin(tape) == [tape |-> tape, log |-> <<>>, c |-> Normal, inputs |-> <<>>]

With(m, c) == [m EXCEPT !.c = c]
Showing(m, v) == [m EXCEPT !.log = Append(@, v)]
Condition(m) == m.tape # <<>> /\ Head(m.tape) = "T"
Tested(m) == [m EXCEPT !.tape = IF @ = <<>> THEN @ ELSE Tail(@)]

\* Exec(st, fn, L, m): st run from m, where the calls of st run the first of the
\* function bodies fn, whose own calls run the next one, and L are the labels
\* that directly wrap st.
RECURSIVE Exec(_, _, _, _)

\* Loop iterations. A continue that names this loop, or none, ends the
\* iteration; a break that names none ends the loop.
RECURSIVE Iterate(_, _, _, _)

Stays(c, L) == c.t = "normal" \/ (c.t = "continue" /\ c.l \in L \cup {NoLabel})
LoopResult(m) ==
  IF m.c.t = "break" /\ m.c.l = NoLabel THEN With(m, Normal) ELSE m

Body(st, fn, L, m) ==
  LET r == Exec(st.b, fn, {}, m)
      s == IF st.s = "for" THEN Showing(r, st.v) ELSE r
  IN  IF Stays(r.c, L) THEN Iterate(st, fn, L, With(s, Normal)) ELSE LoopResult(r)

Iterate(st, fn, L, m) ==
  IF Condition(m) THEN Body(st, fn, L, Tested(m)) ELSE Tested(m)

\* A call: the function's return value is shown, its error propagates.
Calling(fn, m) ==
  LET r == Exec(Head(fn), IF Len(fn) = 1 THEN fn ELSE Tail(fn), {}, m)
  IN  CASE r.c.t = "return" -> Showing(With(r, Normal), r.c.v)
        [] r.c.t = "normal" -> Showing(r, Undef)
        [] OTHER -> r

\* A yield, an await or a call of another coroutine gets the next input, or
\* is where the body stands when there is none.
Switched(st, m) ==
  LET in == Head(m.inputs)
      r == [m EXCEPT !.inputs = Tail(@)]
  IN  CASE st.k = "settle" -> IF st.u = None THEN m ELSE Showing(m, st.u.v)
        [] st.k # "settle" /\ m.inputs = <<>> -> With(m, Completion("suspend", st.v, NoLabel))
        [] st.k # "settle" /\ m.inputs # <<>> /\ in.k = "throw" ->
             With(r, Completion("throw", in.v, NoLabel))
        [] OTHER -> IF st.u = None THEN Showing(r, in.v) ELSE Showing(Showing(r, in.v), st.u.v)

\* try: the catch sees only a throw, the finally sees every completion.
Trying(st, fn, m) ==
  LET b == Exec(st.b, fn, {}, m)
      c == IF b.c.t = "throw" /\ st.c # None
           THEN Exec(st.c, fn, {}, With(Showing(b, b.c.v), Normal)) ELSE b
      f == Exec(st.f, fn, {}, With(c, Normal))
  IN  IF st.f = None \/ c.c.t = "suspend" THEN c
      ELSE IF f.c.t = "normal" THEN With(f, c.c) ELSE f

Exec(st, fn, L, m) ==
  CASE st.s \in {"skip", "none"} -> m
    [] st.s = "show" -> Showing(m, st.v)
    [] st.s \in {"throw", "fault", "native"} -> With(m, Completion("throw", st.v, NoLabel))
    [] st.s = "return" -> With(m, Completion("return", st.v, NoLabel))
    [] st.s = "return0" -> With(m, Completion("return", Undef, NoLabel))
    [] st.s \in {"break", "continue"} -> With(m, Completion(st.s, Undef, st.l))
    [] st.s \in {"call", "callback"} -> Calling(fn, m)
    [] st.s = "braces" -> Exec(st.b, fn, {}, m)
    [] st.s = "seq" -> LET a == Exec(st.a, fn, {}, m)
                       IN  IF a.c.t = "normal" THEN Exec(st.b, fn, {}, a) ELSE a
    [] st.s = "if" -> Exec(IF Condition(m) THEN st.b ELSE st.e, fn, {}, Tested(m))
    [] st.s = "switch" ->
         LET b == IF Condition(m) THEN Exec(st.b, fn, {}, Tested(m)) ELSE Tested(m)
         IN  LoopResult(IF b.c.t = "normal" THEN Exec(st.d, fn, {}, b) ELSE b)
    [] st.s = "label" ->
         LET b == Exec(st.b, fn, L \cup {st.l}, m)
         IN  IF b.c.t = "break" /\ b.c.l = st.l THEN With(b, Normal) ELSE b
    [] st.s = "do" -> Body(st, fn, L, m)
    [] st.s \in {"while", "for"} -> Iterate(st, fn, L, m)
    [] st.s = "try" -> Trying(st, fn, m)
    [] st.s = "co" -> Switched(st, m)

\* What a script shows, the report of an uncaught error included.
Meaning(main, f, g, conds) ==
  LET r == Exec(main, <<f, g>>, {}, Begin(conds))
  IN  IF r.c.t = "throw" THEN Append(r.log, r.c.v) ELSE r.log

\* The body of a coroutine that was handed inputs, up to where it stands.
Replayed(body, f, inputs) == Exec(body, <<f>>, {}, [Begin(<<>>) EXCEPT !.inputs = inputs])
=============================================================================
