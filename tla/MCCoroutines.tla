---------------------------- MODULE MCCoroutines ----------------------------
(***************************************************************************)
(* Instances of Coroutines.  A program is a script and the bodies of three *)
(* coroutines, given as a family and indices into its lists.               *)
(***************************************************************************)
EXTENDS Coroutines

CONSTANT Families

J == INSTANCE JSCompletion

Seq2(a, b) == J!Then(a, b)
Seq3(a, b, c) == J!Then(a, J!Then(b, c))
Seq4(a, b, c, d) == J!Then(a, Seq3(b, c, d))

\* The instructions that switch, and the statements around them.
Ins(op, to, arg) == [op |-> op, to |-> to, arg |-> arg]
Alone(k, code, v) == J!Switching(k, Append(code, J!I("SHOW")), v, J!None)
Over(k, code, v, u) ==
  J!Switching(k, <<J!V("PUSH", u)>> \o code \o <<J!I("SHOW"), J!I("SHOW")>>, v, J!Show(u))

Yields(v) == Alone("yield", <<J!V("PUSH", v), J!I("YIELD")>>, v)
YieldsOver(v, u) == Over("yield", <<J!V("PUSH", v), J!I("YIELD")>>, v, u)
Delegates(g) == Alone("star", <<Ins("YIELD_STAR", g, NoLabel)>>, "any")
Awaits(p) == Alone("await", <<Ins("AWAIT", p, NoLabel)>>, Undef)
AwaitsOver(p, u) == Over("await", <<Ins("AWAIT", p, NoLabel)>>, Undef, u)
Nexts(g, v) == Alone("resume", <<Ins("GEN_NEXT", g, v)>>, Undef)
NextsOver(g, v, u) == Over("resume", <<Ins("GEN_NEXT", g, v)>>, Undef, u)
Throws(g, v) == Alone("resume", <<Ins("GEN_THROW", g, v)>>, Undef)
Returns(g, v) == Alone("resume", <<Ins("GEN_RETURN", g, v)>>, Undef)
Starts(a) == Alone("start", <<Ins("CALL_ASYNC", a, NoLabel)>>, Undef)
Resolves(p, v) == J!Switching("settle", <<Ins("RESOLVE", p, v)>>, Undef, J!None)
ResolvesOver(p, v, u) ==
  J!Switching("settle", <<J!V("PUSH", u), Ins("RESOLVE", p, v), J!I("SHOW")>>, Undef, J!Show(u))
Rejects(p, v) == J!Switching("settle", <<Ins("REJECT", p, v)>>, Undef, J!None)

Catching(b, v) == J!Try(b, J!Show(v), J!None)
Finally(b, v) == J!Try(b, J!None, J!Show(v))

\* What a generator body may be.
GenBody(k) ==
  CASE k = 1 -> Seq3(Yields("a"), YieldsOver("b", "u"), J!ReturnV("c"))
    [] k = 2 -> Seq2(Catching(J!Then(Yields("a"), Yields("b")), "k"), Yields("c"))
    [] k = 3 -> Finally(J!Then(Yields("a"), J!ReturnV("b")), "f")
    [] k = 4 -> Seq2(Yields("a"), Seq2(Catching(J!Throw("t"), "k"), Yields("b")))
    [] k = 5 -> Seq3(Yields("a"), J!CallFn, J!Throw("t"))
    [] k = 6 -> Seq3(Yields("a"), Delegates(2), J!ReturnV("c"))
    [] k = 7 -> Seq2(Delegates(2), Catching(Delegates(2), "k"))
    [] k = 8 -> Catching(Seq2(Yields("a"), J!Throw("t")), "k")
    [] k = 10 -> J!Throw("t")
    [] k = 9 -> Seq2(Nexts(2, "s"), J!Then(Yields("a"), NextsOver(2, "s", "u")))

\* What the script does with its generators, three times over.
Use(k) ==
  CASE k = 1 -> Nexts(1, "s")
    [] k = 2 -> NextsOver(1, "s", "w")
    [] k = 3 -> Throws(1, "e")
    [] k = 4 -> Returns(1, "r")
    [] k = 5 -> Nexts(2, "s")
    [] k = 6 -> Catching(Nexts(1, "s"), "m")
    [] k = 7 -> J!CallFn
    [] k = 8 -> Catching(Throws(1, "e"), "m")

GenMain(p) == Seq4(Use(p[4]), Use(p[5]), Use(p[6]), J!Show("o"))

\* What an async body may be. Promises 4 and 5 are the host's.
AsyncBody(k) ==
  CASE k = 1 -> Seq2(Awaits(4), J!ReturnV("a"))
    [] k = 2 -> Seq3(Catching(Awaits(4), "k"), AwaitsOver(5, "u"), J!ReturnV("b"))
    [] k = 3 -> Seq2(Awaits(5), Catching(J!Throw("t"), "k"))
    [] k = 4 -> J!Throw("t")
    [] k = 5 -> Catching(Awaits(2), "k")
    [] k = 6 -> Seq2(Awaits(1), J!ReturnV("c"))
    [] k = 7 -> Seq2(Awaits(4), J!Throw("t"))
    [] k = 8 -> Finally(Awaits(4), "f")
    [] k = 9 -> Catching(Seq2(Awaits(4), J!Throw("t")), "k")
    [] k = 10 -> Seq2(Starts(2), Awaits(5))
    [] k = 11 -> Seq2(Awaits(4), Catching(J!Throw("t"), "k"))
    [] k = 12 -> ResolvesOver(4, "r", "u")

AsyncMain(k) ==
  CASE k = 1 -> Seq4(Starts(1), Starts(2), Starts(3), Resolves(4, "r"))
    [] k = 2 -> Seq4(Starts(3), Starts(2), Rejects(4, "e"), Starts(1))
    [] k = 3 -> Seq3(Starts(1), Starts(3), J!Show("o"))
    [] k = 4 -> Seq2(J!CallFn, J!Show("o"))

\* A program: <<"gen", body 1, body 2, use, use, use>> or
\* <<"async", body 1, body 2, body 3, script>>.
Kind(p) == p[1]
Body(p, c) ==
  CASE Kind(p) = "gen" -> IF c = 3 THEN J!Skip ELSE GenBody(p[c + 1])
    [] Kind(p) = "async" -> AsyncBody(p[c + 1])
Script(p) == IF Kind(p) = "gen" THEN GenMain(p) ELSE AsyncMain(p[5])

\* The function some of them call: it settles or resumes in its turn.
Callee(p) == IF Kind(p) = "gen" THEN J!Then(J!Show("g"), J!ReturnV("h"))
             ELSE Seq3(Starts(1), Resolves(4, "r"), J!ReturnV("h"))

\* The code of a script: a jump over the functions, each ending in a RETURN.
Laid(code, st) == code \o J!Compiled(st, Len(code) + 1, 2) \o <<J!I("RETURN")>>
Functions(p, n) ==
  LET upTo[i \in 0 .. n] ==
        IF i = 0 THEN Laid(<<J!I("NIL")>>, Callee(p)) ELSE Laid(upTo[i - 1], Body(p, i))
  IN  upTo[n]
MCEntry(p, c) == Len(Functions(p, c - 1)) + 1
MCCompile(p) ==
  LET fns == Functions(p, NCo)
  IN  [fns EXCEPT ![1] = J!J("JMP", Len(fns) + 1)]
      \o J!Compiled(Script(p), Len(fns) + 1, 2) \o <<J!I("END")>>
MCIsAsync(p, c) == Kind(p) = "async"
MCModes(p) == IF Kind(p) = "gen" THEN {TRUE} ELSE BOOLEAN
MCTapes == {<<>>}
MCDoneOf(v) == v \o "!"

\* The programs of each family. In `generators` no error is raised in a try
\* that a yield suspended in, and none while operands of the resuming script
\* wait below (README section 3.1); `ownTry` and `operands` have just these.
GenProgs(b1, b2, uses) ==
  {<<"gen", a, b, u, v, w>> : a \in b1, b \in b2, u \in uses, v \in uses, w \in uses}
AsyncProgs(b1, b2, b3, scripts) ==
  {<<"async", a, b, c, m>> : a \in b1, b \in b2, c \in b3, m \in scripts}
Family == [
  generators |-> GenProgs({1, 3, 5, 9}, {1}, {1, 2, 4, 5, 6, 7})
                 \cup GenProgs({2}, {1}, {1, 2, 3, 4, 8}) \cup GenProgs({4}, {1}, {1, 6, 7}),
  delegates |-> GenProgs({6, 7}, {1, 3}, {1, 2, 4, 5, 6}) \cup GenProgs({6, 7}, {5, 10}, {1, 6}),
  async |-> AsyncProgs({1, 2, 3, 5, 7}, {1, 2, 4, 6}, {2, 6}, {1, 2, 3, 4})
            \cup AsyncProgs({1, 3}, {8}, {1}, {1})
            \cup AsyncProgs({3, 11}, {12}, {1, 11}, {1})
            \cup AsyncProgs({10}, {1, 2, 6}, {2, 6}, {3, 4}),
  ownTry |-> AsyncProgs({8, 9}, {1}, {1}, {3}),
  operands |-> GenProgs({4}, {1}, {1, 2})]
MCProgs == UNION {Family[n] : n \in Families}
MCVals == {"a", "b", "c", "e", "f", "g", "h", "k", "m", "o", "r", "s", "t", "u", "w", "x"}

\* A body, whenever it is not running, has shown what an uninterrupted body
\* would have shown for the same inputs, and stands or has ended where that
\* body would: suspending and resuming it, on whatever stacks, changes nothing
\* (mario.c gen_suspend, gen_restore, async_detach, async_attach, the awaits
\* and yields of vm_run, and the throws into a parked body).
Agrees(c, l) ==
  \/ l.t = "suspend" /\ c.t = "suspend" /\ c.v \in {l.v, "any"}
  \/ l.t = "return" /\ c.t = "return" /\ c.v = l.v
  \/ l.t = "return" /\ c.t = "normal" /\ l.v = Undef
  \/ l.t = "throw" /\ c.t = "throw" /\ c.v = l.v
Standing(c) == IF c = 0 THEN frames = <<>>
               ELSE ~Inside(c) /\ last[c].t \in {"suspend", "return", "throw"}
ResumedAsLeft ==
  \A c \in {0} \cup Co : Standing(c) =>
    LET r == J!Replayed(IF c = 0 THEN Script(prog) ELSE Body(prog, c), Callee(prog), got[c])
    IN  /\ trace[c] = r.log
        /\ c # 0 => Agrees(r.c, last[c])
=============================================================================
