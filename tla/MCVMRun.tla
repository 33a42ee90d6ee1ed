------------------------------- MODULE MCVMRun ------------------------------
(***************************************************************************)
(* Instances of VMRun on compiled programs.  A program is a tuple of small *)
(* numbers: a loop form, a try shape and three leaves for its parts, then  *)
(* the body of the function it calls and the way the script calls it.  A   *)
(* family is a product of ranges for these; a run takes some families.     *)
(***************************************************************************)
EXTENDS Layout

CONSTANT Families

J == INSTANCE JSCompletion

Seq3(a, b, c) == J!Then(a, J!Then(b, c))

\* What a part of a try may do; v tells the parts apart.
Leaf(k, v) ==
  CASE k = 1 -> J!Show(v)
    [] k = 2 -> J!Throw(v)
    [] k = 3 -> J!Fault(v)
    [] k = 4 -> J!NativeFault(v)
    [] k = 5 -> J!ReturnV(v)
    [] k = 6 -> J!BreakTo(NoLabel)
    [] k = 7 -> J!ContinueTo(NoLabel)
    [] k = 8 -> J!CallFn
    [] k = 9 -> J!CallBack
    [] k = 10 -> J!BreakTo("L")
    [] k = 11 -> J!ContinueTo("L")
    [] k = 12 -> J!If(J!Throw(v), J!Show(v))
    [] k = 13 -> J!ReturnVoid

\* Shapes 1-6 keep clear of what README section 3.1 lists: no finally under a
\* try of the same function that catches, and no loop or try in a finally body.
Shape(k, b, c, d) ==
  CASE k = 1 -> J!Try(J!Braces(b), c, d)
    [] k = 2 -> J!Try(b, c, J!None)
    [] k = 3 -> J!Try(J!Try(b, J!None, J!Braces(c)), J!None, d)
    [] k = 4 -> J!Try(b, J!Try(J!Braces(c), J!None, d), J!None)
    [] k = 5 -> J!Try(J!Switch(b, c), J!None, J!Then(d, J!Show("w")))
    [] k = 6 -> J!Try(J!Try(b, c, J!None), J!None, d)

LoopOf(k, body) ==
  CASE k = 1 -> J!For("s", body)
    [] k = 2 -> J!While(body)
    [] k = 3 -> J!DoWhile(body)
    [] k = 4 -> J!For("s", J!Switch(body, J!Show("w")))
    [] k = 5 -> body

Fn(p) ==
  J!Then(J!Labeled("L", LoopOf(p[1],
           J!Then(Shape(p[2], Leaf(p[3], "b"), Leaf(p[4], "c"), Leaf(p[5], "d")),
                  J!Show("x")))),
         J!ReturnV("y"))

Callee(p) == Leaf(p[6], "g")

\* The script calls f plainly, or under a catch and a finally, or in a loop.
Main(p) ==
  CASE p[7] = 1 -> J!CallFn
    [] p[7] = 2 -> J!Then(J!Try(J!CallFn, J!Show("m"), J!Show("n")), J!Show("o"))
    [] p[7] = 3 -> J!While(J!Try(J!CallBack, J!None, J!Show("n")))

Family == [
  finally |-> [loops |-> {3}, shapes |-> {1, 2, 6}, leaves |-> {2, 5, 7, 8, 12, 13},
               callees |-> {2}, mains |-> {2}],
  nested |-> [loops |-> {2}, shapes |-> {3, 4, 5}, leaves |-> {1, 2, 5, 6, 10, 11},
              callees |-> {5}, mains |-> {1}],
  calls |-> [loops |-> {4}, shapes |-> {1, 3}, leaves |-> {3, 4, 8, 9},
             callees |-> {2, 3, 4, 5}, mains |-> {3}],
  recursion |-> [loops |-> {1, 5}, shapes |-> {1, 3}, leaves |-> {6, 7, 8},
                callees |-> {8, 9}, mains |-> {1}]]

\* A part the shape does not use, and the body of a function that is never
\* called, are not varied.
Members(f) ==
  {p \in {<<l, s, a, b, c, g, m>> : l \in f.loops, s \in f.shapes, a \in f.leaves,
            b \in f.leaves, c \in f.leaves, g \in f.callees, m \in f.mains} :
     /\ p[2] = 2 => p[5] = p[4]
     /\ {p[3], p[4], p[5]} \cap {8, 9} = {} => \A g \in f.callees : p[6] <= g}
MCProgs == UNION {Members(Family[n]) : n \in Families}
MCCompile(p) == J!ProgramCode(Main(p), Fn(p), Callee(p))
MCTapes == {<<"T", "F", "T">>, <<"T", "T", "F", "T", "T">>}
MCVals == {"b", "c", "d", "g", "m", "n", "o", "s", "w", "x", "y"}

\* The compiler lays its programs out as the interpreter needs it, and these
\* shapes keep clear of section 3.1; only without a loop (form 5) may a break
\* or continue have nothing to land at.
ASSUME LaidOut == \A p \in Progs : WellLaidOut(p)
ASSUME KeptClear == \A p \in Progs : FinallyUncaught(p) /\ FinallyPlain(p)
ASSUME Landing == \A p \in Progs : p[1] # 5 => JumpsLand(p)

Meaning == J!Meaning(Main(prog), Fn(prog), Callee(prog), tape)

\* A callee that calls itself runs into the depth limit, which the language
\* does not have.
Runaway == Callee(prog) \in {J!CallFn, J!CallBack}

\* Where every break and continue has a target, each activation has on the
\* stacks what the code around its place calls for, the running one as well as
\* those that wait for a callee, and a parked transfer is in the finally body
\* it waits for (mario.c vm_run, func_call, the transfers).
PlaceKept == KeepsClear(prog) => KeepsPlace

\* The interpreter shows exactly what the completion semantics of the language
\* gives the program: every finally runs once, inner to outer, the right
\* handler sees the right value, and the right completion survives
\* (compiler.c stmt_try and the loops, mario.c vm_run and the transfers).
ShowsItsMeaning == Done /\ ~ Runaway => log = Meaning
=============================================================================
