------------------------------- MODULE Layout -------------------------------
(***************************************************************************)
(* The contract between the compiler and vm_run: how code has to be laid   *)
(* out for the interpreter to find its way, and what the interpreter then  *)
(* keeps.  WellLaidOut is what compiler.c emits for statements (JSCompile  *)
(* is its model, and every program of MCVMRun is checked to be laid out    *)
(* so); KeepsClear and JumpsLand leave out the programs of README section  *)
(* 3.1, for which the interpreter does not keep its promises.              *)
(*                                                                         *)
(* KeepsPlace is the invariant that every step keeps for such programs: in *)
(* every activation the scopes and operands are those of the place in the  *)
(* code where it runs, or where it will go on when its callee is done.     *)
(***************************************************************************)
EXTENDS VMRun

OpAt(p, i) == Code[p][i].op
ToAt(p, i) == Code[p][i].to

\* The openers around an instruction.
Path(p, i) == ScopePath(p, i)

\* The code of the declared functions, which the header jumps over.
Functions(p) == 2 .. ToAt(p, 1) - 1

\* The instruction i lies where a throw goes to the catch of the try o: after
\* the opener and before the handler, the catch anchor apart.
Guards(p, o, i) == OpAt(p, o) = "TRY" /\ i < ToAt(p, o + 2) /\ i # o + 2

\* The end of a scope, reached from the body as well as from the handler.
Closing(p, i, k) == OpAt(p, i) = "BLOCK_END" /\ k = Len(Path(p, i))

\* The operands below a statement's expression: none, or the one that the
\* instruction consumes. A handler finds the error on the stack.
TakesOne == {"NJMP", "NJMPB", "SHOW", "RETURNV", "THROW", "CATCH"}
LeavesOne == {"PUSH", "COND", "CALL", "CALL_NATIVE", "NATIVE_THROW"}
Height(p, i) ==
  IF OpAt(p, i) \in TakesOne \/ (i > 2 /\ OpAt(p, i - 2) = "TRY") THEN 1 ELSE 0

\* Control may go from i to j: both belong to the same function or to none,
\* and the scopes around both are guarded at j if they were at i.
Joined(p, i, j) ==
  /\ j \in DOMAIN Code[p]
  /\ j \in Functions(p) <=> i \in Functions(p)
  /\ \A k \in DOMAIN Path(p, i) \cap DOMAIN Path(p, j) :
       ~Closing(p, j, k) => LET o == Path(p, i)[k]
                            IN  Guards(p, o, i) <=> Guards(p, o, j)

\* The openers a back edge keeps: up to the innermost loop.
ToLoop(p, path) ==
  SubSeq(path, 1, Innermost({k \in DOMAIN path : OpAt(p, path[k]) = "LOOP"}))

\* Where the handlers of a scope send control: its break, continue and catch
\* anchors.
Anchors(p, o) ==
  CASE OpAt(p, o) = "LOOP" -> {o + 2, o + 3}
    [] OpAt(p, o) = "BLOCK" -> {}
    [] OTHER -> {o + 2}

Jumps == {"JMP", "NJMP", "JMPB", "NJMPB"}
Leaps == {"JMP", "JMPB", "BREAK", "CONTINUE", "RETURN", "RETURNV", "END"}

\* What an instruction may rely on where it sends control.
FlowsOn(p, i) ==
  LET op == OpAt(p, i) to == ToAt(p, i) path == Path(p, i)
  IN  /\ op \notin Leaps =>
           /\ Joined(p, i, i + 1)
           /\ op \notin {"THROW", "VM_THROW"} =>
                Height(p, i + 1) = IF op \in LeavesOne THEN 1 ELSE 0
      /\ op \in Jumps => Joined(p, i, to)
      /\ op \in {"JMP", "NJMP"} =>
           /\ Path(p, to) = path
           /\ Height(p, to) = IF op = "JMP" THEN Height(p, i) ELSE 0
      /\ op \in {"JMPB", "NJMPB"} =>
           Path(p, to) = ToLoop(p, path) /\ Height(p, to) = 0
      /\ op \in {"CALL", "CALL_NATIVE"} =>
           /\ to \in Functions(p) \cap DOMAIN Code[p]
           /\ Path(p, to) = <<>> /\ Height(p, to) = 0
      /\ op = "BLOCK_END" => path # <<>>
      /\ op = "END" => i \notin Functions(p)

\* What a scope's opener promises about its anchors and its finally.
Anchored(p, o) ==
  /\ \A a \in Anchors(p, o) :
       /\ Joined(p, o, a)
       /\ Path(p, a) = Append(Path(p, o), o)
       /\ Height(p, a) = IF OpAt(p, o) = "TRY" THEN 1 ELSE 0
  /\ OpAt(p, o) = "TRY" => OpAt(p, o + 2) = "JMP" /\ ToAt(p, o + 2) > o + 2
  /\ OwnsFinally(Code[p][o]) =>
       /\ Joined(p, o, ToAt(p, o))
       /\ Path(p, ToAt(p, o)) = Path(p, o)
       /\ Height(p, ToAt(p, o)) = 0

\* The scopes around i are nested in one function, and each lies as a whole in
\* the guarded part of the tries around it, or out of it.
Nested(p, i) ==
  LET path == Path(p, i)
  IN  \A b \in DOMAIN path :
        /\ path[b] \in Functions(p) <=> i \in Functions(p)
        /\ \A a \in 1 .. b - 1 : Guards(p, path[a], i) <=> Guards(p, path[a], path[b])

\* Only its FINALLY_END and what leaves the statement leads out of a finally.
Closed(p, f) ==
  LET B == FinallyBodies[p][f] around == Path(p, f)
  IN  /\ f \in B
      /\ B \subseteq DOMAIN Code[p]
      /\ \A i \in B :
           /\ Len(around) <= Len(Path(p, i))
           /\ SubSeq(Path(p, i), 1, Len(around)) = around
           /\ OpAt(p, i) \notin Leaps \cup {"FINALLY_END"} => i + 1 \in B
           /\ OpAt(p, i) \in Jumps => ToAt(p, i) \in B
      /\ \A k \in DOMAIN around : Anchors(p, around[k]) \cap B = {}

WellLaidOut(p) ==
  /\ 1 \in DOMAIN Code[p] /\ Height(p, 1) = 0
  /\ \A i \in DOMAIN Code[p] :
       /\ FlowsOn(p, i)
       /\ OpAt(p, i) \in Openers => Anchored(p, i)
       /\ Nested(p, i)
  /\ \A f \in DOMAIN FinallyBodies[p] : Closed(p, f)

----------------------------------------------------------------------------
(* The programs of section 3.1. *)

IsTarget(p, o, label) ==
  IF label = NoLabel THEN OpAt(p, o) \in {"LOOP", "SWITCH"}
                     ELSE OpAt(p, o) = "LABEL" /\ Code[p][o].arg = label

\* A break or continue finds its statement among the scopes of a path.
BreakLands(p, path, label) == \E k \in DOMAIN path : IsTarget(p, path[k], label)
ContinueLands(p, path, label) ==
  IF label = NoLabel
  THEN \E k \in DOMAIN path : OpAt(p, path[k]) = "LOOP"
  ELSE /\ BreakLands(p, path, label)
       /\ \A k \in DOMAIN path : IsTarget(p, path[k], label) =>
            k + 1 \in DOMAIN path /\ OpAt(p, path[k + 1]) = "LOOP"
JumpsLand(p) ==
  \A i \in DOMAIN Code[p] :
    /\ OpAt(p, i) = "BREAK" => BreakLands(p, Path(p, i), Code[p][i].arg)
    /\ OpAt(p, i) = "CONTINUE" => ContinueLands(p, Path(p, i), Code[p][i].arg)

\* No finally lies where the same function catches past it.
FinallyUncaught(p) ==
  \A i \in DOMAIN Code[p] :
    LET path == Path(p, i)
    IN  \A b \in DOMAIN path : \A a \in 1 .. b - 1 :
          OwnsFinally(Code[p][path[b]]) => ~Guards(p, path[a], i)

\* The loop at k is the one that a continue with this label restarts.
IsRestarted(p, path, k, label) ==
  /\ OpAt(p, path[k]) = "LOOP"
  /\ label = NoLabel \/ (k > 1 /\ IsTarget(p, path[k - 1], label))

\* A finally body has no try of its own, is not where its function catches,
\* and breaks out of or continues no statement of its own.
FinallyPlain(p) ==
  \A f \in DOMAIN FinallyBodies[p] : \A i \in FinallyBodies[p][f] :
    LET path == Path(p, i)
    IN  /\ OpAt(p, i) # "TRY" /\ ~OwnsFinally(Code[p][i])
        /\ \A k \in DOMAIN path : ~Guards(p, path[k], i)
        /\ OpAt(p, i) = "BLOCK_END" => OpAt(p, path[Len(path)]) # "TRY"
        /\ OpAt(p, i) = "FINALLY_END" => path = Path(p, f)
        /\ \A k \in Len(Path(p, f)) + 1 .. Len(path) :
             /\ OpAt(p, i) = "BREAK" => ~IsTarget(p, path[k], Code[p][i].arg)
             /\ OpAt(p, i) = "CONTINUE" => ~IsRestarted(p, path, k, Code[p][i].arg)

KeepsClear(p) == FinallyUncaught(p) /\ FinallyPlain(p) /\ JumpsLand(p)

----------------------------------------------------------------------------
(* The invariant. *)

\* The scope that the opener o leaves on the scope stack.
Placed(p, o, armed, base) ==
  [kind  |-> CASE OpAt(p, o) = "BLOCK" -> "block" [] OpAt(p, o) = "LOOP" -> "loop"
               [] OpAt(p, o) = "TRY" -> "try" [] OpAt(p, o) = "SWITCH" -> "switch"
               [] OpAt(p, o) = "LABEL" -> "label",
   armed |-> armed,
   fin   |-> IF OpAt(p, o) \in {"TRY", "BLOCK"} THEN ToAt(p, o) ELSE 0,
   pc    |-> CASE OpAt(p, o) = "LOOP" -> o + 3 [] OpAt(p, o) = "BLOCK" -> 0
               [] OTHER -> o + 2,
   start |-> IF OpAt(p, o) = "LOOP" THEN o + 2 ELSE 0,
   label |-> IF OpAt(p, o) = "LABEL" THEN Code[p][o].arg ELSE NoLabel,
   base  |-> base]

\* On the scopes S, run fr has open what surrounds i, and a try is armed just
\* where it guards.
Lies(p, S, fr, i) ==
  \A k \in DOMAIN Path(p, i) :
    LET o == Path(p, i)[k]
        s == S[fr.scopeBase + k]
    IN  /\ s = Placed(p, o, s.armed, fr.stackBase)
        /\ s.armed => OpAt(p, o) = "TRY"
        /\ OpAt(p, o) = "TRY" /\ ~Closing(p, i, k) => (s.armed <=> Guards(p, o, i))

\* A transfer parked at i: i is in the finally body it waits for, and where
\* that body ends it finds what it was on its way to.
Waits(p, t, i) ==
  t.op # "NONE" =>
    /\ t.for \in DOMAIN FinallyBodies[p]
    /\ i \in FinallyBodies[p][t.for]
    /\ t.op = "BREAK" => BreakLands(p, Path(p, t.for), t.label)
    /\ t.op = "CONTINUE" => ContinueLands(p, Path(p, t.for), t.label)

\* The activations, S being the scope stack: each lower one stands at the call
\* it made, with nothing on the stacks but what belongs there.
FuncPlaced(fr) ==
  [kind |-> "func", armed |-> FALSE, fin |-> 0, pc |-> fr.resume, start |-> 0,
   label |-> NoLabel, base |-> fr.stackBase]
InFunction(S, F, m) == m > 1 => S[F[m].scopeBase] = FuncPlaced(F[m])
Calls(p, S, F, m) ==
  LET at == F[m + 1].resume
  IN  /\ at \in DOMAIN Code[p] /\ Height(p, at) = 1
      /\ at \in Functions(p) \/ m = 1
      /\ F[m + 1].scopeBase = F[m].scopeBase + Len(Path(p, at)) + 1
      /\ F[m + 1].stackBase = F[m].stackBase + (IF F[m + 1].via = "native" THEN 2 ELSE 1)
      /\ InFunction(S, F, m)
      /\ Lies(p, S, F[m], at)
      /\ Waits(p, F[m + 1].saved, at)
Activations(p, S, F) ==
  /\ F[1].scopeBase = 0 /\ F[1].stackBase = 0
  /\ \A m, n \in 1 .. Len(F) : m <= n => F[m].scopeBase <= F[n].scopeBase
  /\ \A m \in 1 .. Len(F) - 1 : Calls(p, S, F, m)

\* The running activation, at i.
Runs(p, S, F, i, t) ==
  LET fr == F[Len(F)]
  IN  /\ i \in DOMAIN Code[p]
      /\ i \in Functions(p) \/ Len(F) = 1
      /\ InFunction(S, F, Len(F))
      /\ Len(S) = fr.scopeBase + Len(Path(p, i))
      /\ Lies(p, S, fr, i)
      /\ Waits(p, t, i)

\* The running activation is leaving: by a return it is back at its call, by an
\* error it still has its function's scope.
Leaves(S, F, i) ==
  Len(F) > 1 =>
    LET fr == F[Len(F)]
    IN  \/ /\ leave = "returned" /\ ~abort
           /\ Len(S) = fr.scopeBase - 1
           /\ i = fr.resume
        \/ /\ leave = "out" /\ abort
           /\ Len(S) >= fr.scopeBase

InPlace ==
  /\ Activations(prog, scopes, frames)
  /\ leave = "no" =>
       /\ Runs(prog, scopes, frames, pc, pend)
       /\ IF abort THEN Len(stack) >= Frame.stackBase
                   ELSE Len(stack) = Frame.stackBase + Height(prog, pc)
  /\ leave # "no" =>
       /\ Leaves(scopes, frames, pc)
       /\ Len(stack) >= Frame.stackBase

\* A run that was terminated is past the end of the code, with nothing to
\* deliver.
KeepsPlace ==
  /\ pc = EndPc => ~abort
  /\ pc # EndPc /\ frames # <<>> => InPlace

\* The programs the theorems are about.
LaidClear == WellLaidOut(prog) /\ KeepsClear(prog)
=============================================================================
