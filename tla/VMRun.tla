------------------------------- MODULE VMRun -------------------------------
(***************************************************************************)
(* The control core of the interpreter, mario/mario.c: the dispatch loop   *)
(* vm_run, the scope stack, and the non-local transfers (break, continue,  *)
(* return, throw) with the `finally` bodies they have to run on the way    *)
(* out.  A transfer that leaves a try with a finally is parked in the      *)
(* vm's single pending slot and resumed by the FINALLY_END instruction.    *)
(*                                                                         *)
(* A script call is a C call of vm_run: `frames` is the C stack of vm_run  *)
(* activations, each with the scope and value-stack baselines it may not   *)
(* unwind below, and with the pending slot it saved on entry.              *)
(*                                                                         *)
(* Expressions are abstracted to what control needs: COND pushes a         *)
(* condition read off `tape`, PUSH a value, SHOW consumes a value and    *)
(* makes it observable in `log`.                                           *)
(***************************************************************************)
EXTENDS Naturals, Sequences, FiniteSets

CONSTANTS
  Progs,          \* the programs
  Compile(_),     \* the bytecode of a program, a sequence of instructions
  Tapes,          \* finite sequences of condition values
  Vals,           \* script values, the thrown and returned ones included
  Labels,         \* statement labels; NoLabel is not one
  NoLabel,        \* the operand of an unlabeled break or continue
  NoVal,          \* the NULL pointer where a value may be missing
  Undef,          \* the undefined value
  Env,            \* the slot func_call pushes to root a call's environment
  MaxCallDepth    \* MARIO_MAX_CALL_DEPTH

Ops == {"NIL", "JMP", "JMPB", "NJMP", "NJMPB", "COND", "PUSH", "SHOW",
        "BLOCK", "LOOP", "TRY", "SWITCH", "LABEL", "BLOCK_END",
        "BREAK", "CONTINUE", "RETURN", "RETURNV", "THROW", "CATCH",
        "FINALLY_END", "CALL", "CALL_NATIVE", "NATIVE_THROW", "VM_THROW",
        "END"}
       \* of Coroutines, which extends this module:
       \cup {"YIELD", "YIELD_STAR", "GEN_NEXT", "GEN_THROW", "GEN_RETURN",
             "CALL_ASYNC", "AWAIT", "RESOLVE", "REJECT"}

\* Conditions are the values "T" and "F"; every other value is truthy.
Slots == Vals \cup {"T", "F", Undef, Env}

\* to: the jump target, function entry or finally start; 0 is OFF_MASK.
Instr == [op : Ops, to : Nat, arg : Slots \cup Labels \cup {NoLabel}]

\* The loaded code, vm->bc.code_buf.
Code == [p \in Progs |-> Compile(p)]

ASSUME ProgAssumption ==
  /\ Code \in [Progs -> Seq(Instr)]
  /\ Tapes \subseteq Seq({"T", "F"})
  /\ MaxCallDepth \in Nat
  /\ NoVal \notin Slots

ASSUME OperandAssumption ==
  \A p \in Progs : \A i \in DOMAIN Code[p] :
    /\ Code[p][i].op \in {"PUSH", "VM_THROW", "NATIVE_THROW"} =>
         Code[p][i].arg \in Vals
    /\ Code[p][i].op \in {"BREAK", "CONTINUE"} =>
         Code[p][i].arg \in Labels \cup {NoLabel}
    /\ Code[p][i].op = "LABEL" => Code[p][i].arg \in Labels

\* An operator named X_Y is X with the fault Y; no specification uses it.

VARIABLES
  prog,           \* the program being run
  tape, used,     \* the values its conditions take, and how many are used up
  pc,             \* vm->pc, from 1
  scopes,         \* vm->scope_stack, the innermost scope last
  stack,          \* vm->stack, the value stack
  frames,         \* the vm_run activations, the running one last
  pend,           \* vm->pending_op / _value / _label
  abort, err,     \* vm->abort_run, vm->propagating_err
  leave,          \* how the running vm_run leaves its loop: "no" while it runs
  log             \* what the program has shown so far

vars == <<prog, tape, used, pc, scopes, stack, frames, pend, abort, err, leave, log>>

----------------------------------------------------------------------------
(* State records. *)

ScopeKinds == {"func", "block", "loop", "try", "switch", "label"}

\* armed is is_try, which a catch consumes; fin is pc_finally, 0 when the
\* scope owns none; pc is the catch or break anchor or the return address;
\* start is pc_start; base is stack_top.
Scope == [kind : ScopeKinds, armed : BOOLEAN, fin : Nat, pc : Nat,
          start : Nat, label : Labels \cup {NoLabel}, base : Nat]

\* for: the pc_finally of the scope the transfer was parked for. The code
\* does not keep it; only the properties read it.
Transfer == [op : {"NONE", "RETURN", "BREAK", "CONTINUE", "THROW"},
             value : Slots \cup {NoVal}, label : Labels \cup {NoLabel},
             for : Nat]

NoTransfer == [op |-> "NONE", value |-> NoVal, label |-> NoLabel, for |-> 0]

Parked(op, value, label, fin) ==
  [op |-> op, value |-> value, label |-> label, for |-> fin]

\* via: who called vm_run: vm_load_run at the top, func_call for a script
\* call, or func_call for a callback a native function makes.
RunFrame == [scopeBase : Nat, stackBase : Nat, saved : Transfer,
             resume : Nat, via : {"top", "call", "native"}]

TypeOK ==
  /\ prog \in DOMAIN Code
  /\ tape \in Seq({"T", "F"}) /\ used \in 0 .. Len(tape)
  /\ pc \in Nat
  /\ scopes \in Seq(Scope)
  /\ stack \in Seq(Slots)
  /\ frames \in Seq(RunFrame)
  /\ pend \in Transfer
  /\ abort \in BOOLEAN
  /\ err \in Slots \cup {NoVal}
  /\ leave \in {"no", "returned", "out"}

----------------------------------------------------------------------------
(* Looking at the stacks. *)

\* The innermost of a set of scope indices, 0 when there is none: what a
\* walk along scope->prev finds first.
Innermost(I) == IF I = {} THEN 0 ELSE CHOOSE i \in I : \A j \in I : j <= i

Frame == frames[Len(frames)]
InsAt(i) == Code[prog][i]
EndPc == Len(Code[prog]) + 1

\* vm_find_inrange_try, vm_find_inrange_finally: never below the baseline of
\* the run that asks.
InRangeTry(S, base) ==
  Innermost({i \in DOMAIN S : i > base /\ S[i].armed})
InRangeFinally(S, base) ==
  Innermost({i \in DOMAIN S : i > base /\ S[i].fin # 0})

FuncScope(S) == Innermost({i \in DOMAIN S : S[i].kind = "func"})

\* The first n elements, or all of them when there are fewer: popping a stack
\* down to height n.
Down(s, n) == IF Len(s) <= n THEN s ELSE SubSeq(s, 1, n)

\* vm_throw_truncate: drop the operands the interrupted expression left
\* between the function's baseline and the thrown value on top.
Truncate(K, S) ==
  LET base == IF FuncScope(S) = 0 THEN 0 ELSE S[FuncScope(S)].base
  IN  IF Len(K) <= base + 1 THEN K
      ELSE Append(SubSeq(K, 1, base), K[Len(K)])

\* vm_pop2: the value on top, and what is left. An empty stack yields NULL.
TopOf(K) == IF K = <<>> THEN NoVal ELSE K[Len(K)]
Popped(K) == Down(K, Len(K) - 1)

\* Enter the handler of scope t: the scopes above it go, and is_try is
\* consumed so that a throw in the catch body does not come back here.
EnterTry(S, t) == [SubSeq(S, 1, t) EXCEPT ![t].armed = FALSE]

----------------------------------------------------------------------------
(* The transfers. Each is called with the slot as the caller left it. *)

\* vm_terminate: both stacks are emptied and pc is set past the code.
Terminate ==
  /\ scopes' = <<>>
  /\ stack' = <<>>
  /\ pc' = EndPc

\* Run the finally of scope f: it is popped with everything above it.
RunFinally_KeepsScope(f) ==
  /\ scopes' = SubSeq(scopes, 1, f)
  /\ pc' = scopes[f].fin
RunFinally(f) ==
  /\ scopes' = SubSeq(scopes, 1, f - 1)
  /\ pc' = scopes[f].fin

\* The end of a break or continue: what is above scope i goes, and with it a
\* transfer that was parked on the way.
JumpTo(i, anchor) ==
  /\ scopes' = SubSeq(scopes, 1, i)
  /\ pc' = anchor
  /\ pend' = NoTransfer
  /\ UNCHANGED stack

IsBreakTarget(s, label) ==
  IF label = NoLabel THEN s.kind \in {"loop", "switch"}
                     ELSE s.kind = "label" /\ s.label = label

\* vm_do_break. The walk is not bounded by the function's scope.
DoBreak(label) ==
  LET target == Innermost({i \in DOMAIN scopes : IsBreakTarget(scopes[i], label)})
      fin == Innermost({i \in DOMAIN scopes : i > target /\ scopes[i].fin # 0})
  IN  \/ /\ target = 0
         /\ Terminate
         /\ pend' = NoTransfer
      \/ /\ target # 0 /\ fin # 0
         /\ RunFinally(fin)
         /\ pend' = Parked("BREAK", NoVal, label, scopes[fin].fin)
         /\ UNCHANGED stack
      \/ /\ target # 0 /\ fin = 0
         /\ JumpTo(target, scopes[target].pc)

\* The scope a continue stops its walk at, and the loop it restarts: for a
\* labeled one the loop the label directly wraps.
ContinueStop_IgnoresLabel(label) ==
  Innermost({i \in DOMAIN scopes : scopes[i].kind = "loop"})
ContinueStop(label) ==
  Innermost({i \in DOMAIN scopes :
               IF label = NoLabel THEN scopes[i].kind = "loop"
                                  ELSE IsBreakTarget(scopes[i], label)})
ContinueLoop(label) ==
  LET stop == ContinueStop(label)
  IN  IF label = NoLabel THEN stop
      ELSE IF stop # 0 /\ stop < Len(scopes) /\ scopes[stop + 1].kind = "loop"
           THEN stop + 1 ELSE 0

\* vm_do_continue.
DoContinue(label) ==
  LET loop == ContinueLoop(label)
      fin == Innermost({i \in DOMAIN scopes :
                          i > ContinueStop(label) /\ scopes[i].fin # 0})
  IN  \/ /\ loop = 0
         /\ Terminate
         /\ pend' = NoTransfer
      \/ /\ loop # 0 /\ fin # 0
         /\ RunFinally(fin)
         /\ pend' = Parked("CONTINUE", NoVal, label, scopes[fin].fin)
         /\ UNCHANGED stack
      \/ /\ loop # 0 /\ fin = 0
         /\ JumpTo(loop, scopes[loop].start)

\* vm_finish_return with the value v (NoVal for `return;`) and the value
\* stack K that is left once v is popped.
FinishReturn_Unboxed(v, K) ==
  LET func == FuncScope(scopes)
      fin == Innermost({i \in DOMAIN scopes : i > func /\ scopes[i].fin # 0})
  IN  IF fin # 0
      THEN /\ RunFinally(fin)
           /\ pend' = Parked("RETURN", v, NoLabel, scopes[fin].fin)
           /\ stack' = K
           /\ UNCHANGED leave
      ELSE /\ pend' = NoTransfer
           /\ stack' = Append(K, v)
           /\ scopes' = SubSeq(scopes, 1, IF func = 0 THEN 0 ELSE func - 1)
           /\ pc' = IF func = 0 THEN pc + 1 ELSE scopes[func].pc
           /\ leave' = "returned"
FinishReturn(v, K) ==
  LET func == FuncScope(scopes)
      fin == Innermost({i \in DOMAIN scopes : i > func /\ scopes[i].fin # 0})
  IN  \/ /\ fin # 0
         /\ RunFinally(fin)
         /\ pend' = Parked("RETURN", v, NoLabel, scopes[fin].fin)
         /\ stack' = K
         /\ UNCHANGED leave
      \/ /\ fin = 0
         /\ pend' = NoTransfer
         /\ stack' = Append(K, IF v = NoVal THEN Undef ELSE v)
         /\ scopes' = SubSeq(scopes, 1, IF func = 0 THEN 0 ELSE func - 1)
         /\ pc' = IF func = 0 THEN pc + 1 ELSE scopes[func].pc
         /\ leave' = "returned"

\* vm_propagate.
Propagate_Quietly(v) ==
  /\ err' = v
  /\ UNCHANGED abort
Propagate(v) ==
  /\ err' = v
  /\ abort' = TRUE

----------------------------------------------------------------------------
(* The instructions. Each handler runs with vm->pc already advanced.       *)

Dispatching ==
  /\ frames # <<>>
  /\ leave = "no" /\ ~abort
  /\ pc \in DOMAIN Code[prog]

At(op) == Dispatching /\ InsAt(pc).op = op

\* Instructions that touch only pc, the value stack and the trace.
Nil ==
  /\ At("NIL")
  /\ pc' = pc + 1
  /\ UNCHANGED <<prog, tape, used, scopes, stack, frames, pend, abort, err, leave, log>>

\* handle_jmp.
Jmp ==
  /\ At("JMP")
  /\ pc' = InsAt(pc).to
  /\ UNCHANGED <<prog, tape, used, scopes, stack, frames, pend, abort, err, leave, log>>

\* vm_pop_scopes_to_loop: a back edge pops what is left open above the
\* innermost loop, never past a function scope or the baseline of this run.
PopToLoop ==
  LET stop == Innermost({i \in DOMAIN scopes :
                           i <= Frame.scopeBase \/ scopes[i].kind \in {"func", "loop"}})
  IN  SubSeq(scopes, 1, stop)

\* handle_jmpb.
JmpBack ==
  /\ At("JMPB")
  /\ scopes' = PopToLoop
  /\ pc' = InsAt(pc).to
  /\ UNCHANGED <<prog, tape, used, stack, frames, pend, abort, err, leave, log>>

\* handle_njmp, for the forward jump and the conditional back edge.
JmpUnless ==
  /\ Dispatching /\ InsAt(pc).op \in {"NJMP", "NJMPB"}
  /\ stack' = Popped(stack)
  /\ IF TopOf(stack) = "F"
     THEN /\ pc' = InsAt(pc).to
          /\ scopes' = IF InsAt(pc).op = "NJMPB" THEN PopToLoop ELSE scopes
     ELSE pc' = pc + 1 /\ UNCHANGED scopes
  /\ UNCHANGED <<prog, tape, used, frames, pend, abort, err, leave, log>>

\* The evaluation of a condition: false once the tape is used up.
Cond ==
  /\ At("COND")
  /\ stack' = Append(stack, IF used < Len(tape) THEN tape[used + 1] ELSE "F")
  /\ used' = IF used < Len(tape) THEN used + 1 ELSE used
  /\ pc' = pc + 1
  /\ UNCHANGED <<prog, tape, scopes, frames, pend, abort, err, leave, log>>

Push ==
  /\ At("PUSH")
  /\ stack' = Append(stack, InsAt(pc).arg)
  /\ pc' = pc + 1
  /\ UNCHANGED <<prog, tape, used, scopes, frames, pend, abort, err, leave, log>>

Show ==
  /\ At("SHOW")
  /\ log' = Append(log, TopOf(stack))
  /\ stack' = Popped(stack)
  /\ pc' = pc + 1
  /\ UNCHANGED <<prog, tape, used, scopes, frames, pend, abort, err, leave>>

\* handle_block, for the five instructions that open a scope. The anchors are
\* slots the compiler reserves right after the instruction.
Opened(ins, i) ==
  [kind  |-> CASE ins.op = "BLOCK" -> "block" [] ins.op = "LOOP" -> "loop"
               [] ins.op = "TRY" -> "try" [] ins.op = "SWITCH" -> "switch"
               [] ins.op = "LABEL" -> "label",
   armed |-> ins.op = "TRY",
   fin   |-> IF ins.op \in {"TRY", "BLOCK"} THEN ins.to ELSE 0,
   pc    |-> CASE ins.op = "LOOP" -> i + 3 [] ins.op = "BLOCK" -> 0
               [] OTHER -> i + 2,
   start |-> IF ins.op = "LOOP" THEN i + 2 ELSE 0,
   label |-> IF ins.op = "LABEL" THEN ins.arg ELSE NoLabel,
   base  |-> Len(stack)]

Block ==
  /\ Dispatching /\ InsAt(pc).op \in {"BLOCK", "LOOP", "TRY", "SWITCH", "LABEL"}
  /\ scopes' = Append(scopes, Opened(InsAt(pc), pc))
  /\ pc' = pc + 1
  /\ UNCHANGED <<prog, tape, used, stack, frames, pend, abort, err, leave, log>>

\* handle_block_end, for BLOCK_END, LOOP_END, TRY_END, SWITCH_END, LABEL_END.
BlockEnd_DropsTransfer ==
  /\ At("BLOCK_END")
  /\ scopes' = Popped(scopes)
  /\ pc' = pc + 1
  /\ pend' = NoTransfer
  /\ UNCHANGED <<prog, tape, used, stack, frames, abort, err, leave, log>>
BlockEnd ==
  /\ At("BLOCK_END")
  /\ scopes' = Popped(scopes)
  /\ pc' = pc + 1
  /\ UNCHANGED <<prog, tape, used, stack, frames, pend, abort, err, leave, log>>

\* handle_break, handle_continue.
Break ==
  /\ At("BREAK")
  /\ DoBreak(InsAt(pc).arg)
  /\ UNCHANGED <<prog, tape, used, frames, abort, err, leave, log>>

Continue ==
  /\ At("CONTINUE")
  /\ DoContinue(InsAt(pc).arg)
  /\ UNCHANGED <<prog, tape, used, frames, abort, err, leave, log>>

\* handle_return.
Return ==
  /\ \/ At("RETURN") /\ FinishReturn(NoVal, stack)
     \/ At("RETURNV") /\ FinishReturn(TopOf(stack), Popped(stack))
  /\ UNCHANGED <<prog, tape, used, frames, abort, err, log>>

\* handle_finally_end: resume what is parked, whichever finally parked it.
FinallyEnd ==
  /\ At("FINALLY_END")
  /\ \/ /\ pend.op = "NONE"
        /\ pc' = pc + 1
        /\ UNCHANGED <<scopes, stack, pend, abort, err, leave>>
     \/ /\ pend.op = "RETURN"
        /\ FinishReturn(pend.value, stack)
        /\ UNCHANGED <<abort, err>>
     \/ /\ pend.op = "BREAK"
        /\ DoBreak(pend.label)
        /\ UNCHANGED <<abort, err, leave>>
     \/ /\ pend.op = "CONTINUE"
        /\ DoContinue(pend.label)
        /\ UNCHANGED <<abort, err, leave>>
     \/ /\ pend.op = "THROW"
        /\ Propagate(pend.value)
        /\ pend' = NoTransfer
        /\ pc' = pc + 1
        /\ UNCHANGED <<scopes, stack, leave>>
  /\ UNCHANGED <<prog, tape, used, frames, log>>

\* handle_throw: the parked transfer goes, then the innermost try of this run
\* catches or the error propagates.
Throw ==
  /\ At("THROW")
  /\ LET t == InRangeTry(scopes, Frame.scopeBase)
         K == Truncate(stack, scopes)
     IN  \/ /\ t # 0
            /\ scopes' = EnterTry(scopes, t)
            /\ stack' = K
            /\ pc' = scopes[t].pc
            /\ UNCHANGED <<abort, err>>
         \/ /\ t = 0
            /\ Propagate(IF K = <<>> THEN Undef ELSE TopOf(K))
            /\ stack' = Popped(K)
            /\ pc' = pc + 1
            /\ UNCHANGED scopes
  /\ pend' = NoTransfer
  /\ UNCHANGED <<prog, tape, used, frames, leave, log>>

\* vm_throw: an instruction itself raises. The slot is left alone.
VmThrow ==
  /\ At("VM_THROW")
  /\ LET t == InRangeTry(scopes, Frame.scopeBase)
         v == InsAt(pc).arg
     IN  \/ /\ t # 0
            /\ stack' = Truncate(Append(stack, v), scopes)
            /\ scopes' = EnterTry(scopes, t)
            /\ pc' = scopes[t].pc
            /\ UNCHANGED <<abort, err>>
         \/ /\ t = 0
            /\ Propagate(v)
            /\ pc' = pc + 1
            /\ UNCHANGED <<scopes, stack>>
  /\ UNCHANGED <<prog, tape, used, frames, pend, leave, log>>

\* A native function that raises (vm_throw_native): the tail of func_call
\* pops the native's environment and delivers the error to the caller's run,
\* with a placeholder result when no try of it catches.
NativeThrow ==
  /\ At("NATIVE_THROW")
  /\ LET t == InRangeTry(scopes, Frame.scopeBase)
         K == Truncate(Append(stack, InsAt(pc).arg), scopes)
     IN  \/ /\ t # 0
            /\ stack' = K
            /\ scopes' = EnterTry(scopes, t)
            /\ pc' = scopes[t].pc
            /\ UNCHANGED <<abort, err>>
         \/ /\ t = 0
            /\ Propagate(TopOf(K))
            /\ stack' = Append(Popped(K), Undef)
            /\ pc' = pc + 1
            /\ UNCHANGED scopes
  /\ UNCHANGED <<prog, tape, used, frames, pend, leave, log>>

\* handle_catch: bind the error on top of the stack; the binding is shown.
Catch ==
  /\ At("CATCH")
  /\ log' = IF stack = <<>> THEN log ELSE Append(log, TopOf(stack))
  /\ stack' = Popped(stack)
  /\ pc' = pc + 1
  /\ UNCHANGED <<prog, tape, used, scopes, frames, pend, abort, err, leave>>

----------------------------------------------------------------------------
(* Calls: func_call up to the body, and what follows when vm_run comes back. *)

FuncScopeFor(K) ==
  [kind |-> "func", armed |-> FALSE, fin |-> 0, pc |-> pc + 1, start |-> 0,
   label |-> NoLabel, base |-> Len(K)]

\* func_call roots the environment, pushes the function's scope and enters
\* vm_run, which sets its baselines and starts with a clean slot.
Enter(entry, K, via) ==
  /\ stack' = Append(K, Env)
  /\ scopes' = Append(scopes, FuncScopeFor(Append(K, Env)))
  /\ frames' = Append(frames, [scopeBase |-> Len(scopes) + 1,
                               stackBase |-> Len(K) + 1,
                               saved |-> pend, resume |-> pc + 1, via |-> via])
  /\ pend' = NoTransfer
  /\ pc' = entry

\* Too deep: the run is terminated and the call yields its placeholder.
TooDeep ==
  /\ Len(frames) - 1 >= MaxCallDepth
  /\ scopes' = <<>>
  /\ stack' = <<Undef>>
  /\ pc' = EndPc
  /\ UNCHANGED <<frames, pend>>

Call ==
  /\ At("CALL")
  /\ \/ TooDeep
     \/ Len(frames) - 1 < MaxCallDepth /\ Enter(InsAt(pc).to, stack, "call")
  /\ UNCHANGED <<prog, tape, used, abort, err, leave, log>>

\* A native function that calls the script function back once (call_m_func).
CallNative ==
  /\ At("CALL_NATIVE")
  /\ \/ TooDeep
     \/ Len(frames) - 1 < MaxCallDepth
        /\ Enter(InsAt(pc).to, Append(stack, Env), "native")
  /\ UNCHANGED <<prog, tape, used, abort, err, leave, log>>

\* INSTR_END, and the loop's own condition on pc, which is tested before the
\* abort branch gets its turn.
RunEnd ==
  /\ frames # <<>>
  /\ leave = "no"
  /\ pc \in DOMAIN Code[prog] => ~abort /\ InsAt(pc).op = "END"
  /\ leave' = "out"
  /\ UNCHANGED <<prog, tape, used, pc, scopes, stack, frames, pend, abort, err, log>>

\* The value a finished script call leaves for its caller, on the stack below
\* the environment it pops; a native caller hands its callee's result on.
CallResult(fr) ==
  LET ret == IF err = NoVal /\ leave = "returned" THEN TopOf(stack) ELSE Undef
      below == Down(stack, fr.stackBase - 1)
      natEnv == IF fr.via = "native" THEN Popped(below) ELSE below
  IN  Append(natEnv, IF ret = NoVal THEN Undef ELSE ret)

\* The end of vm_run (baselines and slot are restored) and the tail of the
\* func_call that made it. A function whose error escapes still has its scope
\* on the stack, unless a completed return already popped it.
CallReturn ==
  /\ leave # "no"
  /\ Len(frames) > 1
  /\ stack' = CallResult(Frame)
  /\ \/ /\ err # NoVal
        /\ scopes' = Down(scopes, Frame.scopeBase - 1)
        /\ pc' = Frame.resume
     \/ /\ err = NoVal
        /\ UNCHANGED <<scopes, pc>>
  /\ pend' = Frame.saved
  /\ frames' = SubSeq(frames, 1, Len(frames) - 1)
  /\ leave' = "no"
  /\ UNCHANGED <<prog, tape, used, abort, err, log>>

\* The end of the outermost vm_run, in vm_load_run: an error that is still
\* propagating is reported and dropped.
ScriptEnd ==
  /\ leave # "no"
  /\ Len(frames) = 1
  /\ log' = IF err = NoVal THEN log ELSE Append(log, err)
  /\ abort' = FALSE
  /\ err' = NoVal
  /\ pend' = Frame.saved
  /\ frames' = <<>>
  /\ leave' = "no"
  /\ UNCHANGED <<prog, tape, used, pc, scopes, stack>>

----------------------------------------------------------------------------
(* The abort branch at the top of the loop: an error propagates into this  *)
(* run, which catches it, runs a finally it leaves, or unwinds.             *)

Aborting ==
  /\ frames # <<>>
  /\ leave = "no" /\ abort
  /\ pc \in DOMAIN Code[prog]

AbortCatch ==
  /\ Aborting
  /\ InRangeTry(scopes, Frame.scopeBase) # 0
  /\ LET t == InRangeTry(scopes, Frame.scopeBase)
     IN  /\ scopes' = EnterTry(scopes, t)
         /\ pc' = scopes[t].pc
  /\ stack' = Append(Down(stack, Frame.stackBase), IF err = NoVal THEN Undef ELSE err)
  /\ abort' = FALSE
  /\ err' = NoVal
  /\ UNCHANGED <<prog, tape, used, frames, pend, leave, log>>

AbortFinally ==
  /\ Aborting
  /\ InRangeTry(scopes, Frame.scopeBase) = 0
  /\ InRangeFinally(scopes, Frame.scopeBase) # 0
  /\ LET f == InRangeFinally(scopes, Frame.scopeBase)
     IN  /\ RunFinally(f)
         /\ pend' = Parked("THROW", err, NoLabel, scopes[f].fin)
  /\ stack' = Down(stack, Frame.stackBase)
  /\ abort' = FALSE
  /\ err' = NoVal
  /\ UNCHANGED <<prog, tape, used, frames, leave, log>>

AbortLeave ==
  /\ Aborting
  /\ InRangeTry(scopes, Frame.scopeBase) = 0
  /\ InRangeFinally(scopes, Frame.scopeBase) = 0
  /\ stack' = Down(stack, Frame.stackBase)
  /\ scopes' = Down(scopes, Frame.scopeBase)
  /\ leave' = "out"
  /\ UNCHANGED <<prog, tape, used, pc, frames, pend, abort, err, log>>

----------------------------------------------------------------------------

Init ==
  /\ prog \in Progs
  /\ tape \in Tapes
  /\ used = 0
  /\ pc = 1
  /\ scopes = <<>>
  /\ stack = <<>>
  /\ frames = <<[scopeBase |-> 0, stackBase |-> 0, saved |-> NoTransfer,
                 resume |-> 0, via |-> "top"]>>
  /\ pend = NoTransfer
  /\ abort = FALSE
  /\ err = NoVal
  /\ leave = "no"
  /\ log = <<>>

Done == frames = <<>>
Halted == Done /\ UNCHANGED vars

Step ==
  \/ Nil \/ Jmp \/ JmpBack \/ JmpUnless \/ Cond \/ Push \/ Show
  \/ Block \/ BlockEnd \/ Break \/ Continue \/ Return \/ FinallyEnd
  \/ Throw \/ VmThrow \/ NativeThrow \/ Catch
  \/ Call \/ CallNative \/ RunEnd \/ CallReturn \/ ScriptEnd
  \/ AbortCatch \/ AbortFinally \/ AbortLeave

Next == Step \/ Halted

Spec == Init /\ [][Next]_vars

\* One thread runs the interpreter and nothing blocks it.
FairSpec == Spec /\ WF_vars(Step)

----------------------------------------------------------------------------
(* The static structure of a program: what the layout of its code says,    *)
(* against which the properties hold the interpreter's dynamic state.       *)

Openers == {"BLOCK", "LOOP", "TRY", "SWITCH", "LABEL"}

\* The openers of the scopes around each instruction of a program, the
\* innermost last.
Around(path, p, i) ==
  IF Code[p][i].op \in Openers THEN Append(path, i)
  ELSE IF Code[p][i].op = "BLOCK_END" THEN Popped(path) ELSE path
ScopePaths ==
  [p \in Progs |->
     LET upTo[n \in DOMAIN Code[p]] ==
           IF n = 1 THEN << <<>> >>
           ELSE LET before == upTo[n - 1]
                IN  Append(before, Around(before[n - 1], p, n - 1))
     IN  upTo[Len(Code[p])]]
ScopePath(p, i) == ScopePaths[p][i]

\* The finally body that starts at f ends at its own FINALLY_END: the first
\* one that no try inside the body accounts for.
OwnsFinally(ins) == ins.op \in {"TRY", "BLOCK"} /\ ins.to # 0
EndOfFinally(p, f) ==
  LET ends == {i \in f .. Len(Code[p]) : Code[p][i].op = "FINALLY_END"}
      inner == {i \in f .. Len(Code[p]) : OwnsFinally(Code[p][i])}
      own == {e \in ends : Cardinality({i \in ends : i <= e})
                              > Cardinality({i \in inner : i <= e})}
  IN  CHOOSE e \in own : \A d \in own : e <= d
FinallyBodies ==
  [p \in Progs |->
     [f \in {Code[p][i].to : i \in {j \in DOMAIN Code[p] : OwnsFinally(Code[p][j])}}
        |-> f .. EndOfFinally(p, f)]]

InFinally(f, i) == i \in FinallyBodies[prog][f]

----------------------------------------------------------------------------
(* Properties. *)

\* An error is in flight exactly while vm_run is told to unwind: no path that
\* throws, parks, resumes, catches or reports forgets one half of the pair
\* (mario.c vm_propagate, handle_finally_end, the abort branch of vm_run).
ErrorInFlight == abort <=> err # NoVal

\* The scopes this run has open are those of the openers in a path, and a try
\* is armed just in the part of the code that it guards.
OpenScopesAre(path) ==
  /\ Len(scopes) = Frame.scopeBase + Len(path)
  /\ \A k \in DOMAIN path :
       LET s == scopes[Frame.scopeBase + k]
       IN  /\ s = [Opened(InsAt(path[k]), path[k]) EXCEPT
                     !.armed = s.armed, !.base = Frame.stackBase]
           /\ s.kind = "try" /\ InsAt(pc).op # "BLOCK_END" =>
                (s.armed <=> pc < InsAt(path[k] + 2).to /\ pc # path[k] + 2)

\* Whatever transfers brought control here, the scopes this run has open are
\* the ones the compiler placed around the instruction: no scope is leaked or
\* popped twice (mario.c handle_block, handle_block_end, vm_do_break,
\* vm_do_continue, the two finally jumps, the three ways into a catch).
ScopesMatchCode == Dispatching => OpenScopesAre(ScopePath(prog, pc))

\* At the start of every statement the value stack is at the run's baseline:
\* a transfer out of the middle of an expression or of a call leaves no
\* operand behind (mario.c vm_throw_truncate, the abort branch, func_call).
StatementOps == Openers \cup {"BREAK", "CONTINUE", "RETURN", "FINALLY_END",
                              "PUSH", "COND", "CALL", "CALL_NATIVE", "END"}
OperandsBalanced ==
  Dispatching /\ InsAt(pc).op \in StatementOps => Len(stack) = Frame.stackBase

\* A run touches neither the scopes nor the operands of the runs below it,
\* whatever leaves it; only vm_terminate clears them.
CallersUntouched ==
  [][Len(frames) > 1 /\ pc' # EndPc =>
       /\ Len(scopes') >= Frame.scopeBase - 1
       /\ \A i \in 1 .. Frame.scopeBase - 1 : scopes'[i] = scopes[i]
       /\ Len(stack') >= Frame.stackBase - 1 - (IF Frame.via = "native" THEN 1 ELSE 0)
    ]_vars

\* A parked transfer waits only while its own finally body runs; a FINALLY_END
\* of another statement never finds it (mario.c vm_clear_pending's comment).
ParkedInItsFinally ==
  Dispatching /\ pend.op # "NONE" => InFinally(pend.for, pc)

\* A parked transfer is given up only by an exit that leaves its finally body:
\* a break, a continue or a caught throw inside the body keeps it.
DroppedOnlyByLeaving ==
  [][Dispatching /\ pend.op # "NONE" /\ pend' = NoTransfer
       /\ Len(frames') = Len(frames) /\ InsAt(pc).op # "FINALLY_END" =>
     ~(leave' = "no" /\ ~abort' /\ InFinally(pend.for, pc'))]_vars

\* An error that leaves a try that has a finally runs the finally: no step that
\* delivers it, into a handler or out of a run, discards a scope whose finally
\* has not run (mario.c handle_throw, vm_throw, func_call, the abort branch).
ThrowRunsFinally ==
  [][Aborting \/ (Dispatching /\ InsAt(pc).op \in {"THROW", "VM_THROW", "NATIVE_THROW"}) =>
       \A i \in DOMAIN scopes \ DOMAIN scopes' :
         scopes[i].fin # 0 => pc' = scopes[i].fin]_vars

\* A callee that terminates the script also ends the runs below it: a run in a
\* call whose scopes are gone shows nothing more (mario.c vm_terminate, the
\* depth check of func_call, the loop condition of vm_run).
TerminatedStops ==
  [][Len(frames) > 1 /\ scopes = <<>> => log' = log]_vars

\* The two stacks at any instruction are those the code calls for.
StacksMatchCode == ScopesMatchCode /\ OperandsBalanced

\* No transfer is lost on its way: not its parked form, not the finally bodies
\* it has to run, not the state of the runs below the one it leaves.
TransfersKept ==
  /\ []ParkedInItsFinally
  /\ DroppedOnlyByLeaving
  /\ ThrowRunsFinally
  /\ CallersUntouched
  /\ TerminatedStops

\* Every program of the model comes to its end.
Terminates == <>Done
=============================================================================
