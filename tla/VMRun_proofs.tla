---------------------------- MODULE VMRun_proofs ----------------------------
(***************************************************************************)
(* What holds of the interpreter for every program, every tape and every   *)
(* depth limit: its state is well typed, and an error is in flight exactly *)
(* while vm_run is told to unwind.  The second is not inductive alone: an  *)
(* error waits in the pending slot while a finally body runs, in the slot  *)
(* of this run or in one a caller saved, and must still be there when      *)
(* FINALLY_END resumes it.                                                  *)
(***************************************************************************)
EXTENDS VMRun, SequenceTheorems, WellFoundedInduction, TLAPS

\* A parked throw carries its error.
CarriesError(t) == t.op = "THROW" => t.value # NoVal
ParkedErrors ==
  /\ CarriesError(pend)
  /\ \A i \in 1 .. Len(frames) : CarriesError(frames[i].saved)

IInv == TypeOK /\ ErrorInFlight /\ ParkedErrors

----------------------------------------------------------------------------
(* Looking at the stacks. *)

\* A nonempty set of indices of a stack has an innermost one.
LEMMA MaxExists ==
  ASSUME NEW n \in Nat, NEW X \in SUBSET (1 .. n), X # {}
  PROVE  \E i \in X : \A j \in X : j <= i
<1> DEFINE U == {u \in Nat : \A j \in X : j <= u}
<1>1. n \in U
  OBVIOUS
<1>2. PICK m \in U : \A k \in U : ~ (k < m)
  <2>1. \E x \in U : \A y \in U : <<y, x>> \notin OpToRel(<, Nat)
    BY <1>1, NatLessThanWellFounded, WFMin
  <2> QED
    BY <2>1 DEF OpToRel
<1>3. m \in X
  <2> SUFFICES ASSUME m \notin X PROVE FALSE
    OBVIOUS
  <2>1. \A j \in X : j <= m - 1
    OBVIOUS
  <2>2. m - 1 \in U
    <3>1. PICK j \in X : TRUE
      OBVIOUS
    <3>2. m - 1 \in Nat
      BY <2>1, <3>1
    <3> QED
      BY <2>1, <3>2
  <2> QED
    BY <2>2, <1>2
<1> QED
  BY <1>3

\* What the walk along scope->prev returns: the innermost index of the set, or
\* 0 when the set is empty.
LEMMA InnermostProperties ==
  ASSUME NEW n \in Nat, NEW X \in SUBSET (1 .. n)
  PROVE  /\ X = {} => Innermost(X) = 0
         /\ X # {} => Innermost(X) \in X /\ \A j \in X : j <= Innermost(X)
         /\ Innermost(X) \in 0 .. n
<1>1. CASE X = {}
  BY <1>1 DEF Innermost
<1>2. CASE X # {}
  <2> DEFINE top == CHOOSE i \in X : \A j \in X : j <= i
  <2>1. \E i \in X : \A j \in X : j <= i
    BY <1>2, MaxExists
  <2>2. top \in X /\ \A j \in X : j <= top
    BY <2>1, Zenon
  <2>3. Innermost(X) = top
    BY <1>2 DEF Innermost
  <2> HIDE DEF top
  <2> QED
    BY <2>2, <2>3, <1>2
<1> QED
  BY <1>1, <1>2

\* A prefix of a stack is a stack.
LEMMA PrefixType ==
  ASSUME NEW S, NEW s \in Seq(S), NEW n \in Int, n <= Len(s)
  PROVE  /\ SubSeq(s, 1, n) \in Seq(S)
         /\ n >= 0 => Len(SubSeq(s, 1, n)) = n
         /\ \A i \in 1 .. n : SubSeq(s, 1, n)[i] = s[i]
<1>1. \A i \in 1 .. n : s[i] \in S
  BY ElementOfSeq
<1> QED
  BY <1>1, SubSeqProperties, LenProperties

LEMMA DownType ==
  ASSUME NEW S, NEW s \in Seq(S), NEW n \in Int
  PROVE  Down(s, n) \in Seq(S)
BY PrefixType, LenProperties DEF Down

LEMMA PoppedType ==
  ASSUME NEW S, NEW s \in Seq(S)
  PROVE  Popped(s) \in Seq(S)
BY DownType, LenProperties DEF Popped

LEMMA TopOfType ==
  ASSUME NEW S, NEW s \in Seq(S)
  PROVE  TopOf(s) \in S \cup {NoVal} /\ (s # <<>> => TopOf(s) \in S)
BY ElementOfSeq, EmptySeq, LenProperties DEF TopOf

\* The walks of the handlers end at a scope or find none.
LEMMA InRangeType ==
  ASSUME NEW S \in Seq(Scope), NEW base
  PROVE  /\ InRangeTry(S, base) \in 0 .. Len(S)
         /\ InRangeFinally(S, base) \in 0 .. Len(S)
         /\ FuncScope(S) \in 0 .. Len(S)
<1>1. Len(S) \in Nat /\ DOMAIN S = 1 .. Len(S)
  BY LenProperties
<1> QED
  BY <1>1, InnermostProperties DEF InRangeTry, InRangeFinally, FuncScope

\* Entering a handler leaves a stack of scopes.
LEMMA EnterTryType ==
  ASSUME NEW S \in Seq(Scope), NEW t \in 1 .. Len(S)
  PROVE  EnterTry(S, t) \in Seq(Scope)
<1> DEFINE P == SubSeq(S, 1, t)
<1>1. P \in Seq(Scope) /\ Len(P) = t
  BY PrefixType, LenProperties
<1> DEFINE u == [P[t] EXCEPT !.armed = FALSE]
<1>2. EnterTry(S, t) = [P EXCEPT ![t] = u]
  BY DEF EnterTry
<1> HIDE DEF P
<1>3. P[t] \in Scope
  BY <1>1, ElementOfSeq
<1>4. u \in Scope
  BY <1>3 DEF Scope
<1> HIDE DEF u
<1>5. t \in 1 .. Len(P)
  BY <1>1
<1>6. [P EXCEPT ![t] = u] \in Seq(Scope)
  BY <1>1, <1>4, <1>5, ExceptSeq
<1> QED
  BY <1>2, <1>6

\* vm_throw_truncate keeps the thrown value: a nonempty value stack stays so.
LEMMA TruncateType ==
  ASSUME NEW K \in Seq(Slots), NEW S \in Seq(Scope)
  PROVE  /\ Truncate(K, S) \in Seq(Slots)
         /\ K # <<>> => Truncate(K, S) # <<>>
<1> DEFINE base == IF FuncScope(S) = 0 THEN 0 ELSE S[FuncScope(S)].base
<1>1. base \in Nat
  <2>1. CASE FuncScope(S) = 0
    BY <2>1
  <2>2. CASE FuncScope(S) # 0
    <3>1. FuncScope(S) \in 1 .. Len(S)
      BY <2>2, InRangeType, LenProperties
    <3>2. S[FuncScope(S)] \in Scope
      BY <3>1, ElementOfSeq
    <3> QED
      BY <2>2, <3>2 DEF Scope
  <2> QED
    BY <2>1, <2>2
<1>2. CASE Len(K) <= base + 1
  BY <1>2 DEF Truncate
<1>3. CASE ~ (Len(K) <= base + 1)
  <2>1. Len(K) \in Nat /\ K[Len(K)] \in Slots
    BY <1>1, <1>3, LenProperties, ElementOfSeq
  <2>2. SubSeq(K, 1, base) \in Seq(Slots)
    BY <1>1, <1>3, <2>1, PrefixType
  <2>3. /\ Append(SubSeq(K, 1, base), K[Len(K)]) \in Seq(Slots)
        /\ Append(SubSeq(K, 1, base), K[Len(K)]) # <<>>
    BY SMTT(60), <2>1, <2>2, AppendProperties
  <2>4. Truncate(K, S) = Append(SubSeq(K, 1, base), K[Len(K)])
    BY <1>3 DEF Truncate
  <2> QED
    BY <2>3, <2>4
<1> QED
  BY <1>2, <1>3

----------------------------------------------------------------------------
(* What every step may rely on, and what each transfer leaves. *)

\* The instruction being dispatched is a well-formed one of the program.
LEMMA InsType ==
  ASSUME TypeOK, pc \in DOMAIN Code[prog]
  PROVE  InsAt(pc) \in Instr
<1>1. prog \in Progs /\ Code[prog] \in Seq(Instr)
  BY ProgAssumption DEF TypeOK
<1>2. Code[prog][pc] \in Instr
  BY <1>1, ElementOfSeq, LenProperties
<1> QED
  BY <1>2 DEF InsAt

\* The operand of a jump out is a label or NoLabel; a pushed or thrown operand
\* is a script value.
LEMMA OperandType ==
  ASSUME TypeOK, pc \in DOMAIN Code[prog]
  PROVE  /\ InsAt(pc).op \in {"PUSH", "VM_THROW", "NATIVE_THROW"} =>
              InsAt(pc).arg \in Slots
         /\ InsAt(pc).op \in {"BREAK", "CONTINUE"} =>
              InsAt(pc).arg \in Labels \cup {NoLabel}
         /\ InsAt(pc).op = "LABEL" => InsAt(pc).arg \in Labels
<1>1. prog \in Progs
  BY ProgAssumption DEF TypeOK
<1> QED
  BY <1>1, OperandAssumption DEF InsAt, Slots

LEMMA EndPcType ==
  ASSUME TypeOK
  PROVE  EndPc \in Nat
<1>1. prog \in Progs /\ Code[prog] \in Seq(Instr)
  BY ProgAssumption DEF TypeOK
<1> QED
  BY <1>1, LenProperties DEF EndPc

\* The running activation.
LEMMA FrameType ==
  ASSUME TypeOK, frames # <<>>
  PROVE  Len(frames) \in 1 .. Len(frames) /\ Frame \in RunFrame
<1>1. Len(frames) \in 1 .. Len(frames)
  BY EmptySeq, LenProperties DEF TypeOK
<1> QED
  BY <1>1, ElementOfSeq DEF TypeOK, Frame

\* No transfer, and a parked jump or return, carry no error.
LEMMA NoTransferType ==
  /\ NoTransfer \in Transfer /\ CarriesError(NoTransfer)
  /\ \A op \in {"RETURN", "BREAK", "CONTINUE"}, v \in Slots \cup {NoVal},
        l \in Labels \cup {NoLabel}, f \in Nat :
       Parked(op, v, l, f) \in Transfer /\ CarriesError(Parked(op, v, l, f))
BY DEF NoTransfer, Transfer, CarriesError, Parked

\* What a jump leaves of the typed part of the state.
JumpedOK ==
  /\ scopes' \in Seq(Scope) /\ stack' \in Seq(Slots) /\ pc' \in Nat
  /\ pend' \in Transfer /\ CarriesError(pend')

LEMMA DoBreakType ==
  ASSUME TypeOK, NEW label \in Labels \cup {NoLabel}, DoBreak(label)
  PROVE  JumpedOK
<1> DEFINE targets == {i \in DOMAIN scopes : IsBreakTarget(scopes[i], label)}
           target == Innermost(targets)
           fins == {i \in DOMAIN scopes : i > target /\ scopes[i].fin # 0}
           fin == Innermost(fins)
<1>1. /\ Len(scopes) \in Nat /\ DOMAIN scopes = 1 .. Len(scopes)
      /\ scopes \in Seq(Scope) /\ stack \in Seq(Slots)
  BY LenProperties DEF TypeOK
<1>2. target \in 0 .. Len(scopes) /\ fin \in 0 .. Len(scopes)
  BY <1>1, InnermostProperties
<1>3. \/ /\ target = 0
         /\ Terminate
         /\ pend' = NoTransfer
      \/ /\ target # 0 /\ fin # 0
         /\ RunFinally(fin)
         /\ pend' = Parked("BREAK", NoVal, label, scopes[fin].fin)
         /\ UNCHANGED stack
      \/ /\ target # 0 /\ fin = 0
         /\ scopes' = SubSeq(scopes, 1, target)
         /\ pc' = scopes[target].pc
         /\ pend' = NoTransfer
         /\ UNCHANGED stack
  BY DEF DoBreak, JumpTo
<1> HIDE DEF fin, fins, target, targets
<1>4. CASE target = 0 /\ Terminate /\ pend' = NoTransfer
  BY <1>4, EndPcType, EmptySeq, NoTransferType DEF Terminate, JumpedOK
<1>5. CASE /\ target # 0 /\ fin # 0
           /\ RunFinally(fin)
           /\ pend' = Parked("BREAK", NoVal, label, scopes[fin].fin)
           /\ UNCHANGED stack
  <2>1. scopes[fin] \in Scope
    BY <1>1, <1>2, <1>5, ElementOfSeq
  <2>2. scopes[fin].fin \in Nat
    BY <2>1 DEF Scope
  <2>3. SubSeq(scopes, 1, fin - 1) \in Seq(Scope)
    BY <1>1, <1>2, <1>5, PrefixType
  <2> QED
    BY <1>1, <1>5, <2>2, <2>3, NoTransferType DEF RunFinally, JumpedOK
<1>6. CASE /\ target # 0 /\ fin = 0
           /\ scopes' = SubSeq(scopes, 1, target)
           /\ pc' = scopes[target].pc
           /\ pend' = NoTransfer
           /\ UNCHANGED stack
  <2>1. scopes[target] \in Scope
    BY <1>1, <1>2, <1>6, ElementOfSeq
  <2>2. SubSeq(scopes, 1, target) \in Seq(Scope)
    BY <1>1, <1>2, <1>6, PrefixType
  <2> QED
    BY <1>1, <1>6, <2>1, <2>2, NoTransferType DEF JumpedOK, Scope
<1> QED
  BY <1>3, <1>4, <1>5, <1>6

LEMMA DoContinueType ==
  ASSUME TypeOK, NEW label \in Labels \cup {NoLabel}, DoContinue(label)
  PROVE  JumpedOK
<1> DEFINE loop == ContinueLoop(label)
           fins == {i \in DOMAIN scopes :
                      i > ContinueStop(label) /\ scopes[i].fin # 0}
           fin == Innermost(fins)
<1>1. /\ Len(scopes) \in Nat /\ DOMAIN scopes = 1 .. Len(scopes)
      /\ scopes \in Seq(Scope) /\ stack \in Seq(Slots)
  BY LenProperties DEF TypeOK
<1>2. ContinueStop(label) \in 0 .. Len(scopes) /\ fin \in 0 .. Len(scopes)
  BY <1>1, InnermostProperties DEF ContinueStop
<1>3. loop \in 0 .. Len(scopes)
  BY <1>1, <1>2 DEF ContinueLoop
<1>4. \/ /\ loop = 0
         /\ Terminate
         /\ pend' = NoTransfer
      \/ /\ loop # 0 /\ fin # 0
         /\ RunFinally(fin)
         /\ pend' = Parked("CONTINUE", NoVal, label, scopes[fin].fin)
         /\ UNCHANGED stack
      \/ /\ loop # 0 /\ fin = 0
         /\ scopes' = SubSeq(scopes, 1, loop)
         /\ pc' = scopes[loop].start
         /\ pend' = NoTransfer
         /\ UNCHANGED stack
  BY DEF DoContinue, JumpTo
<1> HIDE DEF fin, fins, loop
<1>5. CASE loop = 0 /\ Terminate /\ pend' = NoTransfer
  BY <1>5, EndPcType, EmptySeq, NoTransferType DEF Terminate, JumpedOK
<1>6. CASE /\ loop # 0 /\ fin # 0
           /\ RunFinally(fin)
           /\ pend' = Parked("CONTINUE", NoVal, label, scopes[fin].fin)
           /\ UNCHANGED stack
  <2>1. scopes[fin] \in Scope
    BY <1>1, <1>2, <1>6, ElementOfSeq
  <2>2. scopes[fin].fin \in Nat
    BY <2>1 DEF Scope
  <2>3. SubSeq(scopes, 1, fin - 1) \in Seq(Scope)
    BY <1>1, <1>2, <1>6, PrefixType
  <2> QED
    BY <1>1, <1>6, <2>2, <2>3, NoTransferType DEF RunFinally, JumpedOK
<1>7. CASE /\ loop # 0 /\ fin = 0
           /\ scopes' = SubSeq(scopes, 1, loop)
           /\ pc' = scopes[loop].start
           /\ pend' = NoTransfer
           /\ UNCHANGED stack
  <2>1. scopes[loop] \in Scope
    BY <1>1, <1>3, <1>7, ElementOfSeq
  <2>2. SubSeq(scopes, 1, loop) \in Seq(Scope)
    BY <1>1, <1>3, <1>7, PrefixType
  <2> QED
    BY <1>1, <1>7, <2>1, <2>2, NoTransferType DEF JumpedOK, Scope
<1> QED
  BY <1>4, <1>5, <1>6, <1>7

LEMMA FinishReturnType ==
  ASSUME TypeOK, NEW v \in Slots \cup {NoVal}, NEW K \in Seq(Slots),
         FinishReturn(v, K)
  PROVE  JumpedOK /\ leave' \in {"no", "returned", "out"}
<1> DEFINE func == FuncScope(scopes)
           fins == {i \in DOMAIN scopes : i > func /\ scopes[i].fin # 0}
           fin == Innermost(fins)
           result == IF v = NoVal THEN Undef ELSE v
<1>1. /\ Len(scopes) \in Nat /\ DOMAIN scopes = 1 .. Len(scopes)
      /\ scopes \in Seq(Scope) /\ pc \in Nat
      /\ leave \in {"no", "returned", "out"}
  BY LenProperties DEF TypeOK
<1>2. func \in 0 .. Len(scopes) /\ fin \in 0 .. Len(scopes)
  BY <1>1, InnermostProperties, InRangeType
<1>3. \/ /\ fin # 0
         /\ RunFinally(fin)
         /\ pend' = Parked("RETURN", v, NoLabel, scopes[fin].fin)
         /\ stack' = K
         /\ UNCHANGED leave
      \/ /\ fin = 0
         /\ pend' = NoTransfer
         /\ stack' = Append(K, result)
         /\ scopes' = SubSeq(scopes, 1, IF func = 0 THEN 0 ELSE func - 1)
         /\ pc' = IF func = 0 THEN pc + 1 ELSE scopes[func].pc
         /\ leave' = "returned"
  BY DEF FinishReturn
<1>4. result \in Slots
  BY DEF Slots
<1> HIDE DEF fin, fins, func, result
<1>5. CASE /\ fin # 0
           /\ RunFinally(fin)
           /\ pend' = Parked("RETURN", v, NoLabel, scopes[fin].fin)
           /\ stack' = K
           /\ UNCHANGED leave
  <2>1. scopes[fin] \in Scope
    BY <1>1, <1>2, <1>5, ElementOfSeq
  <2>2. scopes[fin].fin \in Nat
    BY <2>1 DEF Scope
  <2>3. SubSeq(scopes, 1, fin - 1) \in Seq(Scope)
    BY <1>1, <1>2, <1>5, PrefixType
  <2> QED
    BY <1>1, <1>5, <2>2, <2>3, NoTransferType DEF RunFinally, JumpedOK
<1>6. CASE /\ fin = 0
           /\ pend' = NoTransfer
           /\ stack' = Append(K, result)
           /\ scopes' = SubSeq(scopes, 1, IF func = 0 THEN 0 ELSE func - 1)
           /\ pc' = IF func = 0 THEN pc + 1 ELSE scopes[func].pc
           /\ leave' = "returned"
  <2>1. Append(K, result) \in Seq(Slots)
    BY <1>4, AppendProperties
  <2>2. SubSeq(scopes, 1, IF func = 0 THEN 0 ELSE func - 1) \in Seq(Scope)
    BY <1>1, <1>2, PrefixType
  <2>3. (IF func = 0 THEN pc + 1 ELSE scopes[func].pc) \in Nat
    <3>1. CASE func = 0
      BY <1>1, <3>1
    <3>2. CASE func # 0
      <4>1. func \in 1 .. Len(scopes)
        BY <1>1, <1>2, <3>2
      <4>2. scopes[func] \in Scope
        BY <1>1, <4>1, ElementOfSeq
      <4> QED
        BY <3>2, <4>2 DEF Scope
    <3> QED
      BY <3>1, <3>2
  <2> QED
    BY <1>6, <2>1, <2>2, <2>3, NoTransferType DEF JumpedOK
<1> QED
  BY <1>3, <1>5, <1>6

\* The scopes a back edge leaves.
LEMMA PopToLoopType ==
  ASSUME TypeOK
  PROVE  PopToLoop \in Seq(Scope)
<1> DEFINE stops == {i \in DOMAIN scopes :
                       i <= Frame.scopeBase \/ scopes[i].kind \in {"func", "loop"}}
<1>1. /\ Len(scopes) \in Nat /\ DOMAIN scopes = 1 .. Len(scopes)
      /\ scopes \in Seq(Scope)
  BY LenProperties DEF TypeOK
<1>2. Innermost(stops) \in 0 .. Len(scopes)
  BY <1>1, InnermostProperties
<1>3. PopToLoop = SubSeq(scopes, 1, Innermost(stops))
  BY DEF PopToLoop
<1> HIDE DEF stops
<1> QED
  BY <1>1, <1>2, <1>3, PrefixType

\* A scope that handle_block or func_call opens is one.
LEMMA OpenedType ==
  ASSUME TypeOK, pc \in DOMAIN Code[prog], InsAt(pc).op \in Openers
  PROVE  Opened(InsAt(pc), pc) \in Scope
<1>1. InsAt(pc) \in Instr /\ pc \in Nat /\ Len(stack) \in Nat
  BY InsType, LenProperties DEF TypeOK
<1>2. InsAt(pc).op = "LABEL" => InsAt(pc).arg \in Labels
  BY OperandType
<1>3. InsAt(pc).to \in Nat
  BY <1>1 DEF Instr
<1>4. InsAt(pc).op \in {"BLOCK", "LOOP", "TRY", "SWITCH", "LABEL"}
  BY DEF Openers
<1> QED
  BY <1>1, <1>2, <1>3, <1>4 DEF Opened, Scope, ScopeKinds

\* A step that neither starts nor ends a run, nor raises or catches an error.
LEMMA JumpPreserves ==
  ASSUME IInv, JumpedOK, leave' \in {"no", "returned", "out"},
         UNCHANGED <<prog, tape, used, frames, abort, err>>
  PROVE  IInv'
<1>1. TypeOK'
  BY DEF IInv, TypeOK, JumpedOK
<1>2. ErrorInFlight'
  BY DEF IInv, ErrorInFlight
<1>3. ParkedErrors'
  BY DEF IInv, ParkedErrors, JumpedOK, CarriesError
<1> QED
  BY <1>1, <1>2, <1>3 DEF IInv

\* What an instruction finds when it is dispatched.
LEMMA DispatchingFacts ==
  ASSUME IInv, Dispatching
  PROVE  /\ TypeOK /\ pc \in DOMAIN Code[prog] /\ ~abort /\ err = NoVal
         /\ pc \in Nat /\ pc + 1 \in Nat
         /\ scopes \in Seq(Scope) /\ stack \in Seq(Slots)
         /\ pend \in Transfer /\ CarriesError(pend)
         /\ leave = "no" /\ leave \in {"no", "returned", "out"}
         /\ frames \in Seq(RunFrame) /\ Frame \in RunFrame
         /\ InsAt(pc).to \in Nat
<1>1. frames # <<>> /\ pc \in DOMAIN Code[prog] /\ TypeOK
  BY DEF Dispatching, IInv
<1>2. InsAt(pc).to \in Nat
  BY <1>1, InsType DEF Instr
<1>3. Frame \in RunFrame
  BY <1>1, FrameType
<1> QED
  BY <1>1, <1>2, <1>3 DEF Dispatching, IInv, ErrorInFlight, ParkedErrors, TypeOK

----------------------------------------------------------------------------
(* The steps preserve the invariant. *)

\* The instructions that stay inside the run and raise nothing.
LEMMA PlainStep ==
  ASSUME IInv,
         Nil \/ Jmp \/ JmpBack \/ JmpUnless \/ Push \/ Show \/ Block \/ BlockEnd
  PROVE  IInv'
<1> Dispatching
  BY DEF Nil, Jmp, JmpBack, JmpUnless, Push, Show, Block, BlockEnd, At
<1> USE DispatchingFacts
<1>1. CASE Nil
  BY <1>1, JumpPreserves DEF Nil, JumpedOK
<1>2. CASE Jmp
  BY <1>2, JumpPreserves DEF Jmp, JumpedOK
<1>3. CASE JmpBack
  BY <1>3, JumpPreserves, PopToLoopType DEF JmpBack, JumpedOK
<1>4. CASE JmpUnless
  <2>1. Popped(stack) \in Seq(Slots)
    BY PoppedType
  <2>2. scopes' \in Seq(Scope) /\ pc' \in Nat
    BY <1>4, PopToLoopType DEF JmpUnless
  <2> QED
    BY <1>4, <2>1, <2>2, JumpPreserves DEF JmpUnless, JumpedOK
<1>5. CASE Push
  <2>1. InsAt(pc).arg \in Slots
    BY <1>5, OperandType DEF Push, At
  <2>2. Append(stack, InsAt(pc).arg) \in Seq(Slots)
    BY <2>1, AppendProperties
  <2> QED
    BY <1>5, <2>2, JumpPreserves DEF Push, JumpedOK
<1>6. CASE Show
  <2>1. Popped(stack) \in Seq(Slots)
    BY PoppedType
  <2> QED
    BY <1>6, <2>1, JumpPreserves DEF Show, JumpedOK
<1>7. CASE Block
  <2>1. Opened(InsAt(pc), pc) \in Scope
    BY <1>7, OpenedType DEF Block, Openers
  <2>2. Append(scopes, Opened(InsAt(pc), pc)) \in Seq(Scope)
    BY <2>1, AppendProperties
  <2> QED
    BY <1>7, <2>2, JumpPreserves DEF Block, JumpedOK
<1>8. CASE BlockEnd
  <2>1. Popped(scopes) \in Seq(Scope)
    BY PoppedType
  <2> QED
    BY <1>8, <2>1, JumpPreserves DEF BlockEnd, JumpedOK
<1> QED
  BY <1>1, <1>2, <1>3, <1>4, <1>5, <1>6, <1>7, <1>8

\* A condition also reads the tape.
LEMMA CondStep ==
  ASSUME IInv, Cond
  PROVE  IInv'
<1> DEFINE c == IF used < Len(tape) THEN tape[used + 1] ELSE "F"
<1>1. Dispatching
  BY DEF Cond, At
<1>2. tape \in Seq({"T", "F"}) /\ used \in 0 .. Len(tape) /\ Len(tape) \in Nat
  BY LenProperties DEF IInv, TypeOK
<1>3. c \in {"T", "F"}
  BY <1>2, ElementOfSeq
<1>4. stack' \in Seq(Slots)
  <2>1. c \in Slots
    BY <1>3 DEF Slots
  <2> QED
    BY <1>1, <2>1, DispatchingFacts, AppendProperties DEF Cond
<1>5. used' \in 0 .. Len(tape)
  BY <1>2 DEF Cond
<1>6. TypeOK'
  BY <1>1, <1>4, <1>5, DispatchingFacts DEF Cond, TypeOK
<1>7. ErrorInFlight' /\ ParkedErrors'
  BY DEF Cond, IInv, ErrorInFlight, ParkedErrors, CarriesError
<1> QED
  BY <1>6, <1>7 DEF IInv

\* The jumps out of statements, and the instruction that resumes one.
LEMMA TransferStep ==
  ASSUME IInv, Break \/ Continue \/ Return
  PROVE  IInv'
<1> Dispatching
  BY DEF Break, Continue, Return, At
<1> USE DispatchingFacts
<1>1. CASE Break
  <2>1. InsAt(pc).arg \in Labels \cup {NoLabel}
    BY <1>1, OperandType DEF Break, At
  <2>2. JumpedOK
    BY <1>1, <2>1, DoBreakType DEF Break
  <2> QED
    BY <1>1, <2>2, JumpPreserves DEF Break
<1>2. CASE Continue
  <2>1. InsAt(pc).arg \in Labels \cup {NoLabel}
    BY <1>2, OperandType DEF Continue, At
  <2>2. JumpedOK
    BY <1>2, <2>1, DoContinueType DEF Continue
  <2> QED
    BY <1>2, <2>2, JumpPreserves DEF Continue
<1>3. CASE Return
  <2>1. CASE FinishReturn(NoVal, stack)
    <3>1. JumpedOK /\ leave' \in {"no", "returned", "out"}
      BY <2>1, FinishReturnType
    <3> QED
      BY <1>3, <3>1, JumpPreserves DEF Return
  <2>2. CASE FinishReturn(TopOf(stack), Popped(stack))
    <3>1. TopOf(stack) \in Slots \cup {NoVal} /\ Popped(stack) \in Seq(Slots)
      BY TopOfType, PoppedType
    <3>2. JumpedOK /\ leave' \in {"no", "returned", "out"}
      BY <2>2, <3>1, FinishReturnType
    <3> QED
      BY <1>3, <3>2, JumpPreserves DEF Return
  <2> QED
    BY <1>3, <2>1, <2>2 DEF Return
<1> QED
  BY <1>1, <1>2, <1>3

\* A step that may raise, catch or park an error, the two halves together.
LEMMA ErrorPreserves ==
  ASSUME IInv, JumpedOK, leave' \in {"no", "returned", "out"},
         UNCHANGED <<prog, tape, used, frames>>,
         \/ abort' = FALSE /\ err' = NoVal
         \/ abort' = TRUE /\ err' \in Slots
         \/ UNCHANGED <<abort, err>>
  PROVE  IInv'
<1>1. abort' \in BOOLEAN /\ err' \in Slots \cup {NoVal}
  BY DEF IInv, TypeOK
<1>2. TypeOK'
  BY <1>1 DEF IInv, TypeOK, JumpedOK
<1>3. ErrorInFlight'
  BY ProgAssumption DEF IInv, ErrorInFlight
<1>4. ParkedErrors'
  BY DEF IInv, ParkedErrors, JumpedOK, CarriesError
<1> QED
  BY <1>2, <1>3, <1>4 DEF IInv

LEMMA FinallyEndStep ==
  ASSUME IInv, FinallyEnd
  PROVE  IInv'
<1> Dispatching
  BY DEF FinallyEnd, At
<1> USE DispatchingFacts
<1>1. pend.label \in Labels \cup {NoLabel} /\ pend.value \in Slots \cup {NoVal}
  BY DEF Transfer
<1>2. UNCHANGED <<prog, tape, used, frames>>
  BY DEF FinallyEnd
<1>3. CASE pend.op = "NONE" /\ pc' = pc + 1
           /\ UNCHANGED <<scopes, stack, pend, abort, err, leave>>
  BY <1>2, <1>3, JumpPreserves DEF JumpedOK, CarriesError
<1>4. CASE pend.op = "RETURN" /\ FinishReturn(pend.value, stack)
           /\ UNCHANGED <<abort, err>>
  BY <1>1, <1>2, <1>4, FinishReturnType, JumpPreserves
<1>5. CASE pend.op = "BREAK" /\ DoBreak(pend.label)
           /\ UNCHANGED <<abort, err, leave>>
  <2>1. JumpedOK
    BY <1>1, <1>5, DoBreakType
  <2> QED
    BY <1>2, <1>5, <2>1, JumpPreserves
<1>6. CASE pend.op = "CONTINUE" /\ DoContinue(pend.label)
           /\ UNCHANGED <<abort, err, leave>>
  <2>1. JumpedOK
    BY <1>1, <1>6, DoContinueType
  <2> QED
    BY <1>2, <1>6, <2>1, JumpPreserves
<1>7. CASE pend.op = "THROW" /\ Propagate(pend.value) /\ pend' = NoTransfer
           /\ pc' = pc + 1 /\ UNCHANGED <<scopes, stack, leave>>
  <2>1. pend.value \in Slots
    BY <1>1, <1>7 DEF CarriesError
  <2>2. JumpedOK
    BY <1>7, NoTransferType DEF JumpedOK
  <2> QED
    BY <1>2, <1>7, <2>1, <2>2, ErrorPreserves DEF Propagate
<1> QED
  BY <1>3, <1>4, <1>5, <1>6, <1>7 DEF FinallyEnd

\* The handler of scope t is a place in the code.
LEMMA HandlerType ==
  ASSUME TypeOK, NEW base, NEW t, t = InRangeTry(scopes, base), t # 0
  PROVE  EnterTry(scopes, t) \in Seq(Scope) /\ scopes[t].pc \in Nat
<1>1. scopes \in Seq(Scope) /\ Len(scopes) \in Nat
  BY LenProperties DEF TypeOK
<1>2. t \in 1 .. Len(scopes)
  BY <1>1, InRangeType
<1>3. scopes[t] \in Scope
  BY <1>1, <1>2, ElementOfSeq
<1>4. EnterTry(scopes, t) \in Seq(Scope)
  BY <1>1, <1>2, EnterTryType
<1> QED
  BY <1>3, <1>4 DEF Scope

LEMMA ThrowStep ==
  ASSUME IInv, Throw
  PROVE  IInv'
<1> Dispatching
  BY DEF Throw, At
<1> USE DispatchingFacts
<1> DEFINE t == InRangeTry(scopes, Frame.scopeBase)
           K == Truncate(stack, scopes)
           e == IF K = <<>> THEN Undef ELSE TopOf(K)
<1>1. K \in Seq(Slots) /\ Popped(K) \in Seq(Slots) /\ e \in Slots
  <2>1. K \in Seq(Slots)
    BY TruncateType
  <2>2. K # <<>> => TopOf(K) \in Slots
    BY <2>1, TopOfType
  <2>3. e \in Slots
    BY <2>2 DEF Slots
  <2> QED
    BY <2>1, <2>3, PoppedType
<1>2. \/ /\ t # 0
         /\ scopes' = EnterTry(scopes, t) /\ stack' = K /\ pc' = scopes[t].pc
         /\ UNCHANGED <<abort, err>>
      \/ /\ t = 0
         /\ err' = e /\ abort' = TRUE
         /\ stack' = Popped(K) /\ pc' = pc + 1 /\ UNCHANGED scopes
  BY DEF Throw, Propagate
<1>3. pend' = NoTransfer /\ UNCHANGED <<prog, tape, used, frames, leave>>
  BY DEF Throw
<1>4. t # 0 => EnterTry(scopes, t) \in Seq(Scope) /\ scopes[t].pc \in Nat
  BY HandlerType
<1> HIDE DEF t, K, e
<1>5. JumpedOK
  BY <1>1, <1>2, <1>3, <1>4, NoTransferType DEF JumpedOK
<1> QED
  BY <1>1, <1>2, <1>3, <1>5, ErrorPreserves

LEMMA VmThrowStep ==
  ASSUME IInv, VmThrow
  PROVE  IInv'
<1> Dispatching
  BY DEF VmThrow, At
<1> USE DispatchingFacts
<1> DEFINE t == InRangeTry(scopes, Frame.scopeBase)
           v == InsAt(pc).arg
           K == Truncate(Append(stack, v), scopes)
<1>1. v \in Slots
  BY OperandType DEF VmThrow, At
<1>2. K \in Seq(Slots)
  BY <1>1, AppendProperties, TruncateType
<1>3. \/ /\ t # 0
         /\ scopes' = EnterTry(scopes, t) /\ stack' = K /\ pc' = scopes[t].pc
         /\ UNCHANGED <<abort, err>>
      \/ /\ t = 0
         /\ err' = v /\ abort' = TRUE
         /\ pc' = pc + 1 /\ UNCHANGED <<scopes, stack>>
  BY DEF VmThrow, Propagate
<1>4. UNCHANGED <<prog, tape, used, frames, pend, leave>>
  BY DEF VmThrow
<1>5. t # 0 => EnterTry(scopes, t) \in Seq(Scope) /\ scopes[t].pc \in Nat
  BY HandlerType
<1> HIDE DEF t, K, v
<1>6. JumpedOK
  BY <1>2, <1>3, <1>4, <1>5 DEF JumpedOK, CarriesError
<1> QED
  BY <1>1, <1>3, <1>4, <1>6, ErrorPreserves

\* The stack holds the error when a native function raised, so truncating it
\* leaves a value to propagate.
LEMMA NativeThrowStep ==
  ASSUME IInv, NativeThrow
  PROVE  IInv'
<1> Dispatching
  BY DEF NativeThrow, At
<1> USE DispatchingFacts
<1> DEFINE t == InRangeTry(scopes, Frame.scopeBase)
           A == Append(stack, InsAt(pc).arg)
           K == Truncate(A, scopes)
<1>1. A \in Seq(Slots) /\ A # <<>>
  <2>1. InsAt(pc).arg \in Slots
    BY OperandType DEF NativeThrow, At
  <2> QED
    BY <2>1, AppendProperties
<1>2. K \in Seq(Slots) /\ K # <<>>
  BY <1>1, TruncateType
<1>3. TopOf(K) \in Slots /\ Append(Popped(K), Undef) \in Seq(Slots)
  <2>1. Popped(K) \in Seq(Slots)
    BY <1>2, PoppedType
  <2>2. Undef \in Slots
    BY DEF Slots
  <2>3. Append(Popped(K), Undef) \in Seq(Slots)
    BY <2>1, <2>2, AppendProperties
  <2> QED
    BY <1>2, <2>3, TopOfType
<1>4. \/ /\ t # 0
         /\ scopes' = EnterTry(scopes, t) /\ stack' = K /\ pc' = scopes[t].pc
         /\ UNCHANGED <<abort, err>>
      \/ /\ t = 0
         /\ err' = TopOf(K) /\ abort' = TRUE
         /\ stack' = Append(Popped(K), Undef) /\ pc' = pc + 1 /\ UNCHANGED scopes
  BY DEF NativeThrow, Propagate
<1>5. UNCHANGED <<prog, tape, used, frames, pend, leave>>
  BY DEF NativeThrow
<1>6. t # 0 => EnterTry(scopes, t) \in Seq(Scope) /\ scopes[t].pc \in Nat
  BY HandlerType
<1> HIDE DEF t, A, K
<1>7. JumpedOK
  BY <1>2, <1>3, <1>4, <1>5, <1>6 DEF JumpedOK, CarriesError
<1> QED
  BY <1>3, <1>4, <1>5, <1>7, ErrorPreserves

LEMMA CatchStep ==
  ASSUME IInv, Catch
  PROVE  IInv'
<1>1. Dispatching
  BY DEF Catch, At
<1>2. Popped(stack) \in Seq(Slots)
  BY <1>1, DispatchingFacts, PoppedType
<1>3. JumpedOK
  BY <1>1, <1>2, DispatchingFacts DEF Catch, JumpedOK, CarriesError
<1> QED
  BY <1>1, <1>3, DispatchingFacts, JumpPreserves DEF Catch

\* The function's scope and the run it starts.
LEMMA EnterPreserves ==
  ASSUME IInv, Dispatching, NEW entry \in Nat, NEW K \in Seq(Slots),
         NEW via \in {"call", "native"}, Enter(entry, K, via),
         UNCHANGED <<prog, tape, used, abort, err, leave, log>>
  PROVE  IInv'
<1> USE DispatchingFacts
<1> DEFINE run == [scopeBase |-> Len(scopes) + 1, stackBase |-> Len(K) + 1,
                   saved |-> pend, resume |-> pc + 1, via |-> via]
<1>1. Append(K, Env) \in Seq(Slots) /\ Len(K) + 1 \in Nat
  <2>1. Env \in Slots
    BY DEF Slots
  <2> QED
    BY <2>1, AppendProperties, LenProperties
<1>2. FuncScopeFor(Append(K, Env)) \in Scope
  <2>1. Len(Append(K, Env)) \in Nat
    BY <1>1, LenProperties
  <2> QED
    BY <2>1 DEF FuncScopeFor, Scope, ScopeKinds
<1>3. run \in RunFrame /\ CarriesError(run.saved)
  BY <1>1, LenProperties DEF RunFrame
<1>4. frames' = Append(frames, run)
  BY DEF Enter
<1> HIDE DEF run
<1>5. /\ frames' \in Seq(RunFrame)
      /\ \A i \in 1 .. Len(frames') : CarriesError(frames'[i].saved)
  <2>1. Len(frames) \in Nat
    BY LenProperties
  <2>2. /\ frames' \in Seq(RunFrame) /\ Len(frames') = Len(frames) + 1
        /\ \A i \in 1 .. Len(frames) : frames'[i] = frames[i]
        /\ frames'[Len(frames) + 1] = run
    BY <1>3, <1>4, AppendProperties
  <2>3. SUFFICES ASSUME NEW i \in 1 .. Len(frames') PROVE CarriesError(frames'[i].saved)
    BY <2>2
  <2>4. CASE i \in 1 .. Len(frames)
    BY <2>2, <2>4 DEF IInv, ParkedErrors
  <2>5. CASE i = Len(frames) + 1
    BY <2>2, <2>5, <1>3
  <2> QED
    BY <2>1, <2>2, <2>4, <2>5
<1>6. scopes' \in Seq(Scope)
  BY <1>2, AppendProperties DEF Enter
<1>7. TypeOK'
  BY <1>1, <1>5, <1>6, NoTransferType DEF Enter, TypeOK
<1>8. ErrorInFlight'
  BY DEF IInv, ErrorInFlight
<1>9. ParkedErrors'
  BY <1>5, NoTransferType DEF Enter, ParkedErrors, CarriesError
<1> QED
  BY <1>7, <1>8, <1>9 DEF IInv

LEMMA CallStep ==
  ASSUME IInv, Call \/ CallNative
  PROVE  IInv'
<1> Dispatching
  BY DEF Call, CallNative, At
<1> USE DispatchingFacts
<1>1. UNCHANGED <<prog, tape, used, abort, err, leave, log>>
  BY DEF Call, CallNative
<1>2. Env \in Slots /\ Undef \in Slots
  BY DEF Slots
<1>3. CASE TooDeep
  <2>1. <<Undef>> \in Seq(Slots)
    BY <1>2
  <2>2. JumpedOK
    BY <1>3, <2>1, EndPcType, EmptySeq DEF TooDeep, JumpedOK, CarriesError
  <2> QED
    BY <1>1, <1>3, <2>2, JumpPreserves DEF TooDeep
<1>4. CASE Enter(InsAt(pc).to, stack, "call")
  BY <1>1, <1>4, EnterPreserves
<1>5. CASE Enter(InsAt(pc).to, Append(stack, Env), "native")
  <2>1. Append(stack, Env) \in Seq(Slots)
    BY <1>2, AppendProperties
  <2> QED
    BY <1>1, <1>5, <2>1, EnterPreserves
<1> QED
  BY <1>3, <1>4, <1>5 DEF Call, CallNative

LEMMA RunEndStep ==
  ASSUME IInv, RunEnd
  PROVE  IInv'
BY JumpPreserves DEF RunEnd, JumpedOK, IInv, TypeOK, ParkedErrors, CarriesError

\* The run that ends leaves one value for its caller.
LEMMA CallResultType ==
  ASSUME TypeOK, frames # <<>>
  PROVE  CallResult(Frame) \in Seq(Slots)
<1> DEFINE ret == IF err = NoVal /\ leave = "returned" THEN TopOf(stack) ELSE Undef
           below == Down(stack, Frame.stackBase - 1)
           natEnv == IF Frame.via = "native" THEN Popped(below) ELSE below
           result == IF ret = NoVal THEN Undef ELSE ret
<1>1. stack \in Seq(Slots) /\ Frame \in RunFrame
  BY FrameType DEF TypeOK
<1>2. Frame.stackBase - 1 \in Int
  BY <1>1 DEF RunFrame
<1>3. below \in Seq(Slots)
  BY <1>1, <1>2, DownType
<1>4. natEnv \in Seq(Slots)
  <2> HIDE DEF below
  <2> QED
    BY <1>3, PoppedType
<1>5. result \in Slots
  <2>1. Undef \in Slots
    BY DEF Slots
  <2>2. TopOf(stack) \in Slots \cup {NoVal}
    BY <1>1, TopOfType
  <2> QED
    BY <2>1, <2>2
<1>6. CallResult(Frame) = Append(natEnv, result)
  BY DEF CallResult
<1> HIDE DEF natEnv, result
<1> QED
  BY <1>4, <1>5, <1>6, AppendProperties

LEMMA CallReturnStep ==
  ASSUME IInv, CallReturn
  PROVE  IInv'
<1> DEFINE n == Len(frames)
<1>1. TypeOK /\ frames \in Seq(RunFrame) /\ n \in Nat /\ n > 1
  BY LenProperties DEF IInv, TypeOK, CallReturn
<1>2. frames # <<>>
  BY <1>1, EmptySeq
<1>3. Frame \in RunFrame /\ Frame = frames[n]
  BY <1>1, <1>2, FrameType DEF Frame
<1>4. Frame.saved \in Transfer /\ CarriesError(Frame.saved)
  BY <1>1, <1>3 DEF RunFrame, IInv, ParkedErrors
<1>5. /\ frames' \in Seq(RunFrame)
      /\ Len(frames') = n - 1
      /\ \A i \in 1 .. n - 1 : frames'[i] = frames[i]
  BY <1>1, PrefixType DEF CallReturn
<1>6. scopes' \in Seq(Scope) /\ pc' \in Nat
  <2>1. Frame.scopeBase - 1 \in Int /\ Frame.resume \in Nat
    BY <1>3 DEF RunFrame
  <2>2. Down(scopes, Frame.scopeBase - 1) \in Seq(Scope)
    BY <1>1, <2>1, DownType DEF TypeOK
  <2> QED
    BY <1>1, <2>1, <2>2 DEF CallReturn, TypeOK
<1>7. stack' \in Seq(Slots)
  BY <1>1, <1>2, CallResultType DEF CallReturn
<1>8. TypeOK'
  BY <1>1, <1>4, <1>5, <1>6, <1>7 DEF CallReturn, TypeOK
<1>9. ErrorInFlight'
  BY DEF IInv, ErrorInFlight, CallReturn
<1>10. ParkedErrors'
  BY <1>1, <1>4, <1>5 DEF IInv, ParkedErrors, CallReturn, CarriesError
<1> QED
  BY <1>8, <1>9, <1>10 DEF IInv

LEMMA ScriptEndStep ==
  ASSUME IInv, ScriptEnd
  PROVE  IInv'
<1>1. TypeOK /\ Len(frames) = 1
  BY DEF IInv, ScriptEnd
<1>2. frames # <<>>
  <2>1. Len(<<>>) = 0
    BY EmptySeq
  <2> QED
    BY <1>1, <2>1
<1>3. Frame.saved \in Transfer /\ CarriesError(Frame.saved)
  BY <1>1, <1>2, FrameType DEF RunFrame, IInv, ParkedErrors, Frame
<1>4. <<>> \in Seq(RunFrame) /\ Len(<<>>) = 0
  BY EmptySeq
<1>5. TypeOK'
  BY <1>1, <1>3, <1>4 DEF ScriptEnd, TypeOK
<1>6. ErrorInFlight'
  BY DEF ScriptEnd, ErrorInFlight
<1>7. ParkedErrors'
  BY <1>3, <1>4 DEF ScriptEnd, ParkedErrors, CarriesError
<1> QED
  BY <1>5, <1>6, <1>7 DEF IInv

\* An error that unwinds is caught, parked for a finally, or passed to the
\* caller; in each case it is in exactly one place afterwards.
LEMMA AbortStep ==
  ASSUME IInv, AbortCatch \/ AbortFinally \/ AbortLeave
  PROVE  IInv'
<1>1. TypeOK /\ frames # <<>> /\ abort /\ err \in Slots
  BY DEF AbortCatch, AbortFinally, AbortLeave, Aborting, IInv, ErrorInFlight, TypeOK
<1>2. Frame.stackBase \in Nat /\ Frame.scopeBase \in Nat
  BY <1>1, FrameType DEF RunFrame
<1>3. /\ Down(stack, Frame.stackBase) \in Seq(Slots)
      /\ Down(scopes, Frame.scopeBase) \in Seq(Scope)
  <2>1. Frame.stackBase \in Int /\ Frame.scopeBase \in Int
    BY <1>2
  <2>2. stack \in Seq(Slots) /\ scopes \in Seq(Scope)
    BY <1>1 DEF TypeOK
  <2> QED
    BY <2>1, <2>2, DownType
<1>4. scopes \in Seq(Scope) /\ Len(scopes) \in Nat
  BY <1>1, LenProperties DEF TypeOK
<1>5. CASE AbortCatch
  <2> DEFINE t == InRangeTry(scopes, Frame.scopeBase)
  <2>1. t # 0 /\ scopes' = EnterTry(scopes, t) /\ pc' = scopes[t].pc
    BY <1>5 DEF AbortCatch
  <2>2. EnterTry(scopes, t) \in Seq(Scope) /\ scopes[t].pc \in Nat
    BY <1>1, <2>1, HandlerType
  <2>3. stack' \in Seq(Slots)
    BY <1>1, <1>3, <1>5, AppendProperties DEF AbortCatch, Slots
  <2>4. JumpedOK
    BY <1>1, <1>5, <2>1, <2>2, <2>3
    DEF AbortCatch, JumpedOK, IInv, TypeOK, ParkedErrors, CarriesError
  <2> QED
    BY <1>1, <1>5, <2>4, ErrorPreserves DEF AbortCatch, TypeOK
<1>6. CASE AbortFinally
  <2> DEFINE f == InRangeFinally(scopes, Frame.scopeBase)
  <2>1. /\ f # 0 /\ scopes' = SubSeq(scopes, 1, f - 1) /\ pc' = scopes[f].fin
        /\ pend' = Parked("THROW", err, NoLabel, scopes[f].fin)
    BY <1>6 DEF AbortFinally, RunFinally
  <2>2. f \in 1 .. Len(scopes)
    BY <1>4, <2>1, InRangeType
  <2>3. scopes[f].fin \in Nat
    <3>1. scopes[f] \in Scope
      BY <1>4, <2>2, ElementOfSeq
    <3> QED
      BY <3>1 DEF Scope
  <2>4. SubSeq(scopes, 1, f - 1) \in Seq(Scope)
    BY <1>4, <2>2, PrefixType
  <2>5. pend' \in Transfer /\ CarriesError(pend')
    BY <1>1, <2>1, <2>3, ProgAssumption DEF Parked, Transfer, CarriesError
  <2> HIDE DEF f
  <2>6. JumpedOK
    BY <1>3, <1>6, <2>1, <2>3, <2>4, <2>5 DEF AbortFinally, JumpedOK
  <2> QED
    BY <1>1, <1>6, <2>6, ErrorPreserves DEF AbortFinally, TypeOK
<1>7. CASE AbortLeave
  <2>1. JumpedOK
    BY <1>1, <1>3, <1>7
    DEF AbortLeave, JumpedOK, IInv, TypeOK, ParkedErrors, CarriesError
  <2> QED
    BY <1>7, <2>1, JumpPreserves DEF AbortLeave
<1> QED
  BY <1>5, <1>6, <1>7

----------------------------------------------------------------------------
(* The theorems. *)

LEMMA InitIInv == Init => IInv
<1> SUFFICES ASSUME Init PROVE IInv
  OBVIOUS
<1> DEFINE run == [scopeBase |-> 0, stackBase |-> 0, saved |-> NoTransfer,
                   resume |-> 0, via |-> "top"]
<1>1. frames = <<run>>
  BY DEF Init
<1>2. run \in RunFrame /\ CarriesError(run.saved)
  BY NoTransferType DEF RunFrame
<1> HIDE DEF run
<1>3. frames \in Seq(RunFrame) /\ \A i \in 1 .. Len(frames) : CarriesError(frames[i].saved)
  BY <1>1, <1>2
<1>4. TypeOK
  <2>1. prog \in DOMAIN Code
    BY ProgAssumption DEF Init
  <2>2. tape \in Seq({"T", "F"}) /\ used \in 0 .. Len(tape)
    <3>1. tape \in Seq({"T", "F"}) /\ used = 0
      BY ProgAssumption DEF Init
    <3> QED
      BY <3>1, LenProperties
  <2>3. scopes \in Seq(Scope) /\ stack \in Seq(Slots)
    BY EmptySeq DEF Init
  <2> QED
    BY <1>3, <2>1, <2>2, <2>3, NoTransferType DEF Init, TypeOK
<1>5. ErrorInFlight /\ ParkedErrors
  BY <1>3, NoTransferType DEF Init, ErrorInFlight, ParkedErrors
<1> QED
  BY <1>4, <1>5 DEF IInv

LEMMA NextIInv == IInv /\ [Next]_vars => IInv'
<1> SUFFICES ASSUME IInv, [Next]_vars PROVE IInv'
  OBVIOUS
<1>1. CASE UNCHANGED vars \/ Halted
  BY <1>1 DEF vars, Halted, IInv, TypeOK, ErrorInFlight, ParkedErrors, CarriesError
<1>2. CASE Step
  BY <1>2, PlainStep, CondStep, TransferStep, FinallyEndStep, ThrowStep,
     VmThrowStep, NativeThrowStep, CatchStep, CallStep, RunEndStep,
     CallReturnStep, ScriptEndStep, AbortStep DEF Step
<1> QED
  BY <1>1, <1>2 DEF Next

\* The interpreter's state is well typed for every program that is well
\* formed, every tape and every depth limit: no handler leaves a stack, a
\* parked transfer or a program counter that the others cannot read.
THEOREM TypeCorrect == Spec => []TypeOK
<1>1. IInv => TypeOK
  BY DEF IInv
<1> QED
  BY <1>1, InitIInv, NextIInv, PTL DEF Spec

\* For every program, vm_run unwinds exactly while there is an error to
\* deliver, through every finally that parks it and every call it crosses.
THEOREM ErrorInFlightCorrect == Spec => []ErrorInFlight
<1>1. IInv => ErrorInFlight
  BY DEF IInv
<1> QED
  BY <1>1, InitIInv, NextIInv, PTL DEF Spec
=============================================================================
