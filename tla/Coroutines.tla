----------------------------- MODULE Coroutines -----------------------------
(***************************************************************************)
(* Generators and async functions, mario/mario.c: a body that yields, or   *)
(* that awaits a pending promise, leaves its vm_run; its segment of the    *)
(* scope stack and of the value stack is parked and put back, on whatever  *)
(* the stacks then hold, when the coroutine is resumed.  A generator is    *)
(* resumed by a native method, an async function by a promise reaction.    *)
(*                                                                         *)
(* The interpreter is VMRun; this module adds the instructions and native  *)
(* calls that start, suspend and resume a body.  `drivers` is the C frames *)
(* of gen_resume_body, async_resume and func_call that wait for a body's   *)
(* vm_run; `drains` the promise drains that are part-way through the       *)
(* reactions of a promise.                                                 *)
(*                                                                         *)
(* Coroutines are numbered; 0 is the script that owns them.  Promises are  *)
(* numbered too, and the promise of async function a has its number.       *)
(***************************************************************************)
EXTENDS VMRun

CONSTANTS
  NCo,            \* number of coroutines
  NPromises,      \* number of promises, the first NCo those of coroutines
  Entry(_, _),    \* where the body of a coroutine starts
  IsAsync(_, _),  \* whether it is an async function or a generator
  Modes(_),       \* whether a drain runs inside the call that settles
  Generic,        \* the error object of "uncaught exception in generator"
  DoneOf(_),      \* the iterator result {value, done: true}
  PromiseVal,     \* a promise as a script value
  HostVals        \* what a host operation settles a promise with

Co == 1 .. NCo
Entries == [p \in Progs |-> [c \in Co |-> Entry(p, c)]]
Promise == 1 .. NPromises

ASSUME CoroutineAssumption ==
  /\ NCo \in Nat /\ NPromises \in Nat /\ NCo <= NPromises
  /\ \A p \in Progs : Modes(p) \subseteq BOOLEAN

VARIABLES
  co,             \* gen_state_t and async_frame_t, by coroutine
  promise,        \* state, value and awaiting frames of the promises
  drivers,        \* who waits for a body's vm_run, the innermost last
  drains,         \* the drains under way, the innermost last
  queue,          \* the embedder's microtasks: the promises to drain
  inline,         \* the host has no microtask table
  head, next,     \* @@async_head, and each anchor's @@async_next
  handed,         \* vm->yield_value, and the promise or generator behind it
  got, trace, last \* histories: inputs of a body, what it showed, its outcome

promiseVars == <<promise, queue, drains, inline>>
chainVars == <<head, next>>
histories == <<got, trace, last>>
coVars == <<co, promiseVars, drivers, chainVars, handed, histories>>
allVars == <<vars, coVars>>

----------------------------------------------------------------------------
(* Records. *)

\* gen_state_t and async_frame_t. delegate: the generator a yield* goes on
\* with; scopes and stack: the parked segments.
State == [started : BOOLEAN, done : BOOLEAN, delegate : Co \cup {0}, pc : Nat,
          scopes : Seq(Scope), stack : Seq(Slots)]

\* A promise, and the frames that wait for it, in the order of their reactions.
PromiseState == [st : {"PENDING", "FULFILLED", "REJECTED"},
                 v : Slots \cup {NoVal}, waiting : Seq(Co)]

\* then: what becomes of the outcome of the body. It is the iterator result of
\* the method that resumed it, or of generator `for` that delegates to it, or
\* starts the yield* of the body below; or it goes to a promise.
Driver == [co : Co, scopeBase : Nat, stackBase : Nat, pc : Nat,
           then : {"result", "forward", "star", "first", "settle"},
           for : Co \cup {0}]

\* One reaction of a drain, or the async_unroot that follows a settlement.
Task == [do : {"resume", "unroot"}, co : Co, on : Promise]

Waiter == drivers[Len(drivers)]

\* The coroutine whose body is on top, 0 for the script, and the one that will
\* be once that body has left.
Running == IF drivers = <<>> THEN 0 ELSE Waiter.co
Beneath == IF Len(drivers) < 2 THEN 0 ELSE drivers[Len(drivers) - 1].co

Draining == drains # <<>> /\ drains[Len(drains)].at = Len(frames)
Ready == Dispatching /\ ~Draining

Defined(v) == IF v = NoVal THEN Undef ELSE v
Result(v, done) == IF done THEN DoneOf(Defined(v)) ELSE Defined(v)

Receives(c, k, v) == got' = [got EXCEPT ![c] = Append(@, [k |-> k, v |-> v])]
Ends(c, t, v) == last' = [last EXCEPT ![c] = [t |-> t, v |-> Defined(v)]]

----------------------------------------------------------------------------
(* Parking and restoring segments. *)

\* gen_suspend, async_detach: what is above the driver's bases is the body's.
ParkedAs_WithPlaceholder(c, d, K) ==
  [co[c] EXCEPT !.pc = pc,
                !.scopes = SubSeq(scopes, d.scopeBase + 1, Len(scopes)),
                !.stack = Append(SubSeq(K, d.stackBase + 1, Len(K)), Undef)]
ParkedAs(c, d, K) ==
  [co[c] EXCEPT !.pc = pc,
                !.scopes = SubSeq(scopes, d.scopeBase + 1, Len(scopes)),
                !.stack = SubSeq(K, d.stackBase + 1, Len(K))]

\* gen_restore, async_attach.
Restored(c) == [co[c] EXCEPT !.scopes = <<>>, !.stack = <<>>]

\* async_resume moves the baseline of the body's scope to where it is now.
Rebased_Not(S, base) == S
Rebased(S, base) == IF S = <<>> THEN S ELSE [S EXCEPT ![1].base = base]

\* The innermost armed try of a segment, where a thrown value enters.
OwnTry(S) == Innermost({i \in DOMAIN S : S[i].armed})

DriverOf(c, K, back, then, for) ==
  [co |-> c, scopeBase |-> Len(scopes), stackBase |-> Len(K), pc |-> back,
   then |-> then, for |-> for]

\* vm_run on stacks S, K from p on, with driver d; the slot is saved, cleared.
EnterRun(S, K, p, d) ==
  /\ scopes' = S
  /\ stack' = K
  /\ pc' = p
  /\ frames' = Append(frames, [scopeBase |-> Len(S), stackBase |-> Len(K),
                               saved |-> pend, resume |-> d.pc, via |-> "body"])
  /\ pend' = NoTransfer
  /\ drivers' = Append(drivers, d)

\* The body's vm_run has come back to its driver.
LeaveRun ==
  /\ frames' = SubSeq(frames, 1, Len(frames) - 1)
  /\ pend' = Frame.saved
  /\ leave' = "no"
  /\ drivers' = SubSeq(drivers, 1, Len(drivers) - 1)

----------------------------------------------------------------------------
(* gen_resume. K is the value stack with the environments of the native    *)
(* methods on top; a method pops its own and pushes its result.             *)

\* gen_resume_body for a generator that never ran: its scope, then its code.
StartBody(g, K, then, for) ==
  LET s == [kind |-> "func", armed |-> FALSE, fin |-> 0, pc |-> pc + 1, start |-> 0,
            label |-> NoLabel, base |-> Len(K)]
  IN  /\ co' = [co EXCEPT ![g].started = TRUE]
      /\ EnterRun(Append(scopes, s), K, co[g].pc, DriverOf(g, K, pc + 1, then, for))

\* gen_resume_body for one that yielded: the value sent goes where the yield
\* left off. No baseline is moved.
GoOn(g, K, v, then, for) ==
  /\ co' = [co EXCEPT ![g] = [Restored(g) EXCEPT !.delegate = 0]]
  /\ EnterRun(scopes \o co[g].scopes, Append(K \o co[g].stack, Defined(v)), co[g].pc,
              DriverOf(g, K, pc + 1, then, for))
  /\ Receives(g, "next", Defined(v))

NextBody(g, K, v, then, for) ==
  \/ /\ ~co[g].started
     /\ StartBody(g, K, then, for)
     /\ UNCHANGED got
  \/ /\ co[g].started
     /\ GoOn(g, K, v, then, for)

\* A method answers without running a body.
Answer(v) ==
  /\ stack' = Append(stack, v)
  /\ pc' = pc + 1
  /\ Receives(Running, "next", v)
  /\ UNCHANGED <<scopes, frames, pend, drivers>>

\* native_gen_next; through the delegate while there is one, and with its
\* result once it is done.
GenNext ==
  /\ Ready /\ InsAt(pc).op = "GEN_NEXT"
  /\ LET g == InsAt(pc).to
         v == InsAt(pc).arg
         h == co[g].delegate
         K == Append(stack, Env)
     IN  \/ /\ co[g].done
            /\ Answer(Result(NoVal, TRUE))
            /\ UNCHANGED co
         \/ /\ ~co[g].done /\ h = 0
            /\ NextBody(g, K, v, "result", 0)
         \/ /\ ~co[g].done /\ h # 0 /\ ~co[h].done
            /\ NextBody(h, Append(K, Env), v, "forward", g)
         \/ /\ ~co[g].done /\ h # 0 /\ co[h].done
            /\ NextBody(g, K, NoVal, "result", 0)
  /\ UNCHANGED <<prog, tape, used, abort, err, leave, log, promiseVars, chainVars,
                 handed, trace, last>>

\* native_gen_return: gen_cleanup gives up the parked body as it is.
GenReturn ==
  /\ Ready /\ InsAt(pc).op = "GEN_RETURN"
  /\ LET g == InsAt(pc).to
         v == InsAt(pc).arg
     IN  /\ Answer(Result(v, TRUE))
         /\ co' = [co EXCEPT ![g] = [Restored(g) EXCEPT !.done = TRUE, !.delegate = 0]]
         /\ IF co[g].done THEN UNCHANGED last ELSE Ends(g, "given up", v)
  /\ UNCHANGED <<prog, tape, used, abort, err, leave, log, promiseVars, chainVars,
                 handed, trace>>

\* A throw into a parked body that has a try open.
ThrowInto(g, v) ==
  LET K == Append(stack, Env)
      t == Len(scopes) + OwnTry(co[g].scopes)
      S == scopes \o co[g].scopes
  IN  /\ co' = [co EXCEPT ![g] = Restored(g)]
      /\ EnterRun(EnterTry(S, t), Append(K \o co[g].stack, v), S[t].pc,
                  DriverOf(g, K, pc + 1, "result", 0))
      /\ Receives(g, "throw", v)

\* Without one the body is given up and the method raises: vm_throw goes to
\* the caller's try at once, and the tail of func_call, which takes the error
\* for its environment, leaves the method's result in its place.
ThrowPast(g) ==
  LET t == InRangeTry(scopes, Frame.scopeBase)
      K == Truncate(stack \o <<Env, Generic>>, scopes)
  IN  /\ co' = [co EXCEPT ![g] = [Restored(g) EXCEPT !.started = TRUE, !.done = TRUE]]
      /\ \/ /\ t # 0
            /\ scopes' = EnterTry(scopes, t)
            /\ stack' = Append(Popped(K), Result(NoVal, TRUE))
            /\ pc' = scopes[t].pc
            /\ Receives(Running, "throw", Result(NoVal, TRUE))
            /\ UNCHANGED <<abort, err>>
         \/ /\ t = 0
            /\ Propagate(Generic)
            /\ stack' = Append(stack, Undef)
            /\ pc' = pc + 1
            /\ Receives(Running, "throw", Generic)
            /\ UNCHANGED scopes
      /\ UNCHANGED <<frames, pend, drivers>>

\* native_gen_throw, for a generator that is not delegating.
GenThrow ==
  /\ Ready /\ InsAt(pc).op = "GEN_THROW"
  /\ LET g == InsAt(pc).to
     IN  \/ /\ co[g].done
            /\ Answer(Result(NoVal, TRUE))
            /\ UNCHANGED <<co, abort, err, last>>
         \/ /\ ~co[g].done /\ OwnTry(co[g].scopes) # 0
            /\ ThrowInto(g, InsAt(pc).arg)
            /\ UNCHANGED <<abort, err, last>>
         \/ /\ ~co[g].done /\ OwnTry(co[g].scopes) = 0
            /\ ThrowPast(g)
            /\ Ends(g, "given up", Generic)
  /\ UNCHANGED <<prog, tape, used, leave, log, promiseVars, chainVars, handed, trace>>

----------------------------------------------------------------------------
(* Yielding, and what the driver of a generator does when its body leaves.  *)

\* handle_yield for INSTR_YIELD.
Yield ==
  /\ Ready /\ InsAt(pc).op = "YIELD"
  /\ handed' = [v |-> TopOf(stack), from |-> 0]
  /\ stack' = Popped(stack)
  /\ pc' = pc + 1
  /\ leave' = "yield"
  /\ UNCHANGED <<prog, tape, used, scopes, frames, pend, abort, err, log, co,
                 promiseVars, drivers, chainVars, histories>>

\* handle_yield for INSTR_YIELD_STAR over generator h: its first step is taken
\* inside the handler, and h is not delegated to when that step is its last.
YieldStar ==
  /\ Ready /\ InsAt(pc).op = "YIELD_STAR"
  /\ LET h == InsAt(pc).to
     IN  \/ /\ co[h].done
            /\ stack' = Append(stack, Undef)
            /\ pc' = pc + 1
            /\ Receives(Running, "next", Undef)
            /\ UNCHANGED <<scopes, frames, pend, drivers, co>>
         \/ /\ ~co[h].done
            /\ NextBody(h, Append(stack, Env), NoVal, "star", 0)
  /\ UNCHANGED <<prog, tape, used, abort, err, leave, log, promiseVars, chainVars,
                 handed, trace, last>>

\* The native environments under a body, and what the stack is without them.
Envs(d) == CASE d.then = "forward" -> 2 [] d.then = "settle" -> 0 [] OTHER -> 1
Under(d) == Down(stack, d.stackBase - Envs(d))

\* An iterator result reaches whoever asked for it: as the method's result, or
\* as the first value of the yield* of the body below, which thereby yields it
\* and delegates to h.
HandOn(d, v) ==
  \/ /\ d.then # "star" \/ err # NoVal
     /\ stack' = Append(Under(d), v)
     /\ leave' = "no"
     /\ IF err = NoVal THEN Receives(Beneath, "next", v)
                       ELSE Receives(Beneath, "throw", err)
     /\ UNCHANGED handed
  \/ /\ d.then = "star" /\ err = NoVal
     /\ stack' = Under(d)
     /\ leave' = "yield"
     /\ handed' = [v |-> v, from |-> d.co]
     /\ UNCHANGED got

BodyLeaves(how) ==
  /\ drivers # <<>> /\ frames # <<>> /\ Frame.via = "body" /\ ~Draining
  /\ leave \in how
  /\ Waiter.then \in {"result", "forward", "star"}

\* gen_resume_body after a yield: the segments are parked.
GenSuspend ==
  /\ BodyLeaves({"yield"})
  /\ frames' = SubSeq(frames, 1, Len(frames) - 1)
  /\ drivers' = SubSeq(drivers, 1, Len(drivers) - 1)
  /\ pend' = Frame.saved
  /\ co' = [co EXCEPT ![Waiter.co] =
              [ParkedAs(Waiter.co, Waiter, stack) EXCEPT !.delegate = handed.from]]
  /\ scopes' = Down(scopes, Waiter.scopeBase)
  /\ pc' = Waiter.pc
  /\ HandOn(Waiter, IF err = NoVal THEN Defined(handed.v) ELSE Undef)
  /\ Ends(Waiter.co, "suspend", handed.v)
  /\ UNCHANGED <<prog, tape, used, abort, err, log, promiseVars, chainVars, trace>>

\* What a finished body returns; an error that leaves it keeps propagating.
BodyValue == IF leave = "returned" /\ err = NoVal THEN TopOf(stack) ELSE NoVal

\* gen_resume_body at the end of the body, for a result that is the method's
\* or for an error: one that leaves a delegate takes the generator that
\* delegated with it, whose own run is entered with the error under way and
\* unwinds at once.
GenFinish ==
  /\ BodyLeaves({"returned", "out"})
  /\ Waiter.then = "result" \/ err # NoVal
  /\ frames' = SubSeq(frames, 1, Len(frames) - 1)
  /\ drivers' = SubSeq(drivers, 1, Len(drivers) - 1)
  /\ pend' = Frame.saved
  /\ scopes' = Down(scopes, Waiter.scopeBase)
  /\ pc' = Waiter.pc
  /\ HandOn(Waiter, IF err = NoVal THEN Result(BodyValue, TRUE) ELSE Undef)
  /\ LET own == IF err = NoVal THEN [t |-> "return", v |-> Defined(BodyValue)]
                               ELSE [t |-> "throw", v |-> err]
         gone == IF Waiter.for = 0 THEN {} ELSE {Waiter.for}
     IN  /\ co' = [c \in Co |-> IF c = Waiter.co THEN [co[c] EXCEPT !.done = TRUE]
                                ELSE IF c \in gone
                                THEN [Restored(c) EXCEPT !.done = TRUE, !.delegate = 0]
                                ELSE co[c]]
         /\ last' = [c \in Co |-> IF c = Waiter.co THEN own
                                  ELSE IF c \in gone THEN [t |-> "given up", v |-> err]
                                  ELSE last[c]]
  /\ UNCHANGED <<prog, tape, used, abort, err, log, promiseVars, chainVars, trace>>

\* The yield* of the body below has its value without yielding at all.
StarFinish ==
  /\ BodyLeaves({"returned", "out"})
  /\ Waiter.then = "star" /\ err = NoVal
  /\ LeaveRun
  /\ co' = [co EXCEPT ![Waiter.co].done = TRUE]
  /\ scopes' = Down(scopes, Waiter.scopeBase)
  /\ pc' = Waiter.pc
  /\ stack' = Append(Under(Waiter), Defined(BodyValue))
  /\ Receives(Beneath, "next", Defined(BodyValue))
  /\ Ends(Waiter.co, "return", BodyValue)
  /\ UNCHANGED <<prog, tape, used, abort, err, log, promiseVars, chainVars, handed, trace>>

\* A delegate is done: the generator that delegated goes on with its value.
ForwardFinish ==
  /\ BodyLeaves({"returned", "out"})
  /\ Waiter.then = "forward" /\ err = NoVal
  /\ LET g == Waiter.for
         K == Append(Under(Waiter), Env)
         d == [Waiter EXCEPT !.co = g, !.stackBase = Len(K), !.then = "result", !.for = 0]
         S == Down(scopes, Waiter.scopeBase) \o co[g].scopes
         L == Append(K \o co[g].stack, Defined(BodyValue))
     IN  /\ co' = [co EXCEPT ![Waiter.co].done = TRUE,
                             ![g] = [Restored(g) EXCEPT !.delegate = 0]]
         /\ scopes' = S
         /\ stack' = L
         /\ pc' = co[g].pc
         /\ frames' = [frames EXCEPT ![Len(frames)] =
                         [@ EXCEPT !.scopeBase = Len(S), !.stackBase = Len(L)]]
         /\ drivers' = [drivers EXCEPT ![Len(drivers)] = d]
         /\ Receives(g, "next", Defined(BodyValue))
  /\ pend' = NoTransfer
  /\ leave' = "no"
  /\ Ends(Waiter.co, "return", BodyValue)
  /\ UNCHANGED <<prog, tape, used, abort, err, log, promiseVars, chainVars, handed, trace>>

----------------------------------------------------------------------------
(* The chain of anchors at @@async_head, which roots the parked frames.    *)

\* async_root.
Root(a) ==
  /\ next' = IF head = 0 THEN next ELSE [next EXCEPT ![a] = head]
  /\ head' = a

\* async_unroot: the head, or the anchor whose successor it is.
Unroot_LosesTail(a) ==
  \/ /\ head = a
     /\ head' = next[a]
     /\ next' = [next EXCEPT ![a] = 0]
  \/ /\ head # a
     /\ UNCHANGED head
     /\ next' = [c \in Co |-> IF c = a \/ next[c] = a THEN 0 ELSE next[c]]
Unroot(a) ==
  \/ /\ head = a
     /\ head' = next[a]
     /\ next' = [next EXCEPT ![a] = 0]
  \/ /\ head # a
     /\ UNCHANGED head
     /\ next' = [c \in Co |-> IF c = a THEN 0
                              ELSE IF next[c] = a THEN next[a] ELSE next[c]]

Chain ==
  LET from[n \in 0 .. NCo] == IF n = 0 THEN {head} \ {0}
                              ELSE from[n - 1] \cup ({next[c] : c \in from[n - 1]} \ {0})
  IN  from[NCo]

----------------------------------------------------------------------------
(* Async functions. *)

\* The call of an async function, by func_call.
StartAsync ==
  /\ Ready /\ InsAt(pc).op = "CALL_ASYNC"
  /\ LET a == InsAt(pc).to
         K == Append(stack, Env)
     IN  /\ ~co[a].started
         /\ StartBody(a, K, "first", 0)
  /\ UNCHANGED <<prog, tape, used, abort, err, leave, log, promiseVars, chainVars,
                 handed, got, trace, last>>

\* native_await on promise p: a pending one suspends the body, a fulfilled one
\* gives its value, a rejected one raises in the calling run.
Await ==
  /\ Ready /\ InsAt(pc).op = "AWAIT"
  /\ LET p == InsAt(pc).to
         t == InRangeTry(scopes, Frame.scopeBase)
         K == Truncate(Append(stack, promise[p].v), scopes)
     IN  \/ /\ promise[p].st = "PENDING"
            /\ handed' = [v |-> NoVal, from |-> p]
            /\ leave' = "await"
            /\ pc' = pc + 1
            /\ UNCHANGED <<scopes, stack, abort, err, got>>
         \/ /\ promise[p].st = "FULFILLED"
            /\ stack' = Append(stack, promise[p].v)
            /\ pc' = pc + 1
            /\ Receives(Running, "next", promise[p].v)
            /\ UNCHANGED <<scopes, abort, err, leave, handed>>
         \/ /\ promise[p].st = "REJECTED"
            /\ Receives(Running, "throw", promise[p].v)
            /\ \/ /\ t # 0
                  /\ scopes' = EnterTry(scopes, t)
                  /\ stack' = K
                  /\ pc' = scopes[t].pc
                  /\ UNCHANGED <<abort, err>>
               \/ /\ t = 0
                  /\ Propagate(promise[p].v)
                  /\ stack' = Append(Popped(K), Undef)
                  /\ pc' = pc + 1
                  /\ UNCHANGED scopes
            /\ UNCHANGED <<leave, handed>>
  /\ UNCHANGED <<prog, tape, used, frames, pend, log, co, promiseVars, drivers,
                 chainVars, trace, last>>

\* Settling promise p drains its reactions: at once, inside the call, with
\* depth vm_run activations below, or as a microtask of the embedder.
Tasks(p) == [i \in DOMAIN promise[p].waiting |->
               [do |-> "resume", co |-> promise[p].waiting[i], on |-> p]]
Settle(p, st, v, depth, after) ==
  /\ promise' = [promise EXCEPT ![p] = [st |-> st, v |-> Defined(v), waiting |-> <<>>]]
  /\ IF inline
     THEN /\ drains' = Append(drains, [at |-> depth, todo |-> Tasks(p) \o after])
          /\ UNCHANGED queue
     ELSE /\ drains' = IF after = <<>> THEN drains
                       ELSE Append(drains, [at |-> depth, todo |-> after])
          /\ queue' = Append(queue, Tasks(p))
  /\ UNCHANGED inline

Waits(a, p) ==
  /\ promise' = [promise EXCEPT ![p].waiting = Append(@, a)]
  /\ UNCHANGED <<queue, drains, inline>>

AsyncLeaves(then, how) ==
  /\ drivers # <<>> /\ frames # <<>> /\ Frame.via = "body"
  /\ leave \in how
  /\ Waiter.then = then

\* The first suspension, in func_call: async_park_frame; the caller gets the
\* frame's pending promise.
AsyncPark ==
  /\ AsyncLeaves("first", {"await"})
  /\ LeaveRun
  /\ co' = [co EXCEPT ![Waiter.co] = ParkedAs(Waiter.co, Waiter, stack)]
  /\ scopes' = Down(scopes, Waiter.scopeBase)
  /\ stack' = Append(Under(Waiter), PromiseVal)
  /\ pc' = Waiter.pc
  /\ Root(Waiter.co)
  /\ Waits(Waiter.co, handed.from)
  /\ Receives(Beneath, "next", PromiseVal)
  /\ Ends(Waiter.co, "suspend", NoVal)
  /\ UNCHANGED <<prog, tape, used, abort, err, log, handed, trace>>

\* func_call at the end of an async body that never suspended: the promise is
\* the one its return made, or async_reject makes one of the error.
AsyncReturn ==
  /\ AsyncLeaves("first", {"returned", "out"})
  /\ LeaveRun
  /\ co' = [co EXCEPT ![Waiter.co].done = TRUE]
  /\ scopes' = Down(scopes, Waiter.scopeBase)
  /\ stack' = Append(Under(Waiter), PromiseVal)
  /\ pc' = Waiter.pc
  /\ promise' = [promise EXCEPT ![Waiter.co] =
       IF err = NoVal THEN [@ EXCEPT !.st = "FULFILLED", !.v = Defined(BodyValue)]
                      ELSE [@ EXCEPT !.st = "REJECTED", !.v = err]]
  /\ abort' = FALSE
  /\ err' = NoVal
  /\ Receives(Beneath, "next", PromiseVal)
  /\ IF err = NoVal THEN Ends(Waiter.co, "return", BodyValue)
                    ELSE Ends(Waiter.co, "throw", err)
  /\ UNCHANGED <<prog, tape, used, log, queue, drains, inline, chainVars, handed, trace>>

\* The reactions of the awaited promise: async_resume puts the segments back
\* and delivers the outcome at the await. Its first and last parts.
Drained == drains' = [drains EXCEPT ![Len(drains)].todo = Tail(@)]

AsyncResume(a, p) ==
  LET d == DriverOf(a, stack, pc, "settle", 0)
      seg == Rebased(co[a].scopes, Len(stack))
      S == scopes \o seg
      L == Append(stack \o co[a].stack, promise[p].v)
      t == Len(scopes) + OwnTry(seg)
      throwing == promise[p].st = "REJECTED"
  IN  /\ Receives(a, IF throwing THEN "throw" ELSE "next", promise[p].v)
      /\ \/ /\ ~throwing
            /\ co' = [co EXCEPT ![a] = Restored(a)]
            /\ EnterRun(S, L, co[a].pc, d)
            /\ Drained
            /\ UNCHANGED <<promise, queue, inline, last>>
         \/ /\ throwing /\ OwnTry(seg) # 0
            /\ co' = [co EXCEPT ![a] = Restored(a)]
            /\ EnterRun(EnterTry(S, t), L, S[t].pc, d)
            /\ Drained
            /\ UNCHANGED <<promise, queue, inline, last>>
         \/ /\ throwing /\ OwnTry(seg) = 0
            /\ co' = [co EXCEPT ![a] = [Restored(a) EXCEPT !.done = TRUE]]
            /\ promise' = [promise EXCEPT ![a] =
                 [st |-> "REJECTED", v |-> promise[p].v, waiting |-> <<>>]]
            /\ LET own == <<[do |-> "unroot", co |-> a, on |-> a]>>
                   rest == [drains EXCEPT ![Len(drains)].todo = Tail(@)]
               IN  IF inline
                   THEN /\ drains' = Append(rest, [at |-> Len(frames), todo |-> Tasks(a) \o own])
                        /\ UNCHANGED queue
                   ELSE /\ drains' = Append(rest, [at |-> Len(frames), todo |-> own])
                        /\ queue' = Append(queue, Tasks(a))
            /\ UNCHANGED <<scopes, stack, pc, frames, pend, drivers, inline>>
            /\ Ends(a, "throw", promise[p].v)

\* native_promise_drain goes to its next reaction, or ends.
Drain ==
  /\ Draining /\ leave = "no"
  /\ LET todo == drains[Len(drains)].todo
     IN  \/ /\ todo = <<>>
            /\ drains' = SubSeq(drains, 1, Len(drains) - 1)
            /\ UNCHANGED <<scopes, stack, pc, frames, pend, drivers, co, promise, queue,
                           inline, chainVars, got, last>>
         \/ /\ todo # <<>> /\ Head(todo).do = "unroot"
            /\ Unroot(Head(todo).co)
            /\ Drained
            /\ UNCHANGED <<scopes, stack, pc, frames, pend, drivers, co, promise, queue,
                           inline, got, last>>
         \/ /\ todo # <<>> /\ Head(todo).do = "resume"
            /\ AsyncResume(Head(todo).co, Head(todo).on)
            /\ UNCHANGED chainVars
  /\ UNCHANGED <<prog, tape, used, abort, err, leave, log, handed, trace>>

\* async_resume after another await: the frame is parked again.
AsyncRepark ==
  /\ AsyncLeaves("settle", {"await"})
  /\ LeaveRun
  /\ co' = [co EXCEPT ![Waiter.co] = ParkedAs(Waiter.co, Waiter, stack)]
  /\ scopes' = Down(scopes, Waiter.scopeBase)
  /\ stack' = Under(Waiter)
  /\ pc' = Waiter.pc
  /\ Waits(Waiter.co, handed.from)
  /\ Ends(Waiter.co, "suspend", NoVal)
  /\ UNCHANGED <<prog, tape, used, abort, err, log, chainVars, handed, got, trace>>

\* async_resume at the end of the body: async_settle, whose drain comes before
\* the frame leaves the chain.
AsyncFinish ==
  /\ AsyncLeaves("settle", {"returned", "out"})
  /\ LeaveRun
  /\ co' = [co EXCEPT ![Waiter.co].done = TRUE]
  /\ scopes' = Down(scopes, Waiter.scopeBase)
  /\ stack' = Under(Waiter)
  /\ pc' = Waiter.pc
  /\ Settle(Waiter.co, IF err = NoVal THEN "FULFILLED" ELSE "REJECTED",
            IF err = NoVal THEN BodyValue ELSE err, Len(frames) - 1,
            <<[do |-> "unroot", co |-> Waiter.co, on |-> Waiter.co]>>)
  /\ abort' = FALSE
  /\ err' = NoVal
  /\ IF err = NoVal THEN Ends(Waiter.co, "return", BodyValue)
                    ELSE Ends(Waiter.co, "throw", err)
  /\ UNCHANGED <<prog, tape, used, log, chainVars, handed, got, trace>>

\* A resolver called by script, in the middle of whatever runs.
ScriptSettles ==
  /\ Ready /\ InsAt(pc).op \in {"RESOLVE", "REJECT"}
  /\ \/ /\ promise[InsAt(pc).to].st = "PENDING"
        /\ Settle(InsAt(pc).to,
                  IF InsAt(pc).op = "RESOLVE" THEN "FULFILLED" ELSE "REJECTED",
                  InsAt(pc).arg, Len(frames), <<>>)
     \/ /\ promise[InsAt(pc).to].st # "PENDING"
        /\ UNCHANGED promiseVars
  /\ pc' = pc + 1
  /\ UNCHANGED <<prog, tape, used, scopes, stack, frames, pend, abort, err, leave, log,
                 co, drivers, chainVars, handed, histories>>

----------------------------------------------------------------------------
(* The host, between the script's runs. *)

Idle == frames = <<>> /\ drains = <<>>
HostVars == <<vars, co, drivers, chainVars, handed, histories>>

\* An operation of the host ends and settles its promise.
HostSettles ==
  /\ Idle
  /\ \E p \in Promise \ Co : \E st \in {"FULFILLED", "REJECTED"} : \E v \in HostVals :
       /\ promise[p].st = "PENDING"
       /\ Settle(p, st, v, 0, <<>>)
  /\ UNCHANGED HostVars

HostDrains_WhileNoneParked ==
  /\ Idle
  /\ queue # <<>> /\ head = 0
  /\ drains' = <<[at |-> 0, todo |-> Head(queue)]>>
  /\ queue' = Tail(queue)
  /\ UNCHANGED <<promise, inline>>
  /\ UNCHANGED HostVars
HostDrains ==
  /\ Idle
  /\ queue # <<>>
  /\ drains' = <<[at |-> 0, todo |-> Head(queue)]>>
  /\ queue' = Tail(queue)
  /\ UNCHANGED <<promise, inline>>
  /\ UNCHANGED HostVars

----------------------------------------------------------------------------

Starting == [started |-> FALSE, done |-> FALSE, delegate |-> 0, pc |-> 0,
             scopes |-> <<>>, stack |-> <<>>]

CoInit ==
  /\ Init
  /\ co = [c \in Co |-> [Starting EXCEPT !.pc = Entries[prog][c]]]
  /\ promise = [p \in Promise |-> [st |-> "PENDING", v |-> NoVal, waiting |-> <<>>]]
  /\ drivers = <<>>
  /\ drains = <<>> /\ queue = <<>>
  /\ inline \in Modes(prog)
  /\ head = 0 /\ next = [c \in Co |-> 0]
  /\ handed = [v |-> NoVal, from |-> 0]
  /\ got = [c \in {0} \cup Co |-> <<>>]
  /\ trace = [c \in {0} \cup Co |-> <<>>]
  /\ last = [c \in Co |-> [t |-> "none", v |-> Undef]]

\* The interpreter's own steps; what a body shows is in its trace.
Interpret ==
  /\ ~Draining
  /\ \/ Push \/ Show \/ Nil \/ Jmp \/ JmpBack \/ JmpUnless \/ Cond
     \/ Block \/ BlockEnd \/ Return \/ FinallyEnd \/ Throw \/ Catch
     \/ Call \/ RunEnd \/ AbortCatch \/ AbortFinally \/ AbortLeave
     \/ frames # <<>> /\ Frame.via = "call" /\ CallReturn
     \/ frames # <<>> /\ Frame.via = "top" /\ ScriptEnd
  /\ trace' = IF log' = log \/ frames' = <<>> THEN trace
              ELSE [trace EXCEPT ![Running] = Append(@, log'[Len(log')])]
  /\ UNCHANGED <<co, promiseVars, drivers, chainVars, handed, got, last>>

Switch ==
  \/ GenNext \/ GenReturn \/ GenThrow \/ Yield \/ YieldStar \/ GenSuspend \/ GenFinish
  \/ StarFinish \/ ForwardFinish
  \/ StartAsync \/ Await \/ AsyncPark \/ AsyncReturn \/ Drain \/ AsyncRepark
  \/ AsyncFinish \/ ScriptSettles

CoStep == Interpret \/ Switch

AllSettled == \A p \in Promise \ Co : promise[p].st # "PENDING"
CoHalted == Idle /\ queue = <<>> /\ AllSettled /\ UNCHANGED allVars

CoNext == CoStep \/ HostSettles \/ HostDrains \/ CoHalted

CoSpec == CoInit /\ [][CoNext]_allVars

\* One thread runs script, and the host serves its tasks when it is idle. That
\* a host operation ever ends is not assumed.
CoFairSpec == CoSpec /\ WF_allVars(CoStep) /\ WF_allVars(HostDrains)

----------------------------------------------------------------------------
(* Properties. *)

\* A frame that awaits is waited for in exactly one place: the reactions of a
\* pending promise, a drain under way, or a microtask. It is never resumed
\* twice and never forgotten (mario.c async_arm, async_reaction_fulfilled and
\* _rejected; native_Promise.c promise_await_reaction).
Count(c, s) == Cardinality({i \in DOMAIN s : s[i] = c})
CountIn(c, tasks) == Cardinality({i \in DOMAIN tasks : tasks[i].do = "resume" /\ tasks[i].co = c})
SumOver(n, f(_)) ==
  LET sum[i \in 0 .. n] == IF i = 0 THEN 0 ELSE sum[i - 1] + f(i) IN sum[n]
Places(a) ==
  SumOver(NPromises, LAMBDA p : Count(a, promise[p].waiting))
  + SumOver(Len(drains), LAMBDA i : CountIn(a, drains[i].todo))
  + SumOver(Len(queue), LAMBDA i : CountIn(a, queue[i]))
Inside(c) == \E i \in DOMAIN drivers : drivers[i].co = c
AwaitsOnce ==
  \A a \in Co : IsAsync(prog, a) =>
    Places(a) = IF co[a].started /\ ~co[a].done /\ ~Inside(a) THEN 1 ELSE 0

\* The anchor of every frame that has parked and not settled is on the chain
\* the collector marks from, whatever order the frames settle in; a settled
\* one leaves it (mario.c async_root, async_unroot, async_settle).
ParkedRooted ==
  /\ \A a \in Co : IsAsync(prog, a) /\ co[a].started /\ ~co[a].done /\ ~Inside(a)
                     => a \in Chain
  /\ Idle => \A a \in Chain : ~co[a].done

\* A parked frame is waited for once and kept alive.
ParkedSound == AwaitsOnce /\ ParkedRooted

\* Whatever a body does between being resumed and leaving again, the scopes
\* and operands that were on the stacks when it was resumed are still there
\* (mario.c gen_restore, async_attach, vm_throw_truncate, gen_suspend).
OthersUntouched ==
  [][drivers # <<>> =>
       LET n == Waiter.stackBase - Envs(Waiter)
       IN  /\ SubSeq(scopes', 1, Waiter.scopeBase) = SubSeq(scopes, 1, Waiter.scopeBase)
           /\ Len(stack') >= n
           /\ SubSeq(stack', 1, n) = SubSeq(stack, 1, n)]_allVars

\* A frame whose promise has settled goes on or ends: nothing the script does,
\* in the drain or outside, keeps its reaction from running (async_resume,
\* native_promise_drain, func_call's depth limit apart).
Woken(a) == \/ \E i \in DOMAIN drains : CountIn(a, drains[i].todo) > 0
            \/ \E i \in DOMAIN queue : CountIn(a, queue[i]) > 0
SettledWakes == \A a \in Co : Woken(a) ~> ~Woken(a)
=============================================================================
