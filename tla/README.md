# Verification of the Mario VM

Mario (this repository) is a JavaScript engine in C: a lexer and a one-pass
compiler produce bytecode, an interpreter (with an optional JIT) runs it over a
reference-counted, mark-and-sweep heap, and native classes provide the library
and a small event loop. This directory holds TLA+ models of it, the TLC runs
that check them on small instances, and theorems checked by TLAPS.

Paths below are relative to the repository. `PROJECT.json` maps each definition
to the lines it models, and lists the hazards with the properties about them.

## 1. Inventory

| Part | State | Operations | What is hard | Correct when |
|---|---|---|---|---|
| Control flow and unwinding (`mario/mario.c`: `vm_run`, `handle_*`, `vm_do_break`, `vm_finish_return`, `func_call`) | `pc`, scope stack, value stack, per-run baselines, one pending transfer, `abort_run` / `propagating_err` | the instructions, script and native calls, the abort branch | `finally` on every way out; `vm_run` re-entered through natives; errors crossing C frames; the depth limit | scopes match the code, operands balance, each finally runs once and in order, callers stay untouched |
| Statement compiler (`lang/js/compiler.c`) | bytecode being emitted, loop/label context | `stmt_*` | anchors found by position, patches | layout is what the interpreter expects |
| Expressions (`compiler.c` `factor` to `base`; `mario.c` 10900-12880) | tokens, code, value stack, literals under construction | an instruction per operator, access, call, literal | operands that are references, read late; reads turned into write targets by a later token; code that changes itself (a dropped `POP`) | the stack is left as it was, the effects are those of the tree in its order |
| Garbage collector (`mario.c` 3129-4215) | reference counts, candidate list, free list, mark bits, C roots, weak cells | `var_ref`/`var_unref`, mark, sweep, finalizers | marking ignores counts; values reachable only from C | nothing reachable is freed, what no cycle holds is |
| Generators and async functions (`mario.c` 12888-13700) | saved scopes and operands, frame state, driver reactions | `next`/`return`/`throw`, `yield*`, await | suspension inside try/finally, resumption in the middle of another body | a body resumes with what it left and disturbs nobody |
| Promise (`native_Promise.c`) | state, value, two reaction lists, `drain_armed`, the pending root, aggregation contexts | constructor, resolve, reject, then, all, allSettled, race, any, the drain | reactions registered during a drain, nested drains, adoption, re-entrant thenables | settles once; each reaction runs once, in order; a chain follows its source |
| Host event loop (`bin/lib/host_task.c`) | timer table, clock | set, clear, poll, await tick, drain | callbacks that change the table, slot reuse, time charged to new timers | no timer fires early, twice or after being cleared; every armed one fires |
| Properties (`mario.c` 2095-2570, 5539-5860, 15600-15900; `native_Object.c`, `native_Reflect.c`, `native_Proxy.c`) | members, prototypes, per-site caches, the shape epoch, traps | read, assign, delete, define, copy, freeze, revoke | a cached node after a shape changed; reads that write clones; proxies of proxies | a hit reads what a lookup would; reads change nothing; a proxy is what it stands for |
| Modules (`mario.c` 9439-9567, 15942-16120; `compiler.c` 7517-8060) | registry, current module, environments, import bindings | import, export, include, dynamic import, the two hosts' loading | cycles, a failing module, two ways of loading | names are what the text says, a body is evaluated once and in order |
| Arrays (`mario.c` `var_array_*`, `native_Array.c`) | elements keyed by index; the length is their number | every method | callbacks that change the array, reads that create | no gap; what the language says |
| Hash maps (`mario.c` 171-580) | buckets, their pool | add, fresh add, find, remove, resize | growth at the load factor, buckets given back | a finite function |
| Map, Set, weak collections | entry list, `@@keep` | set, delete, iterate, group | deletion during iteration, the copy that keeps values alive | each live entry is visited once; everything in it is kept |
| EventEmitter, EventTarget, AbortController | listener lists, `aborted`, composites | on, once, off, emit, dispatch, abort, timeout, any | lists changed while an event is delivered | everybody due is called once; a signal aborts once |
| Stream (`native_Stream.c`) | queue, parked reads, closed and failed flags | enqueue, close, error, read, cancel, write, abort | `pull`, sinks and reactions that run in the middle | chunks arrive once and in order; the end is final |
| BigInt (`mario.c` 1200-1900) | sign and limbs | operators, text, `asIntN` | two's complement on magnitudes, carries at limb boundaries | the exact integer |
| Typed arrays, DataView, ArrayBuffer, Atomics | bytes seen through views | element access, every method | narrowing, overlap, offsets | an element is a value of its type; no other byte changes |
| Regular expressions (`native_RegExp.c`), String (`native_String.c`) | program, backtrack stack, captures, `lastIndex` | exec and the methods that take a pattern; string methods | giving up an alternative; empty loops; bytes against characters | the first match in the order of the choices; the text the method means |
| Number arithmetic, lexer, JSON, URL, Date, Intl, JIT, bytecode files, host facades | data | data manipulation | mostly sequential | not modelled (section 6) |

One thread runs everything. Interleaving comes from re-entrancy: a native calls
script, a callback changes the state the native is in the middle of, an error
crosses several C frames, a parked body goes on inside another. That is what the
models keep.

How the parts meet: the expression handlers and control flow share the value
stack (`Expressions` takes a statement's instructions, `VMRun` the transfers that
cut through them); generators run on `VMRun`'s stacks and are driven by promise
reactions (`Coroutines` EXTENDS `VMRun`); promise drains are host microtasks or
run nested (`Promises`, `Coroutines`, `Streams` each keep both); timers call
script from the host's loop and abort signals (`HostTimers`, `Events`); every
object is a hash map and every value a counted variable (`Objects`,
`Collections`, `Heap`).

## 2. Modules

| Module | Role |
|---|---|
| `VMRun` | the interpreter's control core, one action per instruction or handler |
| `Layout` | the contract between compiler and interpreter: how code is laid out, and where that keeps the stacks of `VMRun` |
| `JSCompile` | the statement compiler: the layout of each control statement |
| `JSCompletion` | the abstract meaning of the same statements (completion records) |
| `MCVMRun` | programs, tapes and the runs' property that ties the three together |
| `VMRun_proofs`, `Layout_proofs` | theorems about `VMRun`: its types; its stacks and transfers, for programs that `Layout` describes |
| `HostTimers_proofs`, `Streams_proofs`, `Events_proofs` | theorems about `HostTimers`, `Streams` and `Events` |
| `Promises_proofs`, `Promises_refines`, `Promises_accounts` | theorems about `Promises`: the invariant and the root array; the refinement of `PromiseSpec` and who follows whom; the accounts of aggregations |
| `ExprCompile` | the expression compiler, from tokens to instructions |
| `Expressions` | the handlers of those instructions on the value stack |
| `ExprMeaning`, `MCExpressions` | the meaning of an expression's tree; the statements checked |
| `Coroutines`, `MCCoroutines` | generators and async functions on top of `VMRun`; their programs |
| `Promises` | promises, their drains, adoption, aggregation and the root array |
| `PromiseSpec` | what promises promise; `Promises` is shown to implement it |
| `HostTimers` | the command line host's timer table, its polls and its loop |
| `Heap` | variables: reference counts, the collector, the pool, weak cells, under the instructions that use them |
| `Modules`, `ModuleMeaning`, `MCModules` | import, export, include; what they mean; the sets of files |
| `Objects`, `MCObjects` | members, prototypes, the inline cache, proxies |
| `Collections` | a script at work on an array, a Map, a Set or the hash map; composes the next three |
| `ArrayMethods`, `Tables`, `HashMap` | the array and its methods; Map, Set and the weak ones; the hash map under every object |
| `CollectionMeaning`, `MCCollections` | what those methods mean; the calls |
| `Events`, `MCEvents` | emitters, targets and abort signals, with listeners that call back |
| `Streams` | a readable and a writable stream |
| `Values` | computations on BigInts, bytes, strings and patterns; composes the next four |
| `BigInts`, `ByteViews`, `Strings`, `RegExps` | limb arithmetic; views over one buffer; the string methods; pattern parser, compiler, machine and RegExp methods |
| `NumericMeaning`, `StringMeaning`, `PatternMeaning`, `MCValues` | their references, and the inputs |

Modules ending in `Meaning` (and `JSCompletion`, `PromiseSpec`) know nothing of
the implementation's data structures: no slots, limbs, bytes, programs or
indices kept in step. Where this engine gives something a meaning of its own,
they say so, and section 3.1 lists it.

### 2.1 VMRun

State: `pc`, `scopes` (`vm->scope_stack`), `stack` (the value stack), `frames`
(the C stack of `vm_run` activations with `run_scope_base`, `run_stack_base` and
the `pending_save_t` each keeps), `pend` (`pending_op`, `_value`, `_label`),
`abort` and `err` (`abort_run`, `propagating_err`), `leave` (how the running
`vm_run` breaks out of its loop). `prog` is the loaded bytecode, `tape` the
outcomes of the conditions, `log` what the program shows. A handler is one
action, with everything it calls: `Break` is `handle_break` and all of
`vm_do_break`, including the jump into a finally or the termination of the run.
`func_call` is split at `vm_run`, where other instructions run in between:
`Call`/`CallNative` up to the body, `CallReturn` for the end of `vm_run` and the
tail of `func_call`. The abort branch at the top of the loop is three actions,
one per outcome.

Abstracted: expressions are three instructions (`COND`, `PUSH`, `SHOW`); values
are model values; `SHOW` stands for whatever makes a value observable. The
environment a call roots on the value stack is the constant `Env`, because the
stack's height matters. The transfer's `for` field is a ghost: the code does not
keep it and no guard reads it. The value and scope stacks are unbounded here; in
the code the depth check of `func_call` keeps headroom on both, and the model
keeps its depth condition only.

`JSCompile` is the layout as emitted: LOOP + 2 is the continue slot, LOOP + 3
the break slot, TRY + 2 the catch slot, a try without catch is demoted to BLOCK,
a finally follows its TRY_END and its start is patched into the opener.

`Layout` states what the interpreter relies on in any program, without `JSCompile`:
the scopes around an instruction are those around wherever control goes from it,
anchors and finally bodies lie where the openers say, a finally is left by its
FINALLY_END or a transfer only (`WellLaidOut`). `KeepsClear` leaves out the programs
of section 3.1: a finally inside the guarded part of a try of the same function, a
finally body with a try or a break of its own, a break without a target.
`KeepsPlace` says where such programs keep the interpreter: the running activation
and each one that waits for a callee have on the stacks exactly the scopes and
operands of their place in the code, a try is armed just where it guards, and a
parked transfer is in the body it waits for and will find its target. Every program
that `JSCompile` makes for `MCVMRun` is checked to be laid out so (`LaidOut`,
`KeptClear` and `Landing`, assumptions that TLC evaluates): the theorems of
`Layout_proofs` are about the programs of the runs and all others laid out like them.

`JSCompletion` knows neither scopes nor a slot. `ShowsItsMeaning` says that what
the compiled program shows on the machine is what the completion semantics says,
so the compiler and the interpreter are checked together against the language.

### 2.2 Promises

State: `state`, `value` and `reactions` are the fields of `promise_data` (the
four parallel lists are one list of records), `armed` is `drain_armed`, `rooted`
the array `@@pend_prom` on the root object, `agg` the `promise_agg_ctx` of each
all and allSettled, `queue` the embedder's microtasks. `known` and `open` are
what script holds: promises, and promises whose resolve and reject functions it
has. `source` is a ghost: the promise whose outcome a promise took over.

`ctl` is the C stack. Its activations are script code (`main`, an `executor`, a
thenable's `then`, a reaction `handler`) and natives in the middle of a list (a
`drain`, the `build` of an aggregation, a `race`, the `release` of a context
after the reaction that used it). Whatever is on top runs, so a drain that
starts inside a resolve, inside a handler, inside another drain is the plain
case and needs no special action. Each script operation is one action with all
it calls up to the point where script runs again.

`script` is what the script does: one of `QueuedScripts` or `InlineScripts`, and
with it whether a drain is queued or runs at once. The queue is the embedder's,
outside this repository; the command line host has no table, its
`js_dom_add_microtask` returns 0 and the drain runs inside whatever settled the
promise. A queue that is full for some drains and not for others is not
modelled.

Restrictions on script code: an executor does not use its `this`; no promise is
resolved with itself or rejected with a promise; the inputs of aggregations are
lists of two without holes; a promise that is adopting another is not resolved
with something else. The chained promise of a reaction that
nothing can observe is `None`. `finally(f)` is `then(f, f)`, as in the code.
Not modelled: `await` (a polling host), the species prototype.

`PromiseSpec` knows an outcome and a list of waiting reactions per promise. The
refinement maps the waiting list to what the drains in progress have detached
and not yet run, followed by what was registered since.

### 2.3 HostTimers

State: `table` is `s_timers`, `nextId` and `synced` are `s_next_id` and
`s_synced`, `anchored` is what the hidden array `@@cli_timers` holds, `err` is
`propagating_err`. The clock is kept as a difference, `since`: the milliseconds
from `s_last_now` to now. `Tick` lets one pass at any moment, in script, in a
native or in the loop's sleep, so the sleep itself is no action. `ctl` is the C
stack, as in `Promises`: the script (`main`), a timer's `callback`, a `poll`, an
`await` and the loop (`drain`). An await polls the table, so a poll can run in a
callback of another poll. `fate`, `beat`, `lived` and `seen` are ghosts: no guard
reads them.

A poll is split where it calls back: charging the time and noting the clock is
one step (`Poll`, part of `DrainPoll` and `AwaitTick`), the callback of the
lowest due slot is one (`PollFire`), the end with its new anchor array is one
(`PollEnd`). Setting and clearing a timer are one step each, with the rebuilding
of the anchor array.

Abstracted: a callback is a plain function, known by its timer; delays are in the
range of the conversion to 32 bits; an await polls at most `MaxSpins` times
instead of for 30 seconds, and what settles its promise is left open. Callback
arguments are anchored beside the callback and are left out.

### 2.4 Heap

State: a cell is the memory of one `var_t`: `kind` (number, object or scope,
function), `status` (`V_ST_*`, and `gone` for memory malloc has back), `refs`,
`mark` (`gc_marked`), two members, what a function captured (`env` is
`closure.var`, `owner` is `owner_ref`) and the links of the one list it is in.
`head`, `tail` and `num` are the collector's list, `pool` is `free_var_buffer`,
`queue` and `depth` are `s_var_free_pend` and `s_var_free_depth`, `doing`,
`defer` and `pending` are `is_doing_gc`, `gc_defer` and `gc_pending`, `weak` and
`due` are `weak_cells` and `pending_finalizers`. `stack`, `scopes` and `parked`
are the machine's; `local` is the array a native holds in a C local while it
calls back. `stale` and `headSwept` are ghosts.

Every release is the whole recursion of the code, as an operator on the record
`h`: `VarUnref`, `VarFree` with its depth limit and its queue, `VarClean` with
the fast lane that leaves the count standing, the detachment of what a function
captured. A collection is one step of the same kind: it runs between two
instructions (`SafePoint`), or inside the global `gc()` (`GcCall`), which also
drains the finalizers. An action is an instruction; the slots of the stack are
variables, nodes (read or to be written), and the two placeholders of a deferred
member write.

Abstracted: an undefined value is no cell; an object has two members; a
placeholder is a hold on its receiver; the trigger is a constant instead of one
and a half times the survivors; the pool is below its limit, so an unforced
collection returns one block; the queue of teardowns does not overflow; `Pop`
stands for whatever consumes an operand; a return leaves one scope; at most one
registration of a FinalizationRegistry is outstanding. The literal and lookup
caches, function scopes, the chain of enclosing functions, deref, unregister and
the script of a finalizer are left out.

### 2.5 Coroutines

State: `co` is `gen_state_t` and `async_frame_t` (the parked segments of both
stacks among them), `drivers` the C frames of `gen_resume_body`, `async_resume`
and `func_call` that wait for a body's `vm_run`, `drains` the promise drains that
are part-way through, `queue` and `inline` the host's microtasks as in
`Promises`, `head` and `next` the chain `@@async_head` that keeps parked frames
alive. `CoStep` is an instruction of `VMRun`, or one of the instructions and
native calls that start, suspend and resume a body. `HostSettles` settles a
promise from outside, `HostDrains` runs a microtask. `got`, `trace` and `last` are
histories: from them the completion semantics of `JSCompletion` gives what an
uninterrupted body would have done, and `ResumedAsLeft` compares.

Left out: async generators, `for await`, top-level await, a generator that calls
`next` on itself, `throw()` into a generator that delegates, delegates that
delegate, an async function that is called twice.

### 2.6 ExprCompile and Expressions

`ExprCompile` translates the functions of the compiler from `base` down: a record is threaded through one pass over the tokens, instructions are
appended, and the last of them is rewritten when a later token makes a target of
what was read. `Expressions` executes the result, one action per handler. `stack`
holds values and references, which are read when they are popped; `lits` the
literals under construction; `cached` the instructions with `INSTR_OPT_CACHE`,
after whose first execution a `POP` is gone: so each statement is executed
twice, on different data. `ExprMeaning` walks the tree; `MCExpressions` builds tree
and tokens together, so nothing is parsed by the reference.

Abstracted: numbers are small integers and `NaN`; a called function is atomic: it
is logged with its receiver and arguments, and answers, assigns a variable or
throws.

### 2.7 Objects

`own` is each object's members, with the flags of a node; `proto` the prototype;
`mic` what an access site remembers, an epoch change emptying it; `traps` and
`revoked` the proxies. An operation is an operator from a heap to the set of
`[heap, res]` it can leave and answer, so that the same operator is the action
and what `ReadsLeaveNoTrace` and `ProxiesAreTransparent` compare in every state. A
trap's answer and an accessor's effect are left open. The two worlds are three
plain objects that can be each other's prototypes, and an object with a proxy
and a proxy of that proxy.

### 2.8 Collections

`store` is the collection: a function from indices to elements (the array has no
length of its own), a sequence of entries (Map, Set), or buckets (`HashMap`).
A method that calls no script is one step. A loop over callbacks is `Begin...`,
a step per callback (which may call a method of the same collection, or throw),
and `End...`; `loop` is the method's C locals. `op`, `was` and `out` keep the call
until its answer has been compared with `CollectionMeaning`; `keep` is `@@keep`;
`spec` is the function a hash map should be.

### 2.9 Events and Streams

`Events`: `store` and `list` are the listeners of emitters and targets, `frames`
the emissions and dispatches that wait for a listener, each with its C locals
(snapshot, index, count) and, as ghosts, the listeners it owes and has called.
Script is unconstrained at the top and inside each listener. `AbortSignal.timeout`
and `any` are modelled with their timers and sources; listeners of a signal are
added and removed as those of any target. `Streams` has the same
shape: `frames` are the script functions called in the middle of an operation
(`start`, `pull`, `cancel`, the sink's methods) and the loop that answers parked
reads, whose reactions run inside it on a host without microtasks.

### 2.10 Modules

`spaces` is the registry of namespaces, `runs` the activations of `vm_load_run`,
`envs` the environments (an import body runs above the one that asked for it, on
the same scope stack), `byImport` the nodes flagged `be_import`, `loads` what the
host has still to load. The compiler part translates each statement of
`compiler.c` to its instructions; the actions are their handlers. `ModuleMeaning`
resolves names from the text of the files alone.

### 2.11 Values

One script computes with one kind of value. `acc` is a BigInt as limbs of
`LimbBits` and `exact` the integer it should be. `buf` is a buffer of bytes, read
and written through views of every element type. `text` is a string. `re` is a
RegExp: its text, its flags and `lastIndex`; `RegExps` parses the text, emits the
program and runs the backtracking machine with its captures, guards and undo
entries; `PatternMeaning` gives, for the tree the text was printed from, the set
of ways to match in their order. A character beyond one byte is `Wide`, the
sequence of its bytes, because the machine and some methods work on bytes.

Since these components are sequential algorithms, what a run checks is that
every call, in every state reached, gives what the reference gives.

## 3. Runs

| Run | Question | Fairness |
|---|---|---|
| `VMRun_programs` | `StacksMatchCode`, `TransfersKept`, `ShowsItsMeaning`: compiler and interpreter together against the completion semantics; `Terminates` | `WF(Step)` |
| `Expressions_statements` | `OperandsExact`, `EvaluatesAsWritten`: 4362 expression statements, executed twice | none |
| `Coroutines_resumed` | `ResumedAsLeft`, `OthersUntouched`, `ParkedSound`: bodies suspended and resumed at any depth; `SettledWakes` | `WF(CoStep)`, `WF(HostDrains)` |
| `Promises_hosts` | `KeepsPromises`: every step is one of `PromiseSpec`; `PointersSound`, `NothingLost`, `FollowsItsSource`, `AggregatesSound`; `ReactionsRun` | `WF(EndStep)`, `WF(NativeStep)`, `WF(Microtask)` |
| `HostTimers_loop` | `CalledLawfully`, `TableSound`: timers changed from inside callbacks; `ArmedRuns` | `WF(EndStep)`, `WF(HostStep)`, `WF(Tick)` |
| `Heap_live` | `ReachableKept`, `Reclaimed`, `MemorySound`, `SnapshotsStable` under collections at every point | none |
| `Objects_caches` | `CachedIsFresh`, `ReadsLeaveNoTrace`, `ProxiesAreTransparent` | none |
| `Modules_linked` | `LinkedAsWritten`, `EvaluatedOnceInOrder` for 6546 sets of files | none |
| `Collections_lawful` | `ArraysMeanWhatTheySay`, `TablesMeanWhatTheySay`, callbacks included | none |
| `Events_dispatch` | `ListenersKept`, `CallsEveryone`, `SignalsLawful` | none |
| `Streams_serve` | `ReadsAndWritesServed`, `EndIsFinal` | none |
| `Values_exact` | `BigIntsAreExact`, `ViewsMeanWhatTheySay`, `TextsMeanWhatTheySay` | none |

Every fairness condition is about the one thread: nothing in the interpreter
waits, so a started instruction, native or activation goes on; the host runs
microtasks and its loop; time passes. Nothing is assumed of what script chooses to
do (`ScriptStep`), of timers in `Promises` (`Task`) or of what a host settles
(`HostSettles`).

`CHECK_DEADLOCK` is off where a script that has used up its operations stops
(`Expressions`, `Heap`, `Modules`, `Events`, `Streams`, `Values`). In `Objects` and
`Collections` a script can always go on, and elsewhere the end is a step of its
own (`Halted`, `CoHalted`, `Over`, `Exited`); there a deadlock is an error.

Bounds, and why they are enough:

* `VMRun_programs`. A program is `<<loop, shape, body, catch, finally, callee,
  main>>`: five loop forms, six shapes of try statements, thirteen leaves (show,
  throw, faulting instruction, faulting native, two returns, break, continue, labeled
  ones, call, callback, conditional throw); a family is a product of such parts,
  and the tapes make every loop run zero to three times. Two levels of nesting,
  one label and two call levels exercise every pair of transfer and intervening
  scope: each handler looks for the nearest scope of some kind, and a third level
  adds no new case. `MaxCallDepth` is 4 instead of 1024; family `recursion` hits it.
* `Coroutines_resumed`: 1800 programs of a script and three bodies (generators,
  delegation, async functions), enough for a resumption inside a body that was
  itself resumed, with operands below both; `MaxCallDepth` is not reached.
* `Expressions_statements`: every operator and form, each with each kind of target
  and nested once in the positions where operands wait; one slot, one const.
* `Promises_hosts`: three promises made by script and five operations, one plain
  value. Each mechanism relates a promise to at most one source and an aggregation
  to two inputs, and the bounds leave room for two of them to meet. Thenables and
  aggregations have a second half of the identifiers for the promises natives
  make. `FollowsItsSource` excludes scripts that race thenables (section 3.1).
* `HostTimers_loop`: two slots and three timers, so a slot is used again while its
  former timer's poll goes on; a poll makes four callbacks at most (4096), one
  more than a poll that treats every timer once can need; ids wrap after two;
  delays of 0 and 2 ms and at most 2 ms between polls; one nested await.
  `ArmedRuns` excuses an error a callback left in flight.
* `Heap_live`: five blocks beside which an allocation has to wait, so blocks are
  given out again after a few steps, and the list has a head that stays when
  something behind it is swept (the family that begins after `p = 1`); three
  operands, which an assignment inside an assignment to the same member needs; a
  teardown nested twice goes on the queue (96 in the code), and the list asks for a collection at three
  variables (129 in the code); five allocating or loading instructions, each with
  as many stores, pops and block ends as fit. The eight families keep together the
  instructions that interact: nested assignments to variables, reads of members,
  deferred writes, closures over blocks, a parked return, methods, a native that
  calls back, weak cells.
* `Objects_caches`: one key and one site, since sites and keys do not interact but
  through the epoch; three objects, so a member can appear, shadow or vanish at,
  between and beyond receiver and owner; two proxies, one of the other.
* `Modules_linked`: three modules and a script: a chain, a diamond and cycles of two
  and three; each module has one thing it takes and one it gives, in either order,
  with a failure in the middle or a missing file; both hosts.
* `Collections_lawful`: arrays of up to three elements, so insertion, removal and
  moves have a first, a middle and a last; three keys; hash maps of four keys with
  an initial capacity of 2 (16 in the code), so that they grow and chain, and one
  pooled bucket array. A callback makes at most one call at each of its runs, a
  comparator (one step each time `sort` calls it) may add an element to an array
  that is full (`SortRoom`), and calls that the loops of section 3.1 would answer
  differently are not made.
* `Events_dispatch`: five operations, so that a listener can emit, in which another
  changes the list, twice; three signals, for a composite of a composite.
* `Streams_serve`: six operations, so that two reads can be parked, answered from
  inside one another's reactions, and followed by the end of the stream; every
  operation, `error()` from `pull` and errors without a reason too, at every place.
* `Values_exact`: limbs of 4 bits (32 in the code) and results up to 300, three
  limbs; doubles of 6 bits of precision; bytes of 2 bits and a buffer of four, so
  every element width of 1, 2 and 4 bytes has neighbours and narrowing drops
  bits (a conversion is a reduction modulo the width in each case); strings of up to
  three characters; 497 patterns in eight families (nested repeats, depth, back
  references, lookaround, anchors, classes, characters beyond one byte, resumed
  from `lastIndex`). The machine's budgets are scaled: 2000 steps, 400 backtrack
  entries. The digits in the
  texts are 0 to 3.

### 3.1 Where the code differs from its own statements or from the language

The passing runs keep away from the following, or the reference says what the
engine does. Each was met while modelling and observed in a build of the program
or follows from the lines given. To see one in TLC, change what is named.

`VMRun` (programs outside `MCVMRun`'s families):
a throw to an outer catch skips the finally in between (`handle_throw`,
`mario.c:16126`, against `mario.h:437`); the call depth limit ends the script
instead of raising a RangeError (`mario.c:7093`, against `mario.h:833`), which
`ShowsItsMeaning` excuses as `Runaway`; a break of a loop, or a throw that is
caught, inside a finally body drops the parked transfer (10005, 16124); the end
of a nested finally resumes the outer transfer (10836); an error raised in a
callee of a finally body leaves the slot filled (16628); a break outside any loop
in a callee ends its caller's loop (10010).

`Coroutines` (programs outside the families): a `try` that is open at a suspension
is not found by `mario.c:16539` after the resumption, so its finally is skipped or
its catch passed by; a throw in a generator truncates the stack to where it stood
before the suspension; a completion pending in a finally is lost over a
suspension; `return()` runs no finally; an uncaught `throw()` reports a generic
error; there is no check for a generator that is already running; an error in a
delegate ends the delegating generator.

`Expressions` (the reference follows the engine, see its heading): members that are
operands are read late, `o.p - (o.p = 9)` is 0; functions are looked up after
their arguments; `(o.m)()`, `o.m?.()` and `o?.[k]()` lose their receiver; logical
assignments evaluate their right side always and ignore setters; compound
assignments and steps ignore const; `++a*b` steps after the product; `null < 1` is
false. Not among the statements: a store whose `POP` was dropped and that later
meets a setter leaves a value on the stack; a member of undefined as a target makes
the variable that holds undefined an object (`do_get`, `mario.c:8584`), under every
name it has, instead of throwing.

`Promises` (operations outside the scripts): a promise that adopts another can
still be resolved with something else (`native_Promise.c:416`, against 418 and
690); inline, `all` with a thenable input that settles an earlier one is finished
with an empty place (1217); inline, a reaction registered during a drain runs
before those already detached (518, 620; `ordered` is false there); a rejected
promise returned from a reaction fulfils the chained one (744); a promise rejected
by its throwing executor stays on the root array (822); `any` of pending promises
never settles (1345), and `any` of a thenable fulfils with the thenable itself
(1363), which is adopted only when that is passed on; a race over a thenable adopts although another input has
settled it.

`HostTimers`: after a callback has thrown, later due callbacks are dropped and
nothing is reported (`host_task.c:167`, against the comment on silent ends in
`bin/mario/mario.c`); a timer set late in a long callback is called early, because
the next poll charges it the time since the last one (`NotBeforeItsTime` counts
from that poll); ids repeat after a wrap-around.

`Heap`: three patterns of scripts are excluded by a guard (`Hazardous` names them;
put them in `Beyond`): another collection after one that found a parked return,
whose value is marked and not unmarked (`gc_vars`); the global `gc()` called from a
callback of `Array.map`, which ignores `gc_defer` and sweeps the array the native
holds; a receiver let go by its last holder while the node of its member is an
operand, as in `f(s.k, (s = {}).k)`. A sweep that frees the head of its list sets
the head to the next variable (3863), so the second step ("move freed var to
free_var_list for reusing", 3890) does not reach the freed one: it stays labelled
`GC_FREE`, is never used again, and the tail and the links back still point at it;
when it was alone on the list, no collection sweeps anything from then on. What
`MemorySound` says of the list holds until that happens (`headSwept`; as INVARIANT,
`ListSound` shows the loss), and what it says of the pool, always. A collection
that would start from memory given back to malloc is not taken (`Dangling`).
Allowed by `Reclaimed`: cycles are never collected, because only
scalars enter the list that is swept (the comment in `var_unref` says that scalars
are kept off it, the one at `func_set_owner` that the cycle of an object and its
method is collected), and a block recycled by the fast lane keeps the count of its
former life (the comment in `var_new` says that the count is 0).

`Objects`: an assigned value that was first read through the prototype stays
flagged as inherited (`mario.c:5590`, against the comment at 8598), so `keys` and
`hasOwnProperty` miss it (`AssignedIsOwn`, a definition of `Objects`, as INVARIANT
shows it); the same after `defineProperty`, `Reflect.set` or a proxy's write. A
clone goes stale when the prototype's member changes. Descriptors report clones as
own. `freeze` lets members be deleted and added, and `Reflect.set`, proxies and
`Object.assign` ignore it; `seal` and `preventExtensions` are not enforced;
writable and configurable are one flag; `setPrototypeOf(null)` does nothing;
cycles of prototypes are accepted and hang for-in. `Object.assign`, `values`,
`freeze`, spread and `hasOwnProperty` act on the proxy object itself, and so do
listing, defining, describing and prototypes through a proxy of a proxy. A getter
read through a proxy has the target as `this`.

`Modules`: values are copied at export and import, bindings are not live; a failing
module is reported, its importers go on and it stays registered; the entry script
of the command line has no module scope and is not registered, so a cycle through
it evaluates it again (against "exactly once" at `mario.c:9463`) and its imports
are globals; a module sees and can overwrite its importer's variables; a star
export overwrites local exports and takes `default`; imports and exports happen
where they stand; dynamic import evaluates at once; include and import have
separate registries; loading an imported module as a script evaluates it again.

`Collections`: a callback that shrinks the array makes the loop regrow it; `filter`
pushes the element read again; `lastIndexOf` with a negative index finds 0;
`splice()` removes everything; `join` writes undefined and null; `delete a[i]`
shortens the array; doubles and BigInts equal nothing in `includes`, `indexOf` and
as keys; NaN is not found as a key; `true` and 1 are one key; iterators and for-of
over a Map or Set are snapshots; `Map.forEach` skips the entry after one that is
deleted; `Set.forEach` does not visit what is added; weak collections hold their
contents; `reduce` of nothing gives undefined and ignores an explicit undefined;
a comparator that throws leaves a partly sorted array, and one that replaces or
removes an element leaves `sort` with a pointer to a variable that may have been
released (`native_Array.c:1277-1301`; `MayCall` keeps such calls out);
`indexOf` and `lastIndexOf` find a NaN when it is the same variable
(`native_Array.c:230`, against "strict === (svz=false, used by
indexOf/lastIndexOf)" at 227), so the NaNs that are passed are fresh ones.

`Events` (set `Reentrant` to TRUE): a listener that removes from, or dispatches on,
the EventTarget that is calling it loses the list (`native_EventTarget.c:131`,
against `native_EventTarget.h:17`); a `once` listener added to the event being
emitted is dropped unfired, and fires twice when it emits its own event. On a
signal it is the composites that are lost: an abort listener that removes itself
leaves an empty list, and one that calls `stopImmediatePropagation()` ends the loop
before `abort_any_cb` is reached, so they are never aborted (against "a composite
that aborts when any source aborts", `native_AbortController.c:184`). Not among the
operations: dispatching "abort" by hand on a signal that is not aborted aborts
its composites.

`Streams` (every script is in the run; the properties name these as exceptions, and
with any of them dropped TLC finds the counterexample): a `pull` that calls
`error()` leaves its read parked, because the read does not look at `@@rs_err` again
(`native_Stream.c:301-312`), or gives it a chunk after an earlier read was refused
(`misled`); `enqueue` is accepted after `close`, so a chunk follows the end
(`ended`); `error()` and `abort()` without a reason do not mark the stream, and
unmark one that was marked (the `var_new(vm)` of lines 239, 500, 571 and 613), so
that reads and the sink go on (`lapses`). Also: a released reader's `read()` never
settles;
`tee` returns one stream twice; `locked` is never true; `abort` after `close` calls
the sink; `cancel` keeps the queue.

`Values`, numbers: `++` and `--` do nothing to a BigInt in a variable, a member or
an element (`handle_step`, `mario.c:10670`, against the comment at 10494; add
"variable" to `Places`); the comparator of a typed array's `sort` loses its
fraction, one that throws leaves the array partly sorted and written back, and
NaN stays where it is; `indexOf(NaN)` and `includes(NaN)` match everything;
`includes(undefined)` matches 0; values from 2^63 saturate; an overlapping `set`
copies forward, and past the end it drops silently; `undefined` stored in a float
array is 0; BigInts mix with numbers; shift counts and widths lose the upper bits;
comparison with a large or fractional double rounds. Texts: assertions and back
references are not taken for nullable, so `/(?:\b)*c/.exec("a b c")` runs out of
steps; a lookbehind uses up a group number; a repeat of an unbounded body in a
lookbehind never matches; `[\b]` is "b"; groups are not reset by an iteration nor
after a failed lookaround; `"ab".split(/$/)` has an empty last piece (against
`native_String.c:739`); `replace` with a string pattern expands no `$` and calls no
function; a pattern that does not compile gives null in `match` and `search`;
`String` methods ignore `lastIndex`; `repeat(-1)` is ""; indices count bytes in
some methods and characters in others; `decodeURIComponent` takes "+" for a blank.

## 4. Proofs

The theorems hold for every value of the constants that satisfies the module's
`ASSUME`s. In each module `IInv` is the inductive invariant, a conjunction of named
parts; the proof has one lemma per action and per part that the action disturbs,
generic lemmas about the stack of frames, `InitIInv` and `NextIInv`. TLC checked
each `IInv` as an invariant of the component's run before it was proved (for `Layout`
that is `PlaceKept` of `MCVMRun`, which as an INVARIANT of `VMRun_programs` shows it
again); of those of `Promises`, the parts that do not mention H, U and P.

**`VMRun_proofs`**, for every set of well-typed programs, every tape and every depth
limit: `TypeCorrect` (`Spec => []TypeOK`) and `ErrorInFlightCorrect`
(`Spec => []ErrorInFlight`). `ErrorInFlight` alone is not inductive: FINALLY_END
re-raises the parked value, so a parked throw must hold a value, in the slot and in
every slot saved by an outer frame. `ParkedErrors` says so.

**`Layout_proofs`**, for every program that is laid out as the compiler does and keeps
clear of section 3.1 (`LaidClear`, about the loaded program; without it the properties
are false, or the code is none that the compiler emits), every tape and depth limit:
`StacksMatchEverywhere` (`[]StacksMatchCode`) and `TransfersKeptEverywhere`
(`TransfersKept`: no parked transfer is dropped but by leaving its finally, no throw
skips a finally, no transfer reaches below its activation, what was terminated
stays so). Neither is inductive, because both look at the running activation only:
a callee's end uncovers its caller's scopes, operands and saved slot, and a transfer
that a finally has parked is resumed long after the place it set out from. The
invariant `LInv` adds `KeepsPlace` to `IInv`. That every scope is what its opener in
the code makes of it (`Placed`) is what turns the search of a handler through the
scope stack into a search through the openers around its instruction, where
`WellLaidOut` says what it finds. The openers themselves are a recursion along the
code; the lemmas about them are by the same least-counterexample induction as below.
Programs with a break or continue that has no target, which ends the script, are out
by `JumpsLand`; TLC checks the properties for those too, in the loopless programs.

**`Promises_proofs`, `Promises_refines`, `Promises_accounts`**, for every script,
host and number of promises. The assumptions on the constants say that plain values
are not promises and not thenables. `PromisesPointersKept` (`TypeOK` and
`PointersRooted`, always); `PromisesPointersSound` (`PointersSound`) and
`PromisesRunDry` (`ReactionsRunDry`), but for scripts that give `all` a thenable
where drains run inline, of which both are false (section 3.1); for the same scripts
`PromisesAggregatesSound` (`AggregatesSound`) and `PromisesNothingLost`
(`NothingLost`);
`PromisesKept` (`Spec => KeepsPromises`, the refinement of `PromiseSpec`);
`PromisesFollowTheirSource` (`FollowsItsSource`) for scripts that give no thenable to
`race` or `any` and return no rejected promise from a reaction (`SourcesPlain`; section
3.1 says what each of these does; TLC finds the property false without any of them).

The difficulty is who may settle what. A `then`'s chained promise is settled by the
handler's throw with no test of its state (`promise_settle_propagated`), so nothing
else may be able to settle it first: the reaction that owns it is on one list, or in
one drain, or its handler is on the C stack, and no native function points at it.
The invariant says so with a function H from such promises to the place of their
reaction, and with U, from the promises that only an executor or a race on the stack
knows (it settles them without scheduling a drain) to its place. Neither is part of
the state: `IInv` is `\E H, U : Inv(H, U)` and each action's lemma gives the next H
and U. The other parts: promises are made in order and nothing knows one that is
not made (`Numbered`); aggregations have numbers left for the promises they make
(`EnoughNumbers`); an armed drain is in the queue or on the stack (`ArmedComes`); a
settled promise with reactions is armed (`SettledArmed`); a root that is settled has
its drain to come or running (`RootsRun`).

For the refinement, what waits on p is what the drains on the stack have detached,
in the order of the stack, and then p's list. That is a recursive function along the
stack; its lemmas are by induction, which is done with the well-foundedness of < on
the naturals (a least counterexample), because the library's induction rules take an
operator. A step makes, settles or registers with one promise and leaves the others
as they are; a drain's step may besides take the first of what it detached, which is
the first of all that waits when drains are queued, because then a drain is alone on
the stack.

`FollowsItsSource` looks at settled promises, so its invariant (`FInv`, with `IInv`)
says who may settle a pending one that took over an outcome: the reactions that
settle it are on the list of its source, or detached from it (`ListsFaithful`,
`StackMinds`), script has no resolvers of it (`AllTraced`), and no handler, race or
aggregation is about to settle it (`StackMinds`, `AggsUntouched`). A drain's verdict
is that of the promise it drains, so the outcome it passes on is that of the source.

`AggregatesSound` and `NothingLost` rest on an account of each aggregation (`AInv`,
with `IInv`, in `Promises_accounts`). Which input of which aggregation is still under
way is no part of the state: `live` and `remaining` only count them, and the
reactions that will count down sit on any number of lists and detached drains. So
`AInv` speaks of a function P that gives each such input the place of its one
reaction (`Ledger`), and each step's lemma gives the next P: a pending input books
one, a drain that begins moves those of its promise from the list to the stack, an
arrival strikes one out and puts the release of the context on the stack. `live` is
the number of inputs under way plus the releases on the stack, which makes a context
freed exactly when neither is left and the call has returned; `remaining` is the
number of inputs under way as long as the result is pending, so a result never
fulfils while one is missing and never waits for none, and every other input is
stored or still to be looked at (`Account`). That the result is settled by nothing
but its aggregation is `AggsAlone`; that no drain of an input runs over a call that
is still counting, and so settles the result early, is `BuildsAlone`: the one place
where the two kinds of host differ. `AllBacked` gives every pending promise
something that may still settle it, and at rest that is script or a reaction of a
pending promise. Scripts with `any` are out of `NoOrphans`, as in the run.

**`HostTimers_proofs`**: `TablesStaySound` (`Spec => []TableSound`) and
`CallsAreLawful` (`Spec => CalledLawfully`, an action property). The assumption is
that the table is no larger than the bound on the calls of a poll (2048 slots in
`host_task.c:38`, 4096 calls in `cli_poll`). Without it a poll could end with
timers due, and the invariant would be false. The parts of `IInv` beyond the
property: the loop and the script are at the bottom of the C stack (`Stacked`);
slots hold armed timers, each its own (`SlotsApart`); what a timer was charged is
time that passed (`ChargedOnce`); and `DueServed`, the heart of it: only the
innermost poll finds timers due, has called none of them and has calls left for
them all. A callback that polls from inside makes timers due that the outer poll
has not counted, which is why the property says nothing until no poll is left.

**`Streams_proofs`**, for every script, with the exceptions that the two properties
name (section 3.1): `StreamsServe` (`Spec => []ReadsAndWritesServed`) and
`EndsAreFinal` (`Spec => EndIsFinal`). The parts needed: a read that is parked or in
the middle of its pull is in one place only and has no answer (`ReadsApart`), so an
answer is never written twice; a drain tells its reads of an end that the stream
has come to, and a pull that still runs on a failed stream has reported the failure
(`DrainsTellTheTruth`); when a read was told that the stream is done, all that is
queued was enqueued after the end (`EndsAreKnown`); what the sink was called with
agrees with `@@ws_closed` and, up to the last lapse, with `@@ws_err`
(`SinkIsKnown`).

**`Events_proofs`**: `ListenersStay` (`[]ListenersKept`) and `EveryoneIsCalled`
(`CallsEveryone`), both for scripts in which no listener changes the list that is
calling it nor stops the event of an abort (`~Reentrant`; the others lose
listeners, section 3.1); for the same scripts `SignalsKeepTheLaw` (`SignalsLawful`);
and for all scripts `EmissionsCallEveryone` (the part of `CallsEveryone` about
EventEmitter, whose snapshot no listener can reach) and `AbortsAreFinal` (the part
of `SignalsLawful` about a signal alone, `AbortsOnce`).
Each frame of an emission keeps an account: called and still to do make up what was
owed. A dispatch goes through the live list, so its account is about the first
records of the list, which only grows at its end. That needs the list to be gone
through by one dispatch at a time and left in place by it (`Single`). For
composites, `Announced` says that an aborted source has told them or that its
dispatch still will; `CompositesHear` and `RecordsApart` keep a composite's record
apart from those script removes. The assumptions say that
script functions are not signals and that a composite is made of signals.

The provers know no definition of `SelectSeq`, so `Events` filters its lists with a
recursive function, `Picked`; the first lemmas prove by induction over the length
what it returns.

TLC alone checks the rest:

* the liveness properties `Terminates`, `ReactionsRun`, `ArmedRuns`, `SettledWakes`;
* what recursive operators and algorithms over data compute: `ShowsItsMeaning`
  (`JSCompile`, `JSCompletion`), `OperandsExact` and `EvaluatesAsWritten`
  (`ExprCompile`, `ExprMeaning`), `EvaluatedOnceInOrder` and `LinkedAsWritten`
  (`ModuleMeaning`), the properties of `Heap` (releases and marking recurse), of
  `Objects` (chains of prototypes and proxies), of `Collections` (loops over
  arrays) and of `Values` (limbs, bytes and patterns);
* within the provers' reach and not proved: section 5.

## 5. Plan

Modelled so far, in the order of weight: control flow, promises and timers, the
heap, coroutines, listeners and streams, collections, properties and caches,
modules, expressions, BigInts and bytes, strings and patterns.

Theorems worth proving next, in this order:

1. `Coroutines`: that a coroutine finds its scopes and operands as it left them
   (`ResumedAsLeft`), by extending `Layout`'s invariant to parked bodies.
2. `HashMap` under `Collections`: an entry sits in the bucket of its hash, so that
   `Add` and `Remove` act on the function it stands for.

Models worth adding: the statement compiler's declarations, classes, destructuring
and for-in/of; the reuse of compiled RegExps; JSON and URL against a reference
parser; nextTick and the web facade on top of `HostTimers`.

## 6. Not modelled

* Number arithmetic, `Math`, `Number`, `Date`, `Intl`: doubles and calendars, which
  TLC would check at no size that matters.
* The lexer, `JSON`, `URL`, `Symbol`, `Error`, text encodings: character-level
  scanning and formatting, without state that anything interleaves with.
* The JIT: machine code; it leaves and re-enters the modelled loop by exit status.
* Bytecode files, dumps, the demos and tests, the web and process facade: layout,
  examples, thin wrappers.
* Within modelled parts: async generators, `for await`, top-level await, tagged
  templates, destructuring, classes; apply and construct traps; the cache of
  globals; `import.meta` and the resolver hook; callback arguments of timers; a
  host whose microtask queue is full for some drains and not for others.
