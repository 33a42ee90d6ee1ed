-------------------------------- MODULE Heap --------------------------------
(***************************************************************************)
(* The variables (var_t) of one VM: reference counts, the list of the      *)
(* garbage collector, its marks and its sweep, the pool that freed blocks  *)
(* go back to, and weak references.  The mutator is the set of VM          *)
(* instructions that take and give references: literals, loads, member     *)
(* reads and writes, blocks, functions, a return parked behind a finally,  *)
(* and a native that calls back while it holds an array in a C local.      *)
(*                                                                         *)
(* A cell is the memory of one var_t.  A script is a set of instructions   *)
(* and how many of them it executes, in any order.  Objects have two       *)
(* members; the global object is the cell Root.                            *)
(***************************************************************************)
EXTENDS Naturals, Sequences, FiniteSets

CONSTANTS
    NCells,       \* blocks malloc has to give (bound)
    MaxStack,     \* slots of the value stack in use (bound)
    MaxDepth,     \* VAR_FREE_MAX_DEPTH: nested teardowns before they queue
    GcTrigger,    \* gc_trig_var_num: list length that asks for a collection
    Scripts,      \* the sets of instructions that scripts are made of
    MaxOps,       \* how many of them a script executes (bound)
    Beyond        \* script patterns, of Hazardous, that are let through

Instrs == {"leaf", "obj", "load", "loadw", "get", "wanchor", "block", "func",
           "return", "gc", "map", "WeakRef", "register", "global"}

(* Three patterns the code does not bear (see README): a receiver given up *)
(* while the node of its member is on the stack, another collection after  *)
(* one that met a parked return, and gc() called from a callback of map.   *)
Hazardous == {"receiverDropped", "collectedParked", "collectedInNative"}

ASSUME HeapAssumption ==
    /\ NCells \in Nat \ {0} /\ MaxStack \in Nat /\ MaxDepth \in Nat \ {0}
    /\ GcTrigger \in Nat /\ MaxOps \in Nat
    /\ Scripts \subseteq SUBSET Instrs
    /\ Beyond \subseteq Hazardous

VARIABLES
    h,            \* the cells and the collector's own fields (see TypeOK)
    stack,        \* the value stack: variables, nodes and write targets
    scopes,       \* the scope stack: the var of each block or literal
    parked,       \* pending_value: a return that waits for its finally
    local,        \* the array native_Array_map holds while it calls back
    script        \* the instructions it may use, and how many are left
vars == <<h, stack, scopes, parked, local, script>>

Cells   == 1 .. NCells
None    == 0
Root    == 1
Members == {"p", "q"}

Blank == [kind |-> "leaf", val |-> 0, status |-> "gone", refs |-> 0,
          mark |-> FALSE, mem |-> [m \in Members |-> None], env |-> None,
          owner |-> None, prev |-> None, next |-> None]

Empty(g, c) == c = None \/ g.cell[c].status \in {"gone", "free", "gcfree"}

-----------------------------------------------------------------------------
(* The list of the collector and the pool of freed variables.              *)

AddToGc(g, c) ==
    LET linked == IF g.tail = None THEN [g EXCEPT !.head = c]
                                   ELSE [g EXCEPT !.cell[g.tail].next = c]
    IN  [linked EXCEPT !.cell[c].prev = g.tail, !.cell[c].next = None,
                       !.cell[c].status = "gc", !.tail = c, !.num = @ + 1,
                       !.pending = @ \/ (g.num + 1 > GcTrigger /\ g.defer = 0)]

RemoveFromGc(g, c) ==
    LET p == g.cell[c].prev
        n == g.cell[c].next
        back  == IF p # None THEN [g EXCEPT !.cell[p].next = n]
                             ELSE [g EXCEPT !.head = n]
        forth == IF n # None THEN [back EXCEPT !.cell[n].prev = p]
                             ELSE [back EXCEPT !.tail = p]
    IN  [forth EXCEPT !.cell[c].prev = None, !.cell[c].next = None,
                      !.num = IF @ > 0 THEN @ - 1 ELSE 0]

AddToFree(g, c) ==
    LET behind == IF g.pool = None THEN g
                                   ELSE [g EXCEPT !.cell[g.pool].prev = c]
    IN  [behind EXCEPT !.cell[c].status = "free", !.cell[c].next = g.pool,
                       !.pool = c]

\* (variant) a variable alone on the list has no links.
InGcList_LinksOnly(g, c) == g.cell[c].prev # None \/ g.cell[c].next # None

InGcList(g, c) ==
    g.cell[c].prev # None \/ g.cell[c].next # None \/ g.head = c \/ g.tail = c

(* Returned blocks are given out again lowest first.                       *)
Gone(g)    == {c \in Cells : g.cell[c].status = "gone"}
CanNew(g)  == g.pool # None \/ Gone(g) # {}
NextNew(g) == IF g.pool # None THEN g.pool
              ELSE CHOOSE c \in Gone(g) : \A d \in Gone(g) : c <= d

(* A pooled block keeps what its last life left in it, refs and the mark   *)
(* included, and only type, status and list links are set anew.            *)
VarNew(g, kind, val) ==
    LET c == NextNew(g)
        n == g.cell[c].next
        taken == IF g.pool = None THEN g
                 ELSE IF n = None THEN [g EXCEPT !.pool = n]
                 ELSE [g EXCEPT !.pool = n, !.cell[n].prev = None]
    IN  [taken EXCEPT
           !.cell[c] = [Blank EXCEPT !.kind = kind, !.val = val, !.status = "ref",
                                     !.refs = g.cell[c].refs, !.mark = g.cell[c].mark],
           !.stale = IF g.cell[c].refs > 0 THEN @ \cup {c} ELSE @ \ {c}]

(* gc_defer: while raised, no collection is asked for, and none begins that*)
(* is not forced.                                                          *)
Deferring(g)  == [g EXCEPT !.defer = @ + 1]
Undeferred(g) == [g EXCEPT !.defer = @ - 1]

VarRef(g, c) == IF c = None THEN g ELSE [g EXCEPT !.cell[c].refs = @ + 1]

-----------------------------------------------------------------------------
(* Releasing a reference, and tearing a variable down when it was the last.*)

RECURSIVE VarUnref(_, _), VarFree(_, _), NodesFree(_, _, _)

VarUnref(g, c) ==
    IF Empty(g, c) THEN g
    ELSE LET n == IF g.cell[c].refs > 0 THEN g.cell[c].refs - 1 ELSE 0
             d == [g EXCEPT !.cell[c].refs = n]
         IN  IF n = 0 THEN VarFree(d, c)
             ELSE IF g.cell[c].status = "ref" /\ g.cell[c].kind = "leaf"
                  THEN AddToGc(d, c)
             ELSE d

(* node_free on every member of a dying variable.                          *)
NodesFree(g, mem, ms) ==
    IF ms = {} THEN g
    ELSE LET m == IF "p" \in ms THEN "p" ELSE "q"
         IN  NodesFree(VarUnref(g, mem[m]), mem, ms \ {m})

(* vm_weak_target_dying: WeakRef cells go, finalizers wait for the drain.  *)
TargetDying(g, c) ==
    [g EXCEPT !.weak = {w \in @ : w.target # c},
              !.due  = @ \cup {w.held : w \in {x \in g.weak : x.target = c /\ x.fin}}]

(* var_clean.  A number, or an object that never had a member, keeps refs  *)
(* and mark; anything else is wiped.                                       *)
CleanLeavesCounts(g, c) ==
    /\ g.weak = {}
    /\ g.cell[c].kind # "func"
    /\ \A m \in Members : g.cell[c].mem[m] = None

Wiped(cell) == [Blank EXCEPT !.status = "free", !.prev = cell.prev, !.next = cell.next]

VarClean(g, c) ==
    LET dead == [g EXCEPT !.cell[c].status = "free"]
        torn == NodesFree(TargetDying(Deferring(dead), c),
                          g.cell[c].mem, Members)
    IN  IF CleanLeavesCounts(g, c) THEN dead
        ELSE Undeferred([torn EXCEPT !.cell[c] = Wiped(@)])

(* A function drops what it captured before it is cleaned.                 *)
Detached(g, c) ==
    LET cut == [g EXCEPT !.cell[c].env = None, !.cell[c].owner = None]
    IN  VarUnref(VarUnref(cut, g.cell[c].owner), g.cell[c].env)

(* Out of the collector's list and into the pool; in a collection only     *)
(* labelled, for MoveFreed.                                                *)
Recycled(g, c) ==
    IF ~InGcList(g, c) THEN AddToFree(g, c)
    ELSE IF g.doing THEN [g EXCEPT !.cell[c].status = "gcfree"]
    ELSE AddToFree(RemoveFromGc(g, c), c)

(* The outermost teardown goes on with the queued ones, last queued first. *)
RECURSIVE FreeQueued(_)
FreeQueued(g) ==
    IF g.depth > 0 \/ g.queue = <<>> THEN g
    ELSE LET v == g.queue[Len(g.queue)]
         IN  FreeQueued(VarFree([g EXCEPT !.queue = SubSeq(@, 1, Len(@) - 1)], v))

VarFree(g, c) ==
    IF Empty(g, c) THEN g
    ELSE IF g.depth >= MaxDepth THEN [g EXCEPT !.queue = Append(@, c)]
    ELSE LET down == Detached([g EXCEPT !.depth = @ + 1], c)
             freed == IF Empty(down, c) THEN down ELSE Recycled(VarClean(down, c), c)
         IN  FreeQueued([freed EXCEPT !.depth = @ - 1])

-----------------------------------------------------------------------------
(* Values, nodes and write targets on the stack.                           *)

Var(c)        == [how |-> "var", of |-> c, m |-> "p"]
Read(c, m)    == [how |-> "read", of |-> c, m |-> m]      \* a node, read
Target(c, m)  == [how |-> "target", of |-> c, m |-> m]    \* a node, to write
Anchor(c)     == [how |-> "anchor", of |-> c, m |-> "p"]  \* @@wanchor
WSlot(c, m)   == [how |-> "wslot", of |-> c, m |-> m]     \* @@wslot

IsNode(s)     == s.how \in {"read", "target"}
IsValue(s)    == s.how \in {"var", "read"}
CellOf(g, s)  == IF IsNode(s) THEN g.cell[s.of].mem[s.m] ELSE s.of

Height  == Len(stack)
Top     == stack[Height]
Below   == stack[Height - 1]
Popped(n) == SubSeq(stack, 1, Height - n)
HasValue  == Height >= 1 /\ IsValue(Top) /\ CellOf(h, Top) # None
TopCell   == CellOf(h, Top)
TopIs(kind) == HasValue /\ h.cell[TopCell].kind = kind

(* node_replace, with the value stack as it is at the call.                *)
SameNode(s, c, m) == IsNode(s) /\ s.of = c /\ s.m = m
Aliases(st, c, m) == Cardinality({i \in 1 .. Len(st) : SameNode(st[i], c, m)})

RECURSIVE MoveAliases(_, _, _, _)
MoveAliases(g, n, old, v) ==
    IF n = 0 THEN g ELSE MoveAliases(VarUnref(VarRef(g, v), old), n - 1, old, v)

\* (variant) a number is rewritten although somebody else holds it.
RewritesInPlace_Shared(g, old, v) ==
    old \notin {None, v} /\ g.cell[old].kind = "leaf" /\ g.cell[v].kind = "leaf"

RewritesInPlace(g, old, v) ==
    /\ old \notin {None, v}
    /\ g.cell[old].refs = 1
    /\ g.cell[old].kind = "leaf" /\ g.cell[v].kind = "leaf"

\* (variant) the references of stack aliases stay on the old value.
NodeReplace_NoTransfer(g, st, c, m, v) ==
    LET old == g.cell[c].mem[m]
    IN  IF RewritesInPlace(g, old, v)
        THEN [g EXCEPT !.cell[old].val = g.cell[v].val]
        ELSE VarUnref(VarRef([g EXCEPT !.cell[c].mem[m] = v], v), old)

NodeReplace(g, st, c, m, v) ==
    LET old == g.cell[c].mem[m]
        moved == IF old = v THEN g ELSE MoveAliases(g, Aliases(st, c, m), old, v)
    IN  IF RewritesInPlace(g, old, v)
        THEN [g EXCEPT !.cell[old].val = g.cell[v].val]
        ELSE VarUnref(VarRef([moved EXCEPT !.cell[c].mem[m] = v], v), old)

-----------------------------------------------------------------------------
(* The collection.                                                         *)

Edges(g, c) == {g.cell[c].mem[m] : m \in Members} \cup {g.cell[c].env, g.cell[c].owner}

(* gc_mark: a variable that has the mark already is not walked again.      *)
RECURSIVE GcMark(_, _, _)
GcMark(g, todo, mark) ==
    LET new == {c \in todo \ {None} : ~Empty(g, c) /\ g.cell[c].mark # mark}
    IN  IF new = {} THEN g
        ELSE GcMark([g EXCEPT !.cell = [c \in Cells |->
                        IF c \in new THEN [@[c] EXCEPT !.mark = mark] ELSE @[c]]],
                    UNION {Edges(g, c) : c \in new}, mark)

StackRoots(g) == {CellOf(g, stack[i]) : i \in 1 .. Height}
ScopeRoots    == {scopes[i].env : i \in 1 .. Len(scopes)}
WeakRoots(g)  == {w.held : w \in g.weak} \cup g.due

(* Parked values are marked, and not unmarked.                             *)
MarkRoots(g)   == {Root, parked} \cup StackRoots(g) \cup ScopeRoots \cup WeakRoots(g)
UnmarkRoots(g) == {Root} \cup StackRoots(g) \cup ScopeRoots \cup WeakRoots(g)

RECURSIVE Sweep(_, _), MoveFreed(_, _)
Sweep(g, v) ==
    IF v = None THEN g
    ELSE LET next  == g.cell[v].next
             ahead == IF v # g.head THEN g
                      ELSE [g EXCEPT !.head = next, !.headSwept = TRUE]
             swept == IF g.cell[v].status = "gc" /\ ~g.cell[v].mark
                      THEN VarFree(ahead, v) ELSE g
         IN  Sweep(swept, next)

MoveFreed(g, v) ==
    IF v = None THEN g
    ELSE LET next == g.cell[v].next
         IN  MoveFreed(IF g.cell[v].status = "gcfree"
                       THEN AddToFree(RemoveFromGc(g, v), v) ELSE g, next)

(* gc_free_free_vars: a forced collection returns the whole pool, another  *)
(* one block, the pool being smaller than its limit here.                  *)
RECURSIVE PoolReturned(_, _)
PoolReturned(g, force) ==
    IF g.pool = None THEN g
    ELSE LET c == g.pool
             back == [g EXCEPT !.pool = g.cell[c].next, !.cell[c] = Blank]
         IN  IF force THEN PoolReturned(back, force) ELSE back

GcVars(g) ==
    LET marked   == GcMark(g, MarkRoots(g), TRUE)
        swept    == Sweep(marked, marked.head)
        unmarked == GcMark(swept, UnmarkRoots(swept), FALSE)
    IN  MoveFreed(unmarked, unmarked.head)

Gc(g, force) ==
    IF ~force /\ (g.defer > 0 \/ g.num < GcTrigger) THEN g
    ELSE [PoolReturned(GcVars([g EXCEPT !.doing = TRUE]), force) EXCEPT !.doing = FALSE]

(* vm_drain_finalizers: the callbacks run, then their held values go.      *)
RECURSIVE Drain(_)
Drain(g) ==
    IF g.due = {} THEN g
    ELSE LET held == CHOOSE c \in g.due : TRUE
         IN  Drain(VarUnref([g EXCEPT !.due = @ \ {held}], held))
-----------------------------------------------------------------------------
(* What a script can see: everything a root leads to.                      *)

RECURSIVE Closed(_, _)
Closed(g, s) ==
    LET more == (s \cup UNION {Edges(g, c) : c \in s}) \ {None}
    IN  IF more = s THEN s ELSE Closed(g, more)

Held      == IF local = None THEN {} ELSE {local}
Reachable == Closed(h, ({Root, parked} \cup StackRoots(h) \cup ScopeRoots
                        \cup WeakRoots(h) \cup Held) \ {None})
Live      == {c \in Cells : ~Empty(h, c)}

-----------------------------------------------------------------------------
(* Instructions.                                                           *)

(* A collection that is asked for runs before the next instruction.        *)
AtSafePoint == h.pending /\ h.defer = 0
StackOwned  == \A i \in 1 .. Height : IsNode(stack[i]) => ~Empty(h, stack[i].of)
Running     == ~AtSafePoint /\ ("receiverDropped" \in Beyond \/ StackOwned)

Spend(i) ==
    /\ i \in script.may /\ script.left > 0
    /\ script' = [script EXCEPT !.left = @ - 1]

(* INT and its like: a new number on the stack; two in a row differ.       *)
PushLeaf ==
    /\ Running /\ Spend("leaf") /\ Height < MaxStack /\ CanNew(h)
    /\ h' = VarRef(VarNew(h, "leaf", 1 + (script.left % 2)), NextNew(h))
    /\ stack' = Append(stack, Var(NextNew(h)))
    /\ UNCHANGED <<scopes, parked, local>>

(* BLOCK and OBJ: a scope over a new variable.                             *)
NewScope(literal) ==
    /\ CanNew(h)
    /\ h' = VarRef(VarNew(h, "obj", 0), NextNew(h))
    /\ scopes' = Append(scopes, [env |-> NextNew(h), literal |-> literal])
    /\ UNCHANGED <<stack, parked, local>>

Block == Running /\ Spend("block") /\ NewScope(FALSE)
Obj   == Running /\ Spend("obj") /\ NewScope(TRUE)

Inner == scopes[Len(scopes)]

(* MEMBER: the value becomes a member of the literal; a function's home    *)
(* object is set to it.                                                    *)
HomeSet(g, f, o) ==
    IF g.cell[f].kind # "func" THEN g
    ELSE LET old == g.cell[f].owner
         IN  VarRef([VarUnref([g EXCEPT !.cell[f].owner = None], old)
                        EXCEPT !.cell[f].owner = o], o)

Added(g, o, m, v) == NodeReplace(g, Popped(1), o, m, v)

Member ==
    /\ Running /\ scopes # <<>> /\ Inner.literal /\ HasValue
    /\ \E m \in Members :
          h' = VarUnref(Added(HomeSet(h, TopCell, Inner.env), Inner.env, m, TopCell),
                        TopCell)
    /\ stack' = Popped(1)
    /\ UNCHANGED <<scopes, parked, local, script>>

(* vm_pop_scope: node slots of a scope that dies are rebased on their      *)
(* values; a captured one outlives its scope.                              *)
Rebased(g, st, env) ==
    IF g.cell[env].refs > 1 THEN st
    ELSE [i \in 1 .. Len(st) |->
            IF IsNode(st[i]) /\ st[i].of = env THEN Var(CellOf(g, st[i])) ELSE st[i]]

(* Assignments are over when the block they are in is left.                *)
NothingToWrite(env) == \A i \in 1 .. Height : stack[i].how = "target" => stack[i].of # env

ScopePopped(g, env) == [VarUnref(g, env) EXCEPT !.pending = TRUE]

BlockEnd ==
    /\ Running /\ scopes # <<>> /\ ~Inner.literal /\ NothingToWrite(Inner.env)
    /\ stack' = Rebased(h, stack, Inner.env)
    /\ h' = ScopePopped(h, Inner.env)
    /\ scopes' = SubSeq(scopes, 1, Len(scopes) - 1)
    /\ UNCHANGED <<parked, local, script>>

ObjEnd ==
    /\ Running /\ scopes # <<>> /\ Inner.literal /\ Height < MaxStack
    /\ h' = ScopePopped(VarRef(h, Inner.env), Inner.env)
    /\ stack' = Append(stack, Var(Inner.env))
    /\ scopes' = SubSeq(scopes, 1, Len(scopes) - 1)
    /\ UNCHANGED <<parked, local, script>>

(* FUNC: a function that captures the block it is defined in.              *)
Func ==
    /\ Running /\ Spend("func") /\ Height < MaxStack /\ CanNew(h)
    /\ LET f == NextNew(h)
           captured == IF scopes = <<>> \/ Inner.literal THEN None ELSE Inner.env
           new == VarRef([VarNew(h, "func", 0) EXCEPT !.cell[f].env = captured], f)
       IN  /\ h' = VarRef(new, captured)
           /\ stack' = Append(stack, Var(f))
    /\ UNCHANGED <<scopes, parked, local>>

(* The bindings a name can be found in.                                    *)
Envs == {Root} \cup {scopes[i].env : i \in {j \in 1 .. Len(scopes) : ~scopes[j].literal}}

(* LOADV, LOAD and LOADW: the value of a binding, its node to read, or its *)
(* node to assign to.                                                      *)
Load ==
    /\ Running /\ Spend("load") /\ Height < MaxStack
    /\ \E c \in Envs, m \in Members :
         LET v == h.cell[c].mem[m] IN
         /\ v # None
         /\ h' = VarRef(h, v)
         /\ \E slot \in {Var(v), Read(c, m)} : stack' = Append(stack, slot)
    /\ UNCHANGED <<scopes, parked, local>>

LoadW ==
    /\ Running /\ Spend("loadw") /\ Height < MaxStack
    /\ \E c \in Envs, m \in Members :
         /\ h' = VarRef(h, h.cell[c].mem[m])
         /\ stack' = Append(stack, Target(c, m))
    /\ UNCHANGED <<scopes, parked, local>>

(* GET: the receiver gives way to its member: the value if the receiver    *)
(* dies with this instruction, the node otherwise.                         *)
Get ==
    /\ Running /\ Spend("get") /\ TopIs("obj")
    /\ \E m \in Members :
         LET v == h.cell[TopCell].mem[m]
             slot == IF h.cell[TopCell].refs <= 1 THEN Var(v) ELSE Read(TopCell, m)
         IN  /\ v # None
             /\ stack' = Append(Popped(1), slot)
             /\ h' = VarUnref(VarRef(h, v), TopCell)
    /\ UNCHANGED <<scopes, parked, local>>

(* WANCHOR: the receiver of a member write, held while the value is        *)
(* computed.                                                               *)
WAnchor ==
    /\ Running /\ Spend("wanchor") /\ TopIs("obj")
    /\ stack' = Append(Popped(1), Anchor(TopCell))
    /\ h' = VarUnref(VarRef(h, TopCell), TopCell)
    /\ UNCHANGED <<scopes, parked, local>>

(* WTARGET: the anchor becomes the member's node, or a slot that goes on   *)
(* holding a receiver nothing else holds.                                  *)
WTarget ==
    /\ Running /\ HasValue /\ Height >= 2 /\ Below.how = "anchor"
    /\ \E m \in Members :
         LET base == Below.of
             freed == VarUnref(VarRef(Deferring(h), base), base)
             transient == freed.cell[base].refs <= 1
             target == IF transient THEN WSlot(base, m) ELSE Target(base, m)
             aimed == VarRef(freed, IF transient THEN base ELSE freed.cell[base].mem[m])
         IN  /\ stack' = Popped(2) \o <<target, Var(TopCell)>>
             /\ h' = Undeferred(VarUnref(VarRef(VarUnref(aimed, base), TopCell), TopCell))
    /\ UNCHANGED <<scopes, parked, local, script>>

\* (variant) the @@wobj member of a used slot is not dropped.
Written_KeepsReceiver(g, s, v) ==
    IF s.how = "target"
    THEN NodeReplace(VarUnref(g, CellOf(g, s)), Popped(2), s.of, s.m, v)
    ELSE NodeReplace(g, Popped(2), s.of, s.m, v)

(* The reference of the target is given back, then its member is replaced. *)
Written(g, s, v) ==
    IF s.how = "target"
    THEN NodeReplace(VarUnref(g, CellOf(g, s)), Popped(2), s.of, s.m, v)
    ELSE VarUnref(NodeReplace(g, Popped(2), s.of, s.m, v), s.of)

(* A write can free the receiver it writes to (o.p = (o = 5) with o the    *)
(* only holder of itself); its node, back in the node pool, still has v.   *)
Result(g, s, v) ==
    IF s.how = "wslot" \/ Empty(g, s.of) THEN v ELSE g.cell[s.of].mem[s.m]

(* ASIGN, whose value stays on the stack unless the next instruction is    *)
(* its POP.                                                                *)
Asign ==
    /\ Running /\ HasValue /\ Height >= 2 /\ Below.how \in {"target", "wslot"}
    /\ LET done == Written(Deferring(h), Below, TopCell)
           r == Result(done, Below, TopCell)
       IN  \/ /\ stack' = Popped(2)
              /\ h' = Undeferred(VarUnref(done, TopCell))
           \/ /\ stack' = Append(Popped(2), Var(r))
              /\ h' = Undeferred(VarUnref(VarRef(done, r), TopCell))
    /\ UNCHANGED <<scopes, parked, local, script>>

(* POP, and whatever else consumes a value.                                *)
Pop ==
    /\ Running /\ HasValue
    /\ stack' = Popped(1)
    /\ h' = VarUnref(h, TopCell)
    /\ UNCHANGED <<scopes, parked, local, script>>

(* RETURN out of a try with a finally: the value is parked and the scope   *)
(* of the try is left; FINALLY_END hands it on.                            *)
Return ==
    /\ Running /\ Spend("return") /\ HasValue
    /\ scopes # <<>> /\ ~Inner.literal /\ NothingToWrite(Inner.env)
    /\ parked' = TopCell
    /\ LET dropped == VarUnref(h, parked) IN
       /\ stack' = Rebased(dropped, Popped(1), Inner.env)
       /\ h' = ScopePopped(dropped, Inner.env)
    /\ scopes' = SubSeq(scopes, 1, Len(scopes) - 1)
    /\ UNCHANGED local

FinallyEnd ==
    /\ Running /\ parked # None /\ Height < MaxStack
    /\ stack' = Append(stack, Var(parked))
    /\ h' = VarUnref(VarRef(h, parked), parked)
    /\ parked' = None
    /\ UNCHANGED <<scopes, local, script>>

(* native_Array_map: the result array is a C local, and opportunistic      *)
(* collections are put off; each callback result is added to it.           *)
MapBegin ==
    /\ Running /\ Spend("map") /\ local = None /\ CanNew(h)
    /\ local' = NextNew(h)
    /\ h' = Deferring(VarNew(h, "obj", 0))
    /\ UNCHANGED <<stack, scopes, parked>>

MapAdd ==
    /\ Running /\ local # None /\ HasValue
    /\ \E m \in Members :
         /\ h.cell[local].mem[m] = None
         /\ h' = VarUnref(Added(h, local, m, TopCell), TopCell)
    /\ stack' = Popped(1)
    /\ UNCHANGED <<scopes, parked, local, script>>

MapEnd ==
    /\ Running /\ local # None /\ Height < MaxStack
    /\ h' = VarRef(Undeferred(h), local)
    /\ stack' = Append(stack, Var(local))
    /\ local' = None
    /\ UNCHANGED <<scopes, parked, script>>

(* new WeakRef(target), and register(target, held) of a registry.          *)
WeakRef ==
    /\ Running /\ Spend("WeakRef") /\ TopIs("obj")
    /\ stack' = Popped(1)
    /\ h' = VarUnref([h EXCEPT !.weak = @ \cup
                         {[target |-> TopCell, fin |-> FALSE, held |-> None]}], TopCell)
    /\ UNCHANGED <<scopes, parked, local>>

Register ==
    /\ Running /\ Spend("register") /\ HasValue /\ Height >= 2 /\ IsValue(Below)
    /\ LET target == CellOf(h, Below)
           cell == [target |-> target, fin |-> TRUE, held |-> TopCell]
       IN  /\ target # None /\ h.cell[target].kind = "obj"
           /\ \A w \in h.weak : ~w.fin
           /\ h.due = {}
           /\ h' = VarUnref(VarUnref(VarRef([h EXCEPT !.weak = @ \cup {cell}], TopCell),
                                     TopCell), target)
    /\ stack' = Popped(2)
    /\ UNCHANGED <<scopes, parked, local>>

(* What a walk does that begins in returned memory is undefined: it is not *)
(* taken.                                                                  *)
Dangling   == \E c \in {h.head, h.tail} \ {None} : h.cell[c].status = "gone"
MayCollect ==
    /\ ~Dangling
    /\ "collectedParked" \in Beyond \/ \A c \in Cells : ~h.cell[c].mark

(* The global gc(), and the collection the run loop fits in.               *)
GcCall ==
    /\ Running /\ Spend("gc") /\ MayCollect
    /\ "collectedInNative" \in Beyond \/ local = None
    /\ h' = Drain(Gc(h, TRUE))
    /\ UNCHANGED <<stack, scopes, parked, local>>

SafePoint ==
    /\ AtSafePoint /\ MayCollect
    /\ h' = Gc([h EXCEPT !.pending = FALSE], FALSE)
    /\ UNCHANGED <<stack, scopes, parked, local, script>>

Next ==
    \/ PushLeaf \/ Block \/ Obj \/ Member \/ BlockEnd \/ ObjEnd \/ Func
    \/ Load \/ LoadW \/ Get \/ WAnchor \/ WTarget \/ Asign \/ Pop
    \/ Return \/ FinallyEnd \/ MapBegin \/ MapAdd \/ MapEnd
    \/ WeakRef \/ Register \/ GcCall \/ SafePoint

Fresh == [cell |-> [c \in Cells |-> IF c = Root
                     THEN [Blank EXCEPT !.kind = "obj", !.status = "ref", !.refs = 1]
                     ELSE Blank],
          head |-> None, tail |-> None, num |-> 0, pool |-> None,
          queue |-> <<>>, depth |-> 0, doing |-> FALSE, defer |-> 0,
          pending |-> FALSE, weak |-> {}, due |-> {}, stale |-> {},
          headSwept |-> FALSE]

(* After the statement p = 1: the number is the global object's only.      *)
Assigned(g) ==
    LET c == NextNew(g)
        made == VarRef(VarNew(g, "leaf", 1), c)
    IN  VarUnref(NodeReplace(made, <<>>, Root, "p", c), c)

(* A script that has the "instruction" global may have assigned one before.*)
Init ==
    /\ \E may \in Scripts :
          /\ script = [may |-> may, left |-> MaxOps]
          /\ h \in {Fresh} \cup IF "global" \in may THEN {Assigned(Fresh)} ELSE {}
    /\ stack = <<>> /\ scopes = <<>> /\ parked = None /\ local = None

Spec == Init /\ [][Next]_vars
-----------------------------------------------------------------------------
(* Properties.                                                             *)

(* Every field has its type; between two instructions no teardown and no   *)
(* collection is under way.                                                *)
TypeOK ==
    /\ \A c \in Cells : h.cell[c] \in
         [kind : {"leaf", "obj", "func"}, val : 0 .. 2,
          status : {"gone", "free", "gcfree", "gc", "ref"}, refs : Nat,
          mark : BOOLEAN, mem : [Members -> Cells \cup {None}],
          env : Cells \cup {None}, owner : Cells \cup {None},
          prev : Cells \cup {None}, next : Cells \cup {None}]
    /\ {h.head, h.tail, h.pool} \subseteq Cells \cup {None}
    /\ h.queue = <<>> /\ h.depth = 0 /\ ~h.doing
    /\ h.defer = IF local = None THEN 0 ELSE 1
    /\ \A w \in h.weak : w.target \in Cells
    /\ stack \in Seq([how : {"var", "read", "target", "anchor", "wslot"},
                       of : Cells \cup {None}, m : Members])
    /\ parked \in Cells \cup {None} /\ local \in Cells \cup {None}

(* Whatever a script can still get at is alive: neither a release nor a    *)
(* collection (gc_vars) frees a variable that the stack, a scope, a parked *)
(* return, a native, a finalizer or another reachable variable leads to.   *)
NothingReachableFreed == \A c \in Reachable : ~Empty(h, c)

(* How many references script-visible holders have on a variable.          *)
Slots(c) == Cardinality({i \in 1 .. Height : CellOf(h, stack[i]) = c})
Nodes(os, c) == Cardinality({o \in os : h.cell[o].mem["p"] = c})
              + Cardinality({o \in os : h.cell[o].mem["q"] = c})
Captures(os, c) == Cardinality({o \in os : h.cell[o].env = c})
                 + Cardinality({o \in os : h.cell[o].owner = c})
Frames(c) == Cardinality({i \in 1 .. Len(scopes) : scopes[i].env = c})
Others(c) == (IF parked = c THEN 1 ELSE 0) + (IF c = Root THEN 1 ELSE 0)
           + Cardinality({w \in h.weak : w.held = c}) + Cardinality(h.due \cap {c})
Holders(os, c) == Slots(c) + Nodes(os, c) + Captures(os, c) + Frames(c) + Others(c)

(* Every reference a script can still give up is counted, so no release    *)
(* frees a variable another holder has: node_replace moves the references  *)
(* of the aliases on the stack, a rebased slot keeps its own.              *)
CountsHold == LET os == Reachable IN \A c \in os : h.cell[c].refs >= Holders(os, c)

(* Garbage that no cycle holds is freed at once: a live variable that      *)
(* nothing reaches is on a cycle, behind one, or was given out with the    *)
(* count of its former life.                                               *)
OnCycle(c) == c \in Closed(h, Edges(h, c) \ {None})
Excused    == Closed(h, {c \in Live : OnCycle(c)} \cup (h.stale \cap Live))
PromptlyFreed == \A c \in Live \ Reachable : c \in Excused

(* No block is in the pool twice, or in the pool and alive (a closure that *)
(* frees the scope that owns it must not be freed once more).              *)
RECURSIVE PoolFrom(_, _)
PoolFrom(c, seen) ==
    IF c = None THEN seen
    ELSE IF c \in seen THEN Cells \cup {None} ELSE PoolFrom(h.cell[c].next, seen \cup {c})
PoolSound == \A c \in PoolFrom(h.pool, {}) : c # None /\ h.cell[c].status = "free"

(* A WeakRef or a registry never refers to memory that has a new life: when*)
(* the target dies its cells leave the registry in the same step.          *)
WeakCleared == \A w \in h.weak : ~Empty(h, w.target)

(* The collector's list: from its head, links lead through the variables   *)
(* with status GC and no others, once each, and back; its length is known; *)
(* and nothing is left labelled GC_FREE.                                   *)
ListVars == {c \in Cells : h.cell[c].status = "gc"}
Linked(c) ==
    LET p == h.cell[c].prev
        n == h.cell[c].next
    IN  /\ IF p = None THEN h.head = c ELSE p \in ListVars /\ h.cell[p].next = c
        /\ IF n = None THEN h.tail = c ELSE n \in ListVars /\ h.cell[n].prev = c
RECURSIVE ListFrom(_, _)
ListFrom(c, seen) ==
    IF c = None \/ c \in seen THEN seen ELSE ListFrom(h.cell[c].next, seen \cup {c})
ListSound ==
    /\ ListFrom(h.head, {}) = ListVars /\ \A c \in ListVars : Linked(c)
    /\ (h.head = None) = (h.tail = None)
    /\ h.num = Cardinality(ListVars)
    /\ \A c \in Cells : h.cell[c].status # "gcfree"

(* No block is in the pool twice, or in the pool and in use; and until a   *)
(* collection sweeps the head of its list (where the code loses the list,  *)
(* see README) the list is whole after every teardown and collection, the  *)
(* ones included that free or revive a variable on it from inside another  *)
(* teardown.                                                               *)
MemorySound == TypeOK /\ PoolSound /\ (h.headSwept \/ ListSound)

(* What can be reached is alive, and counted for each of its holders.      *)
ReachableKept == NothingReachableFreed /\ CountsHold

(* What cannot be reached goes, and takes its weak cells with it.          *)
Reclaimed == PromptlyFreed /\ WeakCleared

(* The value of a slot is the value it had when it was pushed: writing to  *)
(* the variable it came from, in place or not, does not change it.         *)
SnapshotsStable ==
    [][\A i \in 1 .. Height :
         stack[i].how = "var" /\ i <= Len(stack') /\ stack'[i] = stack[i]
         /\ ~Empty(h, stack[i].of)
           => h'.cell[stack[i].of].val = h.cell[stack[i].of].val]_vars

=============================================================================
