------------------------------ MODULE Objects ------------------------------
(***************************************************************************)
(* Properties: members, prototypes, the inline cache of member accesses,   *)
(* and proxies (mario.c, native_Object.c, native_Reflect.c,                *)
(* native_Proxy.c).                                                        *)
(*                                                                         *)
(* An object holds its members in a hash map of nodes and its prototype in *)
(* a hidden member.  A read that finds a function or an accessor along the *)
(* chain answers the ancestor's node; one that finds anything else clones  *)
(* the value into the receiver, as a member flagged be_inherited that keys *)
(* and hasOwnProperty pass over.  Every access site remembers the node its *)
(* last lookup ended at, for as long as no shape changes: vm->shape_epoch  *)
(* counts the changes, and an entry of an earlier epoch is dead.  It is    *)
(* only compared for equality, so here a bump empties the cache.           *)
(*                                                                         *)
(* A script chooses one of two worlds: "chain", plain objects and their    *)
(* prototypes, and "proxies", proxies of one object and of each other.     *)
(* Names with a meaning of their own (length, call, toString, statics of   *)
(* Object) and array elements are not modelled.  Traps and accessors run   *)
(* script, which is a sequence of further steps: a call of one is an       *)
(* outcome here.                                                           *)
(***************************************************************************)
EXTENDS Naturals, FiniteSets, TLC

CONSTANTS
    Obj,        \* the plain objects
    Proxies,    \* the proxies
    TargetOf,   \* what each proxy stands for: an object or another proxy
    Keys,       \* property names
    Scalars,    \* values that a lookup clones
    Funcs,      \* function values: found where they are
    Accessors,  \* getters, setters and pairs of both
    Sites,      \* the places in the bytecode that access a member
    None, Undef

ASSUME ObjectsAssumption ==
    TargetOf \in [Proxies -> Obj \cup Proxies]

Things == Obj \cup Proxies
Values == Scalars \cup Funcs \cup Accessors
Worlds == {"chain", "proxies"}

(* The operations of which a proxy may have a trap.                        *)
TrapNames == {"get", "set", "has", "deleteProperty", "ownKeys", "defineProperty",
              "getOwnPropertyDescriptor", "getPrototypeOf", "setPrototypeOf",
              "isExtensible", "preventExtensions"}

VARIABLES
    own,    \* own[t][k]: the node of member k, for the k that t has
    proto,  \* proto[t]: the prototype member, or None
    noext,  \* the things with the hidden mark of Object.preventExtensions
    mic,    \* mic[s]: what site s remembers, or None
    traps,  \* traps[x]: the operations the handler of proxy x has a trap for
    revoked,\* the proxies that have been revoked
    world

vars == <<own, proto, noext, mic, traps, revoked, world>>

(* The whole heap as a value: what an operation reads and leaves behind.   *)
Heap == [own |-> own, proto |-> proto, noext |-> noext, mic |-> mic]

(* What an operation answers, and the heap it leaves.                      *)
Out(w, res) == [heap |-> w, res |-> res]

-----------------------------------------------------------------------------
(* Nodes and the cache.                                                    *)

Node(v, inh) == [val |-> v, const |-> FALSE, enum |-> TRUE, inh |-> inh]

(* node_free, var_add of a new member and a new link in an existing chain  *)
(* raise the epoch.                                                        *)
Bump(w) == [w EXCEPT !.mic = [s \in Sites |-> None]]

(* Mutant: a member that did not exist before shadows one further up, and  *)
(* the sites that remember that one are not told.                          *)
AddMember_Silent(w, t, k, v) ==
    IF k \in DOMAIN w.own[t]
      THEN IF v = None THEN w ELSE [w EXCEPT !.own[t][k].val = v]
      ELSE [w EXCEPT !.own[t] = (k :> Node(IF v = None THEN Undef ELSE v, FALSE)) @@ @]

(* var_add, node_replace: an existing node keeps its flags, and a NULL     *)
(* value keeps what it holds.                                              *)
AddMember(w, t, k, v) ==
    IF k \in DOMAIN w.own[t]
      THEN IF v = None THEN w ELSE [w EXCEPT !.own[t][k].val = v]
      ELSE Bump([w EXCEPT !.own[t] = (k :> Node(IF v = None THEN Undef ELSE v, FALSE)) @@ @])

(* var_delete_own_member: whatever the node's flags are.                   *)
DeleteMember(w, t, k) ==
    IF k \notin DOMAIN w.own[t] THEN w
    ELSE Bump([w EXCEPT !.own[t] = [j \in DOMAIN @ \ {k} |-> @[j]]])

(* var_set_prototype: no prototype is ever taken away.                     *)
Link(w, t, p) ==
    IF p = None THEN w
    ELSE LET x == [w EXCEPT !.proto[t] = p]
         IN  IF w.proto[t] = None THEN x ELSE Bump(x)

(* The first ancestor of t that has k.                                     *)
RECURSIVE Holder(_, _, _)
Holder(w, t, k) ==
    LET p == w.proto[t]
    IN  IF p = None THEN None
        ELSE IF k \in DOMAIN w.own[p] THEN p
        ELSE Holder(w, p, k)

Shared(v) == v \in Funcs \cup Accessors

(* Mutant: the clone looks like a member of the receiver's own.            *)
Find_OwnClone(w, t, k) ==
    LET h == Holder(w, t, k)
    IN  CASE k \in DOMAIN w.own[t] -> [heap |-> w, at |-> t]
          [] k \notin DOMAIN w.own[t] /\ h = None -> [heap |-> w, at |-> None]
          [] k \notin DOMAIN w.own[t] /\ h # None ->
               IF Shared(w.own[h][k].val) THEN [heap |-> w, at |-> h]
               ELSE [heap |-> Bump([w EXCEPT !.own[t] = (k :> Node(w.own[h][k].val, FALSE)) @@ @]),
                     at |-> t]

(* var_find_member: the heap it leaves and where the node is.              *)
Find(w, t, k) ==
    LET h == Holder(w, t, k)
    IN  CASE k \in DOMAIN w.own[t] -> [heap |-> w, at |-> t]
          [] k \notin DOMAIN w.own[t] /\ h = None -> [heap |-> w, at |-> None]
          [] k \notin DOMAIN w.own[t] /\ h # None ->
               IF Shared(w.own[h][k].val) THEN [heap |-> w, at |-> h]
               ELSE [heap |-> Bump([w EXCEPT !.own[t] = (k :> Node(w.own[h][k].val, TRUE)) @@ @]),
                     at |-> t]

(* mic_lookup, else var_find_member and mic_fill.                          *)
Hit(w, s, t, k) == w.mic[s] # None /\ w.mic[s].base = t /\ w.mic[s].key = k

Resolve(w, s, t, k) ==
    IF Hit(w, s, t, k) THEN [heap |-> w, at |-> w.mic[s].at]
    ELSE LET f == Find(w, t, k)
         IN  IF f.at = None THEN f
             ELSE [f EXCEPT !.heap.mic[s] = [base |-> t, key |-> k, at |-> f.at]]

Visible(w, t, k) == k \in DOMAIN w.own[t] /\ ~w.own[t][k].inh

-----------------------------------------------------------------------------
(* The operations on a plain object.                                       *)

(* do_get: an accessor's getter is called, an absent member is undefined.  *)
GetOf(w, s, t, k) ==
    LET f == Resolve(w, s, t, k)
    IN  CASE f.at = None -> Out(f.heap, Undef)
          [] f.at # None -> LET v == f.heap.own[f.at][k].val
                            IN  Out(f.heap, IF v \in Accessors THEN "called" ELSE v)

(* do_get for writing and handle_asign: a setter is called, or, where an   *)
(* accessor has none, nothing is; a data member found along the chain is   *)
(* shadowed, and a constant that has a value throws.                       *)
AssignTo(w, s, t, k, v) ==
    LET f == Resolve(w, s, t, k)
        found == IF f.at = None THEN Undef ELSE f.heap.own[f.at][k].val
        x == AddMember(f.heap, t, k, None)
    IN  CASE found \in Accessors ->
               Out(f.heap, "called")
          [] found \notin Accessors ->
               IF x.own[t][k].const /\ x.own[t][k].val # Undef
                 THEN Out(x, "ConstError")
                 ELSE Out([x EXCEPT !.own[t][k].val = v], v)

(* mario_set_var: Reflect.set and writes through a proxy look at no flag.  *)
SetTo(w, t, k, v) ==
    LET f == Find(w, t, k)
        found == IF f.at = None THEN Undef ELSE f.heap.own[f.at][k].val
    IN  IF found \in Accessors
          THEN Out(f.heap, "called")
          ELSE Out([AddMember(f.heap, t, k, None) EXCEPT !.own[t][k].val = v], "true")

(* var_has_member: a lookup like any other, it clones too.                 *)
HasIn(w, t, k) ==
    LET f == Find(w, t, k) IN Out(f.heap, IF f.at = None THEN "false" ELSE "true")

DeleteFrom(w, t, k) == Out(DeleteMember(w, t, k), "true")

(* own_keys_default: is k among them?                                      *)
OwnKeys(w, t, k, enumOnly) ==
    Out(w, IF Visible(w, t, k) /\ (enumOnly => w.own[t][k].enum) THEN "listed" ELSE "unlisted")

(* mario_define_default: writable and configurable are one flag, the last  *)
(* one stated wins; a new member is hidden from enumeration unless the     *)
(* descriptor says otherwise.  None stands for a field left out.           *)
Define(w, t, k, desc) ==
    LET new == k \notin DOMAIN w.own[t]
        x == AddMember(w, t, k, desc.value)
        flag == IF desc.value \in Accessors \/ desc.configurable # None
                  THEN desc.configurable ELSE desc.writable
        y == IF flag = None THEN x ELSE [x EXCEPT !.own[t][k].const = (flag = "false")]
        hide == IF desc.enumerable = None THEN new ELSE desc.enumerable = "false"
    IN  Out(IF desc.enumerable = None /\ ~new THEN y ELSE [y EXCEPT !.own[t][k].enum = ~hide],
            "true")

(* mario_gopd_default: what the descriptor says of the node, the clones of *)
(* inherited values included.                                              *)
Describe(w, t, k) ==
    Out(w, IF k \notin DOMAIN w.own[t] THEN Undef ELSE
           <<w.own[t][k].val, IF w.own[t][k].const THEN "const" ELSE "writable",
             IF w.own[t][k].enum THEN "enumerable" ELSE "hidden">>)

PrototypeOf(w, t) == Out(w, w.proto[t])

SetPrototype(w, t, p) == Out(Link(w, t, p), "true")

(* The hidden member OBJ_NO_EXT, which no assignment looks at.             *)
Extensible(w, t) == Out(w, IF t \in w.noext THEN "false" ELSE "true")

PreventExtensions(w, t) ==
    Out(IF t \in w.noext THEN w ELSE Bump([w EXCEPT !.noext = @ \cup {t}]), "true")

-----------------------------------------------------------------------------
(* Proxies.  What an operation does to a plain object, by the name of its  *)
(* trap.                                                                   *)

Direct(w, t, op) ==
    CASE op.trap = "get"                      -> GetOf(w, op.site, t, op.k)
      [] op.trap = "set"                      -> SetTo(w, t, op.k, op.v)
      [] op.trap = "has"                      -> HasIn(w, t, op.k)
      [] op.trap = "deleteProperty"           -> DeleteFrom(w, t, op.k)
      [] op.trap = "ownKeys"                  -> OwnKeys(w, t, op.k, op.v)
      [] op.trap = "defineProperty"           -> Define(w, t, op.k, op.v)
      [] op.trap = "getOwnPropertyDescriptor" -> Describe(w, t, op.k)
      [] op.trap = "getPrototypeOf"           -> PrototypeOf(w, t)
      [] op.trap = "setPrototypeOf"           -> SetPrototype(w, t, op.v)
      [] op.trap = "isExtensible"             -> Extensible(w, t)
      [] op.trap = "preventExtensions"        -> PreventExtensions(w, t)

(* What a trap may answer, and what the engine makes of the answer.        *)
Trapped(w, x, op) ==
    CASE op.trap = "set" -> {Out(w, "true"), Out(w, "TypeError")}
      [] op.trap = "preventExtensions" ->
           {Out(w, "false"),
            Out(w, IF TargetOf[x] \in w.noext THEN "true" ELSE "TypeError")}
      [] op.trap = "getPrototypeOf" -> {Out(w, p) : p \in Obj \cup {None, "TypeError"}}
      [] op.trap = "ownKeys" -> {Out(w, "listed"), Out(w, "unlisted")}
      [] op.trap \in {"get", "getOwnPropertyDescriptor"} -> {Out(w, v) : v \in Scalars \cup {Undef}}
      [] op.trap \in {"has", "deleteProperty", "defineProperty", "setPrototypeOf",
                      "isExtensible"} -> {Out(w, "true"), Out(w, "false")}

(* Mutant: in does not look whether the target is a proxy.                 *)
Forwarded_NotHas == {"get", "set", "deleteProperty"}

(* proxy_get, proxy_set, ...: revoked, trapped, or passed to the target.   *)
(* Four operations look again at whether the target is itself a proxy, the *)
(* others act on the object that stands for it.                            *)
Forwarded == {"get", "set", "has", "deleteProperty"}

RECURSIVE Through(_, _, _)
Through(w, x, op) ==
    CASE x \in revoked -> {Out(w, "TypeError")}
      [] x \notin revoked /\ op.trap \in traps[x] -> Trapped(w, x, op)
      [] x \notin revoked /\ op.trap \notin traps[x] ->
           IF TargetOf[x] \in Proxies /\ op.trap \in Forwarded
             THEN Through(w, TargetOf[x], op)
             ELSE {Direct(w, TargetOf[x], op)}

Op(trap, s, k, v) == [trap |-> trap, site |-> s, k |-> k, v |-> v]

(* mario_get_var, mario_set_var, mario_has_var, ...                        *)
Performed(w, t, op) ==
    IF t \in Proxies THEN Through(w, t, op) ELSE {Direct(w, t, op)}

-----------------------------------------------------------------------------
(* What scripts do: t.k, t.k = v, k in t, delete t.k, Object and Reflect.  *)
(* Each is the set of its outcomes in heap w.                              *)

Get(w, s, t, k) == Performed(w, t, Op("get", s, k, None))

Assign(w, s, t, k, v) ==
    IF t \in Proxies
      THEN {Out(o.heap, IF o.res = "TypeError" THEN o.res ELSE v) :
              o \in Through(w, t, Op("set", s, k, v))}
      ELSE {AssignTo(w, s, t, k, v)}

ReflectSet(w, t, k, v) == Performed(w, t, Op("set", None, k, v))
In(w, t, k)            == Performed(w, t, Op("has", None, k, None))
Delete(w, t, k)        == Performed(w, t, Op("deleteProperty", None, k, None))
DefineProperty(w, t, k, desc) == Performed(w, t, Op("defineProperty", None, k, desc))
GetPrototypeOf(w, t)   == Performed(w, t, Op("getPrototypeOf", None, None, None))
ReflectDescribe(w, t, k) == Performed(w, t, Op("getOwnPropertyDescriptor", None, k, None))

(* native_Object_getOwnPropertyDescriptor passes over inherited clones.    *)
ObjectDescribe(w, t, k) ==
    IF t \in Obj /\ ~Visible(w, t, k) THEN {Out(w, Undef)} ELSE ReflectDescribe(w, t, k)

(* native_Object_setPrototypeOf: null is ignored.  Reflect goes the same   *)
(* way.  A cycle is not refused, here the caller does not ask for one.     *)
RECURSIVE Ancestors(_, _)
Ancestors(w, t) == IF t = None THEN {} ELSE {t} \cup Ancestors(w, w.proto[t])

RECURSIVE StandsFor(_)
StandsFor(t) == IF t \in Proxies THEN {t} \cup StandsFor(TargetOf[t]) ELSE {t}

SetPrototypeOf(w, t, p) == Performed(w, t, Op("setPrototypeOf", None, None, p))

(* Object.keys, getOwnPropertyNames, Reflect.ownKeys.                      *)
KeysOf(w, t, k, enumOnly) == Performed(w, t, Op("ownKeys", None, k, enumOnly))

(* Object.hasOwn, hasOwnProperty: of the object itself, proxy or not.      *)
HasOwn(w, t, k) == {Out(w, IF Visible(w, t, k) THEN "true" ELSE "false")}

(* Object.freeze: the members that are listed become constants of the      *)
(* object itself, proxy or not.  Its mark, and the one of Object.seal, are *)
(* read by isFrozen and isSealed alone, and left out but for the bump.     *)
Freeze(w, t) ==
    {Out(Bump([w EXCEPT !.own[t] = [k \in DOMAIN @ |->
                                      [@[k] EXCEPT !.const = @ \/ Visible(w, t, k)]]]), t)}

IsExtensible(w, t) == Performed(w, t, Op("isExtensible", None, None, None))
ObjectPreventExtensions(w, t) == Performed(w, t, Op("preventExtensions", None, None, None))

(* Object.assign and the copying of rest members: what src lists, read     *)
(* from src itself, added to t itself, no setter called.                   *)
CopyInto(w, t, src) ==
    LET Copied == {k \in Keys : \E o \in KeysOf(w, src, k, TRUE) :
                                  o.res = "listed" /\ k \in DOMAIN w.own[src]}
        RECURSIVE Add(_, _)
        Add(u, ks) == IF ks = {} THEN u
                      ELSE LET k == CHOOSE j \in ks : TRUE
                           IN  Add(AddMember(u, t, k, w.own[src][k].val), ks \ {k})
    IN  {Out(Add(w, Copied), t)}

-----------------------------------------------------------------------------
(* The script's steps.                                                     *)

Becomes(outs) ==
    \E o \in outs :
        /\ own' = o.heap.own
        /\ proto' = o.heap.proto
        /\ noext' = o.heap.noext
        /\ mic' = o.heap.mic
        /\ UNCHANGED <<traps, revoked, world>>

(* Whom the script works on; in the world of proxies the other objects are *)
(* prototypes made beforehand.  Proxies of proxies are read, written and   *)
(* asked for members only.                                                 *)
Users == IF world = "chain" THEN Obj ELSE Proxies \cup {TargetOf[z] : z \in Proxies}
Shallow == {t \in Users : t \in Proxies => TargetOf[t] \in Obj}

Given == IF world = "chain" THEN Values ELSE Scalars \cup Accessors

Reads(t, k) ==
    \/ \E s \in Sites : Becomes(Get(Heap, s, t, k))
    \/ Becomes(In(Heap, t, k))

DoRead == \E t \in Users, k \in Keys : Reads(t, k)

DoAssign == \E t \in Users, k \in Keys, s \in Sites, v \in Given \ Accessors :
    Becomes(Assign(Heap, s, t, k, v))

DoReflectSet == \E t \in Users, k \in Keys, v \in Scalars :
    Becomes(ReflectSet(Heap, t, k, v))

DoDelete == \E t \in Users, k \in Keys : Becomes(Delete(Heap, t, k))

Flags == IF world = "chain" THEN {None} ELSE {None, "true", "false"}

Descriptors == [value : Given \cup {None}, writable : Flags \ {"true"},
                enumerable : Flags, configurable : Flags \ {"false"}]

DoDefine == \E t \in Shallow, k \in Keys, desc \in Descriptors :
    /\ world = "chain" => desc.value \in Accessors
    /\ Becomes(DefineProperty(Heap, t, k, desc))

DoSetPrototype == \E t \in Shallow, p \in Obj :
    /\ world = "chain" \/ own[p] # <<>>
    /\ StandsFor(t) \cap Ancestors(Heap, p) = {}
    /\ Becomes(SetPrototypeOf(Heap, t, p))

DoFreeze == world = "proxies" /\ \E t \in Shallow : Becomes(Freeze(Heap, t))

DoPreventExtensions ==
    world = "proxies" /\ \E t \in Shallow : Becomes(ObjectPreventExtensions(Heap, t))

DoCopyInto == \E t \in Shallow, src \in Users :
    t # src /\ Becomes(CopyInto(Heap, t, src))

(* native_proxy_revoke_cb                                                  *)
Revoke == \E x \in Proxies \ revoked :
    /\ world = "proxies"
    /\ revoked' = revoked \cup {x}
    /\ UNCHANGED <<own, proto, noext, mic, traps, world>>

(* new Proxy, Proxy.revocable: every handler a script could have written.  *)
Init ==
    /\ world \in Worlds
    /\ \E made \in {{t} : t \in Things \ Users} \cup {{}}, k \in Keys, v \in Scalars :
         own = [t \in Things |-> IF t \in made THEN k :> Node(v, FALSE) ELSE <<>>]
    /\ proto = [t \in Things |-> None]
    /\ noext = {}
    /\ mic = [s \in Sites |-> None]
    /\ traps \in [Proxies -> {{}, TrapNames}]
    /\ world = "chain" => \A x \in Proxies : traps[x] = {}
    /\ revoked = {}

Next ==
    \/ DoRead \/ DoAssign \/ DoReflectSet \/ DoDelete \/ DoDefine \/ DoSetPrototype
    \/ DoFreeze \/ DoPreventExtensions \/ DoCopyInto \/ Revoke

Spec == Init /\ [][Next]_vars

-----------------------------------------------------------------------------
(* Properties.                                                             *)

Type ==
    LET Nodes == [val : Values \cup {Undef}, const : BOOLEAN, enum : BOOLEAN, inh : BOOLEAN]
        Entries == [base : Obj, key : Keys, at : Obj]
    IN  /\ \A t \in Things : \A k \in DOMAIN own[t] : k \in Keys /\ own[t][k] \in Nodes
        /\ proto \in [Things -> Obj \cup {None}]
        /\ noext \subseteq Things
        /\ mic \in [Sites -> Entries \cup {None}]
        /\ revoked \subseteq Proxies

(* What a lookup of t.k finds now, cache or no cache.                      *)
Seen(w, t, k) ==
    LET f == Find(w, t, k) IN IF f.at = None THEN Undef ELSE f.heap.own[f.at][k].val

(* A site that would answer from its cache answers what a walk along the   *)
(* prototypes would find: no order of assignments, definitions, deletions  *)
(* and new prototypes, of the receiver or of any of its ancestors, leaves  *)
(* a stale node behind (the comment over mic_lookup, mario.c:2466).        *)
CachedIsFresh ==
    /\ Type
    /\ \A s \in Sites : mic[s] # None =>
          LET e == mic[s]
          IN  /\ e.key \in DOMAIN own[e.at]
              /\ own[e.at][e.key].val = Seen(Heap, e.base, e.key)

(* A read clones inherited values, and nobody can tell: no object gains,   *)
(* loses or changes a member of its own, and every read, of any object,    *)
(* answers what it would have answered before.                             *)
ReadsLeaveNoTrace ==
    \A r \in Users, j \in Keys :
      \A read \in In(Heap, r, j) \cup UNION {Get(Heap, s, r, j) : s \in Sites} :
        \A t \in Things, k \in Keys :
          /\ Visible(Heap, t, k) = Visible(read.heap, t, k)
          /\ Visible(Heap, t, k) => read.heap.own[t][k] = own[t][k]
          /\ Seen(Heap, t, k) = Seen(read.heap, t, k)

(* The object behind x, when nothing on the way intercepts.                *)
RECURSIVE Plain(_)
Plain(x) == x \in Obj \/ (traps[x] = {} /\ x \notin revoked /\ Plain(TargetOf[x]))

RECURSIVE Behind(_)
Behind(x) == IF x \in Obj THEN x ELSE Behind(TargetOf[x])

(* A proxy with no traps is the object it stands for: reads, Reflect.set,  *)
(* in and delete through any number of them, and listing, describing,      *)
(* defining, prototypes and extensibility through one, have the outcomes   *)
(* they have on the object.  A chain with a revoked proxy before the first *)
(* trap changes nothing and throws.                                        *)
ProxiesAreTransparent ==
    \A x \in Proxies, k \in Keys :
      LET b == Behind(x)
      IN  /\ Plain(x) =>
               /\ \A s \in Sites : Get(Heap, s, x, k) = Get(Heap, s, b, k)
               /\ \A v \in Scalars : ReflectSet(Heap, x, k, v) = ReflectSet(Heap, b, k, v)
               /\ In(Heap, x, k) = In(Heap, b, k)
               /\ Delete(Heap, x, k) = Delete(Heap, b, k)
               /\ TargetOf[x] = b =>
                    /\ \A e \in BOOLEAN : KeysOf(Heap, x, k, e) = KeysOf(Heap, b, k, e)
                    /\ ReflectDescribe(Heap, x, k) = ReflectDescribe(Heap, b, k)
                    /\ GetPrototypeOf(Heap, x) = GetPrototypeOf(Heap, b)
                    /\ IsExtensible(Heap, x) = IsExtensible(Heap, b)
                    /\ ObjectPreventExtensions(Heap, x) = ObjectPreventExtensions(Heap, b)
          /\ TargetOf[x] \in revoked /\ traps[x] = {} =>
               \A o \in UNION {Get(Heap, s, x, k) : s \in Sites} \cup In(Heap, x, k) \cup Delete(Heap, x, k) :
                  o = Out(Heap, "TypeError")

(* "a DATA member resolved up the prototype chain must be written as an    *)
(* OWN member of the receiver" (mario.c:8598): after t.k = v, k is a       *)
(* member of t's own.                                                      *)
AssignedIsOwn ==
    \A t \in Obj, k \in Keys, s \in Sites, v \in Scalars :
      LET a == AssignTo(Heap, s, t, k, v)
      IN  a.res = v => Visible(a.heap, t, k)
=============================================================================
