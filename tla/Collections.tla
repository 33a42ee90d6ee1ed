----------------------------- MODULE Collections -----------------------------
(***************************************************************************)
(* A script at work on one collection of mario_js: an array, a Map, a Set, *)
(* or the hash map underneath.  Methods that run no script are one step;   *)
(* a method that takes a callback, and a for-of loop, is one step for each *)
(* run of the callback, which may itself call a method of the collection   *)
(* or raise an error.                                                      *)
(***************************************************************************)
EXTENDS ArrayMethods

CONSTANTS
    Kinds,             \* the collections a run looks at
    ClassOf,           \* see Tables
    Hash, InitialCapacity, PoolMax, NoValue,      \* see HashMap
    StartArrays,       \* the arrays a script starts with, as sequences
    ArrayCalls,        \* calls on an array
    TableCalls,        \* calls on a Map or a Set, [m, k, v]
    ArrayLoops,        \* methods of an array that take a callback, and "forOf"
    CallbackCalls,     \* calls a callback makes on its array
    TableCallbackCalls,
    MayCall(_, _, _),  \* whether the callback of a loop may make a call on the collection
    Returns,           \* what a callback returns
    NoCall,            \* a callback that calls nothing; also: no call is under way
    Raise,             \* a callback that raises an error
    HashKeys, HashValues,
    MaxSize,           \* bound on the size of a collection
    SortRoom           \* bound on what comparators add to an array past MaxSize

ASSUME CapacityAssumption == InitialCapacity \in Nat \ {0} /\ PoolMax \in Nat

T == INSTANCE Tables
H == INSTANCE HashMap
M == INSTANCE CollectionMeaning

VARIABLES
    kind,     \* "array", "map", "set" or "hash"
    store,    \* the collection
    keep,     \* what the hidden array @@keep of a Map or a Set holds
    pool,     \* bucket arrays in the machine's pool
    op,       \* the call that has been made, until its answer is looked at
    was,      \* the collection before it
    out,      \* the answer
    loop,     \* the method that is running callbacks, or NoCall
    seen,     \* the runs of its callback so far
    spec      \* what the hash map should hold: a function

vars == <<kind, store, keep, pool, op, was, out, loop, seen, spec>>

IsTable == kind \in {"map", "set"}
AsSeq(a) == [i \in 1 .. Size(a) |-> Element(a, i - 1)]
Content  == IF kind = "array" THEN AsSeq(store) ELSE store

Init ==
    /\ kind \in Kinds
    /\ IF kind = "array" THEN \E s \in StartArrays : store = FromSeq(s)
       ELSE IF kind = "hash" THEN store = H!NoBuckets
       ELSE store = <<>>
    /\ keep = <<>> /\ pool = 0
    /\ op = NoCall /\ was = <<>> /\ out = <<>>
    /\ loop = NoCall /\ seen = <<>>
    /\ spec = [k \in {} |-> NoValue]

Idle == op = NoCall /\ loop = NoCall

(***************************************************************************)
(* Calls without a callback.                                               *)
(***************************************************************************)
TableRuns(e, o) == IF kind = "map" THEN T!MapRuns(e, o) ELSE T!SetRuns(e, o)
Synced(e)       == IF kind = "map" THEN T!SyncedMap(e) ELSE T!SyncedSet(e)
KeepAfter(e, o, new) == IF T!Syncs(e, o) THEN Synced(new) ELSE keep

Answered(o, before) ==
    /\ op' = o /\ was' = before
    /\ UNCHANGED <<kind, pool, spec>>

\* sort of two elements or more with a comparator.
ByComparator(o) == o.m = "sort" /\ o.c # "text" /\ Size(store) >= 2

ArrayCall(o) ==
    LET r == Runs(store, o)
    IN  /\ kind = "array" /\ Idle /\ ~ ByComparator(o)
        /\ Size(r.arr) <= MaxSize
        /\ store' = r.arr /\ out' = r.out
        /\ Answered(o, Content)
        /\ UNCHANGED <<keep, loop, seen>>

TableCall(o) ==
    LET r == TableRuns(store, o)
    IN  /\ IsTable /\ Idle
        /\ Len(r.tab) <= MaxSize
        /\ store' = r.tab /\ out' = r.out
        /\ keep' = KeepAfter(store, o, r.tab)
        /\ Answered(o, Content)
        /\ UNCHANGED <<loop, seen>>

\* The script goes on: the answer is consumed.
Continue ==
    /\ op # NoCall /\ loop = NoCall
    /\ op' = NoCall /\ was' = <<>> /\ out' = <<>> /\ seen' = <<>>
    /\ UNCHANGED <<kind, store, keep, pool, loop, spec>>

(***************************************************************************)
(* Array methods with a callback.  n is the length when the method began;  *)
(* i the index that comes next; acc what has been collected.               *)
(***************************************************************************)
Backward(m) == m \in {"findLast", "findLastIndex", "reduceRight"}
Finders     == {"find", "findIndex", "findLast", "findLastIndex"}
Reducers    == {"reduce", "reduceRight"}

More(l) ==
    CASE l.m = "forOf"     -> l.i < Size(store)
      [] Backward(l.m)  -> l.i >= 0
      [] OTHER          -> l.i < l.n

Next_i(l) == IF Backward(l.m) THEN l.i - 1 ELSE l.i + 1

\* reduce without an initial value takes the first element for it.
BeginArrayLoop(m, initial) ==
    LET n == Size(store)
        i == IF Backward(m) THEN n - 1 ELSE 0
        skip == m \in Reducers /\ initial = Absent /\ n > 0
        l == [m |-> m, i |-> i, n |-> n, acc |-> <<>>]
    IN  /\ kind = "array" /\ Idle /\ n <= MaxSize
        /\ initial # Absent => m \in Reducers
        /\ loop' = IF skip THEN [l EXCEPT !.i = Next_i(l), !.acc = <<Element(store, i)>>]
                   ELSE IF initial # Absent THEN [l EXCEPT !.acc = <<initial>>] ELSE l
        /\ store' = IF skip THEN Materialised(store, i) ELSE store
        /\ seen' = <<>> /\ out' = <<>>
        /\ Answered(Call(m, Absent, Absent, Absent, initial, "none"), Content)
        /\ UNCHANGED keep

\* What the method makes of the value the callback returned for element i.
Collected(l, b, el, ret) ==
    CASE l.m = "map"     -> Append(l.acc, ret)
      [] l.m = "flatMap" -> IF IsArray(ret) THEN l.acc \o Inner[ret.n] ELSE Append(l.acc, ret)
      [] l.m = "filter"  -> IF Truthy(ret) THEN Append(l.acc, Element(b, l.i)) ELSE l.acc
      [] l.m \in Reducers -> <<ret>>
      [] OTHER           -> l.acc

Hit(m, ret) ==
    \/ m \in Finders \cup {"some"} /\ Truthy(ret)
    \/ m = "every" /\ ~ Truthy(ret)

AtHit(l, el) ==
    CASE l.m \in {"find", "findLast"}           -> <<el>>
      [] l.m \in {"findIndex", "findLastIndex"} -> <<Num(l.i)>>
      [] l.m = "some"                           -> <<Bool(TRUE)>>
      [] l.m = "every"                          -> <<Bool(FALSE)>>

AtEnd(l) ==
    CASE l.m \in {"findIndex", "findLastIndex"} -> <<Num(-1)>>
      [] l.m = "some"                           -> <<Bool(FALSE)>>
      [] l.m = "every"                          -> <<Bool(TRUE)>>
      [] OTHER                                  -> l.acc

CallsBack(l, el, o, ret, before, after) ==
    seen' = Append(seen, [i |-> l.i, el |-> el, acc |-> l.acc, ret |-> ret, at |-> before, after |-> after])

\* One run of the callback.  While an error propagates no further callback is
\* entered; the method still reads the elements that are left.
ArrayStep(o, ret) ==
    LET l == loop
        a == Materialised(store, l.i)
        el == Element(a, l.i)
        b == IF o = NoCall THEN a ELSE Runs(a, o).arr
        rest == IF Backward(l.m) \/ l.m = "forOf" THEN b ELSE Touched(b, l.i + 1, l.n)
    IN  /\ kind = "array" /\ loop # NoCall /\ l.m # "sort"
        /\ More(l)
        /\ o # NoCall => MayCall(store, l, o)
        /\ Size(b) <= MaxSize
        /\ CallsBack(l, el, o, ret, AsSeq(a), AsSeq(b))
        /\ IF ret = Raise
           THEN /\ store' = rest /\ loop' = NoCall /\ out' = <<Value("error", 0)>>
           ELSE /\ store' = b
                /\ IF Hit(l.m, ret) THEN loop' = NoCall /\ out' = AtHit(l, el)
                   ELSE /\ loop' = [l EXCEPT !.i = Next_i(l), !.acc = Collected(l, b, el, ret)]
                        /\ out' = out
        /\ UNCHANGED <<kind, keep, pool, op, was, spec>>

EndArrayLoop ==
    /\ kind = "array" /\ loop # NoCall /\ loop.m # "sort"
    /\ ~ More(loop)
    /\ loop' = NoCall /\ out' = AtEnd(loop)
    /\ UNCHANGED <<kind, store, keep, pool, op, was, seen, spec>>

(***************************************************************************)
(* sort with a comparator.  The elements are noted down (vals), put in     *)
(* order (ord) while the array stays as it is, and written back at the     *)
(* end.  What is noted down is the bare var: one that the comparator takes *)
(* out of the array, or replaces there, is released while the sort still   *)
(* points at it (stale).                                                   *)
(***************************************************************************)
BeginSort(o) ==
    LET n == Size(store)
    IN  /\ kind = "array" /\ Idle /\ ByComparator(o)
        /\ store' = Read(store)
        /\ loop' = [m |-> "sort", c |-> o.c, vals |-> Elements(store), ord |-> [k \in 1 .. n |-> k],
                    i |-> 2, j |-> 1, stale |-> {}, err |-> FALSE]
        /\ seen' = <<>> /\ out' = <<>>
        /\ Answered(o, Content)
        /\ UNCHANGED keep

Released(l, o, a, b) ==
    {k \in DOMAIN l.vals : \/ k - 1 \notin DOMAIN b
                           \/ b[k - 1] # a[k - 1]
                           \/ o.m = "[]=" /\ o.x = k - 1}

\* One comparison, of the element being inserted with the one before it.  The
\* comparator is not asked about undefined, nor once it has raised an error:
\* everything is "equal" then.  What a released var compares as is undefined.
SortStep(o, ret) ==
    LET l == loop
        x == l.ord[l.j]  y == l.ord[l.j + 1]
        undefs == Undef \in {l.vals[x], l.vals[y]}
        asks == ~ undefs /\ ~ l.err
        b == IF o = NoCall THEN store ELSE Runs(store, o).arr
        greater == IF {x, y} \cap l.stale # {} THEN BOOLEAN
                   ELSE {(asks => ret # Raise) /\ (asks \/ undefs)
                         /\ Compare(l.c, l.vals[x], l.vals[y]) > 0}
    IN  /\ kind = "array" /\ l # NoCall /\ l.m = "sort" /\ l.i <= Len(l.ord)
        /\ ~ asks => o = NoCall /\ ret # Raise
        /\ o # NoCall => MayCall(store, l, o)
        /\ Size(b) <= MaxSize + SortRoom
        /\ store' = b
        /\ seen' = IF asks THEN Append(seen, [at |-> AsSeq(store), after |-> AsSeq(b)]) ELSE seen
        /\ \E g \in greater :
              loop' = [l EXCEPT
                  !.ord = IF g THEN [@ EXCEPT ![l.j] = y, ![l.j + 1] = x] ELSE @,
                  !.j = IF g /\ l.j > 1 THEN @ - 1 ELSE l.i,
                  !.i = IF g /\ l.j > 1 THEN @ ELSE @ + 1,
                  !.stale = IF o = NoCall THEN @ ELSE @ \cup Released(l, o, store, b),
                  !.err = @ \/ ret = Raise]
        /\ UNCHANGED <<kind, keep, pool, op, was, out, spec>>

\* A released var holds what it held, or what has been made of it since.
EndSort ==
    /\ kind = "array" /\ loop # NoCall /\ loop.m = "sort" /\ loop.i > Len(loop.ord)
    /\ LET n == Len(loop.ord)
           b == Touched(store, 0, n)
           Held == [1 .. n -> Range(loop.vals) \cup Range(AsSeq(b))]
       IN  \E held \in {f \in Held : \A k \in 1 .. n : k \notin loop.stale => f[k] = loop.vals[k]} :
              store' = [i \in DOMAIN b |-> IF i < n THEN held[loop.ord[i + 1]] ELSE b[i]]
    /\ out' = IF loop.err THEN <<Value("error", 0)>> ELSE <<>>
    /\ loop' = NoCall
    /\ UNCHANGED <<kind, keep, pool, op, was, seen, spec>>

(***************************************************************************)
(* forEach and for-of over a Map or a Set.  A Map's forEach walks the      *)
(* entries as they are; a Set's walks a copy and passes over what has gone *)
(* from the set; for-of walks a copy.                                      *)
(***************************************************************************)
BeginTableLoop(m) ==
    /\ IsTable /\ Idle
    /\ loop' = [m |-> m, i |-> 1, copy |-> IF kind = "map" /\ m = "forEach" THEN <<>> ELSE store]
    /\ seen' = <<>> /\ out' = <<>>
    /\ Answered([m |-> m, k |-> Undef, v |-> Undef], Content)
    /\ UNCHANGED <<store, keep>>

Walked == IF kind = "map" /\ loop.m = "forEach" THEN store ELSE loop.copy
Passed(e) == kind = "set" /\ loop.m = "forEach" /\ T!MapFind(store, e.k) = 0

TableStep(o, ret) ==
    /\ IsTable /\ loop # NoCall
    /\ loop.i <= Len(Walked)
    /\ LET e == Walked[loop.i]
           b == IF o = NoCall THEN store ELSE TableRuns(store, o).tab
       IN  /\ ~ Passed(e)
           /\ o # NoCall => MayCall(store, loop, o)
           /\ Len(b) <= MaxSize
           /\ seen' = Append(seen, [el |-> e, at |-> store, after |-> b])
           /\ store' = b
           /\ keep' = IF o = NoCall THEN keep ELSE KeepAfter(store, o, b)
           /\ IF ret = Raise THEN loop' = NoCall /\ out' = <<Value("error", 0)>>
              ELSE loop' = [loop EXCEPT !.i = @ + 1] /\ out' = out
    /\ UNCHANGED <<kind, pool, op, was, spec>>

PassOver ==
    /\ IsTable /\ loop # NoCall
    /\ loop.i <= Len(Walked) /\ Passed(Walked[loop.i])
    /\ loop' = [loop EXCEPT !.i = @ + 1]
    /\ UNCHANGED <<kind, store, keep, pool, op, was, out, seen, spec>>

EndTableLoop ==
    /\ IsTable /\ loop # NoCall
    /\ loop.i > Len(Walked)
    /\ loop' = NoCall
    /\ UNCHANGED <<kind, store, keep, pool, op, was, out, seen, spec>>

(***************************************************************************)
(* The hash map.                                                           *)
(***************************************************************************)
HashStep(map, function, p) ==
    /\ kind = "hash"
    /\ store' = map /\ spec' = function /\ pool' = p
    /\ UNCHANGED <<kind, keep, op, was, out, loop, seen>>

With(f, k, v) == [j \in DOMAIN f \cup {k} |-> IF j = k THEN v ELSE f[j]]

Add(k, v)      == HashStep(H!HashMapAdd(store, k, v), With(spec, k, v), H!PoolAfterAdd(store, pool))
AddFresh(k, v) == /\ k \notin DOMAIN spec
                  /\ HashStep(H!HashMapAddFresh(store, k, v), With(spec, k, v),
                              H!PoolAfterAdd(store, pool))
HashRemove(k)     == HashStep(H!HashMapRemove(store, k), [j \in DOMAIN spec \ {k} |-> spec[j]], pool)
Clean          == HashStep(H!HashMapClean(store), [j \in {} |-> NoValue],
                           IF store.cap = 0 THEN pool ELSE H!Released(store, pool))
\* var_remove_all and a fresh hash_map_init, as the collections do to @@keep:
\* the map is no longer the machine's, its buckets bypass the pool.
Reinit         == HashStep(H!HashMapInit, [j \in {} |-> NoValue],
                           IF store.cap = 0 THEN pool ELSE H!Released(store, pool))

Next ==
    \/ \E o \in ArrayCalls : ArrayCall(o)
    \/ \E o \in TableCalls[kind] : TableCall(o)
    \/ Continue
    \/ \E m \in ArrayLoops, initial \in {Absent} \cup Returns : BeginArrayLoop(m, initial)
    \/ \E o \in CallbackCalls \cup {NoCall}, ret \in Returns \cup {Raise} : ArrayStep(o, ret)
    \/ EndArrayLoop
    \/ \E o \in ArrayCalls : BeginSort(o)
    \/ \E o \in CallbackCalls \cup {NoCall}, ret \in {Undef, Raise} : SortStep(o, ret)
    \/ EndSort
    \/ \E m \in {"forEach", "forOf"} : BeginTableLoop(m)
    \/ \E o \in TableCallbackCalls[kind] \cup {NoCall}, ret \in {Undef, Raise} : TableStep(o, ret)
    \/ PassOver
    \/ EndTableLoop
    \/ \E k \in HashKeys, v \in HashValues : Add(k, v) \/ AddFresh(k, v)
    \/ \E k \in HashKeys : HashRemove(k)
    \/ kind = "hash" /\ Clean
    \/ kind = "hash" /\ Reinit

Spec == Init /\ [][Next]_vars

(***************************************************************************)
(* Properties.                                                             *)
(***************************************************************************)
Finished == op # NoCall /\ loop = NoCall

\* An array's indices run from 0 without a gap: its length is the number of
\* its elements.
NoGap(a) == DOMAIN a = 0 .. Size(a) - 1

\* The runs of the callback, as the language has them: element after element,
\* each as it is at that moment, up to the first answer that ends the method
\* or to the length the array had when the method began.
Visit(k, n) == LET skip == IF op.m \in Reducers /\ op.v = Absent THEN 1 ELSE 0
               IN  IF Backward(op.m) THEN n - k - skip ELSE k - 1 + skip
Ends(s)     == s.ret = Raise \/ Hit(op.m, s.ret)
Length      == IF op.m = "forOf" THEN Size(store) ELSE Len(was)
Before(k)   == IF k = 1 THEN was ELSE seen[k - 1].after

LoopRuns ==
    /\ \A k \in DOMAIN seen :
          /\ seen[k].i = Visit(k, Len(was))
          /\ seen[k].el = Before(k)[seen[k].i + 1]
          /\ seen[k].at = Before(k)
          /\ Ends(seen[k]) => k = Len(seen)
    /\ Content = Before(Len(seen) + 1)
    /\ \/ seen # <<>> /\ Ends(seen[Len(seen)])
       \/ Visit(Len(seen) + 1, Len(was)) \notin 0 .. Length - 1

LoopGives ==
    LET n == Len(seen)
        ended == n > 0 /\ Ends(seen[n])
        rets == [k \in 1 .. n |-> seen[k].ret]
        first == IF op.v # Absent THEN <<op.v>>
                 ELSE IF was = <<>> THEN <<>> ELSE <<was[IF Backward(op.m) THEN Len(was) ELSE 1]>>
    IN  CASE n > 0 /\ seen[n].ret = Raise -> <<Value("error", 0)>>
          [] op.m \in {"forEach", "forOf"} -> <<>>
          [] op.m = "map" -> rets
          [] op.m = "flatMap" -> M!Flat(rets, 1)
          [] op.m = "filter" -> LET kept == SelectSeq(seen, LAMBDA s : Truthy(s.ret))
                                IN  [k \in DOMAIN kept |-> kept[k].el]
          [] op.m \in {"find", "findLast"} -> IF ended THEN <<seen[n].el>> ELSE <<>>
          [] op.m \in {"findIndex", "findLastIndex"} -> <<Num(IF ended THEN seen[n].i ELSE -1)>>
          [] op.m = "some" -> <<Bool(ended)>>
          [] op.m = "every" -> <<Bool(~ ended)>>
          [] op.m \in Reducers -> IF n = 0 THEN first ELSE <<rets[n]>>

\* A reducer is handed what its last run returned.
Carries ==
    op.m \in Reducers =>
        \A k \in DOMAIN seen : k > 1 => seen[k].acc = <<seen[k - 1].ret>>

\* The comparator sees the array as it was, and what it adds itself; the sorted
\* elements take the places of those that were noted down, and what was added
\* stays behind them.  An error leaves some order of the elements.
SortedUnlessRaised ==
    LET n == Len(was)
        last == Before(Len(seen) + 1)
    IN  /\ \A k \in DOMAIN seen : seen[k].at = Before(k) /\ SubSeq(seen[k].after, 1, n) = was
        /\ SubSeq(Content, n + 1, Len(Content)) = SubSeq(last, n + 1, Len(last))
        /\ \/ out = <<>> /\ SubSeq(Content, 1, n) = M!StableSort(was, op.c)
           \/ out = <<Value("error", 0)>> /\ M!Permutes(was, SubSeq(Content, 1, n))

\* Every method of an array leaves the array, and gives the answer, that the
\* language says, whatever was called on it before: although the length is
\* only the number of elements, and although methods rebuild the array, read
\* it through accesses that create elements, and run callbacks that change it.
ArraysMeanWhatTheySay ==
    kind = "array" =>
        /\ loop = NoCall => NoGap(store)
        /\ Finished =>
             IF op.m \in ArrayLoops
             THEN LoopRuns /\ LoopGives = out /\ Carries
             ELSE IF op.m = "sort" THEN SortedUnlessRaised
             ELSE M!ArrayMeans(was, op) = [arr |-> Content, out |-> out]

AsTable(e) ==
    [keys |-> T!Keys(e),
     val  |-> [k \in {e[i].k : i \in DOMAIN e} |-> e[CHOOSE i \in DOMAIN e : e[i].k = k].v]]

\* What is in the table from the beginning of the loop to its end is visited
\* once; nothing is visited twice; forEach visits only what is there.  A Map's
\* forEach visits what the callback adds.
TableLoop ==
    LET Always(e) == /\ \A k \in DOMAIN seen : e \in Range(seen[k].at) /\ e \in Range(seen[k].after)
                     /\ e \in Range(was)
        Visits(e) == {k \in DOMAIN seen : seen[k].el = e}
        raised == out = <<Value("error", 0)>>
    IN  /\ \A j, k \in DOMAIN seen : seen[j].el.k = seen[k].el.k => j = k
        /\ ~ raised => \A e \in Range(was) : Always(e) => Visits(e) # {}
        /\ op.m = "forEach" => \A k \in DOMAIN seen : seen[k].el \in Range(seen[k].at)
        /\ op.m = "forEach" /\ kind = "map" /\ ~ raised =>
              \A e \in Range(store) : \E k \in DOMAIN seen : seen[k].el.k = e.k

\* The hash map holds the function that its calls have made, through growth,
\* removals and its change of owner; a walk meets every key once; and the pool
\* of buckets stays within its bound.
HashMapHoldsAll ==
    LET walk == H!HashMapIterate(store)
    IN  /\ \A k \in HashKeys :
              H!HashMapGet(store, k) = IF k \in DOMAIN spec THEN spec[k] ELSE NoValue
        /\ store.size = Cardinality(DOMAIN spec) /\ Len(walk) = store.size
        /\ Range(walk) = {<<k, spec[k]>> : k \in DOMAIN spec}
        /\ pool \in 0 .. PoolMax

\* A Map or a Set answers like a function with an order on its keys, its loops
\* miss nothing and repeat nothing while callbacks change it, everything in it is
\* held by the hidden array the garbage collector can see; and the hash map under
\* every object loses and invents nothing.
TablesMeanWhatTheySay ==
    /\ kind = "hash" => HashMapHoldsAll
    /\ IsTable =>
        /\ Range(keep) = UNION {{store[i].k, store[i].v} : i \in DOMAIN store}
        /\ Finished =>
             CASE op.m \in {"forEach", "forOf"} -> TableLoop
               [] op.m = "new"     -> AsTable(store) = M!NewMeans(op, kind = "map")
               [] op.m = "groupBy" -> out = M!GroupMeans(<<op.k, op.v, op.k>>) /\ store = was
               [] OTHER -> M!TableMeans(AsTable(was), op) = [tab |-> AsTable(store), out |-> out]
=============================================================================
