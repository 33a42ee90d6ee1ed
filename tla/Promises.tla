------------------------------ MODULE Promises ------------------------------
(***************************************************************************)
(* Promises, lang/js/native/builtin/Promise/native_Promise.c: settlement,  *)
(* reactions and their drain, adoption, the executor, all, allSettled,     *)
(* race, any, and the array on vm->root that keeps promises alive.         *)
(*                                                                         *)
(* Script code and natives call each other on one C stack, which is `ctl`: *)
(* script activations, drains in the middle of their list, aggregations in *)
(* the middle of their inputs.  Whatever is on top runs.  A settled        *)
(* promise's reactions are run by a drain.  An embedder with a microtask   *)
(* table queues it; the command line host has none, and the drain then     *)
(* runs at once, inside whatever settled the promise.                      *)
(*                                                                         *)
(* Promises are numbered in the order they are made; 0 is no promise.      *)
(***************************************************************************)
EXTENDS Naturals, Sequences, FiniteSets, SequencesExt

CONSTANTS
  MaxPromises,    \* bound: promises script code makes
  MaxOps,         \* bound: operations script code performs
  Val,            \* plain values
  NoVal,          \* undefined or null
  Thenable,       \* an object with a `then` method written in script
  Array,          \* the result array of all and allSettled
  AggregateError, \* the reason of a failed any
  QueuedScripts,  \* the sets of operations that script code is made of, where
                  \* the host has a microtask table
  InlineScripts,  \* and where js_dom_add_microtask has none and returns 0
  Results         \* what a reaction handler may return

\* An aggregation makes at most one more, for an input that is a thenable.
Promise == 1 .. 2 * MaxPromises
None == 0

ASSUME PromiseAssumption ==
  /\ MaxPromises \in Nat /\ MaxOps \in Nat \ {0}
  /\ \A v \in Val \cup {NoVal, Thenable, Array, AggregateError} : v \notin Promise
  /\ Thenable \notin Val \cup {NoVal, Array, AggregateError}

VARIABLES
  state, value,   \* promise_data.state, .value
  reactions,      \* the four parallel lists, as one list of records
  armed,          \* drain_armed
  rooted,         \* the promises in @@pend_prom
  agg,            \* promise_agg_ctx, by the promise it settles
  queue,          \* the embedder's microtasks: the promises to drain
  ctl,            \* the C stack, the running activation last
  born,           \* how many promises were made
  script,         \* the operations script may still perform; the host it runs on
  known, open,    \* promises script has, promises it has resolvers of
  source          \* the promise whose outcome a promise took over, or None

promiseVars == <<state, value, reactions, source, open>>
taskVars == <<armed, rooted, queue, ctl>>
vars == <<promiseVars, taskVars, agg, born, script, known>>

----------------------------------------------------------------------------
(* Records. *)

States == {"UNBORN", "PENDING", "FULFILLED", "REJECTED"}
Settled(p) == state[p] \in {"FULFILLED", "REJECTED"}
AnyVal == Val \cup {NoVal, Thenable, Array, AggregateError}

\* What a reaction calls: nothing, a script function, the resolve or reject
\* function of promise `to`, or input `at` of the aggregation of `to`.
Handler == [do : {"none", "js", "resolve", "reject", "kept", "failed"},
            to : Promise \cup {None}, at : Nat]
Calls(do, to, at) == [do |-> do, to |-> to, at |-> at]
NoHandler == Calls("none", None, 0)
Js == Calls("js", None, 0)

\* np is the chained promise; None where nothing can ever see it.
Reaction == [onF : Handler, onR : Handler, np : Promise \cup {None}]

Outcome == [st : States, v : AnyVal \cup Promise]
Hole == [st |-> "PENDING", v |-> NoVal]
Context == [items : Seq(AnyVal \cup Promise), values : Seq(Outcome), all : BOOLEAN,
            remaining : Nat, live : Nat, settled : BOOLEAN, freed : BOOLEAN]

ScriptKinds == {"main", "executor", "then", "handler"}
Activation == [k : ScriptKinds \cup {"enter", "drain", "build", "built", "release", "race"},
               p : Promise \cup {None}, ok : BOOLEAN, todo : Seq(Reaction),
               at : Nat, wp : Promise \cup {None}, items : Seq(AnyVal \cup Promise)]
Active(k, p) == [k |-> k, p |-> p, ok |-> FALSE, todo |-> <<>>, at |-> 1,
                 wp |-> None, items |-> <<>>]

TypeOK ==
  /\ state \in [Promise -> States]
  /\ value \in [Promise -> AnyVal]
  /\ reactions \in [Promise -> Seq(Reaction)]
  /\ armed \in [Promise -> BOOLEAN]
  /\ rooted \subseteq Promise
  /\ DOMAIN agg \subseteq Promise /\ \A c \in DOMAIN agg : agg[c] \in Context
  /\ queue \in Seq(Promise)
  /\ ctl \in Seq(Activation)
  /\ born \in Promise \cup {None} /\ script.left \in 0 .. MaxOps
  /\ known \subseteq Promise /\ open \subseteq Promise
  /\ source \in [Promise -> Promise \cup {None}]

----------------------------------------------------------------------------
(* Settling, and what it sets off. S is the stack to go on with. *)

Top == ctl[Len(ctl)]
Below == SubSeq(ctl, 1, Len(ctl) - 1)
Replaced(a) == Append(Below, a)

\* promise_root_pending, for the promises of R.
Keep(R, S) ==
  /\ rooted' = rooted \cup R
  /\ ctl' = S
  /\ UNCHANGED <<armed, queue>>

\* promise_schedule_drain.
Schedule(p, R, S) ==
  \/ /\ armed[p]
     /\ Keep(R, S)
  \/ /\ ~armed[p]
     /\ armed' = [armed EXCEPT ![p] = TRUE]
     /\ rooted' = rooted \cup R \cup {p}
     /\ IF script.inline
        THEN ctl' = Append(S, Active("enter", p)) /\ UNCHANGED queue
        ELSE ctl' = S /\ queue' = Append(queue, p)

Settle(p, st, v) ==
  /\ state' = [state EXCEPT ![p] = st]
  /\ value' = [value EXCEPT ![p] = v]

\* Settle p and schedule its drain; src is the promise the outcome is from.
Conclude(p, st, v, src, S) ==
  /\ Settle(p, st, v)
  /\ source' = [source EXCEPT ![p] = IF src = None THEN @ ELSE src]
  /\ Schedule(p, {}, S)
  /\ UNCHANGED <<reactions, open>>

Skip(S) == Keep({}, S) /\ UNCHANGED promiseVars

\* promise_add_reaction, then native_PromiseThen's choice: wait or schedule.
ThenOn(x, r, R, S) ==
  /\ reactions' = [reactions EXCEPT ![x] = Append(@, r)]
  /\ \/ state[x] = "PENDING" /\ Keep(R \cup {x}, S)
     \/ state[x] # "PENDING" /\ Schedule(x, R, S)

\* (variant) the pair of functions is passed in the wrong order.
Adopt_Swapped(p, x, S) ==
  /\ \/ /\ x \in Promise
        /\ ThenOn(x, [onF |-> Calls("reject", p, 0), onR |-> Calls("resolve", p, 0),
                      np |-> None], {p}, S)
        /\ source' = [source EXCEPT ![p] = x]
        /\ open' = open \ {p}
     \/ /\ x = Thenable
        /\ Keep({p}, Append(S, Active("then", p)))
        /\ open' = open \cup {p}
        /\ UNCHANGED <<reactions, source>>
  /\ UNCHANGED <<state, value>>

\* promise_adopt_thenable: p's own resolve and reject functions go to x.then.
Adopt(p, x, S) ==
  /\ \/ /\ x \in Promise
        /\ ThenOn(x, [onF |-> Calls("resolve", p, 0), onR |-> Calls("reject", p, 0),
                      np |-> None], {p}, S)
        /\ source' = [source EXCEPT ![p] = x]
        /\ open' = open \ {p}
     \/ /\ x = Thenable
        /\ Keep({p}, Append(S, Active("then", p)))
        /\ open' = open \cup {p}
        /\ UNCHANGED <<reactions, source>>
  /\ UNCHANGED <<state, value>>

Adoptable(x, p) == x = Thenable \/ (x \in Promise /\ x # p)

\* native_promise_resolve_cb.
ResolveCb(p, x, S) ==
  \/ state[p] # "PENDING" /\ Skip(S)
  \/ state[p] = "PENDING" /\ Adoptable(x, p) /\ Adopt(p, x, S)
  \/ state[p] = "PENDING" /\ ~Adoptable(x, p) /\ Conclude(p, "FULFILLED", x, None, S)

\* native_promise_reject_cb.
RejectCb(p, v, S) ==
  \/ state[p] # "PENDING" /\ Skip(S)
  \/ state[p] = "PENDING" /\ Conclude(p, "REJECTED", v, None, S)

\* The result x of a reaction settles the chained promise np, unless x has not
\* settled itself. promise_unwrap takes the value of a settled promise,
\* whichever way it settled.
Waits(x, np) == x = Thenable \/ (x \in Promise /\ x # np /\ state[x] = "PENDING")
Unwrap(x) == IF x \in Promise THEN value[x] ELSE x
\* (variant) the losers of a race overwrite the winner.
SettleChained_Overwrites(np, x, S) ==
  \/ Waits(x, np) /\ Adopt(np, x, S)
  \/ /\ ~Waits(x, np)
     /\ Conclude(np, "FULFILLED", Unwrap(x), IF x \in Promise THEN x ELSE None, S)

SettleChained(np, x, S) ==
  \/ Waits(x, np) /\ Adopt(np, x, S)
  \/ /\ ~Waits(x, np)
     /\ \/ state[np] # "PENDING" /\ Skip(S)
        \/ /\ state[np] = "PENDING"
           /\ Conclude(np, "FULFILLED", Unwrap(x), IF x \in Promise THEN x ELSE None, S)

----------------------------------------------------------------------------
(* Script code. *)

InScript(op) ==
  /\ ctl # <<>> /\ Top.k \in ScriptKinds
  /\ op \in script.may
  /\ script.left > 0
  /\ script' = [script EXCEPT !.left = @ - 1]

\* A new promise, the only one numbered p.
Fresh == born + 1
MakeFresh(st, v) ==
  /\ Top.k \in ScriptKinds => born < MaxPromises
  /\ born' = Fresh
  /\ Settle(Fresh, st, v)

\* Promise.withResolvers (promise_new_deferred).
WithResolvers ==
  /\ InScript("new")
  /\ MakeFresh("PENDING", NoVal)
  /\ known' = known \cup {Fresh}
  /\ open' = open \cup {Fresh}
  /\ Keep({Fresh}, ctl)
  /\ UNCHANGED <<reactions, source, agg>>

\* native_PromiseConstructor up to the executor. The executor does not use its
\* `this`: the promise is unknown to script until the constructor returns.
Construct ==
  /\ InScript("construct")
  /\ MakeFresh("PENDING", NoVal)
  /\ open' = open \cup {Fresh}
  /\ Keep({Fresh}, Append(ctl, Active("executor", Fresh)))
  /\ UNCHANGED <<reactions, source, agg, known>>

\* native_PromiseResolve of a value or a thenable, native_PromiseReject.
MakeSettled ==
  /\ InScript("settled")
  /\ \E v \in Val, st \in {"FULFILLED", "REJECTED"} : MakeFresh(st, v)
  /\ known' = known \cup {Fresh}
  /\ Keep({}, ctl)
  /\ UNCHANGED <<reactions, source, open, agg>>
MakeAdopting ==
  /\ InScript("adopting")
  /\ MakeFresh("PENDING", NoVal)
  /\ known' = known \cup {Fresh}
  /\ open' = open \cup {Fresh}
  /\ Keep({Fresh}, Append(ctl, Active("then", Fresh)))
  /\ UNCHANGED <<reactions, source, agg>>

Resolve ==
  /\ InScript("resolve")
  /\ \E p \in open : \E x \in Val \cup known \cup {Thenable} :
        /\ x # p /\ (x = Thenable => "adopting" \in script.may)
        /\ ResolveCb(p, x, ctl)
  /\ UNCHANGED <<agg, born, known>>

Reject ==
  /\ InScript("reject")
  /\ \E p \in open, v \in Val : RejectCb(p, v, ctl)
  /\ UNCHANGED <<agg, born, known>>

\* native_PromiseThen, and through it catch and finally.
Then ==
  /\ InScript("then")
  /\ MakeFresh("PENDING", NoVal)
  /\ known' = known \cup {Fresh}
  /\ \E p \in known, f \in {Js, NoHandler}, r \in {Js, NoHandler} :
       ThenOn(p, [onF |-> f, onR |-> r, np |-> Fresh], {}, ctl)
  /\ UNCHANGED <<source, open, agg>>

\* The end of an activation of script code.
Ends(k) == ctl # <<>> /\ Top.k = k

MainEnd ==
  /\ Ends("main")
  /\ Skip(Below)
  /\ UNCHANGED <<agg, born, script, known>>

\* The rest of native_PromiseConstructor. No reaction can be registered yet, so
\* the loop over the rejected callbacks finds none.
ExecutorReturn ==
  /\ Ends("executor")
  /\ known' = known \cup {Top.p}
  /\ Skip(Below)
  /\ UNCHANGED <<agg, born, script>>
ExecutorThrow ==
  /\ Ends("executor") /\ "executorThrow" \in script.may
  /\ source[Top.p] = None
  /\ known' = known \cup {Top.p}
  /\ \E v \in Val : IF state[Top.p] = "PENDING" THEN Settle(Top.p, "REJECTED", v)
                                               ELSE UNCHANGED <<state, value>>
  /\ Keep({}, Below)
  /\ UNCHANGED <<reactions, source, open, agg, born, script>>

ThenReturn ==
  /\ Ends("then")
  /\ Skip(Below)
  /\ UNCHANGED <<agg, born, script, known>>
ThenThrow ==
  /\ Ends("then") /\ source[Top.p] = None
  /\ \E v \in Val : RejectCb(Top.p, v, Below)
  /\ UNCHANGED <<agg, born, script, known>>

ResultKind(x) ==
  IF x \in Promise THEN state[x] ELSE IF x = Thenable THEN "thenable" ELSE "value"
HandlerReturn ==
  /\ Ends("handler")
  /\ \E x \in Val \cup known \cup {Thenable} :
       ResultKind(x) \in Results /\ SettleChained(Top.p, x, Below)
  /\ UNCHANGED <<agg, born, script, known>>
\* promise_settle_propagated.
HandlerThrow ==
  /\ Ends("handler")
  /\ \E v \in Val : Conclude(Top.p, "REJECTED", v, None, Below)
  /\ UNCHANGED <<agg, born, script, known>>

----------------------------------------------------------------------------
(* all and allSettled: promise_agg_build and the two reaction functions.    *)

Store(c, i, out) == [agg EXCEPT ![c].values[i] = out]

\* promise_agg_finish and promise_agg_fail; A is agg as the caller left it.
Finish(c, A, S) ==
  /\ agg' = [A EXCEPT ![c].settled = TRUE]
  /\ \/ state[c] # "PENDING" /\ Skip(S)
     \/ state[c] = "PENDING" /\ Conclude(c, "FULFILLED", Array, None, S)
Fail(c, v, S) ==
  /\ agg' = [agg EXCEPT ![c].settled = TRUE]
  /\ \/ state[c] # "PENDING" /\ Skip(S)
     \/ state[c] = "PENDING" /\ Conclude(c, "REJECTED", v, None, S)

\* One input fewer; the last one finishes the result.
Count(c, A, S) ==
  LET B == [A EXCEPT ![c].remaining = IF @ > 0 THEN @ - 1 ELSE 0]
  IN  \/ B[c].remaining = 0 /\ Finish(c, B, S)
      \/ B[c].remaining # 0 /\ agg' = B /\ Skip(S)

\* promise_agg_onfulfilled and promise_agg_onrejected; the context is released
\* when they are done.
Arrived(h, st, v) ==
  LET c == h.to
      S == <<Active("release", c)>>
      A == Store(c, h.at, [st |-> st, v |-> v])
      rest == Replaced([Top EXCEPT !.todo = Tail(@)])
  IN  \/ agg[c].settled /\ Skip(rest \o S) /\ UNCHANGED agg
      \/ ~agg[c].settled /\ (st = "FULFILLED" \/ ~agg[c].all) /\ Count(c, A, rest \o S)
      \/ ~agg[c].settled /\ st = "REJECTED" /\ agg[c].all /\ Fail(c, v, rest \o S)

\* promise_agg_release.
Release ==
  /\ Ends("release")
  /\ agg' = [agg EXCEPT ![Top.p].live = IF @ > 0 THEN @ - 1 ELSE 0,
                        ![Top.p].freed = agg[Top.p].live <= 1]
  /\ Skip(Below)
  /\ UNCHANGED <<born, script, known>>

\* Two inputs, one of them a thenable where script has thenables.
Items == IF "adopting" \in script.may
         THEN {<<x, Thenable>> : x \in known} \cup {<<Thenable, x>> : x \in known}
         ELSE {<<x, y>> : x \in known \cup Val, y \in known \cup Val}

All ==
  /\ InScript("all")
  /\ MakeFresh("PENDING", Array)
  /\ \E items \in Items, all \in BOOLEAN :
       agg' = [c \in DOMAIN agg \cup {Fresh} |->
                 IF c # Fresh THEN agg[c]
                 ELSE [items |-> items, values |-> [i \in DOMAIN items |-> Hole],
                       all |-> all, remaining |-> 0, live |-> 0,
                       settled |-> FALSE, freed |-> FALSE]]
  /\ Keep({Fresh}, Append(ctl, Active("build", Fresh)))
  /\ UNCHANGED <<reactions, source, open, known>>

\* The loop looks at the next input; inside it, wp stands for a thenable.
Building ==
  /\ Ends("build") /\ Top.wp = None
  /\ Top.at <= Len(agg[Top.p].items) /\ ~agg[Top.p].settled
Item == agg[Top.p].items[Top.at]
NextItem == Replaced([Top EXCEPT !.at = @ + 1, !.wp = None])

\* An input that has an outcome: a plain value or a settled promise.
BuildKnown ==
  /\ Building
  /\ LET out == IF Item \in Promise THEN [st |-> state[Item], v |-> value[Item]]
                                    ELSE [st |-> "FULFILLED", v |-> Item]
     IN  /\ Item # Thenable /\ out.st # "PENDING"
         /\ \/ out.st = "REJECTED" /\ agg[Top.p].all /\ Fail(Top.p, out.v, NextItem)
            \/ ~(out.st = "REJECTED" /\ agg[Top.p].all)
               /\ agg' = Store(Top.p, Top.at, out) /\ Skip(NextItem)
  /\ UNCHANGED <<born, script, known>>

\* A thenable is adopted by a fresh promise, which then takes its place.
BuildThenable ==
  /\ Building /\ Item = Thenable
  /\ MakeFresh("PENDING", NoVal)
  /\ agg' = [agg EXCEPT ![Top.p].items[Top.at] = Fresh]
  /\ open' = open \cup {Fresh}
  /\ Keep({Fresh}, Append(Replaced([Top EXCEPT !.wp = Fresh]), Active("then", Fresh)))
  /\ UNCHANGED <<reactions, source, script, known>>

\* (variant) only the first reaction holds the context.
BuildWait_OneClaim ==
  /\ \/ Ends("build") /\ Top.wp # None
     \/ Building /\ Item \in Promise /\ state[Item] = "PENDING"
  /\ reactions' = [reactions EXCEPT ![Item] =
        Append(@, [onF |-> Calls("kept", Top.p, Top.at),
                   onR |-> Calls("failed", Top.p, Top.at), np |-> None])]
  /\ agg' = [agg EXCEPT ![Top.p].remaining = @ + 1, ![Top.p].live = 1]
  /\ Keep({Item}, NextItem)
  /\ UNCHANGED <<state, value, source, open, born, script, known>>

\* A pending input gets a reaction. One that stands for a thenable is taken to
\* be pending whatever the thenable's `then` has done.
BuildWait ==
  /\ \/ Ends("build") /\ Top.wp # None
     \/ Building /\ Item \in Promise /\ state[Item] = "PENDING"
  /\ reactions' = [reactions EXCEPT ![Item] =
        Append(@, [onF |-> Calls("kept", Top.p, Top.at),
                   onR |-> Calls("failed", Top.p, Top.at), np |-> None])]
  /\ agg' = [agg EXCEPT ![Top.p].remaining = @ + 1, ![Top.p].live = @ + 1]
  /\ Keep({Item}, NextItem)
  /\ UNCHANGED <<state, value, source, open, born, script, known>>

BuildEnd ==
  /\ Ends("build") /\ Top.wp = None /\ ~Building
  /\ LET S == Replaced(Active("built", Top.p))
     IN  \/ /\ ~agg[Top.p].settled /\ agg[Top.p].remaining = 0
            /\ Finish(Top.p, agg, S)
         \/ /\ agg[Top.p].settled \/ agg[Top.p].remaining # 0
            /\ Skip(S) /\ UNCHANGED agg
  /\ UNCHANGED <<born, script, known>>
Built ==
  /\ Ends("built")
  /\ agg' = [agg EXCEPT ![Top.p].freed = @ \/ agg[Top.p].live = 0]
  /\ known' = known \cup {Top.p}
  /\ Skip(Below)
  /\ UNCHANGED <<born, script>>

----------------------------------------------------------------------------
(* race and any. *)

\* native_PromiseRace: the first input with an outcome decides; a pending one
\* passes its outcome on when it settles.
Race ==
  /\ InScript("race")
  /\ MakeFresh("PENDING", NoVal)
  /\ \E items \in Items :
       Keep({}, Append(ctl, [Active("race", Fresh) EXCEPT !.items = items]))
  /\ UNCHANGED <<reactions, source, open, agg, known>>

Racing == Ends("race") /\ Top.at <= Len(Top.items) /\ state[Top.p] = "PENDING"
Racer == Top.items[Top.at]
\* (variant) inputs are only looked at, pending ones are not waited for.
RaceNext_LooksOnce ==
  /\ Racing
  /\ \/ /\ Racer \in Promise /\ state[Racer] # "PENDING"
        /\ Settle(Top.p, state[Racer], value[Racer])
        /\ Keep({}, NextItem)
        /\ UNCHANGED <<reactions, source, open>>
     \/ /\ Racer \in Promise /\ state[Racer] = "PENDING"
        /\ Skip(NextItem)
     \/ /\ Racer \notin Promise
        /\ Settle(Top.p, "FULFILLED", Racer)
        /\ Keep({}, NextItem)
        /\ UNCHANGED <<reactions, source, open>>
  /\ UNCHANGED <<agg, born, script, known>>

RaceNext ==
  /\ Racing
  /\ \/ /\ Racer \in Promise /\ state[Racer] = "PENDING"
        /\ reactions' = [reactions EXCEPT ![Racer] =
             Append(@, [onF |-> NoHandler, onR |-> NoHandler, np |-> Top.p])]
        /\ Keep({Racer}, NextItem)
        /\ UNCHANGED <<state, value, source, open>>
     \/ /\ Racer \in Promise /\ state[Racer] # "PENDING"
        /\ Settle(Top.p, state[Racer], value[Racer])
        /\ Keep({}, NextItem)
        /\ UNCHANGED <<reactions, source, open>>
     \/ /\ Racer = Thenable
        /\ Adopt(Top.p, Thenable, NextItem)
     \/ /\ Racer \notin Promise /\ Racer # Thenable
        /\ Settle(Top.p, "FULFILLED", Racer)
        /\ Keep({}, NextItem)
        /\ UNCHANGED <<reactions, source, open>>
  /\ UNCHANGED <<agg, born, script, known>>
RaceEnd ==
  /\ Ends("race") /\ ~Racing
  /\ known' = known \cup {Top.p}
  /\ Skip(Below)
  /\ UNCHANGED <<agg, born, script>>

\* native_PromiseAny looks at its inputs once.
Fulfills(x) == x \notin Promise \/ state[x] = "FULFILLED"
AnyOf ==
  /\ InScript("any")
  /\ \E items \in Items :
       LET hits == {i \in DOMAIN items : Fulfills(items[i])}
           first == items[CHOOSE i \in hits : \A j \in hits : i <= j]
           pending == \E i \in DOMAIN items :
                        items[i] \in Promise /\ state[items[i]] = "PENDING"
       IN  \/ hits # {} /\ MakeFresh("FULFILLED", Unwrap(first))
           \/ hits = {} /\ pending /\ MakeFresh("PENDING", NoVal)
           \/ hits = {} /\ ~pending /\ MakeFresh("REJECTED", AggregateError)
  /\ known' = known \cup {Fresh}
  /\ Keep({}, ctl)
  /\ UNCHANGED <<reactions, source, open, agg>>

----------------------------------------------------------------------------
(* The drain, native_promise_drain.                                         *)

\* (variant) the drain stays armed while it runs.
DrainEnter_StaysArmed ==
  /\ Ends("enter")
  /\ reactions' = [reactions EXCEPT ![Top.p] = <<>>]
  /\ ctl' = Replaced([Active("drain", Top.p) EXCEPT
                        !.todo = reactions[Top.p], !.ok = state[Top.p] = "FULFILLED"])
  /\ UNCHANGED <<state, value, source, open, armed, rooted, queue, agg, born, script, known>>

\* Disarm, and detach the list before anything on it runs.
DrainEnter ==
  /\ Ends("enter")
  /\ armed' = [armed EXCEPT ![Top.p] = FALSE]
  /\ reactions' = [reactions EXCEPT ![Top.p] = <<>>]
  /\ ctl' = Replaced([Active("drain", Top.p) EXCEPT
                        !.todo = reactions[Top.p], !.ok = state[Top.p] = "FULFILLED"])
  /\ UNCHANGED <<state, value, source, open, rooted, queue, agg, born, script, known>>

DrainNext ==
  /\ Ends("drain") /\ Top.todo # <<>>
  /\ LET r == Head(Top.todo)
         h == IF Top.ok THEN r.onF ELSE r.onR
         v == value[Top.p]
         S == Replaced([Top EXCEPT !.todo = Tail(@)])
     IN  \/ /\ h.do = "js"
            /\ Skip(Append(S, Active("handler", r.np))) /\ UNCHANGED agg
         \/ /\ h.do = "resolve" /\ ResolveCb(h.to, v, S) /\ UNCHANGED agg
         \/ /\ h.do = "reject" /\ RejectCb(h.to, v, S) /\ UNCHANGED agg
         \/ /\ h.do = "kept" /\ Arrived(h, "FULFILLED", v)
         \/ /\ h.do = "failed" /\ Arrived(h, "REJECTED", v)
         \/ /\ h.do = "none" /\ Top.ok
            /\ SettleChained(r.np, v, S) /\ UNCHANGED agg
         \/ /\ h.do = "none" /\ ~Top.ok /\ RejectCb(r.np, v, S) /\ UNCHANGED agg
  /\ UNCHANGED <<born, script, known>>

\* (variant) it is, even when its drain has been scheduled again.
DrainExit_Rearmed ==
  /\ Ends("drain") /\ Top.todo = <<>>
  /\ rooted' = IF state[Top.p] = "PENDING" THEN rooted ELSE rooted \ {Top.p}
  /\ ctl' = Below
  /\ UNCHANGED <<promiseVars, armed, queue, agg, born, script, known>>

\* promise_drain_unroot.
DrainExit ==
  /\ Ends("drain") /\ Top.todo = <<>>
  /\ rooted' = IF armed[Top.p] \/ state[Top.p] = "PENDING" THEN rooted
               ELSE rooted \ {Top.p}
  /\ ctl' = Below
  /\ UNCHANGED <<promiseVars, armed, queue, agg, born, script, known>>

----------------------------------------------------------------------------
(* The host: microtasks go ahead of timer callbacks. *)

Microtask ==
  /\ ctl = <<>> /\ queue # <<>>
  /\ ctl' = <<Active("enter", Head(queue))>>
  /\ queue' = Tail(queue)
  /\ UNCHANGED <<promiseVars, armed, rooted, agg, born, script, known>>

Task ==
  /\ ctl = <<>> /\ queue = <<>> /\ script.left > 0
  /\ ctl' = <<Active("main", None)>>
  /\ UNCHANGED <<promiseVars, armed, rooted, queue, agg, born, script, known>>

Quiet == ctl = <<>> /\ queue = <<>>
Over == Quiet /\ script.left = 0 /\ UNCHANGED vars

\* Bound: script that meets thenables runs inside their `then` as well.
Budget(may) == IF "adopting" \in may THEN MaxOps - 1 ELSE MaxOps

Init ==
  /\ state = [p \in Promise |-> "UNBORN"]
  /\ value = [p \in Promise |-> NoVal]
  /\ reactions = [p \in Promise |-> <<>>]
  /\ armed = [p \in Promise |-> FALSE]
  /\ rooted = {}
  /\ agg = [c \in {} |-> Hole]
  /\ queue = <<>>
  /\ ctl = <<Active("main", None)>>
  /\ born = 0
  /\ \E inline \in BOOLEAN :
       \E may \in IF inline THEN InlineScripts ELSE QueuedScripts :
         script = [may |-> may, left |-> Budget(may), inline |-> inline]
  /\ known = {} /\ open = {}
  /\ source = [p \in Promise |-> None]

ScriptStep ==
  \/ WithResolvers \/ Construct \/ MakeSettled \/ MakeAdopting
  \/ Resolve \/ Reject \/ Then \/ All \/ Race \/ AnyOf
EndStep ==
  \/ MainEnd \/ ExecutorReturn \/ ExecutorThrow \/ ThenReturn \/ ThenThrow
  \/ HandlerReturn \/ HandlerThrow
NativeStep ==
  \/ Release \/ BuildKnown \/ BuildThenable \/ BuildWait \/ BuildEnd \/ Built
  \/ RaceNext \/ RaceEnd \/ DrainEnter \/ DrainNext \/ DrainExit

Next == ScriptStep \/ EndStep \/ NativeStep \/ Microtask \/ Task \/ Over

Spec == Init /\ [][Next]_vars

\* Script code comes to its end, natives do not wait, and the embedder runs its
\* microtasks; nothing makes script code or a timer do anything.
FairSpec == Spec /\ WF_vars(EndStep) /\ WF_vars(NativeStep) /\ WF_vars(Microtask)

----------------------------------------------------------------------------
(* Properties. *)

Outstanding == UNION ({Range(reactions[p]) : p \in Promise}
                      \cup {Range(ctl[i].todo) : i \in DOMAIN ctl})
\* The promises that a native function kept by a reaction points at.
PointedAt(R) == {r.onF.to : r \in R} \cup {r.onR.to : r \in R}

\* "never lose reactions": when nothing is left to run, a settled promise has no
\* reaction still waiting, whenever it was registered.
ReactionsRunDry == Quiet => \A p \in Promise : Settled(p) => reactions[p] = <<>>

\* When nothing is left to run, a pending promise can still settle: script has
\* its resolvers, or it hangs on a reaction of another promise that is pending.
\* (Promise.any looks at its inputs once: what it leaves pending stays so.)
NoOrphans ==
  Quiet /\ "any" \notin script.may => \A p \in Promise : state[p] = "PENDING" =>
    \/ p \in open
    \/ \E q \in Promise :
         /\ state[q] = "PENDING"
         /\ p \in {r.np : r \in Range(reactions[q])} \cup PointedAt(Range(reactions[q]))

\* The result of a race over a thenable is out of two properties: it may be
\* adopting what the thenable gave it, and it is on the root array, when
\* another input settles it in the loop.
RacesThenables == {"race", "adopting"} \subseteq script.may

\* A promise that took over another promise's outcome has that outcome:
\* resolving with a promise, and returning one from a reaction, adopt it.
FollowsItsSource ==
  ~RacesThenables =>
  \A p \in Promise : Settled(p) /\ source[p] # None =>
    state[p] = state[source[p]] /\ value[p] = value[source[p]]

\* Native resolve and reject functions hold a bare pointer to their promise, and
\* so does a queued drain: a pending promise they can still settle, one that
\* has reactions, and one whose drain is to come are on the root array.
PointersRooted ==
  LET held == open \cup PointedAt(Outstanding)
      waiting == {p \in Promise : reactions[p] # <<>>}
  IN  /\ \A p \in held \cup waiting :
           (p # None /\ state[p] = "PENDING") => p \in rooted
      /\ \A p \in Promise : armed[p] => p \in rooted

\* The root array keeps no promise for ever: at rest it has only pending ones.
\* (One whose executor threw is rejected without a drain and stays.)
RootedWhilePending ==
  Quiet /\ "executorThrow" \notin script.may /\ ~RacesThenables =>
    \A p \in rooted : state[p] = "PENDING"

\* all and allSettled fulfil with the outcome of every input, in its place, and
\* all only if no input was rejected; a rejection is that of an input.
AggregateComplete ==
  \A c \in DOMAIN agg :
    LET x == agg[c].items
        kept(i) == agg[c].values[i] =
          IF x[i] \in Promise THEN [st |-> state[x[i]], v |-> value[x[i]]]
                              ELSE [st |-> "FULFILLED", v |-> x[i]]
        failed(i) == x[i] \in Promise /\ state[x[i]] = "REJECTED"
    IN  /\ state[c] = "FULFILLED" =>
              \A i \in DOMAIN x : kept(i) /\ agg[c].values[i].st # "PENDING"
                                  /\ (agg[c].all => ~failed(i))
        /\ state[c] = "REJECTED" =>
              agg[c].all /\ \E i \in DOMAIN x : failed(i) /\ value[x[i]] = value[c]

\* Nothing that will still use an aggregation's context finds it freed; and when
\* nothing will use it again, it has been freed.
AggregateAlive ==
  \A c \in DOMAIN agg :
    LET used == \/ \E i \in DOMAIN ctl : /\ ctl[i].k \in {"build", "built", "release"}
                                         /\ ctl[i].p = c
                \/ \E r \in Outstanding : r.onF.do = "kept" /\ r.onF.to = c
    IN  agg[c].freed <=> ~used

\* The promises a native function points at are kept, and no others for ever.
PointersSound == TypeOK /\ PointersRooted /\ RootedWhilePending
\* At rest, nothing that should still happen has been dropped.
NothingLost == ReactionsRunDry /\ NoOrphans
\* An aggregation sees every input, and its context lives as long as it does.
AggregatesSound == AggregateComplete /\ AggregateAlive

\* What promises promise: PromiseSpec. The reactions waiting on a promise are
\* those its drain has detached and not run, then those registered since.
DetachedIn(C, p) ==
  LET upTo[n \in 0 .. Len(C)] ==
        IF n = 0 THEN <<>>
        ELSE IF C[n].k = "drain" /\ C[n].p = p THEN upTo[n - 1] \o C[n].todo ELSE upTo[n - 1]
  IN  upTo[Len(C)]
Detached(p) == DetachedIn(ctl, p)
Promised == INSTANCE PromiseSpec WITH
  outcome <- [p \in Promise |-> [st |-> state[p], v |-> value[p]]],
  waiting <- [p \in Promise |-> Detached(p) \o reactions[p]],
  ordered <- ~script.inline

\* Every step of the implementation is a step of PromiseSpec or none: nothing
\* settles twice, neither by a second resolve, a throw after it, a losing input
\* of a race nor a late input of an aggregation; no reaction runs early or twice.
KeepsPromises == Promised!Spec
\* Whatever waits on a settled promise is eventually run.
ReactionsRun == Promised!Live
=============================================================================
