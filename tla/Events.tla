------------------------------- MODULE Events -------------------------------
(***************************************************************************)
(* EventEmitter, EventTarget and AbortSignal (lang/js/native/natives).  An *)
(* emission or a dispatch calls script listeners, and these call the same  *)
(* operations again: `frames` is the C frames of ee_emit and of            *)
(* native_EventTarget_dispatch that wait for a listener, the innermost     *)
(* last.  Script is unconstrained: at the top level and inside a listener  *)
(* it does any operation of its world, MaxOps altogether.                  *)
(***************************************************************************)
EXTENDS Integers, Sequences, FiniteSets, SequencesExt

CONSTANTS
  Emitters, Targets,  \* the objects; some targets are signals
  Signals, Controlled, \* and these have an AbortController
  Types, AbortType,   \* the event types
  Callbacks,          \* the script functions that listen
  Reasons, TimeoutError, NoReason,
  Composites(_),      \* the sources a composite signal may be made of
  MaxOps,             \* bound: the operations of script, altogether
  Worlds,             \* which of the objects the script of a run uses
  Reentrant           \* whether a listener changes the list that calls it, or
                      \* stops the event of an abort

ASSUME EventsAssumption ==
  /\ Controlled \subseteq Signals /\ Signals \subseteq Targets /\ Emitters \cap Targets = {}
  /\ AbortType \in Types /\ MaxOps \in Nat /\ Reentrant \in BOOLEAN
  /\ Callbacks \cap Signals = {}
  /\ \A s \in Signals : Composites(s) \subseteq Seq(Signals)
  /\ Worlds \subseteq {"emitter", "target", "signals"}

VARIABLES
  store,     \* @@events of an emitter: its records, by type
  epoch,     \* how often removeAllListeners() has put a new store there
  list,      \* @@listeners of a target: its records, of all types
  handler,   \* its on<type> property for AbortType, or "none"
  aborted, reason, \* of a signal
  made,      \* the signals there are
  timers,    \* the signals of AbortSignal.timeout that wait
  frames,
  err,       \* an error is propagating
  world, ops, \* the bounds
  kept       \* history: what script registered for good

vars == <<store, epoch, list, handler, aborted, reason, made, timers, frames, err, world, ops,
          kept>>
eeVars == <<store, epoch>>
etVars == <<list, handler>>
sigVars == <<aborted, reason, made, timers>>

Objects == Emitters \cup Targets

\* The cb of a record is a script function, or a signal for abort_any_cb with
\* that composite.

\* A frame: todo is what is left to call of an emission's snapshot, n and i how
\* many records a dispatch goes through and went through; stale: its list has been
\* freed; in: a listener of it is running; owed, called, cut: histories of what was
\* to be called, what was, and whether something cut it short.

Top == frames[Len(frames)]
WithTop(f) == [frames EXCEPT ![Len(frames)] = f]
Beneath == SubSeq(frames, 1, Len(frames) - 1)

Ids(recs) == [i \in DOMAIN recs |-> recs[i].id]

\* The records of recs that are in R, in their order.
Picked(recs, R) ==
  LET upTo[i \in 0 .. Len(recs)] ==
        IF i = 0 THEN <<>>
        ELSE IF recs[i] \in R THEN Append(upTo[i - 1], recs[i]) ELSE upTo[i - 1]
  IN  upTo[Len(recs)]
OfType(recs, ty) == Picked(recs, {r \in Range(recs) : r.type = ty})
NotOnce(recs) == Picked(recs, {r \in Range(recs) : ~r.once})
Without(recs, ids) == Picked(recs, {r \in Range(recs) : r.id \notin ids})
\* The listeners that stay after a dispatch of type ty.
Staying(recs, ty) == Picked(recs, {r \in Range(recs) : ~(r.once /\ r.type = ty)})

\* Script runs at the top level and while a listener does.
Running == IF frames = <<>> THEN TRUE ELSE Top.in
Calls == Running /\ ~err /\ ops < MaxOps
Does == ops' = ops + 1

\* The frames that are in the middle of an emission or dispatch.
Busy(o, ty) == \E i \in DOMAIN frames : frames[i].on = o /\ frames[i].type = ty
BusyOn(o) == \E i \in DOMAIN frames : frames[i].on = o

Record(ty, cb, once, capture) ==
  [id |-> ops + 1, type |-> ty, cb |-> cb, once |-> once, capture |-> capture]

----------------------------------------------------------------------------
(* EventEmitter. *)

\* on, once, prependListener, prependOnceListener: ee_add.
Insert(recs, r, first) == IF first THEN <<r>> \o recs ELSE Append(recs, r)
On(e, ty, cb, once, first) ==
  LET r == Record(ty, cb, once, FALSE)
  IN  /\ Calls
      /\ once /\ ~Reentrant => ~Busy(e, ty)
      /\ store' = [store EXCEPT ![e][ty] = Insert(@, r, first)]
      /\ kept' = IF once THEN kept ELSE [kept EXCEPT ![e][ty] = Insert(@, r, first)]
      /\ Does
      /\ UNCHANGED <<epoch, etVars, sigVars, frames, err, world>>

\* off: the first record with this function goes.
Off(e, ty, cb) ==
  LET at == {i \in DOMAIN store[e][ty] : store[e][ty][i].cb = cb}
      gone == {store[e][ty][i].id : i \in {j \in at : \A k \in at : j <= k}}
  IN  /\ Calls
      /\ store' = [store EXCEPT ![e][ty] = Without(@, gone)]
      /\ kept' = [kept EXCEPT ![e][ty] = Without(@, gone)]
      /\ Does
      /\ UNCHANGED <<epoch, etVars, sigVars, frames, err, world>>

\* removeAllListeners(type), and without a type, which replaces the store.
RemoveAll(e, tys) ==
  /\ Calls
  /\ store' = [store EXCEPT ![e] = [ty \in Types |-> IF ty \in tys THEN <<>> ELSE @[ty]]]
  /\ epoch' = IF tys = Types THEN [epoch EXCEPT ![e] = @ + 1] ELSE epoch
  /\ kept' = [kept EXCEPT ![e] = [ty \in Types |-> IF ty \in tys THEN <<>> ELSE @[ty]]]
  /\ Does
  /\ UNCHANGED <<etVars, sigVars, frames, err, world>>

\* ee_emit up to its loop: nothing happens without listeners.
Emit(e, ty) ==
  /\ Calls
  /\ ~Reentrant /\ Busy(e, ty) => NotOnce(store[e][ty]) = store[e][ty]
  /\ frames' = IF store[e][ty] = <<>> THEN frames
               ELSE Append(frames, [kind |-> "emit", on |-> e, type |-> ty,
                      todo |-> store[e][ty], n |-> 0, i |-> 0, epoch |-> epoch[e],
                      stale |-> FALSE, stop |-> FALSE, phase |-> "list", in |-> FALSE,
                      owed |-> Ids(store[e][ty]), called |-> <<>>, cut |-> FALSE])
  /\ Does
  /\ UNCHANGED <<eeVars, etVars, sigVars, err, world, kept>>

Called(f, r) == [f EXCEPT !.in = TRUE, !.called = Append(@, r.id)]

\* Mutant: the loop reads the live list by index.
EmitNext_Live ==
  /\ frames # <<>> /\ Top.kind = "emit" /\ ~Top.in /\ Top.todo # <<>>
  /\ LET now == store[Top.on][Top.type]
         f == [Top EXCEPT !.i = @ + 1, !.todo = Tail(@)]
     IN  frames' = WithTop(IF err THEN [f EXCEPT !.cut = TRUE]
                           ELSE IF Top.i < Len(now) THEN Called(f, now[Top.i + 1]) ELSE f)
  /\ UNCHANGED <<eeVars, etVars, sigVars, err, world, ops, kept>>

\* The loop: call_m_func enters the next listener, and not at all while an
\* error propagates.
EmitNext ==
  /\ frames # <<>> /\ Top.kind = "emit" /\ ~Top.in /\ Top.todo # <<>>
  /\ LET r == Head(Top.todo)
         f == [Top EXCEPT !.todo = Tail(@)]
     IN  frames' = WithTop(IF err THEN [f EXCEPT !.cut = TRUE] ELSE Called(f, r))
  /\ UNCHANGED <<eeVars, etVars, sigVars, err, world, ops, kept>>

\* Mutant: it keeps what the snapshot held.
EmitEnd_OfSnapshot ==
  /\ frames # <<>> /\ Top.kind = "emit" /\ ~Top.in /\ Top.todo = <<>>
  /\ store' = [store EXCEPT ![Top.on][Top.type] =
                 Picked(@, {r \in Range(@) : ~r.once /\ r.id \in Range(Top.owed)})]
  /\ frames' = Beneath
  /\ UNCHANGED <<epoch, etVars, sigVars, err, world, ops, kept>>

\* The post-pass drops the once records of the type. A store that has been
\* replaced meanwhile is freed: it holds none, or has become a later store.
EmitEnd ==
  /\ frames # <<>> /\ Top.kind = "emit" /\ ~Top.in /\ Top.todo = <<>>
  /\ \/ store' = [store EXCEPT ![Top.on][Top.type] = NotOnce(@)]
     \/ Top.epoch # epoch[Top.on] /\ UNCHANGED store
  /\ frames' = Beneath
  /\ UNCHANGED <<epoch, etVars, sigVars, err, world, ops, kept>>

----------------------------------------------------------------------------
(* EventTarget. *)

\* addEventListener, and native_EventTarget_add_listener.
Added(L, t, r) == [L EXCEPT ![t] = Append(@, r)]
Keep(K, t, r) == IF r.once THEN K ELSE [K EXCEPT ![t][r.type] = Append(@, r)]

AddListener(t, ty, cb, once, capture) ==
  LET r == Record(ty, cb, once, capture)
  IN  /\ Calls
      /\ once /\ ~Reentrant => ~Busy(t, ty)
      /\ list' = Added(list, t, r)
      /\ kept' = Keep(kept, t, r)
      /\ Does
      /\ UNCHANGED <<eeVars, handler, sigVars, frames, err, world>>

\* A list that is replaced is freed under the dispatches that go through it, and
\* they find it empty: var_free clears it, and the first arrays that may take its
\* place are argument lists and the post-pass's own, still empty, result.
Freed(F, t) == [i \in DOMAIN F |-> IF F[i].on = t THEN [F[i] EXCEPT !.stale = TRUE] ELSE F[i]]

\* removeEventListener builds another list, whether anything matches or not.
RemoveListener(t, ty, cb, capture) ==
  LET gone == {r.id : r \in {s \in Range(list[t]) :
                 s.type = ty /\ s.cb = cb /\ s.capture = capture}}
  IN  /\ Calls
      /\ ~Reentrant => ~BusyOn(t)
      /\ list' = [list EXCEPT ![t] = Without(@, gone)]
      /\ kept' = [kept EXCEPT ![t][ty] = Without(@, gone)]
      /\ frames' = Freed(frames, t)
      /\ Does
      /\ UNCHANGED <<eeVars, handler, sigVars, err, world>>

SetHandler(t, cb) ==
  /\ Calls
  /\ handler' = [handler EXCEPT ![t] = cb]
  /\ Does
  /\ UNCHANGED <<eeVars, list, sigVars, frames, err, world, kept>>

\* stopImmediatePropagation, on the event of the dispatch that runs.
StopNow ==
  /\ Calls /\ frames # <<>> /\ Top.kind = "dispatch"
  /\ ~Reentrant => Top.on \notin Signals
  /\ frames' = WithTop([Top EXCEPT !.stop = TRUE, !.cut = TRUE])
  /\ Does
  /\ UNCHANGED <<eeVars, etVars, sigVars, err, world, kept>>

\* native_EventTarget_dispatch up to its loop.
Dispatch(t, ty) ==
  [kind |-> "dispatch", on |-> t, type |-> ty, todo |-> <<>>, n |-> Len(list[t]), i |-> 0,
   epoch |-> 0, stale |-> FALSE, stop |-> FALSE, phase |-> "list", in |-> FALSE,
   owed |-> Ids(OfType(list[t], ty)), called |-> <<>>, cut |-> FALSE]

DispatchEvent(t, ty) ==
  /\ Calls
  /\ ~Reentrant => ~BusyOn(t)
  /\ frames' = Append(frames, Dispatch(t, ty))
  /\ Does
  /\ UNCHANGED <<eeVars, etVars, sigVars, err, world, kept>>

\* signal_do_abort: the flag and the reason, then the event.
DoAbort(s, r, F) ==
  IF aborted[s]
  THEN /\ frames' = F
       /\ UNCHANGED <<aborted, reason>>
  ELSE /\ aborted' = [aborted EXCEPT ![s] = TRUE]
       /\ reason' = [reason EXCEPT ![s] = r]
       /\ frames' = Append(F, Dispatch(s, AbortType))

\* The loop: the records that were there at its start, read from the list as it
\* is now; one that has been freed reads as empty. A script listener is not
\* entered while an error propagates, abort_any_cb is.
DispatchNext ==
  /\ frames # <<>> /\ Top.kind = "dispatch" /\ ~Top.in /\ Top.phase = "list"
  /\ Top.i < Top.n /\ ~Top.stop
  /\ LET f == [Top EXCEPT !.i = @ + 1]
         there == ~Top.stale /\ Top.i < Len(list[Top.on])
         r == list[Top.on][Top.i + 1]
     IN  \/ /\ there => r.type # Top.type
            /\ frames' = WithTop(f)
            /\ UNCHANGED <<aborted, reason>>
         \/ /\ there /\ r.type = Top.type /\ r.cb \in Callbacks
            /\ frames' = WithTop(IF err THEN [f EXCEPT !.cut = TRUE] ELSE Called(f, r))
            /\ UNCHANGED <<aborted, reason>>
         \/ /\ there /\ r.type = Top.type /\ r.cb \notin Callbacks
            /\ DoAbort(r.cb, reason[Top.on], WithTop([Called(f, r) EXCEPT !.in = FALSE]))
  /\ UNCHANGED <<eeVars, etVars, made, timers, err, world, ops, kept>>

\* The post-pass builds another list from the one it went through.
DispatchEnd ==
  /\ frames # <<>> /\ Top.kind = "dispatch" /\ ~Top.in /\ Top.phase = "list"
  /\ Top.i = Top.n \/ Top.stop
  /\ list' = [list EXCEPT ![Top.on] = IF Top.stale THEN <<>> ELSE Staying(@, Top.type)]
  /\ frames' = Append(Freed(Beneath, Top.on), [Top EXCEPT !.phase = "handler"])
  /\ UNCHANGED <<eeVars, handler, sigVars, err, world, ops, kept>>

\* The on<type> property, read after the list.
DispatchHandler ==
  /\ frames # <<>> /\ Top.kind = "dispatch" /\ ~Top.in /\ Top.phase = "handler"
  /\ LET fires == handler[Top.on] # "none" /\ Top.type = AbortType /\ ~Top.stop /\ ~err
     IN  frames' = WithTop([Top EXCEPT !.phase = "end", !.in = fires])
  /\ UNCHANGED <<eeVars, etVars, sigVars, err, world, ops, kept>>

DispatchReturn ==
  /\ frames # <<>> /\ Top.kind = "dispatch" /\ ~Top.in /\ Top.phase = "end"
  /\ frames' = Beneath
  /\ UNCHANGED <<eeVars, etVars, sigVars, err, world, ops, kept>>

----------------------------------------------------------------------------
(* AbortController and AbortSignal. *)

\* Mutant: a second abort is announced again.
Abort_Again(s, r) ==
  /\ Calls
  /\ aborted' = [aborted EXCEPT ![s] = TRUE]
  /\ reason' = [reason EXCEPT ![s] = r]
  /\ frames' = Append(frames, Dispatch(s, AbortType))
  /\ Does
  /\ UNCHANGED <<eeVars, etVars, made, timers, err, world, kept>>

\* AbortController.abort.
Abort(s, r) ==
  /\ Calls
  /\ DoAbort(s, r, frames)
  /\ Does
  /\ UNCHANGED <<eeVars, etVars, made, timers, err, world, kept>>

\* AbortSignal.abort(reason).
Aborted(s, r) ==
  /\ Calls /\ s \notin made
  /\ made' = made \cup {s}
  /\ DoAbort(s, r, frames)
  /\ Does
  /\ UNCHANGED <<eeVars, etVars, timers, err, world, kept>>

\* AbortSignal.any(signals): listens to each up to the first that is aborted,
\* whose reason it takes at once.
AnyOf(c, signals) ==
  LET at == {i \in DOMAIN signals : aborted[signals[i]]}
      to == IF at = {} THEN Len(signals)
            ELSE (CHOOSE i \in at : \A j \in at : i <= j) - 1
      heard == {signals[i] : i \in 1 .. to}
      r == Record(AbortType, c, FALSE, FALSE)
  IN  /\ Calls /\ c \notin made /\ Range(signals) \subseteq made
      /\ made' = made \cup {c}
      /\ list' = [t \in Targets |-> IF t \in heard THEN Append(list[t], r) ELSE list[t]]
      /\ kept' = [t \in Objects |-> IF t \in heard
                    THEN [kept[t] EXCEPT ![AbortType] = Append(@, r)] ELSE kept[t]]
      /\ aborted' = [aborted EXCEPT ![c] = at # {}]
      /\ reason' = IF at = {} THEN reason ELSE [reason EXCEPT ![c] = reason[signals[to + 1]]]
      /\ Does
      /\ UNCHANGED <<eeVars, handler, timers, frames, err, world>>

\* AbortSignal.timeout, and its timer, which the host runs between scripts.
Timeout(s) ==
  /\ Calls /\ s \notin made
  /\ made' = made \cup {s}
  /\ timers' = timers \cup {s}
  /\ Does
  /\ UNCHANGED <<eeVars, etVars, aborted, reason, frames, err, world, kept>>

TimerFires(s) ==
  /\ frames = <<>> /\ s \in timers
  /\ timers' = timers \ {s}
  /\ DoAbort(s, TimeoutError, frames)
  /\ UNCHANGED <<eeVars, etVars, made, err, world, ops, kept>>

----------------------------------------------------------------------------
(* Script. *)

\* A listener returns, or throws; whoever it called may have thrown before.
Return ==
  /\ frames # <<>> /\ Top.in
  /\ frames' = WithTop([Top EXCEPT !.in = FALSE])
  /\ UNCHANGED <<eeVars, etVars, sigVars, err, world, ops, kept>>

Throw ==
  /\ Calls /\ frames # <<>>
  /\ frames' = WithTop([Top EXCEPT !.in = FALSE])
  /\ err' = TRUE
  /\ Does
  /\ UNCHANGED <<eeVars, etVars, sigVars, world, kept>>

\* A script catches what the call it made has thrown; at the top level an error
\* ends the script, and the host goes on with the next.
Catch ==
  /\ Running /\ err
  /\ err' = FALSE
  /\ UNCHANGED <<eeVars, etVars, sigVars, frames, world, ops, kept>>

----------------------------------------------------------------------------

NoRecs == [ty \in Types |-> <<>>]
Init ==
  /\ store = [e \in Emitters |-> NoRecs]
  /\ epoch = [e \in Emitters |-> 0]
  /\ list = [t \in Targets |-> <<>>]
  /\ handler = [t \in Targets |-> "none"]
  /\ aborted = [s \in Signals |-> FALSE]
  /\ reason = [s \in Signals |-> NoReason]
  /\ made = Controlled
  /\ timers = {}
  /\ frames = <<>>
  /\ err = FALSE
  /\ world \in Worlds
  /\ ops = 0
  /\ kept = [o \in Objects |-> NoRecs]

EmitterStep ==
  \/ \E e \in Emitters, ty \in Types, cb \in Callbacks :
       \/ \E once, first \in BOOLEAN : On(e, ty, cb, once, first)
       \/ Off(e, ty, cb)
  \/ \E e \in Emitters, ty \in Types : RemoveAll(e, {ty}) \/ RemoveAll(e, Types) \/ Emit(e, ty)

TargetStep ==
  \/ \E t \in Targets \ Signals, ty \in Types, cb \in Callbacks :
       \/ \E once \in BOOLEAN : AddListener(t, ty, cb, once, FALSE)
       \/ RemoveListener(t, ty, cb, FALSE)
  \/ \E t \in Targets \ Signals, cb \in Callbacks : SetHandler(t, cb)
  \/ \E t \in Targets \ Signals, ty \in Types : DispatchEvent(t, ty)

SignalStep ==
  \/ \E s \in Signals, r \in Reasons : (s \in Controlled /\ Abort(s, r)) \/ Aborted(s, r)
  \/ \E s \in made, cb \in Callbacks :
       \/ \E once \in BOOLEAN : AddListener(s, AbortType, cb, once, FALSE)
       \/ RemoveListener(s, AbortType, cb, FALSE)
  \/ \E s \in Signals : (\E signals \in Composites(s) : AnyOf(s, signals)) \/ Timeout(s)
  \/ \E s \in made, cb \in Callbacks : SetHandler(s, cb)

Next ==
  \/ world = "emitter" /\ EmitterStep
  \/ world = "target" /\ TargetStep
  \/ world = "signals" /\ SignalStep
  \/ StopNow
  \/ \E s \in Signals : TimerFires(s)
  \/ EmitNext \/ EmitEnd
  \/ DispatchNext \/ DispatchEnd \/ DispatchHandler \/ DispatchReturn
  \/ Return \/ Throw \/ Catch

Spec == Init /\ [][Next]_vars

----------------------------------------------------------------------------
(* Properties. *)

\* Emitting, dispatching, nesting and throwing never change who is registered
\* for good: a listener added without `once` stays, in its place, until script
\* removes it (native_EventEmitter.c ee_emit, native_EventTarget.c
\* native_EventTarget_dispatch: the post-passes that put another list in place).
Registered(o, ty) == IF o \in Emitters THEN NotOnce(store[o][ty])
                     ELSE NotOnce(OfType(list[o], ty))
ListenersKept == \A o \in Objects, ty \in Types : Registered(o, ty) = kept[o][ty]

\* An emission or dispatch that nothing cut short has called each listener that
\* was registered when it began, once and in order, and no other, whatever the
\* listeners registered, removed or emitted meanwhile (ee_emit's snapshot,
\* native_EventTarget_dispatch's fixed count).
CallsEveryone ==
  [][\A n \in DOMAIN frames :
       n = Len(frames) /\ Len(frames') < n /\ ~frames[n].cut
         => frames[n].called = frames[n].owed]_vars

\* A signal is aborted once, with one reason, and announces it once, as it is
\* aborted (signal_do_abort).
AbortsOnce ==
  /\ [][\A s \in Signals : aborted[s] => aborted'[s] /\ reason'[s] = reason[s]]_vars
  /\ [][\A s \in Signals : frames' # frames /\ Len(frames') > Len(frames) /\ frames'[Len(frames')].on = s
          => ~aborted[s] /\ aborted'[s]]_vars

\* A composite is aborted as soon as script runs again outside of the dispatch
\* of a source that is, and for the reason of one, whatever has happened to the
\* listeners of that source since the composite was made (as_any, abort_any_cb,
\* which is one of them).
FollowsItsSources ==
  frames = <<>> =>
    \A s \in Signals, c \in Signals :
      aborted[s] /\ (\E r \in Range(kept[s][AbortType]) : r.cb = c)
        => aborted[c] /\ \E q \in Signals : q # c /\ aborted[q] /\ reason[q] = reason[c]

\* Signals abort once, and composites with their sources.
SignalsLawful == []FollowsItsSources /\ AbortsOnce
=============================================================================
