----------------------------- MODULE HostTimers -----------------------------
(***************************************************************************)
(* The event loop of the command line host, bin/lib/host_task.c: a fixed   *)
(* table of timers, polled against a clock.  A poll charges the time since *)
(* the last one to every timer and calls the due ones back; a callback may *)
(* set and clear timers, and may wait for a promise, which polls the table *)
(* from inside the poll.  bin/mario/mario.c runs the script, then the loop *)
(* until no timer is left.                                                 *)
(*                                                                         *)
(* The clock is read only as a difference: `since` is the time that passed *)
(* since the last poll.  A timer is known by its number, in the order in   *)
(* which timers are set; the ids that script sees are the code's.          *)
(***************************************************************************)
EXTENDS Integers, Sequences, FiniteSets

CONSTANTS
  TableSize,      \* CLI_TIMER_MAX
  PollLimit,      \* callbacks one poll makes at most
  IntMax,         \* the largest id, INT_MAX
  Delays,         \* the delays script asks for, in ms
  MaxTimers,      \* bound: timers script sets
  MaxSince,       \* bound: ms between two polls
  MaxSpins,       \* bound: polls of one await
  MaxAwaits       \* bound: awaits nested in each other

Slots == 1 .. TableSize
Timer == 1 .. MaxTimers

ASSUME HostAssumption ==
  /\ TableSize \in Nat \ {0} /\ IntMax \in Nat \ {0}
  /\ PollLimit \in Nat /\ TableSize <= PollLimit
  /\ Delays # {} /\ Delays \subseteq Nat
  /\ MaxTimers \in Nat /\ MaxSince \in Nat /\ MaxSpins \in Nat /\ MaxAwaits \in Nat

VARIABLES
  table,          \* s_timers: what is in each slot
  nextId,         \* s_next_id
  synced, since,  \* s_synced, and the time since s_last_now
  anchored,       \* the callbacks in @@cli_timers
  ctl,            \* the C stack, the running activation last
  err,            \* vm->propagating_err is set
  made,           \* how many timers were set
  fate,           \* of each timer: armed, or fired or cleared for good
  beat            \* flips when the timer's callback is called

vars == <<table, nextId, synced, since, anchored, ctl, err, made, fate, beat>>
tableVars == <<table, nextId, anchored, made, fate, beat>>
clockVars == <<synced, since>>

\* An inactive slot. Nothing reads the other fields of one.
Free == [k |-> 0]
\* lived: the time since the last poll before the timer was set or set again;
\* only a property reads it.
Armed == [k : Timer, id : 1 .. IntMax, period : Nat, remaining : Int,
          repeat : BOOLEAN, lived : Nat]

ScriptKinds == {"main", "callback"}
\* seen: the timers a poll has called; only a property reads it.
Activation == [k : ScriptKinds \cup {"await", "drain", "poll"}, left : Nat,
               seen : SUBSET Timer]
Active(k, left) == [k |-> k, left |-> left, seen |-> {}]

TypeOK ==
  /\ table \in [Slots -> Armed \cup {Free}]
  /\ nextId \in 0 .. IntMax
  /\ synced \in BOOLEAN /\ since \in 0 .. MaxSince /\ err \in BOOLEAN
  /\ anchored \subseteq Timer
  /\ ctl \in Seq(Activation)
  /\ made \in 0 .. MaxTimers
  /\ fate \in [Timer -> {"unset", "armed", "fired", "cleared"}]
  /\ beat \in [Timer -> BOOLEAN]

----------------------------------------------------------------------------

InUse == {i \in Slots : table[i] # Free}
Lowest(S) == CHOOSE i \in S : \A j \in S : i <= j
Top == ctl[Len(ctl)]
Below == SubSeq(ctl, 1, Len(ctl) - 1)
Runs(k) == ctl # <<>> /\ Top.k = k
InScript == (Runs("main") \/ Runs("callback")) /\ ~err

\* cli_reanchor, for the table T.
Reanchored(T) == {T[i].k : i \in {j \in Slots : T[j] # Free}}

----------------------------------------------------------------------------
(* What script does. *)

\* At least one millisecond.
Period(ms) == IF ms < 1 THEN 1 ELSE ms

\* Ids wrap around to 1; 0 is no timer.
NewId == IF nextId = IntMax THEN 1 ELSE nextId + 1

\* (variant) the callback is anchored by the poll that follows.
Set_Unanchored(ms, repeat) ==
  /\ InUse # Slots
  /\ LET i == Lowest(Slots \ InUse)
     IN  table' = [table EXCEPT ![i] =
           [k |-> made + 1, id |-> NewId, period |-> Period(ms),
            remaining |-> Period(ms), repeat |-> repeat, lived |-> since]]
  /\ nextId' = NewId
  /\ fate' = [fate EXCEPT ![made + 1] = "armed"]
  /\ made' = made + 1
  /\ UNCHANGED <<anchored, beat>>

\* cli_add_timer. A full table is reported as id 0.
Set(ms, repeat) ==
  /\ InUse # Slots
  /\ LET i == Lowest(Slots \ InUse)
     IN  table' = [table EXCEPT ![i] =
           [k |-> made + 1, id |-> NewId, period |-> Period(ms),
            remaining |-> Period(ms), repeat |-> repeat, lived |-> since]]
  /\ nextId' = NewId
  /\ fate' = [fate EXCEPT ![made + 1] = "armed"]
  /\ made' = made + 1
  /\ anchored' = Reanchored(table')
  /\ UNCHANGED beat

SetTimer ==
  /\ InScript /\ made < MaxTimers
  /\ \E ms \in Delays, repeat \in BOOLEAN : Set(ms, repeat)
  /\ UNCHANGED <<clockVars, ctl, err>>

\* setImmediate and queueMicrotask.
SetImmediate ==
  /\ InScript /\ made < MaxTimers
  /\ Set(0, FALSE)
  /\ UNCHANGED <<clockVars, ctl, err>>

\* (variant) a timer that is due is left to the poll.
Cleared_NotDue(id) == {i \in InUse : table[i].id = id /\ table[i].remaining > 0}

\* cli_clear_timer.
Cleared(id) == {i \in InUse : table[i].id = id}
ClearTimer ==
  /\ InScript
  /\ \E id \in {table[i].id : i \in InUse} :
       /\ table' = [i \in Slots |-> IF i \in Cleared(id) THEN Free ELSE table[i]]
       /\ fate' = [t \in Timer |->
            IF \E i \in InUse : table[i].k = t /\ table[i].id = id
            THEN "cleared" ELSE fate[t]]
  /\ anchored' = Reanchored(table')
  /\ UNCHANGED <<nextId, made, beat, clockVars, ctl, err>>

\* native_await outside an async function: poll until the promise settles, the
\* table is empty or the time is up. Anything a callback does may settle it.
Await ==
  /\ InScript /\ Top.left > 0
  /\ Cardinality({i \in DOMAIN ctl : ctl[i].k = "await"}) < MaxAwaits
  /\ ctl' = Append(Below, [Top EXCEPT !.left = @ - 1]) \o <<Active("await", MaxSpins)>>
  /\ UNCHANGED <<tableVars, clockVars, err>>
AwaitEnd ==
  /\ Runs("await")
  /\ ctl' = Below
  /\ UNCHANGED <<tableVars, clockVars, err>>

\* An error that a callback left behind unwinds the script that awaited, unless
\* it catches it.
CatchError ==
  /\ Runs("main") \/ Runs("callback")
  /\ err /\ err' = FALSE
  /\ UNCHANGED <<tableVars, clockVars, ctl>>

\* The script ends; main reports what it threw and goes on to the loop.
MainEnd ==
  /\ Runs("main")
  /\ err' = FALSE
  /\ ctl' = <<Active("drain", 0)>>
  /\ UNCHANGED <<tableVars, clockVars>>
CallbackEnd ==
  /\ Runs("callback")
  /\ ctl' = Below
  /\ UNCHANGED <<tableVars, clockVars, err>>
CallbackThrow ==
  /\ Runs("callback")
  /\ err' = TRUE
  /\ ctl' = Below
  /\ UNCHANGED <<tableVars, clockVars>>

----------------------------------------------------------------------------
(* cli_poll, called with the stack S. *)

Charged(delta) == [i \in Slots |->
  IF table[i] = Free THEN Free ELSE [table[i] EXCEPT !.remaining = @ - delta]]

\* The first poll only notes the time; one in the same millisecond does nothing.
Poll(S) ==
  /\ synced' = TRUE /\ since' = 0
  /\ \/ /\ synced /\ since > 0
        /\ table' = Charged(since)
        /\ ctl' = Append(S, Active("poll", PollLimit))
     \/ /\ ~synced \/ since = 0
        /\ ctl' = S
        /\ UNCHANGED table
  /\ UNCHANGED <<nextId, anchored, made, fate, beat, err>>

AwaitTick ==
  /\ Runs("await") /\ Top.left > 0
  /\ Poll(Append(Below, [Top EXCEPT !.left = @ - 1]))

\* The loop of host_task_drain. Its sleep is time passing.
DrainPoll ==
  /\ Runs("drain")
  /\ Poll(ctl)
\* (variant) only one-shots keep the loop going.
DrainEnd_IgnoresIntervals ==
  /\ Runs("drain") /\ \A i \in InUse : table[i].repeat
  /\ ctl' = <<>>
  /\ UNCHANGED <<tableVars, clockVars, err>>
DrainEnd ==
  /\ Runs("drain") /\ InUse = {}
  /\ ctl' = <<>>
  /\ UNCHANGED <<tableVars, clockVars, err>>

Due == {i \in InUse : table[i].remaining <= 0}
Polling == Runs("poll") /\ Top.left > 0 /\ Due # {}

\* A one-shot leaves its slot, an interval starts again, before the callback.
Fired(i) ==
  IF table[i].repeat
  THEN [table[i] EXCEPT !.remaining = table[i].period, !.lived = since]
  ELSE Free

\* The callback of the lowest due slot. With an error in flight the call comes
\* back before its body is entered.
PollFire ==
  /\ Polling
  /\ LET i == Lowest(Due)
         t == table[i].k
         P == Append(Below, [Top EXCEPT !.left = @ - 1, !.seen = @ \cup {t}])
     IN  /\ table' = [table EXCEPT ![i] = Fired(i)]
         /\ fate' = IF table[i].repeat THEN fate ELSE [fate EXCEPT ![t] = "fired"]
         /\ \/ ~err /\ ctl' = Append(P, Active("callback", 1))
               /\ beat' = [beat EXCEPT ![t] = ~@]
            \/ err /\ ctl' = P /\ UNCHANGED beat
  /\ UNCHANGED <<nextId, anchored, made, clockVars, err>>

PollEnd ==
  /\ Runs("poll") /\ ~Polling
  /\ ctl' = Below
  /\ anchored' = Reanchored(table)
  /\ UNCHANGED <<table, nextId, made, fate, beat, clockVars, err>>

\* A millisecond passes: script and natives take time, and the host sleeps.
\* Before the first poll the code has no clock.
Tick ==
  /\ synced /\ since < MaxSince /\ ctl # <<>>
  /\ since' = since + 1
  /\ table' = [i \in Slots |->
       IF table[i] = Free THEN Free ELSE [table[i] EXCEPT !.lived = @ + 1]]
  /\ UNCHANGED <<nextId, anchored, made, fate, beat, synced, ctl, err>>

Exited == ctl = <<>> /\ UNCHANGED vars

Init ==
  /\ table = [i \in Slots |-> Free]
  /\ nextId = 0
  /\ synced = FALSE /\ since = 0
  /\ anchored = {}
  /\ ctl = <<Active("main", 1)>>
  /\ err = FALSE
  /\ made = 0
  /\ fate = [t \in Timer |-> "unset"]
  /\ beat = [t \in Timer |-> FALSE]

ScriptStep == SetTimer \/ SetImmediate \/ ClearTimer \/ Await \/ CatchError
EndStep == MainEnd \/ CallbackEnd \/ CallbackThrow
HostStep == AwaitTick \/ AwaitEnd \/ DrainPoll \/ DrainEnd \/ PollFire \/ PollEnd
Next == ScriptStep \/ EndStep \/ HostStep \/ Tick \/ Exited

Spec == Init /\ [][Next]_vars

\* Script comes to its end, the host goes on, and so does the clock.
FairSpec == Spec /\ WF_vars(EndStep) /\ WF_vars(HostStep) /\ WF_vars(Tick)

----------------------------------------------------------------------------
(* Properties. *)

Called(t) == beat'[t] # beat[t]
NoPoll == \A i \in DOMAIN ctl : ctl[i].k # "poll"

\* A timer that was cleared, or a one-shot that has fired, is never called
\* (again), though its slot may be in use again and it may have been due in a
\* poll that is still going on when it was cleared.
EndedStaysEnded ==
  [][\A t \in Timer : fate[t] \in {"fired", "cleared"} => ~Called(t)]_vars

\* One poll calls a timer once, whatever its callback sets, clears or awaits:
\* "one fire per poll, no catch-up burst".
OncePerPoll == [][\A t \in Timer : Called(t) => t \notin Top.seen]_vars

\* A poll leaves no timer due behind, so its bound on the number of callbacks
\* never cuts one off and the loop's sleep is never for a time already over.
NoneLeftDue == NoPoll => \A i \in InUse : table[i].remaining >= 1

\* The array on the root holds every callback that can still be called, and
\* between polls no other.
AnchoredWhileArmed ==
  /\ {table[i].k : i \in InUse} \subseteq anchored
  /\ NoPoll => anchored = {table[i].k : i \in InUse}

\* The table, and the array on the root that keeps its callbacks, are sound.
TableSound == TypeOK /\ NoneLeftDue /\ AnchoredWhileArmed

\* A timer is called no earlier than its delay after the last poll before it
\* was set: an elapsed time is charged once.
NotBeforeItsTime ==
  [][\A i \in InUse : Called(table[i].k) => table[i].lived >= table[i].period]_vars

\* A timer is called while it is armed, once by a poll, and not early.
CalledLawfully == EndedStaysEnded /\ OncePerPoll /\ NotBeforeItsTime

\* A timer that is neither cleared nor silenced by an error that a callback
\* left in flight is called, an interval again and again.
ArmedRuns ==
  \A t \in Timer, b \in BOOLEAN :
    (fate[t] = "armed" /\ beat[t] = b) ~> (fate[t] # "armed" \/ beat[t] # b \/ err)
=============================================================================
