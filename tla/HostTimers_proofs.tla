-------------------------- MODULE HostTimers_proofs --------------------------
(***************************************************************************)
(* The host's timers, for every size of the table, every clock and every   *)
(* script: the table and the anchored array are sound, and timers are      *)
(* called lawfully.  None of it is inductive alone.  While a poll calls    *)
(* back, timers are due; a callback may poll the table from inside, which  *)
(* makes more of them due, and returns to a poll that counts its own       *)
(* calls.  What carries the proof is that only the innermost poll ever     *)
(* finds timers due, that it has calls left for them all because the table *)
(* is no larger than the bound on the calls, and that it has called none   *)
(* of them.                                                                *)
(***************************************************************************)
EXTENDS HostTimers, SequenceTheorems, FiniteSetTheorems, WellFoundedInduction,
  TLAPS

\* main and the loop are at the bottom of the stack.
Stacked == \A p \in DOMAIN ctl : p > 1 => ctl[p].k \notin {"main", "drain"}

\* Every slot in use holds a timer of its own that is armed.
SlotsApart ==
  /\ \A i \in InUse : table[i].k <= made /\ fate[table[i].k] = "armed"
  /\ \A i, j \in InUse : table[i].k = table[j].k => i = j

\* What a timer was charged is time that passed.
ChargedOnce ==
  /\ ~synced => since = 0
  /\ \A i \in InUse :
       /\ table[i].period >= 1
       /\ table[i].lived - since >= table[i].period - table[i].remaining

\* Only the innermost poll finds timers that are due: it has not called them
\* and has calls left for them all.
IsInnermost(p) == /\ p \in DOMAIN ctl /\ ctl[p].k = "poll"
                  /\ \A q \in DOMAIN ctl : ctl[q].k = "poll" => q <= p
DueServed ==
  /\ NoPoll => Due = {}
  /\ \A p \in DOMAIN ctl : IsInnermost(p) =>
       /\ Cardinality(Due) <= ctl[p].left
       /\ \A i \in Due : table[i].k \notin ctl[p].seen

IInv == TypeOK /\ Stacked /\ SlotsApart /\ ChargedOnce /\ DueServed
                  /\ AnchoredWhileArmed
----------------------------------------------------------------------------
(* Looking at the table and at the stack. *)

\* A nonempty set of slots has a lowest one.
LEMMA LowestExists ==
  ASSUME NEW X \in SUBSET Slots, X # {}
  PROVE  Lowest(X) \in X
<1>1. X \in SUBSET Nat
  BY HostAssumption DEF Slots
<1>2. \E i \in X : \A j \in X : <<j, i>> \notin OpToRel(<, Nat)
  BY <1>1, NatLessThanWellFounded, WFMin
<1>3. \E i \in X : \A j \in X : i <= j
  <2>1. PICK i \in X : \A j \in X : <<j, i>> \notin OpToRel(<, Nat)
    BY <1>2
  <2>2. \A j \in X : ~ (j < i)
    BY <1>1, <2>1 DEF OpToRel
  <2> QED
    BY <1>1, <2>2
<1> QED
  BY <1>3, Zenon DEF Lowest

\* A slot in use holds a timer.
LEMMA InUseType ==
  ASSUME TypeOK, NEW i \in InUse
  PROVE  /\ i \in Slots /\ table[i] \in Armed
         /\ table[i].k \in Timer /\ table[i].id \in 1 .. IntMax
         /\ table[i].period \in Nat /\ table[i].remaining \in Int
         /\ table[i].repeat \in BOOLEAN /\ table[i].lived \in Nat
<1>1. i \in Slots /\ table[i] \in Armed
  BY DEF TypeOK, InUse
<1> QED
  BY <1>1 DEF Armed

LEMMA ArmedIsNotFree ==
  ASSUME NEW r \in Armed
  PROVE  r # Free
BY DEF Armed, Free, Timer

\* A stack that something runs on.
LEMMA StackType ==
  ASSUME TypeOK, ctl # <<>>
  PROVE  /\ Len(ctl) \in Nat \ {0} /\ DOMAIN ctl = 1 .. Len(ctl)
         /\ Top \in Activation /\ Top.k = ctl[Len(ctl)].k
         /\ Below \in Seq(Activation) /\ Len(Below) = Len(ctl) - 1
         /\ DOMAIN Below = 1 .. Len(ctl) - 1
         /\ \A p \in 1 .. Len(ctl) - 1 : Below[p] = ctl[p]
<1>1. Len(ctl) \in Nat \ {0} /\ DOMAIN ctl = 1 .. Len(ctl)
  BY EmptySeq, LenProperties DEF TypeOK
<1>2. \A p \in 1 .. Len(ctl) : ctl[p] \in Activation
  BY ElementOfSeq DEF TypeOK
<1>3. /\ Below \in Seq(Activation) /\ Len(Below) = Len(ctl) - 1
      /\ \A p \in 1 .. Len(ctl) - 1 : Below[p] = ctl[p]
  BY <1>1, <1>2, SubSeqProperties DEF Below
<1> QED
  BY <1>1, <1>2, <1>3, LenProperties DEF Top

LEMMA PushedType ==
  ASSUME NEW S \in Seq(Activation), NEW a \in Activation
  PROVE  /\ Append(S, a) \in Seq(Activation)
         /\ Len(Append(S, a)) = Len(S) + 1
         /\ DOMAIN Append(S, a) = 1 .. Len(S) + 1
         /\ \A p \in 1 .. Len(S) : Append(S, a)[p] = S[p]
         /\ Append(S, a)[Len(S) + 1] = a
BY AppendProperties, LenProperties

LEMMA SlotsFinite == IsFiniteSet(Slots) /\ Cardinality(Slots) = TableSize
BY HostAssumption, FS_Interval DEF Slots

\* What is due is a finite set of slots in use.
LEMMA DueType ==
  ASSUME TypeOK
  PROVE  /\ Due \subseteq InUse /\ InUse \subseteq Slots
         /\ IsFiniteSet(Due) /\ Cardinality(Due) \in Nat
         /\ Cardinality(Due) <= TableSize
<1>1. Due \subseteq InUse /\ InUse \subseteq Slots
  BY DEF Due, InUse
<1>2. IsFiniteSet(Slots) /\ Cardinality(Slots) = TableSize
  BY SlotsFinite
<1>3. IsFiniteSet(Due) /\ Cardinality(Due) <= TableSize
  BY <1>1, <1>2, FS_Subset
<1> QED
  BY <1>1, <1>3, FS_CardinalityType

----------------------------------------------------------------------------
(* What steps have in common. *)

\* The polls on the stack are the same, call for call.
SamePolls ==
  /\ \A p \in DOMAIN ctl : ctl[p].k = "poll" => p \in DOMAIN ctl' /\ ctl'[p] = ctl[p]
  /\ \A p \in DOMAIN ctl' : ctl'[p].k = "poll" => p \in DOMAIN ctl /\ ctl[p].k = "poll"

\* No timer becomes due, and those that stay due stay where they are.
NoneNewlyDue ==
  Due' \subseteq Due /\ \A i \in Due' : table'[i].k = table[i].k

LEMMA DueServedKept ==
  ASSUME TypeOK, DueServed, SamePolls, NoneNewlyDue
  PROVE  DueServed' /\ NoPoll' = NoPoll
<1>1. NoPoll' = NoPoll
  BY DEF NoPoll, SamePolls
<1>2. Cardinality(Due') \in Nat /\ Cardinality(Due') <= Cardinality(Due)
  BY DueType, FS_Subset, FS_CardinalityType DEF NoneNewlyDue
<1>3. ASSUME NEW p \in DOMAIN ctl', IsInnermost(p)'
      PROVE  Cardinality(Due') <= ctl'[p].left
             /\ \A i \in Due' : table'[i].k \notin ctl'[p].seen
  <2>1. IsInnermost(p) /\ ctl'[p] = ctl[p]
    BY <1>3 DEF IsInnermost, SamePolls
  <2>2. p \in DOMAIN ctl /\ ctl[p] \in Activation
    BY <2>1, ElementOfSeq, LenProperties DEF IsInnermost, TypeOK
  <2>3. ctl[p].left \in Nat
    BY <2>2 DEF Activation
  <2> QED
    BY <2>1, <2>2, <2>3, <1>2, DueType DEF DueServed, NoneNewlyDue
<1>4. NoPoll' => Due' = {}
  BY <1>1, Zenon DEF DueServed, NoneNewlyDue
<1> QED
  BY <1>1, <1>3, <1>4, Zenon DEF DueServed

----------------------------------------------------------------------------
(* One lemma per action. *)

LEMMA InitIInv == Init => IInv
<1> SUFFICES ASSUME Init PROVE IInv
  OBVIOUS
<1> DEFINE a == Active("main", 1)
<1>1. a \in Activation /\ a.k = "main"
  BY DEF Active, Activation, ScriptKinds
<1>2. ctl \in Seq(Activation) /\ Len(ctl) = 1 /\ DOMAIN ctl = {1} /\ ctl[1].k = "main"
  <2>1. ctl = <<a>>
    BY DEF Init
  <2> HIDE DEF a
  <2>2. ctl = Append(<<>>, a)
    BY <2>1
  <2>3. ctl \in Seq(Activation) /\ Len(ctl) = 1 /\ ctl[1] = a
    BY <1>1, <2>2, AppendProperties, EmptySeq
  <2> QED
    BY <1>1, <2>3, LenProperties
<1>3. TypeOK
  <2>1. /\ table \in [Slots -> Armed \cup {Free}] /\ nextId = 0
        /\ synced \in BOOLEAN /\ since = 0 /\ anchored = {}
        /\ err \in BOOLEAN /\ made = 0
        /\ fate \in [Timer -> {"unset", "armed", "fired", "cleared"}]
        /\ beat \in [Timer -> BOOLEAN]
    BY DEF Init
  <2> QED
    BY <1>2, <2>1, HostAssumption DEF TypeOK
<1>4. InUse = {} /\ Due = {}
  BY DEF Init, InUse, Due
<1>5. Stacked /\ NoPoll
  BY <1>2 DEF Stacked, NoPoll
<1>6. DueServed
  BY <1>2, <1>4 DEF DueServed, IsInnermost
<1> QED
  BY <1>3, <1>4, <1>5, <1>6 DEF IInv, Init, SlotsApart, ChargedOnce, AnchoredWhileArmed

LEMMA SetIInv ==
  ASSUME IInv, made < MaxTimers, UNCHANGED <<clockVars, ctl, err>>,
         NEW ms \in Nat, NEW repeat \in BOOLEAN, Set(ms, repeat)
  PROVE  IInv'
<1> DEFINE i == Lowest(Slots \ InUse)
           r == [k |-> made + 1, id |-> NewId, period |-> Period(ms),
                 remaining |-> Period(ms), repeat |-> repeat, lived |-> since]
<1>0. TypeOK /\ Stacked /\ SlotsApart /\ ChargedOnce /\ DueServed /\ AnchoredWhileArmed
  BY DEF IInv
<1>1. i \in Slots /\ table[i] = Free
  BY LowestExists DEF Set, InUse
<1>2. table' = [table EXCEPT ![i] = r]
  BY DEF Set
<1> HIDE DEF i
<1>3. /\ made + 1 \in Timer /\ NewId \in 1 .. IntMax
      /\ Period(ms) \in Nat /\ Period(ms) >= 1 /\ since \in Nat
  BY <1>0, HostAssumption DEF TypeOK, Timer, NewId, Period
<1>4. r \in Armed /\ r # Free
  <2>1. r \in Armed
    BY <1>3 DEF Armed
  <2> QED
    BY <2>1, ArmedIsNotFree
<1>5. r.k = made + 1 /\ r.period = Period(ms) /\ r.remaining = Period(ms) /\ r.lived = since
  OBVIOUS
<1> HIDE DEF r
<1>6. /\ table' \in [Slots -> Armed \cup {Free}]
      /\ table'[i] = r /\ \A j \in Slots \ {i} : table'[j] = table[j]
  BY <1>0, <1>1, <1>2, <1>4 DEF TypeOK
<1>7. InUse' = InUse \cup {i} /\ i \notin InUse
  BY <1>1, <1>4, <1>6 DEF InUse
<1>8. \A j \in InUse : j # i /\ table'[j] = table[j] /\ j \in Slots
  BY <1>6, <1>7 DEF InUse
<1>9. fate' = [fate EXCEPT ![made + 1] = "armed"] /\ made' = made + 1
      /\ nextId' = NewId /\ anchored' = Reanchored(table') /\ beat' = beat
      /\ synced' = synced /\ since' = since /\ ctl' = ctl /\ err' = err
  BY DEF Set, clockVars
<1>10. anchored' = {table'[j].k : j \in InUse'}
  BY <1>9 DEF Reanchored, InUse
<1>11. \A j \in InUse' : table'[j] \in Armed
  BY <1>6 DEF InUse
<1>12. TypeOK'
  <2>1. anchored' \subseteq Timer
    BY <1>10, <1>11 DEF Armed
  <2>2. fate' \in [Timer -> {"unset", "armed", "fired", "cleared"}]
    BY <1>0, <1>9 DEF TypeOK
  <2>3. made' \in 0 .. MaxTimers /\ nextId' \in 0 .. IntMax
    BY <1>0, <1>3, <1>9, HostAssumption DEF TypeOK
  <2> QED
    BY <1>0, <1>6, <1>9, <2>1, <2>2, <2>3 DEF TypeOK
<1>13. SlotsApart'
  <2>1. ASSUME NEW j \in InUse
        PROVE  /\ table'[j].k = table[j].k /\ table[j].k \in Timer /\ table[j].k <= made
               /\ table[j].k # made + 1 /\ fate'[table[j].k] = "armed"
    BY <1>0, <1>8, <1>9, InUseType DEF SlotsApart, TypeOK, Timer
  <2>2. table'[i].k = made + 1 /\ fate'[made + 1] = "armed"
    BY <1>0, <1>3, <1>5, <1>6, <1>9 DEF TypeOK
  <2>3. \A j \in InUse' : table'[j].k <= made' /\ fate'[table'[j].k] = "armed"
    BY SMTT(60), <1>0, <1>7, <1>9, <2>1, <2>2, HostAssumption DEF TypeOK, Timer
  <2>4. \A j, l \in InUse' : table'[j].k = table'[l].k => j = l
    BY <1>0, <1>7, <2>1, <2>2 DEF SlotsApart
  <2> QED
    BY <2>3, <2>4 DEF SlotsApart
<1>14. ChargedOnce'
  BY <1>0, <1>3, <1>5, <1>6, <1>7, <1>8, <1>9 DEF ChargedOnce
<1>15. SamePolls /\ NoneNewlyDue
  <2>1. Due' \subseteq Due
    BY <1>3, <1>5, <1>6, <1>7, <1>8 DEF Due
  <2> QED
    BY <1>8, <1>9, <2>1 DEF SamePolls, NoneNewlyDue, Due
<1>16. DueServed' /\ NoPoll' = NoPoll
  BY <1>0, <1>15, DueServedKept
<1> QED
  BY <1>0, <1>9, <1>10, <1>12, <1>13, <1>14, <1>16
  DEF IInv, Stacked, AnchoredWhileArmed

LEMMA SetTimerIInv ==
  ASSUME IInv, SetTimer \/ SetImmediate
  PROVE  IInv'
<1>1. CASE SetTimer
  <2>1. PICK ms \in Delays, repeat \in BOOLEAN : Set(ms, repeat)
    BY <1>1 DEF SetTimer
  <2>2. ms \in Nat
    BY HostAssumption
  <2> QED
    BY <1>1, <2>1, <2>2, SetIInv DEF SetTimer
<1>2. CASE SetImmediate
  BY <1>2, SetIInv DEF SetImmediate
<1> QED
  BY <1>1, <1>2

LEMMA ClearTimerIInv ==
  ASSUME IInv, ClearTimer
  PROVE  IInv'
<1>0. TypeOK /\ Stacked /\ SlotsApart /\ ChargedOnce /\ DueServed /\ AnchoredWhileArmed
  BY DEF IInv
<1>1. PICK id \in {table[i].id : i \in InUse} :
        /\ table' = [i \in Slots |-> IF i \in Cleared(id) THEN Free ELSE table[i]]
        /\ fate' = [t \in Timer |->
             IF \E i \in InUse : table[i].k = t /\ table[i].id = id
             THEN "cleared" ELSE fate[t]]
  BY DEF ClearTimer
<1>2. /\ nextId' = nextId /\ made' = made /\ beat' = beat /\ ctl' = ctl /\ err' = err
      /\ synced' = synced /\ since' = since /\ anchored' = Reanchored(table')
  BY DEF ClearTimer, clockVars
<1>3. table' \in [Slots -> Armed \cup {Free}]
  BY <1>0, <1>1 DEF TypeOK
<1>4. /\ InUse' = InUse \ Cleared(id)
      /\ \A i \in InUse' : table'[i] = table[i] /\ i \in InUse
  BY <1>1 DEF InUse, Cleared
<1>5. anchored' = {table'[j].k : j \in InUse'}
  BY <1>2 DEF Reanchored, InUse
<1>6. \A i \in InUse : table[i] \in Armed /\ table[i].k \in Timer
  BY <1>0, InUseType
<1>7. TypeOK'
  <2>1. anchored' \subseteq Timer
    BY <1>4, <1>5, <1>6
  <2>2. fate' \in [Timer -> {"unset", "armed", "fired", "cleared"}]
    BY <1>0, <1>1 DEF TypeOK
  <2> QED
    BY <1>0, <1>2, <1>3, <2>1, <2>2 DEF TypeOK
<1>8. SlotsApart'
  <2>1. ASSUME NEW i \in InUse'
        PROVE  fate'[table'[i].k] = "armed"
    <3>1. i \in InUse /\ i \notin Cleared(id) /\ table'[i] = table[i]
      BY <1>4
    <3>2. table[i].id # id
      BY <3>1 DEF Cleared
    <3>3. ~ \E j \in InUse : table[j].k = table[i].k /\ table[j].id = id
      BY <1>0, <3>1, <3>2 DEF SlotsApart
    <3> QED
      BY <1>0, <1>1, <1>6, <3>1, <3>3 DEF SlotsApart
  <2> QED
    BY <1>0, <1>2, <1>4, <2>1 DEF SlotsApart
<1>9. ChargedOnce'
  BY <1>0, <1>2, <1>4 DEF ChargedOnce
<1>10. SamePolls /\ NoneNewlyDue
  BY <1>2, <1>4 DEF SamePolls, NoneNewlyDue, Due
<1>11. DueServed' /\ NoPoll' = NoPoll
  BY <1>0, <1>10, DueServedKept
<1> QED
  BY <1>0, <1>2, <1>5, <1>7, <1>8, <1>9, <1>11 DEF IInv, Stacked, AnchoredWhileArmed

\* A stack whose top was replaced, by an activation of the same kind and calls,
\* and pushed on or left; the table is what it was.
LEMMA TopReplaced ==
  ASSUME TypeOK, ctl # <<>>, NEW a \in Activation
  PROVE  LET S == Append(Below, a)
         IN  /\ S \in Seq(Activation) /\ Len(S) = Len(ctl)
             /\ DOMAIN S = 1 .. Len(ctl) /\ DOMAIN ctl = 1 .. Len(ctl)
             /\ \A p \in DOMAIN S : S[p] = IF p = Len(ctl) THEN a ELSE ctl[p]
<1> DEFINE S == Append(Below, a)
<1>1. /\ Len(ctl) \in Nat \ {0} /\ DOMAIN ctl = 1 .. Len(ctl)
      /\ Below \in Seq(Activation) /\ Len(Below) = Len(ctl) - 1
      /\ \A p \in 1 .. Len(ctl) - 1 : Below[p] = ctl[p]
  BY StackType
<1>2. /\ S \in Seq(Activation) /\ Len(S) = Len(ctl) /\ DOMAIN S = 1 .. Len(ctl)
      /\ \A p \in 1 .. Len(ctl) - 1 : S[p] = Below[p]
      /\ S[Len(ctl)] = a
  <2>1. /\ S \in Seq(Activation) /\ Len(S) = Len(Below) + 1 /\ DOMAIN S = 1 .. Len(Below) + 1
        /\ \A p \in 1 .. Len(Below) : S[p] = Below[p]
        /\ S[Len(Below) + 1] = a
    BY <1>1, PushedType
  <2>2. Len(Below) + 1 = Len(ctl)
    BY <1>1
  <2> HIDE DEF S
  <2> QED
    BY <1>1, <2>1, <2>2
<1> HIDE DEF S
<1>3. \A p \in DOMAIN S : S[p] = IF p = Len(ctl) THEN a ELSE ctl[p]
  BY <1>1, <1>2
<1> QED
  BY <1>1, <1>2, <1>3 DEF S

\* A step that leaves the table and the clock alone and keeps the polls.
LEMMA StackOnlyIInv ==
  ASSUME IInv, ctl' \in Seq(Activation), Stacked', SamePolls,
         err' \in BOOLEAN, UNCHANGED <<tableVars, clockVars>>
  PROVE  IInv'
<1>0. TypeOK /\ Stacked /\ SlotsApart /\ ChargedOnce /\ DueServed /\ AnchoredWhileArmed
  BY DEF IInv
<1>1. /\ table' = table /\ nextId' = nextId /\ anchored' = anchored /\ made' = made
      /\ fate' = fate /\ beat' = beat /\ synced' = synced /\ since' = since
  BY DEF tableVars, clockVars
<1>2. InUse' = InUse /\ Due' = Due
  BY <1>1 DEF InUse, Due
<1>3. DueServed' /\ NoPoll' = NoPoll
  BY <1>0, <1>1, <1>2, DueServedKept DEF NoneNewlyDue
<1>4. TypeOK'
  BY <1>0, <1>1 DEF TypeOK
<1>5. SlotsApart' /\ ChargedOnce' /\ AnchoredWhileArmed'
  BY <1>0, <1>1, <1>2, <1>3 DEF SlotsApart, ChargedOnce, AnchoredWhileArmed
<1> QED
  BY <1>3, <1>4, <1>5 DEF IInv

LEMMA AwaitIInv ==
  ASSUME IInv, Await
  PROVE  IInv'
<1> DEFINE a == [Top EXCEPT !.left = @ - 1]
           S == Append(Below, a)
           b == Active("await", MaxSpins)
<1>0. TypeOK /\ Stacked /\ ctl # <<>> /\ Top.k \in ScriptKinds
  BY DEF IInv, Await, InScript, Runs, ScriptKinds
<1>1. Top \in Activation /\ Top.left \in Nat \ {0}
  BY <1>0, StackType DEF Await, Activation
<1>2. a \in Activation /\ a.k = Top.k
  BY <1>1 DEF Activation
<1>3. b \in Activation /\ b.k = "await"
  BY HostAssumption DEF Active, Activation
<1>4. ctl' = S \o <<b>> /\ err' = err /\ UNCHANGED <<tableVars, clockVars>>
  BY DEF Await
<1> HIDE DEF a, b
<1>5. /\ S \in Seq(Activation) /\ Len(S) = Len(ctl)
      /\ DOMAIN S = 1 .. Len(ctl) /\ DOMAIN ctl = 1 .. Len(ctl) /\ Len(ctl) \in Nat \ {0}
      /\ \A p \in 1 .. Len(ctl) : S[p] = IF p = Len(ctl) THEN a ELSE ctl[p]
  BY <1>0, <1>2, TopReplaced, StackType
<1> HIDE DEF S
<1>6. ctl' = Append(S, b)
  BY <1>3, <1>4, <1>5, AppendIsConcat
<1> DEFINE n == Len(ctl)
<1>7. /\ ctl' \in Seq(Activation) /\ DOMAIN ctl' = 1 .. n + 1
      /\ \A p \in 1 .. n : ctl'[p] = S[p]
      /\ ctl'[n + 1] = b
  <2>1. /\ ctl' \in Seq(Activation) /\ DOMAIN ctl' = 1 .. Len(S) + 1
        /\ \A p \in 1 .. Len(S) : ctl'[p] = S[p]
        /\ ctl'[Len(S) + 1] = b
    BY <1>3, <1>5, <1>6, PushedType
  <2>2. Len(S) = n
    BY <1>5
  <2> HIDE DEF n
  <2> QED
    BY <2>1, <2>2
<1>8. /\ n \in Nat \ {0} /\ DOMAIN ctl = 1 .. n
      /\ \A p \in 1 .. n - 1 : ctl'[p] = ctl[p]
      /\ ctl'[n].k = ctl[n].k /\ ctl[n].k \in {"main", "callback"}
      /\ ctl'[n + 1].k = "await"
  <2>1. ctl[n].k = Top.k
    BY <1>0, StackType
  <2>2. n \in Nat \ {0} /\ DOMAIN ctl = 1 .. n
        /\ \A p \in 1 .. n : S[p] = IF p = n THEN a ELSE ctl[p]
    BY <1>5
  <2> HIDE DEF n
  <2>3. \A p \in 1 .. n - 1 : ctl'[p] = ctl[p]
    BY <2>2, <1>7
  <2>4. ctl'[n] = a
    BY <2>2, <1>7
  <2> QED
    BY <1>0, <1>2, <1>3, <1>7, <2>1, <2>2, <2>3, <2>4 DEF ScriptKinds
<1> HIDE DEF n
<1>9. Stacked'
  BY <1>0, <1>7, <1>8 DEF Stacked
<1>10. SamePolls
  BY <1>7, <1>8 DEF SamePolls
<1>11. err' \in BOOLEAN
  BY <1>0, <1>4 DEF TypeOK
<1> QED
  BY <1>4, <1>7, <1>9, <1>10, <1>11, StackOnlyIInv

\* What is not a poll returns.
LEMMA ReturnIInv ==
  ASSUME IInv, ctl # <<>>, Top.k # "poll", ctl' = Below, err' \in BOOLEAN,
         UNCHANGED <<tableVars, clockVars>>
  PROVE  IInv'
<1>0. TypeOK /\ Stacked
  BY DEF IInv
<1>1. /\ ctl' \in Seq(Activation) /\ DOMAIN ctl' = 1 .. Len(ctl) - 1
      /\ DOMAIN ctl = 1 .. Len(ctl) /\ Len(ctl) \in Nat \ {0}
      /\ \A p \in 1 .. Len(ctl) - 1 : ctl'[p] = ctl[p]
      /\ ctl[Len(ctl)].k # "poll"
  BY <1>0, StackType
<1>2. Stacked' /\ SamePolls
  BY <1>0, <1>1 DEF Stacked, SamePolls
<1> QED
  BY <1>1, <1>2, StackOnlyIInv

LEMMA AwaitEndIInv ==
  ASSUME IInv, AwaitEnd \/ CallbackEnd \/ CallbackThrow
  PROVE  IInv'
<1>1. ctl # <<>> /\ Top.k # "poll" /\ ctl' = Below /\ UNCHANGED <<tableVars, clockVars>>
  BY DEF AwaitEnd, CallbackEnd, CallbackThrow, Runs
<1>2. err' \in BOOLEAN
  BY DEF AwaitEnd, CallbackEnd, CallbackThrow, IInv, TypeOK
<1> QED
  BY <1>1, <1>2, ReturnIInv

LEMMA CatchErrorIInv ==
  ASSUME IInv, CatchError
  PROVE  IInv'
<1>1. ctl' = ctl /\ err' \in BOOLEAN /\ UNCHANGED <<tableVars, clockVars>>
  BY DEF CatchError
<1>2. ctl' \in Seq(Activation) /\ Stacked' /\ SamePolls
  BY <1>1 DEF IInv, TypeOK, Stacked, SamePolls
<1> QED
  BY <1>1, <1>2, StackOnlyIInv

\* The script and the loop run on an otherwise empty stack.
LEMMA BottomAlone ==
  ASSUME TypeOK, Stacked, Runs("main") \/ Runs("drain")
  PROVE  Len(ctl) = 1 /\ DOMAIN ctl = {1} /\ ctl[1].k \in {"main", "drain"}
<1>1. ctl # <<>> /\ Top.k \in {"main", "drain"}
  BY DEF Runs
<1>2. /\ Len(ctl) \in Nat \ {0} /\ DOMAIN ctl = 1 .. Len(ctl)
      /\ ctl[Len(ctl)].k \in {"main", "drain"}
  BY <1>1, StackType
<1>3. ~ (Len(ctl) > 1)
  BY <1>2 DEF Stacked
<1> QED
  BY <1>2, <1>3

LEMMA MainEndIInv ==
  ASSUME IInv, MainEnd \/ DrainEnd
  PROVE  IInv'
<1> DEFINE a == Active("drain", 0)
<1>0. TypeOK /\ Stacked /\ Len(ctl) = 1 /\ DOMAIN ctl = {1} /\ ctl[1].k \in {"main", "drain"}
  BY BottomAlone DEF IInv, MainEnd, DrainEnd
<1>1. UNCHANGED <<tableVars, clockVars>> /\ err' \in BOOLEAN
  BY <1>0 DEF MainEnd, DrainEnd, TypeOK
<1>2. a \in Activation /\ a.k = "drain"
  BY DEF Active, Activation
<1>3. ctl' = <<>> \/ ctl' = <<a>>
  BY DEF MainEnd, DrainEnd
<1> HIDE DEF a
<1>4. /\ ctl' \in Seq(Activation)
      /\ \A p \in DOMAIN ctl' : p = 1 /\ ctl'[p].k = "drain"
  <2>1. CASE ctl' = <<>>
    BY <2>1
  <2>2. CASE ctl' = <<a>>
    <3>1. ctl' = Append(<<>>, a)
      BY <2>2
    <3>2. ctl' \in Seq(Activation) /\ DOMAIN ctl' = 1 .. 1 /\ ctl'[1] = a
      BY <1>2, <3>1, PushedType, EmptySeq
    <3> QED
      BY <1>2, <3>2
  <2> QED
    BY <1>3, <2>1, <2>2
<1>5. Stacked' /\ SamePolls
  BY <1>0, <1>4 DEF Stacked, SamePolls
<1> QED
  BY <1>1, <1>4, <1>5, StackOnlyIInv

\* The table after the elapsed time was charged, or passed: the same timers in
\* the same slots.
LEMMA SameTimers ==
  ASSUME TypeOK, table' \in [Slots -> Armed \cup {Free}],
         \A i \in Slots : table[i] = Free <=> table'[i] = Free,
         \A i \in InUse : table'[i].k = table[i].k,
         anchored' = anchored, made' = made, fate' = fate
  PROVE  /\ InUse' = InUse
         /\ SlotsApart => SlotsApart'
         /\ {table'[i].k : i \in InUse'} = {table[i].k : i \in InUse}
<1>1. InUse' = InUse
  BY DEF InUse
<1>2. SlotsApart => SlotsApart'
  BY <1>1 DEF SlotsApart
<1>3. {table'[i].k : i \in InUse'} = {table[i].k : i \in InUse}
  BY <1>1
<1> QED
  BY <1>1, <1>2, <1>3

\* A poll that is called with the stack S: the one that runs, with the calls
\* of the caller counted.
LEMMA PollIInv ==
  ASSUME IInv, NEW S \in Seq(Activation), Poll(S), DOMAIN S = DOMAIN ctl,
         \A p \in DOMAIN ctl : S[p].k = ctl[p].k /\ (ctl[p].k = "poll" => S[p] = ctl[p])
  PROVE  IInv'
<1> DEFINE a == Active("poll", PollLimit)
           n == Len(S)
<1>0. TypeOK /\ Stacked /\ SlotsApart /\ ChargedOnce /\ DueServed /\ AnchoredWhileArmed
  BY DEF IInv
<1>1. /\ synced' = TRUE /\ since' = 0 /\ nextId' = nextId /\ anchored' = anchored
      /\ made' = made /\ fate' = fate /\ beat' = beat /\ err' = err
  BY DEF Poll
<1>2. n \in Nat /\ DOMAIN S = 1 .. n /\ DOMAIN ctl = 1 .. n
  BY LenProperties
<1> HIDE DEF n
<1>3. CASE since = 0 /\ ctl' = S /\ table' = table
  <2>1. InUse' = InUse /\ Due' = Due
    BY <1>3 DEF InUse, Due
  <2>2. SamePolls /\ Stacked'
    BY <1>0, <1>2, <1>3 DEF SamePolls, Stacked
  <2>3. DueServed' /\ NoPoll' = NoPoll
    BY <1>0, <1>3, <2>1, <2>2, DueServedKept DEF NoneNewlyDue
  <2>4. TypeOK'
    BY <1>0, <1>1, <1>3, HostAssumption DEF TypeOK
  <2>5. SlotsApart' /\ ChargedOnce' /\ AnchoredWhileArmed'
    BY <1>0, <1>1, <1>3, <2>1, <2>3 DEF SlotsApart, ChargedOnce, AnchoredWhileArmed
  <2> QED
    BY <2>2, <2>3, <2>4, <2>5 DEF IInv
<1>4. CASE table' = Charged(since) /\ ctl' = Append(S, a)
  <2>1. a \in Activation /\ a.k = "poll" /\ a.left = PollLimit /\ a.seen = {}
    BY HostAssumption DEF Active, Activation
  <2> HIDE DEF a
  <2>2. /\ ctl' \in Seq(Activation) /\ DOMAIN ctl' = 1 .. n + 1
        /\ \A p \in 1 .. n : ctl'[p] = S[p]
        /\ ctl'[n + 1] = a
    BY <1>4, <2>1, PushedType DEF n
  <2>3. since \in Nat
    BY <1>0, HostAssumption DEF TypeOK
  <2>4. \A i \in Slots : table[i] # Free => table[i] \in Armed
    BY <1>0 DEF TypeOK
  <2>5. ASSUME NEW i \in Slots, table[i] # Free
        PROVE  /\ table'[i] \in Armed /\ table'[i] # Free
               /\ table'[i].k = table[i].k /\ table'[i].period = table[i].period
               /\ table'[i].lived = table[i].lived
               /\ table'[i].remaining = table[i].remaining - since
    <3>1. table'[i] = [table[i] EXCEPT !.remaining = @ - since] /\ table[i] \in Armed
      BY <1>4, <2>4, <2>5 DEF Charged
    <3>2. table'[i] \in Armed
      <4> DEFINE d == table[i].remaining - since
      <4>1. d \in Int /\ table'[i] = [table[i] EXCEPT !.remaining = d]
        BY <2>3, <3>1 DEF Armed
      <4> HIDE DEF d
      <4> QED
        BY <3>1, <4>1 DEF Armed
    <3> QED
      <4>1. table'[i] # Free
        BY <3>2, ArmedIsNotFree
      <4>2. /\ table'[i].k = table[i].k /\ table'[i].period = table[i].period
            /\ table'[i].lived = table[i].lived
        BY <3>1 DEF Armed
      <4>3. table'[i].remaining = table[i].remaining - since
        BY <3>1 DEF Armed
      <4> QED
        BY <3>2, <4>1, <4>2, <4>3
  <2>6. \A i \in Slots : table[i] = Free => table'[i] = Free
    BY <1>4 DEF Charged
  <2>7. table' \in [Slots -> Armed \cup {Free}]
    <3>1. DOMAIN table' = Slots /\ table' = [i \in Slots |-> table'[i]]
      BY <1>4 DEF Charged
    <3> QED
      BY <2>5, <2>6, <3>1
  <2>8. /\ InUse' = InUse /\ SlotsApart'
        /\ {table'[i].k : i \in InUse'} = {table[i].k : i \in InUse}
    BY <1>0, <1>1, <2>5, <2>6, <2>7, SameTimers DEF InUse
  <2>9. TypeOK'
    BY <1>0, <1>1, <2>2, <2>7, HostAssumption DEF TypeOK
  <2>10. Stacked'
    BY <1>0, <1>2, <2>1, <2>2 DEF Stacked
  <2>11. ChargedOnce'
    <3>1. ASSUME NEW i \in InUse
          PROVE  table'[i].period >= 1
                 /\ table'[i].lived - 0 >= table'[i].period - table'[i].remaining
      <4>1. i \in Slots /\ table[i] # Free
        BY DEF InUse
      <4>2. /\ table[i].period \in Nat /\ table[i].remaining \in Int
            /\ table[i].lived \in Nat
        BY <1>0, InUseType
      <4> QED
        BY SMTT(60), <1>0, <2>3, <2>5, <4>1, <4>2 DEF ChargedOnce
    <3> QED
      BY <1>1, <2>8, <3>1 DEF ChargedOnce
  <2>12. Cardinality(Due') <= PollLimit
    <3>1. IsFiniteSet(Slots) /\ Cardinality(Slots) = TableSize
      BY SlotsFinite
    <3>2. Due' \subseteq Slots
      BY DEF Due, InUse
    <3>3. Cardinality(Due') \in Nat /\ Cardinality(Due') <= TableSize
      BY <3>1, <3>2, FS_Subset, FS_CardinalityType
    <3> QED
      BY <3>3, HostAssumption
  <2>13. ~ NoPoll'
    BY <1>2, <2>1, <2>2 DEF NoPoll
  <2>14. \A p \in DOMAIN ctl' : IsInnermost(p)' => ctl'[p] = a
    BY <1>2, <2>1, <2>2 DEF IsInnermost
  <2>15. DueServed'
    BY <2>1, <2>12, <2>13, <2>14 DEF DueServed
  <2>16. AnchoredWhileArmed'
    BY <1>0, <1>1, <2>8, <2>13 DEF AnchoredWhileArmed
  <2> QED
    BY <2>8, <2>9, <2>10, <2>11, <2>15, <2>16 DEF IInv
<1>5. \/ since = 0 /\ ctl' = S /\ table' = table
      \/ table' = Charged(since) /\ ctl' = Append(S, a)
  BY <1>0 DEF Poll, ChargedOnce
<1> QED
  BY <1>3, <1>4, <1>5

LEMMA AwaitTickIInv ==
  ASSUME IInv, AwaitTick
  PROVE  IInv'
<1> DEFINE a == [Top EXCEPT !.left = @ - 1]
           S == Append(Below, a)
<1>0. TypeOK /\ ctl # <<>> /\ Top.k = "await"
  BY DEF IInv, AwaitTick, Runs
<1>1. Top \in Activation /\ Top.left \in Nat \ {0} /\ ctl[Len(ctl)].k = "await"
  BY <1>0, StackType DEF AwaitTick, Activation
<1>2. a \in Activation /\ a.k = "await"
  BY <1>0, <1>1 DEF Activation
<1> HIDE DEF a
<1>3. /\ S \in Seq(Activation) /\ DOMAIN S = DOMAIN ctl
      /\ \A p \in DOMAIN ctl : S[p] = IF p = Len(ctl) THEN a ELSE ctl[p]
  BY <1>0, <1>2, TopReplaced
<1>4. Poll(S)
  BY DEF AwaitTick, a
<1> HIDE DEF S
<1>5. \A p \in DOMAIN ctl : S[p].k = ctl[p].k /\ (ctl[p].k = "poll" => S[p] = ctl[p])
  BY <1>1, <1>2, <1>3
<1> QED
  BY <1>3, <1>4, <1>5, PollIInv

LEMMA DrainPollIInv ==
  ASSUME IInv, DrainPoll
  PROVE  IInv'
BY PollIInv DEF DrainPoll, IInv, TypeOK

LEMMA TickIInv ==
  ASSUME IInv, Tick
  PROVE  IInv'
<1>0. TypeOK /\ Stacked /\ SlotsApart /\ ChargedOnce /\ DueServed /\ AnchoredWhileArmed
  BY DEF IInv
<1>1. /\ since' = since + 1 /\ synced = TRUE /\ synced' = synced /\ nextId' = nextId
      /\ anchored' = anchored /\ made' = made /\ fate' = fate /\ beat' = beat
      /\ ctl' = ctl /\ err' = err /\ since < MaxSince
  BY <1>0 DEF Tick, TypeOK
<1>2. table' = [i \in Slots |->
         IF table[i] = Free THEN Free ELSE [table[i] EXCEPT !.lived = @ + 1]]
  BY DEF Tick
<1>3. \A i \in Slots : table[i] # Free => table[i] \in Armed
  BY <1>0 DEF TypeOK
<1>4. ASSUME NEW i \in Slots, table[i] # Free
      PROVE  /\ table'[i] \in Armed /\ table'[i] # Free
             /\ table'[i].k = table[i].k /\ table'[i].period = table[i].period
             /\ table'[i].lived = table[i].lived + 1
             /\ table'[i].remaining = table[i].remaining
  <2>1. table'[i] = [table[i] EXCEPT !.lived = @ + 1] /\ table[i] \in Armed
    BY <1>2, <1>3, <1>4
  <2>2. table'[i] \in Armed
    BY <2>1 DEF Armed
  <2> QED
    BY <2>1, <2>2, ArmedIsNotFree DEF Armed
<1>5. \A i \in Slots : table[i] = Free => table'[i] = Free
  BY <1>2
<1>6. table' \in [Slots -> Armed \cup {Free}]
  <2>1. DOMAIN table' = Slots /\ table' = [i \in Slots |-> table'[i]]
    BY <1>2
  <2> QED
    BY <1>4, <1>5, <2>1
<1>7. /\ InUse' = InUse /\ SlotsApart'
      /\ {table'[i].k : i \in InUse'} = {table[i].k : i \in InUse}
  BY <1>0, <1>1, <1>4, <1>5, <1>6, SameTimers DEF InUse
<1>8. TypeOK' /\ Stacked'
  <2>1. since' \in 0 .. MaxSince
    BY <1>0, <1>1, HostAssumption DEF TypeOK
  <2> QED
    BY <1>0, <1>1, <1>6, <2>1 DEF TypeOK, Stacked
<1>9. \A i \in InUse : /\ table[i].period \in Nat /\ table[i].remaining \in Int
                       /\ table[i].lived \in Nat /\ i \in Slots /\ table[i] # Free
  BY <1>0, InUseType DEF InUse
<1>10. ChargedOnce'
  <2>1. since \in Int
    BY <1>0 DEF TypeOK
  <2>2. ASSUME NEW i \in InUse
        PROVE  /\ table'[i].period >= 1
               /\ table'[i].lived - (since + 1) >= table'[i].period - table'[i].remaining
    BY <1>0, <1>4, <1>9, <2>1 DEF ChargedOnce
  <2> QED
    BY <1>1, <1>7, <2>2 DEF ChargedOnce
<1>11. Due' = Due /\ \A i \in Due : table'[i].k = table[i].k
  BY <1>4, <1>7, <1>9 DEF Due
<1>12. DueServed' /\ NoPoll' = NoPoll
  <2>1. SamePolls /\ NoneNewlyDue
    BY <1>1, <1>11 DEF SamePolls, NoneNewlyDue
  <2> QED
    BY <1>0, <2>1, DueServedKept
<1>13. AnchoredWhileArmed'
  BY <1>0, <1>1, <1>7, <1>12 DEF AnchoredWhileArmed
<1> QED
  BY <1>7, <1>8, <1>10, <1>12, <1>13 DEF IInv

LEMMA PollEndIInv ==
  ASSUME IInv, PollEnd
  PROVE  IInv'
<1> DEFINE n == Len(ctl)
<1>0. TypeOK /\ Stacked /\ SlotsApart /\ ChargedOnce /\ DueServed /\ AnchoredWhileArmed
  BY DEF IInv
<1>1. /\ table' = table /\ nextId' = nextId /\ made' = made /\ fate' = fate
      /\ beat' = beat /\ synced' = synced /\ since' = since /\ err' = err
      /\ ctl' = Below /\ anchored' = Reanchored(table)
      /\ ctl # <<>> /\ Top.k = "poll" /\ (Top.left > 0 => Due = {})
  BY DEF PollEnd, clockVars, Polling, Runs
<1>2. /\ ctl' \in Seq(Activation) /\ DOMAIN ctl' = 1 .. n - 1
      /\ DOMAIN ctl = 1 .. n /\ n \in Nat \ {0}
      /\ \A p \in 1 .. n - 1 : ctl'[p] = ctl[p]
      /\ ctl[n].k = "poll"
  BY <1>0, <1>1, StackType
<1>3. Top = ctl[n] /\ Top \in Activation
  BY <1>0, <1>1, StackType DEF Top
<1> HIDE DEF n
<1>4. Due = {}
  <2>1. IsInnermost(n)
    BY <1>2 DEF IsInnermost
  <2>2. Cardinality(Due) <= Top.left /\ Top.left \in Nat
    BY <1>0, <1>2, <1>3, <2>1 DEF DueServed, Activation
  <2>3. CASE Top.left > 0
    BY <1>1, <2>3
  <2>4. CASE Top.left = 0
    <3>1. Cardinality(Due) = 0 /\ IsFiniteSet(Due)
      BY <1>0, <2>2, <2>4, DueType
    <3> QED
      BY <3>1, FS_EmptySet
  <2> QED
    BY <2>2, <2>3, <2>4
<1>5. InUse' = InUse /\ Due' = {}
  BY <1>1, <1>4 DEF InUse, Due
<1>6. anchored' = {table'[i].k : i \in InUse'}
  BY <1>1, <1>5 DEF Reanchored, InUse
<1>7. TypeOK' /\ Stacked'
  <2>1. anchored' \subseteq Timer
    BY <1>0, <1>1, <1>5, <1>6, InUseType
  <2> QED
    BY <1>0, <1>1, <1>2, <2>1 DEF TypeOK, Stacked
<1>8. DueServed'
  <2>1. Cardinality(Due') = 0
    BY <1>5, FS_EmptySet
  <2>2. ASSUME NEW p \in DOMAIN ctl'
        PROVE  0 <= ctl'[p].left
    <3>1. ctl'[p] \in Activation
      BY <1>2, ElementOfSeq, LenProperties
    <3> QED
      BY <3>1 DEF Activation
  <2> QED
    BY <1>5, <2>1, <2>2 DEF DueServed
<1> QED
  BY <1>0, <1>1, <1>5, <1>6, <1>7, <1>8
  DEF IInv, SlotsApart, ChargedOnce, AnchoredWhileArmed

\* What a poll has at hand when it calls a timer.
LEMMA FireContext ==
  ASSUME IInv, PollFire
  PROVE  LET i == Lowest(Due)
         IN  /\ i \in Due /\ i \in InUse /\ i \in Slots
             /\ table[i] \in Armed /\ table[i].remaining <= 0
             /\ ctl # <<>> /\ Top \in Activation /\ Top.k = "poll" /\ Top.left \in Nat \ {0}
             /\ Cardinality(Due) <= Top.left
             /\ \A j \in Due : table[j].k \notin Top.seen
<1>0. TypeOK /\ DueServed
  BY DEF IInv
<1>1. ctl # <<>> /\ Top.k = "poll" /\ Top.left > 0 /\ Due # {}
  BY DEF PollFire, Polling, Runs
<1>2. Lowest(Due) \in Due /\ Lowest(Due) \in InUse
  BY <1>0, <1>1, LowestExists, DueType
<1>3. /\ Top = ctl[Len(ctl)] /\ Top \in Activation /\ DOMAIN ctl = 1 .. Len(ctl)
      /\ Len(ctl) \in Nat \ {0}
  BY <1>0, <1>1, StackType DEF Top
<1>4. IsInnermost(Len(ctl))
  BY <1>1, <1>3 DEF IsInnermost
<1>5. Cardinality(Due) <= Top.left /\ \A j \in Due : table[j].k \notin Top.seen
  BY <1>0, <1>3, <1>4 DEF DueServed
<1>6. Top.left \in Nat
  BY <1>3 DEF Activation
<1>7. Lowest(Due) \in Slots /\ table[Lowest(Due)] \in Armed /\ table[Lowest(Due)].remaining <= 0
  BY <1>0, <1>2, InUseType DEF Due
<1> QED
  BY <1>1, <1>2, <1>3, <1>5, <1>6, <1>7

LEMMA PollFireIInv ==
  ASSUME IInv, PollFire
  PROVE  IInv'
<1> DEFINE i == Lowest(Due)
           t == table[i].k
           a == [Top EXCEPT !.left = @ - 1, !.seen = @ \cup {t}]
           P == Append(Below, a)
           b == Active("callback", 1)
           n == Len(ctl)
<1>0. TypeOK /\ Stacked /\ SlotsApart /\ ChargedOnce /\ DueServed /\ AnchoredWhileArmed
  BY DEF IInv
<1>1. /\ i \in Due /\ i \in InUse /\ i \in Slots
      /\ table[i] \in Armed /\ table[i].remaining <= 0
      /\ ctl # <<>> /\ Top \in Activation /\ Top.k = "poll" /\ Top.left \in Nat \ {0}
      /\ Cardinality(Due) <= Top.left
      /\ \A j \in Due : table[j].k \notin Top.seen
  BY FireContext
<1>2. /\ table' = [table EXCEPT ![i] = Fired(i)]
      /\ fate' = IF table[i].repeat THEN fate ELSE [fate EXCEPT ![t] = "fired"]
      /\ \/ ctl' = Append(P, b) /\ beat' = [beat EXCEPT ![t] = ~@]
         \/ ctl' = P /\ beat' = beat
      /\ nextId' = nextId /\ anchored' = anchored /\ made' = made
      /\ synced' = synced /\ since' = since /\ err' = err
  BY DEF PollFire, clockVars
<1> HIDE DEF i
<1>3. t \in Timer /\ t <= made /\ table[i].period >= 1
  BY <1>0, <1>1 DEF SlotsApart, ChargedOnce, Armed
<1>4. /\ a \in Activation /\ a.k = "poll" /\ a.left = Top.left - 1
      /\ a.seen = Top.seen \cup {t}
  <2>1. Top.seen \in SUBSET Timer
    BY <1>1 DEF Activation
  <2> DEFINE u == [Top EXCEPT !.left = Top.left - 1]
  <2>2. u \in Activation /\ u.k = Top.k /\ u.left = Top.left - 1 /\ u.seen = Top.seen
    BY <1>1 DEF Activation
  <2>3. a = [u EXCEPT !.seen = u.seen \cup {t}]
    BY <2>2
  <2> HIDE DEF u, a
  <2>4. u.seen \cup {t} \in SUBSET Timer
    BY <1>3, <2>1, <2>2
  <2> QED
    BY <1>1, <2>2, <2>3, <2>4 DEF Activation
<1>5. b \in Activation /\ b.k = "callback"
  BY DEF Active, Activation, ScriptKinds
<1> HIDE DEF a, b
<1>6. /\ P \in Seq(Activation) /\ Len(P) = n
      /\ DOMAIN P = 1 .. n /\ DOMAIN ctl = 1 .. n /\ n \in Nat \ {0}
      /\ \A p \in 1 .. n : P[p] = IF p = n THEN a ELSE ctl[p]
      /\ ctl[n].k = "poll"
  <2>1. n \in Nat \ {0} /\ ctl[n].k = "poll"
    BY <1>0, <1>1, StackType
  <2>2. /\ P \in Seq(Activation) /\ Len(P) = n
        /\ DOMAIN P = 1 .. n /\ DOMAIN ctl = 1 .. n
        /\ \A p \in DOMAIN P : P[p] = IF p = n THEN a ELSE ctl[p]
    BY <1>0, <1>1, <1>4, TopReplaced
  <2> HIDE DEF P, n
  <2> QED
    BY <2>1, <2>2
<1> HIDE DEF P, n
<1>7. /\ ctl' \in Seq(Activation) /\ 1 .. n \subseteq DOMAIN ctl'
      /\ \A p \in DOMAIN ctl' : p \in 1 .. n \/ ctl'[p] = b
      /\ \A p \in 1 .. n : ctl'[p] = IF p = n THEN a ELSE ctl[p]
  <2>1. CASE ctl' = P
    BY <1>6, <2>1
  <2>2. CASE ctl' = Append(P, b)
    <3>1. /\ ctl' \in Seq(Activation) /\ DOMAIN ctl' = 1 .. Len(P) + 1
          /\ \A p \in 1 .. Len(P) : ctl'[p] = P[p]
          /\ ctl'[Len(P) + 1] = b
      BY <1>5, <1>6, <2>2, PushedType
    <3>2. /\ DOMAIN ctl' = 1 .. n + 1
          /\ \A p \in 1 .. n : ctl'[p] = P[p]
          /\ ctl'[n + 1] = b
      BY <1>6, <3>1
    <3> QED
      BY <1>6, <3>1, <3>2
  <2> QED
    BY <1>2, <2>1, <2>2
<1>8. Fired(i) \in Armed \cup {Free}
  <2>1. CASE table[i].repeat
    <3>1. Fired(i) = [table[i] EXCEPT !.remaining = table[i].period, !.lived = since]
      BY <2>1 DEF Fired
    <3>2. since \in Nat
      BY <1>0, HostAssumption DEF TypeOK
    <3>3. Fired(i) = [k |-> table[i].k, id |-> table[i].id, period |-> table[i].period,
                      remaining |-> table[i].period, repeat |-> table[i].repeat,
                      lived |-> since]
      BY <1>1, <3>1 DEF Armed
    <3>4. /\ table[i].k \in Timer /\ table[i].id \in 1 .. IntMax
          /\ table[i].period \in Nat /\ table[i].repeat \in BOOLEAN
      BY <1>0, <1>1, InUseType
    <3> QED
      BY <3>2, <3>3, <3>4 DEF Armed
  <2> QED
    BY <2>1 DEF Fired
<1>9. Fired(i) # Free =>
        /\ table[i].repeat /\ Fired(i).k = t /\ Fired(i).period = table[i].period
        /\ Fired(i).remaining = table[i].period /\ Fired(i).lived = since
  BY <1>1 DEF Fired, Armed
<1>10. /\ table' \in [Slots -> Armed \cup {Free}]
       /\ table'[i] = Fired(i)
       /\ \A j \in Slots \ {i} : table'[j] = table[j]
  BY <1>0, <1>1, <1>2, <1>8 DEF TypeOK
<1>11. /\ InUse' \subseteq InUse
       /\ \A j \in InUse' : table'[j].k = table[j].k
       /\ i \in InUse' => Fired(i) # Free
       /\ \A j \in InUse' : j # i => table'[j] = table[j]
  <2>1. \A j \in InUse' : j \in Slots /\ table'[j] # Free
    BY DEF InUse
  <2> QED
    BY <1>1, <1>9, <1>10, <2>1 DEF InUse
<1>12. Due' = Due \ {i}
  <2>1. i \notin Due'
    BY <1>1, <1>3, <1>9, <1>10, <1>11 DEF Due, Armed
  <2>2. \A j \in Slots \ {i} : j \in Due' <=> j \in Due
    BY <1>10 DEF Due, InUse
  <2> QED
    BY <2>1, <2>2 DEF Due, InUse
<1>13. TypeOK'
  <2>1. fate' \in [Timer -> {"unset", "armed", "fired", "cleared"}]
    BY <1>0, <1>2 DEF TypeOK
  <2>2. beat' \in [Timer -> BOOLEAN]
    BY <1>0, <1>2, <1>3, Zenon DEF TypeOK
  <2> QED
    BY <1>0, <1>2, <1>7, <1>10, <2>1, <2>2 DEF TypeOK
<1>14. Stacked'
  BY <1>0, <1>5, <1>6, <1>7, <1>4 DEF Stacked
<1>15. SlotsApart'
  <2>1. ASSUME NEW j \in InUse'
        PROVE  fate'[table[j].k] = "armed" /\ table[j].k <= made
    <3>1. j \in InUse /\ fate[table[j].k] = "armed" /\ table[j].k <= made
      BY <1>0, <1>11 DEF SlotsApart
    <3>2. CASE j = i
      BY <1>2, <1>9, <1>11, <2>1, <3>1, <3>2
    <3>3. CASE j # i
      <4>1. table[j].k # t
        BY <1>0, <1>1, <3>1, <3>3 DEF SlotsApart
      <4> QED
        BY <1>0, <1>2, <3>1, <4>1 DEF TypeOK
    <3> QED
      BY <3>2, <3>3
  <2> QED
    BY <1>0, <1>2, <1>11, <2>1 DEF SlotsApart
<1>16. ChargedOnce'
  <2>1. since \in Int /\ table[i].period \in Int
    BY <1>0, <1>1 DEF TypeOK, Armed
  <2>2. ASSUME NEW j \in InUse'
        PROVE  /\ table'[j].period >= 1
               /\ table'[j].lived - since >= table'[j].period - table'[j].remaining
    BY <1>0, <1>3, <1>9, <1>10, <1>11, <2>1 DEF ChargedOnce
  <2> QED
    BY <1>0, <1>2, <2>2 DEF ChargedOnce
<1>17. ~ NoPoll'
  BY <1>4, <1>6, <1>7 DEF NoPoll
<1>18. DueServed'
  <2>1. \A p \in DOMAIN ctl' : IsInnermost(p)' => ctl'[p] = a
    BY <1>4, <1>5, <1>6, <1>7 DEF IsInnermost
  <2>2. Cardinality(Due') = Cardinality(Due) - 1 /\ Cardinality(Due) \in Nat
    BY <1>0, <1>1, <1>12, DueType, FS_RemoveElement
  <2>3. Cardinality(Due') <= a.left
    BY <1>1, <1>4, <2>2
  <2>4. \A j \in Due' : table'[j].k \notin a.seen
    <3>1. \A j \in Due' : j \in Due /\ j # i /\ j \in InUse /\ j \in InUse'
      BY <1>12 DEF Due
    <3>2. \A j \in Due' : table[j].k # t
      BY <1>0, <1>1, <3>1 DEF SlotsApart
    <3> QED
      BY <1>1, <1>4, <1>11, <3>1, <3>2
  <2> QED
    BY <1>17, <2>1, <2>3, <2>4 DEF DueServed
<1>19. AnchoredWhileArmed'
  BY <1>0, <1>2, <1>11, <1>17 DEF AnchoredWhileArmed
<1> QED
  BY <1>13, <1>14, <1>15, <1>16, <1>18, <1>19 DEF IInv

LEMMA StutterIInv ==
  ASSUME IInv, UNCHANGED vars
  PROVE  IInv'
<1>1. ctl' = ctl /\ err' = err /\ UNCHANGED <<tableVars, clockVars>>
  BY DEF vars, tableVars, clockVars
<1>2. ctl' \in Seq(Activation) /\ Stacked' /\ SamePolls /\ err' \in BOOLEAN
  BY <1>1 DEF IInv, TypeOK, Stacked, SamePolls
<1> QED
  BY <1>1, <1>2, StackOnlyIInv

LEMMA NextIInv ==
  ASSUME IInv, [Next]_vars
  PROVE  IInv'
<1>1. CASE Next
  <2>1. CASE SetTimer \/ SetImmediate
    BY <2>1, SetTimerIInv
  <2>2. CASE ClearTimer
    BY <2>2, ClearTimerIInv
  <2>3. CASE Await
    BY <2>3, AwaitIInv
  <2>4. CASE CatchError
    BY <2>4, CatchErrorIInv
  <2>5. CASE MainEnd \/ DrainEnd
    BY <2>5, MainEndIInv
  <2>6. CASE AwaitEnd \/ CallbackEnd \/ CallbackThrow
    BY <2>6, AwaitEndIInv
  <2>7. CASE AwaitTick
    BY <2>7, AwaitTickIInv
  <2>8. CASE DrainPoll
    BY <2>8, DrainPollIInv
  <2>9. CASE PollFire
    BY <2>9, PollFireIInv
  <2>10. CASE PollEnd
    BY <2>10, PollEndIInv
  <2>11. CASE Tick
    BY <2>11, TickIInv
  <2>12. CASE Exited
    BY <2>12, StutterIInv DEF Exited
  <2> QED
    BY <1>1, <2>1, <2>2, <2>3, <2>4, <2>5, <2>6, <2>7, <2>8, <2>9, <2>10, <2>11, <2>12
    DEF Next, ScriptStep, EndStep, HostStep
<1>2. CASE UNCHANGED vars
  BY <1>2, StutterIInv
<1> QED
  BY <1>1, <1>2

----------------------------------------------------------------------------
(* The theorems. *)

\* Who is called: the timer of a slot that was due, by the poll that runs.
LEMMA CalledContext ==
  ASSUME IInv, [Next]_vars, NEW t \in Timer, Called(t)
  PROVE  PollFire /\ t = table[Lowest(Due)].k
<1>1. beat' # beat
  BY DEF Called
<1>2. PollFire
  BY <1>1 DEF Next, ScriptStep, EndStep, HostStep, SetTimer, SetImmediate, Set, ClearTimer,
     Await, CatchError, MainEnd, CallbackEnd, CallbackThrow, AwaitTick, AwaitEnd, DrainPoll,
     DrainEnd, PollEnd, Tick, Exited, Poll, vars, tableVars
<1>3. beat' = [beat EXCEPT ![table[Lowest(Due)].k] = ~@] \/ beat' = beat
  BY <1>2 DEF PollFire
<1>4. t = table[Lowest(Due)].k
  BY <1>3, Zenon DEF Called, IInv, TypeOK
<1> QED
  BY <1>2, <1>4

\* Between polls no timer is due, whatever script did in the callbacks: the
\* bound on the calls of a poll cuts none off. The array on the root holds the
\* callbacks that can still be called, and between polls no other.
THEOREM TablesStaySound == Spec => []TableSound
<1>1. IInv => TableSound
  <2> SUFFICES ASSUME IInv PROVE TableSound
    OBVIOUS
  <2>1. NoPoll => \A i \in InUse : table[i].remaining >= 1
    <3> SUFFICES ASSUME NoPoll, NEW i \in InUse PROVE table[i].remaining >= 1
      OBVIOUS
    <3>1. i \notin Due /\ table[i].remaining \in Int
      BY InUseType DEF IInv, DueServed
    <3> QED
      BY <3>1 DEF Due
  <2> QED
    BY <2>1 DEF IInv, TableSound, NoneLeftDue
<1> QED
  BY <1>1, InitIInv, NextIInv, PTL DEF Spec

\* A timer is called while it is armed, at most once by each poll, and no
\* earlier than its delay after the last poll before it was set.
THEOREM CallsAreLawful == Spec => CalledLawfully
<1> DEFINE Lawful(t) ==
      Called(t) => /\ fate[t] \notin {"fired", "cleared"}
                   /\ t \notin Top.seen
                   /\ \A i \in InUse : table[i].k = t => table[i].lived >= table[i].period
<1>1. ASSUME IInv, [Next]_vars, NEW t \in Timer
      PROVE  Lawful(t)
  <2> SUFFICES ASSUME Called(t) PROVE Lawful(t)
    OBVIOUS
  <2> DEFINE i == Lowest(Due)
  <2>1. PollFire /\ t = table[i].k
    BY <1>1, CalledContext
  <2>2. /\ i \in Due /\ i \in InUse /\ table[i].remaining <= 0 /\ t \notin Top.seen
        /\ TypeOK /\ SlotsApart /\ ChargedOnce
    BY <1>1, <2>1, FireContext DEF IInv
  <2> HIDE DEF i
  <2>3. fate[t] = "armed"
    BY <2>1, <2>2 DEF SlotsApart
  <2>4. table[i].lived >= table[i].period
    <3>1. /\ table[i].remaining \in Int /\ table[i].period \in Nat
          /\ table[i].lived \in Nat /\ since \in Nat
      BY <2>2, InUseType, HostAssumption DEF TypeOK
    <3> QED
      BY <2>2, <3>1 DEF ChargedOnce
  <2>5. \A j \in InUse : table[j].k = t => j = i
    BY <2>1, <2>2 DEF SlotsApart
  <2> QED
    BY <2>2, <2>3, <2>4, <2>5
<1> HIDE DEF Lawful
<1>2. IInv /\ [Next]_vars =>
        /\ [\A t \in Timer : fate[t] \in {"fired", "cleared"} => ~Called(t)]_vars
        /\ [\A t \in Timer : Called(t) => t \notin Top.seen]_vars
        /\ [\A i \in InUse : Called(table[i].k) => table[i].lived >= table[i].period]_vars
  <2> SUFFICES ASSUME IInv, [Next]_vars
               PROVE  /\ \A t \in Timer : fate[t] \in {"fired", "cleared"} => ~Called(t)
                      /\ \A t \in Timer : Called(t) => t \notin Top.seen
                      /\ \A i \in InUse : Called(table[i].k) => table[i].lived >= table[i].period
    OBVIOUS
  <2>1. \A t \in Timer : Lawful(t)
    BY <1>1
  <2>2. \A i \in InUse : table[i].k \in Timer
    BY InUseType DEF IInv
  <2> QED
    BY <2>1, <2>2 DEF Lawful
<1> QED
  BY <1>2, InitIInv, NextIInv, PTL
  DEF Spec, CalledLawfully, EndedStaysEnded, OncePerPoll, NotBeforeItsTime

=============================================================================
