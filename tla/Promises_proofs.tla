--------------------------- MODULE Promises_proofs ---------------------------
(***************************************************************************)
(* The inductive invariant of Promises, that every step keeps it, and what *)
(* follows from it, for every script, host and number of promises.         *)
(***************************************************************************)
EXTENDS Promises, SequenceTheorems, FiniteSetTheorems, TLAPS

\* The promises that were made.
Born == 1 .. born
Final == {"FULFILLED", "REJECTED"}

----------------------------------------------------------------------------
(* The inductive invariant.  It says who may settle which promise, by two  *)
(* functions that are not part of the state.  H gives the promises that    *)
(* only one reaction or handler can settle the place of that reaction, on  *)
(* a list or on the stack.  U gives the promises that nothing but an       *)
(* executor or a race on the stack knows its place there.                  *)

OnList(q) == <<"waits", q>>
OnStack(j) == <<"stacked", j>>

OfJs(r) == r.onF.do = "js" \/ r.onR.do = "js"

\* What a reaction calls is there to be called.
Proper(r) ==
  /\ r.onR.to = r.onF.to /\ r.onR.at = r.onF.at
  /\ \/ /\ r.onF.do \in {"js", "none"} /\ r.onR.do \in {"js", "none"}
        /\ r.np \in Born /\ r.onF.to = None
     \/ /\ r.onF.do = "resolve" /\ r.onR.do = "reject" /\ r.np = None
        /\ r.onF.to \in Born
     \/ /\ r.onF.do = "kept" /\ r.onR.do = "failed" /\ r.np = None
        /\ r.onF.to \in DOMAIN agg /\ r.onF.at \in DOMAIN agg[r.onF.to].items
\* A native function settles no promise of H, and what it settles is kept; only
\* the result of a race waits on several promises.
Good(r, W) ==
  /\ r \in Reaction /\ Proper(r)
  /\ r.onF.to # None /\ state[r.onF.to] = "PENDING" => r.onF.to \in rooted
  /\ r.onF.to \notin W
  /\ OfJs(r) \/ (r.np # None /\ "race" \notin script.may) => r.np \in W
Distinct(s, W) ==
  \A i, j \in 1 .. Len(s) : s[i].np \in W /\ s[i].np = s[j].np => i = j
HeldAt(s, h, H) ==
  /\ s \in Seq(Reaction)
  /\ \A i \in 1 .. Len(s) :
       Good(s[i], DOMAIN H) /\ (s[i].np \in DOMAIN H => H[s[i].np] = h)
  /\ Distinct(s, DOMAIN H)
ReactionsGood(H) == \A q \in Promise : HeldAt(reactions[q], OnList(q), H)

Inputs(items) == \A i \in DOMAIN items : items[i] \in Promise => items[i] \in Born
Apart(items, U) == \A i \in DOMAIN items : items[i] \notin DOMAIN U
BuildsOn(a) ==
  /\ a.at \in 1 .. Len(agg[a.p].items) + 1
  /\ a.wp # None =>
       /\ a.at <= Len(agg[a.p].items) /\ agg[a.p].items[a.at] = a.wp
       /\ "adopting" \in script.may
       /\ ~script.inline /\ state[a.wp] \in Final => armed[a.wp]
RacesOver(a, U) ==
  /\ a.at >= 1 /\ Inputs(a.items) /\ Apart(a.items, U) /\ "race" \in script.may
  /\ (\E i \in DOMAIN a.items : a.items[i] = Thenable) => "adopting" \in script.may
GoodAt(a, j, H, U) ==
  /\ a \in Activation
  /\ a.k # "main" => a.p \in Born
  /\ HeldAt(a.todo, OnStack(j), H)
  /\ a.todo # <<>> => a.k = "drain"
  /\ a.k \in {"enter", "drain"} => state[a.p] \in Final /\ (script.inline \/ j = 1)
  /\ a.k = "handler" => a.p \in DOMAIN H /\ H[a.p] = OnStack(j)
  /\ a.k \in {"executor", "then", "race"} => a.p \notin DOMAIN H
  /\ a.k \in {"executor", "race"} => a.p \in DOMAIN U /\ U[a.p] = j
  /\ a.k \in {"build", "built", "release"} => a.p \in DOMAIN agg
  /\ a.k = "build" => BuildsOn(a)
  /\ a.k = "race" => RacesOver(a, U)
StackGood(H, U) == \A j \in 1 .. Len(ctl) : GoodAt(ctl[j], j, H, U)

Owners(H, U) ==
  /\ DOMAIN H \subseteq Born
  /\ \A y \in DOMAIN H : state[y] = "PENDING" /\ y \notin open /\ y \notin DOMAIN agg
  /\ DOMAIN U \subseteq Born
  /\ \A u \in DOMAIN U : u \notin known /\ u \notin DOMAIN agg /\ reactions[u] = <<>>
  /\ \A c \in DOMAIN agg : Apart(agg[c].items, U)

\* Promises are made in order, and nothing knows one that is not made.
Numbered ==
  /\ \A p \in Promise : state[p] = "UNBORN" <=> p > born
  /\ \A p \in Promise : p > born => reactions[p] = <<>>
  /\ known \subseteq Born /\ open \subseteq Born /\ rooted \subseteq Born
ScriptSound ==
  /\ script = [may |-> script.may, left |-> script.left, inline |-> script.inline]
  /\ script.inline \in BOOLEAN
QueueSettled == \A i \in 1 .. Len(queue) : state[queue[i]] \in Final

\* The inputs of an aggregation; one with a thenable will make one more promise.
AggregatesProper ==
  \A c \in DOMAIN agg :
    /\ c \in Born /\ c <= MaxPromises
    /\ "all" \in script.may
    /\ (\E i \in DOMAIN agg[c].items : agg[c].items[i] = Thenable) => "adopting" \in script.may
    /\ Len(agg[c].values) = Len(agg[c].items)
    /\ Inputs(agg[c].items)
    /\ \A i, j \in DOMAIN agg[c].items :
         agg[c].items[i] = Thenable /\ agg[c].items[j] = Thenable => i = j
Unfinished == {c \in DOMAIN agg : \E i \in DOMAIN agg[c].items : agg[c].items[i] = Thenable}
EnoughNumbers == born + Cardinality(Unfinished) <= 2 * MaxPromises

\* Inline, an input of `all` that is a thenable may settle before it is waited for.
ThenablesInline == script.inline /\ {"all", "adopting"} \subseteq script.may

\* What is on the root array, and what an armed drain is waiting for.
Rooted ==
  /\ \A p \in open \cup DOMAIN agg : state[p] = "PENDING" => p \in rooted
  /\ \A p \in Promise : reactions[p] # <<>> /\ state[p] = "PENDING" => p \in rooted
  /\ \A p \in Promise : armed[p] => p \in rooted
ArmedComes ==
  \A p \in Promise : armed[p] =>
    \/ \E i \in 1 .. Len(queue) : queue[i] = p
    \/ \E j \in 1 .. Len(ctl) : ctl[j].k = "enter" /\ ctl[j].p = p
SettledArmed ==
  ~ThenablesInline =>
  \A p \in Promise : state[p] \in Final /\ reactions[p] # <<>> => armed[p]
Runs(C, p) == \E j \in 1 .. Len(C) : C[j].k \in {"enter", "drain"} /\ C[j].p = p
Excused == "executorThrow" \in script.may \/ RacesThenables \/ ThenablesInline
RootsRun ==
  ~Excused => \A p \in rooted : state[p] = "PENDING" \/ armed[p] \/ Runs(ctl, p)
RacesAlone ==
  ~RacesThenables =>
  \A j \in 1 .. Len(ctl) : ctl[j].k = "race" => j = Len(ctl) /\ ctl[j].p \notin rooted

\* Promise.any fulfils with a thenable as it is.
ThenablesAllowed == \A p \in Promise : value[p] = Thenable => "adopting" \in script.may

Counts ==
  Numbered /\ ScriptSound /\ ThenablesAllowed /\ AggregatesProper /\ EnoughNumbers
Drains == QueueSettled /\ Rooted /\ ArmedComes /\ SettledArmed /\ RootsRun /\ RacesAlone
Base(H, U) == TypeOK /\ Counts /\ Drains /\ ReactionsGood(H) /\ Owners(H, U)
Inv(H, U) == Base(H, U) /\ StackGood(H, U)
IInv == \E H, U : Inv(H, U)

----------------------------------------------------------------------------
(* Sequences. *)

LEMMA PushedType ==
  ASSUME NEW S, NEW s \in Seq(S), NEW e \in S
  PROVE  /\ Append(s, e) \in Seq(S) /\ Append(s, e) # <<>>
         /\ Len(Append(s, e)) = Len(s) + 1 /\ Len(s) \in Nat
         /\ DOMAIN s = 1 .. Len(s) /\ DOMAIN Append(s, e) = 1 .. Len(s) + 1
         /\ \A i \in 1 .. Len(s) : Append(s, e)[i] = s[i]
         /\ Append(s, e)[Len(s) + 1] = e
BY AppendProperties, LenProperties

LEMMA TopType ==
  ASSUME NEW S, NEW F \in Seq(S), F # <<>>
  PROVE  /\ Len(F) \in Nat \ {0} /\ DOMAIN F = 1 .. Len(F)
         /\ Len(F) \in 1 .. Len(F) /\ F[Len(F)] \in S
         /\ SubSeq(F, 1, Len(F) - 1) \in Seq(S)
         /\ Len(SubSeq(F, 1, Len(F) - 1)) = Len(F) - 1
         /\ \A i \in 1 .. Len(F) - 1 : SubSeq(F, 1, Len(F) - 1)[i] = F[i]
<1>1. Len(F) \in Nat \ {0} /\ DOMAIN F = 1 .. Len(F)
  BY EmptySeq, LenProperties
<1>2. \A i \in 1 .. Len(F) : F[i] \in S
  BY ElementOfSeq
<1> QED
  BY <1>1, <1>2, SubSeqProperties

\* The running activation, and the stacks that an action goes on with.
LEMMA StackType ==
  ASSUME TypeOK, ctl # <<>>
  PROVE  /\ Len(ctl) \in Nat \ {0} /\ Top \in Activation /\ Top = ctl[Len(ctl)]
         /\ Below \in Seq(Activation) /\ Len(Below) = Len(ctl) - 1
         /\ \A i \in 1 .. Len(ctl) - 1 : Below[i] = ctl[i]
<1>1. ctl \in Seq(Activation)
  BY DEF TypeOK
<1> QED
  BY <1>1, TopType DEF Top, Below

LEMMA ReplacedType ==
  ASSUME TypeOK, ctl # <<>>, NEW a \in Activation
  PROVE  /\ Replaced(a) \in Seq(Activation) /\ Len(Replaced(a)) = Len(ctl)
         /\ Replaced(a)[Len(ctl)] = a
         /\ \A i \in 1 .. Len(ctl) - 1 : Replaced(a)[i] = ctl[i]
<1>1. /\ Len(ctl) \in Nat \ {0}
      /\ Below \in Seq(Activation) /\ Len(Below) = Len(ctl) - 1
      /\ \A i \in 1 .. Len(ctl) - 1 : Below[i] = ctl[i]
  BY StackType
<1> DEFINE B == Below
<1>2. /\ Append(B, a) \in Seq(Activation) /\ Len(Append(B, a)) = Len(B) + 1
      /\ \A i \in 1 .. Len(B) : Append(B, a)[i] = B[i]
      /\ Append(B, a)[Len(B) + 1] = a
  BY <1>1, PushedType
<1> QED
  BY <1>1, <1>2 DEF Replaced

LEMMA FreshActivation ==
  ASSUME NEW k \in {"main", "executor", "then", "handler", "enter", "drain", "build", "built",
                    "release", "race"}, NEW p \in Promise \cup {None}
  PROVE  /\ Active(k, p) \in Activation /\ Active(k, p).k = k /\ Active(k, p).p = p
         /\ Active(k, p).todo = <<>> /\ Active(k, p).at = 1 /\ Active(k, p).wp = None
         /\ Active(k, p).items = <<>>
<1>1. \A S : <<>> \in Seq(S)
  BY EmptySeq
<1> QED
  BY <1>1 DEF Active, Activation, ScriptKinds

LEMMA NatFacts ==
  ASSUME TypeOK
  PROVE  /\ born \in Nat /\ MaxPromises \in Nat /\ Promise \subseteq Nat \ {0}
         /\ Born \subseteq Promise /\ None = 0 /\ born <= 2 * MaxPromises
         /\ \A q \in Promise : q \in Born <=> q <= born
BY PromiseAssumption DEF TypeOK, Promise, None, Born

----------------------------------------------------------------------------
(* What stays as it was.                                                   *)

\* Aggregations keep their inputs; a thenable may be replaced by a promise.
AggregatesGoOn ==
  \A c \in DOMAIN agg :
    /\ c \in DOMAIN agg' /\ Len(agg'[c].items) = Len(agg[c].items)
    /\ DOMAIN agg'[c].items = DOMAIN agg[c].items
    /\ \A i \in DOMAIN agg[c].items :
         agg[c].items[i] # Thenable => agg'[c].items[i] = agg[c].items[i]

\* Promises are made and settled, roots are added, aggregations go on.
Later(U) ==
  /\ born' \in Nat /\ born <= born'
  /\ \A q \in Born : state'[q] = state[q] \/ (state[q] = "PENDING" /\ state'[q] \in Final)
  /\ \A q \in Born : q \notin DOMAIN U => state'[q] = state[q] \/ armed'[q]
  /\ rooted \subseteq rooted'
  /\ AggregatesGoOn
  /\ script'.may = script.may /\ script'.inline = script.inline

\* H2 is H, but for promises that are new or no longer of the stack.
Handed(H, H2) ==
  /\ \A y \in DOMAIN H2 : y \in DOMAIN H \/ y > born
  /\ DOMAIN H2 \subseteq Promise
Keeps(H, H2, h) == \A y \in DOMAIN H : H[y] = h => y \in DOMAIN H2 /\ H2[y] = h

LEMMA GoodStays ==
  ASSUME TypeOK, DOMAIN agg \subseteq Born, NEW H, NEW U, Later(U), NEW H2, Handed(H, H2),
         NEW r, Good(r, DOMAIN H), r.np \in DOMAIN H => r.np \in DOMAIN H2
  PROVE  Good(r, DOMAIN H2)'
<1>1. r \in Reaction /\ Proper(r)
  BY DEF Good
<1>2. Proper(r)'
  BY <1>1, NatFacts DEF Proper, Later, AggregatesGoOn, Born
<1>3. r.onF.to = None \/ r.onF.to \in Born
  BY <1>1 DEF Proper
<1>4. r.onF.to # None /\ state'[r.onF.to] = "PENDING" => r.onF.to \in rooted'
  BY <1>3 DEF Good, Later, Final
<1>5. r.onF.to \notin DOMAIN H2
  BY <1>3, NatFacts DEF Good, Handed
<1> QED
  BY <1>1, <1>2, <1>4, <1>5 DEF Good, Later

LEMMA HeldStays ==
  ASSUME TypeOK, DOMAIN agg \subseteq Born, NEW H, NEW U, Later(U), NEW H2, Handed(H, H2),
         NEW s, NEW h, HeldAt(s, h, H), Keeps(H, H2, h)
  PROVE  HeldAt(s, h, H2)'
<1>1. s \in Seq(Reaction)
  BY DEF HeldAt
<1>2. ASSUME NEW i \in 1 .. Len(s)
      PROVE  /\ Good(s[i], DOMAIN H2)' /\ (s[i].np \in DOMAIN H2 => H2[s[i].np] = h)
             /\ s[i].np \in DOMAIN H2 => s[i].np \in DOMAIN H
  <2>1. Good(s[i], DOMAIN H) /\ (s[i].np \in DOMAIN H => H[s[i].np] = h)
    BY DEF HeldAt
  <2>2. s[i].np \in Born \/ s[i].np = None
    BY <2>1 DEF Good, Proper
  <2>3. s[i].np \in DOMAIN H2 => s[i].np \in DOMAIN H
    BY <2>2, NatFacts DEF Handed
  <2>4. s[i].np \in DOMAIN H => s[i].np \in DOMAIN H2 /\ H2[s[i].np] = h
    BY <2>1 DEF Keeps
  <2>6. Good(s[i], DOMAIN H2)'
    BY <2>1, <2>4, GoodStays
  <2> QED
    BY <2>3, <2>4, <2>6
<1>3. Distinct(s, DOMAIN H2)
  BY <1>2 DEF Distinct, HeldAt
<1> QED
  BY <1>1, <1>2, <1>3 DEF HeldAt

\* An activation that stays at its place j on the stack.
LEMMA StaysAt ==
  ASSUME TypeOK, AggregatesProper, NEW H, NEW U, Later(U), NEW H2, Handed(H, H2),
         \A c \in DOMAIN agg : Apart(agg[c].items, U),
         NEW U2, Handed(U, U2),
         NEW a, NEW j, GoodAt(a, j, H, U), Keeps(H, H2, OnStack(j)), Keeps(U, U2, j),
         a.k = "build" => script.inline \/ \A q \in Promise : armed[q] => armed'[q]
  PROVE  GoodAt(a, j, H2, U2)'
<1>1. /\ a \in Activation /\ (a.k # "main" => a.p \in Born) /\ (a.todo # <<>> => a.k = "drain")
      /\ HeldAt(a.todo, OnStack(j), H)
      /\ a.k \in {"enter", "drain"} => state[a.p] \in Final /\ (script.inline \/ j = 1)
  BY DEF GoodAt
<1>2. DOMAIN agg \subseteq Born
  BY DEF AggregatesProper
<1>3. (a.k # "main" => a.p \in Born') /\ Born \subseteq Born'
  BY <1>1, NatFacts DEF Later, Born
<1>4. HeldAt(a.todo, OnStack(j), H2)'
  BY <1>1, <1>2, HeldStays
<1>5. a.k \in {"enter", "drain"} => state'[a.p] \in Final /\ (script'.inline \/ j = 1)
  BY <1>1 DEF Later, Final
<1>6. a.k = "handler" => a.p \in DOMAIN H2 /\ H2[a.p] = OnStack(j)
  BY DEF GoodAt, Keeps
<1>7. a.k \in {"executor", "then", "race"} => a.p \notin DOMAIN H2
  BY <1>1, NatFacts DEF GoodAt, Handed
<1>8. a.k \in {"executor", "race"} => a.p \in DOMAIN U2 /\ U2[a.p] = j
  BY DEF GoodAt, Keeps
<1>9. a.k \in {"build", "built", "release"} => a.p \in DOMAIN agg'
  BY DEF GoodAt, Later, AggregatesGoOn
<1>10. ASSUME a.k = "build" PROVE BuildsOn(a)'
  <2> DEFINE I == agg[a.p].items
             J == agg'[a.p].items
  <2>1. a.p \in DOMAIN agg /\ BuildsOn(a) /\ I \in Seq(AnyVal \cup Promise)
    BY <1>10 DEF GoodAt, TypeOK, Context
  <2>2. /\ Len(J) = Len(I) /\ DOMAIN J = DOMAIN I /\ DOMAIN I = 1 .. Len(I)
        /\ \A i \in DOMAIN I : I[i] # Thenable => J[i] = I[i]
    BY <2>1, LenProperties DEF Later, AggregatesGoOn
  <2>3. a.at \in 1 .. Len(J) + 1
    BY <2>1, <2>2 DEF BuildsOn
  <2>4. ASSUME a.wp # None
        PROVE  /\ a.at <= Len(J) /\ J[a.at] = a.wp /\ "adopting" \in script'.may
               /\ ~script'.inline /\ state'[a.wp] \in Final => armed'[a.wp]
    <3>1. a.at \in DOMAIN I /\ I[a.at] = a.wp /\ a.wp \in Promise
      BY <1>1, <2>1, <2>2, <2>4 DEF BuildsOn, Activation
    <3>2. a.wp # Thenable
      BY <3>1, PromiseAssumption
    <3>3. a.wp \in Born /\ a.wp \notin DOMAIN U
      BY <2>1, <3>1 DEF AggregatesProper, Inputs, Apart
    <3>4. /\ a.at <= Len(I) /\ "adopting" \in script.may
          /\ ~script.inline /\ state[a.wp] \in Final => armed[a.wp]
      BY <2>1, <2>4 DEF BuildsOn
    <3>5. J[a.at] = a.wp
      BY <2>2, <3>1, <3>2
    <3>6. ~script'.inline /\ state'[a.wp] \in Final => armed'[a.wp]
      BY <1>10, <3>1, <3>3, <3>4 DEF Later
    <3> QED
      BY <2>2, <3>4, <3>5, <3>6 DEF Later
  <2> QED
    BY <2>3, <2>4 DEF BuildsOn
<1>11. ASSUME a.k = "race" PROVE RacesOver(a, U2)'
  <2>1. RacesOver(a, U)
    BY <1>11 DEF GoodAt
  <2>2. Apart(a.items, U2)
    <3>1. \A i \in DOMAIN a.items : a.items[i] \in Promise => a.items[i] \in Born
      BY <2>1 DEF RacesOver, Inputs
    <3> QED
      BY <2>1, <3>1, NatFacts DEF RacesOver, Apart, Handed
  <2>3. Inputs(a.items)'
    BY <1>3, <2>1 DEF RacesOver, Inputs
  <2> QED
    BY <2>1, <2>2, <2>3 DEF RacesOver, Later
<1> QED
  BY <1>1, <1>3, <1>4, <1>5, <1>6, <1>7, <1>8, <1>9, <1>10, <1>11 DEF GoodAt

----------------------------------------------------------------------------
(* What a step that settles or registers does to the state.  T is the stack *)
(* it goes on with, x the promise that gets reaction r, q the one that      *)
(* settles, d the one whose drain is scheduled; each may be None.           *)

\* The drain of d is scheduled.
Wakes(T, d) ==
  /\ \A y \in Promise : armed'[y] <=> armed[y] \/ y = d
  /\ d # None => state'[d] \in Final /\ d \in rooted'
  /\ d = None \/ script.inline => queue' = queue
  /\ d # None /\ ~script.inline => queue' = Append(queue, d)
  /\ d = None \/ ~script.inline => ctl' = T
  /\ d # None /\ script.inline => ctl' = Append(T, Active("enter", d))
Settles(q) ==
  /\ q # None => state[q] = "PENDING" /\ state'[q] \in Final
  /\ \A y \in Born : y # q => state'[y] = state[y]
Registers(x, r) ==
  /\ \A y \in Promise : y # x => reactions'[y] = reactions[y]
  /\ x # None =>
       /\ r \in Reaction /\ reactions'[x] = Append(reactions[x], r)
       /\ state'[x] = "PENDING" => x \in rooted'
       /\ state'[x] \in Final => armed'[x] \/ ThenablesInline
RootsGrow ==
  /\ rooted \subseteq rooted'
  /\ \A y \in rooted' : y \in rooted \/ state'[y] = "PENDING" \/ armed'[y] \/ Excused
Effect(T, x, r, q, d) ==
  /\ T \in Seq(Activation) /\ {x, q, d} \subseteq Born \cup {None}
  /\ Wakes(T, d) /\ Settles(q) /\ Registers(x, r) /\ RootsGrow
  /\ script'.may = script.may /\ script'.inline = script.inline

LEMMA EffectLater ==
  ASSUME NEW H, NEW U, Base(H, U), NEW T, NEW x, NEW r, NEW q, NEW d, Effect(T, x, r, q, d),
         born' \in Nat, born <= born', AggregatesGoOn,
         q # None => armed'[q] \/ q \in DOMAIN U
  PROVE  Later(U)
<1>1. Born \subseteq Promise
  BY NatFacts DEF Base
<1>2. \A y \in Born : state'[y] = state[y] \/ (state[y] = "PENDING" /\ state'[y] \in Final)
  BY NatFacts DEF Base, Effect, Settles, Born
<1>3. \A y \in Born : y \notin DOMAIN U => state'[y] = state[y] \/ armed'[y]
  BY NatFacts DEF Base, Effect, Settles, Born
<1> QED
  BY <1>2, <1>3 DEF Later, Effect, RootsGrow

\* The reactions stay, and the one that is added is one of H2.
LEMMA ListsStep ==
  ASSUME NEW H, NEW U, Base(H, U), NEW T, NEW x, NEW r, NEW q, NEW d, Effect(T, x, r, q, d),
         Later(U), NEW H2, Handed(H, H2), \A y \in Promise : Keeps(H, H2, OnList(y)),
         x # None => Good(r, DOMAIN H2)',
         x # None /\ r.np \in DOMAIN H2 => r.np \notin DOMAIN H /\ H2[r.np] = OnList(x)
  PROVE  ReactionsGood(H2)'
<1>1. TypeOK /\ AggregatesProper /\ ReactionsGood(H)
  BY DEF Base, Counts
<1>2. DOMAIN agg \subseteq Born
  BY <1>1 DEF AggregatesProper
<1>3. ASSUME NEW y \in Promise, NEW s, s = reactions'[y]
      PROVE  HeldAt(s, OnList(y), H2)'
  <2>1. PICK t : t = reactions[y]
    OBVIOUS
  <2>2. HeldAt(t, OnList(y), H)
    BY <1>1, <2>1 DEF ReactionsGood
  <2>3. HeldAt(t, OnList(y), H2)'
    BY <1>1, <1>2, <2>2, HeldStays
  <2>4. CASE y # x
    BY <1>3, <2>1, <2>3, <2>4 DEF Effect, Registers
  <2>5. CASE y = x
    <3>1. x # None
      BY <1>1, <2>5, NatFacts
    <3>2. s = Append(t, r) /\ r \in Reaction
      BY <1>3, <2>1, <2>5, <3>1 DEF Effect, Registers
    <3>3. /\ t \in Seq(Reaction)
          /\ \A i \in 1 .. Len(t) :
               Good(t[i], DOMAIN H2)' /\ (t[i].np \in DOMAIN H2 => H2[t[i].np] = OnList(y))
          /\ Distinct(t, DOMAIN H2)
      BY <2>3 DEF HeldAt
    <3>4. /\ s \in Seq(Reaction) /\ Len(s) = Len(t) + 1 /\ Len(t) \in Nat
          /\ \A i \in 1 .. Len(t) : s[i] = t[i]
          /\ s[Len(t) + 1] = r
      BY <3>2, <3>3, PushedType
    <3>5. \A i \in 1 .. Len(s) : i \in 1 .. Len(t) \/ i = Len(t) + 1
      BY <3>4
    <3>6. ASSUME NEW i \in 1 .. Len(t) PROVE t[i].np \in DOMAIN H2 => t[i].np # r.np
      <4>1. t[i].np \in Born \/ t[i].np = None
        BY <2>2 DEF HeldAt, Good, Proper
      <4>2. t[i].np \in DOMAIN H2 => t[i].np \in DOMAIN H
        BY <1>1, <4>1, NatFacts DEF Handed
      <4> QED
        BY <3>1, <4>2
    <3>7. \A i \in 1 .. Len(s) :
            Good(s[i], DOMAIN H2)' /\ (s[i].np \in DOMAIN H2 => H2[s[i].np] = OnList(y))
      BY <2>5, <3>1, <3>3, <3>4, <3>5
    <3>8. Distinct(s, DOMAIN H2)
      <4> SUFFICES ASSUME NEW i \in 1 .. Len(s), NEW j \in 1 .. Len(s),
                          s[i].np \in DOMAIN H2, s[i].np = s[j].np
                   PROVE  i = j
        BY DEF Distinct
      <4>1. CASE i \in 1 .. Len(t) /\ j \in 1 .. Len(t)
        BY <3>3, <3>4, <4>1 DEF Distinct
      <4>2. CASE i = Len(t) + 1 \/ j = Len(t) + 1
        BY <3>4, <3>5, <3>6, <4>2
      <4> QED
        BY <3>5, <4>1, <4>2
    <3> QED
      BY <3>4, <3>7, <3>8 DEF HeldAt
  <2> QED
    BY <2>4, <2>5
<1> QED
  BY <1>3 DEF ReactionsGood

\* The stack is T, and the drain of d at once on a host without microtasks.
LEMMA StackStep ==
  ASSUME TypeOK, NEW T, NEW x, NEW r, NEW q, NEW d, Effect(T, x, r, q, d),
         Born \subseteq Born', script.inline \in BOOLEAN,
         NEW H2, NEW U2, \A j \in 1 .. Len(T) : GoodAt(T[j], j, H2, U2)'
  PROVE  StackGood(H2, U2)'
<1>1. CASE d = None \/ ~script.inline
  BY <1>1 DEF StackGood, Effect, Wakes
<1>2. CASE d # None /\ script.inline
  <2> DEFINE a == Active("enter", d)
  <2>1. d \in Born /\ d \in Promise
    BY <1>2, NatFacts DEF Effect
  <2>2. a \in Activation /\ a.k = "enter" /\ a.p = d /\ a.todo = <<>>
    BY <2>1, FreshActivation
  <2> HIDE DEF a
  <2>3. /\ ctl' = Append(T, a) /\ T \in Seq(Activation)
        /\ state'[d] \in Final /\ script'.inline
    BY <1>2 DEF a, Effect, Wakes
  <2>4. /\ Len(ctl') = Len(T) + 1 /\ Len(T) \in Nat
        /\ \A i \in 1 .. Len(T) : ctl'[i] = T[i]
        /\ ctl'[Len(T) + 1] = a
    BY <2>2, <2>3, PushedType
  <2>5. HeldAt(<<>>, OnStack(Len(T) + 1), H2)'
    BY DEF HeldAt, Distinct
  <2>6. PICK n : n = Len(T) + 1
    OBVIOUS
  <2>7. GoodAt(a, n, H2, U2)'
    BY <2>1, <2>2, <2>3, <2>5, <2>6 DEF GoodAt, a
  <2>8. \A i \in 1 .. Len(ctl') : i \in 1 .. Len(T) \/ i = n
    BY <2>4, <2>6
  <2> QED
    BY <2>4, <2>6, <2>7, <2>8 DEF StackGood
<1> QED
  BY <1>1, <1>2

\* A drain that was to come still is; T keeps those on the stack.
KeepsDrains(T) ==
  \A j \in 1 .. Len(ctl) : ctl[j].k \in {"enter", "drain"} =>
    j \in 1 .. Len(T) /\ T[j].k = ctl[j].k /\ T[j].p = ctl[j].p

LEMMA StackAndQueue ==
  ASSUME TypeOK, NEW T, NEW x, NEW r, NEW q, NEW d, Effect(T, x, r, q, d),
         script.inline \in BOOLEAN
  PROVE  /\ \A j \in 1 .. Len(T) : j \in 1 .. Len(ctl') /\ ctl'[j] = T[j]
         /\ \A i \in 1 .. Len(queue) : i \in 1 .. Len(queue') /\ queue'[i] = queue[i]
         /\ \A i \in 1 .. Len(queue') : queue'[i] = d \/ (i \in 1 .. Len(queue) /\ queue'[i] = queue[i])
         /\ d # None => \/ \E i \in 1 .. Len(queue') : queue'[i] = d
                        \/ \E j \in 1 .. Len(ctl') : ctl'[j].k = "enter" /\ ctl'[j].p = d
<1>1. /\ d \in Promise \cup {None} /\ T \in Seq(Activation) /\ queue \in Seq(Promise)
      /\ Len(T) \in Nat /\ Len(queue) \in Nat
  BY NatFacts, LenProperties DEF Effect, TypeOK
<1>2. CASE d = None
  BY <1>1, <1>2 DEF Effect, Wakes
<1>3. CASE d # None /\ script.inline
  <2> DEFINE a == Active("enter", d)
  <2>1. a \in Activation /\ a.k = "enter" /\ a.p = d
    BY <1>1, <1>3, FreshActivation
  <2> HIDE DEF a
  <2>2. ctl' = Append(T, a) /\ queue' = queue
    BY <1>3 DEF a, Effect, Wakes
  <2>3. /\ Len(ctl') = Len(T) + 1 /\ \A i \in 1 .. Len(T) : ctl'[i] = T[i]
        /\ ctl'[Len(T) + 1] = a
    BY <1>1, <2>1, <2>2, PushedType
  <2> QED
    BY <1>1, <2>1, <2>2, <2>3
<1>4. CASE d # None /\ ~script.inline
  <2>1. ctl' = T /\ queue' = Append(queue, d) /\ d \in Promise
    BY <1>1, <1>4 DEF Effect, Wakes
  <2>2. /\ Len(queue') = Len(queue) + 1 /\ \A i \in 1 .. Len(queue) : queue'[i] = queue[i]
        /\ queue'[Len(queue) + 1] = d
    BY <1>1, <2>1, PushedType
  <2> QED
    BY <1>1, <2>1, <2>2
<1> QED
  BY <1>2, <1>3, <1>4

\* A promise that settles has its drain to come, or no one waits on it.
Drained(q, x, U) ==
  q # None => \/ armed'[q]
              \/ q \in DOMAIN U /\ x = None /\ (q \in rooted => Excused)

LEMMA DrainsStep ==
  ASSUME NEW H, NEW U, Base(H, U), NEW T, NEW x, NEW r, NEW q, NEW d, Effect(T, x, r, q, d),
         Later(U), KeepsDrains(T), Drained(q, x, U), TypeOK', Numbered', RacesAlone',
         \A y \in open' \cup DOMAIN agg' :
           y \in open \/ y \in DOMAIN agg \/ (state'[y] = "PENDING" => y \in rooted')
  PROVE  Drains'
<1>1. /\ TypeOK /\ Numbered /\ ScriptSound /\ Drains /\ Owners(H, U)
      /\ script.inline \in BOOLEAN /\ DOMAIN agg \subseteq Born
  BY DEF Base, Counts, ScriptSound, AggregatesProper
<1>2. /\ \A j \in 1 .. Len(T) : j \in 1 .. Len(ctl') /\ ctl'[j] = T[j]
      /\ \A i \in 1 .. Len(queue) : i \in 1 .. Len(queue') /\ queue'[i] = queue[i]
      /\ \A i \in 1 .. Len(queue') : queue'[i] = d \/ (i \in 1 .. Len(queue) /\ queue'[i] = queue[i])
      /\ d # None => \/ \E i \in 1 .. Len(queue') : queue'[i] = d
                     \/ \E j \in 1 .. Len(ctl') : ctl'[j].k = "enter" /\ ctl'[j].p = d
  BY <1>1, StackAndQueue
<1>3. /\ \A y \in Promise : state[y] # "UNBORN" => y \in Born
      /\ \A y \in Promise : reactions[y] # <<>> => y \in Born
      /\ open \subseteq Born /\ rooted \subseteq Born
  BY <1>1, NatFacts DEF Numbered
<1>4. \A y \in Born : state'[y] = "PENDING" => state[y] = "PENDING"
  BY DEF Later, Final
<1>5. /\ ThenablesInline' = ThenablesInline /\ Excused' = Excused
  BY DEF Effect, ThenablesInline, Excused, RacesThenables
<1>6. QueueSettled'
  <2>1. \A i \in 1 .. Len(queue) : queue[i] \in Promise
    BY <1>1, ElementOfSeq DEF TypeOK
  <2> SUFFICES ASSUME NEW i \in 1 .. Len(queue') PROVE state'[queue'[i]] \in Final
    BY DEF QueueSettled
  <2>2. CASE queue'[i] = d
    <3>1. queue'[i] \in Promise
      BY ElementOfSeq DEF TypeOK
    <3> QED
      BY <2>2, <3>1, NatFacts, <1>1 DEF Effect, Wakes
  <2>3. CASE i \in 1 .. Len(queue) /\ queue'[i] = queue[i]
    <3>1. state[queue[i]] \in Final /\ queue[i] \in Promise
      BY <1>1, <2>1, <2>3 DEF Drains, QueueSettled
    <3>2. queue[i] \in Born
      BY <1>3, <3>1 DEF Final
    <3> QED
      BY <2>3, <3>1, <3>2 DEF Later, Final
  <2> QED
    BY <1>2, <2>2, <2>3
<1>7. Rooted'
  <2>1. \A y \in open' \cup DOMAIN agg' : state'[y] = "PENDING" => y \in rooted'
    BY <1>1, <1>3, <1>4 DEF Drains, Rooted, Later
  <2>2. ASSUME NEW y \in Promise, reactions'[y] # <<>>, state'[y] = "PENDING" PROVE y \in rooted'
    <3>1. CASE y = x
      BY <1>1, <2>2, <3>1, NatFacts DEF Effect, Registers
    <3>2. CASE y # x
      <4>1. reactions[y] # <<>>
        BY <2>2, <3>2 DEF Effect, Registers
      <4> QED
        BY <1>1, <1>3, <1>4, <2>2, <4>1 DEF Drains, Rooted, Later
    <3> QED
      BY <3>1, <3>2
  <2>3. \A y \in Promise : armed'[y] => y \in rooted'
    BY <1>1, NatFacts DEF Effect, Wakes, Drains, Rooted, Later
  <2> QED
    BY <2>1, <2>2, <2>3 DEF Rooted
<1>8. ArmedComes'
  <2> SUFFICES ASSUME NEW y \in Promise, armed'[y]
               PROVE  \/ \E i \in 1 .. Len(queue') : queue'[i] = y
                      \/ \E j \in 1 .. Len(ctl') : ctl'[j].k = "enter" /\ ctl'[j].p = y
    BY DEF ArmedComes
  <2>1. CASE y = d
    BY <1>1, <1>2, <2>1, NatFacts
  <2>2. CASE y # d
    <3>1. armed[y]
      BY <2>2 DEF Effect, Wakes
    <3>2. CASE \E i \in 1 .. Len(queue) : queue[i] = y
      BY <1>2, <3>2
    <3>3. CASE \E j \in 1 .. Len(ctl) : ctl[j].k = "enter" /\ ctl[j].p = y
      BY <1>2, <3>3 DEF KeepsDrains
    <3> QED
      BY <1>1, <3>1, <3>2, <3>3 DEF Drains, ArmedComes
  <2> QED
    BY <2>1, <2>2
<1>9. SettledArmed'
  <2> SUFFICES ASSUME ~ThenablesInline, NEW y \in Promise, state'[y] \in Final,
                      reactions'[y] # <<>>
               PROVE  armed'[y]
    BY <1>5 DEF SettledArmed
  <2>1. CASE y = x
    BY <1>1, <2>1, NatFacts DEF Effect, Registers
  <2>2. CASE y # x /\ y # q
    <3>1. reactions[y] # <<>> /\ y \in Born
      BY <1>3, <2>2 DEF Effect, Registers
    <3>2. state[y] \in Final
      BY <2>2, <3>1 DEF Effect, Settles
    <3> QED
      BY <1>1, <3>1, <3>2 DEF Drains, SettledArmed, Effect, Wakes
  <2>3. CASE y # x /\ y = q
    <3>1. reactions[y] # <<>> /\ q # None
      BY <1>1, <2>3, NatFacts DEF Effect, Registers
    <3> QED
      BY <1>1, <2>3, <3>1 DEF Drained, Owners
  <2> QED
    BY <2>1, <2>2, <2>3
<1>10. RootsRun'
  <2> SUFFICES ASSUME ~Excused, NEW y \in rooted', state'[y] # "PENDING", ~armed'[y]
               PROVE  Runs(ctl', y)
    BY <1>5 DEF RootsRun, Runs
  <2>1. y \in rooted /\ y \in Born
    BY <1>3 DEF Effect, RootsGrow
  <2>2. y \in Promise /\ y # None
    BY <1>1, <2>1, NatFacts
  <2>3. y # q
    BY <2>1, <2>2 DEF Drained
  <2>4. state[y] # "PENDING" /\ ~armed[y]
    BY <2>1, <2>2, <2>3 DEF Effect, Settles, Wakes
  <2>5. Runs(ctl, y)
    BY <1>1, <2>1, <2>4 DEF Drains, RootsRun
  <2> QED
    BY <1>2, <2>5 DEF Runs, KeepsDrains
<1> QED
  BY <1>6, <1>7, <1>8, <1>9, <1>10 DEF Drains

\* Who may settle what, once the step has been taken.
LEMMA OwnersStep ==
  ASSUME NEW H, NEW U, Base(H, U), NEW T, NEW x, NEW r, NEW q, NEW d, Effect(T, x, r, q, d),
         NEW H2, NEW U2, Handed(H, H2), Handed(U, U2),
         DOMAIN H2 \subseteq Born', DOMAIN U2 \subseteq Born',
         q \notin DOMAIN H2, x \notin DOMAIN U2,
         \A y \in DOMAIN H2 : y > born => state'[y] = "PENDING",
         \A y \in open' \cup DOMAIN agg' : y \in open \/ y \in DOMAIN agg \/ y \notin DOMAIN H2,
         \A y \in known' \cup DOMAIN agg' : y \in known \/ y \in DOMAIN agg \/ y \notin DOMAIN U2,
         \A c \in DOMAIN agg' : Apart(agg'[c].items, U2)
  PROVE  Owners(H2, U2)'
<1>1. TypeOK /\ Numbered /\ Owners(H, U) /\ AggregatesProper
  BY DEF Base, Counts
<1>2. /\ \A y \in DOMAIN H2 : y \in Promise /\ (y \in DOMAIN H \/ y > born)
      /\ \A y \in DOMAIN U2 : y \in Promise /\ (y \in DOMAIN U \/ y > born)
      /\ open \subseteq Born /\ known \subseteq Born /\ DOMAIN agg \subseteq Born
      /\ \A y \in Promise : y > born => y \notin Born
  BY <1>1, NatFacts DEF Handed, Numbered, AggregatesProper
<1>3. ASSUME NEW y \in DOMAIN H2
      PROVE  state'[y] = "PENDING" /\ y \notin open' /\ y \notin DOMAIN agg'
  <2>1. y \notin open /\ y \notin DOMAIN agg
    BY <1>1, <1>2 DEF Owners
  <2>2. CASE y \in DOMAIN H
    <3>1. state[y] = "PENDING" /\ y \in Born /\ y # q
      BY <1>1, <2>2 DEF Owners
    <3> QED
      BY <2>1, <3>1 DEF Effect, Settles
  <2> QED
    BY <1>2, <2>1, <2>2
<1>4. ASSUME NEW u \in DOMAIN U2
      PROVE  u \notin known' /\ u \notin DOMAIN agg' /\ reactions'[u] = <<>>
  <2>1. u \notin known /\ u \notin DOMAIN agg /\ reactions[u] = <<>>
    BY <1>1, <1>2 DEF Owners, Numbered
  <2> QED
    BY <1>2, <2>1 DEF Effect, Registers
<1> QED
  BY <1>3, <1>4 DEF Owners

LEMMA StepInv ==
  ASSUME NEW H, NEW U, Base(H, U), NEW T, NEW x, NEW r, NEW q, NEW d, Effect(T, x, r, q, d),
         Later(U), KeepsDrains(T), Drained(q, x, U), TypeOK', Counts', RacesAlone',
         \A y \in open' \cup DOMAIN agg' :
           y \in open \/ y \in DOMAIN agg \/ (state'[y] = "PENDING" => y \in rooted'),
         NEW H2, NEW U2, Handed(H, H2), Owners(H2, U2)',
         \A y \in Promise : Keeps(H, H2, OnList(y)),
         x # None => Good(r, DOMAIN H2)',
         x # None /\ r.np \in DOMAIN H2 => r.np \notin DOMAIN H /\ H2[r.np] = OnList(x),
         \A j \in 1 .. Len(T) : GoodAt(T[j], j, H2, U2)'
  PROVE  Inv(H2, U2)'
<1>1. TypeOK /\ Numbered' /\ script.inline \in BOOLEAN
  BY DEF Base, Counts, ScriptSound
<1>2. Drains'
  BY <1>1, DrainsStep
<1>3. ReactionsGood(H2)'
  BY ListsStep
<1>4. Born \subseteq Born'
  BY <1>1, NatFacts DEF Later, Born
<1>5. StackGood(H2, U2)'
  BY <1>1, <1>4, StackStep
<1> QED
  BY <1>2, <1>3, <1>5 DEF Inv, Base

\* The stack S is one to go on with: H and U are right for it.
Ready(S, H, U) ==
  /\ Base(H, U) /\ S \in Seq(Activation) /\ KeepsDrains(S)
  /\ \A j \in 1 .. Len(S) : GoodAt(S[j], j, H, U)
Calm(S) == ~RacesThenables => \A j \in 1 .. Len(S) : S[j].k # "race"

LEMMA CalmStays ==
  ASSUME TypeOK, NEW T, NEW x, NEW r, NEW q, NEW d, Effect(T, x, r, q, d), Calm(T),
         script.inline \in BOOLEAN
  PROVE  RacesAlone'
<1>1. RacesThenables' = RacesThenables
  BY DEF Effect, RacesThenables
<1>2. ASSUME ~RacesThenables, NEW j \in 1 .. Len(ctl') PROVE ctl'[j].k # "race"
  <2>1. T \in Seq(Activation) /\ d \in Promise \cup {None} /\ Len(T) \in Nat
    BY NatFacts, LenProperties DEF Effect
  <2>2. CASE d = None \/ ~script.inline
    BY <1>2, <2>2 DEF Calm, Effect, Wakes
  <2>3. CASE d # None /\ script.inline
    <3> DEFINE a == Active("enter", d)
    <3>1. a \in Activation /\ a.k = "enter"
      BY <2>1, <2>3, FreshActivation
    <3> HIDE DEF a
    <3>2. ctl' = Append(T, a)
      BY <2>3 DEF a, Effect, Wakes
    <3>3. /\ Len(ctl') = Len(T) + 1 /\ \A i \in 1 .. Len(T) : ctl'[i] = T[i]
          /\ ctl'[Len(T) + 1] = a
      BY <2>1, <3>1, <3>2, PushedType
    <3>4. j \in 1 .. Len(T) \/ j = Len(T) + 1
      BY <1>2, <2>1, <3>3
    <3> QED
      BY <1>2, <3>1, <3>3, <3>4 DEF Calm
  <2> QED
    BY <2>2, <2>3
<1> QED
  BY <1>1, <1>2 DEF RacesAlone

\* Inputs of aggregations are promises that were made, or no promises.
LEMMA StillApart ==
  ASSUME TypeOK, NEW U, NEW U2, Handed(U, U2), NEW items, Inputs(items), Apart(items, U)
  PROVE  Apart(items, U2)
BY NatFacts DEF Inputs, Apart, Handed

\* A step that makes no promise and finds the stack ready for it.
LEMMA PassInv ==
  ASSUME NEW H, NEW U, NEW T, Ready(T, H, U), NEW x, NEW r, NEW q, NEW d,
         Effect(T, x, r, q, d), Drained(q, x, U), TypeOK', Counts', RacesAlone',
         born' = born, AggregatesGoOn, DOMAIN agg' = DOMAIN agg,
         \A c \in DOMAIN agg' : Apart(agg'[c].items, U),
         q \notin DOMAIN H, x \notin DOMAIN U,
         x # None => Good(r, DOMAIN H)' /\ r.np \notin DOMAIN H,
         \A y \in open' : y \in open \/ ((state'[y] = "PENDING" => y \in rooted') /\ y \notin DOMAIN H),
         \A y \in known' : y \in known \/ y \notin DOMAIN U
  PROVE  Inv(H, U)'
<1>1. /\ Base(H, U) /\ TypeOK /\ AggregatesProper /\ Owners(H, U) /\ KeepsDrains(T)
      /\ \A j \in 1 .. Len(T) : GoodAt(T[j], j, H, U)
  BY DEF Ready, Base, Counts
<1>2. Later(U)
  BY <1>1, NatFacts, EffectLater DEF Drained
<1>3. Handed(H, H) /\ Handed(U, U) /\ \A h : Keeps(H, H, h) /\ Keeps(U, U, h)
  BY <1>1, NatFacts DEF Owners, Handed, Keeps
<1>4. DOMAIN H \subseteq Born' /\ DOMAIN U \subseteq Born' /\ \A y \in Born : ~(y > born)
  BY <1>1, NatFacts DEF Owners, Born
<1>5. Owners(H, U)'
  <2>1. \A y \in DOMAIN H : y > born => state'[y] = "PENDING"
    BY <1>1, <1>4 DEF Owners
  <2>2. \A y \in open' \cup DOMAIN agg' : y \in open \/ y \in DOMAIN agg \/ y \notin DOMAIN H
    OBVIOUS
  <2>3. \A y \in known' \cup DOMAIN agg' : y \in known \/ y \in DOMAIN agg \/ y \notin DOMAIN U
    OBVIOUS
  <2> QED
    BY <1>1, <1>3, <1>4, <2>1, <2>2, <2>3, OwnersStep
<1>6. \A y \in Promise : armed[y] => armed'[y]
  BY DEF Effect, Wakes
<1>7. ASSUME NEW j \in 1 .. Len(T) PROVE GoodAt(T[j], j, H, U)'
  <2>1. GoodAt(T[j], j, H, U) /\ \A c \in DOMAIN agg : Apart(agg[c].items, U)
    BY <1>1 DEF Owners
  <2> QED
    BY <1>1, <1>2, <1>3, <1>6, <2>1, StaysAt
<1> QED
  BY <1>1, <1>2, <1>3, <1>5, <1>7, StepInv

----------------------------------------------------------------------------
(* What the operators of Promises do.                                      *)

TasksTyped ==
  /\ armed \in [Promise -> BOOLEAN] /\ rooted \subseteq Promise
  /\ queue \in Seq(Promise) /\ ctl \in Seq(Activation)
PromisesTyped ==
  /\ state \in [Promise -> States] /\ value \in [Promise -> AnyVal]
  /\ reactions \in [Promise -> Seq(Reaction)]
  /\ open \subseteq Promise /\ source \in [Promise -> Promise \cup {None}]

\* The roots are those there were, R, and promises whose drain will run.
Roots(R) ==
  /\ rooted \cup R \subseteq rooted'
  /\ \A y \in rooted' : y \in rooted \/ y \in R \/ (armed'[y] /\ y \in Born)

LEMMA KeepDoes ==
  ASSUME TypeOK, NEW R, R \subseteq Promise, NEW S, S \in Seq(Activation), Keep(R, S)
  PROVE  Wakes(S, None) /\ Roots(R) /\ TasksTyped'
BY NatFacts DEF TypeOK, Keep, Wakes, Roots, TasksTyped

LEMMA ScheduleDoes ==
  ASSUME TypeOK, NEW p \in Born, state'[p] \in Final, script.inline \in BOOLEAN,
         NEW R, R \subseteq Promise, NEW S, S \in Seq(Activation), Schedule(p, R, S)
  PROVE  \E d \in {p, None} : Wakes(S, d) /\ Roots(R) /\ armed'[p] /\ TasksTyped'
<1>1. p \in Promise /\ p # None
  BY NatFacts
<1>2. CASE armed[p] /\ Keep(R, S)
  <2>1. Wakes(S, None) /\ Roots(R) /\ TasksTyped'
    BY <1>2, KeepDoes
  <2>2. armed'[p]
    BY <1>2 DEF Keep
  <2> QED
    BY <2>1, <2>2
<1>3. CASE ~armed[p]
  <2> DEFINE a == Active("enter", p)
  <2>1. a \in Activation
    BY <1>1, FreshActivation
  <2> HIDE DEF a
  <2>2. /\ armed' = [armed EXCEPT ![p] = TRUE] /\ rooted' = rooted \cup R \cup {p}
        /\ IF script.inline THEN ctl' = Append(S, a) /\ queue' = queue
                            ELSE ctl' = S /\ queue' = Append(queue, p)
    BY <1>3 DEF Schedule, a
  <2>3. Append(S, a) \in Seq(Activation) /\ Append(queue, p) \in Seq(Promise)
    BY <1>1, <2>1, PushedType DEF TypeOK
  <2>4. TasksTyped'
    BY <1>1, <2>2, <2>3 DEF TypeOK, TasksTyped
  <2>5. \A y \in Promise : armed'[y] <=> armed[y] \/ y = p
    BY <1>1, <2>2 DEF TypeOK
  <2>6. Wakes(S, p)
    BY <1>1, <2>2, <2>5 DEF Wakes, a
  <2>7. Roots(R)
    BY <1>1, <2>2, <2>5 DEF Roots
  <2> QED
    BY <1>1, <2>4, <2>5, <2>6, <2>7
<1> QED
  BY <1>2, <1>3 DEF Schedule

IfPending(x) == {y \in {x} : state[x] = "PENDING"}

LEMMA ThenOnDoes ==
  ASSUME TypeOK, NEW x \in Born, NEW r \in Reaction, script.inline \in BOOLEAN,
         state[x] # "UNBORN", state'[x] = state[x],
         NEW R, R \subseteq Promise, NEW S, S \in Seq(Activation), ThenOn(x, r, R, S)
  PROVE  \E d \in {x, None} :
           /\ Wakes(S, d) /\ Registers(x, r) /\ Roots(R \cup IfPending(x))
           /\ TasksTyped' /\ reactions' \in [Promise -> Seq(Reaction)]
<1>1. x \in Promise /\ x # None /\ state[x] \in States
  BY NatFacts DEF TypeOK
<1>2. reactions' = [reactions EXCEPT ![x] = Append(@, r)]
  BY DEF ThenOn
<1>3. Append(reactions[x], r) \in Seq(Reaction)
  BY <1>1, PushedType DEF TypeOK
<1>4. reactions' \in [Promise -> Seq(Reaction)]
  BY <1>1, <1>2, <1>3 DEF TypeOK
<1>5. /\ \A y \in Promise : y # x => reactions'[y] = reactions[y]
      /\ reactions'[x] = Append(reactions[x], r)
  BY <1>1, <1>2 DEF TypeOK
<1> DEFINE X == IfPending(x)
<1>6. CASE state[x] = "PENDING" /\ Keep(R \cup {x}, S)
  <2>1. Wakes(S, None) /\ Roots(R \cup {x}) /\ TasksTyped'
    BY <1>1, <1>6, KeepDoes
  <2>2. X = {x}
    BY <1>6 DEF IfPending
  <2>3. Registers(x, r)
    BY <1>1, <1>5, <1>6, <2>1 DEF Registers, Roots, Final
  <2> QED
    BY <1>4, <2>1, <2>2, <2>3
<1>7. CASE state[x] # "PENDING" /\ Schedule(x, R, S)
  <2>1. state'[x] \in Final
    BY <1>1, <1>7 DEF States, Final
  <2>2. PICK d \in {x, None} : Wakes(S, d) /\ Roots(R) /\ armed'[x] /\ TasksTyped'
    BY <1>7, <2>1, ScheduleDoes
  <2>3. X = {}
    BY <1>7 DEF IfPending
  <2>4. Registers(x, r)
    BY <1>1, <1>5, <1>7, <2>2 DEF Registers
  <2>5. Roots(R \cup X)
    BY <2>2, <2>3
  <2> QED
    BY <1>4, <2>2, <2>4, <2>5
<1> QED
  BY <1>6, <1>7 DEF ThenOn

\* The reaction by which p adopts a promise.
AdoptR(p) == [onF |-> Calls("resolve", p, 0), onR |-> Calls("reject", p, 0), np |-> None]

\* Script or a native function passes v on to promise p: p settles, or adopts v.
Passes(S, p, v, T, x, r, q, d) ==
  /\ Effect(T, x, r, q, d) /\ PromisesTyped' /\ TasksTyped'
  /\ T = S \/ T = Append(S, Active("then", p))
  /\ q \in {None, p} /\ (q # None => armed'[q])
  /\ x \in {None, v} /\ (x # None => r = AdoptR(p) /\ p \in rooted')
  /\ \A y \in Promise : y \notin Born => state'[y] = state[y]
  /\ rooted' \subseteq Born /\ ThenablesAllowed'
  /\ \A y \in open' : y \in open \/ (y = p /\ y \in rooted')

\* What the lemmas below take from the invariant.
Sure == TypeOK /\ Numbered /\ ScriptSound /\ ThenablesAllowed
SameScript == script'.may = script.may /\ script'.inline = script.inline

LEMMA SkipPasses ==
  ASSUME Sure, SameScript, NEW S, S \in Seq(Activation), NEW p \in Born, NEW v, Skip(S)
  PROVE  Passes(S, p, v, S, None, None, None, None)
<1>1. TypeOK /\ {} \subseteq Promise /\ Keep({}, S)
  BY DEF Sure, Skip
<1>2. Wakes(S, None) /\ Roots({}) /\ TasksTyped'
  BY <1>1, KeepDoes
<1>3. /\ state' = state /\ reactions' = reactions /\ open' = open /\ PromisesTyped'
      /\ ThenablesAllowed'
  BY <1>1 DEF Skip, promiseVars, TypeOK, PromisesTyped, ThenablesAllowed, Sure, SameScript
<1>4. RootsGrow /\ rooted' \subseteq Born
  BY <1>2 DEF Roots, RootsGrow, Sure, Numbered
<1>5. Effect(S, None, None, None, None)
  BY <1>2, <1>3, <1>4 DEF Effect, Settles, Registers, SameScript
<1> QED
  BY <1>2, <1>3, <1>4, <1>5 DEF Passes

LEMMA ConcludePasses ==
  ASSUME Sure, SameScript, NEW S, S \in Seq(Activation), NEW p \in Born, NEW w,
         state[p] = "PENDING", NEW st \in Final,
         NEW v \in AnyVal, v = Thenable => "adopting" \in script.may,
         NEW src \in Promise \cup {None}, Conclude(p, st, v, src, S)
  PROVE  \E d : Passes(S, p, w, S, None, None, p, d)
<1>1. TypeOK /\ p \in Promise /\ p # None /\ script.inline \in BOOLEAN /\ {} \subseteq Promise
  BY NatFacts DEF Sure, ScriptSound
<1>2. /\ state' = [state EXCEPT ![p] = st] /\ value' = [value EXCEPT ![p] = v]
      /\ source' = [source EXCEPT ![p] = IF src = None THEN @ ELSE src]
      /\ reactions' = reactions /\ open' = open /\ Schedule(p, {}, S)
  BY DEF Conclude, Settle
<1>3. PromisesTyped' /\ state'[p] = st /\ \A y \in Promise : y # p => state'[y] = state[y]
  <2>1. state' \in [Promise -> States]
    BY <1>1, <1>2 DEF TypeOK, Final, States
  <2>2. value' \in [Promise -> AnyVal]
    BY <1>1, <1>2 DEF TypeOK
  <2>3. source' \in [Promise -> Promise \cup {None}]
    BY <1>1, <1>2 DEF TypeOK
  <2> QED
    BY <1>1, <1>2, <2>1, <2>2, <2>3 DEF TypeOK, PromisesTyped
<1>4. PICK d \in {p, None} : Wakes(S, d) /\ Roots({}) /\ armed'[p] /\ TasksTyped'
  BY <1>1, <1>2, <1>3, ScheduleDoes
<1>5. RootsGrow /\ rooted' \subseteq Born
  BY <1>4 DEF Roots, RootsGrow, Sure, Numbered
<1>6. Settles(p) /\ Registers(None, None)
  BY <1>1, <1>2, <1>3, NatFacts DEF Settles, Registers
<1>7. Effect(S, None, None, p, d)
  BY <1>4, <1>5, <1>6 DEF Effect, SameScript
<1>8. \A y \in Promise : y \notin Born => state'[y] = state[y]
  BY <1>3
<1>9. \A y \in open' : y \in open
  BY <1>2
<1>10. ThenablesAllowed'
  BY <1>1, <1>2 DEF TypeOK, ThenablesAllowed, Sure, SameScript
<1> QED
  BY <1>3, <1>4, <1>5, <1>7, <1>8, <1>9, <1>10 DEF Passes

LEMMA AdoptPasses ==
  ASSUME Sure, SameScript, NEW S, S \in Seq(Activation), NEW p \in Born,
         state[p] = "PENDING" \/ Excused, NEW v, v \in Promise => v \in Born, Adopt(p, v, S)
  PROVE  \E T, x, d : Passes(S, p, v, T, x, AdoptR(p), None, d)
<1>1. /\ TypeOK /\ p \in Promise /\ p # None /\ script.inline \in BOOLEAN /\ {p} \subseteq Promise
      /\ state' = state /\ value' = value
  BY NatFacts DEF Sure, ScriptSound, Adopt
<1>2. AdoptR(p) \in Reaction
  BY <1>1, PromiseAssumption DEF AdoptR, Reaction, Handler, Calls, None
<1>3. /\ Settles(None) /\ \A y \in Promise : y \notin Born => state'[y] = state[y]
      /\ ThenablesAllowed'
  BY <1>1 DEF Settles, ThenablesAllowed, Sure, SameScript
<1>4. CASE /\ v \in Promise /\ ThenOn(v, AdoptR(p), {p}, S)
           /\ source' = [source EXCEPT ![p] = v] /\ open' = open \ {p}
  <2>1. v \in Born /\ state[v] # "UNBORN" /\ state'[v] = state[v] /\ ThenOn(v, AdoptR(p), {p}, S)
    BY <1>1, <1>4, NatFacts DEF Sure, Numbered
  <2>2. PICK d \in {v, None} :
          /\ Wakes(S, d) /\ Registers(v, AdoptR(p))
          /\ Roots({p} \cup IfPending(v))
          /\ TasksTyped' /\ reactions' \in [Promise -> Seq(Reaction)]
    <3>1. PICK r, R : r = AdoptR(p) /\ R = {p}
      OBVIOUS
    <3>2. r \in Reaction /\ R \subseteq Promise /\ ThenOn(v, r, R, S)
      BY <1>1, <1>2, <2>1, <3>1
    <3>3. \E d \in {v, None} :
           /\ Wakes(S, d) /\ Registers(v, r) /\ Roots(R \cup IfPending(v))
           /\ TasksTyped' /\ reactions' \in [Promise -> Seq(Reaction)]
      BY <1>1, <2>1, <3>2, ThenOnDoes
    <3> QED
      BY <3>1, <3>3
  <2>3. PromisesTyped'
    BY <1>1, <1>4, <2>2 DEF PromisesTyped, TypeOK
  <2>4. RootsGrow /\ rooted' \subseteq Born /\ p \in rooted'
    BY <1>1, <2>1, <2>2 DEF Roots, RootsGrow, IfPending, Sure, Numbered
  <2>5. Effect(S, v, AdoptR(p), None, d)
    BY <1>3, <2>1, <2>2, <2>4 DEF Effect, SameScript
  <2>6. Passes(S, p, v, S, v, AdoptR(p), None, d)
    BY <1>3, <1>4, <2>2, <2>3, <2>4, <2>5 DEF Passes
  <2> QED
    BY <2>6
<1>5. CASE /\ Keep({p}, Append(S, Active("then", p)))
           /\ open' = open \cup {p} /\ reactions' = reactions /\ source' = source
  <2> DEFINE T == Append(S, Active("then", p))
  <2>1. T \in Seq(Activation)
    BY <1>1, FreshActivation, PushedType
  <2>2. Keep({p}, T) /\ T = Append(S, Active("then", p))
    BY <1>5
  <2> HIDE DEF T
  <2>3. Wakes(T, None) /\ Roots({p}) /\ TasksTyped'
    BY <1>1, <2>1, <2>2, KeepDoes
  <2>4. PromisesTyped'
    BY <1>1, <1>5 DEF PromisesTyped, TypeOK
  <2>5. RootsGrow /\ rooted' \subseteq Born /\ p \in rooted'
    BY <1>1, <2>3 DEF Roots, RootsGrow, Sure, Numbered
  <2>6. Registers(None, AdoptR(p))
    BY <1>5 DEF Registers
  <2>7. Effect(T, None, AdoptR(p), None, None)
    BY <1>3, <2>1, <2>3, <2>5, <2>6 DEF Effect, SameScript
  <2>8. Passes(S, p, v, T, None, AdoptR(p), None, None)
    BY <1>3, <1>5, <2>2, <2>3, <2>4, <2>5, <2>7 DEF Passes
  <2> QED
    BY <2>8
<1> QED
  BY <1>4, <1>5 DEF Adopt, AdoptR

\* A promise that is passed on was made.
LEMMA ResolveCbPasses ==
  ASSUME Sure, SameScript, NEW S, S \in Seq(Activation), NEW p \in Born,
         NEW v \in AnyVal \cup Promise, v \in Promise => v \in Born, v # p,
         v = Thenable => "adopting" \in script.may, ResolveCb(p, v, S)
  PROVE  \E T, x, r, q, d : Passes(S, p, v, T, x, r, q, d)
<1>1. CASE Skip(S)
  BY <1>1, SkipPasses
<1>2. CASE state[p] = "PENDING" /\ Adopt(p, v, S)
  BY <1>2, AdoptPasses
<1>3. CASE state[p] = "PENDING" /\ ~Adoptable(v, p) /\ Conclude(p, "FULFILLED", v, None, S)
  <2>1. v \in AnyVal
    BY <1>3 DEF Adoptable
  <2>2. "FULFILLED" \in Final /\ None \in Promise \cup {None}
    BY DEF Final
  <2>3. \E d : Passes(S, p, v, S, None, None, p, d)
    BY <1>3, <2>1, <2>2, ConcludePasses
  <2> QED
    BY <2>3
<1> QED
  BY <1>1, <1>2, <1>3 DEF ResolveCb

LEMMA RejectCbPasses ==
  ASSUME Sure, SameScript, NEW S, S \in Seq(Activation), NEW p \in Born, NEW w,
         NEW v \in AnyVal, v = Thenable => "adopting" \in script.may, RejectCb(p, v, S)
  PROVE  \E T, x, r, q, d : Passes(S, p, w, T, x, r, q, d)
<1>1. CASE Skip(S)
  BY <1>1, SkipPasses
<1>2. CASE state[p] = "PENDING" /\ Conclude(p, "REJECTED", v, None, S)
  <2>1. "REJECTED" \in Final /\ None \in Promise \cup {None}
    BY DEF Final
  <2>2. \E d : Passes(S, p, w, S, None, None, p, d)
    BY <1>2, <2>1, ConcludePasses
  <2> QED
    BY <2>2
<1> QED
  BY <1>1, <1>2 DEF RejectCb

LEMMA SettleChainedPasses ==
  ASSUME Sure, SameScript, NEW S, S \in Seq(Activation), NEW p \in Born,
         NEW v \in AnyVal \cup Promise, v \in Promise => v \in Born,
         state[p] = "PENDING" \/ Excused \/ v # Thenable,
         v \in Promise => state[p] = "PENDING",
         SettleChained(p, v, S)
  PROVE  \E T, x, r, q, d : Passes(S, p, v, T, x, r, q, d)
<1>1. CASE Skip(S)
  BY <1>1, SkipPasses
<1>2. CASE Waits(v, p) /\ Adopt(p, v, S)
  <2>1. state[p] = "PENDING" \/ Excused
    BY <1>2 DEF Waits
  <2> QED
    BY <1>2, <2>1, AdoptPasses
<1>3. CASE /\ ~Waits(v, p) /\ state[p] = "PENDING"
           /\ Conclude(p, "FULFILLED", Unwrap(v), IF v \in Promise THEN v ELSE None, S)
  <2>1. PICK w : w = Unwrap(v)
    OBVIOUS
  <2>2. PICK src : src = IF v \in Promise THEN v ELSE None
    OBVIOUS
  <2>3. w \in AnyVal /\ (w = Thenable => "adopting" \in script.may)
    BY <1>3, <2>1 DEF Unwrap, Waits, Sure, TypeOK, ThenablesAllowed
  <2>4. src \in Promise \cup {None} /\ "FULFILLED" \in Final
    BY <2>2 DEF Final
  <2>5. Conclude(p, "FULFILLED", w, src, S)
    BY <1>3, <2>1, <2>2
  <2>6. \E d : Passes(S, p, v, S, None, None, p, d)
    BY <1>3, <2>3, <2>4, <2>5, ConcludePasses
  <2> QED
    BY <2>6
<1> QED
  BY <1>1, <1>2, <1>3 DEF SettleChained

----------------------------------------------------------------------------
(* Steps that pass a value on: the invariant holds after them.             *)

SameInputs ==
  /\ DOMAIN agg' = DOMAIN agg
  /\ \A c \in DOMAIN agg :
       agg'[c].items = agg[c].items /\ Len(agg'[c].values) = Len(agg[c].values)
AggTyped == DOMAIN agg \subseteq Promise /\ \A c \in DOMAIN agg : agg[c] \in Context

LEMMA CountsStay ==
  ASSUME TypeOK, Counts, born' = born, SameInputs, SameScript, ScriptSound', ThenablesAllowed',
         known' \subseteq Born, open' \subseteq Born, rooted' \subseteq Born,
         \A y \in Promise : y \notin Born => state'[y] = state[y] /\ reactions'[y] = reactions[y],
         \A y \in Born : state'[y] = state[y] \/ state'[y] \in Final
  PROVE  Counts'
<1>1. \A y \in Promise : y \in Born <=> ~(y > born)
  BY NatFacts
<1>2. Numbered'
  BY <1>1, NatFacts DEF Counts, Numbered, Final, Born
<1>3. AggregatesProper'
  BY DEF Counts, AggregatesProper, SameInputs, SameScript, Inputs, Born
<1>4. Unfinished' = Unfinished
  BY DEF Unfinished, SameInputs
<1>5. EnoughNumbers'
  BY <1>4 DEF Counts, EnoughNumbers
<1> QED
  BY <1>2, <1>3, <1>5 DEF Counts

LEMMA PushReady ==
  ASSUME NEW H, NEW U, NEW S, Ready(S, H, U), NEW a \in Activation, GoodAt(a, Len(S) + 1, H, U)
  PROVE  /\ Ready(Append(S, a), H, U)
         /\ Calm(S) /\ a.k # "race" => Calm(Append(S, a))
<1> DEFINE T == Append(S, a)
<1>1. S \in Seq(Activation)
  BY DEF Ready
<1>2. /\ T \in Seq(Activation) /\ Len(T) = Len(S) + 1 /\ Len(S) \in Nat
      /\ \A i \in 1 .. Len(S) : T[i] = S[i]
      /\ T[Len(S) + 1] = a
  BY <1>1, PushedType
<1> HIDE DEF T
<1>3. \A j \in 1 .. Len(T) : j \in 1 .. Len(S) \/ j = Len(S) + 1
  BY <1>2
<1>4. Ready(T, H, U)
  BY <1>2, <1>3 DEF Ready, KeepsDrains
<1>5. Calm(S) /\ a.k # "race" => Calm(T)
  BY <1>2, <1>3 DEF Calm
<1> QED
  BY <1>4, <1>5 DEF T

LEMMA CalmPush ==
  ASSUME NEW S \in Seq(Activation), NEW a \in Activation, Calm(S), a.k # "race"
  PROVE  Calm(Append(S, a))
<1> DEFINE T == Append(S, a)
<1>1. /\ Len(T) = Len(S) + 1 /\ Len(S) \in Nat
      /\ \A i \in 1 .. Len(S) : T[i] = S[i]
      /\ T[Len(S) + 1] = a
  BY PushedType
<1> HIDE DEF T
<1>2. \A j \in 1 .. Len(T) : j \in 1 .. Len(S) \/ j = Len(S) + 1
  BY <1>1
<1>3. Calm(T)
  BY <1>1, <1>2 DEF Calm
<1> QED
  BY <1>3 DEF T

LEMMA PassesInv ==
  ASSUME NEW H, NEW U, NEW S, Ready(S, H, U), Calm(S), NEW p \in Born, p \notin DOMAIN H,
         NEW v, v \in Promise => v \in Born, v \notin DOMAIN U,
         NEW T, NEW x, NEW r, NEW q, NEW d, Passes(S, p, v, T, x, r, q, d),
         born' = born, SameInputs, AggTyped', ScriptSound', script'.left \in 0 .. MaxOps,
         known' \subseteq Born, \A y \in known' : y \in known \/ y \notin DOMAIN U
  PROVE  Inv(H, U)'
<1>1. /\ TypeOK /\ Base(H, U) /\ Counts /\ Owners(H, U) /\ ScriptSound /\ AggregatesProper
      /\ Numbered
  BY DEF Ready, Base, Counts
<1>2. /\ Effect(T, x, r, q, d) /\ PromisesTyped' /\ TasksTyped' /\ ThenablesAllowed'
      /\ SameScript
  BY DEF Passes, Effect, SameScript
<1>3. /\ None \notin Born /\ p \in Promise /\ p # None /\ Born \subseteq Promise
      /\ None \notin Promise
  BY <1>1, NatFacts DEF Born
<1>4. Ready(T, H, U) /\ Calm(T)
  <2>1. CASE T = S
    BY <2>1
  <2>2. CASE T = Append(S, Active("then", p))
    <3> DEFINE a == Active("then", p)
    <3>1. a \in Activation /\ a.k = "then" /\ a.p = p /\ a.todo = <<>>
      BY <1>3, FreshActivation
    <3> HIDE DEF a
    <3>2. HeldAt(<<>>, OnStack(Len(S) + 1), H)
      BY DEF HeldAt, Distinct
    <3>3. GoodAt(a, Len(S) + 1, H, U)
      BY <3>1, <3>2 DEF GoodAt
    <3> QED
      BY <2>2, <3>1, <3>3, PushReady DEF a
  <2> QED
    BY <2>1, <2>2 DEF Passes
<1>5. TypeOK'
  BY <1>1, <1>2, <1>3, NatFacts DEF TypeOK, PromisesTyped, TasksTyped, AggTyped
<1>6. Counts'
  <2>1. open' \subseteq Born /\ rooted' \subseteq Born
    BY <1>1 DEF Passes, Numbered
  <2>2. \A y \in Promise : y \notin Born => state'[y] = state[y] /\ reactions'[y] = reactions[y]
    BY <1>2, <1>3 DEF Passes, Effect, Registers
  <2>3. \A y \in Born : state'[y] = state[y] \/ state'[y] \in Final
    BY <1>2, <1>3 DEF Effect, Settles
  <2> QED
    BY <1>1, <1>2, <2>1, <2>2, <2>3, CountsStay
<1>7. RacesAlone'
  BY <1>1, <1>2, <1>4, CalmStays DEF ScriptSound
<1>8. q \notin DOMAIN H /\ x \notin DOMAIN U /\ Drained(q, x, U)
  BY <1>1, <1>3 DEF Passes, Owners, Drained
<1>9. x # None => Good(r, DOMAIN H)' /\ r.np \notin DOMAIN H
  <2> SUFFICES ASSUME x # None
               PROVE  Good(r, DOMAIN H)' /\ r.np \notin DOMAIN H
    OBVIOUS
  <2>1. r = AdoptR(p) /\ p \in rooted'
    BY DEF Passes
  <2>2. AdoptR(p) \in Reaction
    BY <1>3, PromiseAssumption DEF AdoptR, Reaction, Handler, Calls, None
  <2>3. /\ r \in Reaction /\ r.np = None /\ r.onF.to = p /\ r.onR.to = p
        /\ r.onF.at = 0 /\ r.onR.at = 0 /\ r.onF.do = "resolve" /\ r.onR.do = "reject"
    BY <2>1, <2>2 DEF AdoptR, Calls
  <2>4. Good(r, DOMAIN H)'
    BY <2>1, <2>3 DEF Good, Proper, OfJs, Born
  <2> QED
    BY <1>1, <1>3, <2>3, <2>4 DEF Owners
<1>10. \A y \in open' : y \in open \/ ((state'[y] = "PENDING" => y \in rooted') /\ y \notin DOMAIN H)
  BY DEF Passes
<1>11. AggregatesGoOn /\ \A c \in DOMAIN agg' : Apart(agg'[c].items, U)
  BY <1>1 DEF SameInputs, AggregatesGoOn, Owners
<1> QED
  BY <1>2, <1>4, <1>5, <1>6, <1>7, <1>8, <1>9, <1>10, <1>11, PassInv DEF SameInputs

LEMMA SkipInv ==
  ASSUME NEW H, NEW U, NEW S, Ready(S, H, U), Calm(S), Skip(S), SameScript, ScriptSound',
         script'.left \in 0 .. MaxOps, born' = born, SameInputs, AggTyped',
         known' \subseteq Born, \A y \in known' : y \in known \/ y \notin DOMAIN U
  PROVE  Inv(H, U)'
<1>1. /\ TypeOK /\ Base(H, U) /\ Counts /\ Owners(H, U) /\ ScriptSound /\ AggregatesProper
      /\ Numbered /\ S \in Seq(Activation) /\ {} \subseteq Promise /\ Keep({}, S)
  BY DEF Ready, Base, Counts, Skip
<1>2. Wakes(S, None) /\ Roots({}) /\ TasksTyped' /\ rooted' = rooted
  BY <1>1, KeepDoes DEF Keep
<1>3. /\ state' = state /\ value' = value /\ reactions' = reactions /\ open' = open
      /\ PromisesTyped' /\ ThenablesAllowed'
  BY <1>1 DEF Skip, promiseVars, TypeOK, PromisesTyped, Counts, ThenablesAllowed, SameScript
<1>4. RootsGrow
  BY <1>2 DEF RootsGrow
<1>5. Effect(S, None, None, None, None)
  BY <1>1, <1>2, <1>3, <1>4 DEF Effect, Settles, Registers, SameScript
<1>6. TypeOK'
  BY <1>1, <1>2, <1>3, NatFacts DEF TypeOK, PromisesTyped, TasksTyped, AggTyped
<1>7. Counts'
  BY <1>1, <1>2, <1>3, CountsStay DEF Numbered
<1>8. RacesAlone'
  BY <1>1, <1>5, CalmStays DEF ScriptSound
<1>9. None \notin Born /\ Drained(None, None, U)
  BY <1>1, NatFacts DEF Born, Drained
<1>10. None \notin DOMAIN H /\ None \notin DOMAIN U
  BY <1>1, <1>9 DEF Owners
<1>11. AggregatesGoOn /\ \A c \in DOMAIN agg' : Apart(agg'[c].items, U)
  BY <1>1 DEF SameInputs, AggregatesGoOn, Owners
<1> QED
  BY <1>3, <1>5, <1>6, <1>7, <1>8, <1>9, <1>10, <1>11, PassInv DEF SameInputs

----------------------------------------------------------------------------
(* The stacks that the actions go on with.                                 *)

LEMMA InvFacts ==
  ASSUME NEW H, NEW U, Inv(H, U)
  PROVE  /\ TypeOK /\ Base(H, U) /\ Counts /\ Drains /\ Owners(H, U) /\ StackGood(H, U)
         /\ ReactionsGood(H) /\ Numbered /\ ScriptSound /\ ThenablesAllowed
         /\ AggregatesProper /\ Sure /\ script.inline \in BOOLEAN /\ RacesAlone
         /\ AggTyped /\ script.left \in 0 .. MaxOps
BY DEF Inv, Base, Counts, Drains, Sure, ScriptSound, AggTyped, TypeOK

LEMMA StackReady ==
  ASSUME NEW H, NEW U, Inv(H, U), ctl # <<>>
  PROVE  /\ Ready(ctl, H, U) /\ (Top.k # "race" => Calm(ctl))
         /\ GoodAt(Top, Len(ctl), H, U)
<1>1. /\ Base(H, U) /\ TypeOK /\ StackGood(H, U) /\ RacesAlone /\ ctl \in Seq(Activation)
  BY InvFacts DEF TypeOK
<1>2. Len(ctl) \in 1 .. Len(ctl) /\ Top = ctl[Len(ctl)]
  BY <1>1, StackType
<1> QED
  BY <1>1, <1>2 DEF Ready, KeepsDrains, Calm, RacesAlone, StackGood

LEMMA BelowReady ==
  ASSUME NEW H, NEW U, Base(H, U), ctl # <<>>, Top.k \notin {"enter", "drain"},
         \A j \in 1 .. Len(ctl) - 1 : GoodAt(ctl[j], j, H, U)
  PROVE  Ready(Below, H, U) /\ Calm(Below)
<1>1. TypeOK /\ RacesAlone
  BY DEF Base, Drains
<1>2. /\ Len(ctl) \in Nat \ {0} /\ Top = ctl[Len(ctl)]
      /\ Below \in Seq(Activation) /\ Len(Below) = Len(ctl) - 1
      /\ \A i \in 1 .. Len(ctl) - 1 : Below[i] = ctl[i]
  BY <1>1, StackType
<1>3. KeepsDrains(Below)
  BY <1>2 DEF KeepsDrains
<1>4. Calm(Below)
  BY <1>1, <1>2 DEF Calm, RacesAlone
<1> QED
  BY <1>2, <1>3, <1>4 DEF Ready

LEMMA ReplacedReady ==
  ASSUME NEW H, NEW U, Base(H, U), ctl # <<>>, NEW a \in Activation,
         Top.k \in {"enter", "drain"} => a.k = Top.k /\ a.p = Top.p,
         \A j \in 1 .. Len(ctl) - 1 : GoodAt(ctl[j], j, H, U), GoodAt(a, Len(ctl), H, U)
  PROVE  Ready(Replaced(a), H, U) /\ (a.k # "race" => Calm(Replaced(a)))
<1>1. TypeOK /\ RacesAlone
  BY DEF Base, Drains
<1>2. /\ Len(ctl) \in Nat \ {0} /\ Top = ctl[Len(ctl)]
      /\ Replaced(a) \in Seq(Activation) /\ Len(Replaced(a)) = Len(ctl)
      /\ Replaced(a)[Len(ctl)] = a
      /\ \A i \in 1 .. Len(ctl) - 1 : Replaced(a)[i] = ctl[i]
  BY <1>1, StackType, ReplacedType
<1>3. \A j \in 1 .. Len(ctl) : j \in 1 .. Len(ctl) - 1 \/ j = Len(ctl)
  BY <1>2
<1>4. KeepsDrains(Replaced(a))
  BY <1>2, <1>3 DEF KeepsDrains
<1>5. a.k # "race" => Calm(Replaced(a))
  BY <1>1, <1>2, <1>3 DEF Calm, RacesAlone
<1>6. \A j \in 1 .. Len(Replaced(a)) : GoodAt(Replaced(a)[j], j, H, U)
  BY <1>2, <1>3
<1> QED
  BY <1>2, <1>4, <1>5, <1>6 DEF Ready

\* The rest of the stack is good whatever goes from its top.
LEMMA RestGood ==
  ASSUME NEW H, NEW U, Inv(H, U), ctl # <<>>
  PROVE  \A j \in 1 .. Len(ctl) - 1 : GoodAt(ctl[j], j, H, U)
BY InvFacts, StackType DEF StackGood

Without(F, h) == [y \in DOMAIN F \ {h} |-> F[y]]

LEMMA WithoutFacts ==
  ASSUME NEW F, NEW h
  PROVE  /\ DOMAIN Without(F, h) = DOMAIN F \ {h}
         /\ \A y \in DOMAIN F : y # h => Without(F, h)[y] = F[y]
BY DEF Without

\* H2 is H, but for the place of h, if it still has one.
LetsGo(H, H2, h) ==
  /\ DOMAIN H2 \subseteq DOMAIN H
  /\ \A y \in DOMAIN H : y # h => y \in DOMAIN H2 /\ H2[y] = H[y]

LEMMA HeldElsewhere ==
  ASSUME NEW H, NEW s, NEW g, NEW h, HeldAt(s, g, H), NEW H2, LetsGo(H, H2, h),
         \A i \in 1 .. Len(s) : s[i].np # h
  PROVE  HeldAt(s, g, H2)
<1>1. \A i \in 1 .. Len(s) : Good(s[i], DOMAIN H2)
  BY DEF HeldAt, Good, LetsGo
<1>2. Distinct(s, DOMAIN H2)
  BY DEF HeldAt, Distinct, LetsGo
<1> QED
  BY <1>1, <1>2 DEF HeldAt, LetsGo

\* A handler, or a reaction of the drain on top, lets go of the promise h.
LEMMA DropOwned ==
  ASSUME NEW H, NEW U, Inv(H, U), ctl # <<>>, NEW h, h \in DOMAIN H, H[h] = OnStack(Len(ctl)),
         NEW H2, LetsGo(H, H2, h)
  PROVE  /\ Base(H2, U)
         /\ \A j \in 1 .. Len(ctl) - 1 : GoodAt(ctl[j], j, H2, U)
<1>1. /\ TypeOK /\ Base(H, U) /\ Owners(H, U) /\ ReactionsGood(H)
      /\ Len(ctl) \in Nat \ {0}
  BY InvFacts, StackType
<1>2. ASSUME NEW s, NEW g, HeldAt(s, g, H), g # OnStack(Len(ctl)) PROVE HeldAt(s, g, H2)
  <2>1. \A i \in 1 .. Len(s) : s[i].np # h
    BY <1>2 DEF HeldAt
  <2> QED
    BY <1>2, <2>1, HeldElsewhere
<1>3. ReactionsGood(H2)
  <2>1. \A q : OnList(q) # OnStack(Len(ctl))
    BY DEF OnList, OnStack
  <2> QED
    BY <1>1, <1>2, <2>1 DEF ReactionsGood
<1>4. Owners(H2, U)
  BY <1>1 DEF Owners, LetsGo
<1>5. ASSUME NEW j \in 1 .. Len(ctl) - 1 PROVE GoodAt(ctl[j], j, H2, U)
  <2>1. GoodAt(ctl[j], j, H, U) /\ OnStack(j) # OnStack(Len(ctl))
    BY <1>1, RestGood DEF OnStack
  <2>2. HeldAt(ctl[j].todo, OnStack(j), H2)
    BY <1>2, <2>1 DEF GoodAt
  <2>3. ctl[j].k = "handler" => ctl[j].p \in DOMAIN H2 /\ H2[ctl[j].p] = OnStack(j)
    BY <2>1 DEF GoodAt, LetsGo
  <2> QED
    BY <2>1, <2>2, <2>3 DEF GoodAt, LetsGo
<1>6. Base(H2, U)
  BY <1>1, <1>3, <1>4 DEF Base
<1> QED
  BY <1>5, <1>6

\* Script comes to know the promise of an executor or a race.
LEMMA DropLone ==
  ASSUME NEW H, NEW U, Inv(H, U), ctl # <<>>, NEW u, u \in DOMAIN U, U[u] = Len(ctl)
  PROVE  /\ Base(H, Without(U, u))
         /\ \A j \in 1 .. Len(ctl) - 1 : GoodAt(ctl[j], j, H, Without(U, u))
<1> DEFINE U2 == Without(U, u)
<1>1. TypeOK /\ Base(H, U) /\ Owners(H, U) /\ Len(ctl) \in Nat \ {0}
  BY InvFacts, StackType
<1>2. DOMAIN U2 = DOMAIN U \ {u} /\ \A y \in DOMAIN U : y # u => U2[y] = U[y]
  BY WithoutFacts
<1>3. Owners(H, U2)
  BY <1>1, <1>2 DEF Owners, Apart
<1>4. ASSUME NEW j \in 1 .. Len(ctl) - 1 PROVE GoodAt(ctl[j], j, H, U2)
  <2>1. GoodAt(ctl[j], j, H, U) /\ j # Len(ctl)
    BY <1>1, RestGood
  <2>2. ctl[j].k \in {"executor", "race"} => ctl[j].p \in DOMAIN U2 /\ U2[ctl[j].p] = j
    BY <1>2, <2>1 DEF GoodAt
  <2>3. ctl[j].k = "race" => RacesOver(ctl[j], U2)
    BY <1>2, <2>1 DEF GoodAt, RacesOver, Apart
  <2> QED
    BY <2>1, <2>2, <2>3 DEF GoodAt
<1> HIDE DEF U2
<1>5. Base(H, U2)
  BY <1>1, <1>3 DEF Base
<1> QED
  BY <1>4, <1>5 DEF U2

----------------------------------------------------------------------------
(* Script code.                                                            *)

LEMMA ScriptFacts ==
  ASSUME NEW H, NEW U, Inv(H, U), NEW op, InScript(op)
  PROVE  /\ ctl # <<>> /\ Top.k \in ScriptKinds /\ op \in script.may
         /\ SameScript /\ ScriptSound' /\ script'.left \in 0 .. MaxOps
         /\ Ready(ctl, H, U) /\ Calm(ctl) /\ ctl \in Seq(Activation)
<1>1. ctl # <<>> /\ Top.k \in ScriptKinds /\ Top.k # "race"
  BY DEF InScript, ScriptKinds
<1>2. script.left \in 0 .. MaxOps /\ script.left > 0 /\ MaxOps \in Nat /\ ScriptSound
  BY InvFacts, PromiseAssumption DEF InScript
<1>3. /\ script' = [script EXCEPT !.left = @ - 1]
      /\ script = [may |-> script.may, left |-> script.left, inline |-> script.inline]
  BY <1>2 DEF InScript, ScriptSound
<1>4. /\ script' = [may |-> script.may, left |-> script.left - 1, inline |-> script.inline]
  BY <1>3
<1>5. SameScript /\ script'.left = script.left - 1 /\ ScriptSound'
  BY <1>2, <1>4 DEF SameScript, ScriptSound
<1> QED
  BY <1>1, <1>2, <1>5, StackReady, InvFacts DEF InScript, TypeOK

LEMMA SameAgg ==
  ASSUME TypeOK, agg' = agg
  PROVE  SameInputs /\ AggTyped'
BY DEF TypeOK, SameInputs, AggTyped

LEMMA ResolveInv ==
  ASSUME NEW H, NEW U, Inv(H, U), Resolve
  PROVE  IInv'
<1>1. /\ TypeOK /\ Owners(H, U) /\ Numbered /\ Sure
      /\ SameScript /\ ScriptSound' /\ script'.left \in 0 .. MaxOps
      /\ Ready(ctl, H, U) /\ Calm(ctl) /\ ctl \in Seq(Activation)
  BY InvFacts, ScriptFacts DEF Resolve
<1>2. PICK p \in open, v \in Val \cup known \cup {Thenable} :
        v # p /\ (v = Thenable => "adopting" \in script.may) /\ ResolveCb(p, v, ctl)
  BY DEF Resolve
<1>3. p \in Born /\ p \notin DOMAIN H
  BY <1>1 DEF Owners, Numbered
<1>4. v \in AnyVal \cup Promise /\ (v \in Promise => v \in Born) /\ v \notin DOMAIN U
  BY <1>1, NatFacts, PromiseAssumption DEF Owners, Numbered, AnyVal
<1>5. PICK T, x, r, q, d : Passes(ctl, p, v, T, x, r, q, d)
  BY <1>1, <1>2, <1>3, <1>4, ResolveCbPasses
<1>6. /\ born' = born /\ known' = known /\ SameInputs /\ AggTyped' /\ known' \subseteq Born
  BY <1>1, SameAgg DEF Resolve, Numbered
<1>7. Inv(H, U)'
  BY <1>1, <1>3, <1>4, <1>5, <1>6, PassesInv
<1> QED
  BY <1>7 DEF IInv

LEMMA RejectInv ==
  ASSUME NEW H, NEW U, Inv(H, U), Reject
  PROVE  IInv'
<1>1. /\ TypeOK /\ Owners(H, U) /\ Numbered /\ Sure
      /\ SameScript /\ ScriptSound' /\ script'.left \in 0 .. MaxOps
      /\ Ready(ctl, H, U) /\ Calm(ctl) /\ ctl \in Seq(Activation)
  BY InvFacts, ScriptFacts DEF Reject
<1>2. PICK p \in open, v \in Val : RejectCb(p, v, ctl)
  BY DEF Reject
<1>3. p \in Born /\ p \notin DOMAIN H /\ None \notin DOMAIN U /\ None \notin Promise
  BY <1>1, NatFacts DEF Owners, Numbered
<1>4. v \in AnyVal /\ (v = Thenable => "adopting" \in script.may)
  BY PromiseAssumption DEF AnyVal
<1>5. PICK T, x, r, q, d : Passes(ctl, p, None, T, x, r, q, d)
  BY <1>1, <1>2, <1>3, <1>4, RejectCbPasses
<1>6. /\ born' = born /\ known' = known /\ SameInputs /\ AggTyped' /\ known' \subseteq Born
  BY <1>1, SameAgg DEF Reject, Numbered
<1>7. Inv(H, U)'
  BY <1>1, <1>3, <1>5, <1>6, PassesInv
<1> QED
  BY <1>7 DEF IInv

\* The end of script code that leaves nothing to do.
LEMMA ReturnInv ==
  ASSUME NEW H, NEW U, Inv(H, U), MainEnd \/ ThenReturn
  PROVE  IInv'
<1>1. /\ TypeOK /\ Base(H, U) /\ Numbered /\ ScriptSound /\ script.left \in 0 .. MaxOps
  BY InvFacts
<1>2. /\ ctl # <<>> /\ Top.k \notin {"enter", "drain"} /\ Skip(Below)
      /\ agg' = agg /\ born' = born /\ script' = script /\ known' = known
  BY DEF MainEnd, ThenReturn, Ends
<1>3. Ready(Below, H, U) /\ Calm(Below)
  BY <1>1, <1>2, RestGood, BelowReady
<1>4. SameScript /\ ScriptSound' /\ script'.left \in 0 .. MaxOps /\ SameInputs /\ AggTyped'
  BY <1>1, <1>2, SameAgg DEF SameScript, ScriptSound
<1>5. known' \subseteq Born
  BY <1>1, <1>2 DEF Numbered
<1>6. Inv(H, U)'
  BY <1>2, <1>3, <1>4, <1>5, SkipInv
<1> QED
  BY <1>6 DEF IInv

\* The end of an executor or of a race: script gets its promise.
LEMMA MadeKnownInv ==
  ASSUME NEW H, NEW U, Inv(H, U), ExecutorReturn \/ RaceEnd
  PROVE  IInv'
<1>1. /\ TypeOK /\ Base(H, U) /\ Numbered /\ ScriptSound /\ script.left \in 0 .. MaxOps
  BY InvFacts
<1>2. /\ ctl # <<>> /\ Top.k \in {"executor", "race"} /\ Skip(Below)
      /\ agg' = agg /\ born' = born /\ script' = script /\ known' = known \cup {Top.p}
  BY DEF ExecutorReturn, RaceEnd, Ends
<1>3. PICK u : u = Top.p
  OBVIOUS
<1>4. u \in DOMAIN U /\ U[u] = Len(ctl) /\ u \in Born
  BY <1>2, <1>3, StackReady DEF GoodAt
<1> DEFINE U2 == Without(U, u)
<1>5. Base(H, U2) /\ \A j \in 1 .. Len(ctl) - 1 : GoodAt(ctl[j], j, H, U2)
  BY <1>2, <1>4, DropLone
<1>6. \A y \in known' : y \in known \/ y \notin DOMAIN U2
  BY <1>2, <1>3 DEF Without
<1> HIDE DEF U2
<1>7. Ready(Below, H, U2) /\ Calm(Below)
  BY <1>2, <1>5, BelowReady
<1>8. SameScript /\ ScriptSound' /\ script'.left \in 0 .. MaxOps /\ SameInputs /\ AggTyped'
  BY <1>1, <1>2, SameAgg DEF SameScript, ScriptSound
<1>9. known' \subseteq Born
  BY <1>1, <1>2, <1>3, <1>4 DEF Numbered
<1>10. Inv(H, U2)'
  BY <1>2, <1>6, <1>7, <1>8, <1>9, SkipInv
<1> QED
  BY <1>10 DEF IInv

LEMMA ThenThrowInv ==
  ASSUME NEW H, NEW U, Inv(H, U), ThenThrow
  PROVE  IInv'
<1>1. /\ TypeOK /\ Base(H, U) /\ Numbered /\ ScriptSound /\ script.left \in 0 .. MaxOps
      /\ Owners(H, U) /\ Sure
  BY InvFacts
<1>2. /\ ctl # <<>> /\ Top.k = "then"
      /\ agg' = agg /\ born' = born /\ script' = script /\ known' = known
  BY DEF ThenThrow, Ends
<1>3. PICK p, S : p = Top.p /\ S = Below /\ \E v \in Val : RejectCb(p, v, S)
  BY DEF ThenThrow
<1>a. PICK v \in Val : RejectCb(p, v, S)
  BY <1>3
<1>4. p \in Born /\ p \notin DOMAIN H
  BY <1>2, <1>3, StackReady DEF GoodAt
<1>5. Ready(S, H, U) /\ Calm(S) /\ S \in Seq(Activation)
  BY <1>1, <1>2, <1>3, RestGood, BelowReady DEF Ready
<1>6. SameScript /\ ScriptSound' /\ script'.left \in 0 .. MaxOps /\ SameInputs /\ AggTyped'
  BY <1>1, <1>2, SameAgg DEF SameScript, ScriptSound
<1>7. v \in AnyVal /\ (v = Thenable => "adopting" \in script.may)
  BY PromiseAssumption DEF AnyVal
<1>8. None \notin DOMAIN U /\ None \notin Promise /\ known' \subseteq Born
  BY <1>1, <1>2, NatFacts DEF Owners, Numbered
<1>9. PICK T, x, r, q, d : Passes(S, p, None, T, x, r, q, d)
  BY <1>1, <1>a, <1>4, <1>5, <1>6, <1>7, RejectCbPasses
<1>10. Inv(H, U)'
  BY <1>2, <1>4, <1>5, <1>6, <1>8, <1>9, PassesInv
<1> QED
  BY <1>10 DEF IInv

\* A handler settles the promise that is its own.
LEMMA HandlerInv ==
  ASSUME NEW H, NEW U, Inv(H, U), HandlerReturn \/ HandlerThrow
  PROVE  IInv'
<1>1. /\ TypeOK /\ Base(H, U) /\ Numbered /\ ScriptSound /\ script.left \in 0 .. MaxOps
      /\ Owners(H, U) /\ Sure
  BY InvFacts
<1>2. /\ ctl # <<>> /\ Top.k = "handler"
      /\ agg' = agg /\ born' = born /\ script' = script /\ known' = known
  BY DEF HandlerReturn, HandlerThrow, Ends
<1>3. PICK p, S : p = Top.p /\ S = Below
  OBVIOUS
<1>4. p \in DOMAIN H /\ H[p] = OnStack(Len(ctl)) /\ p \in Born
  BY <1>2, <1>3, StackReady DEF GoodAt
<1>5. state[p] = "PENDING" /\ p \notin DOMAIN Without(H, p)
  BY <1>1, <1>4 DEF Owners, Without
<1>6. PICK H2 : H2 = Without(H, p)
  OBVIOUS
<1>7. Base(H2, U) /\ \A j \in 1 .. Len(ctl) - 1 : GoodAt(ctl[j], j, H2, U)
  <2>1. LetsGo(H, H2, p)
    BY <1>6, WithoutFacts DEF LetsGo
  <2> QED
    BY <1>2, <1>4, <2>1, DropOwned
<1>8. Ready(S, H2, U) /\ Calm(S) /\ S \in Seq(Activation)
  BY <1>2, <1>3, <1>7, BelowReady DEF Ready
<1>9. SameScript /\ ScriptSound' /\ script'.left \in 0 .. MaxOps /\ SameInputs /\ AggTyped'
  BY <1>1, <1>2, SameAgg DEF SameScript, ScriptSound
<1>10. None \notin DOMAIN U /\ None \notin Promise /\ known' \subseteq Born
  BY <1>1, <1>2, NatFacts DEF Owners, Numbered
<1>11. CASE HandlerReturn
  <2>1. PICK v \in Val \cup known \cup {Thenable} : SettleChained(p, v, S)
    BY <1>3, <1>11 DEF HandlerReturn
  <2>2. v \in AnyVal \cup Promise /\ (v \in Promise => v \in Born) /\ v \notin DOMAIN U
    BY <1>1, NatFacts, PromiseAssumption DEF Owners, Numbered, AnyVal
  <2>3. PICK T, x, r, q, d : Passes(S, p, v, T, x, r, q, d)
    BY <1>1, <1>4, <1>5, <1>8, <1>9, <2>1, <2>2, SettleChainedPasses
  <2>4. Inv(H2, U)'
    BY <1>2, <1>4, <1>5, <1>6, <1>8, <1>9, <1>10, <2>2, <2>3, PassesInv
  <2> QED
    BY <2>4 DEF IInv
<1>12. CASE HandlerThrow
  <2>1. PICK v \in Val : Conclude(p, "REJECTED", v, None, S)
    BY <1>3, <1>12 DEF HandlerThrow
  <2>2. /\ v \in AnyVal /\ (v = Thenable => "adopting" \in script.may)
        /\ "REJECTED" \in Final /\ None \in Promise \cup {None}
    BY PromiseAssumption DEF AnyVal, Final
  <2>3. PICK d : Passes(S, p, None, S, None, None, p, d)
    BY <1>1, <1>4, <1>5, <1>8, <1>9, <2>1, <2>2, ConcludePasses
  <2>4. Inv(H2, U)'
    BY <1>2, <1>4, <1>5, <1>6, <1>8, <1>9, <1>10, <2>3, PassesInv
  <2> QED
    BY <2>4 DEF IInv
<1> QED
  BY <1>11, <1>12

\* A throw in the executor settles a promise that nobody knows yet.
LEMMA ExecutorThrowInv ==
  ASSUME NEW H, NEW U, Inv(H, U), ExecutorThrow
  PROVE  IInv'
<1>1. /\ TypeOK /\ Base(H, U) /\ Numbered /\ ScriptSound /\ script.left \in 0 .. MaxOps
      /\ Owners(H, U) /\ Sure /\ Counts /\ AggregatesProper /\ script.inline \in BOOLEAN
  BY InvFacts
<1>2. /\ ctl # <<>> /\ Top.k = "executor" /\ Keep({}, Below) /\ known' = known \cup {Top.p}
      /\ reactions' = reactions /\ source' = source /\ open' = open
      /\ agg' = agg /\ born' = born /\ script' = script /\ Excused
  BY DEF ExecutorThrow, Ends, Excused
<1>3. PICK p, S : p = Top.p /\ S = Below
  OBVIOUS
<1>4. p \in DOMAIN U /\ U[p] = Len(ctl) /\ p \in Born /\ p \notin DOMAIN H /\ p \in Promise
  BY <1>1, <1>2, <1>3, StackReady, NatFacts DEF GoodAt
<1>5. PICK U2 : U2 = Without(U, p)
  OBVIOUS
<1>6. /\ DOMAIN U2 = DOMAIN U \ {p} /\ \A y \in DOMAIN U : y # p => U2[y] = U[y]
  BY <1>5 DEF Without
<1>7. Ready(S, H, U) /\ Calm(S) /\ S \in Seq(Activation)
  BY <1>1, <1>2, <1>3, RestGood, BelowReady DEF Ready
<1>8. SameScript /\ ScriptSound' /\ script'.left \in 0 .. MaxOps /\ SameInputs /\ AggTyped'
  BY <1>1, <1>2, SameAgg DEF SameScript, ScriptSound
<1>9. \E q \in {None, p} :
        /\ Settles(q) /\ \A y \in Promise : y # p => state'[y] = state[y]
        /\ state' \in [Promise -> States] /\ value' \in [Promise -> AnyVal] /\ ThenablesAllowed'
        /\ state'[p] = state[p] \/ state'[p] \in Final
  <2>1. PICK v \in Val : IF state[p] = "PENDING" THEN Settle(p, "REJECTED", v)
                                                 ELSE UNCHANGED <<state, value>>
    BY <1>3 DEF ExecutorThrow
  <2>2. v \in AnyVal /\ v # Thenable
    BY PromiseAssumption DEF AnyVal
  <2>3. CASE state[p] = "PENDING" /\ Settle(p, "REJECTED", v)
    <3>1. state' = [state EXCEPT ![p] = "REJECTED"] /\ value' = [value EXCEPT ![p] = v]
      BY <2>3 DEF Settle
    <3>2. /\ state' \in [Promise -> States] /\ value' \in [Promise -> AnyVal]
          /\ state'[p] = "REJECTED" /\ \A y \in Promise : y # p => state'[y] = state[y]
      BY <1>1, <1>4, <2>2, <3>1 DEF TypeOK, States
    <3>3. ThenablesAllowed'
      BY <1>1, <1>2, <1>4, <2>2, <3>1 DEF ThenablesAllowed, Sure, TypeOK
    <3>4. Settles(p)
      BY <1>1, <2>3, <3>2, NatFacts DEF Settles, Final
    <3> QED
      BY <3>2, <3>3, <3>4 DEF Final
  <2>4. CASE state' = state /\ value' = value
    BY <1>1, <1>2, <2>4 DEF Settles, TypeOK, ThenablesAllowed, Sure
  <2> QED
    BY <2>1, <2>3, <2>4
<1>10. PICK q \in {None, p} :
        /\ Settles(q) /\ \A y \in Promise : y # p => state'[y] = state[y]
        /\ state' \in [Promise -> States] /\ value' \in [Promise -> AnyVal] /\ ThenablesAllowed'
        /\ state'[p] = state[p] \/ state'[p] \in Final
  BY <1>9
<1>11. Wakes(S, None) /\ Roots({}) /\ TasksTyped' /\ rooted' = rooted
  <2>1. {} \subseteq Promise /\ Keep({}, S)
    BY <1>2, <1>3
  <2> QED
    BY <1>1, <1>7, <2>1, KeepDoes DEF Keep
<1>12. Effect(S, None, None, q, None)
  BY <1>2, <1>4, <1>7, <1>8, <1>10, <1>11 DEF Effect, Registers, RootsGrow, SameScript
<1>13. Drained(q, None, U) /\ AggregatesGoOn /\ q \notin DOMAIN H /\ None \notin Born
  BY <1>1, <1>2, <1>4, NatFacts DEF Drained, AggregatesGoOn, Owners, Born
<1>14. Later(U)
  BY <1>1, <1>2, <1>12, <1>13, NatFacts, EffectLater DEF Drained
<1>15. TypeOK'
  BY <1>1, <1>2, <1>3, <1>4, <1>8, <1>10, <1>11 DEF TypeOK, TasksTyped, AggTyped
<1>16. Counts'
  <2>1. known' \subseteq Born /\ open' \subseteq Born /\ rooted' \subseteq Born
    BY <1>1, <1>2, <1>3, <1>4, <1>11 DEF Numbered
  <2>2. /\ \A y \in Promise : y \notin Born => state'[y] = state[y] /\ reactions'[y] = reactions[y]
        /\ \A y \in Born : state'[y] = state[y] \/ state'[y] \in Final
    BY <1>1, <1>2, <1>4, <1>10, NatFacts
  <2> QED
    BY <1>1, <1>2, <1>8, <1>10, <2>1, <2>2, CountsStay
<1>17. RacesAlone'
  BY <1>1, <1>7, <1>12, CalmStays
<1>18. /\ Handed(H, H) /\ Handed(U, U2) /\ \A h : Keeps(H, H, h)
       /\ \A j \in 1 .. Len(S) : Keeps(U, U2, j)
  <2>1. Handed(H, H) /\ Handed(U, U2) /\ \A h : Keeps(H, H, h)
    BY <1>1, <1>6, NatFacts DEF Owners, Handed, Keeps
  <2>2. Len(S) = Len(ctl) - 1 /\ Len(ctl) \in Nat
    BY <1>1, <1>2, <1>3, StackType
  <2> QED
    BY <1>4, <1>6, <2>1, <2>2 DEF Keeps
<1>19. ASSUME NEW j \in 1 .. Len(S) PROVE GoodAt(S[j], j, H, U2)'
  <2>1. GoodAt(S[j], j, H, U) /\ \A c \in DOMAIN agg : Apart(agg[c].items, U)
    BY <1>1, <1>7 DEF Ready, Owners
  <2>2. \A y \in Promise : armed[y] => armed'[y]
    BY <1>11 DEF Wakes
  <2> QED
    BY <1>1, <1>14, <1>18, <2>1, <2>2, StaysAt
<1>20. Owners(H, U2)'
  <2>1. /\ DOMAIN H \subseteq Born' /\ DOMAIN U2 \subseteq Born'
        /\ \A y \in DOMAIN H : y > born => state'[y] = "PENDING"
    BY <1>1, <1>2, <1>6, NatFacts DEF Owners, Born
  <2>2. \A c \in DOMAIN agg' : Apart(agg'[c].items, U2)
    BY <1>1, <1>2, <1>6 DEF Owners, Apart
  <2>3. None \notin DOMAIN U2
    BY <1>1, <1>6, <1>13 DEF Owners
  <2> QED
    BY <1>1, <1>2, <1>3, <1>6, <1>12, <1>13, <1>18, <2>1, <2>2, <2>3, OwnersStep
<1>21. KeepsDrains(S)
  BY <1>7 DEF Ready
<1>22. Inv(H, U2)'
  BY <1>1, <1>2, <1>12, <1>13, <1>14, <1>15, <1>16, <1>17, <1>18, <1>19, <1>20, <1>21, StepInv
<1> QED
  BY <1>22 DEF IInv

----------------------------------------------------------------------------
(* Script code makes a promise.                                            *)

\* F2 is F, and perhaps the new promise f.
Extends(F, F2, f) ==
  /\ DOMAIN F2 \subseteq DOMAIN F \cup {f}
  /\ \A y \in DOMAIN F : y \in DOMAIN F2 /\ F2[y] = F[y]

\* A promise f is made; T is the stack, perhaps with a new activation.
Makes(f, T) ==
  /\ f = born + 1 /\ born < MaxPromises /\ born' = f
  /\ state'[f] # "UNBORN" /\ \A y \in Promise : y # f => state'[y] = state[y]
  /\ PromisesTyped' /\ TasksTyped' /\ ThenablesAllowed' /\ AggTyped'
  /\ known' \subseteq known \cup {f} /\ open' \subseteq open \cup {f}
  /\ rooted' \subseteq Born' /\ (state'[f] = "PENDING" /\ f \in open' \cup DOMAIN agg' => f \in rooted')
  /\ SameScript /\ ScriptSound' /\ script'.left \in 0 .. MaxOps

LEMMA MakeFacts ==
  ASSUME NEW H, NEW U, Inv(H, U), NEW f, NEW T, Makes(f, T)
  PROVE  /\ born \in Nat /\ f \in Promise /\ f \notin Born /\ f # None /\ f > born
         /\ Born' = Born \cup {f} /\ born <= born' /\ born' \in Nat /\ None \notin Born'
         /\ f \notin DOMAIN H /\ f \notin DOMAIN U /\ f \notin known /\ f \notin open
         /\ f \notin DOMAIN agg /\ reactions[f] = <<>> /\ f \notin rooted
         /\ f <= MaxPromises
<1>1. TypeOK /\ Owners(H, U) /\ Numbered /\ AggregatesProper
  BY InvFacts
<1>2. /\ born \in Nat /\ f \in Promise /\ f \notin Born /\ f # None /\ f > born
      /\ Born' = Born \cup {f} /\ born <= born' /\ born' \in Nat /\ None \notin Born'
      /\ f <= MaxPromises
  BY <1>1, NatFacts, PromiseAssumption DEF Makes, Born, Promise, None
<1> QED
  BY <1>1, <1>2 DEF Owners, Numbered, AggregatesProper

LEMMA MakeInv ==
  ASSUME NEW H, NEW U, Inv(H, U), Ready(ctl, H, U), NEW f, NEW T, Makes(f, T),
         NEW x, NEW r, NEW d, Effect(T, x, r, None, d), RacesAlone',
         AggregatesGoOn, AggregatesProper',
         NEW H2, NEW U2, Extends(H, H2, f), Extends(U, U2, f),
         f \in DOMAIN H2 => state'[f] = "PENDING" /\ f \notin open' /\ f \notin DOMAIN agg',
         f \in DOMAIN U2 => f \notin known' /\ f \notin DOMAIN agg',
         \A c \in DOMAIN agg' : c \in DOMAIN agg \/ c = f,
         \A c \in DOMAIN agg' : Apart(agg'[c].items, U2),
         x \notin DOMAIN U2, x # None => Good(r, DOMAIN H2)',
         x # None /\ r.np \in DOMAIN H2 => r.np = f /\ H2[f] = OnList(x),
         NEW n, n = Len(ctl) + 1,
         NEW a, \/ T = ctl
                \/ T = Append(ctl, a) /\ a \in Activation /\ GoodAt(a, n, H2, U2)'
  PROVE  Inv(H2, U2)'
<1>1. /\ TypeOK /\ Base(H, U) /\ Owners(H, U) /\ Numbered /\ Counts /\ AggregatesProper
      /\ ctl \in Seq(Activation) /\ script.inline \in BOOLEAN
  BY InvFacts DEF TypeOK
<1>2. /\ born \in Nat /\ f \in Promise /\ f \notin Born /\ f # None /\ f > born
      /\ Born' = Born \cup {f} /\ born <= born' /\ born' \in Nat /\ None \notin Born'
      /\ f \notin DOMAIN H /\ f \notin DOMAIN U /\ f \notin known /\ f \notin open
      /\ f \notin DOMAIN agg /\ f <= MaxPromises
  BY MakeFacts
<1>3. Drained(None, x, U) /\ Later(U)
  BY <1>1, <1>2, EffectLater DEF Drained
<1>4. /\ Handed(H, H2) /\ Handed(U, U2)
      /\ \A h : Keeps(H, H2, h) /\ Keeps(U, U2, h)
  BY <1>1, <1>2, NatFacts DEF Extends, Handed, Keeps, Owners
<1>5. TypeOK'
  BY <1>1, <1>2, NatFacts DEF Makes, TypeOK, PromisesTyped, TasksTyped, AggTyped, Numbered
<1>6. Numbered'
  <2>1. \A y \in Promise : state'[y] = "UNBORN" <=> y > born'
    BY <1>1, <1>2, NatFacts DEF Makes, Numbered
  <2>2. \A y \in Promise : y > born' => reactions'[y] = <<>>
    <3> SUFFICES ASSUME NEW y \in Promise, y > born' PROVE reactions'[y] = <<>>
      OBVIOUS
    <3>1. x \in Born \/ x = None
      BY DEF Effect
    <3>2. y \in Nat \ {0} /\ y > born /\ y \notin Born /\ y # None
      BY <1>1, <1>2, NatFacts DEF Makes, Born
    <3>3. reactions'[y] = reactions[y]
      BY <3>1, <3>2 DEF Effect, Registers
    <3> QED
      BY <1>1, <3>2, <3>3 DEF Numbered
  <2>3. known' \subseteq Born' /\ open' \subseteq Born' /\ rooted' \subseteq Born'
    BY <1>1, <1>2 DEF Makes, Numbered
  <2> QED
    BY <2>1, <2>2, <2>3 DEF Numbered
<1>7. EnoughNumbers'
  <2>1. PICK X, m : X = Unfinished' /\ m = born'
    OBVIOUS
  <2>2. X \subseteq 1 .. m /\ m \in Nat
    BY <1>2, <2>1 DEF Unfinished, AggregatesProper, Born
  <2>3. IsFiniteSet(1 .. m) /\ Cardinality(1 .. m) = m
    BY <2>2, FS_Interval
  <2>4. IsFiniteSet(X) /\ Cardinality(X) <= Cardinality(1 .. m)
    BY <2>2, <2>3, FS_Subset
  <2>5. Cardinality(X) \in Nat
    BY <2>4, FS_CardinalityType
  <2>6. m <= MaxPromises /\ MaxPromises \in Nat
    BY <1>2, <2>1, PromiseAssumption DEF Makes
  <2>7. m + Cardinality(X) <= 2 * MaxPromises
    BY <2>2, <2>3, <2>4, <2>5, <2>6
  <2> QED
    BY <2>1, <2>7 DEF EnoughNumbers
<1>8. Counts'
  BY <1>6, <1>7 DEF Makes, Counts
<1>9. Owners(H2, U2)'
  <2>1. DOMAIN H2 \subseteq Born' /\ DOMAIN U2 \subseteq Born'
    BY <1>1, <1>2 DEF Extends, Owners
  <2>2. \A y \in DOMAIN H2 : y > born => state'[y] = "PENDING"
    BY <1>1, <1>2 DEF Extends, Owners, Born
  <2>3. \A y \in open' \cup DOMAIN agg' : y \in open \/ y \in DOMAIN agg \/ y \notin DOMAIN H2
    BY <1>2 DEF Makes
  <2>4. \A y \in known' \cup DOMAIN agg' : y \in known \/ y \in DOMAIN agg \/ y \notin DOMAIN U2
    BY <1>2 DEF Makes
  <2>5. None \notin DOMAIN H2
    BY <1>2, <2>1
  <2> QED
    BY <1>1, <1>4, <2>1, <2>2, <2>3, <2>4, <2>5, OwnersStep
<1>10. ASSUME NEW j \in 1 .. Len(ctl), NEW e, e = ctl[j] PROVE GoodAt(e, j, H2, U2)'
  <2>1. GoodAt(e, j, H, U) /\ \A c \in DOMAIN agg : Apart(agg[c].items, U)
    BY <1>1, <1>10 DEF Ready, Owners
  <2>2. \A y \in Promise : armed[y] => armed'[y]
    BY DEF Effect, Wakes
  <2> QED
    BY <1>1, <1>3, <1>4, <2>1, <2>2, StaysAt
<1>11. KeepsDrains(T) /\ \A j \in 1 .. Len(T) : GoodAt(T[j], j, H2, U2)'
  <2>1. CASE T = ctl
    BY <1>10, <2>1 DEF KeepsDrains
  <2>2. CASE T = Append(ctl, a) /\ a \in Activation /\ GoodAt(a, n, H2, U2)'
    <3>1. /\ Len(T) = n /\ Len(ctl) \in Nat
          /\ \A i \in 1 .. Len(ctl) : T[i] = ctl[i]
          /\ T[n] = a
      BY <1>1, <2>2, PushedType
    <3>2. \A j \in 1 .. Len(T) : j \in 1 .. Len(ctl) \/ j = n
      BY <3>1
    <3>3. \A j \in 1 .. Len(ctl) : GoodAt(T[j], j, H2, U2)'
      BY <1>10, <3>1
    <3>4. KeepsDrains(T)
      BY <3>1, <3>2 DEF KeepsDrains
    <3> QED
      BY <2>2, <3>1, <3>2, <3>3, <3>4
  <2> QED
    BY <2>1, <2>2
<1>12. \A y \in open' \cup DOMAIN agg' :
         y \in open \/ y \in DOMAIN agg \/ (state'[y] = "PENDING" => y \in rooted')
  BY DEF Makes
<1>13. x # None /\ r.np \in DOMAIN H2 => r.np \notin DOMAIN H /\ H2[r.np] = OnList(x)
  BY <1>2
<1> QED
  BY <1>1, <1>3, <1>4, <1>5, <1>8, <1>9, <1>11, <1>12, <1>13, StepInv

LEMMA FreshDoes ==
  ASSUME NEW H, NEW U, Inv(H, U), NEW op, InScript(op),
         NEW st \in {"PENDING", "FULFILLED", "REJECTED"},
         NEW v \in AnyVal, v = Thenable => "adopting" \in script.may, MakeFresh(st, v),
         NEW f, f = Fresh
  PROVE  /\ f = born + 1 /\ born < MaxPromises /\ born' = f /\ f \in Promise
         /\ state' = [state EXCEPT ![f] = st] /\ value' = [value EXCEPT ![f] = v]
         /\ state'[f] = st /\ \A y \in Promise : y # f => state'[y] = state[y]
         /\ state' \in [Promise -> States] /\ value' \in [Promise -> AnyVal]
         /\ ThenablesAllowed' /\ Settles(None) /\ f \notin Born /\ Born' = Born \cup {f}
<1>1. /\ TypeOK /\ ThenablesAllowed /\ SameScript /\ Top.k \in ScriptKinds
      /\ born \in Nat /\ MaxPromises \in Nat
  BY InvFacts, ScriptFacts, NatFacts
<1>2. /\ f = born + 1 /\ born < MaxPromises /\ born' = f
      /\ state' = [state EXCEPT ![f] = st] /\ value' = [value EXCEPT ![f] = v]
  BY <1>1 DEF MakeFresh, Settle, Fresh
<1>3. f \in Promise /\ f \notin Born /\ Born' = Born \cup {f}
  BY <1>1, <1>2 DEF Promise, Born
<1>4. /\ state'[f] = st /\ \A y \in Promise : y # f => state'[y] = state[y]
      /\ state' \in [Promise -> States] /\ value' \in [Promise -> AnyVal]
  BY <1>1, <1>2, <1>3 DEF TypeOK, States
<1>5. ThenablesAllowed'
  BY <1>1, <1>2, <1>3 DEF TypeOK, ThenablesAllowed, SameScript
<1>6. Settles(None)
  BY <1>1, <1>3, <1>4, NatFacts DEF Settles
<1> QED
  BY <1>2, <1>3, <1>4, <1>5, <1>6

LEMMA FreshKept ==
  ASSUME NEW H, NEW U, Inv(H, U), NEW op, InScript(op),
         NEW st \in {"PENDING", "FULFILLED", "REJECTED"},
         NEW v \in AnyVal, v = Thenable => "adopting" \in script.may, MakeFresh(st, v),
         NEW f, f = Fresh,
         NEW T \in Seq(Activation), NEW R, R \subseteq {f}, Keep(R, T), R # {} => st = "PENDING",
         reactions' = reactions, source' = source, AggTyped',
         open' \subseteq open \cup {f}, f \in open' \cup DOMAIN agg' => f \in R,
         known' \subseteq known \cup {f}
  PROVE  /\ Makes(f, T) /\ Effect(T, None, None, None, None)
         /\ state'[f] = st /\ rooted' = rooted \cup R
<1>1. /\ TypeOK /\ Numbered /\ SameScript /\ ScriptSound' /\ script'.left \in 0 .. MaxOps
  BY InvFacts, ScriptFacts
<1>2. /\ f = born + 1 /\ born < MaxPromises /\ born' = f /\ f \in Promise
      /\ state'[f] = st /\ \A y \in Promise : y # f => state'[y] = state[y]
      /\ state' \in [Promise -> States] /\ value' \in [Promise -> AnyVal]
      /\ ThenablesAllowed' /\ Settles(None) /\ Born' = Born \cup {f}
  BY FreshDoes
<1>3. /\ Wakes(T, None) /\ Roots(R) /\ TasksTyped' /\ rooted' = rooted \cup R
  BY <1>1, <1>2, KeepDoes DEF Keep
<1>4. PromisesTyped'
  BY <1>1, <1>2 DEF PromisesTyped, TypeOK
<1>5. rooted' \subseteq Born' /\ (f \in open' \cup DOMAIN agg' => f \in rooted')
  BY <1>1, <1>2, <1>3 DEF Numbered
<1>6. Makes(f, T)
  BY <1>1, <1>2, <1>3, <1>4, <1>5 DEF Makes
<1>7. RootsGrow
  BY <1>2, <1>3 DEF RootsGrow
<1>8. Registers(None, None)
  BY DEF Registers
<1>9. Effect(T, None, None, None, None)
  BY <1>1, <1>2, <1>3, <1>7, <1>8 DEF Effect, SameScript
<1> QED
  BY <1>2, <1>3, <1>6, <1>9

LEMMA AggMade ==
  ASSUME NEW H, NEW U, Inv(H, U), NEW f, NEW T, Makes(f, T), agg' = agg,
         NEW U2, Extends(U, U2, f)
  PROVE  /\ AggregatesGoOn /\ AggregatesProper'
         /\ \A c \in DOMAIN agg' : c \in DOMAIN agg \/ c = f
         /\ \A c \in DOMAIN agg' : Apart(agg'[c].items, U2)
         /\ f \notin DOMAIN agg'
<1>1. TypeOK /\ Owners(H, U) /\ AggregatesProper
  BY InvFacts
<1>2. /\ f \notin DOMAIN agg /\ Born' = Born \cup {f} /\ f \in Promise /\ f > born /\ f \notin Born
  BY MakeFacts
<1>3. Handed(U, U2)
  BY <1>1, <1>2, NatFacts DEF Extends, Handed, Owners
<1>4. \A c \in DOMAIN agg : Inputs(agg[c].items) /\ Apart(agg[c].items, U)
  BY <1>1 DEF AggregatesProper, Owners
<1>5. \A c \in DOMAIN agg : Apart(agg[c].items, U2)
  BY <1>1, <1>3, <1>4, StillApart
<1>6. AggregatesProper'
  BY <1>1, <1>2 DEF AggregatesProper, Inputs, Makes, SameScript
<1> QED
  BY <1>2, <1>5, <1>6 DEF AggregatesGoOn

\* The activations of an executor and of a `then` for a new promise.
LEMMA NewGood ==
  ASSUME NEW k \in {"executor", "then"}, NEW f \in Promise, f \in Born', NEW H2, NEW U2, NEW n,
         f \notin DOMAIN H2, k = "executor" => f \in DOMAIN U2 /\ U2[f] = n
  PROVE  Active(k, f) \in Activation /\ GoodAt(Active(k, f), n, H2, U2)' /\ Active(k, f).k = k
<1> DEFINE a == Active(k, f)
<1>1. a \in Activation /\ a.k = k /\ a.p = f /\ a.todo = <<>>
  BY FreshActivation
<1> HIDE DEF a
<1>2. HeldAt(<<>>, OnStack(n), H2)'
  BY DEF HeldAt, Distinct
<1>3. GoodAt(a, n, H2, U2)'
  BY <1>1, <1>2 DEF GoodAt
<1> QED
  BY <1>1, <1>3 DEF a

LEMMA SameExtends ==
  ASSUME NEW F, NEW f
  PROVE  Extends(F, F, f)
BY DEF Extends

\* F, and f at place n.
With(F, f, n) == [y \in DOMAIN F \cup {f} |-> IF y = f THEN n ELSE F[y]]

LEMMA WithExtends ==
  ASSUME NEW F, NEW f, f \notin DOMAIN F, NEW n
  PROVE  Extends(F, With(F, f, n), f) /\ f \in DOMAIN With(F, f, n) /\ With(F, f, n)[f] = n
         /\ DOMAIN With(F, f, n) = DOMAIN F \cup {f}
BY DEF Extends, With

\* A new promise that script knows at once.
LEMMA FreshInv ==
  ASSUME NEW H, NEW U, Inv(H, U), NEW op, InScript(op),
         NEW st \in {"PENDING", "FULFILLED", "REJECTED"},
         NEW v \in AnyVal, v = Thenable => "adopting" \in script.may, MakeFresh(st, v),
         NEW f, f = Fresh,
         NEW T, T = ctl \/ T = Append(ctl, Active("then", f)),
         NEW R, R \subseteq {f}, Keep(R, T), R # {} => st = "PENDING",
         reactions' = reactions, source' = source, agg' = agg,
         open' \subseteq open \cup {f}, f \in open' => f \in R, known' \subseteq known \cup {f}
  PROVE  IInv'
<1>1. /\ TypeOK /\ Owners(H, U) /\ ctl \in Seq(Activation) /\ script.inline \in BOOLEAN
      /\ Ready(ctl, H, U) /\ Calm(ctl) /\ Numbered /\ AggTyped'
  BY InvFacts, ScriptFacts, SameAgg
<1>2. f \in Promise /\ f \notin Born /\ Born' = Born \cup {f} /\ f # None
  BY <1>1, FreshDoes, NatFacts
<1>3. f \notin DOMAIN H /\ f \notin open /\ None \notin DOMAIN U
  BY <1>1, <1>2, NatFacts DEF Owners, Numbered
<1>4. PICK n : n = Len(ctl) + 1
  OBVIOUS
<1>5. PICK a : a = Active("then", f)
  OBVIOUS
<1>6. a \in Activation /\ a.k = "then" /\ GoodAt(a, n, H, U)'
  BY <1>2, <1>3, <1>5, NewGood
<1>7. T \in Seq(Activation) /\ Calm(T)
  <2>1. CASE T = ctl
    BY <1>1, <2>1
  <2>2. CASE T = Append(ctl, a)
    <3>1. Calm(Append(ctl, a)) /\ Append(ctl, a) \in Seq(Activation)
      BY <1>1, <1>6, PushedType, CalmPush
    <3> QED
      BY <2>2, <3>1
  <2> QED
    BY <1>5, <2>1, <2>2
<1>8. Makes(f, T) /\ Effect(T, None, None, None, None)
  <2>1. f \notin DOMAIN agg'
    <3>1. AggregatesProper
      BY InvFacts
    <3> QED
      BY <1>2, <3>1 DEF AggregatesProper
  <2>2. f \in open' \cup DOMAIN agg' => f \in R
    BY <2>1
  <2> QED
    BY <1>1, <1>7, <2>2, FreshKept
<1>9. RacesAlone'
  BY <1>1, <1>7, <1>8, CalmStays
<1>10. Extends(H, H, f) /\ Extends(U, U, f)
  BY SameExtends
<1>11. /\ AggregatesGoOn /\ AggregatesProper'
       /\ \A c \in DOMAIN agg' : c \in DOMAIN agg \/ c = f
       /\ \A c \in DOMAIN agg' : Apart(agg'[c].items, U)
  BY <1>8, <1>10, AggMade
<1>12. f \notin DOMAIN U
  BY <1>8, MakeFacts
<1>13. T = ctl \/ T = Append(ctl, a)
  BY <1>5
<1>14. Inv(H, U)'
  BY <1>1, <1>3, <1>4, <1>6, <1>8, <1>9, <1>10, <1>11, <1>12, <1>13, MakeInv
<1> QED
  BY <1>14 DEF IInv

LEMMA MakePlainInv ==
  ASSUME NEW H, NEW U, Inv(H, U), WithResolvers \/ MakeSettled \/ MakeAdopting
  PROVE  IInv'
<1>1. PICK f : f = Fresh
  OBVIOUS
<1>2. f \notin open
  <2>1. TypeOK /\ Numbered
    BY InvFacts
  <2> QED
    BY <1>1, <2>1, NatFacts DEF Numbered, Fresh, Born
<1>3. NoVal \in AnyVal /\ NoVal # Thenable /\ \A v \in Val : v \in AnyVal /\ v # Thenable
  BY PromiseAssumption DEF AnyVal
<1>4. CASE WithResolvers
  BY <1>1, <1>3, <1>4, FreshInv DEF WithResolvers
<1>5. CASE MakeSettled
  <2>1. PICK v \in Val, st \in {"FULFILLED", "REJECTED"} : MakeFresh(st, v)
    BY <1>5 DEF MakeSettled
  <2> QED
    BY <1>1, <1>2, <1>3, <1>5, <2>1, FreshInv DEF MakeSettled
<1>6. CASE MakeAdopting
  BY <1>1, <1>3, <1>6, FreshInv DEF MakeAdopting
<1> QED
  BY <1>4, <1>5, <1>6

LEMMA ConstructInv ==
  ASSUME NEW H, NEW U, Inv(H, U), Construct
  PROVE  IInv'
<1>1. /\ TypeOK /\ Owners(H, U) /\ ctl \in Seq(Activation) /\ script.inline \in BOOLEAN
      /\ Numbered /\ InScript("construct") /\ MakeFresh("PENDING", NoVal)
      /\ reactions' = reactions /\ source' = source /\ agg' = agg /\ known' = known
      /\ open' = open \cup {Fresh}
      /\ NoVal \in AnyVal /\ NoVal # Thenable
  BY InvFacts, PromiseAssumption DEF Construct, TypeOK, AnyVal
<1>2. Ready(ctl, H, U) /\ Calm(ctl) /\ AggTyped'
  BY <1>1, ScriptFacts, SameAgg
<1>3. PICK f, n, a, U2 : /\ f = Fresh /\ n = Len(ctl) + 1 /\ a = Active("executor", f)
                         /\ U2 = With(U, f, n)
  OBVIOUS
<1>4. f \in Promise /\ f \notin Born /\ Born' = Born \cup {f} /\ f # None
  BY <1>1, <1>3, FreshDoes, NatFacts
<1>5. /\ f \notin DOMAIN H /\ f \notin DOMAIN U /\ f \notin known /\ None \notin DOMAIN U
  BY <1>1, <1>4, NatFacts DEF Owners, Numbered
<1>6. /\ Extends(H, H, f) /\ Extends(U, U2, f) /\ f \in DOMAIN U2 /\ U2[f] = n
      /\ DOMAIN U2 = DOMAIN U \cup {f}
  <2>1. /\ Extends(U, With(U, f, n), f) /\ f \in DOMAIN With(U, f, n) /\ With(U, f, n)[f] = n
        /\ DOMAIN With(U, f, n) = DOMAIN U \cup {f}
    BY <1>5, WithExtends
  <2> QED
    BY <1>3, <2>1, SameExtends
<1>7. a \in Activation /\ a.k = "executor" /\ GoodAt(a, n, H, U2)'
  BY <1>3, <1>4, <1>5, <1>6, NewGood
<1>8. PICK T : T = Append(ctl, a)
  OBVIOUS
<1>9. T \in Seq(Activation) /\ Calm(T)
  <2>1. Calm(Append(ctl, a)) /\ Append(ctl, a) \in Seq(Activation)
    BY <1>1, <1>2, <1>7, PushedType, CalmPush
  <2> QED
    BY <1>8, <2>1
<1>10. Keep({f}, T)
  BY <1>3, <1>8 DEF Construct
<1>11. Makes(f, T) /\ Effect(T, None, None, None, None)
  <2>1. {f} \subseteq {f} /\ open' \subseteq open \cup {f} /\ known' \subseteq known \cup {f} /\ f \in {f}
    BY <1>1, <1>3
  <2> QED
    BY <1>1, <1>2, <1>3, <1>9, <1>10, <2>1, FreshKept
<1>12. RacesAlone'
  BY <1>1, <1>9, <1>11, CalmStays
<1>13. /\ AggregatesGoOn /\ AggregatesProper' /\ f \notin DOMAIN agg'
       /\ \A c \in DOMAIN agg' : c \in DOMAIN agg \/ c = f
       /\ \A c \in DOMAIN agg' : Apart(agg'[c].items, U2)
  BY <1>1, <1>6, <1>11, AggMade
<1>14. f \notin known' /\ None \notin DOMAIN U2
  BY <1>1, <1>4, <1>5, <1>6
<1>15. Inv(H, U2)'
  BY <1>2, <1>3, <1>5, <1>6, <1>7, <1>8, <1>11, <1>12, <1>13, <1>14, MakeInv
<1> QED
  BY <1>15 DEF IInv

LEMMA ItemsFacts ==
  ASSUME NEW H, NEW U, Inv(H, U), NEW items \in Items
  PROVE  /\ DOMAIN items = 1 .. 2 /\ Len(items) = 2 /\ items \in Seq(AnyVal \cup Promise)
         /\ \A i \in 1 .. 2 : items[i] \in known \cup Val \cup {Thenable}
         /\ Inputs(items) /\ Apart(items, U)
         /\ \A i, j \in DOMAIN items : items[i] = Thenable /\ items[j] = Thenable => i = j
         /\ (\E i \in DOMAIN items : items[i] = Thenable) => "adopting" \in script.may
<1>1. TypeOK /\ Owners(H, U) /\ Numbered /\ known \subseteq Promise
  BY InvFacts DEF TypeOK
<1>2. \A z \in known : z # Thenable /\ z \in Born /\ z \in Promise /\ z \notin DOMAIN U
  BY <1>1, PromiseAssumption DEF Owners, Numbered
<1>3. \A z \in Val \cup {Thenable} : z \in AnyVal /\ z \notin Promise /\ z \notin DOMAIN U
  BY <1>1, NatFacts, PromiseAssumption DEF AnyVal, Owners
<1>4. \A z \in Val : z # Thenable
  BY PromiseAssumption
<1>5. PICK x, y : /\ items = <<x, y>> /\ x \in known \cup Val \cup {Thenable}
                  /\ y \in known \cup Val \cup {Thenable}
                  /\ ~(x = Thenable /\ y = Thenable)
                  /\ x = Thenable \/ y = Thenable => "adopting" \in script.may
  <2>1. CASE "adopting" \in script.may
    BY <1>2, <2>1 DEF Items
  <2>2. CASE "adopting" \notin script.may
    BY <1>2, <1>4, <2>2 DEF Items
  <2> QED
    BY <2>1, <2>2
<1>6. DOMAIN items = 1 .. 2 /\ Len(items) = 2 /\ items[1] = x /\ items[2] = y
  BY <1>5
<1>7. items \in Seq(AnyVal \cup Promise)
  BY <1>2, <1>3, <1>5
<1>8. \A i \in 1 .. 2 : i = 1 \/ i = 2
  OBVIOUS
<1>9. Inputs(items) /\ Apart(items, U)
  BY <1>2, <1>3, <1>5, <1>6, <1>8 DEF Inputs, Apart
<1> QED
  BY <1>5, <1>6, <1>7, <1>8, <1>9

LEMMA AnyOfInv ==
  ASSUME NEW H, NEW U, Inv(H, U), AnyOf
  PROVE  IInv'
<1>1. /\ TypeOK /\ InScript("any") /\ ThenablesAllowed /\ value \in [Promise -> AnyVal]
  BY InvFacts DEF AnyOf, TypeOK
<1>2. PICK f : f = Fresh
  OBVIOUS
<1>3. PICK items \in Items :
        LET hits == {i \in DOMAIN items : Fulfills(items[i])}
            first == items[CHOOSE i \in hits : \A j \in hits : i <= j]
            pending == \E i \in DOMAIN items :
                         items[i] \in Promise /\ state[items[i]] = "PENDING"
        IN  \/ hits # {} /\ MakeFresh("FULFILLED", Unwrap(first))
            \/ hits = {} /\ pending /\ MakeFresh("PENDING", NoVal)
            \/ hits = {} /\ ~pending /\ MakeFresh("REJECTED", AggregateError)
  BY DEF AnyOf
<1>4. /\ DOMAIN items = 1 .. 2
      /\ \A i \in 1 .. 2 : items[i] \in known \cup Val \cup {Thenable}
      /\ (\E i \in DOMAIN items : items[i] = Thenable) => "adopting" \in script.may
  BY ItemsFacts
<1>5. /\ NoVal \in AnyVal /\ NoVal # Thenable
      /\ AggregateError \in AnyVal /\ AggregateError # Thenable
      /\ \A z \in Val \cup {Thenable} : z \in AnyVal /\ z \notin Promise
  BY PromiseAssumption DEF AnyVal
<1>6. \E st \in {"PENDING", "FULFILLED", "REJECTED"} : \E v \in AnyVal :
        (v = Thenable => "adopting" \in script.may) /\ MakeFresh(st, v)
  <2> DEFINE hits == {i \in DOMAIN items : Fulfills(items[i])}
             m == CHOOSE i \in hits : \A j \in hits : i <= j
  <2>1. CASE hits # {} /\ MakeFresh("FULFILLED", Unwrap(items[m]))
    <3>1. \E i \in hits : \A j \in hits : i <= j
      <4>1. hits \subseteq {1, 2}
        BY <1>4
      <4> QED
        BY <2>1, <4>1
    <3>2. m \in hits
      BY <3>1
    <3> HIDE DEF m
    <3>3. m \in DOMAIN items /\ items[m] \in known \cup Val \cup {Thenable}
      BY <1>4, <3>2
    <3>4. PICK v : v = Unwrap(items[m])
      OBVIOUS
    <3>5. v \in AnyVal /\ (v = Thenable => "adopting" \in script.may)
      <4>1. CASE items[m] \in Promise
        BY <1>1, <3>4, <4>1 DEF Unwrap, ThenablesAllowed
      <4>2. CASE items[m] \notin Promise
        <5>1. items[m] \in Val \cup {Thenable}
          BY <1>1, <3>3, <4>2 DEF TypeOK
        <5> QED
          BY <1>4, <1>5, <3>3, <3>4, <4>2, <5>1 DEF Unwrap
      <4> QED
        BY <4>1, <4>2
    <3> QED
      BY <2>1, <3>4, <3>5
  <2>2. CASE MakeFresh("PENDING", NoVal)
    BY <1>5, <2>2
  <2>3. CASE MakeFresh("REJECTED", AggregateError)
    BY <1>5, <2>3
  <2> QED
    BY <1>3, <2>1, <2>2, <2>3
<1>7. PICK st \in {"PENDING", "FULFILLED", "REJECTED"}, v \in AnyVal :
        (v = Thenable => "adopting" \in script.may) /\ MakeFresh(st, v)
  BY <1>6
<1>8. f \notin open
  <2>1. Numbered
    BY InvFacts
  <2> QED
    BY <1>1, <1>2, <2>1, NatFacts DEF Numbered, Fresh, Born
<1>9. /\ reactions' = reactions /\ source' = source /\ agg' = agg /\ Keep({}, ctl)
      /\ open' = open /\ known' = known \cup {f}
  BY <1>2 DEF AnyOf
<1> QED
  BY <1>1, <1>2, <1>7, <1>8, <1>9, FreshInv

LEMMA ThenInv ==
  ASSUME NEW H, NEW U, Inv(H, U), Then
  PROVE  IInv'
<1>1. /\ TypeOK /\ Owners(H, U) /\ ctl \in Seq(Activation) /\ script.inline \in BOOLEAN
      /\ Numbered /\ InScript("then") /\ MakeFresh("PENDING", NoVal)
      /\ source' = source /\ agg' = agg /\ known' = known \cup {Fresh}
      /\ open' = open /\ NoVal \in AnyVal /\ NoVal # Thenable /\ AggregatesProper
  BY InvFacts, PromiseAssumption DEF Then, TypeOK, AnyVal
<1>2. /\ Ready(ctl, H, U) /\ Calm(ctl) /\ AggTyped'
      /\ SameScript /\ ScriptSound' /\ script'.left \in 0 .. MaxOps
  BY <1>1, ScriptFacts, SameAgg
<1>3. PICK f, n : f = Fresh /\ n = Len(ctl) + 1
  OBVIOUS
<1>4. /\ f = born + 1 /\ born < MaxPromises /\ born' = f /\ f \in Promise
      /\ state'[f] = "PENDING" /\ \A y \in Promise : y # f => state'[y] = state[y]
      /\ state' \in [Promise -> States] /\ value' \in [Promise -> AnyVal]
      /\ ThenablesAllowed' /\ Settles(None) /\ f \notin Born /\ Born' = Born \cup {f}
  BY <1>1, <1>3, FreshDoes
<1>5. /\ f \notin DOMAIN H /\ f \notin DOMAIN U /\ f \notin open /\ f # None /\ f \notin DOMAIN agg
      /\ \A y \in Born : y \in Promise /\ y # f
  BY <1>1, <1>4, NatFacts DEF Owners, Numbered, AggregatesProper
<1>6. PICK x, r : /\ x \in known /\ r \in Reaction /\ ThenOn(x, r, {}, ctl) /\ r.np = f
                  /\ r.onF.do \in {"js", "none"} /\ r.onR.do \in {"js", "none"}
                  /\ r.onF.to = None /\ r.onR.to = None /\ r.onF.at = 0 /\ r.onR.at = 0
  <2>1. PICK x \in known, g \in {Js, NoHandler}, h \in {Js, NoHandler} :
          ThenOn(x, [onF |-> g, onR |-> h, np |-> f], {}, ctl)
    BY <1>3 DEF Then
  <2>2. PICK r : r = [onF |-> g, onR |-> h, np |-> f]
    OBVIOUS
  <2>3. /\ g \in Handler /\ h \in Handler /\ g.do \in {"js", "none"} /\ h.do \in {"js", "none"}
        /\ g.to = None /\ h.to = None /\ g.at = 0 /\ h.at = 0
    BY DEF Js, NoHandler, Calls, Handler, None
  <2>4. r \in Reaction
    BY <1>4, <2>2, <2>3 DEF Reaction
  <2> QED
    BY <2>1, <2>2, <2>3, <2>4
<1>7. x \in Born /\ x \in Promise /\ x # None /\ x # f /\ x \notin DOMAIN U
      /\ state[x] # "UNBORN" /\ state'[x] = state[x]
  <2>1. x \in Born /\ x \in Promise /\ x # f
    BY <1>1, <1>5, <1>6 DEF Numbered
  <2>2. x # None /\ state[x] # "UNBORN"
    BY <1>1, <2>1, NatFacts DEF Numbered
  <2> QED
    BY <1>1, <1>4, <1>6, <2>1, <2>2 DEF Owners
<1>8. PICK d \in {x, None} :
           /\ Wakes(ctl, d) /\ Registers(x, r) /\ Roots({} \cup IfPending(x))
           /\ TasksTyped' /\ reactions' \in [Promise -> Seq(Reaction)]
  BY <1>1, <1>6, <1>7, ThenOnDoes
<1>9. RootsGrow /\ rooted' \subseteq Born
  BY <1>1, <1>7, <1>8 DEF Roots, RootsGrow, IfPending, Numbered
<1>10. PromisesTyped'
  BY <1>1, <1>4, <1>8 DEF PromisesTyped, TypeOK
<1>11. Makes(f, ctl)
  BY <1>1, <1>2, <1>3, <1>4, <1>5, <1>8, <1>9, <1>10 DEF Makes
<1>12. Effect(ctl, x, r, None, d)
  BY <1>1, <1>2, <1>4, <1>7, <1>8, <1>9 DEF Effect, SameScript
<1>13. RacesAlone'
  BY <1>1, <1>2, <1>12, CalmStays
<1>14. PICK h, H2 : h = OnList(x) /\ H2 = With(H, f, h)
  OBVIOUS
<1>15. /\ Extends(H, H2, f) /\ f \in DOMAIN H2 /\ H2[f] = OnList(x)
       /\ DOMAIN H2 = DOMAIN H \cup {f}
  <2>1. /\ Extends(H, With(H, f, h), f) /\ f \in DOMAIN With(H, f, h) /\ With(H, f, h)[f] = h
        /\ DOMAIN With(H, f, h) = DOMAIN H \cup {f}
    BY <1>5, WithExtends
  <2> QED
    BY <1>14, <2>1
<1>16. Extends(U, U, f)
  BY SameExtends
<1>17. /\ AggregatesGoOn /\ AggregatesProper' /\ f \notin DOMAIN agg'
       /\ \A c \in DOMAIN agg' : c \in DOMAIN agg \/ c = f
       /\ \A c \in DOMAIN agg' : Apart(agg'[c].items, U)
  BY <1>1, <1>11, <1>16, AggMade
<1>18. Good(r, DOMAIN H2)'
  <2>1. None \notin DOMAIN H2
    BY <1>1, <1>5, <1>15, NatFacts DEF Owners
  <2> QED
    BY <1>4, <1>6, <1>15, <2>1 DEF Good, Proper
<1>19. Inv(H2, U)'
  <2>1. /\ state'[f] = "PENDING" /\ f \notin open'
    BY <1>1, <1>4, <1>5
  <2>2. r.np = f
    BY <1>6
  <2> QED
    BY <1>2, <1>3, <1>5, <1>7, <1>11, <1>12, <1>13, <1>15, <1>16, <1>17, <1>18, <2>1, <2>2, MakeInv
<1> QED
  BY <1>19 DEF IInv

LEMMA RaceInv ==
  ASSUME NEW H, NEW U, Inv(H, U), Race
  PROVE  IInv'
<1>1. /\ TypeOK /\ Owners(H, U) /\ ctl \in Seq(Activation) /\ script.inline \in BOOLEAN
      /\ Numbered /\ InScript("race") /\ MakeFresh("PENDING", NoVal)
      /\ reactions' = reactions /\ source' = source /\ agg' = agg /\ known' = known
      /\ open' = open /\ NoVal \in AnyVal /\ NoVal # Thenable
  BY InvFacts, PromiseAssumption DEF Race, TypeOK, AnyVal
<1>2. /\ Ready(ctl, H, U) /\ Calm(ctl) /\ AggTyped' /\ SameScript /\ "race" \in script.may
  BY <1>1, ScriptFacts, SameAgg
<1>3. PICK f, n, U2 : f = Fresh /\ n = Len(ctl) + 1 /\ U2 = With(U, f, n)
  OBVIOUS
<1>4. f \in Promise /\ f \notin Born /\ Born' = Born \cup {f} /\ f # None
  BY <1>1, <1>3, FreshDoes, NatFacts
<1>5. /\ f \notin DOMAIN H /\ f \notin DOMAIN U /\ f \notin known /\ None \notin DOMAIN U
      /\ f \notin open /\ f \notin rooted
  BY <1>1, <1>4, NatFacts DEF Owners, Numbered
<1>6. /\ Extends(H, H, f) /\ Extends(U, U2, f) /\ f \in DOMAIN U2 /\ U2[f] = n
      /\ DOMAIN U2 = DOMAIN U \cup {f}
  <2>1. /\ Extends(U, With(U, f, n), f) /\ f \in DOMAIN With(U, f, n) /\ With(U, f, n)[f] = n
        /\ DOMAIN With(U, f, n) = DOMAIN U \cup {f}
    BY <1>5, WithExtends
  <2> QED
    BY <1>3, <2>1, SameExtends
<1>7. PICK items, a : /\ items \in Items /\ a = [Active("race", f) EXCEPT !.items = items]
                      /\ Keep({}, Append(ctl, a))
  BY <1>3 DEF Race
<1>8. /\ items \in Seq(AnyVal \cup Promise) /\ Inputs(items) /\ Apart(items, U)
      /\ (\E i \in DOMAIN items : items[i] = Thenable) => "adopting" \in script.may
  BY <1>7, ItemsFacts
<1>9. /\ a \in Activation /\ a.k = "race" /\ a.p = f /\ a.todo = <<>> /\ a.at = 1
      /\ a.items = items
  <2>1. a = [k |-> "race", p |-> f, ok |-> FALSE, todo |-> <<>>, at |-> 1, wp |-> None,
             items |-> items]
    BY <1>7 DEF Active
  <2>2. <<>> \in Seq(Reaction)
    BY EmptySeq
  <2> QED
    BY <1>4, <1>8, <2>1, <2>2 DEF Activation
<1>10. GoodAt(a, n, H, U2)'
  <2>1. HeldAt(<<>>, OnStack(n), H)'
    BY DEF HeldAt, Distinct
  <2>2. Apart(items, U2) /\ Inputs(items)'
    BY <1>4, <1>6, <1>8 DEF Apart, Inputs
  <2>3. RacesOver(a, U2)'
    BY <1>2, <1>8, <1>9, <2>2 DEF RacesOver, SameScript
  <2> QED
    BY <1>4, <1>5, <1>6, <1>9, <2>1, <2>3 DEF GoodAt
<1>11. PICK T : T = Append(ctl, a)
  OBVIOUS
<1>12. /\ T \in Seq(Activation) /\ Len(T) = n /\ Len(ctl) \in Nat /\ T[n] = a
       /\ \A i \in 1 .. Len(ctl) : T[i] = ctl[i]
  BY <1>1, <1>3, <1>9, <1>11, PushedType
<1>13. Makes(f, T) /\ Effect(T, None, None, None, None) /\ rooted' = rooted \cup {}
  <2>1. {} \subseteq {f} /\ open' \subseteq open \cup {f} /\ known' \subseteq known \cup {f}
        /\ f \notin open' /\ Keep({}, T)
    BY <1>1, <1>5, <1>7, <1>11
  <2>2. f \notin open' \cup DOMAIN agg'
    <3>1. AggregatesProper
      BY InvFacts
    <3> QED
      BY <1>1, <1>4, <2>1, <3>1 DEF AggregatesProper
  <2> QED
    BY <1>1, <1>2, <1>3, <1>12, <2>1, <2>2, FreshKept
<1>14. RacesAlone'
  <2>1. ctl' = T /\ RacesThenables' = RacesThenables
    BY <1>2, <1>7, <1>11 DEF Keep, RacesThenables, SameScript
  <2>2. \A j \in 1 .. Len(T) : j \in 1 .. Len(ctl) \/ j = n
    BY <1>3, <1>12
  <2> QED
    BY <1>2, <1>5, <1>9, <1>12, <1>13, <2>1, <2>2 DEF RacesAlone, Calm
<1>15. /\ AggregatesGoOn /\ AggregatesProper' /\ f \notin DOMAIN agg'
       /\ \A c \in DOMAIN agg' : c \in DOMAIN agg \/ c = f
       /\ \A c \in DOMAIN agg' : Apart(agg'[c].items, U2)
  BY <1>1, <1>6, <1>13, AggMade
<1>16. f \notin known' /\ None \notin DOMAIN U2
  BY <1>1, <1>4, <1>5, <1>6
<1>17. /\ T = Append(ctl, a) /\ a \in Activation /\ GoodAt(a, n, H, U2)'
       /\ Extends(H, H, f) /\ Extends(U, U2, f) /\ n = Len(ctl) + 1
       /\ f \notin DOMAIN H
  BY <1>3, <1>5, <1>6, <1>9, <1>10, <1>11
<1>18. Makes(f, T) /\ Effect(T, None, None, None, None) /\ Ready(ctl, H, U)
  BY <1>2, <1>13
<1>19. Inv(H, U2)'
  BY <1>14, <1>15, <1>16, <1>17, <1>18, MakeInv
<1> QED
  BY <1>19 DEF IInv

LEMMA AllInv ==
  ASSUME NEW H, NEW U, Inv(H, U), All
  PROVE  IInv'
<1>1. /\ TypeOK /\ Owners(H, U) /\ ctl \in Seq(Activation) /\ script.inline \in BOOLEAN
      /\ Numbered /\ InScript("all") /\ MakeFresh("PENDING", Array) /\ AggregatesProper
      /\ reactions' = reactions /\ source' = source /\ known' = known
      /\ open' = open /\ Array \in AnyVal /\ Array # Thenable /\ NoVal \in AnyVal
  BY InvFacts, PromiseAssumption DEF All, TypeOK, AnyVal
<1>2. /\ Ready(ctl, H, U) /\ Calm(ctl) /\ SameScript /\ "all" \in script.may
  BY <1>1, ScriptFacts
<1>3. PICK f, n, a : f = Fresh /\ n = Len(ctl) + 1 /\ a = Active("build", f)
  OBVIOUS
<1>4. /\ f \in Promise /\ f \notin Born /\ Born' = Born \cup {f} /\ f # None /\ f = born + 1
      /\ born < MaxPromises /\ born \in Nat /\ MaxPromises \in Nat
  BY <1>1, <1>3, FreshDoes, NatFacts
<1>5. /\ f \notin DOMAIN H /\ f \notin DOMAIN U /\ f \notin known /\ None \notin DOMAIN U
      /\ f \notin open /\ f \notin DOMAIN agg
  BY <1>1, <1>4, NatFacts DEF Owners, Numbered, AggregatesProper
<1>6. PICK items \in Items, all \in BOOLEAN :
       agg' = [c \in DOMAIN agg \cup {f} |->
                 IF c # f THEN agg[c]
                 ELSE [items |-> items, values |-> [i \in DOMAIN items |-> Hole],
                       all |-> all, remaining |-> 0, live |-> 0,
                       settled |-> FALSE, freed |-> FALSE]]
  BY <1>3 DEF All
<1>7. /\ items \in Seq(AnyVal \cup Promise) /\ Inputs(items) /\ Apart(items, U)
      /\ DOMAIN items = 1 .. 2 /\ Len(items) = 2
      /\ \A i, j \in DOMAIN items : items[i] = Thenable /\ items[j] = Thenable => i = j
      /\ (\E i \in DOMAIN items : items[i] = Thenable) => "adopting" \in script.may
  BY ItemsFacts
<1>8. PICK X : X = [items |-> items, values |-> [i \in DOMAIN items |-> Hole],
                    all |-> all, remaining |-> 0, live |-> 0, settled |-> FALSE, freed |-> FALSE]
  OBVIOUS
<1>9. /\ DOMAIN agg' = DOMAIN agg \cup {f} /\ agg'[f] = X
      /\ \A c \in DOMAIN agg : agg'[c] = agg[c]
  BY <1>5, <1>6, <1>8
<1>10. PICK V : V = [i \in 1 .. 2 |-> Hole]
  OBVIOUS
<1>11. V \in Seq(Outcome) /\ Len(V) = 2 /\ X.values = V /\ X.items = items
  <2>1. Hole \in Outcome
    BY <1>1 DEF Hole, Outcome, States
  <2>2. V \in [1 .. 2 -> Outcome]
    BY <1>10, <2>1
  <2>3. V \in Seq(Outcome)
    <3>1. \E m \in Nat : V \in [1 .. m -> Outcome]
      BY <2>2
    <3> QED
      BY <3>1, SeqDef
  <2>4. Len(V) \in Nat /\ 1 .. 2 = 1 .. Len(V)
    BY <2>2, <2>3, LenProperties
  <2>5. Len(V) = 2
    <3>1. 2 \in 1 .. Len(V)
      BY <2>4
    <3>2. Len(V) \in 1 .. Len(V)
      BY <2>4, <3>1
    <3>3. Len(V) \in 1 .. 2
      BY <2>4, <3>2
    <3>4. PICK m \in Nat : m = Len(V)
      BY <2>4
    <3>5. m >= 2 /\ m <= 2
      BY <3>1, <3>3, <3>4
    <3> QED
      BY <3>4, <3>5
  <2> QED
    BY <1>7, <1>8, <1>10, <2>3, <2>5
<1>12. X \in Context
  <2>1. X = [items |-> items, values |-> V, all |-> all, remaining |-> 0, live |-> 0,
             settled |-> FALSE, freed |-> FALSE]
    BY <1>7, <1>8, <1>10
  <2> QED
    BY <1>7, <1>11, <2>1 DEF Context
<1>13. AggTyped'
  BY <1>1, <1>4, <1>9, <1>12 DEF AggTyped, TypeOK
<1>14. AggregatesGoOn
  BY <1>9 DEF AggregatesGoOn
<1>15. AggregatesProper'
  <2>1. script'.may = script.may /\ f <= MaxPromises /\ Inputs(items)'
    BY <1>2, <1>4, <1>7 DEF SameScript, Inputs
  <2>2. /\ f \in Born' /\ f <= MaxPromises /\ "all" \in script'.may
        /\ (\E i \in DOMAIN X.items : X.items[i] = Thenable) => "adopting" \in script'.may
        /\ Len(X.values) = Len(X.items) /\ Inputs(X.items)'
        /\ \A i, j \in DOMAIN X.items : X.items[i] = Thenable /\ X.items[j] = Thenable => i = j
    BY <1>2, <1>4, <1>7, <1>11, <2>1
  <2>3. ASSUME NEW c \in DOMAIN agg
        PROVE  /\ c \in Born' /\ c <= MaxPromises /\ "all" \in script'.may
               /\ (\E i \in DOMAIN agg[c].items : agg[c].items[i] = Thenable)
                     => "adopting" \in script'.may
               /\ Len(agg[c].values) = Len(agg[c].items)
               /\ \A i \in DOMAIN agg[c].items :
                    agg[c].items[i] \in Promise => agg[c].items[i] \in Born'
               /\ \A i, j \in DOMAIN agg[c].items :
                    agg[c].items[i] = Thenable /\ agg[c].items[j] = Thenable => i = j
    BY <1>1, <1>4, <2>1 DEF AggregatesProper, Inputs
  <2> QED
    BY <1>9, <2>2, <2>3 DEF AggregatesProper, Inputs
<1>16. Extends(H, H, f) /\ Extends(U, U, f)
  BY SameExtends
<1>17. \A c \in DOMAIN agg' : Apart(agg'[c].items, U)
  BY <1>1, <1>7, <1>9, <1>11 DEF Owners
<1>18. a \in Activation /\ a.k = "build" /\ a.p = f /\ a.todo = <<>> /\ a.at = 1 /\ a.wp = None
  BY <1>3, <1>4, FreshActivation
<1>19. GoodAt(a, n, H, U)'
  <2>1. HeldAt(<<>>, OnStack(n), H)'
    BY DEF HeldAt, Distinct
  <2>2. BuildsOn(a)'
    BY <1>7, <1>9, <1>11, <1>18 DEF BuildsOn
  <2> QED
    BY <1>4, <1>9, <1>18, <2>1, <2>2 DEF GoodAt
<1>20. PICK T : T = Append(ctl, a)
  OBVIOUS
<1>21. T \in Seq(Activation) /\ Calm(T)
  <2>1. Calm(Append(ctl, a)) /\ Append(ctl, a) \in Seq(Activation)
    BY <1>1, <1>2, <1>18, PushedType, CalmPush
  <2> QED
    BY <1>20, <2>1
<1>22. Makes(f, T) /\ Effect(T, None, None, None, None) /\ state'[f] = "PENDING"
  <2>1. {f} \subseteq {f} /\ open' \subseteq open \cup {f} /\ known' \subseteq known \cup {f}
        /\ f \notin open'
    BY <1>1, <1>5
  <2>2. Keep({f}, T)
    BY <1>3, <1>20 DEF All
  <2> QED
    BY <1>1, <1>3, <1>13, <1>21, <2>1, <2>2, FreshKept
<1>23. RacesAlone'
  BY <1>1, <1>21, <1>22, CalmStays
<1>24. Inv(H, U)'
  <2>1. \A c \in DOMAIN agg' : c \in DOMAIN agg \/ c = f
    BY <1>9
  <2> QED
    BY <1>2, <1>3, <1>5, <1>14, <1>15, <1>16, <1>17, <1>18, <1>19, <1>20, <1>22, <1>23, <2>1, MakeInv
<1> QED
  BY <1>24 DEF IInv

----------------------------------------------------------------------------
(* Aggregations.                                                           *)

\* A is agg, but for outcomes and counts.
Alike(A) ==
  /\ DOMAIN A = DOMAIN agg
  /\ \A c \in DOMAIN agg :
       A[c] \in Context /\ A[c].items = agg[c].items /\ Len(A[c].values) = Len(agg[c].values)

LEMMA AlikeAgg ==
  ASSUME TypeOK
  PROVE  /\ Alike(agg)
         /\ \A A : Alike(A) /\ agg' = A => SameInputs /\ AggTyped'
BY DEF TypeOK, Alike, SameInputs, AggTyped

LEMMA AlikeChanged ==
  ASSUME NEW A, Alike(A), NEW c \in DOMAIN agg, NEW X \in Context,
         X.items = A[c].items, Len(X.values) = Len(A[c].values)
  PROVE  Alike([A EXCEPT ![c] = X])
BY DEF Alike

LEMMA AlikeSettled ==
  ASSUME NEW A, Alike(A), NEW c \in DOMAIN agg
  PROVE  Alike([A EXCEPT ![c].settled = TRUE])
<1>1. PICK X : X = [A[c] EXCEPT !.settled = TRUE]
  OBVIOUS
<1>2. X \in Context /\ X.items = A[c].items /\ X.values = A[c].values
  BY <1>1 DEF Alike, Context
<1>3. Alike([A EXCEPT ![c] = X])
  BY <1>2, AlikeChanged
<1> QED
  BY <1>1, <1>3

LEMMA AlikeFreed ==
  ASSUME NEW A, Alike(A), NEW c \in DOMAIN agg, NEW b \in BOOLEAN
  PROVE  Alike([A EXCEPT ![c].freed = b])
<1>1. PICK X : X = [A[c] EXCEPT !.freed = b]
  OBVIOUS
<1>2. X \in Context /\ X.items = A[c].items /\ X.values = A[c].values
  BY <1>1 DEF Alike, Context
<1>3. Alike([A EXCEPT ![c] = X])
  BY <1>2, AlikeChanged
<1> QED
  BY <1>1, <1>3

LEMMA AlikeCounted ==
  ASSUME NEW A, Alike(A), NEW c \in DOMAIN agg, NEW n \in Nat
  PROVE  Alike([A EXCEPT ![c].remaining = n]) /\ Alike([A EXCEPT ![c].live = n])
<1>1. PICK X, Y : X = [A[c] EXCEPT !.remaining = n] /\ Y = [A[c] EXCEPT !.live = n]
  OBVIOUS
<1>2. /\ X \in Context /\ X.items = A[c].items /\ X.values = A[c].values
      /\ Y \in Context /\ Y.items = A[c].items /\ Y.values = A[c].values
  BY <1>1 DEF Alike, Context
<1>3. Alike([A EXCEPT ![c] = X]) /\ Alike([A EXCEPT ![c] = Y])
  BY <1>2, AlikeChanged
<1> QED
  BY <1>1, <1>3

LEMMA AlikeStored ==
  ASSUME TypeOK, NEW c \in DOMAIN agg, NEW i \in DOMAIN agg[c].values, NEW out \in Outcome
  PROVE  Alike(Store(c, i, out))
<1>1. Alike(agg) /\ agg[c] \in Context /\ agg[c].values \in Seq(Outcome)
  BY AlikeAgg DEF TypeOK, Context
<1>2. PICK W : W = [agg[c].values EXCEPT ![i] = out]
  OBVIOUS
<1>3. W \in Seq(Outcome) /\ Len(W) = Len(agg[c].values)
  BY <1>1, <1>2, ExceptSeq
<1>4. PICK X : X = [agg[c] EXCEPT !.values = W]
  OBVIOUS
<1>5. X \in Context /\ X.items = agg[c].items /\ X.values = W
  BY <1>1, <1>3, <1>4 DEF Context
<1>6. Alike([agg EXCEPT ![c] = X])
  BY <1>1, <1>3, <1>5, AlikeChanged
<1> QED
  BY <1>2, <1>4, <1>6 DEF Store

\* A native function of an aggregation settles its result, unless it is settled.
LEMMA AggregateInv ==
  ASSUME NEW H, NEW U, NEW S, Ready(S, H, U), Calm(S), NEW c \in DOMAIN agg,
         NEW A, Alike(A), agg' = A, born' = born, script' = script, script.left \in 0 .. MaxOps,
         known' \subseteq Born, \A y \in known' : y \in known \/ y \notin DOMAIN U,
         NEW st \in Final, NEW v \in AnyVal, v = Thenable => "adopting" \in script.may,
         \/ Skip(S)
         \/ state[c] = "PENDING" /\ Conclude(c, st, v, None, S)
  PROVE  Inv(H, U)'
<1>1. /\ TypeOK /\ Owners(H, U) /\ Sure /\ AggregatesProper /\ ScriptSound /\ S \in Seq(Activation)
  BY DEF Ready, Base, Counts, Sure
<1>2. /\ c \in Born /\ c \notin DOMAIN H /\ None \notin Promise /\ None \notin DOMAIN U
  BY <1>1, NatFacts DEF Owners, AggregatesProper
<1>3. SameScript /\ ScriptSound' /\ script'.left \in 0 .. MaxOps /\ SameInputs /\ AggTyped'
  BY <1>1, AlikeAgg DEF SameScript, ScriptSound
<1>4. CASE Skip(S)
  BY <1>3, <1>4, SkipInv
<1>5. CASE state[c] = "PENDING" /\ Conclude(c, st, v, None, S)
  <2>1. None \in Promise \cup {None}
    OBVIOUS
  <2>2. PICK d : Passes(S, c, None, S, None, None, c, d)
    BY <1>1, <1>2, <1>3, <1>5, <2>1, ConcludePasses
  <2> QED
    BY <1>2, <1>3, <2>2, PassesInv
<1> QED
  BY <1>4, <1>5

\* The release of a context by a reaction, and the end of the building.
LEMMA ReleaseInv ==
  ASSUME NEW H, NEW U, Inv(H, U), Release \/ Built
  PROVE  IInv'
<1>1. /\ TypeOK /\ Base(H, U) /\ Numbered /\ script.left \in 0 .. MaxOps /\ Owners(H, U)
      /\ AggTyped
  BY InvFacts
<1>2. /\ ctl # <<>> /\ Top.k \in {"release", "built"} /\ Skip(Below)
      /\ born' = born /\ script' = script
  BY DEF Release, Built, Ends
<1>3. PICK c : c = Top.p
  OBVIOUS
<1>4. c \in DOMAIN agg /\ c \in Born /\ agg[c] \in Context /\ Alike(agg)
  BY <1>1, <1>2, <1>3, StackReady, AlikeAgg DEF GoodAt, AggTyped
<1>5. Ready(Below, H, U) /\ Calm(Below)
  BY <1>1, <1>2, RestGood, BelowReady
<1>6. known' \subseteq Born /\ \A y \in known' : y \in known \/ y \notin DOMAIN U
  BY <1>1, <1>3, <1>4 DEF Release, Built, Numbered, Owners
<1>7. \E A : Alike(A) /\ agg' = A
  <2>1. CASE Release
    <3>1. PICK n, b : /\ n = IF agg[c].live > 0 THEN agg[c].live - 1 ELSE 0
                      /\ b = (agg[c].live <= 1)
      OBVIOUS
    <3>2. n \in Nat /\ b \in BOOLEAN
      BY <1>4, <3>1 DEF Context
    <3>3. PICK B : B = [agg EXCEPT ![c].live = n]
      OBVIOUS
    <3>4. Alike(B)
      BY <1>4, <3>2, <3>3, AlikeCounted
    <3>5. Alike([B EXCEPT ![c].freed = b])
      BY <1>4, <3>2, <3>4, AlikeFreed
    <3>6. agg' = [B EXCEPT ![c].freed = b]
      BY <1>3, <2>1, <3>1, <3>3 DEF Release
    <3> QED
      BY <3>5, <3>6
  <2>2. CASE Built
    <3>1. PICK b : b = (agg[c].freed \/ agg[c].live = 0)
      OBVIOUS
    <3>2. b \in BOOLEAN
      BY <3>1
    <3>3. Alike([agg EXCEPT ![c].freed = b])
      BY <1>4, <3>2, AlikeFreed
    <3>4. agg' = [agg EXCEPT ![c].freed = b]
      BY <1>3, <2>2, <3>1 DEF Built
    <3> QED
      BY <3>3, <3>4
  <2> QED
    BY <2>1, <2>2
<1>8. SameInputs /\ AggTyped'
  BY <1>1, <1>7, AlikeAgg
<1>9. SameScript /\ ScriptSound' /\ script'.left \in 0 .. MaxOps
  BY <1>1, <1>2, InvFacts DEF SameScript, ScriptSound
<1>10. Inv(H, U)'
  BY <1>2, <1>5, <1>6, <1>8, <1>9, SkipInv
<1> QED
  BY <1>10 DEF IInv

\* The loop over the inputs is done.
LEMMA BuildEndInv ==
  ASSUME NEW H, NEW U, Inv(H, U), BuildEnd
  PROVE  IInv'
<1>1. /\ TypeOK /\ Base(H, U) /\ Numbered /\ script.left \in 0 .. MaxOps /\ Owners(H, U)
      /\ AggTyped
  BY InvFacts
<1>2. /\ ctl # <<>> /\ Top.k = "build" /\ born' = born /\ script' = script /\ known' = known
  BY DEF BuildEnd, Ends
<1>3. PICK c, a, S : c = Top.p /\ a = Active("built", c) /\ S = Replaced(a)
  OBVIOUS
<1>4. c \in DOMAIN agg /\ c \in Born /\ c \in Promise /\ Alike(agg)
  BY <1>1, <1>2, <1>3, StackReady, AlikeAgg, NatFacts DEF GoodAt
<1>5. a \in Activation /\ a.k = "built" /\ a.p = c /\ a.todo = <<>>
  BY <1>3, <1>4, FreshActivation
<1>6. GoodAt(a, Len(ctl), H, U)
  <2>1. HeldAt(<<>>, OnStack(Len(ctl)), H)
    BY DEF HeldAt, Distinct
  <2> QED
    BY <1>4, <1>5, <2>1 DEF GoodAt
<1>7. Ready(S, H, U) /\ Calm(S)
  BY <1>1, <1>2, <1>3, <1>5, <1>6, RestGood, ReplacedReady
<1>8. known' \subseteq Born /\ \A y \in known' : y \in known \/ y \notin DOMAIN U
  BY <1>1, <1>2 DEF Numbered
<1>9. "FULFILLED" \in Final /\ Array \in AnyVal /\ Array # Thenable
  BY PromiseAssumption DEF Final, AnyVal
<1>10. \E A : /\ Alike(A) /\ agg' = A
              /\ \/ Skip(S)
                 \/ state[c] = "PENDING" /\ Conclude(c, "FULFILLED", Array, None, S)
  <2>1. CASE Finish(c, agg, S)
    BY <1>4, <2>1, AlikeSettled DEF Finish
  <2>2. CASE Skip(S) /\ agg' = agg
    BY <1>4, <2>2
  <2> QED
    BY <1>3, <2>1, <2>2 DEF BuildEnd
<1>11. PICK A : /\ Alike(A) /\ agg' = A
                /\ \/ Skip(S)
                   \/ state[c] = "PENDING" /\ Conclude(c, "FULFILLED", Array, None, S)
  BY <1>10
<1>12. Inv(H, U)'
  BY <1>1, <1>2, <1>4, <1>7, <1>8, <1>9, <1>11, AggregateInv
<1> QED
  BY <1>12 DEF IInv

\* The loop goes on to the next input.
LEMMA NextItemType ==
  ASSUME TypeOK, ctl # <<>>
  PROVE  \E a \in Activation :
           /\ a.k = Top.k /\ a.p = Top.p /\ a.todo = Top.todo /\ a.items = Top.items
           /\ a.at = Top.at + 1 /\ a.wp = None
           /\ NextItem = Replaced(a)
<1>1. PICK a : a = [Top EXCEPT !.at = @ + 1, !.wp = None]
  OBVIOUS
<1>2. Top \in Activation
  BY StackType
<1>3. /\ a.k = Top.k /\ a.p = Top.p /\ a.todo = Top.todo /\ a.items = Top.items
      /\ a.at = Top.at + 1 /\ a.wp = None /\ a \in Activation
  <2>1. Top.at + 1 \in Nat /\ None \in Promise \cup {None}
    BY <1>2 DEF Activation
  <2>2. a = [k |-> Top.k, p |-> Top.p, ok |-> Top.ok, todo |-> Top.todo, at |-> Top.at + 1,
             wp |-> None, items |-> Top.items]
    BY <1>1, <1>2 DEF Activation
  <2> QED
    BY <1>2, <2>1, <2>2 DEF Activation
<1> QED
  BY <1>1, <1>3 DEF NextItem

LEMMA NextBuilds ==
  ASSUME NEW H, NEW U, Inv(H, U), ctl # <<>>, Top.k = "build",
         Top.at <= Len(agg[Top.p].items)
  PROVE  Ready(NextItem, H, U) /\ Calm(NextItem)
<1>1. TypeOK /\ Base(H, U) /\ AggTyped
  BY InvFacts
<1>2. PICK a \in Activation :
           /\ a.k = Top.k /\ a.p = Top.p /\ a.todo = Top.todo /\ a.items = Top.items
           /\ a.at = Top.at + 1 /\ a.wp = None
           /\ NextItem = Replaced(a)
  BY <1>1, NextItemType
<1>3. GoodAt(Top, Len(ctl), H, U) /\ BuildsOn(Top) /\ Top.p \in DOMAIN agg /\ Top \in Activation
  BY StackReady DEF GoodAt
<1>4. BuildsOn(a)
  <2>1. Len(agg[Top.p].items) \in Nat /\ Top.at \in Nat
    BY <1>1, <1>3, LenProperties DEF AggTyped, Context, Activation
  <2> QED
    BY <1>2, <1>3, <2>1 DEF BuildsOn
<1>5. GoodAt(a, Len(ctl), H, U)
  BY <1>2, <1>3, <1>4 DEF GoodAt
<1> QED
  BY <1>1, <1>2, <1>5, RestGood, ReplacedReady

LEMMA BuildKnownInv ==
  ASSUME NEW H, NEW U, Inv(H, U), BuildKnown
  PROVE  IInv'
<1>1. /\ TypeOK /\ Base(H, U) /\ Numbered /\ script.left \in 0 .. MaxOps /\ Owners(H, U)
      /\ AggTyped /\ AggregatesProper /\ ThenablesAllowed
  BY InvFacts
<1>2. /\ ctl # <<>> /\ Top.k = "build" /\ born' = born /\ script' = script /\ known' = known
      /\ Top.at <= Len(agg[Top.p].items) /\ Item # Thenable
  BY DEF BuildKnown, Building, Ends
<1>3. PICK c, i, y, S : c = Top.p /\ i = Top.at /\ y = Item /\ S = NextItem
  OBVIOUS
<1>4. /\ c \in DOMAIN agg /\ c \in Born /\ Alike(agg) /\ i \in DOMAIN agg[c].items
      /\ i \in DOMAIN agg[c].values /\ y = agg[c].items[i] /\ y \in AnyVal \cup Promise
  <2>1. c \in DOMAIN agg /\ c \in Born /\ BuildsOn(Top)
    BY <1>2, <1>3, StackReady DEF GoodAt
  <2>2. agg[c] \in Context /\ Len(agg[c].values) = Len(agg[c].items)
    BY <1>1, <2>1 DEF AggTyped, AggregatesProper
  <2>3. /\ DOMAIN agg[c].items = 1 .. Len(agg[c].items)
        /\ DOMAIN agg[c].values = 1 .. Len(agg[c].values)
    BY <2>2, LenProperties DEF Context
  <2>4. i \in 1 .. Len(agg[c].items)
    BY <1>2, <1>3, <2>1 DEF BuildsOn
  <2>5. agg[c].items[i] \in AnyVal \cup Promise
    BY <2>2, <2>4, ElementOfSeq DEF Context
  <2> QED
    BY <1>1, <1>3, <2>1, <2>2, <2>3, <2>4, <2>5, AlikeAgg DEF Item
<1>5. PICK st, v : /\ st = IF y \in Promise THEN state[y] ELSE "FULFILLED"
                   /\ v = IF y \in Promise THEN value[y] ELSE y
  OBVIOUS
<1>6. /\ st \in States /\ v \in AnyVal /\ (v = Thenable => "adopting" \in script.may)
      /\ [st |-> st, v |-> v] \in Outcome
  BY <1>1, <1>2, <1>3, <1>4, <1>5 DEF TypeOK, Outcome, States, ThenablesAllowed
<1>7. \/ agg[c].all /\ Fail(c, v, S)
      \/ agg' = Store(c, i, [st |-> st, v |-> v]) /\ Skip(S)
  BY <1>3, <1>5 DEF BuildKnown
<1>8. Ready(S, H, U) /\ Calm(S)
  BY <1>2, <1>3, NextBuilds
<1>9. known' \subseteq Born /\ \A z \in known' : z \in known \/ z \notin DOMAIN U
  BY <1>1, <1>2 DEF Numbered
<1>10. \E A : /\ Alike(A) /\ agg' = A
              /\ Skip(S) \/ (state[c] = "PENDING" /\ Conclude(c, "REJECTED", v, None, S))
  <2>1. CASE Fail(c, v, S)
    BY <1>4, <2>1, AlikeSettled DEF Fail
  <2>2. CASE agg' = Store(c, i, [st |-> st, v |-> v]) /\ Skip(S)
    <3>1. Alike(Store(c, i, [st |-> st, v |-> v]))
      BY <1>1, <1>4, <1>6, AlikeStored
    <3> QED
      BY <2>2, <3>1
  <2> QED
    BY <1>7, <2>1, <2>2
<1>11. PICK A : /\ Alike(A) /\ agg' = A
                /\ Skip(S) \/ (state[c] = "PENDING" /\ Conclude(c, "REJECTED", v, None, S))
  BY <1>10
<1>12. "REJECTED" \in Final
  BY DEF Final
<1>13. Inv(H, U)'
  BY <1>1, <1>2, <1>4, <1>6, <1>8, <1>9, <1>11, <1>12, AggregateInv
<1> QED
  BY <1>13 DEF IInv

\* What an aggregation knows of the input at which its loop is.
LEMMA ItemFacts ==
  ASSUME NEW H, NEW U, Inv(H, U), ctl # <<>>, Top.k = "build",
         Top.wp # None \/ Top.at <= Len(agg[Top.p].items)
  PROVE  /\ Top.p \in DOMAIN agg /\ Top.p \in Born /\ Top.p \notin DOMAIN H
         /\ Top.at \in DOMAIN agg[Top.p].items /\ Top.at <= Len(agg[Top.p].items)
         /\ Item = agg[Top.p].items[Top.at] /\ Item \in AnyVal \cup Promise
         /\ Item \in Promise => Item \in Born /\ Item \notin DOMAIN U
         /\ Top.wp # None => /\ Item = Top.wp /\ Item \in Promise
                             /\ state[Item] \in Final => armed[Item] \/ ThenablesInline
<1>1. /\ TypeOK /\ Owners(H, U) /\ AggTyped /\ AggregatesProper
  BY InvFacts
<1>2. PICK c, i : c = Top.p /\ i = Top.at
  OBVIOUS
<1>3. c \in DOMAIN agg /\ c \in Born /\ BuildsOn(Top) /\ Top \in Activation
  BY <1>2, StackReady DEF GoodAt
<1>4. agg[c] \in Context /\ Inputs(agg[c].items) /\ Apart(agg[c].items, U) /\ "all" \in script.may
  BY <1>1, <1>3 DEF AggTyped, AggregatesProper, Owners
<1>5. DOMAIN agg[c].items = 1 .. Len(agg[c].items)
  BY <1>4, LenProperties DEF Context
<1>6. i \in DOMAIN agg[c].items /\ i <= Len(agg[c].items)
  BY <1>2, <1>3, <1>5 DEF BuildsOn
<1>7. agg[c].items[i] \in AnyVal \cup Promise
  BY <1>4, <1>5, <1>6, ElementOfSeq DEF Context
<1>8. Item = agg[c].items[i] /\ (Item \in Promise => Item \in Born /\ Item \notin DOMAIN U)
  BY <1>2, <1>4, <1>6 DEF Item, Inputs, Apart
<1>9. Top.wp # None => /\ Item = Top.wp /\ Item \in Promise
                       /\ state[Item] \in Final => armed[Item] \/ ThenablesInline
  BY <1>2, <1>3, <1>4, <1>8 DEF BuildsOn, Activation, ThenablesInline
<1>10. c \notin DOMAIN H
  BY <1>1, <1>3 DEF Owners
<1> QED
  BY <1>2, <1>3, <1>6, <1>7, <1>8, <1>9, <1>10

\* A pending input gets the reaction of the aggregation.
LEMMA BuildWaitInv ==
  ASSUME NEW H, NEW U, Inv(H, U), BuildWait
  PROVE  IInv'
<1>1. /\ TypeOK /\ Base(H, U) /\ Numbered /\ script.left \in 0 .. MaxOps /\ Owners(H, U)
      /\ AggTyped /\ AggregatesProper /\ ThenablesAllowed /\ Counts /\ Rooted
      /\ script.inline \in BOOLEAN /\ ScriptSound
  BY InvFacts DEF Drains
<1>2. /\ ctl # <<>> /\ Top.k = "build" /\ born' = born /\ script' = script /\ known' = known
      /\ state' = state /\ value' = value /\ source' = source /\ open' = open
      /\ Keep({Item}, NextItem)
      /\ Top.wp # None \/ (Top.at <= Len(agg[Top.p].items) /\ Item \in Promise /\ state[Item] = "PENDING")
  BY DEF BuildWait, Building, Ends
<1>3. PICK c, i, x, S : c = Top.p /\ i = Top.at /\ x = Item /\ S = NextItem
  OBVIOUS
<1>4. /\ c \in DOMAIN agg /\ c \in Born /\ c \notin DOMAIN H /\ i \in DOMAIN agg[c].items
      /\ i <= Len(agg[c].items) /\ x \in Promise /\ x \in Born /\ x \notin DOMAIN U
      /\ state[x] = "PENDING" \/ (state[x] \in Final => armed[x] \/ ThenablesInline)
  BY <1>2, <1>3, ItemFacts
<1>5. Ready(S, H, U) /\ Calm(S) /\ S \in Seq(Activation)
  BY <1>2, <1>3, <1>4, NextBuilds DEF Ready
<1>6. PICK r : r = [onF |-> Calls("kept", c, i), onR |-> Calls("failed", c, i), np |-> None]
  OBVIOUS
<1>7. /\ r \in Reaction /\ r.np = None /\ r.onF.to = c /\ r.onR.to = c
      /\ r.onF.at = i /\ r.onR.at = i /\ r.onF.do = "kept" /\ r.onR.do = "failed"
  <2>1. i \in Nat /\ c \in Promise
    <3>1. agg[c].items \in Seq(AnyVal \cup Promise)
      BY <1>1, <1>4 DEF AggTyped, Context
    <3> QED
      BY <1>1, <1>4, <3>1, LenProperties, NatFacts
  <2> QED
    BY <1>6, <2>1 DEF Reaction, Handler, Calls
<1>8. reactions' = [reactions EXCEPT ![x] = Append(@, r)]
  BY <1>3, <1>6 DEF BuildWait
<1>9. /\ reactions' \in [Promise -> Seq(Reaction)]
      /\ reactions'[x] = Append(reactions[x], r)
      /\ \A y \in Promise : y # x => reactions'[y] = reactions[y]
  <2>1. Append(reactions[x], r) \in Seq(Reaction)
    BY <1>1, <1>4, <1>7, PushedType DEF TypeOK
  <2> QED
    BY <1>1, <1>4, <1>8, <2>1 DEF TypeOK
<1>10. Wakes(S, None) /\ TasksTyped' /\ rooted' = rooted \cup {x} /\ armed' = armed
  BY <1>1, <1>2, <1>3, <1>4, <1>5, KeepDoes DEF Keep
<1>11. SameScript /\ ScriptSound' /\ script'.left \in 0 .. MaxOps
  BY <1>1, <1>2 DEF SameScript, ScriptSound
<1>12. x # None /\ None \notin Promise /\ None \notin DOMAIN H /\ state[x] \in States /\ state[x] # "UNBORN"
  BY <1>1, <1>4, NatFacts DEF Owners, TypeOK, Numbered
<1>13. state[x] = "PENDING" \/ armed[x] \/ ThenablesInline
  BY <1>4, <1>12 DEF States, Final
<1>14. Effect(S, x, r, None, None)
  <2>1. Registers(x, r)
    BY <1>2, <1>7, <1>9, <1>10, <1>13 DEF Registers, Final
  <2>2. RootsGrow
    BY <1>2, <1>10, <1>13 DEF RootsGrow, Excused
  <2>3. Settles(None)
    BY <1>2 DEF Settles
  <2> QED
    BY <1>4, <1>5, <1>10, <1>11, <2>1, <2>2, <2>3 DEF Effect, SameScript
<1>15. SameInputs /\ AggTyped'
  <2>1. PICK m, n : m = agg[c].remaining + 1 /\ n = agg[c].live + 1
    OBVIOUS
  <2>2. m \in Nat /\ n \in Nat /\ Alike(agg)
    BY <1>1, <1>4, <2>1, AlikeAgg DEF AggTyped, Context
  <2>3. PICK B : B = [agg EXCEPT ![c].remaining = m]
    OBVIOUS
  <2>4. Alike(B)
    BY <1>4, <2>2, <2>3, AlikeCounted
  <2>5. Alike([B EXCEPT ![c].live = n])
    BY <1>4, <2>2, <2>4, AlikeCounted
  <2>6. agg' = [B EXCEPT ![c].live = n]
    BY <1>3, <2>1, <2>3 DEF BuildWait
  <2> QED
    BY <1>1, <2>5, <2>6, AlikeAgg
<1>16. TypeOK'
  BY <1>1, <1>2, <1>9, <1>10, <1>11, <1>15 DEF TypeOK, TasksTyped, AggTyped
<1>17. ThenablesAllowed'
  BY <1>1, <1>2 DEF ThenablesAllowed
<1>18. Counts'
  <2>1. known' \subseteq Born /\ open' \subseteq Born /\ rooted' \subseteq Born
    BY <1>1, <1>2, <1>4, <1>10 DEF Numbered
  <2>2. /\ \A y \in Promise : y \notin Born => state'[y] = state[y] /\ reactions'[y] = reactions[y]
        /\ \A y \in Born : state'[y] = state[y] \/ state'[y] \in Final
    BY <1>2, <1>4, <1>9
  <2> QED
    BY <1>1, <1>2, <1>11, <1>15, <1>17, <2>1, <2>2, CountsStay
<1>19. RacesAlone'
  BY <1>1, <1>5, <1>14, CalmStays
<1>20. Drained(None, x, U) /\ None \notin DOMAIN H
  BY <1>12 DEF Drained
<1>21. Good(r, DOMAIN H)' /\ r.np \notin DOMAIN H
  <2>1. state'[c] = "PENDING" => c \in rooted'
    BY <1>1, <1>2, <1>4, <1>10 DEF Rooted
  <2>2. c \in DOMAIN agg' /\ i \in DOMAIN agg'[c].items
    BY <1>4, <1>15 DEF SameInputs
  <2> QED
    BY <1>4, <1>7, <1>12, <2>1, <2>2 DEF Good, Proper, OfJs
<1>22. AggregatesGoOn /\ DOMAIN agg' = DOMAIN agg /\ \A b \in DOMAIN agg' : Apart(agg'[b].items, U)
  BY <1>1, <1>15 DEF SameInputs, AggregatesGoOn, Owners
<1>23. /\ \A y \in open' : y \in open
       /\ \A z \in known' : z \in known
  BY <1>2
<1>24. Inv(H, U)'
  BY <1>2, <1>4, <1>5, <1>14, <1>16, <1>18, <1>19, <1>20, <1>21, <1>22, <1>23, PassInv
<1> QED
  BY <1>24 DEF IInv

\* An input that is a thenable takes the number that was left for it.
LEMMA NumberLeft ==
  ASSUME NEW H, NEW U, Inv(H, U), NEW c \in DOMAIN agg, NEW i \in DOMAIN agg[c].items,
         agg[c].items[i] = Thenable,
         NEW A, DOMAIN A = DOMAIN agg, \A b \in DOMAIN agg : b # c => A[b] = agg[b],
         NEW f \in Promise, A[c].items = [agg[c].items EXCEPT ![i] = f],
         agg' = A, born' = born + 1
  PROVE  born + 1 \in Promise /\ EnoughNumbers'
<1>1. TypeOK /\ AggregatesProper /\ EnoughNumbers /\ born \in Nat /\ MaxPromises \in Nat
  BY InvFacts, NatFacts DEF Counts
<1>2. PICK X, Y : X = Unfinished /\ Y = Unfinished'
  OBVIOUS
<1>3. c \in X
  BY <1>2 DEF Unfinished
<1>4. IsFiniteSet(X)
  <2>1. X \subseteq 1 .. born
    BY <1>1, <1>2 DEF Unfinished, AggregatesProper, Born
  <2>2. IsFiniteSet(1 .. born)
    BY <1>1, FS_Interval
  <2> QED
    BY <2>1, <2>2, FS_Subset
<1>5. Y = X \ {c}
  <2>1. f # Thenable /\ DOMAIN A[c].items = DOMAIN agg[c].items
    BY PromiseAssumption
  <2>2. \A j \in DOMAIN A[c].items : A[c].items[j] # Thenable
    <3> SUFFICES ASSUME NEW j \in DOMAIN agg[c].items PROVE A[c].items[j] # Thenable
      BY <2>1
    <3>1. CASE j = i
      BY <2>1, <3>1
    <3>2. CASE j # i
      <4>1. A[c].items[j] = agg[c].items[j]
        BY <3>2
      <4> QED
        BY <1>1, <3>2, <4>1 DEF AggregatesProper
    <3> QED
      BY <3>1, <3>2
  <2>3. c \notin Y
    BY <1>2, <2>2 DEF Unfinished
  <2>4. \A b \in DOMAIN agg : b # c => (b \in Y <=> b \in X)
    BY <1>2 DEF Unfinished
  <2>5. Y \subseteq DOMAIN agg /\ X \subseteq DOMAIN agg
    BY <1>2 DEF Unfinished
  <2> QED
    BY <2>3, <2>4, <2>5
<1>6. PICK n, m : n = Cardinality(X) /\ m = Cardinality(Y)
  OBVIOUS
<1>7. n \in Nat /\ m = n - 1
  BY <1>3, <1>4, <1>5, <1>6, FS_RemoveElement, FS_CardinalityType
<1>8. m \in Nat
  <2>1. IsFiniteSet(Y)
    BY <1>4, <1>5, FS_RemoveElement
  <2> QED
    BY <1>6, <2>1, FS_CardinalityType
<1>9. born + n <= 2 * MaxPromises
  BY <1>1, <1>2, <1>6 DEF EnoughNumbers
<1>10. born + 1 <= 2 * MaxPromises /\ born + 1 + m <= 2 * MaxPromises
  BY <1>1, <1>7, <1>8, <1>9
<1> QED
  BY <1>1, <1>2, <1>6, <1>10 DEF EnoughNumbers, Promise

LEMMA BuildThenableInv ==
  ASSUME NEW H, NEW U, Inv(H, U), BuildThenable
  PROVE  IInv'
<1>1. /\ TypeOK /\ Base(H, U) /\ Numbered /\ script.left \in 0 .. MaxOps /\ Owners(H, U)
      /\ AggTyped /\ AggregatesProper /\ ThenablesAllowed /\ Counts /\ Sure
      /\ script.inline \in BOOLEAN /\ ScriptSound
  BY InvFacts
<1>2. /\ ctl # <<>> /\ Top.k = "build" /\ script' = script /\ known' = known
      /\ source' = source /\ reactions' = reactions
      /\ Top.at <= Len(agg[Top.p].items) /\ Item = Thenable
  BY DEF BuildThenable, Building, Ends
<1>3. PICK c, i, f : c = Top.p /\ i = Top.at /\ f = born + 1
  OBVIOUS
<1>4. /\ c \in DOMAIN agg /\ c \in Born /\ i \in DOMAIN agg[c].items /\ i <= Len(agg[c].items)
      /\ agg[c].items[i] = Thenable /\ agg[c] \in Context
  BY <1>1, <1>2, <1>3, ItemFacts DEF AggTyped
<1>5. /\ state' = [state EXCEPT ![f] = "PENDING"] /\ value' = [value EXCEPT ![f] = NoVal]
      /\ born' = f /\ open' = open \cup {f} /\ agg' = [agg EXCEPT ![c].items[i] = f]
  BY <1>3 DEF BuildThenable, MakeFresh, Settle, Fresh
<1>6. PICK I, A : I = [agg[c].items EXCEPT ![i] = f] /\ A = agg'
  OBVIOUS
<1>7. PICK X : X = [agg[c] EXCEPT !.items = I]
  OBVIOUS
<1>8. A = [agg EXCEPT ![c] = X]
  BY <1>4, <1>5, <1>6, <1>7
<1>9. /\ DOMAIN A = DOMAIN agg /\ A[c] = X /\ X.items = I /\ X.values = agg[c].values
      /\ \A b \in DOMAIN agg : b # c => A[b] = agg[b]
      /\ X = [items |-> I, values |-> agg[c].values, all |-> agg[c].all,
              remaining |-> agg[c].remaining, live |-> agg[c].live,
              settled |-> agg[c].settled, freed |-> agg[c].freed]
  BY <1>4, <1>7, <1>8 DEF Context
<1>10. f \in Promise /\ EnoughNumbers'
  <2>1. born \in Nat /\ MaxPromises \in Nat
    BY <1>1, NatFacts
  <2>2. f \in Nat
    BY <1>3, <2>1
  <2>3. f \in Promise
    <3>1. PICK n : n = Cardinality(Unfinished)
      OBVIOUS
    <3>2. c \in Unfinished
      BY <1>4 DEF Unfinished
    <3>3. IsFiniteSet(Unfinished)
      <4>1. Unfinished \subseteq 1 .. born
        BY <1>1 DEF Unfinished, AggregatesProper, Born
      <4>2. IsFiniteSet(1 .. born)
        BY <2>1, FS_Interval
      <4> QED
        BY <4>1, <4>2, FS_Subset
    <3>4. n \in Nat /\ n # 0
      BY <3>1, <3>2, <3>3, FS_EmptySet, FS_CardinalityType
    <3>5. born + n <= 2 * MaxPromises
      BY <1>1, <3>1 DEF Counts, EnoughNumbers
    <3>6. f >= 1 /\ f <= 2 * MaxPromises
      BY <1>3, <2>1, <3>4, <3>5
    <3> QED
      BY <2>1, <2>2, <3>6 DEF Promise
  <2>4. /\ A[c].items = [agg[c].items EXCEPT ![i] = f] /\ agg' = A /\ born' = born + 1
        /\ DOMAIN A = DOMAIN agg /\ \A b \in DOMAIN agg : b # c => A[b] = agg[b]
    BY <1>3, <1>5, <1>6, <1>9
  <2> QED
    BY <1>4, <2>3, <2>4, NumberLeft
<1>11. /\ f \notin Born /\ Born' = Born \cup {f} /\ f # None /\ f \notin known /\ f \notin open
       /\ f \notin DOMAIN agg /\ f \notin DOMAIN H /\ f \notin DOMAIN U /\ f \notin rooted
       /\ born \in Nat /\ born' \in Nat /\ born <= born' /\ None \notin Born' /\ f # Thenable
       /\ Born \subseteq Promise /\ f > born /\ \A y \in Born : ~(y > born)
  <2>1. born \in Nat /\ born' = born + 1 /\ f = born + 1
    BY <1>1, <1>3, <1>5, NatFacts
  <2>2. /\ f \notin Born /\ Born' = Born \cup {f} /\ f # None /\ born' \in Nat /\ born <= born'
        /\ None \notin Born' /\ f > born /\ \A y \in Born : ~(y > born)
    BY <2>1 DEF Born, None
  <2>3. f # Thenable /\ Born \subseteq Promise
    BY <1>1, <1>10, PromiseAssumption, NatFacts
  <2> QED
    BY <1>1, <2>1, <2>2, <2>3 DEF Numbered, Owners, AggregatesProper
<1>12. /\ I \in Seq(AnyVal \cup Promise) /\ Len(I) = Len(agg[c].items)
       /\ DOMAIN I = DOMAIN agg[c].items /\ I[i] = f
       /\ \A j \in DOMAIN I : j # i => I[j] = agg[c].items[j]
  <2>1. agg[c].items \in Seq(AnyVal \cup Promise)
    BY <1>4 DEF Context
  <2>2. i \in 1 .. Len(agg[c].items)
    BY <1>4, <2>1, LenProperties
  <2>3. f \in AnyVal \cup Promise
    BY <1>10
  <2>4. I \in Seq(AnyVal \cup Promise) /\ Len(I) = Len(agg[c].items)
    BY <1>6, <2>1, <2>2, <2>3, ExceptSeq
  <2> QED
    BY <1>4, <1>6, <2>4
<1>13. X \in Context
  BY <1>4, <1>9, <1>12 DEF Context
<1>14. AggTyped'
  BY <1>1, <1>6, <1>9, <1>13 DEF AggTyped
<1>15. AggregatesGoOn
  <2>1. ASSUME NEW d \in DOMAIN agg
        PROVE  /\ d \in DOMAIN A /\ Len(A[d].items) = Len(agg[d].items)
               /\ DOMAIN A[d].items = DOMAIN agg[d].items
               /\ \A j \in DOMAIN agg[d].items :
                    agg[d].items[j] # Thenable => A[d].items[j] = agg[d].items[j]
    <3>1. CASE d = c
      BY <1>4, <1>9, <1>12, <3>1
    <3>2. CASE d # c
      BY <1>9, <3>2
    <3> QED
      BY <3>1, <3>2
  <2> QED
    BY <1>6, <2>1 DEF AggregatesGoOn
<1>16. /\ state'[f] = "PENDING" /\ \A y \in Promise : y # f => state'[y] = state[y]
       /\ state' \in [Promise -> States] /\ value' \in [Promise -> AnyVal]
       /\ Settles(None) /\ ThenablesAllowed' /\ SameScript /\ ScriptSound'
       /\ script'.left \in 0 .. MaxOps
  <2>1. NoVal \in AnyVal /\ NoVal # Thenable
    BY PromiseAssumption DEF AnyVal
  <2>2. /\ state'[f] = "PENDING" /\ \A y \in Promise : y # f => state'[y] = state[y]
        /\ state' \in [Promise -> States] /\ value' \in [Promise -> AnyVal]
    BY <1>1, <1>5, <1>10, <2>1 DEF TypeOK, States
  <2>3. Settles(None)
    BY <1>11, <2>2 DEF Settles
  <2>4. ThenablesAllowed'
    BY <1>1, <1>2, <1>5, <1>10, <2>1 DEF TypeOK, ThenablesAllowed
  <2> QED
    BY <1>1, <1>2, <2>2, <2>3, <2>4 DEF SameScript, ScriptSound
<1>17. PICK a, b : a = [Top EXCEPT !.wp = f] /\ b = Active("then", f)
  OBVIOUS
<1>18. /\ a \in Activation /\ a.k = "build" /\ a.p = c /\ a.at = i /\ a.wp = f
       /\ a.todo = Top.todo
  <2>1. Top \in Activation
    BY <1>1, <1>2, StackType
  <2>2. a = [k |-> Top.k, p |-> Top.p, ok |-> Top.ok, todo |-> Top.todo, at |-> Top.at,
             wp |-> f, items |-> Top.items]
    BY <1>17, <2>1 DEF Activation
  <2> QED
    BY <1>2, <1>3, <1>10, <2>1, <2>2 DEF Activation
<1>19. PICK n, m, S : n = Len(ctl) + 1 /\ m = Len(ctl) /\ S = Replaced(a)
  OBVIOUS
<1>20. b \in Activation /\ b.k = "then" /\ GoodAt(b, n, H, U)'
  BY <1>10, <1>11, <1>17, NewGood
<1>21. PICK T : T = Append(S, b)
  OBVIOUS
<1>22. /\ S \in Seq(Activation) /\ Len(S) = Len(ctl) /\ S[Len(ctl)] = a
       /\ Len(ctl) \in Nat \ {0} /\ Top = ctl[Len(ctl)]
       /\ \A j \in 1 .. Len(ctl) - 1 : S[j] = ctl[j]
  BY <1>1, <1>2, <1>18, <1>19, ReplacedType, StackType
<1>23. /\ T \in Seq(Activation) /\ Len(T) = n /\ T[n] = b
       /\ \A j \in 1 .. Len(ctl) : T[j] = S[j]
  BY <1>19, <1>20, <1>21, <1>22, PushedType
<1>24. Keep({f}, T)
  BY <1>3, <1>17, <1>19, <1>21 DEF BuildThenable, Fresh
<1>25. Wakes(T, None) /\ TasksTyped' /\ rooted' = rooted \cup {f} /\ armed' = armed
  BY <1>1, <1>10, <1>23, <1>24, KeepDoes DEF Keep
<1>26. Effect(T, None, None, None, None)
  BY <1>2, <1>16, <1>23, <1>25 DEF Effect, Registers, RootsGrow, SameScript
<1>27. TypeOK'
  BY <1>1, <1>2, <1>5, <1>10, <1>14, <1>16, <1>25 DEF TypeOK, TasksTyped, AggTyped
<1>28. Numbered'
  <2>1. \A y \in Promise : state'[y] = "UNBORN" <=> y > born'
    BY <1>1, <1>3, <1>5, <1>11, <1>16, NatFacts DEF Numbered
  <2>2. \A y \in Promise : y > born' => reactions'[y] = <<>>
    BY <1>1, <1>2, <1>11, NatFacts DEF Numbered
  <2> QED
    BY <1>1, <1>2, <1>5, <1>11, <1>25, <2>1, <2>2 DEF Numbered
<1>29. AggregatesProper'
  <2>1. /\ Inputs(I)' /\ c \in Born' /\ c <= MaxPromises /\ "all" \in script'.may
        /\ "adopting" \in script'.may
        /\ Len(X.values) = Len(X.items)
    BY <1>1, <1>2, <1>4, <1>9, <1>11, <1>12 DEF AggregatesProper, Inputs
  <2>2. \A j \in DOMAIN I : I[j] # Thenable
    BY <1>1, <1>4, <1>11, <1>12 DEF AggregatesProper
  <2>3. ASSUME NEW e \in DOMAIN agg, e # c
        PROVE  /\ e \in Born' /\ e <= MaxPromises /\ "all" \in script'.may
               /\ (\E j \in DOMAIN agg[e].items : agg[e].items[j] = Thenable)
                     => "adopting" \in script'.may
               /\ Len(agg[e].values) = Len(agg[e].items)
               /\ \A j \in DOMAIN agg[e].items :
                    agg[e].items[j] \in Promise => agg[e].items[j] \in Born'
               /\ \A j, k \in DOMAIN agg[e].items :
                    agg[e].items[j] = Thenable /\ agg[e].items[k] = Thenable => j = k
    BY <1>1, <1>2, <1>11, <2>3 DEF AggregatesProper, Inputs
  <2> QED
    BY <1>6, <1>9, <2>1, <2>2, <2>3 DEF AggregatesProper, Inputs
<1>30. Counts'
  BY <1>10, <1>16, <1>28, <1>29 DEF Counts
<1>31. Later(U) /\ Drained(None, None, U)
  BY <1>1, <1>11, <1>15, <1>26, EffectLater DEF Drained
<1>32. Handed(H, H) /\ Handed(U, U) /\ \A h : Keeps(H, H, h) /\ Keeps(U, U, h)
  BY <1>1, NatFacts DEF Owners, Handed, Keeps
<1>33. Owners(H, U)'
  <2>1. DOMAIN H \subseteq Born' /\ DOMAIN U \subseteq Born'
    BY <1>1, <1>11 DEF Owners
  <2>2. \A y \in DOMAIN H : y > born => state'[y] = "PENDING"
    BY <1>1, <1>11 DEF Owners
  <2>3. \A e \in DOMAIN agg' : Apart(agg'[e].items, U)
    BY <1>1, <1>4, <1>6, <1>9, <1>11, <1>12 DEF Owners, Apart
  <2>4. None \notin DOMAIN H /\ None \notin DOMAIN U
    BY <1>11, <2>1
  <2>5. /\ \A y \in open' \cup DOMAIN agg' : y \in open \/ y \in DOMAIN agg \/ y \notin DOMAIN H
        /\ \A y \in known' \cup DOMAIN agg' : y \in known \/ y \in DOMAIN agg \/ y \notin DOMAIN U
    BY <1>2, <1>5, <1>6, <1>9, <1>11
  <2> QED
    BY <1>1, <1>26, <1>32, <2>1, <2>2, <2>3, <2>4, <2>5, OwnersStep
<1>34. GoodAt(a, m, H, U)'
  <2>1. GoodAt(Top, Len(ctl), H, U)
    BY <1>1, <1>2, StackReady
  <2>2. PICK s : s = Top.todo
    OBVIOUS
  <2>3. HeldAt(s, OnStack(m), H)'
    <3>1. DOMAIN agg \subseteq Born /\ HeldAt(s, OnStack(m), H) /\ Keeps(H, H, OnStack(m))
      BY <1>1, <1>19, <1>32, <2>1, <2>2 DEF AggregatesProper, GoodAt
    <3> QED
      BY <1>1, <1>31, <1>32, <3>1, HeldStays
  <2>4. s = <<>>
    BY <1>2, <2>1, <2>2 DEF GoodAt
  <2>5. BuildsOn(a)'
    <3>1. i \in 1 .. Len(I) + 1 /\ i <= Len(I) /\ "adopting" \in script'.may
      <4>1. DOMAIN I = 1 .. Len(I) /\ Len(I) \in Nat
        BY <1>12, LenProperties
      <4> QED
        BY <1>1, <1>2, <1>4, <1>12, <4>1 DEF AggregatesProper
    <3>2. state'[f] \notin Final
      BY <1>16 DEF Final
    <3> QED
      BY <1>6, <1>9, <1>12, <1>18, <3>1, <3>2 DEF BuildsOn
  <2>6. c \in Born' /\ c \in DOMAIN agg'
    BY <1>4, <1>6, <1>9, <1>11
  <2> QED
    BY <1>18, <2>2, <2>3, <2>4, <2>5, <2>6 DEF GoodAt
<1>35. ASSUME NEW j \in 1 .. Len(ctl) - 1, NEW e, e = ctl[j] PROVE GoodAt(e, j, H, U)'
  <2>1. GoodAt(e, j, H, U) /\ \A x \in DOMAIN agg : Apart(agg[x].items, U)
    BY <1>1, <1>2, <1>35, RestGood DEF Owners
  <2> QED
    BY <1>1, <1>25, <1>31, <1>32, <2>1, StaysAt
<1>36. \A j \in 1 .. Len(T) : j \in 1 .. Len(ctl) - 1 \/ j = m \/ j = n
  BY <1>19, <1>22, <1>23
<1>37. \A j \in 1 .. Len(T) : GoodAt(T[j], j, H, U)'
  <2>1. \A j \in 1 .. Len(ctl) - 1 : T[j] = ctl[j]
    BY <1>22, <1>23
  <2>2. T[m] = a
    BY <1>19, <1>22, <1>23
  <2>3. \A j \in 1 .. Len(ctl) - 1 : GoodAt(T[j], j, H, U)'
    BY <1>35, <2>1
  <2> QED
    BY <1>20, <1>23, <1>34, <1>36, <2>2, <2>3
<1>38. KeepsDrains(T)
  <2>1. \A j \in 1 .. Len(ctl) : j \in 1 .. Len(ctl) - 1 \/ j = Len(ctl)
    BY <1>22
  <2>2. \A j \in 1 .. Len(ctl) - 1 : T[j] = ctl[j] /\ j \in 1 .. Len(T)
    BY <1>19, <1>22, <1>23
  <2> QED
    BY <1>2, <1>22, <2>1, <2>2 DEF KeepsDrains
<1>39. RacesAlone'
  <2>1. Calm(T)
    <3>1. RacesAlone
      BY InvFacts
    <3>2. ASSUME ~RacesThenables, NEW j \in 1 .. Len(ctl) - 1 PROVE ctl[j].k # "race"
      BY <1>22, <3>1, <3>2 DEF RacesAlone
    <3> QED
      BY <1>18, <1>19, <1>20, <1>22, <1>23, <1>36, <3>2 DEF Calm
  <2> QED
    BY <1>1, <1>26, <2>1, CalmStays
<1>40. \A y \in open' \cup DOMAIN agg' :
         y \in open \/ y \in DOMAIN agg \/ (state'[y] = "PENDING" => y \in rooted')
  BY <1>5, <1>6, <1>9, <1>25
<1>41. Inv(H, U)'
  BY <1>1, <1>26, <1>27, <1>30, <1>31, <1>32, <1>33, <1>37, <1>38, <1>39, <1>40, StepInv
<1> QED
  BY <1>41 DEF IInv

----------------------------------------------------------------------------
(* Races.                                                                  *)

LEMMA NextRaces ==
  ASSUME NEW H, NEW U, Inv(H, U), ctl # <<>>, Top.k = "race", Top.at <= Len(Top.items)
  PROVE  /\ Ready(NextItem, H, U) /\ Len(NextItem) = Len(ctl)
         /\ NextItem[Len(ctl)].k = "race" /\ NextItem[Len(ctl)].p = Top.p
         /\ \A j \in 1 .. Len(ctl) - 1 : NextItem[j] = ctl[j]
         /\ Top.p \in Born /\ Top.p \notin DOMAIN H /\ Top.p \in DOMAIN U
         /\ Top.at \in DOMAIN Top.items /\ Racer \in AnyVal \cup Promise
         /\ Racer \in Promise => Racer \in Born
         /\ Racer \notin DOMAIN U
         /\ "race" \in script.may /\ (Racer = Thenable => "adopting" \in script.may)
<1>1. TypeOK /\ Base(H, U)
  BY InvFacts
<1>2. PICK a \in Activation :
           /\ a.k = Top.k /\ a.p = Top.p /\ a.todo = Top.todo /\ a.items = Top.items
           /\ a.at = Top.at + 1 /\ a.wp = None
           /\ NextItem = Replaced(a)
  BY <1>1, NextItemType
<1>3. GoodAt(Top, Len(ctl), H, U) /\ RacesOver(Top, U) /\ Top \in Activation
  BY StackReady DEF GoodAt
<1>4. /\ Top.items \in Seq(AnyVal \cup Promise) /\ Top.at \in Nat
      /\ DOMAIN Top.items = 1 .. Len(Top.items) /\ Len(Top.items) \in Nat
  BY <1>3, LenProperties DEF Activation
<1>5. Top.at \in DOMAIN Top.items /\ Racer = Top.items[Top.at] /\ Racer \in AnyVal \cup Promise
  BY <1>3, <1>4, ElementOfSeq DEF RacesOver, Racer
<1>6. RacesOver(a, U)
  BY <1>2, <1>3, <1>4 DEF RacesOver
<1>7. GoodAt(a, Len(ctl), H, U)
  BY <1>2, <1>3, <1>6 DEF GoodAt
<1>8. Ready(NextItem, H, U)
  BY <1>1, <1>2, <1>7, RestGood, ReplacedReady
<1>9. /\ Len(NextItem) = Len(ctl) /\ NextItem[Len(ctl)] = a
      /\ \A j \in 1 .. Len(ctl) - 1 : NextItem[j] = ctl[j]
  BY <1>1, <1>2, ReplacedType
<1>10. /\ Top.p \in Born /\ Top.p \notin DOMAIN H /\ Top.p \in DOMAIN U
  BY <1>3 DEF GoodAt
<1>11. /\ Racer \in Promise => Racer \in Born
       /\ Racer \notin DOMAIN U
       /\ "race" \in script.may /\ (Racer = Thenable => "adopting" \in script.may)
  BY <1>3, <1>5 DEF RacesOver, Inputs, Apart
<1> QED
  BY <1>2, <1>5, <1>8, <1>9, <1>10, <1>11

\* The race is still on top, and its promise is still not on the root array.
LEMMA RaceGoesOn ==
  ASSUME NEW H, NEW U, Inv(H, U), ctl # <<>>, Top.k = "race", Top.at <= Len(Top.items),
         ctl' = NextItem, SameScript, Top.p \in rooted' => Top.p \in rooted
  PROVE  RacesAlone'
<1>1. /\ RacesAlone /\ TypeOK
  BY InvFacts
<1>2. /\ Len(NextItem) = Len(ctl)
      /\ NextItem[Len(ctl)].k = "race" /\ NextItem[Len(ctl)].p = Top.p
      /\ \A j \in 1 .. Len(ctl) - 1 : NextItem[j] = ctl[j]
  BY NextRaces
<1>3. Len(ctl) \in Nat \ {0} /\ Top = ctl[Len(ctl)]
  BY <1>1, StackType
<1>4. RacesThenables' = RacesThenables
  BY DEF RacesThenables, SameScript
<1>5. \A j \in 1 .. Len(ctl) : j \in 1 .. Len(ctl) - 1 \/ j = Len(ctl)
  BY <1>3
<1> QED
  BY <1>1, <1>2, <1>3, <1>4, <1>5 DEF RacesAlone

LEMMA RaceNextInv ==
  ASSUME NEW H, NEW U, Inv(H, U), RaceNext
  PROVE  IInv'
<1>1. /\ TypeOK /\ Base(H, U) /\ Numbered /\ script.left \in 0 .. MaxOps /\ Owners(H, U)
      /\ AggTyped /\ AggregatesProper /\ ThenablesAllowed /\ Counts /\ Sure /\ RacesAlone
      /\ script.inline \in BOOLEAN /\ ScriptSound
  BY InvFacts
<1>2. /\ ctl # <<>> /\ Top.k = "race" /\ Top.at <= Len(Top.items) /\ state[Top.p] = "PENDING"
      /\ agg' = agg /\ born' = born /\ script' = script /\ known' = known
  BY DEF RaceNext, Racing, Ends
<1>3. PICK p, x, S : p = Top.p /\ x = Racer /\ S = NextItem
  OBVIOUS
<1>4. /\ Ready(S, H, U) /\ S \in Seq(Activation)
      /\ p \in Born /\ p \notin DOMAIN H /\ p \in DOMAIN U
      /\ x \in AnyVal \cup Promise /\ (x \in Promise => x \in Born) /\ x \notin DOMAIN U
      /\ "race" \in script.may /\ (x = Thenable => "adopting" \in script.may)
  BY <1>2, <1>3, NextRaces DEF Ready
<1>5. /\ p \in Promise /\ p # None /\ x # p /\ None \notin DOMAIN H /\ None \notin DOMAIN U
      /\ None \notin Promise /\ Born \subseteq Promise
  BY <1>1, <1>4, NatFacts DEF Owners
<1>6. SameScript /\ ScriptSound' /\ script'.left \in 0 .. MaxOps /\ SameInputs /\ AggTyped'
  BY <1>1, <1>2, SameAgg DEF SameScript, ScriptSound
<1>7. /\ AggregatesGoOn /\ DOMAIN agg' = DOMAIN agg
      /\ \A c \in DOMAIN agg' : Apart(agg'[c].items, U)
  BY <1>1, <1>2 DEF AggregatesGoOn, Owners
<1>8. known' \subseteq Born /\ \A y \in known' : y \in known
  BY <1>1, <1>2 DEF Numbered
<1>9. p \in rooted => Excused
  <2>1. Len(ctl) \in 1 .. Len(ctl) /\ Top = ctl[Len(ctl)]
    BY <1>1, <1>2, StackType
  <2> QED
    BY <1>1, <1>2, <1>3, <2>1 DEF RacesAlone, Excused
<1>10. CASE /\ x \in Promise /\ state[x] = "PENDING" /\ Keep({x}, S)
            /\ reactions' = [reactions EXCEPT ![x] =
                 Append(@, [onF |-> NoHandler, onR |-> NoHandler, np |-> p])]
            /\ state' = state /\ value' = value /\ source' = source /\ open' = open
  <2>1. PICK r : r = [onF |-> NoHandler, onR |-> NoHandler, np |-> p]
    OBVIOUS
  <2>2. /\ r \in Reaction /\ r.np = p /\ r.onF.to = None /\ r.onR.to = None
        /\ r.onF.at = 0 /\ r.onR.at = 0 /\ r.onF.do = "none" /\ r.onR.do = "none"
    BY <1>5, <2>1 DEF Reaction, Handler, NoHandler, Calls, None
  <2>3. /\ reactions' \in [Promise -> Seq(Reaction)]
        /\ reactions'[x] = Append(reactions[x], r)
        /\ \A y \in Promise : y # x => reactions'[y] = reactions[y]
    <3>1. Append(reactions[x], r) \in Seq(Reaction)
      BY <1>1, <1>10, <2>2, PushedType DEF TypeOK
    <3> QED
      BY <1>1, <1>10, <2>1, <3>1 DEF TypeOK
  <2>4. Wakes(S, None) /\ TasksTyped' /\ rooted' = rooted \cup {x} /\ armed' = armed /\ ctl' = S
    BY <1>1, <1>4, <1>10, KeepDoes DEF Keep
  <2>5. Effect(S, x, r, None, None)
    <3>1. Registers(x, r)
      BY <1>10, <2>2, <2>3, <2>4 DEF Registers, Final
    <3>2. RootsGrow
      BY <1>10, <2>4 DEF RootsGrow
    <3>3. Settles(None)
      BY <1>10 DEF Settles
    <3> QED
      BY <1>4, <1>6, <1>10, <2>4, <3>1, <3>2, <3>3 DEF Effect, SameScript
  <2>6. TypeOK'
    BY <1>1, <1>2, <1>6, <1>10, <2>3, <2>4 DEF TypeOK, TasksTyped, AggTyped
  <2>7. Counts'
    <3>1. known' \subseteq Born /\ open' \subseteq Born /\ rooted' \subseteq Born /\ ThenablesAllowed'
      BY <1>1, <1>2, <1>4, <1>8, <1>10, <2>4 DEF Numbered, ThenablesAllowed
    <3>2. /\ \A y \in Promise : y \notin Born => state'[y] = state[y] /\ reactions'[y] = reactions[y]
          /\ \A y \in Born : state'[y] = state[y] \/ state'[y] \in Final
      BY <1>4, <1>10, <2>3
    <3> QED
      BY <1>1, <1>2, <1>6, <3>1, <3>2, CountsStay
  <2>8. RacesAlone'
    BY <1>2, <1>3, <1>5, <1>6, <2>4, RaceGoesOn
  <2>9. Drained(None, x, U) /\ x # None /\ \A y \in open' : y \in open
    BY <1>5, <1>10 DEF Drained
  <2>10. Good(r, DOMAIN H)' /\ r.np \notin DOMAIN H
    BY <1>2, <1>4, <1>5, <1>6, <2>2 DEF Good, Proper, OfJs, Born
  <2>11. Inv(H, U)'
    BY <1>2, <1>4, <1>5, <1>7, <1>8, <2>5, <2>6, <2>7, <2>8, <2>9, <2>10, PassInv
  <2> QED
    BY <2>11 DEF IInv
<1>11. ASSUME NEW st \in Final, NEW v \in AnyVal, v = Thenable => "adopting" \in script.may,
              Settle(p, st, v), Keep({}, S),
              reactions' = reactions, source' = source, open' = open
       PROVE  IInv'
  <2>1. state' = [state EXCEPT ![p] = st] /\ value' = [value EXCEPT ![p] = v]
    BY <1>11 DEF Settle
  <2>2. /\ state' \in [Promise -> States] /\ value' \in [Promise -> AnyVal]
        /\ state'[p] = st /\ \A y \in Promise : y # p => state'[y] = state[y]
    BY <1>1, <1>5, <1>11, <2>1 DEF TypeOK, States, Final
  <2>3. ThenablesAllowed'
    BY <1>1, <1>2, <1>5, <1>11, <2>1 DEF ThenablesAllowed, TypeOK
  <2>4. Wakes(S, None) /\ TasksTyped' /\ rooted' = rooted /\ armed' = armed /\ ctl' = S
    <3>1. {} \subseteq Promise
      OBVIOUS
    <3> QED
      BY <1>1, <1>4, <1>11, <3>1, KeepDoes DEF Keep
  <2>5. PICK r : r = None
    OBVIOUS
  <2>6. Effect(S, None, r, p, None)
    <3>1. Registers(None, r) /\ RootsGrow
      BY <1>11, <2>4 DEF Registers, RootsGrow
    <3>2. Settles(p)
      BY <1>2, <1>3, <1>5, <1>11, <2>2 DEF Settles
    <3> QED
      BY <1>4, <1>6, <2>4, <3>1, <3>2 DEF Effect, SameScript
  <2>7. TypeOK'
    BY <1>1, <1>2, <1>6, <1>11, <2>2, <2>4 DEF TypeOK, TasksTyped, AggTyped
  <2>8. Counts'
    <3>1. known' \subseteq Born /\ open' \subseteq Born /\ rooted' \subseteq Born
      BY <1>1, <1>8, <1>11, <2>4 DEF Numbered
    <3>2. /\ \A y \in Promise : y \notin Born => state'[y] = state[y] /\ reactions'[y] = reactions[y]
          /\ \A y \in Born : state'[y] = state[y] \/ state'[y] \in Final
      BY <1>4, <1>5, <1>11, <2>2
    <3> QED
      BY <1>1, <1>2, <1>6, <2>3, <3>1, <3>2, CountsStay
  <2>9. RacesAlone'
    BY <1>2, <1>3, <1>6, <2>4, RaceGoesOn
  <2>10. Drained(p, None, U) /\ \A y \in open' : y \in open
    BY <1>4, <1>9, <1>11 DEF Drained
  <2>11. Inv(H, U)'
    BY <1>2, <1>4, <1>5, <1>7, <1>8, <2>6, <2>7, <2>8, <2>9, <2>10, PassInv
  <2> QED
    BY <2>11 DEF IInv
<1>12. CASE x \in Promise /\ state[x] # "PENDING" /\ Settle(p, state[x], value[x]) /\ Keep({}, S)
            /\ reactions' = reactions /\ source' = source /\ open' = open
  <2>1. PICK st, v : st = state[x] /\ v = value[x]
    OBVIOUS
  <2>2. x \in Born /\ st \in States /\ v \in AnyVal
    BY <1>1, <1>4, <1>12, <2>1 DEF TypeOK
  <2>3. st \in Final /\ (v = Thenable => "adopting" \in script.may)
    BY <1>1, <1>12, <2>1, <2>2, NatFacts DEF Numbered, States, Final, ThenablesAllowed
  <2> QED
    BY <1>11, <1>12, <2>1, <2>2, <2>3
<1>13. CASE x = Thenable /\ Adopt(p, Thenable, S)
  <2>1. RacesThenables /\ Excused
    BY <1>4, <1>13 DEF RacesThenables, Excused
  <2>2. Calm(S)
    BY <2>1 DEF Calm
  <2>3. PICK T, z, d : Passes(S, p, x, T, z, AdoptR(p), None, d)
    BY <1>1, <1>4, <1>6, <1>13, <2>1, AdoptPasses
  <2>4. PICK r : r = AdoptR(p)
    OBVIOUS
  <2>5. Passes(S, p, x, T, z, r, None, d)
    BY <2>3, <2>4
  <2>6. Inv(H, U)'
    BY <1>2, <1>4, <1>6, <1>8, <2>2, <2>5, PassesInv
  <2> QED
    BY <2>6 DEF IInv
<1>14. CASE x \notin Promise /\ x # Thenable /\ Settle(p, "FULFILLED", x) /\ Keep({}, S)
            /\ reactions' = reactions /\ source' = source /\ open' = open
  <2>1. "FULFILLED" \in Final /\ x \in AnyVal
    BY <1>4, <1>14 DEF Final
  <2> QED
    BY <1>11, <1>14, <2>1
<1> QED
  BY <1>3, <1>10, <1>12, <1>13, <1>14 DEF RaceNext

----------------------------------------------------------------------------
(* Drains.                                                                 *)

\* The first reaction of the drain on top, the rest of its list s, and the
\* drain a that goes on with it.
DrainsOn(r, s, a) ==
  /\ r = Head(Top.todo) /\ s = Tail(Top.todo) /\ a = [Top EXCEPT !.todo = s]

LEMMA DrainHead ==
  ASSUME NEW H, NEW U, Inv(H, U), ctl # <<>>, Top.k = "drain", Top.todo # <<>>,
         NEW r, NEW s, NEW a, DrainsOn(r, s, a)
  PROVE  /\ Good(r, DOMAIN H) /\ (r.np \in DOMAIN H => H[r.np] = OnStack(Len(ctl)))
         /\ HeldAt(s, OnStack(Len(ctl)), H)
         /\ r.np \in DOMAIN H => \A i \in 1 .. Len(s) : s[i].np # r.np
         /\ a \in Activation /\ a.k = "drain" /\ a.p = Top.p /\ a.todo = s /\ a.ok = Top.ok
         /\ \A H2 : HeldAt(s, OnStack(Len(ctl)), H2) => GoodAt(a, Len(ctl), H2, U)
<1>1. GoodAt(Top, Len(ctl), H, U) /\ Top \in Activation
  BY StackReady DEF GoodAt
<1>2. PICK t : t = Top.todo
  OBVIOUS
<1>3. HeldAt(t, OnStack(Len(ctl)), H) /\ t \in Seq(Reaction) /\ t # <<>>
  BY <1>1, <1>2 DEF GoodAt, HeldAt
<1>4. /\ r = t[1] /\ s \in Seq(Reaction) /\ Len(s) = Len(t) - 1 /\ Len(t) \in Nat \ {0}
      /\ \A i \in 1 .. Len(s) : s[i] = t[i + 1]
  BY <1>2, <1>3, HeadTailProperties, EmptySeq, LenProperties DEF DrainsOn
<1>5. 1 \in 1 .. Len(t) /\ \A i \in 1 .. Len(s) : i + 1 \in 1 .. Len(t) /\ i + 1 # 1
  BY <1>4
<1>6. Good(r, DOMAIN H) /\ (r.np \in DOMAIN H => H[r.np] = OnStack(Len(ctl)))
  BY <1>3, <1>4, <1>5 DEF HeldAt
<1>7. r.np \in DOMAIN H => \A i \in 1 .. Len(s) : s[i].np # r.np
  <2> SUFFICES ASSUME r.np \in DOMAIN H, NEW i \in 1 .. Len(s) PROVE s[i].np # r.np
    OBVIOUS
  <2>1. i + 1 \in 1 .. Len(t) /\ i + 1 # 1 /\ s[i] = t[i + 1]
    BY <1>4, <1>5
  <2> QED
    BY <1>3, <1>4, <1>5, <2>1 DEF HeldAt, Distinct
<1>8. HeldAt(s, OnStack(Len(ctl)), H)
  <2>1. \A i \in 1 .. Len(s) :
          Good(s[i], DOMAIN H) /\ (s[i].np \in DOMAIN H => H[s[i].np] = OnStack(Len(ctl)))
    BY <1>3, <1>4, <1>5 DEF HeldAt
  <2>2. Distinct(s, DOMAIN H)
    <3> SUFFICES ASSUME NEW i \in 1 .. Len(s), NEW j \in 1 .. Len(s),
                        s[i].np \in DOMAIN H, s[i].np = s[j].np
                 PROVE  i = j
      BY DEF Distinct
    <3>1. /\ i + 1 \in 1 .. Len(t) /\ j + 1 \in 1 .. Len(t)
          /\ s[i] = t[i + 1] /\ s[j] = t[j + 1] /\ Len(s) \in Nat
      BY <1>4, <1>5
    <3>2. i + 1 = j + 1
      BY <1>3, <3>1 DEF HeldAt, Distinct
    <3> QED
      BY <3>1, <3>2
  <2> QED
    BY <1>4, <2>1, <2>2 DEF HeldAt
<1>9. a \in Activation /\ a.k = "drain" /\ a.p = Top.p /\ a.todo = s /\ a.ok = Top.ok
  <2>1. a = [k |-> Top.k, p |-> Top.p, ok |-> Top.ok, todo |-> s, at |-> Top.at,
             wp |-> Top.wp, items |-> Top.items]
    BY <1>1 DEF Activation, DrainsOn
  <2> QED
    BY <1>1, <1>4, <2>1 DEF Activation
<1>10. ASSUME NEW H2, HeldAt(s, OnStack(Len(ctl)), H2) PROVE GoodAt(a, Len(ctl), H2, U)
  BY <1>1, <1>9, <1>10 DEF GoodAt
<1> QED
  BY <1>6, <1>7, <1>8, <1>9, <1>10

\* The drain goes on, and may let go of the promise that waits on its reaction.
LEMMA DrainReady ==
  ASSUME NEW H, NEW U, Inv(H, U), ctl # <<>>, Top.k = "drain", Top.todo # <<>>,
         NEW r, NEW s, NEW a, DrainsOn(r, s, a),
         NEW H2, H2 = H \/ (r.np \in DOMAIN H /\ LetsGo(H, H2, r.np))
  PROVE  Ready(Replaced(a), H2, U) /\ Calm(Replaced(a)) /\ Len(Replaced(a)) = Len(ctl)
<1>1. TypeOK /\ Base(H, U)
  BY InvFacts
<1>2. /\ HeldAt(s, OnStack(Len(ctl)), H)
      /\ r.np \in DOMAIN H => H[r.np] = OnStack(Len(ctl))
      /\ r.np \in DOMAIN H => \A i \in 1 .. Len(s) : s[i].np # r.np
      /\ a \in Activation /\ a.k = "drain" /\ a.p = Top.p
      /\ \A H3 : HeldAt(s, OnStack(Len(ctl)), H3) => GoodAt(a, Len(ctl), H3, U)
  BY DrainHead
<1>3. /\ Base(H2, U) /\ \A j \in 1 .. Len(ctl) - 1 : GoodAt(ctl[j], j, H2, U)
      /\ HeldAt(s, OnStack(Len(ctl)), H2)
  <2>1. CASE H2 = H
    BY <1>1, <1>2, <2>1, RestGood
  <2>2. CASE r.np \in DOMAIN H /\ LetsGo(H, H2, r.np)
    <3>1. PICK h : h = r.np
      OBVIOUS
    <3>2. Base(H2, U) /\ \A j \in 1 .. Len(ctl) - 1 : GoodAt(ctl[j], j, H2, U)
      BY <1>2, <2>2, <3>1, DropOwned
    <3>3. HeldAt(s, OnStack(Len(ctl)), H2)
      BY <1>2, <2>2, <3>1, HeldElsewhere
    <3> QED
      BY <3>2, <3>3
  <2> QED
    BY <2>1, <2>2
<1>4. GoodAt(a, Len(ctl), H2, U)
  BY <1>2, <1>3
<1>5. Ready(Replaced(a), H2, U) /\ Calm(Replaced(a))
  BY <1>1, <1>2, <1>3, <1>4, ReplacedReady
<1> QED
  BY <1>1, <1>2, <1>5, ReplacedType

\* What every case of DrainNext starts from.
DrainingFacts(H, U, p, v) ==
  /\ TypeOK /\ Owners(H, U) /\ Sure /\ AggTyped /\ AggregatesProper /\ Numbered
  /\ ctl # <<>> /\ Top.k = "drain" /\ Top.todo # <<>> /\ p = Top.p /\ v = value[p]
  /\ born' = born /\ script' = script /\ known' = known /\ script.left \in 0 .. MaxOps
  /\ v \in AnyVal /\ v \notin Promise /\ v \notin DOMAIN U
  /\ v = Thenable => "adopting" \in script.may
  /\ known' \subseteq Born
  /\ SameScript /\ ScriptSound' /\ script'.left \in 0 .. MaxOps
  /\ None \notin Promise /\ None \notin DOMAIN U

LEMMA Draining ==
  ASSUME NEW H, NEW U, Inv(H, U), DrainNext, NEW p, p = Top.p, NEW v, v = value[p]
  PROVE  DrainingFacts(H, U, p, v)
<1>1. /\ TypeOK /\ Owners(H, U) /\ Sure /\ AggTyped /\ AggregatesProper /\ Numbered
      /\ script.left \in 0 .. MaxOps /\ ScriptSound /\ ThenablesAllowed
  BY InvFacts
<1>2. /\ ctl # <<>> /\ Top.k = "drain" /\ Top.todo # <<>>
      /\ born' = born /\ script' = script /\ known' = known
  BY DEF DrainNext, Ends
<1>3. p \in Promise /\ None \notin Promise /\ Born \subseteq Promise
  BY <1>1, <1>2, StackReady, NatFacts DEF GoodAt
<1>4. v \in AnyVal /\ v \notin Promise /\ (v = Thenable => "adopting" \in script.may)
  BY <1>1, <1>3, PromiseAssumption DEF TypeOK, ThenablesAllowed, AnyVal
<1>5. v \notin DOMAIN U /\ None \notin DOMAIN U
  BY <1>1, <1>3, <1>4 DEF Owners
<1> QED
  BY <1>1, <1>2, <1>4, <1>5, <1>3 DEF DrainingFacts, SameScript, ScriptSound, Numbered

\* A script function is called; the chained promise is its own to settle.
LEMMA DrainJsInv ==
  ASSUME NEW H, NEW U, Inv(H, U), DrainNext, NEW p, NEW v, DrainingFacts(H, U, p, v),
         NEW r, NEW s, NEW a, DrainsOn(r, s, a), OfJs(r),
         Skip(Append(Replaced(a), Active("handler", r.np))), agg' = agg
  PROVE  IInv'
<1>1. PICK y, n, h : y = r.np /\ n = Len(ctl) + 1 /\ h = OnStack(n)
  OBVIOUS
<1>2. PICK H2 : H2 = With(H, y, h)
  OBVIOUS
<1>3. /\ ctl # <<>> /\ Top.k = "drain" /\ Top.todo # <<>>
  BY DEF DrainingFacts
<1>4. Good(r, DOMAIN H) /\ y \in DOMAIN H
  <2>1. Good(r, DOMAIN H)
    BY <1>3, DrainHead
  <2> QED
    BY <1>1, <2>1 DEF Good
<1>5. LetsGo(H, H2, y) /\ y \in DOMAIN H2 /\ H2[y] = h
  BY <1>2, <1>4 DEF LetsGo, With
<1>6. PICK S : S = Replaced(a)
  OBVIOUS
<1>7. Ready(S, H2, U) /\ Calm(S) /\ Len(S) = Len(ctl)
  <2>1. r.np \in DOMAIN H /\ LetsGo(H, H2, r.np)
    BY <1>1, <1>4, <1>5
  <2> QED
    BY <1>3, <1>6, <2>1, DrainReady
<1>8. PICK b : b = Active("handler", y)
  OBVIOUS
<1>9. /\ y \in Promise /\ y \in Born /\ b \in Activation /\ b.k = "handler" /\ b.p = y
      /\ b.todo = <<>>
  <2>1. y \in Promise /\ y \in Born
    BY <1>4, NatFacts DEF DrainingFacts, Owners
  <2> QED
    BY <1>8, <2>1, FreshActivation
<1>10. GoodAt(b, n, H2, U)
  <2>1. HeldAt(<<>>, OnStack(n), H2)
    BY DEF HeldAt, Distinct
  <2> QED
    BY <1>1, <1>5, <1>9, <2>1 DEF GoodAt
<1>11. PICK T : T = Append(S, b)
  OBVIOUS
<1>12. Ready(T, H2, U) /\ Calm(T)
  <2>1. GoodAt(b, Len(S) + 1, H2, U)
    BY <1>1, <1>7, <1>10
  <2>2. Ready(Append(S, b), H2, U) /\ Calm(Append(S, b))
    BY <1>7, <1>9, <2>1, PushReady
  <2> QED
    BY <1>11, <2>2
<1>13. Skip(T)
  BY <1>1, <1>6, <1>8, <1>11
<1>14. SameInputs /\ AggTyped' /\ \A z \in known' : z \in known
  BY SameAgg DEF DrainingFacts
<1>15. Inv(H2, U)'
  BY <1>12, <1>13, <1>14, SkipInv DEF DrainingFacts
<1> QED
  BY <1>15 DEF IInv

\* A native resolve or reject function is called.
LEMMA DrainNativeInv ==
  ASSUME NEW H, NEW U, Inv(H, U), DrainNext, NEW p, NEW v, DrainingFacts(H, U, p, v),
         NEW r, NEW s, NEW a, DrainsOn(r, s, a), NEW y, y = r.onF.to, r.onF.do = "resolve",
         ResolveCb(y, v, Replaced(a)) \/ RejectCb(y, v, Replaced(a)), agg' = agg
  PROVE  IInv'
<1>1. /\ ctl # <<>> /\ Top.k = "drain" /\ Top.todo # <<>>
      /\ Sure /\ SameScript /\ TypeOK
  BY DEF DrainingFacts
<1>2. Good(r, DOMAIN H)
  BY <1>1, DrainHead
<1>3. y \in Born /\ y \notin DOMAIN H /\ y # v /\ v \in AnyVal /\ v \notin Promise
      /\ (v = Thenable => "adopting" \in script.may) /\ v \notin DOMAIN U
  BY <1>1, <1>2, NatFacts DEF Good, Proper, DrainingFacts
<1>4. PICK S : S = Replaced(a)
  OBVIOUS
<1>5. Ready(S, H, U) /\ Calm(S) /\ S \in Seq(Activation)
  BY <1>1, <1>4, DrainReady DEF Ready
<1>6. \E T, x, z, q, d : Passes(S, y, v, T, x, z, q, d)
  <2>1. CASE ResolveCb(y, v, S)
    BY <1>1, <1>3, <1>5, <2>1, ResolveCbPasses
  <2>2. CASE RejectCb(y, v, S)
    BY <1>1, <1>3, <1>5, <2>2, RejectCbPasses
  <2> QED
    BY <1>4, <2>1, <2>2
<1>7. PICK T, x, z, q, d : Passes(S, y, v, T, x, z, q, d)
  BY <1>6
<1>8. SameInputs /\ AggTyped' /\ \A m \in known' : m \in known
  BY <1>1, SameAgg DEF DrainingFacts
<1>9. /\ born' = born /\ ScriptSound' /\ script'.left \in 0 .. MaxOps /\ known' \subseteq Born
  BY DEF DrainingFacts
<1>10. Inv(H, U)'
  BY <1>3, <1>5, <1>7, <1>8, <1>9, PassesInv
<1> QED
  BY <1>10 DEF IInv

\* Nothing is called: the outcome goes to the chained promise as it is.
LEMMA DrainChainedInv ==
  ASSUME NEW H, NEW U, Inv(H, U), DrainNext, NEW p, NEW v, DrainingFacts(H, U, p, v),
         NEW r, NEW s, NEW a, DrainsOn(r, s, a), NEW y, y = r.np,
         r.onF.do = "none" \/ r.onR.do = "none",
         SettleChained(y, v, Replaced(a)) \/ RejectCb(y, v, Replaced(a)), agg' = agg
  PROVE  IInv'
<1>1. /\ ctl # <<>> /\ Top.k = "drain" /\ Top.todo # <<>>
      /\ Sure /\ SameScript /\ TypeOK /\ Owners(H, U)
  BY DEF DrainingFacts
<1>2. Good(r, DOMAIN H)
  BY <1>1, DrainHead
<1>3. y \in Born /\ v \in AnyVal /\ v \notin Promise /\ y # None
      /\ (v = Thenable => "adopting" \in script.may) /\ v \notin DOMAIN U
      /\ (y \notin DOMAIN H => "race" \in script.may)
  BY <1>1, <1>2, NatFacts DEF Good, Proper, DrainingFacts
<1>4. PICK S : S = Replaced(a)
  OBVIOUS
<1>5. PICK H2 : H2 = Without(H, y)
  OBVIOUS
<1>6. Ready(S, H2, U) /\ Calm(S) /\ S \in Seq(Activation) /\ y \notin DOMAIN H2
  <2>1. y \notin DOMAIN H2 /\ (y \in DOMAIN H => LetsGo(H, H2, y))
    BY <1>5 DEF Without, LetsGo
  <2>2. y \in DOMAIN H => Ready(S, H2, U) /\ Calm(S)
    BY <1>1, <1>4, <2>1, DrainReady
  <2>3. y \notin DOMAIN H => Ready(S, H2, U) /\ Calm(S)
    <3> SUFFICES ASSUME y \notin DOMAIN H PROVE Ready(S, H2, U) /\ Calm(S)
      OBVIOUS
    <3>1. PICK H3 : H3 = H
      OBVIOUS
    <3>2. Ready(S, H3, U) /\ Calm(S)
      BY <1>1, <1>4, <3>1, DrainReady
    <3>3. Base(H2, U) /\ \A j \in 1 .. Len(S) : GoodAt(S[j], j, H2, U)
      <4>1. DOMAIN H2 = DOMAIN H /\ \A z \in DOMAIN H : H2[z] = H[z]
        BY <1>5 DEF Without
      <4>2. ASSUME NEW t, NEW g, HeldAt(t, g, H) PROVE HeldAt(t, g, H2)
        BY <4>1, <4>2 DEF HeldAt
      <4>3. ReactionsGood(H2) /\ Owners(H2, U)
        BY <1>1, <4>1, <4>2, InvFacts DEF ReactionsGood, Owners
      <4>4. ASSUME NEW e, NEW j, GoodAt(e, j, H, U) PROVE GoodAt(e, j, H2, U)
        BY <4>1, <4>2, <4>4 DEF GoodAt
      <4> QED
        BY <3>1, <3>2, <4>3, <4>4 DEF Base, Ready
    <3> QED
      BY <3>2, <3>3 DEF Ready
  <2> QED
    BY <2>1, <2>2, <2>3 DEF Ready
<1>7. \E T, x, z, q, d : Passes(S, y, v, T, x, z, q, d)
  <2>1. CASE SettleChained(y, v, S)
    <3>1. state[y] = "PENDING" \/ Excused \/ v # Thenable
      <4>1. y \in DOMAIN H => state[y] = "PENDING"
        BY <1>1 DEF Owners
      <4> QED
        BY <1>3, <4>1 DEF Excused, RacesThenables
    <3>2. v \in AnyVal \cup Promise /\ (v \in Promise => v \in Born /\ state[y] = "PENDING")
      BY <1>3
    <3> QED
      BY <1>1, <1>3, <1>6, <2>1, <3>1, <3>2, SettleChainedPasses
  <2>2. CASE RejectCb(y, v, S)
    BY <1>1, <1>3, <1>6, <2>2, RejectCbPasses
  <2> QED
    BY <1>4, <2>1, <2>2
<1>8. PICK T, x, z, q, d : Passes(S, y, v, T, x, z, q, d)
  BY <1>7
<1>9. SameInputs /\ AggTyped' /\ \A m \in known' : m \in known
  BY <1>1, SameAgg DEF DrainingFacts
<1>10. /\ born' = born /\ ScriptSound' /\ script'.left \in 0 .. MaxOps /\ known' \subseteq Born
  BY DEF DrainingFacts
<1>11. Inv(H2, U)'
  BY <1>3, <1>6, <1>8, <1>9, <1>10, PassesInv
<1> QED
  BY <1>11 DEF IInv

\* An input of an aggregation has arrived.
LEMMA DrainArrivedInv ==
  ASSUME NEW H, NEW U, Inv(H, U), DrainNext, NEW p, NEW v, DrainingFacts(H, U, p, v),
         NEW r, NEW s, NEW a, DrainsOn(r, s, a), NEW h \in {r.onF, r.onR}, r.onF.do = "kept",
         NEW st \in Final, Arrived(h, st, v)
  PROVE  IInv'
<1>1. /\ ctl # <<>> /\ Top.k = "drain" /\ Top.todo # <<>>
      /\ Sure /\ SameScript /\ TypeOK /\ Owners(H, U) /\ AggTyped /\ AggregatesProper
  BY DEF DrainingFacts
<1>2. Good(r, DOMAIN H)
  BY <1>1, DrainHead
<1>3. PICK c, i, b, S, T : /\ c = h.to /\ i = h.at /\ b = Active("release", c)
                           /\ S = Replaced(a) /\ T = Append(S, b)
  OBVIOUS
<1>4. c \in DOMAIN agg /\ i \in DOMAIN agg[c].items /\ c \in Born /\ c \in Promise
  BY <1>1, <1>2, <1>3, NatFacts DEF Good, Proper, AggregatesProper
<1>5. agg[c] \in Context /\ i \in DOMAIN agg[c].values /\ Alike(agg)
  <2>1. agg[c] \in Context /\ Len(agg[c].values) = Len(agg[c].items)
    BY <1>1, <1>4 DEF AggTyped, AggregatesProper
  <2>2. DOMAIN agg[c].values = DOMAIN agg[c].items
    BY <2>1, LenProperties DEF Context
  <2> QED
    BY <1>1, <1>4, <2>1, <2>2, AlikeAgg
<1>6. Ready(S, H, U) /\ Calm(S) /\ S \in Seq(Activation)
  BY <1>1, <1>3, DrainReady DEF Ready
<1>7. b \in Activation /\ b.k = "release" /\ b.p = c /\ b.todo = <<>>
  BY <1>3, <1>4, FreshActivation
<1>8. Ready(T, H, U) /\ Calm(T)
  <2>1. HeldAt(<<>>, OnStack(Len(S) + 1), H)
    BY DEF HeldAt, Distinct
  <2>2. GoodAt(b, Len(S) + 1, H, U)
    BY <1>4, <1>7, <2>1 DEF GoodAt
  <2> QED
    BY <1>3, <1>6, <1>7, <2>2, PushReady
<1>9. T = S \o <<b>>
  BY <1>3, <1>6, <1>7, AppendIsConcat
<1>10. v \in AnyVal /\ (v = Thenable => "adopting" \in script.may)
  BY DEF DrainingFacts
<1>11. PICK A : A = Store(c, i, [st |-> st, v |-> v])
  OBVIOUS
<1>12. Alike(A)
  <2>1. [st |-> st, v |-> v] \in Outcome
    BY <1>10 DEF Outcome, Final, States
  <2> QED
    BY <1>1, <1>4, <1>5, <1>11, <2>1, AlikeStored
<1>13. \/ Skip(T) /\ agg' = agg
       \/ Count(c, A, T)
       \/ Fail(c, v, T)
  <2>1. a = [Top EXCEPT !.todo = Tail(@)] /\ S = Replaced([Top EXCEPT !.todo = Tail(@)])
    BY <1>3 DEF DrainsOn
  <2>2. /\ c = h.to /\ <<b>> = <<Active("release", h.to)>>
        /\ A = Store(h.to, h.at, [st |-> st, v |-> v])
    BY <1>3, <1>11
  <2> QED
    BY <1>9, <2>1, <2>2 DEF Arrived
<1>14. PICK n : n = IF A[c].remaining > 0 THEN A[c].remaining - 1 ELSE 0
  OBVIOUS
<1>15. PICK B : B = [A EXCEPT ![c].remaining = n]
  OBVIOUS
<1>16. Alike(B) /\ B = [A EXCEPT ![c].remaining = IF @ > 0 THEN @ - 1 ELSE 0]
  <2>1. n \in Nat
    BY <1>4, <1>12, <1>14 DEF Alike, Context
  <2>2. Alike(B)
    BY <1>4, <1>12, <1>15, <2>1, AlikeCounted
  <2> QED
    BY <1>14, <1>15, <2>2
<1>17. \E D : \E so \in Final, w \in AnyVal :
         /\ Alike(D) /\ agg' = D /\ (w = Thenable => "adopting" \in script.may)
         /\ Skip(T) \/ (state[c] = "PENDING" /\ Conclude(c, so, w, None, T))
  <2>1. CASE Skip(T) /\ agg' = agg
    BY <1>5, <1>10, <2>1
  <2>2. CASE Count(c, A, T)
    <3>1. Finish(c, B, T) \/ (agg' = B /\ Skip(T))
      BY <1>16, <2>2 DEF Count
    <3>2. CASE agg' = B /\ Skip(T)
      BY <1>10, <1>16, <3>2
    <3>3. CASE Finish(c, B, T)
      <4>1. "FULFILLED" \in Final /\ Array \in AnyVal /\ Array # Thenable
        BY PromiseAssumption DEF Final, AnyVal
      <4>2. Alike([B EXCEPT ![c].settled = TRUE])
        BY <1>4, <1>16, AlikeSettled
      <4> QED
        BY <3>3, <4>1, <4>2 DEF Finish
    <3> QED
      BY <3>1, <3>2, <3>3
  <2>3. CASE Fail(c, v, T)
    <3>1. "REJECTED" \in Final
      BY DEF Final
    <3>2. Alike([agg EXCEPT ![c].settled = TRUE])
      BY <1>4, <1>5, AlikeSettled
    <3> QED
      BY <1>10, <2>3, <3>1, <3>2 DEF Fail
  <2> QED
    BY <1>13, <2>1, <2>2, <2>3
<1>18. PICK D, so, w :
         /\ so \in Final /\ w \in AnyVal
         /\ Alike(D) /\ agg' = D /\ (w = Thenable => "adopting" \in script.may)
         /\ Skip(T) \/ (state[c] = "PENDING" /\ Conclude(c, so, w, None, T))
  BY <1>17
<1>19. /\ born' = born /\ script' = script /\ script.left \in 0 .. MaxOps
       /\ known' \subseteq Born /\ \A z \in known' : z \in known
  BY DEF DrainingFacts
<1>20. Inv(H, U)'
  BY <1>4, <1>8, <1>18, <1>19, AggregateInv
<1> QED
  BY <1>20 DEF IInv

LEMMA DrainNextInv ==
  ASSUME NEW H, NEW U, Inv(H, U), DrainNext
  PROVE  IInv'
<1>1. PICK p, v : p = Top.p /\ v = value[p]
  OBVIOUS
<1>2. DrainingFacts(H, U, p, v)
  BY <1>1, Draining
<1>3. PICK r, s, a : DrainsOn(r, s, a)
  BY DEF DrainsOn
<1>4. PICK h, S : h = (IF Top.ok THEN r.onF ELSE r.onR) /\ S = Replaced(a)
  OBVIOUS
<1>5. r = Head(Top.todo) /\ S = Replaced([Top EXCEPT !.todo = Tail(@)])
  BY <1>3, <1>4 DEF DrainsOn
<1>6. Good(r, DOMAIN H) /\ Top.ok \in BOOLEAN
  <2>1. /\ ctl # <<>> /\ Top.k = "drain" /\ Top.todo # <<>> /\ TypeOK
    BY <1>2 DEF DrainingFacts
  <2> QED
    BY <1>3, <2>1, DrainHead, StackType DEF Activation
<1>7. h \in {r.onF, r.onR} /\ Proper(r)
  BY <1>4, <1>6 DEF Good
<1>8. CASE h.do = "js" /\ Skip(Append(S, Active("handler", r.np))) /\ agg' = agg
  BY <1>2, <1>3, <1>4, <1>7, <1>8, DrainJsInv DEF OfJs
<1>9. CASE \/ h.do = "resolve" /\ ResolveCb(h.to, v, S) /\ agg' = agg
           \/ h.do = "reject" /\ RejectCb(h.to, v, S) /\ agg' = agg
  <2>1. h.to = r.onF.to /\ r.onF.do = "resolve"
    BY <1>7, <1>9 DEF Proper
  <2> QED
    BY <1>2, <1>3, <1>4, <1>9, <2>1, DrainNativeInv
<1>10. CASE \/ h.do = "kept" /\ Arrived(h, "FULFILLED", v)
            \/ h.do = "failed" /\ Arrived(h, "REJECTED", v)
  <2>1. PICK st : st \in Final /\ Arrived(h, st, v)
    BY <1>10 DEF Final
  <2>2. r.onF.do = "kept"
    BY <1>7, <1>10 DEF Proper
  <2> QED
    BY <1>2, <1>3, <1>7, <2>1, <2>2, DrainArrivedInv
<1>11. CASE /\ h.do = "none" /\ agg' = agg
            /\ SettleChained(r.np, v, S) \/ RejectCb(r.np, v, S)
  BY <1>2, <1>3, <1>4, <1>7, <1>11, DrainChainedInv
<1> QED
  BY <1>1, <1>4, <1>5, <1>8, <1>9, <1>10, <1>11 DEF DrainNext

----------------------------------------------------------------------------
(* Steps that settle and make no promise.                                  *)

\* The promises are as they were; none that is pending leaves the root array.
Resting ==
  /\ state' = state /\ value' = value /\ source' = source /\ open' = open
  /\ agg' = agg /\ born' = born /\ script' = script /\ known' = known
  /\ rooted' \subseteq rooted
  /\ \A y \in rooted : state[y] = "PENDING" => y \in rooted'

LEMMA GoodRests ==
  ASSUME Resting, NEW r, NEW W, Good(r, W)
  PROVE  Good(r, W)'
BY DEF Resting, Good, Proper, Born

LEMMA HeldRests ==
  ASSUME Resting, NEW s, NEW h, NEW H, HeldAt(s, h, H)
  PROVE  HeldAt(s, h, H)'
<1>1. \A i \in 1 .. Len(s) : Good(s[i], DOMAIN H)'
  BY GoodRests DEF HeldAt
<1> QED
  BY <1>1 DEF HeldAt

\* The reactions of h are the same under H2.
LEMMA HeldMoved ==
  ASSUME NEW s, NEW g, NEW h, NEW H, HeldAt(s, g, H), NEW H2, DOMAIN H2 = DOMAIN H,
         \A y \in DOMAIN H : H[y] = g => H2[y] = h
  PROVE  HeldAt(s, h, H2)
BY DEF HeldAt, Good, Distinct

LEMMA GoodAtRests ==
  ASSUME Resting, NEW a, NEW j, NEW H, NEW U, GoodAt(a, j, H, U),
         NEW H2, DOMAIN H2 = DOMAIN H,
         \A y \in DOMAIN H : H[y] = OnStack(j) => H2[y] = OnStack(j),
         a.k = "build" => script.inline \/ armed' = armed
  PROVE  GoodAt(a, j, H2, U)'
<1>1. PICK h : h = OnStack(j)
  OBVIOUS
<1>2. HeldAt(a.todo, h, H)
  BY <1>1 DEF GoodAt
<1>3. HeldAt(a.todo, h, H2)
  BY <1>1, <1>2, HeldMoved
<1>4. PICK s : s = a.todo
  OBVIOUS
<1>5. HeldAt(s, h, H2)'
  BY <1>3, <1>4, HeldRests
<1>6. a.k = "build" => BuildsOn(a)'
  BY DEF GoodAt, BuildsOn, Resting
<1>7. a.k = "race" => RacesOver(a, U)'
  BY DEF GoodAt, RacesOver, Resting, Inputs, Born
<1> QED
  BY <1>1, <1>4, <1>5, <1>6, <1>7 DEF GoodAt, Resting, Born

LEMMA RestInv ==
  ASSUME NEW H, NEW U, Inv(H, U), Resting, TasksTyped', Drains',
         reactions' \in [Promise -> Seq(Reaction)],
         \A y \in Promise : reactions'[y] \in {reactions[y], <<>>},
         NEW H2, DOMAIN H2 = DOMAIN H, ReactionsGood(H2)',
         StackGood(H2, U)'
  PROVE  IInv'
<1>1. /\ TypeOK /\ Owners(H, U) /\ Counts /\ ScriptSound /\ ThenablesAllowed /\ Numbered
  BY InvFacts
<1>2. TypeOK'
  BY <1>1 DEF TypeOK, TasksTyped, Resting
<1>3. Counts'
  <2>1. SameInputs /\ SameScript /\ ScriptSound' /\ ThenablesAllowed' /\ born' = born
    BY <1>1, SameAgg DEF Resting, SameScript, ScriptSound, ThenablesAllowed
  <2>2. known' \subseteq Born /\ open' \subseteq Born /\ rooted' \subseteq Born
    BY <1>1 DEF Resting, Numbered
  <2>3. \A y \in Promise : y \notin Born => state'[y] = state[y] /\ reactions'[y] = reactions[y]
    <3> SUFFICES ASSUME NEW y \in Promise, y \notin Born
                 PROVE  state'[y] = state[y] /\ reactions'[y] = reactions[y]
      OBVIOUS
    <3>1. y > born
      BY <1>1, NatFacts
    <3> QED
      BY <1>1, <3>1 DEF Numbered, Resting
  <2>4. \A y \in Born : state'[y] = state[y] \/ state'[y] \in Final
    BY DEF Resting
  <2> QED
    BY <1>1, <2>1, <2>2, <2>3, <2>4, CountsStay
<1>4. Owners(H2, U)'
  <2>1. \A u \in DOMAIN U : u \in Promise
    BY <1>1, NatFacts DEF Owners
  <2>2. \A u \in DOMAIN U : reactions'[u] = <<>>
    BY <1>1, <2>1 DEF Owners
  <2> QED
    BY <1>1, <2>2 DEF Owners, Resting, Born
<1>5. Inv(H2, U)'
  BY <1>2, <1>3, <1>4 DEF Inv, Base
<1> QED
  BY <1>5 DEF IInv

----------------------------------------------------------------------------
(* A drain begins and ends; the host runs a microtask or a timer callback. *)

LEMMA DrainEnterInv ==
  ASSUME NEW H, NEW U, Inv(H, U), DrainEnter
  PROVE  IInv'
<1>1. PICK p, n, s : p = Top.p /\ n = Len(ctl) /\ s = reactions[p]
  OBVIOUS
<1>2. /\ ctl # <<>> /\ Top.k = "enter" /\ Resting /\ queue' = queue
      /\ armed' = [armed EXCEPT ![p] = FALSE] /\ reactions' = [reactions EXCEPT ![p] = <<>>]
      /\ ctl' = Replaced([Active("drain", p) EXCEPT !.todo = s, !.ok = state[p] = "FULFILLED"])
  BY <1>1 DEF DrainEnter, Ends, Resting
<1>3. /\ TypeOK /\ Drains /\ StackGood(H, U) /\ ReactionsGood(H) /\ RacesAlone
      /\ GoodAt(Top, n, H, U)
  BY <1>1, <1>2, InvFacts, StackReady
<1>4. /\ p \in Promise /\ p \in Born /\ state[p] \in Final /\ (script.inline \/ n = 1)
      /\ s \in Seq(Reaction) /\ n \in Nat \ {0} /\ Top = ctl[n]
  BY <1>1, <1>2, <1>3, NatFacts, StackType DEF GoodAt, TypeOK
<1>5. PICK a : a = [Active("drain", p) EXCEPT !.todo = s, !.ok = state[p] = "FULFILLED"]
  OBVIOUS
<1>6. a \in Activation /\ a.k = "drain" /\ a.p = p /\ a.todo = s
  <2>1. a = [k |-> "drain", p |-> p, ok |-> state[p] = "FULFILLED", todo |-> s, at |-> 1,
             wp |-> None, items |-> <<>>]
    BY <1>5 DEF Active
  <2>2. (state[p] = "FULFILLED") \in BOOLEAN /\ <<>> \in Seq(AnyVal \cup Promise)
    BY EmptySeq
  <2> QED
    BY <1>4, <2>1, <2>2 DEF Activation
<1>7. /\ ctl' \in Seq(Activation) /\ Len(ctl') = n /\ ctl'[n] = a
      /\ \A j \in 1 .. n - 1 : ctl'[j] = ctl[j]
  BY <1>1, <1>2, <1>3, <1>5, <1>6, ReplacedType
<1>8. /\ \A y \in Promise : y # p => armed'[y] = armed[y] /\ reactions'[y] = reactions[y]
      /\ ~armed'[p] /\ reactions'[p] = <<>>
      /\ armed' \in [Promise -> BOOLEAN] /\ reactions' \in [Promise -> Seq(Reaction)]
  BY <1>2, <1>3, <1>4, EmptySeq DEF TypeOK
<1>9. PICK H2 : H2 = [y \in DOMAIN H |-> IF H[y] = OnList(p) THEN OnStack(n) ELSE H[y]]
  OBVIOUS
<1>10. /\ DOMAIN H2 = DOMAIN H
       /\ \A y \in DOMAIN H : H[y] = OnList(p) => H2[y] = OnStack(n)
       /\ \A y \in DOMAIN H : \A z : z # p /\ H[y] = OnList(z) => H2[y] = OnList(z)
       /\ \A y \in DOMAIN H : \A j : H[y] = OnStack(j) => H2[y] = OnStack(j)
  BY <1>9 DEF OnList, OnStack
<1>11. ReactionsGood(H2)'
  <2> SUFFICES ASSUME NEW y \in Promise, NEW t, t = reactions'[y]
               PROVE  HeldAt(t, OnList(y), H2)'
    BY DEF ReactionsGood
  <2>1. CASE y = p
    BY <1>8, <2>1 DEF HeldAt, Distinct
  <2>2. CASE y # p
    <3>1. t = reactions[y]
      BY <1>8, <2>2
    <3>2. HeldAt(t, OnList(y), H)
      BY <1>3, <3>1 DEF ReactionsGood
    <3>3. HeldAt(t, OnList(y), H2)
      <4>1. PICK g : g = OnList(y)
        OBVIOUS
      <4>2. \A z \in DOMAIN H : H[z] = g => H2[z] = g
        BY <1>10, <2>2, <4>1
      <4> QED
        BY <1>10, <3>2, <4>1, <4>2, HeldMoved
    <3> QED
      BY <1>2, <3>3, HeldRests
  <2> QED
    BY <2>1, <2>2
<1>12. StackGood(H2, U)'
  <2> SUFFICES ASSUME NEW j \in 1 .. Len(ctl'), NEW b, b = ctl'[j]
               PROVE  GoodAt(b, j, H2, U)'
    BY DEF StackGood
  <2>1. CASE j = n
    <3>1. HeldAt(s, OnList(p), H)
      BY <1>1, <1>3, <1>4 DEF ReactionsGood
    <3>2. PICK g, h : g = OnList(p) /\ h = OnStack(n)
      OBVIOUS
    <3>3. HeldAt(s, h, H2)
      BY <1>10, <3>1, <3>2, HeldMoved
    <3>4. HeldAt(s, h, H2)'
      BY <1>2, <3>3, HeldRests
    <3>5. b = a /\ state'[p] \in Final /\ (script'.inline \/ n = 1)
      BY <1>2, <1>4, <1>7, <2>1 DEF Resting
    <3> QED
      BY <1>2, <1>4, <1>6, <2>1, <3>2, <3>4, <3>5 DEF GoodAt, Resting, Born
  <2>2. CASE j # n
    <3>1. j \in 1 .. n - 1 /\ j \in 1 .. Len(ctl) /\ b = ctl[j] /\ script.inline
      BY <1>1, <1>4, <1>7, <2>2
    <3>2. GoodAt(b, j, H, U)
      BY <1>3, <3>1 DEF StackGood
    <3> QED
      BY <1>2, <1>10, <3>1, <3>2, GoodAtRests
  <2> QED
    BY <2>1, <2>2
<1>13. /\ \A y \in Promise : y \in rooted' /\ state'[y] # "PENDING" /\ ~armed'[y] /\ Runs(ctl, y)
             => Runs(ctl', y)
       /\ Runs(ctl', p)
  BY <1>1, <1>4, <1>6, <1>7 DEF Runs
<1>14. Drains'
  <2>1. QueueSettled'
    BY <1>2, <1>3 DEF Drains, QueueSettled, Resting
  <2>2. Rooted'
    BY <1>2, <1>3, <1>8 DEF Drains, Rooted, Resting, DrainEnter
  <2>3. ArmedComes'
    BY <1>1, <1>2, <1>3, <1>4, <1>7, <1>8 DEF Drains, ArmedComes
  <2>4. SettledArmed'
    BY <1>2, <1>3, <1>8 DEF Drains, SettledArmed, Resting, ThenablesInline
  <2>5. RootsRun'
    <3> SUFFICES ASSUME ~Excused, NEW y \in rooted', state'[y] # "PENDING", ~armed'[y]
                 PROVE  Runs(ctl', y)
      BY <1>2 DEF RootsRun, Excused, RacesThenables, ThenablesInline, Resting
    <3>1. y \in rooted /\ y \in Promise /\ state[y] # "PENDING"
      BY <1>2, <1>3 DEF Resting, TypeOK
    <3>2. CASE y = p
      BY <1>13, <3>2
    <3>3. CASE y # p
      BY <1>3, <1>8, <1>13, <3>1, <3>3 DEF Drains, RootsRun
    <3> QED
      BY <3>2, <3>3
  <2>6. RacesAlone'
    <3>1. RacesThenables' = RacesThenables
      BY <1>2 DEF Resting, RacesThenables
    <3> QED
      BY <1>1, <1>2, <1>3, <1>4, <1>6, <1>7, <3>1 DEF RacesAlone
  <2> QED
    BY <2>1, <2>2, <2>3, <2>4, <2>5, <2>6 DEF Drains
<1>15. TasksTyped'
  BY <1>2, <1>3, <1>7, <1>8 DEF TasksTyped, TypeOK, Resting
<1> QED
  BY <1>2, <1>8, <1>10, <1>11, <1>12, <1>14, <1>15, RestInv

LEMMA DrainExitInv ==
  ASSUME NEW H, NEW U, Inv(H, U), DrainExit
  PROVE  IInv'
<1>1. PICK p, n : p = Top.p /\ n = Len(ctl)
  OBVIOUS
<1>2. /\ TypeOK /\ Drains /\ StackGood(H, U) /\ ReactionsGood(H) /\ RacesAlone
      /\ ctl # <<>> /\ Top.k = "drain" /\ GoodAt(Top, n, H, U)
      /\ DOMAIN agg \subseteq Promise
  BY <1>1, InvFacts, StackReady DEF DrainExit, Ends, AggTyped
<1>3. /\ p \in Promise /\ state[p] # "PENDING" /\ n \in Nat \ {0} /\ Top = ctl[n]
  BY <1>1, <1>2, NatFacts, StackType DEF GoodAt, Final
<1>4. rooted' = IF armed[p] THEN rooted ELSE rooted \ {p}
  BY <1>1, <1>3 DEF DrainExit
<1>5. /\ Resting /\ queue' = queue /\ armed' = armed /\ reactions' = reactions /\ ctl' = Below
  BY <1>3, <1>4 DEF DrainExit, Resting, promiseVars
<1>6. /\ Below \in Seq(Activation) /\ Len(Below) = n - 1
      /\ \A j \in 1 .. n - 1 : Below[j] = ctl[j]
  BY <1>1, <1>2, StackType
<1>7. ReactionsGood(H)'
  <2> SUFFICES ASSUME NEW y \in Promise, NEW t, t = reactions[y]
               PROVE  HeldAt(t, OnList(y), H)'
    BY <1>5 DEF ReactionsGood
  <2>1. PICK g : g = OnList(y)
    OBVIOUS
  <2>2. HeldAt(t, g, H)
    BY <1>2, <2>1 DEF ReactionsGood
  <2> QED
    BY <1>5, <2>1, <2>2, HeldRests
<1>8. StackGood(H, U)'
  <2> SUFFICES ASSUME NEW j \in 1 .. n - 1, NEW b, b = ctl[j]
               PROVE  GoodAt(b, j, H, U)'
    BY <1>5, <1>6 DEF StackGood
  <2>1. GoodAt(b, j, H, U)
    BY <1>1, <1>2, <1>3 DEF StackGood
  <2> QED
    BY <1>5, <2>1, GoodAtRests
<1>9. Drains'
  <2>1. QueueSettled'
    BY <1>2, <1>5 DEF Drains, QueueSettled, Resting
  <2>2. Rooted'
    <3>1. /\ \A y \in open \cup DOMAIN agg : state[y] = "PENDING" => y \in rooted'
          /\ \A y \in Promise : reactions[y] # <<>> /\ state[y] = "PENDING" => y \in rooted'
          /\ \A y \in Promise : armed[y] => y \in rooted'
      BY <1>2, <1>3, <1>4 DEF Drains, Rooted
    <3> QED
      BY <1>5, <3>1 DEF Rooted, Resting
  <2>3. ArmedComes'
    BY <1>1, <1>2, <1>3, <1>5, <1>6 DEF Drains, ArmedComes
  <2>4. SettledArmed'
    BY <1>2, <1>5 DEF Drains, SettledArmed, Resting, ThenablesInline
  <2>5. RootsRun'
    <3> SUFFICES ASSUME ~Excused, NEW y \in rooted', state'[y] # "PENDING", ~armed'[y]
                 PROVE  Runs(ctl', y)
      BY <1>5 DEF RootsRun, Excused, RacesThenables, ThenablesInline, Resting
    <3>1. y \in rooted /\ y # p /\ state[y] # "PENDING" /\ ~armed[y]
      BY <1>4, <1>5 DEF Resting
    <3>2. PICK j \in 1 .. n : ctl[j].k \in {"enter", "drain"} /\ ctl[j].p = y
      BY <1>1, <1>2, <3>1 DEF Drains, RootsRun, Runs
    <3>3. j \in 1 .. n - 1 /\ Below[j] = ctl[j]
      BY <1>1, <1>3, <1>6, <3>1, <3>2
    <3> QED
      BY <1>5, <1>6, <3>2, <3>3 DEF Runs
  <2>6. RacesAlone'
    <3>1. RacesThenables' = RacesThenables
      BY <1>5 DEF Resting, RacesThenables
    <3> QED
      BY <1>1, <1>2, <1>3, <1>5, <1>6, <3>1 DEF RacesAlone
  <2> QED
    BY <2>1, <2>2, <2>3, <2>4, <2>5, <2>6 DEF Drains
<1>10. TasksTyped'
  BY <1>2, <1>5, <1>6 DEF TasksTyped, TypeOK, Resting
<1>11. /\ \A y \in Promise : reactions'[y] \in {reactions[y], <<>>}
       /\ reactions' \in [Promise -> Seq(Reaction)]
  BY <1>2, <1>5 DEF TypeOK
<1> QED
  BY <1>5, <1>7, <1>8, <1>9, <1>10, <1>11, RestInv

\* The host calls an activation when no other is there, or nothing happens.
LEMMA HostInv ==
  ASSUME NEW H, NEW U, Inv(H, U), Microtask \/ Task \/ UNCHANGED vars
  PROVE  IInv'
<1>1. /\ TypeOK /\ Drains /\ StackGood(H, U) /\ ReactionsGood(H) /\ RacesAlone
  BY InvFacts
<1>2. /\ Resting /\ armed' = armed /\ rooted' = rooted /\ reactions' = reactions
  BY DEF Microtask, Task, Resting, vars, promiseVars, taskVars
<1>3. ReactionsGood(H)'
  <2> SUFFICES ASSUME NEW y \in Promise, NEW t, t = reactions[y]
               PROVE  HeldAt(t, OnList(y), H)'
    BY <1>2 DEF ReactionsGood
  <2>1. PICK g : g = OnList(y)
    OBVIOUS
  <2>2. HeldAt(t, g, H)
    BY <1>1, <2>1 DEF ReactionsGood
  <2> QED
    BY <1>2, <2>1, <2>2, HeldRests
<1>4. /\ \A y \in Promise : reactions'[y] \in {reactions[y], <<>>}
      /\ reactions' \in [Promise -> Seq(Reaction)]
  BY <1>1, <1>2 DEF TypeOK
<1>5. /\ RacesThenables' = RacesThenables /\ Excused' = Excused
      /\ ThenablesInline' = ThenablesInline
  BY <1>2 DEF Resting, RacesThenables, Excused, ThenablesInline
<1>6. Rooted' /\ SettledArmed'
  BY <1>1, <1>2, <1>5 DEF Drains, Rooted, SettledArmed, Resting
<1>7. CASE UNCHANGED vars
  <2>1. ctl' = ctl /\ queue' = queue
    BY <1>7 DEF vars, taskVars
  <2>2. StackGood(H, U)'
    <3> SUFFICES ASSUME NEW j \in 1 .. Len(ctl), NEW b, b = ctl[j]
                 PROVE  GoodAt(b, j, H, U)'
      BY <2>1 DEF StackGood
    <3>1. GoodAt(b, j, H, U)
      BY <1>1 DEF StackGood
    <3> QED
      BY <1>2, <3>1, GoodAtRests
  <2>3. QueueSettled' /\ ArmedComes' /\ RootsRun' /\ RacesAlone'
    BY <1>1, <1>2, <1>5, <2>1
       DEF Drains, QueueSettled, ArmedComes, RootsRun, RacesAlone, Runs, Resting
  <2>4. TasksTyped'
    BY <1>1, <1>2, <2>1 DEF TasksTyped, TypeOK
  <2> QED
    BY <1>2, <1>3, <1>4, <1>6, <2>2, <2>3, <2>4, RestInv DEF Drains
<1>8. ASSUME ctl = <<>>, NEW b, b \in Activation, ctl' = <<b>>, GoodAt(b, 1, H, U),
             b.k \notin {"race", "build"}, queue' \in Seq(Promise),
             \A i \in 1 .. Len(queue') : state[queue'[i]] \in Final,
             \A i \in 1 .. Len(queue) : \/ b.k = "enter" /\ b.p = queue[i]
                                        \/ \E k \in 1 .. Len(queue') : queue'[k] = queue[i]
      PROVE  IInv'
  <2>1. Len(ctl) = 0 /\ 1 .. Len(ctl) = {} /\ ctl' \in Seq(Activation)
        /\ Len(ctl') = 1 /\ 1 .. Len(ctl') = {1} /\ ctl'[1] = b
    BY <1>8
  <2>2. StackGood(H, U)'
    <3>1. GoodAt(b, 1, H, U)'
      BY <1>2, <1>8, GoodAtRests
    <3> QED
      BY <2>1, <3>1 DEF StackGood
  <2>3. QueueSettled'
    BY <1>2, <1>8 DEF QueueSettled, Resting
  <2>4. ArmedComes'
    BY <1>1, <1>2, <1>8, <2>1 DEF Drains, ArmedComes
  <2>5. RootsRun'
    <3>1. \A y : ~Runs(ctl, y)
      BY <2>1 DEF Runs
    <3> QED
      BY <1>1, <1>2, <1>5, <3>1 DEF Drains, RootsRun, Resting
  <2>6. RacesAlone'
    BY <1>8, <2>1 DEF RacesAlone
  <2>7. TasksTyped'
    BY <1>1, <1>2, <1>8, <2>1 DEF TasksTyped, TypeOK
  <2> QED
    BY <1>2, <1>3, <1>4, <1>6, <2>2, <2>3, <2>4, <2>5, <2>6, <2>7, RestInv DEF Drains
<1>9. \A j : HeldAt(<<>>, OnStack(j), H)
  BY DEF HeldAt, Distinct
<1>10. CASE Microtask
  <2>1. PICK p, b : p = Head(queue) /\ b = Active("enter", p)
    OBVIOUS
  <2>2. queue \in Seq(Promise) /\ queue # <<>> /\ ctl = <<>> /\ queue' = Tail(queue)
        /\ ctl' = <<b>>
    BY <1>1, <1>10, <2>1 DEF Microtask, TypeOK
  <2>3. /\ Len(queue) \in Nat \ {0} /\ Tail(queue) \in Seq(Promise)
        /\ Len(Tail(queue)) = Len(queue) - 1 /\ p = queue[1] /\ p \in Promise
        /\ \A i \in 1 .. Len(queue) - 1 : Tail(queue)[i] = queue[i + 1]
    BY <2>1, <2>2, HeadTailProperties
  <2>4. b \in Activation /\ b.k = "enter" /\ b.p = p /\ b.todo = <<>>
    BY <2>1, <2>3, FreshActivation
  <2>5. state[p] \in Final /\ p \in Born
    <3>1. state[p] \in Final
      BY <1>1, <2>3 DEF Drains, QueueSettled
    <3> QED
      BY <2>3, <3>1, InvFacts, NatFacts DEF Numbered, Final
  <2>6. GoodAt(b, 1, H, U)
    BY <1>9, <2>4, <2>5 DEF GoodAt
  <2>7. \A i \in 1 .. Len(queue') : state[queue'[i]] \in Final
    <3>1. \A i \in 1 .. Len(queue) - 1 : i + 1 \in 1 .. Len(queue)
      BY <2>3
    <3> QED
      BY <1>1, <2>2, <2>3, <3>1 DEF Drains, QueueSettled
  <2>8. \A i \in 1 .. Len(queue) : \/ b.p = queue[i]
                                   \/ \E k \in 1 .. Len(queue') : queue'[k] = queue[i]
    <3> SUFFICES ASSUME NEW i \in 1 .. Len(queue), i # 1
                 PROVE  \E k \in 1 .. Len(queue') : queue'[k] = queue[i]
      BY <2>3, <2>4
    <3>1. i - 1 \in 1 .. Len(queue) - 1 /\ (i - 1) + 1 = i
      BY <2>3
    <3> QED
      BY <2>2, <2>3, <3>1
  <2> QED
    BY <1>8, <2>2, <2>3, <2>4, <2>6, <2>7, <2>8
<1>11. CASE Task
  <2>1. PICK b : b = Active("main", None)
    OBVIOUS
  <2>2. ctl = <<>> /\ ctl' = <<b>> /\ queue' = queue
    BY <1>11, <2>1 DEF Task
  <2>3. b \in Activation /\ b.k = "main" /\ b.todo = <<>>
    BY <2>1, FreshActivation
  <2>4. GoodAt(b, 1, H, U)
    BY <1>9, <2>3 DEF GoodAt
  <2>5. queue \in Seq(Promise) /\ \A i \in 1 .. Len(queue) : state[queue[i]] \in Final
    BY <1>1 DEF Drains, QueueSettled, TypeOK
  <2> QED
    BY <1>8, <2>2, <2>3, <2>4, <2>5
<1> QED
  BY <1>7, <1>10, <1>11

----------------------------------------------------------------------------
(* The invariant holds throughout.                                         *)

LEMMA InitIInv ==
  ASSUME Init
  PROVE  IInv
<1>1. PICK H : H = [y \in {} |-> 0]
  OBVIOUS
<1>2. DOMAIN H = {}
  BY <1>1
<1>3. PICK b : b = Active("main", None)
  OBVIOUS
<1>4. ctl = <<b>> /\ b \in Activation /\ b.k = "main" /\ b.todo = <<>>
  BY <1>3, FreshActivation DEF Init
<1>5. /\ ctl \in Seq(Activation) /\ Len(ctl) = 1 /\ ctl[1] = b
      /\ queue = <<>> /\ Len(queue) = 0
  BY <1>4 DEF Init
<1>6. /\ born = 0 /\ Born = {} /\ 0 \notin Promise /\ \A p \in Promise : p > born
  BY PromiseAssumption DEF Init, Born, Promise
<1>7. /\ DOMAIN agg = {} /\ rooted = {} /\ known = {} /\ open = {}
      /\ \A p \in Promise : /\ state[p] = "UNBORN" /\ value[p] = NoVal /\ reactions[p] = <<>>
                            /\ ~armed[p]
  BY DEF Init
<1>8. PICK inline, may :
        inline \in BOOLEAN /\ script = [may |-> may, left |-> Budget(may), inline |-> inline]
  BY DEF Init
<1>9. /\ script.may = may /\ script.inline = inline /\ script.left \in 0 .. MaxOps
      /\ script = [may |-> script.may, left |-> script.left, inline |-> script.inline]
  <2>1. Budget(may) \in 0 .. MaxOps
    BY PromiseAssumption DEF Budget
  <2> QED
    BY <1>8, <2>1
<1>10. TypeOK
  <2>1. /\ state \in [Promise -> States] /\ value \in [Promise -> AnyVal]
        /\ reactions \in [Promise -> Seq(Reaction)] /\ armed \in [Promise -> BOOLEAN]
        /\ source \in [Promise -> Promise \cup {None}]
    BY EmptySeq DEF Init, States, AnyVal
  <2>2. queue \in Seq(Promise)
    BY <1>5, EmptySeq
  <2> QED
    BY <1>5, <1>6, <1>7, <1>9, <2>1, <2>2 DEF TypeOK, None
<1>11. Counts
  <2>1. Numbered
    BY <1>6, <1>7 DEF Numbered
  <2>2. ScriptSound
    BY <1>8, <1>9 DEF ScriptSound
  <2>3. ThenablesAllowed
    BY <1>7, PromiseAssumption DEF ThenablesAllowed
  <2>4. AggregatesProper
    BY <1>7 DEF AggregatesProper
  <2>5. EnoughNumbers
    <3>1. Unfinished = {}
      BY <1>7 DEF Unfinished
    <3>2. Cardinality(Unfinished) = 0
      BY <3>1, FS_EmptySet
    <3> QED
      BY <1>6, <3>2, PromiseAssumption DEF EnoughNumbers
  <2> QED
    BY <2>1, <2>2, <2>3, <2>4, <2>5 DEF Counts
<1>12. Drains
  <2>1. QueueSettled /\ Rooted /\ ArmedComes /\ SettledArmed
    BY <1>5, <1>7 DEF QueueSettled, Rooted, ArmedComes, SettledArmed
  <2>2. RootsRun /\ RacesAlone
    BY <1>4, <1>5, <1>7 DEF RootsRun, RacesAlone
  <2> QED
    BY <2>1, <2>2 DEF Drains
<1>13. \A h : HeldAt(<<>>, h, H)
  BY DEF HeldAt, Distinct
<1>14. ReactionsGood(H) /\ Owners(H, H)
  BY <1>2, <1>6, <1>7, <1>13 DEF ReactionsGood, Owners
<1>15. StackGood(H, H)
  BY <1>4, <1>5, <1>13 DEF StackGood, GoodAt
<1>16. Inv(H, H)
  BY <1>10, <1>11, <1>12, <1>14, <1>15 DEF Inv, Base
<1> QED
  BY <1>16 DEF IInv

LEMMA NextIInv ==
  ASSUME IInv, [Next]_vars
  PROVE  IInv'
<1>1. PICK H, U : Inv(H, U)
  BY DEF IInv
<1>2. CASE ScriptStep
  BY <1>1, <1>2, MakePlainInv, ConstructInv, ResolveInv, RejectInv, ThenInv, AllInv, RaceInv,
     AnyOfInv DEF ScriptStep
<1>3. CASE EndStep
  BY <1>1, <1>3, ReturnInv, MadeKnownInv, ExecutorThrowInv, ThenThrowInv, HandlerInv
     DEF EndStep
<1>4. CASE NativeStep
  BY <1>1, <1>4, ReleaseInv, BuildKnownInv, BuildThenableInv, BuildWaitInv, BuildEndInv,
     RaceNextInv, MadeKnownInv, DrainEnterInv, DrainNextInv, DrainExitInv DEF NativeStep
<1>5. CASE Microtask \/ Task \/ Over \/ UNCHANGED vars
  BY <1>1, <1>5, HostInv DEF Over
<1> QED
  BY <1>2, <1>3, <1>4, <1>5 DEF Next

\* The inductive invariant holds for every script on every host.
THEOREM PromisesInvariant == Spec => []IInv
<1>1. Init => IInv
  BY InitIInv
<1>2. IInv /\ [Next]_vars => IInv'
  BY NextIInv
<1> QED
  BY <1>1, <1>2, PTL DEF Spec


----------------------------------------------------------------------------
(* What the invariant says of the properties that are checked.             *)

\* A pointer of a reaction is one of a proper reaction.
LEMMA PointersKept ==
  ASSUME NEW H, NEW U, Inv(H, U), NEW r \in Outstanding, NEW p, p \in {r.onF.to, r.onR.to},
         p # None, state[p] = "PENDING"
  PROVE  p \in rooted
<1>1. TypeOK /\ ReactionsGood(H) /\ StackGood(H, U)
  BY InvFacts
<1>2. Good(r, DOMAIN H)
  <2>1. CASE \E q \in Promise : r \in Range(reactions[q])
    <3>1. PICK q \in Promise : r \in Range(reactions[q])
      BY <2>1
    <3>2. PICK s : s = reactions[q]
      OBVIOUS
    <3>3. s \in Seq(Reaction) /\ HeldAt(s, OnList(q), H)
      BY <1>1, <3>2 DEF TypeOK, ReactionsGood
    <3>4. PICK i \in 1 .. Len(s) : s[i] = r
      BY <3>1, <3>2, <3>3, LenProperties DEF Range
    <3> QED
      BY <3>3, <3>4 DEF HeldAt
  <2>2. CASE \E j \in DOMAIN ctl : r \in Range(ctl[j].todo)
    <3>1. PICK j \in 1 .. Len(ctl) : r \in Range(ctl[j].todo)
      BY <1>1, <2>2, LenProperties DEF TypeOK
    <3>2. PICK s : s = ctl[j].todo
      OBVIOUS
    <3>3. HeldAt(s, OnStack(j), H)
      BY <1>1, <3>1, <3>2 DEF StackGood, GoodAt
    <3>4. PICK i \in 1 .. Len(s) : s[i] = r
      BY <3>1, <3>2, <3>3, LenProperties DEF Range, HeldAt
    <3> QED
      BY <3>3, <3>4 DEF HeldAt
  <2> QED
    BY <2>1, <2>2 DEF Outstanding
<1> QED
  BY <1>2 DEF Good, Proper

LEMMA InvPointersRooted ==
  ASSUME IInv
  PROVE  PointersRooted
<1>1. PICK H, U : Inv(H, U)
  BY DEF IInv
<1>2. TypeOK /\ Rooted
  BY <1>1, InvFacts DEF Drains
<1>3. ASSUME NEW p \in open, state[p] = "PENDING" PROVE p \in rooted
  BY <1>2, <1>3 DEF Rooted
<1>4. ASSUME NEW p \in PointedAt(Outstanding), p # None, state[p] = "PENDING"
      PROVE  p \in rooted
  <2>1. PICK r \in Outstanding : p \in {r.onF.to, r.onR.to}
    BY <1>4 DEF PointedAt
  <2> QED
    BY <1>1, <1>4, <2>1, PointersKept
<1>5. ASSUME NEW p \in Promise, reactions[p] # <<>>, state[p] = "PENDING" PROVE p \in rooted
  BY <1>2, <1>5 DEF Rooted
<1>6. \A p \in Promise : armed[p] => p \in rooted
  BY <1>2 DEF Rooted
<1> QED
  BY <1>3, <1>4, <1>5, <1>6 DEF PointersRooted

\* At rest nothing is armed: what an armed drain waits for is not there.
LEMMA QuietDisarmed ==
  ASSUME IInv, Quiet
  PROVE  \A p \in Promise : ~armed[p]
<1>1. PICK H, U : Inv(H, U)
  BY DEF IInv
<1>2. ArmedComes /\ Len(queue) = 0 /\ Len(ctl) = 0
  BY <1>1, InvFacts DEF Drains, Quiet
<1> QED
  BY <1>2 DEF ArmedComes

LEMMA InvRootedWhilePending ==
  ASSUME IInv, ~ThenablesInline
  PROVE  RootedWhilePending
<1> SUFFICES ASSUME Quiet, "executorThrow" \notin script.may, ~RacesThenables, NEW p \in rooted
             PROVE  state[p] = "PENDING"
  BY DEF RootedWhilePending
<1>1. PICK H, U : Inv(H, U)
  BY DEF IInv
<1>2. TypeOK /\ RootsRun /\ ~Excused
  BY <1>1, InvFacts DEF Drains, Excused
<1>3. ~armed[p]
  BY <1>2, QuietDisarmed DEF TypeOK
<1>4. ~Runs(ctl, p)
  BY DEF Quiet, Runs
<1> QED
  BY <1>2, <1>3, <1>4 DEF RootsRun

LEMMA InvReactionsRunDry ==
  ASSUME IInv, ~ThenablesInline
  PROVE  ReactionsRunDry
<1> SUFFICES ASSUME Quiet, NEW p \in Promise, Settled(p) PROVE reactions[p] = <<>>
  BY DEF ReactionsRunDry
<1>1. PICK H, U : Inv(H, U)
  BY DEF IInv
<1>2. SettledArmed
  BY <1>1, InvFacts DEF Drains
<1>3. ~armed[p] /\ state[p] \in Final
  BY QuietDisarmed DEF Settled, Final
<1> QED
  BY <1>2, <1>3 DEF SettledArmed

\* The state has its type, and every promise that a native function or a queued
\* drain points at is on the root array as long as it is pending.
THEOREM PromisesPointersKept == Spec => [](TypeOK /\ PointersRooted)
<1>1. IInv => TypeOK /\ PointersRooted
  BY InvPointersRooted DEF IInv, Inv, Base
<1> QED
  BY <1>1, PromisesInvariant, PTL

\* But for scripts that give `all` a thenable on a host that runs drains inline,
\* the root array also lets go of every promise that settled.
THEOREM PromisesPointersSound == Spec => [](~ThenablesInline => PointersSound)
<1>1. IInv => (~ThenablesInline => PointersSound)
  BY InvPointersRooted, InvRootedWhilePending DEF PointersSound, IInv, Inv, Base
<1> QED
  BY <1>1, PromisesInvariant, PTL

\* And for the same scripts but those, no reaction is lost: at rest none waits on
\* a settled promise.
THEOREM PromisesRunDry == Spec => [](~ThenablesInline => ReactionsRunDry)
<1>1. IInv => (~ThenablesInline => ReactionsRunDry)
  BY InvReactionsRunDry
<1> QED
  BY <1>1, PromisesInvariant, PTL

----------------------------------------------------------------------------
(* Notions that the proofs about sources and aggregations share.           *)

\* Only q may settle or be made.
Turns(q) ==
  /\ q \in Promise \cup {None}
  /\ \A y \in Promise : y # q => state'[y] = state[y] /\ value'[y] = value[y]
  /\ q # None => state[q] \notin Final
\* An activation that the invariant allows.
Fit(a) ==
  /\ a \in Activation /\ (a.k # "main" => a.p \in Born) /\ (a.todo # <<>> => a.k = "drain")
  /\ a.k = "drain" => state[a.p] \in Final
  /\ \A i \in 1 .. Len(a.todo) : a.todo[i] \in Reaction /\ Proper(a.todo[i])

\* Script may step, and the host stays as it is.
LEMMA SameHost ==
  ASSUME ScriptSound, Next
  PROVE  script'.may = script.may /\ script'.inline = script.inline
<1>1. script' = script \/ script' = [script EXCEPT !.left = @ - 1]
  <2>1. CASE ScriptStep
    BY <2>1 DEF ScriptStep, WithResolvers, Construct, MakeSettled, MakeAdopting, Resolve, Reject,
       Then, All, Race, AnyOf, InScript
  <2>2. CASE EndStep
    BY <2>2 DEF EndStep, MainEnd, ExecutorReturn, ExecutorThrow, ThenReturn, ThenThrow,
       HandlerReturn, HandlerThrow
  <2>3. CASE NativeStep
    BY <2>3 DEF NativeStep, Release, BuildKnown, BuildThenable, BuildWait, BuildEnd, Built,
       RaceNext, RaceEnd, DrainEnter, DrainNext, DrainExit
  <2>4. CASE Microtask \/ Task \/ Over
    BY <2>4 DEF Microtask, Task, Over, vars
  <2> QED
    BY <2>1, <2>2, <2>3, <2>4 DEF Next
<1>2. CASE script' = [script EXCEPT !.left = @ - 1]
  <2>1. script = [may |-> script.may, left |-> script.left, inline |-> script.inline]
    BY DEF ScriptSound
  <2>2. script' = [may |-> script.may, left |-> script.left - 1, inline |-> script.inline]
    BY <1>2, <2>1
  <2> QED
    BY <2>2
<1> QED
  BY <1>1, <1>2

=============================================================================
