----------------------------- MODULE Events_proofs -----------------------------
(***************************************************************************)
(* Proofs about Events: what Picked returns, the account that each frame   *)
(* of an emission or dispatch keeps of the list it goes through, and what  *)
(* an aborted signal still owes its composites.                            *)
(*                                                                         *)
(* An emission goes through a snapshot, so it keeps its account whatever   *)
(* script does (EmissionAccount).  A dispatch goes through the live list:  *)
(* its account is that of the list's first records, which a list that      *)
(* grows at its end leaves alone (DispatchAccount, Extends); it is kept    *)
(* for the targets of Single, which one dispatch at a time goes through.   *)
(* A composite that an aborted signal has not told is at an index that the *)
(* signal's dispatch has still to reach (Announced).                       *)
(***************************************************************************)
EXTENDS Events, SequenceTheorems, NaturalsInduction, WellFoundedInduction, TLAPS

Rec == [id : 1 .. MaxOps, type : Types, cb : Callbacks \cup Signals,
        once : BOOLEAN, capture : BOOLEAN]
Frame == [kind : {"emit", "dispatch"}, on : Objects, type : Types, todo : Seq(Rec),
          n : Nat, i : Nat, epoch : Nat, stale : BOOLEAN, stop : BOOLEAN,
          phase : {"list", "handler", "end"}, in : BOOLEAN,
          owed : Seq(1 .. MaxOps), called : Seq(1 .. MaxOps), cut : BOOLEAN]

TypeOK ==
  /\ store \in [Emitters -> [Types -> Seq(Rec)]]
  /\ epoch \in [Emitters -> Nat]
  /\ list \in [Targets -> Seq(Rec)]
  /\ aborted \in [Signals -> BOOLEAN]
  /\ reason \in [Signals -> Reasons \cup {TimeoutError, NoReason}]
  /\ made \subseteq Signals /\ timers \subseteq made /\ Controlled \subseteq made
  /\ frames \in Seq(Frame)
  /\ err \in BOOLEAN
  /\ world \in Worlds
  /\ ops \in 0 .. MaxOps
  /\ kept \in [Objects -> [Types -> Seq(Rec)]]

\* The targets that are gone through by one dispatch at a time and whose list is
\* left alone meanwhile: all, if the script is not reentrant.
Single == {t \in Targets : ~Reentrant}

LawfulFrame(f, w, A) ==
  /\ f.kind = "emit" => f.on \in Emitters
  /\ f.kind = "dispatch" => f.on \in Targets
  /\ f.on \in Single => ~f.stale
  /\ f.on \in Signals => w = "signals" /\ f.type = AbortType /\ A[f.on]
  /\ f.on \in Signals \cap Single => ~f.stop

\* How far an emission or dispatch has come: what it called and what is left.
EmissionAccount(f) == f.called \o Ids(f.todo) = f.owed
HasCalled(f, l) == f.called = Ids(OfType(SubSeq(l, 1, f.i), f.type))
WillCall(f, l) == f.owed = Ids(OfType(SubSeq(l, 1, f.n), f.type))
DispatchAccount(f, l) ==
  IF f.phase = "list" THEN ~f.stop /\ HasCalled(f, l) /\ WillCall(f, l) ELSE f.called = f.owed
InList(f, l) == f.phase = "list" => f.i <= f.n /\ f.n <= Len(l)
Account(f, L) ==
  /\ f.kind = "emit" /\ ~f.cut => EmissionAccount(f)
  /\ f.on \in Single => /\ InList(f, L[f.on])
                        /\ ~f.cut => DispatchAccount(f, L[f.on])

\* The frames F of a world w in which the signals of A are aborted, over the lists L.
Sound(F, w, A, L) ==
  /\ F \in Seq(Frame)
  /\ \A i \in 1 .. Len(F) : LawfulFrame(F[i], w, A) /\ Account(F[i], L)
  /\ \A i, j \in 1 .. Len(F) : F[i].on = F[j].on /\ F[i].on \in Single => i = j

RecordsApart ==
  \A t \in Targets :
    /\ \A r \in Range(list[t]) : r.id <= ops
    /\ \A r, q \in Range(list[t]) : r.id = q.id => r = q

AbortedIsMade == \A s \in Signals : aborted[s] => s \in made
TimersInWorld == timers # {} => world = "signals"
\* A composite that listens to t.
Hears(t, r) ==
  /\ t \in made /\ r.type = AbortType
  /\ r.cb \in made \ (Controlled \cup timers) /\ r.cb # t
  /\ aborted[r.cb] => \E q \in Signals : q # r.cb /\ aborted[q] /\ reason[q] = reason[r.cb]
CompositesHear ==
  \A t \in Targets : \A r \in Range(list[t]) : r.cb \in Signals => Hears(t, r)
\* Those that an aborted source has not told yet, its dispatch still will.
ToBeTold(F, s, k) ==
  \E i \in 1 .. Len(F) :
    F[i].on = s /\ F[i].phase = "list" /\ F[i].i < k /\ k <= F[i].n
Announced(F, A, L) ==
  \A s \in Signals \cap Single : A[s] =>
    \A k \in 1 .. Len(L[s]) :
      L[s][k].cb \in Signals => A[L[s][k].cb] \/ ToBeTold(F, s, k)

SignalsInv ==
  /\ AbortedIsMade /\ TimersInWorld /\ CompositesHear
  /\ Announced(frames, aborted, list)
ListsInv == RecordsApart /\ (~Reentrant => ListenersKept)
IInv == TypeOK /\ Sound(frames, world, aborted, list) /\ ListsInv /\ SignalsInv

----------------------------------------------------------------------------
(* What Picked returns. *)

\* Induction, for a property given as the set of numbers that have it.
LEMMA Induction ==
  ASSUME NEW T, 0 \in T, \A n \in Nat : n \in T => n + 1 \in T
  PROVE  Nat \subseteq T
<1> SUFFICES ASSUME NEW m \in Nat, m \notin T PROVE FALSE
  OBVIOUS
<1> DEFINE X == {n \in Nat : n \notin T}
<1>1. X \in SUBSET Nat /\ X # {}
  OBVIOUS
<1>2. \E i \in X : \A j \in X : <<j, i>> \notin OpToRel(<, Nat)
  BY <1>1, NatLessThanWellFounded, WFMin
<1>3. PICK i \in X : \A j \in X : <<j, i>> \notin OpToRel(<, Nat)
  BY <1>2
<1>4. \A j \in X : ~ (j < i)
  BY <1>1, <1>3 DEF OpToRel
<1>5. i \in Nat /\ i # 0
  OBVIOUS
<1>6. i - 1 \in Nat /\ (i - 1) + 1 = i /\ i - 1 < i
  BY <1>5
<1>7. i - 1 \in T
  BY <1>4, <1>6
<1> QED
  BY <1>6, <1>7

LEMMA PickedSteps ==
  ASSUME NEW s, NEW R, Len(s) \in Nat
  PROVE  \E g : /\ g[0] = <<>>
                /\ \A i \in 1 .. Len(s) :
                     g[i] = IF s[i] \in R THEN Append(g[i - 1], s[i]) ELSE g[i - 1]
                /\ Picked(s, R) = g[Len(s)]
<1> DEFINE Is(g, n) == g = [i \in 0 .. n |->
                              IF i = 0 THEN <<>>
                              ELSE IF s[i] \in R THEN Append(g[i - 1], s[i]) ELSE g[i - 1]]
           T == {n \in Nat : \E g : Is(g, n)}
<1>1. 0 \in T
  <2> DEFINE g == [i \in 0 .. 0 |-> <<>>]
  <2>1. Is(g, 0)
    OBVIOUS
  <2> QED
    BY <2>1
<1>2. ASSUME NEW n \in Nat, n \in T
      PROVE  n + 1 \in T
  <2>1. PICK g : Is(g, n)
    BY <1>2
  <2> DEFINE h == [i \in 0 .. n + 1 |->
                     IF i <= n THEN g[i]
                     ELSE IF s[i] \in R THEN Append(g[i - 1], s[i]) ELSE g[i - 1]]
             k == [i \in 0 .. n + 1 |->
                     IF i = 0 THEN <<>>
                     ELSE IF s[i] \in R THEN Append(h[i - 1], s[i]) ELSE h[i - 1]]
  <2>2. \A i \in 0 .. n : g[i] = IF i = 0 THEN <<>>
                                 ELSE IF s[i] \in R THEN Append(g[i - 1], s[i]) ELSE g[i - 1]
    BY <2>1
  <2>3. \A i \in 0 .. n + 1 : h[i] = k[i]
    <3> SUFFICES ASSUME NEW i \in 0 .. n + 1 PROVE h[i] = k[i]
      OBVIOUS
    <3>1. CASE i = 0
      BY <2>2, <3>1
    <3>2. CASE i \in 1 .. n + 1
      <4>1. i - 1 \in 0 .. n + 1 /\ i - 1 <= n
        BY <3>2
      <4>2. h[i - 1] = g[i - 1]
        BY <4>1
      <4> QED
        BY <2>2, <3>2, <4>2
    <3> QED
      BY <3>1, <3>2
  <2>4. h = k
    BY <2>3
  <2>5. Is(h, n + 1)
    BY <2>4
  <2> HIDE DEF h, k
  <2>6. \E gg : Is(gg, n + 1)
    BY <2>5
  <2> QED
    BY SMTT(60), <2>6
<1>3. Len(s) \in T
  <2> HIDE DEF T
  <2> QED
    BY <1>1, <1>2, Induction
<1>4. PICK g : Is(g, Len(s))
  BY <1>3
<1> DEFINE f == CHOOSE h : Is(h, Len(s))
<1>5. Is(f, Len(s))
  BY <1>4
<1>6. Picked(s, R) = f[Len(s)]
  BY DEF Picked
<1> HIDE DEF f
<1>7. \A i \in 0 .. Len(s) : f[i] = IF i = 0 THEN <<>>
                                 ELSE IF s[i] \in R THEN Append(f[i - 1], s[i]) ELSE f[i - 1]
  BY <1>5
<1> HIDE DEF Is, T
<1>8. /\ f[0] = <<>>
      /\ \A i \in 1 .. Len(s) : f[i] = IF s[i] \in R THEN Append(f[i - 1], s[i]) ELSE f[i - 1]
  BY <1>7
<1> QED
  BY <1>6, <1>8

LEMMA PickedEmpty ==
  ASSUME NEW R
  PROVE  Picked(<<>>, R) = <<>>
<1>1. Len(<<>>) = 0
  OBVIOUS
<1> QED
  BY <1>1, PickedSteps

\* It depends on the elements of the sequence only.
LEMMA PickedSame ==
  ASSUME NEW S, NEW s \in Seq(S), NEW R, NEW Q,
         \A i \in 1 .. Len(s) : s[i] \in R <=> s[i] \in Q
  PROVE  Picked(s, R) = Picked(s, Q)
<1>0. Len(s) \in Nat
  BY LenProperties
<1>1. PICK g : /\ g[0] = <<>>
               /\ \A i \in 1 .. Len(s) :
                    g[i] = IF s[i] \in R THEN Append(g[i - 1], s[i]) ELSE g[i - 1]
               /\ Picked(s, R) = g[Len(s)]
  BY <1>0, PickedSteps
<1>2. PICK h : /\ h[0] = <<>>
               /\ \A i \in 1 .. Len(s) :
                    h[i] = IF s[i] \in Q THEN Append(h[i - 1], s[i]) ELSE h[i - 1]
               /\ Picked(s, Q) = h[Len(s)]
  BY <1>0, PickedSteps
<1> DEFINE T == {n \in Nat : n <= Len(s) => g[n] = h[n]}
<1>3. 0 \in T
  BY <1>1, <1>2
<1>4. ASSUME NEW n \in Nat, n \in T
      PROVE  n + 1 \in T
  <2> SUFFICES ASSUME n + 1 <= Len(s) PROVE g[n + 1] = h[n + 1]
    OBVIOUS
  <2>1. n + 1 \in 1 .. Len(s) /\ (n + 1) - 1 = n /\ g[n] = h[n]
    BY <1>0, <1>4
  <2>2. /\ g[n + 1] = IF s[n + 1] \in R THEN Append(g[n], s[n + 1]) ELSE g[n]
        /\ h[n + 1] = IF s[n + 1] \in Q THEN Append(h[n], s[n + 1]) ELSE h[n]
    BY <1>1, <1>2, <2>1
  <2> QED
    BY <2>1, <2>2
<1>5. Len(s) \in T
  <2> HIDE DEF T
  <2> QED
    BY <1>0, <1>3, <1>4, Induction
<1> QED
  BY <1>1, <1>2, <1>5

LEMMA PickedAppend ==
  ASSUME NEW S, NEW s \in Seq(S), NEW e \in S, NEW R
  PROVE  Picked(Append(s, e), R) = IF e \in R THEN Append(Picked(s, R), e) ELSE Picked(s, R)
<1> DEFINE t == Append(s, e)
<1>0. /\ Len(s) \in Nat /\ Len(t) = Len(s) + 1 /\ Len(t) \in Nat
      /\ \A i \in 1 .. Len(s) : t[i] = s[i]
      /\ t[Len(s) + 1] = e
  BY AppendProperties, LenProperties
<1> HIDE DEF t
<1>1. PICK g : /\ g[0] = <<>>
               /\ \A i \in 1 .. Len(s) :
                    g[i] = IF s[i] \in R THEN Append(g[i - 1], s[i]) ELSE g[i - 1]
               /\ Picked(s, R) = g[Len(s)]
  BY <1>0, PickedSteps
<1>2. PICK h : /\ h[0] = <<>>
               /\ \A i \in 1 .. Len(t) :
                    h[i] = IF t[i] \in R THEN Append(h[i - 1], t[i]) ELSE h[i - 1]
               /\ Picked(t, R) = h[Len(t)]
  BY <1>0, PickedSteps
<1> DEFINE T == {n \in Nat : n <= Len(s) => g[n] = h[n]}
<1>3. 0 \in T
  BY <1>1, <1>2
<1>4. ASSUME NEW n \in Nat, n \in T
      PROVE  n + 1 \in T
  <2> SUFFICES ASSUME n + 1 <= Len(s) PROVE g[n + 1] = h[n + 1]
    OBVIOUS
  <2>1. /\ n + 1 \in 1 .. Len(s) /\ n + 1 \in 1 .. Len(t)
        /\ (n + 1) - 1 = n /\ g[n] = h[n]
    BY <1>0, <1>4
  <2>2. /\ g[n + 1] = IF s[n + 1] \in R THEN Append(g[n], s[n + 1]) ELSE g[n]
        /\ h[n + 1] = IF t[n + 1] \in R THEN Append(h[n], t[n + 1]) ELSE h[n]
    BY <1>1, <1>2, <2>1
  <2> QED
    BY <1>0, <2>1, <2>2
<1>5. Len(s) \in T
  <2> HIDE DEF T
  <2> QED
    BY <1>0, <1>3, <1>4, Induction
<1>6. g[Len(s)] = h[Len(s)]
  BY <1>0, <1>5
<1>7. Len(s) + 1 \in 1 .. Len(t) /\ (Len(s) + 1) - 1 = Len(s)
  BY <1>0
<1>8. h[Len(s) + 1] = IF e \in R THEN Append(h[Len(s)], e) ELSE h[Len(s)]
  BY <1>0, <1>2, <1>7
<1> QED
  BY <1>0, <1>1, <1>2, <1>6, <1>8 DEF t

\* Induction over sequences, the property given as a set.
LEMMA SequenceInduction ==
  ASSUME NEW S, NEW T, <<>> \in T,
         \A s \in Seq(S), e \in S : s \in T => Append(s, e) \in T
  PROVE  Seq(S) \subseteq T
<1> DEFINE N == {n \in Nat : \A s \in Seq(S) : Len(s) = n => s \in T}
<1>1. 0 \in N
  BY EmptySeq
<1>2. ASSUME NEW n \in Nat, n \in N
      PROVE  n + 1 \in N
  <2> SUFFICES ASSUME NEW s \in Seq(S), Len(s) = n + 1 PROVE s \in T
    OBVIOUS
  <2> DEFINE t == SubSeq(s, 1, n)
             e == s[n + 1]
  <2>1. e \in S
    BY ElementOfSeq
  <2>2. t \in Seq(S) /\ Len(t) = n /\ \A i \in 1 .. n : t[i] = s[i]
    BY SubSeqProperties
  <2>3. t \in T
    BY <1>2, <2>2
  <2>4. /\ Append(t, e) \in Seq(S) /\ Len(Append(t, e)) = n + 1
        /\ \A i \in 1 .. n : Append(t, e)[i] = t[i]
        /\ Append(t, e)[n + 1] = e
    BY <2>1, <2>2, AppendProperties
  <2>5. \A i \in 1 .. n + 1 : Append(t, e)[i] = s[i]
    <3> SUFFICES ASSUME NEW i \in 1 .. n + 1 PROVE Append(t, e)[i] = s[i]
      OBVIOUS
    <3>1. i \in 1 .. n \/ i = n + 1
      OBVIOUS
    <3> HIDE DEF t
    <3> QED
      BY <2>2, <2>4, <3>1
  <2>6. Append(t, e) = s
    <3> HIDE DEF t, e
    <3> QED
      BY <2>4, <2>5, SeqEqual
  <2> QED
    <3> HIDE DEF t, e
    <3> QED
      BY <2>1, <2>2, <2>3, <2>6
<1>3. Nat \subseteq N
  <2> HIDE DEF N
  <2> QED
    BY <1>1, <1>2, Induction
<1> QED
  <2> SUFFICES ASSUME NEW s \in Seq(S) PROVE s \in T
    OBVIOUS
  <2>1. Len(s) \in Nat
    BY LenProperties
  <2>2. Len(s) \in N
    BY <1>3, <2>1
  <2> QED
    BY <2>2

LEMMA PickedType ==
  ASSUME NEW S, NEW s \in Seq(S), NEW R
  PROVE  Picked(s, R) \in Seq(S)
<1> DEFINE T == {x \in Seq(S) : Picked(x, R) \in Seq(S)}
<1>1. <<>> \in T
  BY PickedEmpty, EmptySeq
<1>2. ASSUME NEW x \in Seq(S), NEW e \in S, x \in T
      PROVE  Append(x, e) \in T
  <2>1. Append(x, e) \in Seq(S) /\ Picked(x, R) \in Seq(S)
    BY <1>2, AppendProperties
  <2>2. Picked(Append(x, e), R) = IF e \in R THEN Append(Picked(x, R), e) ELSE Picked(x, R)
    BY PickedAppend
  <2>3. Append(Picked(x, R), e) \in Seq(S)
    BY <2>1, AppendProperties
  <2>4. Picked(Append(x, e), R) \in Seq(S)
    BY <2>1, <2>2, <2>3, Zenon
  <2> QED
    BY <2>1, <2>4
<1>3. Seq(S) \subseteq T
  <2> HIDE DEF T
  <2> QED
    BY <1>1, <1>2, SequenceInduction
<1> QED
  BY <1>3

\* Picking twice picks what is in both sets.
LEMMA PickedTwice ==
  ASSUME NEW S, NEW s \in Seq(S), NEW R, NEW Q
  PROVE  Picked(Picked(s, R), Q) = Picked(s, R \cap Q)
<1> DEFINE T == {x \in Seq(S) : Picked(Picked(x, R), Q) = Picked(x, R \cap Q)}
<1>1. <<>> \in T
  BY PickedEmpty, EmptySeq
<1>2. ASSUME NEW x \in Seq(S), NEW e \in S, x \in T
      PROVE  Append(x, e) \in T
  <2>1. Picked(x, R) \in Seq(S) /\ Append(x, e) \in Seq(S)
    BY PickedType, AppendProperties
  <2>2. Picked(Append(x, e), R) = IF e \in R THEN Append(Picked(x, R), e) ELSE Picked(x, R)
    BY PickedAppend
  <2>3. Picked(Append(x, e), R \cap Q)
          = IF e \in R \cap Q THEN Append(Picked(x, R \cap Q), e) ELSE Picked(x, R \cap Q)
    BY PickedAppend
  <2>4. Picked(Append(Picked(x, R), e), Q)
          = IF e \in Q THEN Append(Picked(Picked(x, R), Q), e) ELSE Picked(Picked(x, R), Q)
    BY <2>1, PickedAppend
  <2>5. Picked(Picked(x, R), Q) = Picked(x, R \cap Q)
    BY <1>2
  <2>6. Picked(Picked(Append(x, e), R), Q) = Picked(Append(x, e), R \cap Q)
    <3>1. CASE e \in R /\ e \in Q
      BY <2>2, <2>3, <2>4, <2>5, <3>1, Zenon
    <3>2. CASE e \in R /\ e \notin Q
      BY <2>2, <2>3, <2>4, <2>5, <3>2, Zenon
    <3>3. CASE e \notin R
      BY <2>2, <2>3, <2>5, <3>3, Zenon
    <3> QED
      BY <3>1, <3>2, <3>3
  <2> QED
    BY <2>1, <2>6
<1>3. Seq(S) \subseteq T
  <2> HIDE DEF T
  <2> QED
    BY <1>1, <1>2, SequenceInduction
<1> QED
  BY <1>3

\* An element put first.
LEMMA PickedFirst ==
  ASSUME NEW S, NEW s \in Seq(S), NEW r \in S, NEW R
  PROVE  Picked(<<r>> \o s, R) = IF r \in R THEN <<r>> \o Picked(s, R) ELSE Picked(s, R)
<1> DEFINE one == <<r>>
           P(x) == IF r \in R THEN one \o Picked(x, R) ELSE Picked(x, R)
           T == {x \in Seq(S) : Picked(one \o x, R) = P(x)}
<1>0. one \in Seq(S) /\ one = Append(<<>>, r) /\ <<>> \in Seq(S)
  BY EmptySeq
<1> HIDE DEF one
<1>1. <<>> \in T
  <2>1. one \o <<>> = one
    BY <1>0, ConcatEmptySeq
  <2>2. Picked(Append(<<>>, r), R)
          = IF r \in R THEN Append(Picked(<<>>, R), r) ELSE Picked(<<>>, R)
    BY <1>0, PickedAppend
  <2>3. Picked(one, R) = IF r \in R THEN one ELSE <<>>
    BY <1>0, <2>2, PickedEmpty, Zenon
  <2>4. Picked(one \o <<>>, R) = P(<<>>)
    BY <2>1, <2>3, PickedEmpty, Zenon
  <2> QED
    BY <1>0, <2>4
<1>2. ASSUME NEW x \in Seq(S), NEW e \in S, x \in T
      PROVE  Append(x, e) \in T
  <2>1. /\ one \o x \in Seq(S) /\ Append(x, e) \in Seq(S) /\ Picked(x, R) \in Seq(S)
    BY <1>0, PickedType, AppendProperties, ConcatProperties
  <2>2. \A y \in Seq(S) : one \o Append(y, e) = Append(one \o y, e)
    <3> SUFFICES ASSUME NEW y \in Seq(S) PROVE one \o Append(y, e) = Append(one \o y, e)
      OBVIOUS
    <3>1. <<e>> \in Seq(S)
      BY <1>0
    <3>2. one \o y \in Seq(S)
      BY <1>0, ConcatProperties
    <3>3. Append(y, e) = y \o <<e>> /\ Append(one \o y, e) = (one \o y) \o <<e>>
      BY <3>2, AppendIsConcat
    <3>4. (one \o y) \o <<e>> = one \o (y \o <<e>>)
      BY <1>0, <3>1, ConcatAssociative
    <3> QED
      BY <3>3, <3>4
  <2>3. Picked(one \o Append(x, e), R)
          = IF e \in R THEN Append(Picked(one \o x, R), e) ELSE Picked(one \o x, R)
    BY <2>1, <2>2, PickedAppend
  <2>4. Picked(Append(x, e), R) = IF e \in R THEN Append(Picked(x, R), e) ELSE Picked(x, R)
    BY PickedAppend
  <2>5. Picked(one \o x, R) = P(x)
    BY <1>2
  <2>6. Picked(one \o Append(x, e), R) = P(Append(x, e))
    BY <2>1, <2>2, <2>3, <2>4, <2>5
  <2> QED
    BY <2>1, <2>6
<1>3. Seq(S) \subseteq T
  <2> HIDE DEF T
  <2> QED
    BY <1>1, <1>2, SequenceInduction
<1> QED
  BY <1>3 DEF one

\* What is picked are the elements of the sequence that are in the set.
LEMMA PickedRange ==
  ASSUME NEW S, NEW s \in Seq(S), NEW R
  PROVE  Range(Picked(s, R)) = Range(s) \cap R
<1> DEFINE T == {x \in Seq(S) : Range(Picked(x, R)) = Range(x) \cap R}
<1>1. <<>> \in T
  BY PickedEmpty, EmptySeq DEF Range
<1>2. ASSUME NEW x \in Seq(S), NEW e \in S
      PROVE  Range(Append(x, e)) = Range(x) \cup {e}
  <2>1. /\ Append(x, e) \in Seq(S) /\ Len(Append(x, e)) = Len(x) + 1 /\ Len(x) \in Nat
        /\ \A i \in 1 .. Len(x) : Append(x, e)[i] = x[i]
        /\ Append(x, e)[Len(x) + 1] = e
    BY AppendProperties, LenProperties
  <2>2. DOMAIN x = 1 .. Len(x) /\ DOMAIN Append(x, e) = 1 .. Len(x) + 1
    BY <2>1, LenProperties
  <2> DEFINE y == Append(x, e)
             n == Len(x)
  <2>3. /\ DOMAIN x = 1 .. n /\ DOMAIN y = 1 .. n + 1 /\ n \in Nat
        /\ \A i \in 1 .. n : y[i] = x[i]
        /\ y[n + 1] = e
    BY <2>1, <2>2
  <2> HIDE DEF y, n
  <2>4. Range(y) = Range(x) \cup {e}
    BY <2>3 DEF Range
  <2> QED
    BY <2>4 DEF y
<1>3. ASSUME NEW x \in Seq(S), NEW e \in S, x \in T
      PROVE  Append(x, e) \in T
  <2>1. Picked(x, R) \in Seq(S) /\ Append(x, e) \in Seq(S)
    BY PickedType, AppendProperties
  <2>2. Range(Append(Picked(x, R), e)) = Range(Picked(x, R)) \cup {e}
    BY <1>2, <2>1
  <2>3. Range(Append(x, e)) = Range(x) \cup {e}
    BY <1>2
  <2>4. Picked(Append(x, e), R) = IF e \in R THEN Append(Picked(x, R), e) ELSE Picked(x, R)
    BY PickedAppend
  <2>5. Range(Picked(x, R)) = Range(x) \cap R
    BY <1>3
  <2>6. Range(Picked(Append(x, e), R)) = Range(Append(x, e)) \cap R
    BY <2>2, <2>3, <2>4, <2>5
  <2> QED
    BY <2>1, <2>6
<1>4. Seq(S) \subseteq T
  <2> HIDE DEF T
  <2> QED
    BY <1>1, <1>3, SequenceInduction
<1> QED
  BY <1>4
----------------------------------------------------------------------------
(* The frames. *)

LEMMA FrameIsRecord ==
  ASSUME NEW f \in Frame
  PROVE  /\ f.kind \in {"emit", "dispatch"} /\ f.on \in Objects /\ f.type \in Types
         /\ f.todo \in Seq(Rec) /\ f.n \in Nat /\ f.i \in Nat /\ f.epoch \in Nat
         /\ f.stale \in BOOLEAN /\ f.stop \in BOOLEAN /\ f.in \in BOOLEAN /\ f.cut \in BOOLEAN
         /\ f.phase \in {"list", "handler", "end"}
         /\ f.owed \in Seq(1 .. MaxOps) /\ f.called \in Seq(1 .. MaxOps)
BY DEF Frame

LEMMA PushedType ==
  ASSUME NEW S, NEW s \in Seq(S), NEW e \in S
  PROVE  /\ Append(s, e) \in Seq(S)
         /\ Len(Append(s, e)) = Len(s) + 1 /\ Len(s) \in Nat
         /\ DOMAIN s = 1 .. Len(s) /\ DOMAIN Append(s, e) = 1 .. Len(s) + 1
         /\ \A i \in 1 .. Len(s) : Append(s, e)[i] = s[i]
         /\ Append(s, e)[Len(s) + 1] = e
BY AppendProperties, LenProperties

LEMMA TopType ==
  ASSUME NEW S, NEW F \in Seq(S), F # <<>>
  PROVE  /\ Len(F) \in Nat \ {0} /\ DOMAIN F = 1 .. Len(F)
         /\ Len(F) \in 1 .. Len(F) /\ F[Len(F)] \in S
         /\ SubSeq(F, 1, Len(F) - 1) \in Seq(S)
         /\ Len(SubSeq(F, 1, Len(F) - 1)) = Len(F) - 1
         /\ \A i \in 1 .. Len(F) - 1 : SubSeq(F, 1, Len(F) - 1)[i] = F[i]
<1>1. Len(F) \in Nat \ {0} /\ DOMAIN F = 1 .. Len(F)
  BY EmptySeq, LenProperties
<1>2. \A i \in 1 .. Len(F) : F[i] \in S
  BY ElementOfSeq
<1> QED
  BY <1>1, <1>2, SubSeqProperties

LEMMA ReplacedType ==
  ASSUME NEW S, NEW F \in Seq(S), F # <<>>, NEW f \in S
  PROVE  LET G == [F EXCEPT ![Len(F)] = f]
         IN  /\ G \in Seq(S) /\ Len(G) = Len(F) /\ G[Len(F)] = f
             /\ \A i \in 1 .. Len(F) : i # Len(F) => G[i] = F[i]
<1>1. Len(F) \in Nat \ {0} /\ F \in [1 .. Len(F) -> S] /\ Len(F) \in 1 .. Len(F)
  BY TopType, LenProperties
<1> DEFINE G == [F EXCEPT ![Len(F)] = f]
<1>2. G \in [1 .. Len(F) -> S]
  BY <1>1
<1>3. G \in Seq(S) /\ Len(G) = Len(F)
  BY <1>1, <1>2, LenProperties, IsASeq
<1> QED
  BY <1>1, <1>3

LEMMA SoundPush ==
  ASSUME NEW F, NEW w, NEW A, NEW L, Sound(F, w, A, L),
         NEW f \in Frame, LawfulFrame(f, w, A), Account(f, L),
         f.on \in Single => \A i \in 1 .. Len(F) : F[i].on # f.on
  PROVE  Sound(Append(F, f), w, A, L)
<1> DEFINE G == Append(F, f)
           n == Len(F)
<1>1. /\ G \in Seq(Frame) /\ Len(G) = n + 1 /\ n \in Nat
      /\ \A i \in 1 .. n : G[i] = F[i]
      /\ G[n + 1] = f
  BY PushedType DEF Sound
<1>2. /\ \A i \in 1 .. n : LawfulFrame(F[i], w, A) /\ Account(F[i], L)
      /\ \A i, j \in 1 .. n : F[i].on = F[j].on /\ F[i].on \in Single => i = j
  BY DEF Sound
<1> HIDE DEF G, n
<1>3. \A i \in 1 .. Len(G) : i \in 1 .. n \/ i = n + 1
  BY <1>1
<1>4. \A i \in 1 .. Len(G) : LawfulFrame(G[i], w, A) /\ Account(G[i], L)
  BY <1>1, <1>2, <1>3
<1>5. ASSUME NEW i \in 1 .. Len(G), NEW j \in 1 .. Len(G),
             G[i].on = G[j].on, G[i].on \in Single
      PROVE  i = j
  <2>1. CASE i \in 1 .. n /\ j \in 1 .. n
    BY <1>1, <1>2, <1>5, <2>1
  <2>2. CASE i = n + 1 \/ j = n + 1
    BY <1>1, <1>3, <1>5, <2>2 DEF n
  <2> QED
    BY <1>3, <2>1, <2>2
<1> QED
  BY <1>1, <1>4, <1>5 DEF Sound, G

LEMMA SoundReplace ==
  ASSUME NEW F, NEW w, NEW A, NEW L, Sound(F, w, A, L), F # <<>>,
         NEW f \in Frame, LawfulFrame(f, w, A), Account(f, L), f.on = F[Len(F)].on
  PROVE  Sound([F EXCEPT ![Len(F)] = f], w, A, L)
<1> DEFINE G == [F EXCEPT ![Len(F)] = f]
           n == Len(F)
<1>1. /\ G \in Seq(Frame) /\ Len(G) = n /\ G[n] = f
      /\ \A i \in 1 .. n : i # n => G[i] = F[i]
  BY ReplacedType DEF Sound
<1>2. /\ \A i \in 1 .. n : LawfulFrame(F[i], w, A) /\ Account(F[i], L)
      /\ \A i, j \in 1 .. n : F[i].on = F[j].on /\ F[i].on \in Single => i = j
  BY DEF Sound
<1>3. f.on = F[n].on
  OBVIOUS
<1> HIDE DEF G, n
<1>4. \A i \in 1 .. n : G[i].on = F[i].on
  BY <1>1, <1>3
<1> QED
  BY <1>1, <1>2, <1>4 DEF Sound, G

LEMMA SoundBeneath ==
  ASSUME NEW F, NEW w, NEW A, NEW L, Sound(F, w, A, L), F # <<>>
  PROVE  Sound(SubSeq(F, 1, Len(F) - 1), w, A, L)
<1> DEFINE G == SubSeq(F, 1, Len(F) - 1)
           n == Len(F)
<1>1. /\ G \in Seq(Frame) /\ Len(G) = n - 1 /\ n \in Nat \ {0}
      /\ \A i \in 1 .. n - 1 : G[i] = F[i]
  BY TopType DEF Sound
<1>2. /\ \A i \in 1 .. n : LawfulFrame(F[i], w, A) /\ Account(F[i], L)
      /\ \A i, j \in 1 .. n : F[i].on = F[j].on /\ F[i].on \in Single => i = j
  BY DEF Sound
<1> HIDE DEF G, n
<1>3. \A i \in 1 .. n - 1 : i \in 1 .. n
  BY <1>1
<1> QED
  BY <1>1, <1>2, <1>3 DEF Sound, G

\* A list that grows at its end.
Extends(l, m) == Len(l) <= Len(m) /\ \A i \in 1 .. Len(l) : m[i] = l[i]

LEMMA PrefixKept ==
  ASSUME NEW S, NEW l \in Seq(S), NEW m \in Seq(S), Extends(l, m),
         NEW n \in Nat, n <= Len(l)
  PROVE  SubSeq(m, 1, n) = SubSeq(l, 1, n)
<1>1. Len(l) \in Nat /\ Len(m) \in Nat /\ Len(l) <= Len(m)
  BY LenProperties DEF Extends
<1>2. /\ SubSeq(l, 1, n) \in Seq(S) /\ Len(SubSeq(l, 1, n)) = n
      /\ \A i \in 1 .. n : SubSeq(l, 1, n)[i] = l[i]
  BY <1>1, SubSeqProperties, ElementOfSeq
<1>3. /\ SubSeq(m, 1, n) \in Seq(S) /\ Len(SubSeq(m, 1, n)) = n
      /\ \A i \in 1 .. n : SubSeq(m, 1, n)[i] = m[i]
  BY <1>1, SubSeqProperties, ElementOfSeq
<1>4. \A i \in 1 .. n : l[i] = m[i]
  BY <1>1 DEF Extends
<1> DEFINE a == SubSeq(l, 1, n)
           b == SubSeq(m, 1, n)
<1>5. \A i \in 1 .. n : a[i] = b[i]
  BY <1>2, <1>3, <1>4
<1> HIDE DEF a, b
<1> QED
  <2>1. a \in Seq(S) /\ b \in Seq(S) /\ Len(a) = Len(b) /\ \A i \in 1 .. Len(a) : a[i] = b[i]
    BY <1>2, <1>3, <1>5 DEF a, b
  <2> QED
    BY <2>1, SeqEqual DEF a, b

LEMMA AccountKept ==
  ASSUME NEW L \in [Targets -> Seq(Rec)], NEW M \in [Targets -> Seq(Rec)],
         NEW f \in Frame, Account(f, L),
         f.on \in Single => Extends(L[f.on], M[f.on])
  PROVE  Account(f, M)
<1> SUFFICES ASSUME f.on \in Single
             PROVE  /\ InList(f, M[f.on])
                    /\ ~f.cut => DispatchAccount(f, M[f.on])
  BY DEF Account
<1>1. f.on \in Targets
  BY EventsAssumption DEF Single
<1>2. L[f.on] \in Seq(Rec) /\ M[f.on] \in Seq(Rec) /\ Extends(L[f.on], M[f.on])
  BY <1>1
<1>3. Len(L[f.on]) \in Nat /\ Len(M[f.on]) \in Nat /\ Len(L[f.on]) <= Len(M[f.on])
  BY <1>2, LenProperties DEF Extends
<1>4. f.n \in Nat /\ f.i \in Nat
  BY FrameIsRecord
<1>5. InList(f, L[f.on]) /\ (~f.cut => DispatchAccount(f, L[f.on]))
  BY DEF Account
<1>6. InList(f, M[f.on])
  BY <1>3, <1>4, <1>5 DEF InList
<1>7. CASE f.phase = "list"
  <2>1. f.i <= f.n /\ f.n <= Len(L[f.on])
    BY <1>5, <1>7 DEF InList
  <2>2. /\ SubSeq(M[f.on], 1, f.i) = SubSeq(L[f.on], 1, f.i)
        /\ SubSeq(M[f.on], 1, f.n) = SubSeq(L[f.on], 1, f.n)
    <3>1. f.i <= Len(L[f.on])
      BY <1>3, <1>4, <2>1
    <3> QED
      BY <1>2, <1>4, <2>1, <3>1, PrefixKept
  <2> QED
    BY <1>5, <1>6, <2>2 DEF DispatchAccount, HasCalled, WillCall
<1>8. CASE f.phase # "list"
  BY <1>5, <1>6, <1>8 DEF DispatchAccount
<1> QED
  BY <1>7, <1>8

LEMMA SoundElsewhere ==
  ASSUME NEW F, NEW w, NEW A, NEW B,
         NEW L \in [Targets -> Seq(Rec)], NEW M \in [Targets -> Seq(Rec)],
         Sound(F, w, A, L),
         \A s \in Signals : A[s] => B[s],
         \A i \in 1 .. Len(F) : F[i].on \in Single => Extends(L[F[i].on], M[F[i].on])
  PROVE  Sound(F, w, B, M)
<1>1. \A i \in 1 .. Len(F) : F[i] \in Frame
  BY ElementOfSeq DEF Sound
<1>2. \A i \in 1 .. Len(F) : Account(F[i], M)
  BY <1>1, AccountKept DEF Sound
<1>3. \A i \in 1 .. Len(F) : LawfulFrame(F[i], w, B)
  BY DEF Sound, LawfulFrame
<1> QED
  BY <1>2, <1>3 DEF Sound

LEMMA FreedSame ==
  ASSUME NEW F \in Seq(Frame), NEW t
  PROVE  /\ Freed(F, t) \in Seq(Frame) /\ Len(Freed(F, t)) = Len(F)
         /\ \A i \in 1 .. Len(F) :
              /\ Freed(F, t)[i].on = F[i].on /\ Freed(F, t)[i].phase = F[i].phase
              /\ Freed(F, t)[i].i = F[i].i /\ Freed(F, t)[i].n = F[i].n
<1> DEFINE G == Freed(F, t)
           n == Len(F)
           change(f) == [f EXCEPT !.stale = TRUE]
<1>1. n \in Nat /\ F \in [1 .. n -> Frame] /\ DOMAIN F = 1 .. n
  BY LenProperties
<1>2. \A i \in 1 .. n : G[i] = IF F[i].on = t THEN change(F[i]) ELSE F[i]
  BY <1>1 DEF Freed
<1>3. \A f \in Frame : /\ change(f) \in Frame /\ change(f).on = f.on
                       /\ change(f).phase = f.phase /\ change(f).i = f.i /\ change(f).n = f.n
  BY DEF Frame
<1> HIDE DEF change
<1>4. G \in [1 .. n -> Frame]
  BY <1>1, <1>3 DEF Freed, change
<1>5. Len(G) = n /\ G \in Seq(Frame)
  BY <1>1, <1>4, LenProperties, IsASeq
<1> HIDE DEF G
<1>6. ASSUME NEW i \in 1 .. n
      PROVE  G[i].on = F[i].on /\ G[i].phase = F[i].phase /\ G[i].i = F[i].i /\ G[i].n = F[i].n
  BY <1>1, <1>2, <1>3
<1> QED
  BY <1>5, <1>6 DEF G

LEMMA FreedSound ==
  ASSUME NEW F, NEW w, NEW A, NEW L, NEW t, Sound(F, w, A, L),
         t \in Single => \A i \in 1 .. Len(F) : F[i].on # t
  PROVE  Sound(Freed(F, t), w, A, L)
<1> DEFINE G == Freed(F, t)
           n == Len(F)
           change(f) == [f EXCEPT !.stale = TRUE]
<1>1. n \in Nat /\ F \in [1 .. n -> Frame] /\ DOMAIN F = 1 .. n
  BY LenProperties DEF Sound
<1>2. \A i \in 1 .. n : G[i] = IF F[i].on = t THEN change(F[i]) ELSE F[i]
  BY <1>1 DEF Freed
<1>3. \A f \in Frame : /\ change(f) \in Frame /\ change(f).on = f.on /\ change(f).kind = f.kind
                       /\ change(f).type = f.type /\ change(f).phase = f.phase /\ change(f).i = f.i /\ change(f).n = f.n
                       /\ change(f).cut = f.cut /\ change(f).called = f.called
                       /\ change(f).owed = f.owed /\ change(f).todo = f.todo
  BY DEF Frame
<1> HIDE DEF change
<1>4. G \in [1 .. n -> Frame]
  BY <1>1, <1>3 DEF Freed, change
<1>5. G \in Seq(Frame) /\ Len(G) = n
  BY <1>1, <1>4, LenProperties, IsASeq
<1>6. /\ \A i \in 1 .. n : LawfulFrame(F[i], w, A) /\ Account(F[i], L)
      /\ \A i, j \in 1 .. n : F[i].on = F[j].on /\ F[i].on \in Single => i = j
  BY DEF Sound
<1> HIDE DEF G
<1>7. ASSUME NEW i \in 1 .. n
      PROVE  /\ LawfulFrame(G[i], w, A) /\ Account(G[i], L)
             /\ G[i].on = F[i].on /\ G[i].phase = F[i].phase
             /\ G[i].i = F[i].i /\ G[i].n = F[i].n
  <2>1. CASE F[i].on # t
    BY <1>2, <1>6, <2>1
  <2>2. CASE F[i].on = t
    <3>1. F[i] \in Frame /\ G[i] = change(F[i]) /\ t \notin Single
      BY <1>1, <1>2, <2>2
    <3> DEFINE g == change(F[i])
    <3>3. /\ g.on = t /\ g.kind = F[i].kind /\ g.type = F[i].type /\ g.phase = F[i].phase /\ g.i = F[i].i
          /\ g.n = F[i].n /\ g.cut = F[i].cut /\ g.called = F[i].called
          /\ g.owed = F[i].owed /\ g.todo = F[i].todo
      BY <1>3, <2>2, <3>1
    <3> HIDE DEF g
    <3>4. LawfulFrame(g, w, A)
      BY <1>6, <2>2, <3>1, <3>3 DEF LawfulFrame
    <3>5. Account(g, L)
      BY <1>6, <2>2, <3>1, <3>3 DEF Account, EmissionAccount
    <3> QED
      BY <2>2, <3>1, <3>3, <3>4, <3>5 DEF g
  <2> QED
    BY <2>1, <2>2
<1> QED
  BY <1>5, <1>6, <1>7 DEF Sound, G

\* What a frame still tells, another stack of frames does.
LEMMA AnnouncedKept ==
  ASSUME NEW F, NEW G, NEW A, NEW L, Announced(F, A, L),
         \A i \in 1 .. Len(F) : F[i].phase = "list" /\ F[i].on \in Signals =>
           \E j \in 1 .. Len(G) : /\ G[j].on = F[i].on /\ G[j].phase = "list"
                                  /\ G[j].i = F[i].i /\ G[j].n = F[i].n
  PROVE  Announced(G, A, L)
<1>1. ASSUME NEW s \in Signals, NEW k, ToBeTold(F, s, k)
      PROVE  ToBeTold(G, s, k)
  <2>1. PICK i \in 1 .. Len(F) : /\ F[i].on = s /\ F[i].phase = "list"
                                 /\ F[i].i < k /\ k <= F[i].n
    BY <1>1 DEF ToBeTold
  <2>2. PICK j \in 1 .. Len(G) : /\ G[j].on = F[i].on /\ G[j].phase = "list"
                                 /\ G[j].i = F[i].i /\ G[j].n = F[i].n
    BY <2>1
  <2> QED
    BY <2>1, <2>2 DEF ToBeTold
<1> QED
  BY <1>1 DEF Announced

\* The records of a list by their types and by whether they stay.
Typed(ty) == {r \in Rec : r.type = ty}
Lasting == {r \in Rec : ~r.once}
Leaving(ty) == {r \in Rec : r.once /\ r.type = ty}
Other(ids) == {r \in Rec : r.id \notin ids}

LEMMA ElementsInRange ==
  ASSUME NEW S, NEW s \in Seq(S)
  PROVE  /\ Range(s) \subseteq S
         /\ \A i \in 1 .. Len(s) : s[i] \in Range(s)
         /\ \A e \in Range(s) : \E i \in 1 .. Len(s) : s[i] = e
<1>1. DOMAIN s = 1 .. Len(s)
  BY LenProperties
<1>2. \A i \in 1 .. Len(s) : s[i] \in S
  BY ElementOfSeq
<1> QED
  BY <1>1, <1>2 DEF Range

LEMMA PicksAre ==
  ASSUME NEW s \in Seq(Rec)
  PROVE  /\ \A ty : OfType(s, ty) = Picked(s, Typed(ty))
         /\ NotOnce(s) = Picked(s, Lasting)
         /\ \A ids : Without(s, ids) = Picked(s, Other(ids))
         /\ \A ty : Staying(s, ty) = Picked(s, Rec \ Leaving(ty))
<1>1. \A i \in 1 .. Len(s) : s[i] \in Range(s) /\ s[i] \in Rec
  BY ElementsInRange, ElementOfSeq
<1>2. ASSUME NEW ty PROVE OfType(s, ty) = Picked(s, Typed(ty))
  <2>1. \A i \in 1 .. Len(s) : s[i] \in {r \in Range(s) : r.type = ty} <=> s[i] \in Typed(ty)
    BY <1>1 DEF Typed
  <2> QED
    BY <2>1, PickedSame DEF OfType
<1>3. NotOnce(s) = Picked(s, Lasting)
  <2>1. \A i \in 1 .. Len(s) : s[i] \in {r \in Range(s) : ~r.once} <=> s[i] \in Lasting
    BY <1>1 DEF Lasting
  <2> QED
    BY <2>1, PickedSame DEF NotOnce
<1>4. ASSUME NEW ids PROVE Without(s, ids) = Picked(s, Other(ids))
  <2>1. \A i \in 1 .. Len(s) : s[i] \in {r \in Range(s) : r.id \notin ids} <=> s[i] \in Other(ids)
    BY <1>1 DEF Other
  <2> QED
    BY <2>1, PickedSame DEF Without
<1>5. ASSUME NEW ty PROVE Staying(s, ty) = Picked(s, Rec \ Leaving(ty))
  <2>1. \A i \in 1 .. Len(s) : s[i] \in {r \in Range(s) : ~(r.once /\ r.type = ty)}
                               <=> s[i] \in Rec \ Leaving(ty)
    BY <1>1 DEF Leaving
  <2> QED
    BY <2>1, PickedSame DEF Staying
<1> QED
  BY <1>2, <1>3, <1>4, <1>5

LEMMA HeadAndTail ==
  ASSUME NEW S, NEW s \in Seq(S), s # <<>>
  PROVE  /\ Head(s) \in S /\ Tail(s) \in Seq(S)
         /\ s = <<Head(s)>> \o Tail(s)
<1>1. /\ Len(s) \in Nat \ {0} /\ Head(s) = s[1] /\ Head(s) \in S
      /\ Tail(s) \in Seq(S) /\ Len(Tail(s)) = Len(s) - 1
      /\ \A i \in 1 .. Len(s) - 1 : Tail(s)[i] = s[i + 1]
  BY HeadTailProperties, EmptySeq, LenProperties
<1> DEFINE h == Head(s)
           one == <<h>>
           t == Tail(s)
<1>2. one \in Seq(S) /\ Len(one) = 1 /\ one[1] = h
  BY <1>1
<1>3. h = s[1] /\ t \in Seq(S) /\ Len(t) = Len(s) - 1
      /\ \A i \in 1 .. Len(s) - 1 : t[i] = s[i + 1]
  BY <1>1
<1> HIDE DEF one, t, h
<1>4. /\ one \o t \in Seq(S) /\ Len(one \o t) = Len(s)
      /\ \A i \in 1 .. Len(s) : (one \o t)[i] = IF i <= 1 THEN h ELSE t[i - 1]
  <2>1. /\ one \o t \in Seq(S) /\ Len(one \o t) = Len(one) + Len(t)
        /\ \A i \in 1 .. Len(one) + Len(t) :
             (one \o t)[i] = IF i <= Len(one) THEN one[i] ELSE t[i - Len(one)]
    <3>1. one \in Seq(S) /\ t \in Seq(S)
      BY <1>2, <1>3
    <3> QED
      BY <3>1, ConcatProperties, Zenon
  <2>2. Len(one) + Len(t) = Len(s)
    BY <1>1, <1>2, <1>3
  <2> QED
    BY <1>2, <2>1, <2>2
<1>5. \A i \in 1 .. Len(s) : (one \o t)[i] = s[i]
  <2> SUFFICES ASSUME NEW i \in 1 .. Len(s) PROVE (one \o t)[i] = s[i]
    OBVIOUS
  <2>1. CASE i = 1
    BY <1>1, <1>3, <1>4, <2>1
  <2>2. CASE i # 1
    <3>1. i - 1 \in 1 .. Len(s) - 1
      BY <1>1, <2>2
    <3>2. t[i - 1] = s[(i - 1) + 1]
      BY <1>3, <3>1
    <3> QED
      BY <1>1, <1>4, <2>2, <3>2
  <2> QED
    BY <2>1, <2>2
<1>6. one \o t = s
  BY <1>4, <1>5, SeqEqual
<1> QED
  BY <1>1, <1>6 DEF one, t, h

LEMMA FunctionIsSequence ==
  ASSUME NEW S, NEW n \in Nat, NEW x \in [1 .. n -> S]
  PROVE  x \in Seq(S) /\ Len(x) = n
OBVIOUS

LEMMA IdsType ==
  ASSUME NEW s \in Seq(Rec)
  PROVE  /\ Ids(s) \in Seq(1 .. MaxOps) /\ Len(Ids(s)) = Len(s)
         /\ \A i \in 1 .. Len(s) : Ids(s)[i] = s[i].id
<1>1. DOMAIN s = 1 .. Len(s) /\ Len(s) \in Nat
  BY LenProperties
<1>2. \A i \in 1 .. Len(s) : s[i].id \in 1 .. MaxOps
  <2>1. \A i \in 1 .. Len(s) : s[i] \in Rec
    BY ElementOfSeq
  <2> QED
    BY <2>1 DEF Rec
<1>3. Ids(s) \in [1 .. Len(s) -> 1 .. MaxOps]
  BY <1>1, <1>2 DEF Ids
<1>4. Ids(s) \in Seq(1 .. MaxOps) /\ Len(Ids(s)) = Len(s)
  BY <1>1, <1>3, FunctionIsSequence
<1> QED
  BY <1>1, <1>4 DEF Ids

LEMMA IdsAppend ==
  ASSUME NEW s \in Seq(Rec), NEW e \in Rec
  PROVE  Ids(Append(s, e)) = Append(Ids(s), e.id)
<1> DEFINE t == Append(s, e)
           a == Ids(t)
           b == Append(Ids(s), e.id)
           n == Len(s)
<1>1. /\ t \in Seq(Rec) /\ Len(t) = n + 1 /\ n \in Nat /\ t[n + 1] = e
      /\ \A i \in 1 .. n : t[i] = s[i]
  BY PushedType
<1>2. e.id \in 1 .. MaxOps
  BY DEF Rec
<1>3. Ids(s) \in Seq(1 .. MaxOps) /\ Len(Ids(s)) = n /\ \A i \in 1 .. n : Ids(s)[i] = s[i].id
  BY IdsType
<1>4. /\ b \in Seq(1 .. MaxOps) /\ Len(b) = n + 1 /\ b[n + 1] = e.id
      /\ \A i \in 1 .. n : b[i] = Ids(s)[i]
  <2> DEFINE y == Ids(s)
             d == e.id
  <2>1. y \in Seq(1 .. MaxOps) /\ Len(y) = n /\ d \in 1 .. MaxOps
    BY <1>2, <1>3
  <2> HIDE DEF y, d, n
  <2>2. /\ Append(y, d) \in Seq(1 .. MaxOps) /\ Len(Append(y, d)) = Len(y) + 1
        /\ Append(y, d)[Len(y) + 1] = d
        /\ \A i \in 1 .. Len(y) : Append(y, d)[i] = y[i]
    BY <2>1, PushedType
  <2> QED
    BY <2>1, <2>2 DEF y, d
<1> HIDE DEF t
<1>5. a \in Seq(1 .. MaxOps) /\ Len(a) = n + 1 /\ \A i \in 1 .. n + 1 : a[i] = t[i].id
  BY <1>1, IdsType
<1> HIDE DEF a, b, n
<1>6. \A i \in 1 .. n + 1 : a[i] = b[i]
  <2> SUFFICES ASSUME NEW i \in 1 .. n + 1 PROVE a[i] = b[i]
    OBVIOUS
  <2>1. i \in 1 .. n \/ i = n + 1
    BY <1>1
  <2> QED
    BY <1>1, <1>3, <1>4, <1>5, <2>1
<1>7. a = b
  BY <1>4, <1>5, <1>6, SeqEqual
<1> QED
  BY <1>7 DEF a, b, t

LEMMA IdsHead ==
  ASSUME NEW s \in Seq(Rec), s # <<>>
  PROVE  Ids(s) = <<Head(s).id>> \o Ids(Tail(s))
<1>1. Len(s) \in Nat \ {0} /\ Ids(s) \in Seq(1 .. MaxOps) /\ Ids(s) # <<>>
  BY EmptySeq, IdsType
<1>2. Ids(s) = <<Head(Ids(s))>> \o Tail(Ids(s))
  BY <1>1, HeadAndTail
<1>3. /\ Head(s) = s[1] /\ Tail(s) \in Seq(Rec) /\ Len(Tail(s)) = Len(s) - 1
      /\ \A i \in 1 .. Len(s) - 1 : Tail(s)[i] = s[i + 1]
  BY <1>1, HeadTailProperties
<1>4. Head(Ids(s)) = Head(s).id
  BY <1>1, <1>3, HeadTailProperties, IdsType
<1> DEFINE a == Tail(Ids(s))
           b == Ids(Tail(s))
           n == Len(s) - 1
<1>5. a \in Seq(1 .. MaxOps) /\ Len(a) = n /\ \A i \in 1 .. n : a[i] = s[i + 1].id
  <2>1. /\ a \in Seq(1 .. MaxOps) /\ Len(a) = Len(Ids(s)) - 1
        /\ \A i \in 1 .. Len(Ids(s)) - 1 : a[i] = Ids(s)[i + 1]
    BY <1>1, HeadTailProperties
  <2>2. \A i \in 1 .. n : i + 1 \in 1 .. Len(s)
    BY <1>1
  <2> QED
    BY <1>1, <2>1, <2>2, IdsType
<1>6. b \in Seq(1 .. MaxOps) /\ Len(b) = n /\ \A i \in 1 .. n : b[i] = s[i + 1].id
  <2> DEFINE z == Tail(s)
  <2>1. z \in Seq(Rec) /\ Len(z) = n /\ \A i \in 1 .. n : z[i] = s[i + 1]
    BY <1>3
  <2> HIDE DEF z, n
  <2>2. Ids(z) \in Seq(1 .. MaxOps) /\ Len(Ids(z)) = n /\ \A i \in 1 .. n : Ids(z)[i] = z[i].id
    BY <2>1, IdsType
  <2> QED
    BY <2>1, <2>2 DEF z
<1> HIDE DEF a, b, n
<1>7. a = b
  BY <1>5, <1>6, SeqEqual
<1> QED
  BY <1>2, <1>4, <1>7 DEF a, b

\* One record more of a list.
LEMMA OneFurther ==
  ASSUME NEW l \in Seq(Rec), NEW i \in Nat, i < Len(l), NEW ty
  PROVE  /\ l[i + 1] \in Rec
         /\ Ids(OfType(SubSeq(l, 1, i + 1), ty))
              = IF l[i + 1].type = ty THEN Append(Ids(OfType(SubSeq(l, 1, i), ty)), l[i + 1].id)
                ELSE Ids(OfType(SubSeq(l, 1, i), ty))
<1> DEFINE s == SubSeq(l, 1, i)
           e == l[i + 1]
           t == SubSeq(l, 1, i + 1)
<1>1. Len(l) \in Nat /\ \A j \in 1 .. Len(l) : l[j] \in Rec
  BY LenProperties, ElementOfSeq
<1>2. e \in Rec
  BY <1>1
<1>3. s \in Seq(Rec) /\ Len(s) = i /\ \A j \in 1 .. i : s[j] = l[j]
  BY <1>1, SubSeqProperties
<1>4. t \in Seq(Rec) /\ Len(t) = i + 1 /\ \A j \in 1 .. i + 1 : t[j] = l[j]
  <2>1. i + 1 \in Nat /\ i + 1 <= Len(l) /\ \A j \in 1 .. i + 1 : l[j] \in Rec
    BY <1>1
  <2> QED
    BY <2>1, SubSeqProperties
<1>5. t = Append(s, e)
  <2> HIDE DEF s, t
  <2>1. /\ Append(s, e) \in Seq(Rec) /\ Len(Append(s, e)) = i + 1
        /\ \A j \in 1 .. i : Append(s, e)[j] = s[j]
        /\ Append(s, e)[i + 1] = e
    BY <1>2, <1>3, PushedType
  <2> DEFINE a == Append(s, e)
  <2>2. /\ a \in Seq(Rec) /\ Len(a) = i + 1 /\ \A j \in 1 .. i : a[j] = s[j]
        /\ a[i + 1] = e
    BY <2>1
  <2> HIDE DEF a
  <2>3. \A j \in 1 .. i + 1 : t[j] = a[j]
    <3> SUFFICES ASSUME NEW j \in 1 .. i + 1 PROVE t[j] = a[j]
      OBVIOUS
    <3>1. j \in 1 .. i \/ j = i + 1
      OBVIOUS
    <3> QED
      BY <1>3, <1>4, <2>2, <3>1
  <2> QED
    BY <1>4, <2>2, <2>3, SeqEqual DEF a
<1> HIDE DEF s, t, e
<1>6. OfType(t, ty) = IF e \in Typed(ty) THEN Append(OfType(s, ty), e) ELSE OfType(s, ty)
  <2>1. OfType(t, ty) = Picked(t, Typed(ty)) /\ OfType(s, ty) = Picked(s, Typed(ty))
    BY <1>3, <1>4, PicksAre
  <2>2. Picked(Append(s, e), Typed(ty))
          = IF e \in Typed(ty) THEN Append(Picked(s, Typed(ty)), e) ELSE Picked(s, Typed(ty))
    BY <1>2, <1>3, PickedAppend
  <2> QED
    BY <1>5, <2>1, <2>2, Zenon
<1>7. e \in Typed(ty) <=> e.type = ty
  BY <1>2 DEF Typed
<1>8. OfType(s, ty) \in Seq(Rec)
  BY <1>3, PicksAre, PickedType
<1>9. Ids(OfType(t, ty))
        = IF e.type = ty THEN Append(Ids(OfType(s, ty)), e.id) ELSE Ids(OfType(s, ty))
  <2>1. CASE e.type = ty
    BY <1>2, <1>6, <1>7, <1>8, <2>1, IdsAppend
  <2>2. CASE e.type # ty
    BY <1>6, <1>7, <2>2
  <2> QED
    BY <2>1, <2>2
<1> QED
  BY <1>2, <1>9 DEF s, t, e

----------------------------------------------------------------------------
(* The steps that change no list. *)

LEMMA InvParts ==
  ASSUME IInv
  PROVE  /\ TypeOK /\ Sound(frames, world, aborted, list) /\ RecordsApart
         /\ ~Reentrant => ListenersKept
         /\ AbortedIsMade /\ TimersInWorld /\ CompositesHear
         /\ Announced(frames, aborted, list)
BY DEF IInv, ListsInv, SignalsInv

LEMMA SameListsIInv ==
  ASSUME IInv, UNCHANGED <<list, aborted, reason, made, timers, world>>,
         err' \in BOOLEAN, ops' \in ops .. MaxOps,
         store' \in [Emitters -> [Types -> Seq(Rec)]], epoch' \in [Emitters -> Nat],
         kept' \in [Objects -> [Types -> Seq(Rec)]], ~Reentrant => ListenersKept',
         Sound(frames', world, aborted, list), Announced(frames', aborted, list)
  PROVE  IInv'
<1>1. TypeOK'
  BY EventsAssumption, InvParts DEF TypeOK, Sound
<1>2. Sound(frames, world, aborted, list)' /\ Announced(frames, aborted, list)'
  OBVIOUS
<1>3. RecordsApart'
  <2>1. \A t \in Targets : \A r \in Range(list[t]) : r.id \in Nat
    <3> SUFFICES ASSUME NEW t \in Targets, NEW r \in Range(list[t]) PROVE r.id \in Nat
      OBVIOUS
    <3>1. list[t] \in Seq(Rec)
      BY InvParts DEF TypeOK
    <3>2. r \in Rec
      BY <3>1, ElementsInRange
    <3> QED
      BY <3>2 DEF Rec
  <2>2. ops \in Nat /\ ops' \in Nat /\ ops <= ops'
    BY EventsAssumption, InvParts DEF TypeOK
  <2> QED
    BY <2>1, <2>2, InvParts DEF RecordsApart
<1>4. AbortedIsMade' /\ TimersInWorld' /\ CompositesHear'
  BY InvParts DEF AbortedIsMade, TimersInWorld, CompositesHear, Hears
<1> QED
  BY <1>1, <1>2, <1>3, <1>4 DEF IInv, ListsInv, SignalsInv

LEMMA FramesOnlyIInv ==
  ASSUME IInv, UNCHANGED <<store, epoch, list, aborted, reason, made, timers, world, kept>>,
         err' \in BOOLEAN, ops' \in ops .. MaxOps,
         Sound(frames', world, aborted, list), Announced(frames', aborted, list)
  PROVE  IInv'
<1>1. ~Reentrant => ListenersKept'
  BY InvParts DEF ListenersKept, Registered
<1> QED
  BY <1>1, InvParts, SameListsIInv DEF TypeOK

LEMMA TopFacts ==
  ASSUME IInv, frames # <<>>
  PROVE  /\ frames \in Seq(Frame) /\ Len(frames) \in Nat \ {0} /\ Len(frames) \in 1 .. Len(frames)
         /\ Top = frames[Len(frames)]
         /\ Top \in Frame /\ LawfulFrame(Top, world, aborted) /\ Account(Top, list)
<1>1. Sound(frames, world, aborted, list)
  BY InvParts
<1>2. frames \in Seq(Frame)
  BY <1>1 DEF Sound
<1>3. Len(frames) \in Nat \ {0} /\ Len(frames) \in 1 .. Len(frames) /\ frames[Len(frames)] \in Frame
  BY <1>2, TopType
<1> QED
  BY <1>1, <1>2, <1>3 DEF Top, Sound

LEMMA TopChanged ==
  ASSUME IInv, frames # <<>>, NEW f \in Frame,
         f.on = Top.on, LawfulFrame(f, world, aborted), Account(f, list),
         Top.phase = "list" /\ Top.on \in Signals =>
           f.phase = "list" /\ f.i = Top.i /\ f.n = Top.n
  PROVE  Sound(WithTop(f), world, aborted, list) /\ Announced(WithTop(f), aborted, list)
<1>1. Sound(WithTop(f), world, aborted, list)
  BY InvParts, SoundReplace DEF WithTop, Top
<1>2. /\ Len(WithTop(f)) = Len(frames) /\ WithTop(f)[Len(frames)] = f
      /\ \A i \in 1 .. Len(frames) : i # Len(frames) => WithTop(f)[i] = frames[i]
  BY TopFacts, ReplacedType DEF WithTop
<1> DEFINE G == WithTop(f)
           n == Len(frames)
<1>3. /\ Len(G) = n /\ G[n] = f /\ frames[n] = Top
      /\ \A i \in 1 .. n : i # n => G[i] = frames[i]
  BY <1>2, TopFacts
<1> HIDE DEF G, n
<1>4. \A i \in 1 .. n : frames[i].phase = "list" /\ frames[i].on \in Signals =>
           \E j \in 1 .. Len(G) : /\ G[j].on = frames[i].on /\ G[j].phase = "list"
                                  /\ G[j].i = frames[i].i /\ G[j].n = frames[i].n
  <2> SUFFICES ASSUME NEW i \in 1 .. n, frames[i].phase = "list", frames[i].on \in Signals
               PROVE  /\ G[i].on = frames[i].on /\ G[i].phase = "list"
                      /\ G[i].i = frames[i].i /\ G[i].n = frames[i].n
    BY <1>3
  <2>1. CASE i = n
    BY <1>3, <2>1
  <2>2. CASE i # n
    BY <1>3, <2>2
  <2> QED
    BY <2>1, <2>2
<1>5. Announced(G, aborted, list)
  BY <1>4, InvParts, AnnouncedKept DEF n
<1> QED
  BY <1>1, <1>5 DEF G

LEMMA FramePushed ==
  ASSUME NEW F, NEW w, NEW A, NEW L, Sound(F, w, A, L), Announced(F, A, L),
         NEW f \in Frame, LawfulFrame(f, w, A), Account(f, L),
         f.on \in Single => \A i \in 1 .. Len(F) : F[i].on # f.on
  PROVE  Sound(Append(F, f), w, A, L) /\ Announced(Append(F, f), A, L)
<1>1. Sound(Append(F, f), w, A, L)
  BY SoundPush
<1> DEFINE G == Append(F, f)
<1>2. Len(F) \in Nat /\ Len(G) = Len(F) + 1 /\ \A i \in 1 .. Len(F) : G[i] = F[i]
  BY PushedType DEF Sound
<1> HIDE DEF G
<1>3. \A i \in 1 .. Len(F) : F[i].phase = "list" /\ F[i].on \in Signals =>
           \E j \in 1 .. Len(G) : /\ G[j].on = F[i].on /\ G[j].phase = "list"
                                  /\ G[j].i = F[i].i /\ G[j].n = F[i].n
  BY <1>2
<1>4. Announced(G, A, L)
  BY <1>3, AnnouncedKept
<1> QED
  BY <1>1, <1>4 DEF G

LEMMA FramePopped ==
  ASSUME NEW F, NEW w, NEW A, NEW L, Sound(F, w, A, L), Announced(F, A, L), F # <<>>,
         F[Len(F)].on \notin Signals \/ F[Len(F)].phase # "list"
  PROVE  LET G == SubSeq(F, 1, Len(F) - 1)
         IN  Sound(G, w, A, L) /\ Announced(G, A, L)
<1>1. Sound(SubSeq(F, 1, Len(F) - 1), w, A, L)
  BY SoundBeneath
<1> DEFINE G == SubSeq(F, 1, Len(F) - 1)
           n == Len(F)
<1>2. n \in Nat \ {0} /\ Len(G) = n - 1 /\ \A i \in 1 .. n - 1 : G[i] = F[i]
  BY TopType DEF Sound
<1>3. F[n].on \notin Signals \/ F[n].phase # "list"
  OBVIOUS
<1> HIDE DEF G, n
<1>4. \A i \in 1 .. n : F[i].phase = "list" /\ F[i].on \in Signals =>
           \E j \in 1 .. Len(G) : /\ G[j].on = F[i].on /\ G[j].phase = "list"
                                  /\ G[j].i = F[i].i /\ G[j].n = F[i].n
  <2> SUFFICES ASSUME NEW i \in 1 .. n, F[i].phase = "list", F[i].on \in Signals
               PROVE  i \in 1 .. Len(G) /\ G[i] = F[i]
    OBVIOUS
  <2>1. i # n
    BY <1>3
  <2> QED
    BY <1>2, <2>1
<1>5. Announced(G, A, L)
  BY <1>4, AnnouncedKept DEF n
<1> QED
  BY <1>1, <1>5 DEF G

LEMMA CountType ==
  ASSUME IInv, Calls
  PROVE  ops + 1 \in ops .. MaxOps /\ ops \in Nat /\ ops + 1 \in 1 .. MaxOps
BY EventsAssumption, InvParts DEF TypeOK, Calls

\* The frame goes on as it was, but for what the running step notes in it.
SameFrame(f, g) ==
  /\ g.kind = f.kind /\ g.on = f.on /\ g.type = f.type /\ g.todo = f.todo
  /\ g.n = f.n /\ g.i = f.i /\ g.stale = f.stale /\ g.owed = f.owed /\ g.called = f.called

LEMMA ReturnIInv ==
  ASSUME IInv, Return \/ Throw
  PROVE  IInv'
<1>1. frames # <<>> /\ Top \in Frame /\ LawfulFrame(Top, world, aborted) /\ Account(Top, list)
  BY TopFacts DEF Return, Throw
<1>2. /\ UNCHANGED <<store, epoch, list, aborted, reason, made, timers, world, kept>>
      /\ err' \in BOOLEAN /\ ops' \in ops .. MaxOps
  <2>1. err \in BOOLEAN /\ ops \in ops .. MaxOps
    BY EventsAssumption, InvParts DEF TypeOK
  <2> QED
    BY <2>1, CountType DEF Return, Throw, Does, eeVars, etVars, sigVars
<1> DEFINE f == [Top EXCEPT !.in = FALSE]
<1>3. f \in Frame
  BY <1>1 DEF Frame
<1>4. SameFrame(Top, f) /\ f.stop = Top.stop /\ f.phase = Top.phase /\ f.cut = Top.cut
  BY <1>1 DEF Frame, SameFrame
<1>5. frames' = WithTop(f)
  BY DEF Return, Throw
<1> HIDE DEF f
<1>6. LawfulFrame(f, world, aborted) /\ Account(f, list)
  BY <1>1, <1>4 DEF LawfulFrame, Account, EmissionAccount, InList, DispatchAccount,
     HasCalled, WillCall, SameFrame
<1>7. Sound(WithTop(f), world, aborted, list) /\ Announced(WithTop(f), aborted, list)
  BY <1>1, <1>3, <1>4, <1>6, TopChanged DEF SameFrame
<1> QED
  BY <1>2, <1>5, <1>7, FramesOnlyIInv

LEMMA StopNowIInv ==
  ASSUME IInv, StopNow
  PROVE  IInv'
<1>1. frames # <<>> /\ Top \in Frame /\ LawfulFrame(Top, world, aborted) /\ Account(Top, list)
  BY TopFacts DEF StopNow
<1>2. /\ UNCHANGED <<store, epoch, list, aborted, reason, made, timers, world, kept>>
      /\ err' \in BOOLEAN /\ ops' \in ops .. MaxOps
  <2>1. err \in BOOLEAN
    BY InvParts DEF TypeOK
  <2> QED
    BY <2>1, CountType DEF StopNow, Does, eeVars, etVars, sigVars
<1> DEFINE f == [Top EXCEPT !.stop = TRUE, !.cut = TRUE]
<1>3. f \in Frame
  BY <1>1 DEF Frame
<1>4. SameFrame(Top, f) /\ f.phase = Top.phase /\ f.cut
  BY <1>1 DEF Frame, SameFrame
<1>5. frames' = WithTop(f) /\ Top.on \notin Signals \cap Single
  BY DEF StopNow, Single
<1> HIDE DEF f
<1>6. LawfulFrame(f, world, aborted) /\ Account(f, list)
  BY <1>1, <1>4, <1>5 DEF LawfulFrame, Account, InList, SameFrame
<1>7. Sound(WithTop(f), world, aborted, list) /\ Announced(WithTop(f), aborted, list)
  BY <1>1, <1>3, <1>4, <1>6, TopChanged DEF SameFrame
<1> QED
  BY <1>2, <1>5, <1>7, FramesOnlyIInv

LEMMA DispatchHandlerIInv ==
  ASSUME IInv, DispatchHandler
  PROVE  IInv'
<1>1. /\ frames # <<>> /\ Top \in Frame /\ LawfulFrame(Top, world, aborted)
      /\ Account(Top, list) /\ Top.phase = "handler" /\ Top.kind = "dispatch"
  BY TopFacts DEF DispatchHandler
<1>2. /\ UNCHANGED <<store, epoch, list, aborted, reason, made, timers, world, kept>>
      /\ err' \in BOOLEAN /\ ops' \in ops .. MaxOps
  <2>1. err \in BOOLEAN /\ ops \in ops .. MaxOps
    BY EventsAssumption, InvParts DEF TypeOK
  <2> QED
    BY <2>1 DEF DispatchHandler, eeVars, etVars, sigVars
<1> DEFINE fires == handler[Top.on] # "none" /\ Top.type = AbortType /\ ~Top.stop /\ ~err
           f == [Top EXCEPT !.phase = "end", !.in = fires]
<1>3. f \in Frame
  BY <1>1 DEF Frame
<1>4. SameFrame(Top, f) /\ f.stop = Top.stop /\ f.phase = "end" /\ f.cut = Top.cut
  BY <1>1 DEF Frame, SameFrame
<1>5. frames' = WithTop(f)
  BY DEF DispatchHandler
<1> HIDE DEF f
<1>6. LawfulFrame(f, world, aborted) /\ Account(f, list)
  BY <1>1, <1>4 DEF LawfulFrame, Account, EmissionAccount, InList, DispatchAccount, SameFrame
<1>7. Sound(WithTop(f), world, aborted, list) /\ Announced(WithTop(f), aborted, list)
  BY <1>1, <1>3, <1>4, <1>6, TopChanged DEF SameFrame
<1> QED
  BY <1>2, <1>5, <1>7, FramesOnlyIInv

LEMMA EmitNextIInv ==
  ASSUME IInv, EmitNext
  PROVE  IInv'
<1>1. /\ frames # <<>> /\ Top \in Frame /\ LawfulFrame(Top, world, aborted)
      /\ Account(Top, list) /\ Top.kind = "emit" /\ Top.todo # <<>>
  BY TopFacts DEF EmitNext
<1>2. /\ UNCHANGED <<store, epoch, list, aborted, reason, made, timers, world, kept>>
      /\ err' \in BOOLEAN /\ ops' \in ops .. MaxOps
  <2>1. err \in BOOLEAN /\ ops \in ops .. MaxOps
    BY EventsAssumption, InvParts DEF TypeOK
  <2> QED
    BY <2>1 DEF EmitNext, eeVars, etVars, sigVars
<1>3. Top.on \notin Single
  BY <1>1, EventsAssumption DEF LawfulFrame, Single
<1> DEFINE r == Head(Top.todo)
           g == [Top EXCEPT !.todo = Tail(@)]
           f == IF err THEN [g EXCEPT !.cut = TRUE] ELSE Called(g, r)
<1>4. /\ Top.todo \in Seq(Rec) /\ Top.called \in Seq(1 .. MaxOps)
      /\ r \in Rec /\ r.id \in 1 .. MaxOps /\ Tail(Top.todo) \in Seq(Rec)
  <2>1. Top.todo \in Seq(Rec) /\ Top.called \in Seq(1 .. MaxOps)
    BY <1>1, FrameIsRecord
  <2>2. r \in Rec /\ Tail(Top.todo) \in Seq(Rec)
    BY <1>1, <2>1, HeadAndTail
  <2> QED
    BY <2>1, <2>2 DEF Rec
<1> HIDE DEF r
<1>5. Append(Top.called, r.id) \in Seq(1 .. MaxOps)
  BY <1>4, AppendProperties
<1>6. /\ f \in Frame
      /\ f.kind = Top.kind /\ f.on = Top.on /\ f.type = Top.type /\ f.n = Top.n /\ f.i = Top.i
      /\ f.stale = Top.stale /\ f.stop = Top.stop /\ f.owed = Top.owed /\ f.phase = Top.phase
      /\ ~f.cut => ~Top.cut /\ f.todo = Tail(Top.todo) /\ f.called = Append(Top.called, r.id)
  BY <1>1, <1>4, <1>5 DEF Frame, Called
<1>7. frames' = WithTop(f)
  BY DEF EmitNext, r
<1> HIDE DEF f, g
<1>8. EmissionAccount(Top) /\ ~f.cut => EmissionAccount(f)
  <2> SUFFICES ASSUME Top.called \o Ids(Top.todo) = Top.owed, ~f.cut
               PROVE  f.called \o Ids(f.todo) = Top.owed
    BY <1>6 DEF EmissionAccount
  <2> DEFINE c == Top.called
             d == r.id
             z == Ids(Tail(Top.todo))
  <2>1. Ids(Top.todo) = <<d>> \o z
    BY <1>1, <1>4, IdsHead DEF r
  <2>2. c \in Seq(1 .. MaxOps) /\ d \in 1 .. MaxOps /\ z \in Seq(1 .. MaxOps)
    BY <1>4, IdsType
  <2>3. f.called = Append(c, d) /\ Ids(f.todo) = z
    BY <1>6
  <2> HIDE DEF c, d, z
  <2>4. <<d>> \in Seq(1 .. MaxOps)
    BY <2>2
  <2>5. Append(c, d) = c \o <<d>>
    BY <2>2, AppendIsConcat
  <2>6. (c \o <<d>>) \o z = c \o (<<d>> \o z)
    BY <2>2, <2>4, ConcatAssociative
  <2>7. c \o (<<d>> \o z) = Top.owed
    BY <2>1 DEF c
  <2> QED
    BY <2>3, <2>5, <2>6, <2>7
<1>9. LawfulFrame(f, world, aborted) /\ Account(f, list)
  BY <1>1, <1>3, <1>6, <1>8 DEF LawfulFrame, Account
<1>10. Sound(WithTop(f), world, aborted, list) /\ Announced(WithTop(f), aborted, list)
  BY <1>1, <1>6, <1>9, TopChanged
<1> QED
  BY <1>2, <1>7, <1>10, FramesOnlyIInv

LEMMA EmitIInv ==
  ASSUME IInv, NEW e \in Emitters, NEW ty \in Types, Emit(e, ty)
  PROVE  IInv'
<1>1. /\ UNCHANGED <<store, epoch, list, aborted, reason, made, timers, world, kept>>
      /\ err' \in BOOLEAN /\ ops' \in ops .. MaxOps
  <2>1. err \in BOOLEAN
    BY InvParts DEF TypeOK
  <2> QED
    BY <2>1, CountType DEF Emit, Does, eeVars, etVars, sigVars
<1>2. Sound(frames, world, aborted, list) /\ Announced(frames, aborted, list)
  BY InvParts
<1> DEFINE l == store[e][ty]
           f == [kind |-> "emit", on |-> e, type |-> ty,
                 todo |-> l, n |-> 0, i |-> 0, epoch |-> epoch[e],
                 stale |-> FALSE, stop |-> FALSE, phase |-> "list", in |-> FALSE,
                 owed |-> Ids(l), called |-> <<>>, cut |-> FALSE]
<1>3. l \in Seq(Rec) /\ epoch[e] \in Nat /\ Ids(l) \in Seq(1 .. MaxOps)
  <2>1. l \in Seq(Rec) /\ epoch[e] \in Nat
    BY InvParts DEF TypeOK
  <2> QED
    BY <2>1, IdsType
<1>4. frames' = frames \/ frames' = Append(frames, f)
  BY DEF Emit
<1> HIDE DEF l
<1>5. f \in Frame
  <2>1. <<>> \in Seq(1 .. MaxOps) /\ e \in Objects
    BY EmptySeq DEF Objects
  <2> QED
    BY <1>3, <2>1 DEF Frame
<1>6. f.on \notin Single /\ f.on \notin Signals
  BY EventsAssumption DEF Single
<1>7. LawfulFrame(f, world, aborted) /\ Account(f, list)
  <2>1. <<>> \o Ids(l) = Ids(l)
    BY <1>3, ConcatEmptySeq
  <2> QED
    BY <1>6, <2>1 DEF LawfulFrame, Account, EmissionAccount
<1> HIDE DEF f
<1>8. Sound(Append(frames, f), world, aborted, list) /\ Announced(Append(frames, f), aborted, list)
  BY <1>2, <1>5, <1>6, <1>7, FramePushed
<1> QED
  BY <1>1, <1>2, <1>4, <1>8, FramesOnlyIInv

\* A dispatch that begins.
LEMMA NewDispatch ==
  ASSUME IInv, NEW t \in Targets, NEW ty \in Types
  PROVE  LET f == Dispatch(t, ty)
         IN  /\ f \in Frame /\ f.on = t /\ f.kind = "dispatch" /\ f.type = ty /\ ~f.stale /\ ~f.stop
             /\ f.phase = "list" /\ f.i = 0 /\ f.n = Len(list[t])
             /\ Account(f, list)
<1>1. list[t] \in Seq(Rec) /\ Len(list[t]) \in Nat
  <2>1. list[t] \in Seq(Rec)
    BY InvParts DEF TypeOK
  <2> QED
    BY <2>1, LenProperties
<1>2. OfType(list[t], ty) \in Seq(Rec)
  BY <1>1, PicksAre, PickedType
<1>3. Ids(OfType(list[t], ty)) \in Seq(1 .. MaxOps)
  BY <1>2, IdsType
<1>4. <<>> \in Seq(1 .. MaxOps) /\ <<>> \in Seq(Rec) /\ t \in Objects
  BY EmptySeq DEF Objects
<1> DEFINE f == Dispatch(t, ty)
<1>5. f \in Frame
  BY <1>1, <1>3, <1>4 DEF Frame, Dispatch
<1>6. /\ f.on = t /\ f.kind = "dispatch" /\ f.type = ty /\ ~f.stale /\ ~f.stop
      /\ f.phase = "list" /\ f.i = 0 /\ f.n = Len(list[t]) /\ f.called = <<>>
      /\ f.owed = Ids(OfType(list[t], ty))
  BY DEF Dispatch
<1>7. SubSeq(list[t], 1, 0) = <<>> /\ SubSeq(list[t], 1, Len(list[t])) = list[t]
  <2>1. \A i \in 1 .. Len(list[t]) : list[t][i] \in Rec
    BY <1>1, ElementOfSeq
  <2>2. SubSeq(list[t], 1, 0) \in Seq(Rec) /\ Len(SubSeq(list[t], 1, 0)) = 0
    BY <1>1, <2>1, SubSeqProperties
  <2>3. /\ SubSeq(list[t], 1, Len(list[t])) \in Seq(Rec)
        /\ Len(SubSeq(list[t], 1, Len(list[t]))) = Len(list[t])
        /\ \A i \in 1 .. Len(list[t]) : SubSeq(list[t], 1, Len(list[t]))[i] = list[t][i]
    BY <1>1, <2>1, SubSeqProperties
  <2>4. SubSeq(list[t], 1, 0) = <<>>
    BY <2>2, EmptySeq
  <2> DEFINE a == SubSeq(list[t], 1, Len(list[t]))
             b == list[t]
  <2>5. a \in Seq(Rec) /\ b \in Seq(Rec) /\ Len(a) = Len(b) /\ \A i \in 1 .. Len(a) : a[i] = b[i]
    BY <1>1, <2>3
  <2> HIDE DEF a, b
  <2>6. a = b
    BY <2>5, SeqEqual
  <2> QED
    BY <2>4, <2>6 DEF a, b
<1>8. Ids(OfType(<<>>, ty)) = <<>>
  <2>1. OfType(<<>>, ty) = <<>>
    BY <1>4, PicksAre, PickedEmpty
  <2>2. Ids(<<>>) \in Seq(1 .. MaxOps) /\ Len(Ids(<<>>)) = 0
    BY <1>4, IdsType, EmptySeq
  <2> QED
    BY <2>1, <2>2, EmptySeq
<1> HIDE DEF f
<1>9. Account(f, list)
  <2>1. HasCalled(f, list[t]) /\ WillCall(f, list[t])
    BY <1>6, <1>7, <1>8 DEF HasCalled, WillCall
  <2>2. InList(f, list[t])
    BY <1>1, <1>6 DEF InList
  <2>3. DispatchAccount(f, list[t])
    BY <1>6, <2>1 DEF DispatchAccount
  <2> QED
    BY <1>6, <2>2, <2>3 DEF Account
<1> QED
  BY <1>5, <1>6, <1>9 DEF f

LEMMA DispatchEventIInv ==
  ASSUME IInv, NEW t \in Targets \ Signals, NEW ty \in Types, DispatchEvent(t, ty)
  PROVE  IInv'
<1>1. /\ UNCHANGED <<store, epoch, list, aborted, reason, made, timers, world, kept>>
      /\ err' \in BOOLEAN /\ ops' \in ops .. MaxOps
  <2>1. err \in BOOLEAN
    BY InvParts DEF TypeOK
  <2> QED
    BY <2>1, CountType DEF DispatchEvent, Does, eeVars, etVars, sigVars
<1>2. Sound(frames, world, aborted, list) /\ Announced(frames, aborted, list)
  BY InvParts
<1> DEFINE f == Dispatch(t, ty)
<1>3. /\ f \in Frame /\ f.on = t /\ f.kind = "dispatch" /\ ~f.stale /\ Account(f, list)
  BY NewDispatch
<1>4. frames' = Append(frames, f)
  BY DEF DispatchEvent
<1> HIDE DEF f
<1>5. LawfulFrame(f, world, aborted)
  BY <1>3 DEF LawfulFrame
<1>6. t \in Single => \A i \in 1 .. Len(frames) : frames[i].on # t
  <2> SUFFICES ASSUME t \in Single PROVE \A i \in 1 .. Len(frames) : frames[i].on # t
    OBVIOUS
  <2>1. ~Reentrant /\ ~BusyOn(t)
    BY DEF DispatchEvent, Single
  <2>2. DOMAIN frames = 1 .. Len(frames)
    BY <1>2, LenProperties DEF Sound
  <2> QED
    BY <2>1, <2>2 DEF BusyOn
<1>7. Sound(Append(frames, f), world, aborted, list) /\ Announced(Append(frames, f), aborted, list)
  BY <1>2, <1>3, <1>5, <1>6, FramePushed
<1> QED
  BY <1>1, <1>4, <1>7, FramesOnlyIInv

LEMMA DispatchReturnIInv ==
  ASSUME IInv, DispatchReturn
  PROVE  IInv'
<1>1. /\ UNCHANGED <<store, epoch, list, aborted, reason, made, timers, world, kept>>
      /\ err' \in BOOLEAN /\ ops' \in ops .. MaxOps
  <2>1. err \in BOOLEAN /\ ops \in ops .. MaxOps
    BY EventsAssumption, InvParts DEF TypeOK
  <2> QED
    BY <2>1 DEF DispatchReturn, eeVars, etVars, sigVars
<1>2. frames # <<>> /\ Top.phase = "end" /\ frames' = Beneath
  BY DEF DispatchReturn
<1>3. Sound(Beneath, world, aborted, list) /\ Announced(Beneath, aborted, list)
  BY <1>2, InvParts, FramePopped DEF Beneath, Top
<1> QED
  BY <1>1, <1>2, <1>3, FramesOnlyIInv

LEMMA IdleIInv ==
  ASSUME IInv,
         \/ Catch
         \/ \E t \in Targets, cb \in Callbacks : SetHandler(t, cb)
  PROVE  IInv'
<1>1. /\ UNCHANGED <<store, epoch, list, aborted, reason, made, timers, world, kept, frames>>
      /\ err' \in BOOLEAN /\ ops' \in ops .. MaxOps
  <2>1. err \in BOOLEAN /\ ops \in ops .. MaxOps
    BY EventsAssumption, InvParts DEF TypeOK
  <2> QED
    BY <2>1, CountType DEF Catch, SetHandler, Does, eeVars, etVars, sigVars
<1> QED
  BY <1>1, InvParts, FramesOnlyIInv

----------------------------------------------------------------------------
(* EventEmitter. *)

LEMMA RecordType ==
  ASSUME IInv, Calls, NEW ty \in Types, NEW cb \in Callbacks \cup Signals,
         NEW once \in BOOLEAN, NEW capture \in BOOLEAN
  PROVE  LET r == Record(ty, cb, once, capture)
         IN  /\ r \in Rec /\ r.id = ops + 1 /\ r.type = ty /\ r.cb = cb /\ r.once = once
<1>1. ops + 1 \in 1 .. MaxOps
  BY CountType
<1> QED
  BY <1>1 DEF Record, Rec

LEMMA NoneLasts == NotOnce(<<>>) = <<>> /\ \A ty : OfType(<<>>, ty) = <<>>
<1>1. <<>> \in Seq(Rec)
  BY EmptySeq
<1> QED
  BY <1>1, PicksAre, PickedEmpty

LEMMA LastingOf ==
  ASSUME NEW s \in Seq(Rec)
  PROVE  /\ NotOnce(s) \in Seq(Rec)
         /\ \A r \in Rec, first \in BOOLEAN :
              /\ Insert(s, r, first) \in Seq(Rec)
              /\ NotOnce(Insert(s, r, first))
                   = IF r.once THEN NotOnce(s) ELSE Insert(NotOnce(s), r, first)
         /\ \A ids : Without(s, ids) \in Seq(Rec) /\ NotOnce(Without(s, ids)) = Without(NotOnce(s), ids)
         /\ NotOnce(NotOnce(s)) = NotOnce(s)
<1>1. NotOnce(s) = Picked(s, Lasting) /\ NotOnce(s) \in Seq(Rec)
  BY PicksAre, PickedType
<1>2. ASSUME NEW r \in Rec, NEW first \in BOOLEAN
      PROVE  /\ Insert(s, r, first) \in Seq(Rec)
             /\ NotOnce(Insert(s, r, first))
                  = IF r.once THEN NotOnce(s) ELSE Insert(NotOnce(s), r, first)
  <2>1. r \in Lasting <=> ~r.once
    BY DEF Lasting
  <2>2. CASE first
    <3> DEFINE l == <<r>> \o s
    <3>1. <<r>> \in Seq(Rec)
      OBVIOUS
    <3>2. l \in Seq(Rec)
      BY <3>1, ConcatProperties, Zenon
    <3>3. Picked(l, Lasting)
            = IF r \in Lasting THEN <<r>> \o Picked(s, Lasting) ELSE Picked(s, Lasting)
      BY PickedFirst
    <3>4. Insert(s, r, first) = l /\ Insert(NotOnce(s), r, first) = <<r>> \o NotOnce(s)
      BY <2>2 DEF Insert
    <3> HIDE DEF l
    <3>5. NotOnce(l) = Picked(l, Lasting)
      BY <3>2, PicksAre
    <3> QED
      BY <1>1, <2>1, <3>2, <3>3, <3>4, <3>5
  <2>3. CASE ~first
    <3> DEFINE l == Append(s, r)
    <3>1. l \in Seq(Rec)
      BY AppendProperties
    <3>2. Picked(l, Lasting)
            = IF r \in Lasting THEN Append(Picked(s, Lasting), r) ELSE Picked(s, Lasting)
      BY PickedAppend
    <3>3. Insert(s, r, first) = l /\ Insert(NotOnce(s), r, first) = Append(NotOnce(s), r)
      BY <2>3 DEF Insert
    <3> HIDE DEF l
    <3>4. NotOnce(l) = Picked(l, Lasting)
      BY <3>1, PicksAre
    <3> QED
      BY <1>1, <2>1, <3>1, <3>2, <3>3, <3>4
  <2> QED
    BY <2>2, <2>3
<1>3. ASSUME NEW ids
      PROVE  Without(s, ids) \in Seq(Rec) /\ NotOnce(Without(s, ids)) = Without(NotOnce(s), ids)
  <2>1. Without(s, ids) = Picked(s, Other(ids)) /\ Without(s, ids) \in Seq(Rec)
    BY PicksAre, PickedType
  <2>2. NotOnce(Without(s, ids)) = Picked(Picked(s, Other(ids)), Lasting)
    BY <2>1, PicksAre
  <2>3. Without(NotOnce(s), ids) = Picked(Picked(s, Lasting), Other(ids))
    BY <1>1, PicksAre
  <2>4. Other(ids) \cap Lasting = Lasting \cap Other(ids)
    OBVIOUS
  <2>5. Picked(Picked(s, Other(ids)), Lasting) = Picked(s, Other(ids) \cap Lasting)
    BY PickedTwice
  <2>6. Picked(Picked(s, Lasting), Other(ids)) = Picked(s, Lasting \cap Other(ids))
    BY PickedTwice
  <2> QED
    BY <2>1, <2>2, <2>3, <2>4, <2>5, <2>6, Zenon
<1>4. NotOnce(NotOnce(s)) = NotOnce(s)
  <2>1. NotOnce(NotOnce(s)) = Picked(Picked(s, Lasting), Lasting)
    BY <1>1, PicksAre
  <2>2. Lasting \cap Lasting = Lasting
    OBVIOUS
  <2> QED
    BY <1>1, <2>1, <2>2, PickedTwice
<1> QED
  BY <1>1, <1>2, <1>3, <1>4

\* One list of an emitter, and what is kept of it, change together.
LEMMA OneStoreKept ==
  ASSUME IInv, NEW e \in Emitters, NEW ty \in Types, NEW s \in Seq(Rec), NEW k \in Seq(Rec),
         NotOnce(s) = k \/ Reentrant,
         store' = [store EXCEPT ![e][ty] = s],
         kept' = [kept EXCEPT ![e][ty] = k], list' = list
  PROVE  /\ store' \in [Emitters -> [Types -> Seq(Rec)]]
         /\ kept' \in [Objects -> [Types -> Seq(Rec)]]
         /\ ~Reentrant => ListenersKept'
<1>1. /\ store \in [Emitters -> [Types -> Seq(Rec)]]
      /\ kept \in [Objects -> [Types -> Seq(Rec)]] /\ e \in Objects
  BY InvParts DEF TypeOK, Objects
<1>2. /\ store' \in [Emitters -> [Types -> Seq(Rec)]]
      /\ kept' \in [Objects -> [Types -> Seq(Rec)]]
      /\ \A o \in Emitters, y \in Types : store'[o][y] = IF o = e /\ y = ty THEN s ELSE store[o][y]
      /\ \A o \in Objects, y \in Types : kept'[o][y] = IF o = e /\ y = ty THEN k ELSE kept[o][y]
  BY <1>1
<1>3. ASSUME ~Reentrant PROVE ListenersKept'
  <2> SUFFICES ASSUME NEW o \in Objects, NEW y \in Types
               PROVE  (IF o \in Emitters THEN NotOnce(store'[o][y])
                       ELSE NotOnce(OfType(list'[o], y))) = kept'[o][y]
    BY DEF ListenersKept, Registered
  <2>1. (IF o \in Emitters THEN NotOnce(store[o][y]) ELSE NotOnce(OfType(list[o], y))) = kept[o][y]
    BY <1>3, InvParts DEF ListenersKept, Registered
  <2>2. CASE o = e /\ y = ty
    BY <1>2, <1>3, <2>2
  <2>3. CASE ~(o = e /\ y = ty)
    BY <1>2, <2>1, <2>3
  <2> QED
    BY <2>2, <2>3
<1> QED
  BY <1>2, <1>3

LEMMA OnIInv ==
  ASSUME IInv, NEW e \in Emitters, NEW ty \in Types, NEW cb \in Callbacks,
         NEW once \in BOOLEAN, NEW first \in BOOLEAN, On(e, ty, cb, once, first)
  PROVE  IInv'
<1>0. Calls
  BY DEF On
<1>1. /\ UNCHANGED <<epoch, list, aborted, reason, made, timers, world, frames>>
      /\ err' \in BOOLEAN /\ ops' \in ops .. MaxOps /\ epoch' \in [Emitters -> Nat]
  <2>1. err \in BOOLEAN /\ epoch \in [Emitters -> Nat]
    BY InvParts DEF TypeOK
  <2> QED
    BY <2>1, CountType DEF On, Does, eeVars, etVars, sigVars
<1> DEFINE r == Record(ty, cb, once, FALSE)
           s == store[e][ty]
           k == kept[e][ty]
<1>2. r \in Rec /\ r.once = once
  <2>1. cb \in Callbacks \cup Signals /\ FALSE \in BOOLEAN
    OBVIOUS
  <2> QED
    BY <1>0, <2>1, CountType DEF Record, Rec
<1>3. s \in Seq(Rec) /\ k \in Seq(Rec) /\ (NotOnce(s) = k \/ Reentrant) /\ e \in Objects
  BY InvParts DEF TypeOK, ListenersKept, Registered, Objects
<1>4. /\ store' = [store EXCEPT ![e][ty] = Insert(s, r, first)]
      /\ kept' = IF once THEN kept ELSE [kept EXCEPT ![e][ty] = Insert(k, r, first)]
  BY DEF On
<1>5. kept \in [Objects -> [Types -> Seq(Rec)]]
  BY InvParts DEF TypeOK
<1>6. kept = [kept EXCEPT ![e][ty] = k]
  BY <1>3, <1>5
<1> HIDE DEF r, s, k
<1>7. /\ Insert(s, r, first) \in Seq(Rec) /\ Insert(k, r, first) \in Seq(Rec)
      /\ NotOnce(Insert(s, r, first))
           = IF once THEN NotOnce(s) ELSE Insert(NotOnce(s), r, first)
  BY <1>2, <1>3, LastingOf
<1>8. /\ store' \in [Emitters -> [Types -> Seq(Rec)]]
      /\ kept' \in [Objects -> [Types -> Seq(Rec)]]
      /\ ~Reentrant => ListenersKept'
  <2>1. CASE once
    BY <1>1, <1>3, <1>4, <1>6, <1>7, <2>1, OneStoreKept
  <2>2. CASE ~once
    BY <1>1, <1>3, <1>4, <1>7, <2>2, OneStoreKept
  <2> QED
    BY <2>1, <2>2
<1> QED
  BY <1>1, <1>8, InvParts, SameListsIInv

LEMMA OffIInv ==
  ASSUME IInv, NEW e \in Emitters, NEW ty \in Types, NEW cb \in Callbacks, Off(e, ty, cb)
  PROVE  IInv'
<1>0. Calls
  BY DEF Off
<1>1. /\ UNCHANGED <<epoch, list, aborted, reason, made, timers, world, frames>>
      /\ err' \in BOOLEAN /\ ops' \in ops .. MaxOps /\ epoch' \in [Emitters -> Nat]
  <2>1. err \in BOOLEAN /\ epoch \in [Emitters -> Nat]
    BY InvParts DEF TypeOK
  <2> QED
    BY <2>1, <1>0, CountType DEF Off, Does, eeVars, etVars, sigVars
<1> DEFINE s == store[e][ty]
           k == kept[e][ty]
<1>2. s \in Seq(Rec) /\ k \in Seq(Rec) /\ (NotOnce(s) = k \/ Reentrant)
  BY InvParts DEF TypeOK, ListenersKept, Registered, Objects
<1>3. PICK gone : /\ store' = [store EXCEPT ![e][ty] = Without(s, gone)]
                  /\ kept' = [kept EXCEPT ![e][ty] = Without(k, gone)]
  BY DEF Off
<1> HIDE DEF s, k
<1>4. /\ Without(s, gone) \in Seq(Rec) /\ Without(k, gone) \in Seq(Rec)
      /\ NotOnce(Without(s, gone)) = Without(NotOnce(s), gone)
  BY <1>2, LastingOf
<1>5. /\ store' \in [Emitters -> [Types -> Seq(Rec)]]
      /\ kept' \in [Objects -> [Types -> Seq(Rec)]]
      /\ ~Reentrant => ListenersKept'
  BY <1>1, <1>2, <1>3, <1>4, OneStoreKept
<1> QED
  BY <1>1, <1>5, InvParts, SameListsIInv

LEMMA RemoveAllIInv ==
  ASSUME IInv, NEW e \in Emitters, NEW tys \in SUBSET Types, RemoveAll(e, tys)
  PROVE  IInv'
<1>0. Calls
  BY DEF RemoveAll
<1>1. /\ UNCHANGED <<list, aborted, reason, made, timers, world, frames>>
      /\ err' \in BOOLEAN /\ ops' \in ops .. MaxOps /\ epoch' \in [Emitters -> Nat]
  <2>1. err \in BOOLEAN /\ epoch \in [Emitters -> Nat]
    BY InvParts DEF TypeOK
  <2> QED
    BY <2>1, <1>0, CountType DEF RemoveAll, Does, eeVars, etVars, sigVars
<1>2. /\ store \in [Emitters -> [Types -> Seq(Rec)]]
      /\ kept \in [Objects -> [Types -> Seq(Rec)]] /\ e \in Objects /\ <<>> \in Seq(Rec)
  BY InvParts, EmptySeq DEF TypeOK, Objects
<1>3. /\ store' \in [Emitters -> [Types -> Seq(Rec)]]
      /\ \A o \in Emitters, y \in Types :
           store'[o][y] = IF o = e /\ y \in tys THEN <<>> ELSE store[o][y]
  BY <1>2 DEF RemoveAll
<1>4. /\ kept' \in [Objects -> [Types -> Seq(Rec)]]
      /\ \A o \in Objects, y \in Types :
           kept'[o][y] = IF o = e /\ y \in tys THEN <<>> ELSE kept[o][y]
  BY <1>2 DEF RemoveAll
<1>5. ASSUME ~Reentrant PROVE ListenersKept'
  <2> SUFFICES ASSUME NEW o \in Objects, NEW y \in Types
               PROVE  (IF o \in Emitters THEN NotOnce(store'[o][y])
                       ELSE NotOnce(OfType(list'[o], y))) = kept'[o][y]
    BY DEF ListenersKept, Registered
  <2>1. (IF o \in Emitters THEN NotOnce(store[o][y]) ELSE NotOnce(OfType(list[o], y))) = kept[o][y]
    BY <1>5, InvParts DEF ListenersKept, Registered
  <2>2. CASE o = e /\ y \in tys
    BY <1>3, <1>4, <2>2, NoneLasts
  <2>3. CASE ~(o = e /\ y \in tys)
    BY <1>1, <1>3, <1>4, <2>1, <2>3
  <2> QED
    BY <2>2, <2>3
<1> QED
  BY <1>1, <1>3, <1>4, <1>5, InvParts, SameListsIInv

LEMMA EmitEndIInv ==
  ASSUME IInv, EmitEnd
  PROVE  IInv'
<1>1. /\ UNCHANGED <<epoch, list, aborted, reason, made, timers, world, kept>>
      /\ err' \in BOOLEAN /\ ops' \in ops .. MaxOps /\ epoch' \in [Emitters -> Nat]
  <2>1. err \in BOOLEAN /\ epoch \in [Emitters -> Nat] /\ ops \in ops .. MaxOps
    BY EventsAssumption, InvParts DEF TypeOK
  <2> QED
    BY <2>1 DEF EmitEnd, eeVars, etVars, sigVars
<1>2. /\ frames # <<>> /\ Top.kind = "emit" /\ frames' = Beneath
      /\ Top \in Frame /\ LawfulFrame(Top, world, aborted)
  BY TopFacts DEF EmitEnd
<1>3. Top.on \in Emitters /\ Top.type \in Types /\ Top.on \notin Signals
  BY <1>2, EventsAssumption, FrameIsRecord DEF LawfulFrame
<1>4. Sound(Beneath, world, aborted, list) /\ Announced(Beneath, aborted, list)
  BY <1>2, <1>3, InvParts, FramePopped DEF Beneath, Top
<1> DEFINE e == Top.on
           ty == Top.type
           s == store[e][ty]
           k == kept[e][ty]
<1>5. s \in Seq(Rec) /\ k \in Seq(Rec) /\ (NotOnce(s) = k \/ Reentrant)
  BY <1>3, InvParts DEF TypeOK, ListenersKept, Registered, Objects
<1>6. /\ store' = [store EXCEPT ![e][ty] = NotOnce(s)] \/ store' = store
      /\ e \in Emitters /\ ty \in Types
  BY <1>3 DEF EmitEnd
<1> HIDE DEF e, ty
<1>7. kept' = [kept EXCEPT ![e][ty] = k]
  <2>1. kept \in [Objects -> [Types -> Seq(Rec)]]
    BY InvParts DEF TypeOK
  <2> QED
    BY <1>1, <1>6, <2>1 DEF Objects
<1> HIDE DEF s, k
<1>8. NotOnce(s) \in Seq(Rec) /\ NotOnce(NotOnce(s)) = NotOnce(s)
  BY <1>5, LastingOf
<1>9. /\ store' \in [Emitters -> [Types -> Seq(Rec)]]
      /\ kept' \in [Objects -> [Types -> Seq(Rec)]]
      /\ ~Reentrant => ListenersKept'
  <2>1. CASE store' = [store EXCEPT ![e][ty] = NotOnce(s)]
    BY <1>1, <1>5, <1>6, <1>7, <1>8, <2>1, OneStoreKept
  <2>2. CASE store' = store
    BY <1>1, <2>2, InvParts DEF TypeOK, ListenersKept, Registered
  <2> QED
    BY <1>6, <2>1, <2>2
<1> QED
  BY <1>1, <1>2, <1>4, <1>9, SameListsIInv
----------------------------------------------------------------------------
(* EventTarget. *)

LEMMA RegisteredAs ==
  ASSUME NEW l \in Seq(Rec), NEW ty
  PROVE  NotOnce(OfType(l, ty)) = Picked(l, Typed(ty) \cap Lasting)
<1>1. OfType(l, ty) = Picked(l, Typed(ty)) /\ OfType(l, ty) \in Seq(Rec)
  BY PicksAre, PickedType
<1>2. NotOnce(OfType(l, ty)) = Picked(OfType(l, ty), Lasting)
  BY <1>1, PicksAre
<1>3. Picked(Picked(l, Typed(ty)), Lasting) = Picked(l, Typed(ty) \cap Lasting)
  BY PickedTwice
<1> QED
  BY <1>1, <1>2, <1>3

LEMMA RegisteredAppend ==
  ASSUME NEW l \in Seq(Rec), NEW r \in Rec, NEW ty
  PROVE  NotOnce(OfType(Append(l, r), ty))
           = IF r.type = ty /\ ~r.once THEN Append(NotOnce(OfType(l, ty)), r)
             ELSE NotOnce(OfType(l, ty))
<1> DEFINE R == Typed(ty) \cap Lasting
<1>1. r \in R <=> (r.type = ty /\ ~r.once)
  BY DEF Typed, Lasting
<1>2. Append(l, r) \in Seq(Rec)
  BY AppendProperties
<1>3. /\ NotOnce(OfType(Append(l, r), ty)) = Picked(Append(l, r), R)
      /\ NotOnce(OfType(l, ty)) = Picked(l, R)
  BY <1>2, RegisteredAs
<1>4. Picked(Append(l, r), R) = IF r \in R THEN Append(Picked(l, R), r) ELSE Picked(l, R)
  BY PickedAppend
<1> HIDE DEF R
<1> QED
  BY <1>1, <1>3, <1>4, Zenon

\* The post-pass of a dispatch drops no record that is registered for good.
LEMMA RegisteredStaying ==
  ASSUME NEW l \in Seq(Rec), NEW ty, NEW y
  PROVE  /\ Staying(l, y) \in Seq(Rec) /\ Range(Staying(l, y)) \subseteq Range(l)
         /\ NotOnce(OfType(Staying(l, y), ty)) = NotOnce(OfType(l, ty))
<1> DEFINE Q == Rec \ Leaving(y)
           R == Typed(ty) \cap Lasting
<1>1. Staying(l, y) = Picked(l, Q)
  BY PicksAre
<1>2. Staying(l, y) \in Seq(Rec) /\ Range(Staying(l, y)) \subseteq Range(l)
  BY <1>1, PickedType, PickedRange
<1>3. /\ NotOnce(OfType(Staying(l, y), ty)) = Picked(Picked(l, Q), R)
      /\ NotOnce(OfType(l, ty)) = Picked(l, R)
  BY <1>1, <1>2, RegisteredAs
<1>4. Picked(Picked(l, Q), R) = Picked(l, Q \cap R)
  BY PickedTwice
<1>5. Q \cap R = R
  BY DEF Leaving, Lasting, Typed
<1> QED
  BY <1>2, <1>3, <1>4, <1>5

\* Records of one type go.
AllOfType(l, ids, y) == \A r \in Range(l) : r.id \in ids => r.type = y
LEMMA RegisteredWithout ==
  ASSUME NEW l \in Seq(Rec), NEW ids, NEW ty, NEW y, AllOfType(l, ids, y)
  PROVE  /\ Without(l, ids) \in Seq(Rec) /\ Range(Without(l, ids)) \subseteq Range(l)
         /\ ty = y => NotOnce(OfType(Without(l, ids), ty)) = Without(NotOnce(OfType(l, ty)), ids)
         /\ ty # y => NotOnce(OfType(Without(l, ids), ty)) = NotOnce(OfType(l, ty))
<1> DEFINE Q == Other(ids)
           R == Typed(ty) \cap Lasting
           k == NotOnce(OfType(l, ty))
<1>1. Without(l, ids) = Picked(l, Q)
  BY PicksAre
<1>2. Without(l, ids) \in Seq(Rec) /\ Range(Without(l, ids)) \subseteq Range(l)
  BY <1>1, PickedType, PickedRange
<1>3. NotOnce(OfType(Without(l, ids), ty)) = Picked(l, Q \cap R) /\ k = Picked(l, R)
  <2>1. NotOnce(OfType(Without(l, ids), ty)) = Picked(Without(l, ids), R) /\ k = Picked(l, R)
    BY <1>2, RegisteredAs
  <2>2. Picked(Picked(l, Q), R) = Picked(l, Q \cap R)
    BY PickedTwice
  <2> QED
    BY <1>1, <2>1, <2>2
<1>4. k \in Seq(Rec)
  BY <1>3, PickedType
<1>5. Without(k, ids) = Picked(l, R \cap Q)
  BY <1>3, <1>4, PicksAre, PickedTwice
<1>6. R \cap Q = Q \cap R
  OBVIOUS
<1>7. CASE ty # y
  <2>1. \A i \in 1 .. Len(l) : l[i] \in Q \cap R <=> l[i] \in R
    <3> SUFFICES ASSUME NEW i \in 1 .. Len(l), l[i] \in R PROVE l[i] \in Q
      OBVIOUS
    <3>1. l[i] \in Range(l) /\ l[i] \in Rec /\ l[i].type = ty
      BY ElementsInRange DEF Typed
    <3> QED
      BY <1>7, <3>1 DEF Other, AllOfType
  <2>2. Picked(l, Q \cap R) = Picked(l, R)
    <3> HIDE DEF Q, R
    <3> QED
      BY <2>1, PickedSame
  <2> QED
    BY <1>2, <1>3, <1>7, <2>2
<1> QED
  BY <1>2, <1>3, <1>5, <1>6, <1>7

LEMMA AppendedRange ==
  ASSUME NEW S, NEW s \in Seq(S), NEW e \in S
  PROVE  Range(Append(s, e)) = Range(s) \cup {e}
<1> DEFINE t == Append(s, e)
           n == Len(s)
<1>1. /\ DOMAIN s = 1 .. n /\ DOMAIN t = 1 .. n + 1 /\ n \in Nat
      /\ \A i \in 1 .. n : t[i] = s[i]
      /\ t[n + 1] = e
  BY PushedType
<1> HIDE DEF t, n
<1>2. Range(t) = Range(s) \cup {e}
  BY <1>1 DEF Range
<1> QED
  BY <1>2 DEF t

\* A record put at the end of the lists of the targets of H.
AppendedTo(H, r) == [t \in Targets |-> IF t \in H THEN Append(list[t], r) ELSE list[t]]
KeptOf(H, r) == [o \in Objects |-> IF o \in H /\ ~r.once
                                   THEN [kept[o] EXCEPT ![r.type] = Append(@, r)] ELSE kept[o]]

LEMMA AppendedKept ==
  ASSUME IInv, Calls, NEW H \in SUBSET Targets, NEW r \in Rec, r.id = ops + 1,
         list' = AppendedTo(H, r), kept' = KeptOf(H, r), store' = store, Does
  PROVE  /\ list' \in [Targets -> Seq(Rec)]
         /\ kept' \in [Objects -> [Types -> Seq(Rec)]]
         /\ \A t \in Targets : /\ Extends(list[t], list'[t])
                               /\ list'[t] = IF t \in H THEN Append(list[t], r) ELSE list[t]
                               /\ Range(list'[t]) = Range(list[t]) \cup (IF t \in H THEN {r} ELSE {})
         /\ Sound(frames, world, aborted, list')
         /\ RecordsApart'
         /\ ~Reentrant => ListenersKept'
<1>1. /\ list \in [Targets -> Seq(Rec)] /\ kept \in [Objects -> [Types -> Seq(Rec)]]
      /\ r.type \in Types
  BY InvParts DEF TypeOK, Rec
<1>2. ASSUME NEW t \in Targets
      PROVE  /\ list[t] \in Seq(Rec) /\ Append(list[t], r) \in Seq(Rec)
             /\ Extends(list[t], Append(list[t], r)) /\ Extends(list[t], list[t])
             /\ Range(Append(list[t], r)) = Range(list[t]) \cup {r}
  <2> DEFINE l == list[t]
  <2>1. l \in Seq(Rec)
    BY <1>1
  <2> HIDE DEF l
  <2>2. /\ Append(l, r) \in Seq(Rec) /\ Len(Append(l, r)) = Len(l) + 1 /\ Len(l) \in Nat
        /\ \A i \in 1 .. Len(l) : Append(l, r)[i] = l[i]
    BY <2>1, PushedType
  <2>3. Range(Append(l, r)) = Range(l) \cup {r}
    BY <2>1, AppendedRange
  <2> QED
    BY <2>1, <2>2, <2>3 DEF l, Extends
<1>3. \A t \in Targets : list'[t] = IF t \in H THEN Append(list[t], r) ELSE list[t]
  BY DEF AppendedTo
<1>4. /\ list' \in [Targets -> Seq(Rec)]
      /\ \A t \in Targets : /\ Extends(list[t], list'[t])
                            /\ Range(list'[t]) = Range(list[t]) \cup (IF t \in H THEN {r} ELSE {})
  <2>1. list' = [t \in Targets |-> list'[t]]
    BY DEF AppendedTo
  <2> QED
    BY <1>2, <1>3, <2>1
<1>5. \A o \in Objects, y \in Types :
        kept'[o][y] = IF o \in H /\ y = r.type /\ ~r.once THEN Append(kept[o][y], r) ELSE kept[o][y]
  BY <1>1 DEF KeptOf
<1>6. kept' \in [Objects -> [Types -> Seq(Rec)]]
  <2>1. \A o \in Objects, y \in Types : Append(kept[o][y], r) \in Seq(Rec)
    BY <1>1, AppendProperties
  <2>2. \A o \in Objects : [kept[o] EXCEPT ![r.type] = Append(@, r)] \in [Types -> Seq(Rec)]
    BY <1>1, <2>1
  <2> QED
    BY <1>1, <2>2 DEF KeptOf
<1>7. Sound(frames, world, aborted, list')
  <2>1. \A i \in 1 .. Len(frames) : frames[i].on \in Single => frames[i].on \in Targets
    BY EventsAssumption DEF Single
  <2> QED
    BY <1>1, <1>4, <2>1, InvParts, SoundElsewhere
<1>8. RecordsApart'
  <2> SUFFICES ASSUME NEW t \in Targets
               PROVE  /\ \A q \in Range(list'[t]) : q.id <= ops'
                      /\ \A p, q \in Range(list'[t]) : p.id = q.id => p = q
    BY DEF RecordsApart
  <2>1. /\ \A q \in Range(list[t]) : q.id <= ops /\ q.id \in Nat
        /\ \A p, q \in Range(list[t]) : p.id = q.id => p = q
    <3>1. \A q \in Range(list[t]) : q.id \in Nat
      <4>1. Range(list[t]) \subseteq Rec
        BY <1>2, ElementsInRange
      <4> QED
        BY <4>1 DEF Rec
    <3> QED
      BY <3>1, InvParts DEF RecordsApart
  <2>2. Range(list'[t]) \subseteq Range(list[t]) \cup {r}
    BY <1>4
  <2>3. ops \in Nat /\ ops' = ops + 1
    BY CountType DEF Does
  <2> QED
    BY <2>1, <2>2, <2>3
<1>9. ASSUME ~Reentrant PROVE ListenersKept'
  <2> SUFFICES ASSUME NEW o \in Objects, NEW y \in Types
               PROVE  (IF o \in Emitters THEN NotOnce(store'[o][y])
                       ELSE NotOnce(OfType(list'[o], y))) = kept'[o][y]
    BY DEF ListenersKept, Registered
  <2>1. (IF o \in Emitters THEN NotOnce(store[o][y]) ELSE NotOnce(OfType(list[o], y))) = kept[o][y]
    BY <1>9, InvParts DEF ListenersKept, Registered
  <2>2. CASE o \in H
    <3>1. o \in Targets /\ o \notin Emitters
      BY <2>2, EventsAssumption
    <3>2. /\ NotOnce(OfType(Append(list[o], r), y))
               = IF r.type = y /\ ~r.once THEN Append(NotOnce(OfType(list[o], y)), r)
                 ELSE NotOnce(OfType(list[o], y))
      BY <1>2, <3>1, RegisteredAppend
    <3> QED
      BY <1>3, <1>5, <2>1, <2>2, <3>1, <3>2, ZenonT(40)
  <2>3. CASE o \notin H
    <3>1. kept'[o][y] = kept[o][y]
      BY <1>5, <2>3
    <3>2. o \notin Emitters => list'[o] = list[o]
      BY <1>3, <2>3 DEF Objects
    <3> QED
      BY <2>1, <3>1, <3>2, Zenon
  <2> QED
    BY <2>2, <2>3
<1> QED
  BY <1>3, <1>4, <1>6, <1>7, <1>8, <1>9

LEMMA AddListenerIInv ==
  ASSUME IInv, NEW t \in Targets, NEW ty \in Types, NEW cb \in Callbacks, NEW once \in BOOLEAN,
         AddListener(t, ty, cb, once, FALSE)
  PROVE  IInv'
<1> DEFINE r == Record(ty, cb, once, FALSE)
<1>0. Calls /\ Does
  BY DEF AddListener
<1>1. r \in Rec /\ r.id = ops + 1 /\ r.cb = cb /\ r.type = ty
  BY <1>0, CountType DEF Record, Rec
<1>2. list \in [Targets -> Seq(Rec)] /\ kept \in [Objects -> [Types -> Seq(Rec)]] /\ err \in BOOLEAN
  BY InvParts DEF TypeOK
<1>3. /\ UNCHANGED <<store, epoch, aborted, reason, made, timers, frames, err, world>>
      /\ list' = Added(list, t, r) /\ kept' = Keep(kept, t, r)
  BY DEF AddListener, eeVars, sigVars
<1> HIDE DEF r
<1>4. list' = AppendedTo({t}, r)
  BY <1>2, <1>3 DEF Added, AppendedTo
<1>5. kept' = KeptOf({t}, r)
  <2>1. \A o \in Objects : kept[o] \in [Types -> Seq(Rec)]
    BY <1>2
  <2>2. CASE r.once
    BY <1>2, <1>3, <2>2 DEF Keep, KeptOf
  <2>3. CASE ~r.once
    BY <1>2, <1>3, <2>3 DEF Keep, KeptOf, Objects
  <2> QED
    BY <2>2, <2>3
<1>6. /\ list' \in [Targets -> Seq(Rec)]
      /\ kept' \in [Objects -> [Types -> Seq(Rec)]]
      /\ \A s \in Targets :
           /\ list'[s] = IF s = t THEN Append(list[s], r) ELSE list[s]
           /\ Range(list'[s]) = Range(list[s]) \cup (IF s = t THEN {r} ELSE {})
      /\ Sound(frames, world, aborted, list')
      /\ RecordsApart'
      /\ ~Reentrant => ListenersKept'
  <2> DEFINE H == {t}
  <2>1. H \in SUBSET Targets /\ \A s : s \in H <=> s = t
    OBVIOUS
  <2>2. list' = AppendedTo(H, r) /\ kept' = KeptOf(H, r) /\ store' = store
    BY <1>3, <1>4, <1>5
  <2> HIDE DEF H
  <2>3. /\ list' \in [Targets -> Seq(Rec)]
        /\ kept' \in [Objects -> [Types -> Seq(Rec)]]
        /\ \A s \in Targets :
             /\ list'[s] = IF s \in H THEN Append(list[s], r) ELSE list[s]
             /\ Range(list'[s]) = Range(list[s]) \cup (IF s \in H THEN {r} ELSE {})
        /\ Sound(frames, world, aborted, list')
        /\ RecordsApart'
        /\ ~Reentrant => ListenersKept'
    BY <1>0, <1>1, <2>1, <2>2, AppendedKept
  <2> QED
    BY <2>1, <2>3
<1>7. TypeOK'
  BY <1>0, <1>3, <1>6, CountType, EventsAssumption, InvParts DEF TypeOK, Does
<1>8. cb \notin Signals
  BY EventsAssumption
<1>9. CompositesHear'
  <2>1. \A s \in Targets : \A q \in Range(list'[s]) : q.cb \in Signals => q \in Range(list[s])
    BY <1>1, <1>6, <1>8
  <2> QED
    BY <1>3, <2>1, InvParts DEF CompositesHear, Hears
<1>10. Announced(frames, aborted, list')
  <2> SUFFICES ASSUME NEW s \in Signals \cap Single, aborted[s], NEW k \in 1 .. Len(list'[s]),
                      list'[s][k].cb \in Signals
               PROVE  aborted[list'[s][k].cb] \/ ToBeTold(frames, s, k)
    BY DEF Announced
  <2>1. s \in Targets /\ list[s] \in Seq(Rec)
    BY <1>2, EventsAssumption
  <2> DEFINE l == list[s]
  <2>2. /\ Len(Append(l, r)) = Len(l) + 1 /\ Len(l) \in Nat /\ Append(l, r)[Len(l) + 1] = r
        /\ \A i \in 1 .. Len(l) : Append(l, r)[i] = l[i]
    BY <1>1, <2>1, PushedType
  <2>3. k \in 1 .. Len(l) /\ list'[s][k] = l[k]
    <3>1. CASE s # t
      BY <1>6, <2>1, <3>1
    <3>2. CASE s = t
      <4>1. list'[s] = Append(l, r)
        BY <1>6, <2>1, <3>2
      <4>2. k # Len(l) + 1
        BY <1>1, <1>8, <2>2, <4>1
      <4> QED
        BY <2>2, <4>1, <4>2
    <3> QED
      BY <3>1, <3>2
  <2> QED
    BY <2>3, InvParts DEF Announced
<1> QED
  BY <1>3, <1>6, <1>7, <1>9, <1>10, InvParts
  DEF IInv, ListsInv, SignalsInv, AbortedIsMade, TimersInWorld

\* Lists that lose records.
LEMMA RecordsKept ==
  ASSUME IInv, \A t \in Targets : Range(list'[t]) \subseteq Range(list[t]), ops' \in ops .. MaxOps
  PROVE  RecordsApart'
<1>1. \A t \in Targets : \A r \in Range(list[t]) : r.id \in Nat
  <2> SUFFICES ASSUME NEW t \in Targets, NEW r \in Range(list[t]) PROVE r.id \in Nat
    OBVIOUS
  <2>1. list[t] \in Seq(Rec)
    BY InvParts DEF TypeOK
  <2>2. r \in Rec
    BY <2>1, ElementsInRange
  <2> QED
    BY <2>2 DEF Rec
<1>2. ops \in Nat /\ ops' \in Nat /\ ops <= ops'
  BY EventsAssumption, InvParts DEF TypeOK
<1> QED
  BY <1>1, <1>2, InvParts DEF RecordsApart

LEMMA ShrunkKept ==
  ASSUME IInv, \A t \in Targets : Range(list'[t]) \subseteq Range(list[t]),
         ops' \in ops .. MaxOps, UNCHANGED <<aborted, reason, made, timers>>
  PROVE  RecordsApart' /\ CompositesHear'
<1>1. RecordsApart'
  BY RecordsKept
<1>2. CompositesHear'
  BY InvParts DEF CompositesHear, Hears
<1> QED
  BY <1>1, <1>2

LEMMA RemoveListenerIInv ==
  ASSUME IInv, NEW t \in Targets, NEW ty \in Types, NEW cb \in Callbacks,
         RemoveListener(t, ty, cb, FALSE)
  PROVE  IInv'
<1> DEFINE gone == {r.id : r \in {s \in Range(list[t]) :
                      s.type = ty /\ s.cb = cb /\ s.capture = FALSE}}
           l == list[t]
           m == Without(l, gone)
<1>0. Calls /\ Does /\ ops' \in ops .. MaxOps
  BY CountType DEF RemoveListener, Does
<1>1. /\ UNCHANGED <<store, epoch, aborted, reason, made, timers, err, world>>
      /\ list' = [list EXCEPT ![t] = m]
      /\ kept' = [kept EXCEPT ![t][ty] = Without(@, gone)]
      /\ frames' = Freed(frames, t)
      /\ ~Reentrant => ~BusyOn(t)
  BY DEF RemoveListener, eeVars, sigVars
<1>2. /\ list \in [Targets -> Seq(Rec)] /\ kept \in [Objects -> [Types -> Seq(Rec)]]
      /\ err \in BOOLEAN /\ l \in Seq(Rec) /\ t \in Objects
  BY InvParts DEF TypeOK, Objects
<1>3. AllOfType(l, gone, ty)
  BY InvParts DEF RecordsApart, AllOfType
<1> HIDE DEF gone
<1>4. /\ m \in Seq(Rec) /\ Range(m) \subseteq Range(l)
      /\ \A y : /\ y = ty => NotOnce(OfType(m, y)) = Without(NotOnce(OfType(l, y)), gone)
                /\ y # ty => NotOnce(OfType(m, y)) = NotOnce(OfType(l, y))
  <2> HIDE DEF l
  <2>1. l \in Seq(Rec) /\ AllOfType(l, gone, ty)
    BY <1>2, <1>3
  <2>2. Without(l, gone) \in Seq(Rec) /\ Range(Without(l, gone)) \subseteq Range(l)
    BY <2>1, RegisteredWithout
  <2>3. ASSUME NEW y
        PROVE  /\ y = ty => NotOnce(OfType(Without(l, gone), y)) = Without(NotOnce(OfType(l, y)), gone)
               /\ y # ty => NotOnce(OfType(Without(l, gone), y)) = NotOnce(OfType(l, y))
    BY <2>1, RegisteredWithout
  <2> QED
    BY <2>2, <2>3
<1> HIDE DEF m
<1>5. /\ list' \in [Targets -> Seq(Rec)]
      /\ \A s \in Targets : list'[s] = IF s = t THEN m ELSE list[s]
  BY <1>1, <1>2, <1>4
<1>6. RecordsApart' /\ CompositesHear'
  BY <1>0, <1>1, <1>4, <1>5, ShrunkKept
<1>7. /\ kept' \in [Objects -> [Types -> Seq(Rec)]]
      /\ \A o \in Objects, y \in Types :
           kept'[o][y] = IF o = t /\ y = ty THEN Without(kept[o][y], gone) ELSE kept[o][y]
  <2> DEFINE k == kept[t][ty]
             w == Without(k, gone)
  <2>1. k \in Seq(Rec)
    BY <1>2
  <2>2. w \in Seq(Rec)
    BY <2>1, PicksAre, PickedType
  <2>3. kept' = [kept EXCEPT ![t][ty] = w]
    BY <1>1
  <2>4. w = Without(kept[t][ty], gone)
    OBVIOUS
  <2> HIDE DEF w, k
  <2>5. /\ kept' \in [Objects -> [Types -> Seq(Rec)]]
        /\ \A o \in Objects, y \in Types :
             kept'[o][y] = IF o = t /\ y = ty THEN w ELSE kept[o][y]
    BY <1>2, <2>2, <2>3
  <2> QED
    BY <2>4, <2>5, Zenon
<1>8. ASSUME ~Reentrant PROVE ListenersKept'
  <2> SUFFICES ASSUME NEW o \in Objects, NEW y \in Types
               PROVE  (IF o \in Emitters THEN NotOnce(store'[o][y])
                       ELSE NotOnce(OfType(list'[o], y))) = kept'[o][y]
    BY DEF ListenersKept, Registered
  <2>1. (IF o \in Emitters THEN NotOnce(store[o][y]) ELSE NotOnce(OfType(list[o], y))) = kept[o][y]
    BY <1>8, InvParts DEF ListenersKept, Registered
  <2>2. CASE o = t
    <3>1. o \notin Emitters /\ list'[o] = m
      BY <1>5, <2>2, EventsAssumption
    <3>2. NotOnce(OfType(l, y)) = kept[o][y]
      BY <2>1, <2>2, <3>1
    <3>3. CASE y = ty
      <4>1. kept'[o][y] = Without(kept[o][y], gone)
        BY <1>7, <2>2, <3>3
      <4>2. NotOnce(OfType(m, ty)) = Without(NotOnce(OfType(l, ty)), gone)
        BY <1>4
      <4>3. NotOnce(OfType(m, y)) = kept'[o][y]
        BY <3>2, <3>3, <4>1, <4>2
      <4> QED
        BY <3>1, <4>3
    <3>4. CASE y # ty
      BY <1>4, <1>7, <2>2, <3>1, <3>2, <3>4
    <3> QED
      BY <3>3, <3>4
  <2>3. CASE o # t
    <3>1. kept'[o][y] = kept[o][y] /\ (o \notin Emitters => list'[o] = list[o])
      BY <1>5, <1>7, <2>3 DEF Objects
    <3> QED
      BY <1>1, <2>1, <3>1, Zenon
  <2> QED
    BY <2>2, <2>3
<1>9. Sound(frames, world, aborted, list)
  BY InvParts
<1>10. t \in Single => \A i \in 1 .. Len(frames) : frames[i].on # t
  <2>1. DOMAIN frames = 1 .. Len(frames)
    BY <1>9, LenProperties DEF Sound
  <2> QED
    BY <1>1, <2>1 DEF BusyOn, Single
<1>11. Sound(frames, world, aborted, list')
  <2>1. \A i \in 1 .. Len(frames) : frames[i].on \in Single =>
          frames[i].on \in Targets /\ frames[i].on # t
    BY <1>10, EventsAssumption DEF Single
  <2>2. \A s \in Targets : Extends(list[s], list[s])
    <3>1. \A s \in Targets : Len(list[s]) \in Nat
      BY <1>2, LenProperties
    <3> QED
      BY <3>1 DEF Extends
  <2>3. \A i \in 1 .. Len(frames) : frames[i].on \in Single =>
          Extends(list[frames[i].on], list'[frames[i].on])
    BY <1>5, <2>1, <2>2
  <2> QED
    BY <1>2, <1>5, <1>9, <2>3, SoundElsewhere
<1>12. /\ Sound(frames', world, aborted, list')
       /\ Len(frames') = Len(frames)
       /\ \A i \in 1 .. Len(frames) :
            /\ frames'[i].on = frames[i].on /\ frames'[i].phase = frames[i].phase
            /\ frames'[i].i = frames[i].i /\ frames'[i].n = frames[i].n
  <2>1. Sound(frames', world, aborted, list')
    BY <1>1, <1>10, <1>11, FreedSound
  <2>2. frames \in Seq(Frame)
    BY <1>9 DEF Sound
  <2> QED
    BY <1>1, <2>1, <2>2, FreedSame
<1>13. Announced(frames', aborted, list')
  <2>1. Announced(frames', aborted, list)
    BY <1>12, InvParts, AnnouncedKept
  <2> SUFFICES ASSUME NEW s \in Signals \cap Single, aborted[s], NEW k \in 1 .. Len(list'[s]),
                      list'[s][k].cb \in Signals
               PROVE  aborted[list'[s][k].cb] \/ ToBeTold(frames', s, k)
    BY DEF Announced
  <2>2. CASE s # t
    <3>1. list'[s] = list[s]
      BY <1>5, <2>2, EventsAssumption
    <3> QED
      BY <2>1, <3>1 DEF Announced
  <2>3. CASE s = t
    <3>1. list'[s] = m /\ m \in Seq(Rec) /\ Range(m) \subseteq Range(l) /\ l \in Seq(Rec)
      BY <1>2, <1>4, <1>5, <2>3
    <3>2. list'[s][k] \in Range(l)
      BY <3>1, ElementsInRange
    <3>3. PICK j \in 1 .. Len(l) : l[j] = list'[s][k]
      BY <3>1, <3>2, ElementsInRange
    <3>4. aborted[l[j].cb] \/ ToBeTold(frames, t, j)
      BY <2>3, <3>3, InvParts DEF Announced
    <3>5. ~ToBeTold(frames, t, j)
      BY <1>10, <2>3 DEF ToBeTold
    <3> QED
      BY <3>3, <3>4, <3>5
  <2> QED
    BY <2>2, <2>3
<1>14. TypeOK'
  BY <1>0, <1>1, <1>5, <1>7, <1>12, EventsAssumption, InvParts DEF TypeOK, Sound
<1> QED
  BY <1>1, <1>6, <1>8, <1>12, <1>13, <1>14, InvParts
  DEF IInv, ListsInv, SignalsInv, AbortedIsMade, TimersInWorld

\* Its own dispatch has told every composite of a signal when it is through.
LEMMA ThroughIsTold ==
  ASSUME IInv, DispatchEnd, Top.on \in Signals \cap Single, NEW r \in Range(list[Top.on]), r.cb \in Signals
  PROVE  aborted[r.cb]
<1>1. /\ frames # <<>> /\ Top = frames[Len(frames)] /\ LawfulFrame(Top, world, aborted)
      /\ Top.i = Top.n \/ Top.stop
      /\ frames \in Seq(Frame) /\ Len(frames) \in 1 .. Len(frames) /\ Top \in Frame
  BY TopFacts DEF DispatchEnd
<1>2. aborted[Top.on] /\ Top.i = Top.n /\ Top.on \in Targets
  BY <1>1, EventsAssumption DEF LawfulFrame, Single
<1>3. list[Top.on] \in Seq(Rec)
  BY <1>2, InvParts DEF TypeOK
<1>4. PICK k \in 1 .. Len(list[Top.on]) : list[Top.on][k] = r
  BY <1>3, ElementsInRange
<1>5. aborted[r.cb] \/ ToBeTold(frames, Top.on, k)
  BY <1>2, <1>4, InvParts DEF Announced
<1>6. ~ToBeTold(frames, Top.on, k)
  <2> SUFFICES ASSUME NEW i \in 1 .. Len(frames), frames[i].on = Top.on,
                      frames[i].i < k, k <= frames[i].n
               PROVE  FALSE
    BY DEF ToBeTold
  <2>1. i = Len(frames)
    BY <1>1, <1>2, InvParts DEF Sound
  <2>2. Top.i \in Nat /\ Top.n \in Nat /\ k \in Nat
    BY <1>1, FrameIsRecord
  <2> QED
    BY <1>1, <1>2, <2>1, <2>2
<1> QED
  BY <1>5, <1>6

LEMMA DispatchEndIInv ==
  ASSUME IInv, DispatchEnd
  PROVE  IInv'
<1> DEFINE t == Top.on
           l == list[t]
           m == IF Top.stale THEN <<>> ELSE Staying(l, Top.type)
           f == [Top EXCEPT !.phase = "handler"]
           F == SubSeq(frames, 1, Len(frames) - 1)
           n == Len(frames)
<1>1. /\ frames # <<>> /\ Top \in Frame /\ Top = frames[n] /\ LawfulFrame(Top, world, aborted)
      /\ Account(Top, list) /\ Top.kind = "dispatch" /\ Top.phase = "list"
      /\ Top.i = Top.n \/ Top.stop
      /\ frames \in Seq(Frame) /\ n \in Nat \ {0} /\ n \in 1 .. n
  BY TopFacts DEF DispatchEnd
<1>2. /\ UNCHANGED <<store, epoch, aborted, reason, made, timers, err, world, ops, kept>>
      /\ list' = [list EXCEPT ![t] = m]
      /\ frames' = Append(Freed(F, t), f)
  BY DEF DispatchEnd, eeVars, sigVars, Beneath
<1>3. /\ list \in [Targets -> Seq(Rec)] /\ err \in BOOLEAN /\ ops' \in ops .. MaxOps /\ ops \in Nat
      /\ Sound(frames, world, aborted, list)
  BY <1>2, EventsAssumption, InvParts DEF TypeOK
<1>4. t \in Targets /\ l \in Seq(Rec) /\ (t \in Single => ~Top.stale)
  BY <1>1, <1>3 DEF LawfulFrame
<1>5. /\ m \in Seq(Rec) /\ Range(m) \subseteq Range(l)
      /\ t \in Single => \A y : NotOnce(OfType(m, y)) = NotOnce(OfType(l, y))
  <2>1. <<>> \in Seq(Rec) /\ Range(<<>>) = {}
    BY EmptySeq DEF Range
  <2> QED
    BY <1>4, <2>1, RegisteredStaying
<1>6. f \in Frame /\ SameFrame(Top, f) /\ f.stop = Top.stop /\ f.phase = "handler" /\ f.cut = Top.cut
  BY <1>1 DEF Frame, SameFrame
<1> HIDE DEF m, f
<1>7. /\ list' \in [Targets -> Seq(Rec)]
      /\ \A s \in Targets : list'[s] = IF s = t THEN m ELSE list[s]
  BY <1>2, <1>3, <1>5
<1>8. RecordsApart' /\ CompositesHear'
  BY <1>2, <1>3, <1>5, <1>7, ShrunkKept
<1>9. ASSUME ~Reentrant PROVE ListenersKept'
  <2> SUFFICES ASSUME NEW o \in Objects, NEW y \in Types
               PROVE  (IF o \in Emitters THEN NotOnce(store'[o][y])
                       ELSE NotOnce(OfType(list'[o], y))) = kept'[o][y]
    BY DEF ListenersKept, Registered
  <2>1. (IF o \in Emitters THEN NotOnce(store[o][y]) ELSE NotOnce(OfType(list[o], y))) = kept[o][y]
    BY <1>9, InvParts DEF ListenersKept, Registered
  <2>2. o \notin Emitters => NotOnce(OfType(list'[o], y)) = NotOnce(OfType(list[o], y))
    <3>1. CASE o = t
      BY <1>4, <1>5, <1>7, <1>9, <3>1 DEF Single
    <3>2. CASE o # t /\ o \notin Emitters
      BY <1>7, <3>2 DEF Objects
    <3> QED
      BY <3>1, <3>2
  <2> QED
    BY <1>2, <2>1, <2>2, Zenon
<1>10. /\ Sound(F, world, aborted, list) /\ Len(F) = n - 1 /\ F \in Seq(Frame)
       /\ \A i \in 1 .. n - 1 : F[i] = frames[i]
  BY <1>1, <1>3, SoundBeneath, TopType
<1> HIDE DEF F
<1>11. \A i \in 1 .. Len(F) : F[i].on \in Single => F[i].on # t
  <2> SUFFICES ASSUME NEW i \in 1 .. Len(F), F[i].on \in Single, F[i].on = t PROVE FALSE
    OBVIOUS
  <2>1. i \in 1 .. n /\ i # n /\ frames[i].on = t /\ frames[n].on = t
    BY <1>1, <1>10
  <2> QED
    BY <1>1, <1>3, <2>1 DEF Sound
<1>12. Sound(F, world, aborted, list')
  <2>1. \A s \in Targets : Extends(list[s], list[s])
    <3>1. \A s \in Targets : Len(list[s]) \in Nat
      BY <1>3, LenProperties
    <3> QED
      BY <3>1 DEF Extends
  <2>2. \A i \in 1 .. Len(F) : F[i].on \in Single => Extends(list[F[i].on], list'[F[i].on])
    BY <1>7, <1>11, <2>1, EventsAssumption DEF Single
  <2> QED
    BY <1>3, <1>7, <1>10, <2>2, SoundElsewhere
<1> DEFINE G == Freed(F, t)
<1>13. /\ Sound(G, world, aborted, list') /\ Len(G) = Len(F)
       /\ \A i \in 1 .. Len(F) :
            /\ G[i].on = F[i].on /\ G[i].phase = F[i].phase
            /\ G[i].i = F[i].i /\ G[i].n = F[i].n
  <2>1. t \in Single => \A i \in 1 .. Len(F) : F[i].on # t
    BY <1>11
  <2>2. Sound(G, world, aborted, list')
    BY <1>12, <2>1, FreedSound
  <2>3. Len(G) = Len(F)
    BY <1>10, FreedSame
  <2>4. ASSUME NEW i \in 1 .. Len(F)
        PROVE  /\ G[i].on = F[i].on /\ G[i].phase = F[i].phase
               /\ G[i].i = F[i].i /\ G[i].n = F[i].n
    BY <1>10, FreedSame
  <2> QED
    BY <2>2, <2>3, <2>4
<1>14. LawfulFrame(f, world, aborted) /\ Account(f, list')
  <2>1. LawfulFrame(f, world, aborted)
    BY <1>1, <1>6 DEF LawfulFrame, SameFrame
  <2>2. ASSUME f.on \in Single, ~f.cut PROVE f.called = f.owed
    <3>1. ~Top.stop /\ HasCalled(Top, list[t]) /\ WillCall(Top, list[t])
      BY <1>1, <1>6, <2>2 DEF Account, DispatchAccount, SameFrame
    <3> QED
      BY <1>1, <1>6, <3>1 DEF HasCalled, WillCall, SameFrame
  <2> QED
    BY <1>1, <1>6, <2>1, <2>2 DEF Account, InList, DispatchAccount, SameFrame
<1> HIDE DEF G
<1>15. Sound(frames', world, aborted, list')
  <2>1. f.on \in Single => \A i \in 1 .. Len(G) : G[i].on # f.on
    BY <1>6, <1>11, <1>13 DEF SameFrame
  <2> QED
    BY <1>2, <1>6, <1>13, <1>14, <2>1, SoundPush DEF G
<1>16. Announced(frames', aborted, list')
  <2> SUFFICES ASSUME NEW s \in Signals \cap Single, aborted[s], NEW k \in 1 .. Len(list'[s]),
                      list'[s][k].cb \in Signals
               PROVE  aborted[list'[s][k].cb] \/ ToBeTold(frames', s, k)
    BY DEF Announced
  <2>0. s \in Targets
    BY EventsAssumption
  <2>1. CASE s = t
    <3>1. list'[s] \in Seq(Rec) /\ list'[s] = m
      BY <1>7, <2>0, <2>1
    <3>2. list'[s][k] \in Range(m)
      BY <3>1, ElementsInRange
    <3>3. list'[s][k] \in Range(list[t])
      BY <1>5, <3>2
    <3> QED
      BY <2>1, <3>3, ThroughIsTold
  <2>2. CASE s # t
    <3>1. list'[s] = list[s]
      BY <1>7, <2>0, <2>2
    <3>2. aborted[list'[s][k].cb] \/ ToBeTold(frames, s, k)
      BY <3>1, InvParts DEF Announced
    <3>3. ASSUME ToBeTold(frames, s, k) PROVE ToBeTold(frames', s, k)
      <4>1. PICK i \in 1 .. n : /\ frames[i].on = s /\ frames[i].phase = "list"
                                /\ frames[i].i < k /\ k <= frames[i].n
        BY <3>3 DEF ToBeTold
      <4>2. i \in 1 .. Len(F)
        <5>1. i # n
          BY <1>1, <2>2, <4>1
        <5> QED
          BY <1>1, <1>10, <5>1
      <4>3. Len(Append(G, f)) = Len(G) + 1 /\ Append(G, f)[i] = G[i] /\ Len(G) \in Nat
        <5>1. G \in Seq(Frame) /\ i \in 1 .. Len(G)
          BY <1>13, <4>2 DEF Sound
        <5> QED
          BY <1>6, <5>1, PushedType
      <4>4. i \in 1 .. Len(frames') /\ frames'[i] = G[i]
        BY <1>2, <1>13, <4>2, <4>3 DEF G
      <4>5. G[i].on = s /\ G[i].phase = "list" /\ G[i].i = frames[i].i /\ G[i].n = frames[i].n
        BY <1>10, <1>13, <4>1, <4>2
      <4> QED
        BY <4>1, <4>4, <4>5 DEF ToBeTold
    <3> QED
      BY <3>2, <3>3
  <2> QED
    BY <2>1, <2>2
<1>17. TypeOK'
  BY <1>2, <1>3, <1>7, <1>15, EventsAssumption, InvParts DEF TypeOK, Sound
<1> QED
  BY <1>2, <1>8, <1>9, <1>15, <1>16, <1>17, InvParts
  DEF IInv, ListsInv, SignalsInv, AbortedIsMade, TimersInWorld

----------------------------------------------------------------------------
(* AbortSignal. *)

\* An abort over the frames F, which still tell what the frames did, but for the
\* signal that is aborted.
LEMMA AbortKept ==
  ASSUME IInv, NEW s \in Signals, NEW r \in Reasons \cup {TimeoutError, NoReason}, NEW F,
         DoAbort(s, r, F), list' = list, world' = world, world = "signals",
         made \subseteq made', s \in made', timers' \subseteq timers,
         Sound(F, world, aborted, list),
         \A x \in Signals : \A k \in 1 .. Len(list[x]) :
           ToBeTold(frames, x, k) => ToBeTold(F, x, k) \/ list[x][k].cb = s,
         aborted[s] \/ \A t \in Targets : \A q \in Range(list[t]) :
           q.cb = s => \E p \in Signals : p # s /\ aborted[p] /\ reason[p] = r
  PROVE  /\ aborted' \in [Signals -> BOOLEAN]
         /\ reason' \in [Signals -> Reasons \cup {TimeoutError, NoReason}]
         /\ Sound(frames', world, aborted', list) /\ Announced(frames', aborted', list)
         /\ AbortedIsMade' /\ TimersInWorld' /\ CompositesHear'
<1>1. /\ aborted \in [Signals -> BOOLEAN]
      /\ reason \in [Signals -> Reasons \cup {TimeoutError, NoReason}]
      /\ list \in [Targets -> Seq(Rec)]
  BY InvParts DEF TypeOK
<1>2. TimersInWorld'
  BY DEF TimersInWorld
<1>3. CASE aborted[s]
  <2>1. frames' = F /\ aborted' = aborted /\ reason' = reason
    BY <1>3 DEF DoAbort
  <2>2. AbortedIsMade'
    BY <2>1, InvParts DEF AbortedIsMade
  <2>3. CompositesHear'
    <3> SUFFICES ASSUME NEW t \in Targets, NEW q \in Range(list[t]), q.cb \in Signals
                 PROVE  Hears(t, q)'
      BY DEF CompositesHear
    <3>1. Hears(t, q)
      BY InvParts DEF CompositesHear
    <3> QED
      BY <2>1, <3>1 DEF Hears
  <2>4. Announced(F, aborted, list)
    BY <1>3, InvParts DEF Announced
  <2> QED
    BY <1>1, <1>2, <2>1, <2>2, <2>3, <2>4
<1>4. CASE ~aborted[s]
  <2> DEFINE f == Dispatch(s, AbortType)
             A == aborted'
  <2>1. /\ frames' = Append(F, f)
        /\ aborted' = [aborted EXCEPT ![s] = TRUE]
        /\ reason' = [reason EXCEPT ![s] = r]
    BY <1>4 DEF DoAbort
  <2>2. /\ A \in [Signals -> BOOLEAN]
        /\ reason' \in [Signals -> Reasons \cup {TimeoutError, NoReason}]
        /\ A[s] /\ reason'[s] = r
        /\ \A x \in Signals : x # s => A[x] = aborted[x] /\ reason'[x] = reason[x]
    BY <1>1, <2>1
  <2>3. \A x \in Signals : aborted[x] => A[x] /\ x # s /\ reason'[x] = reason[x]
    BY <1>4, <2>2
  <2>4. /\ f \in Frame /\ f.on = s /\ f.kind = "dispatch" /\ f.type = AbortType /\ ~f.stale /\ ~f.stop
        /\ f.phase = "list" /\ f.i = 0 /\ f.n = Len(list[s])
        /\ Account(f, list)
    <3>1. s \in Targets /\ AbortType \in Types
      BY EventsAssumption
    <3> QED
      BY <3>1, NewDispatch
  <2> HIDE DEF f, A
  <2>5. Sound(F, world, A, list)
    <3>1. \A x \in Targets : Extends(list[x], list[x])
      <4>1. \A x \in Targets : Len(list[x]) \in Nat
        BY <1>1, LenProperties
      <4> QED
        BY <4>1 DEF Extends
    <3>2. \A i \in 1 .. Len(F) : F[i].on \in Single => Extends(list[F[i].on], list[F[i].on])
      BY <3>1, EventsAssumption DEF Single
    <3>3. \A x \in Signals : aborted[x] => A[x]
      BY <2>3
    <3> QED
      BY <1>1, <3>2, <3>3, SoundElsewhere
  <2>6. F \in Seq(Frame) /\ \A i \in 1 .. Len(F) : F[i].on # s
    BY <1>4 DEF Sound, LawfulFrame
  <2>7. LawfulFrame(f, world, A)
    BY <2>2, <2>4, EventsAssumption DEF LawfulFrame
  <2>8. Sound(Append(F, f), world, A, list)
    BY <2>4, <2>5, <2>6, <2>7, SoundPush
  <2>9. AbortedIsMade'
    <3> SUFFICES ASSUME NEW x \in Signals, A[x] PROVE x \in made'
      BY DEF AbortedIsMade, A
    <3> QED
      BY <2>2, InvParts DEF AbortedIsMade
  <2>10. CompositesHear'
    <3> SUFFICES ASSUME NEW t \in Targets, NEW q \in Range(list[t]), q.cb \in Signals
                 PROVE  Hears(t, q)'
      BY DEF CompositesHear
    <3>1. Hears(t, q)
      BY InvParts DEF CompositesHear
    <3>2. ASSUME A[q.cb]
          PROVE  \E p \in Signals : p # q.cb /\ A[p] /\ reason'[p] = reason'[q.cb]
      <4>1. CASE q.cb = s
        <5>1. PICK p \in Signals : p # s /\ aborted[p] /\ reason[p] = r
          BY <1>4, <4>1
        <5> QED
          BY <2>2, <2>3, <4>1, <5>1
      <4>2. CASE q.cb # s
        <5>1. aborted[q.cb] /\ reason'[q.cb] = reason[q.cb]
          BY <2>2, <3>2, <4>2
        <5>2. PICK p \in Signals : p # q.cb /\ aborted[p] /\ reason[p] = reason[q.cb]
          BY <3>1, <5>1 DEF Hears
        <5> QED
          BY <2>3, <5>1, <5>2
      <4> QED
        BY <4>1, <4>2
    <3> QED
      BY <3>1, <3>2 DEF Hears, A
  <2>11. Announced(Append(F, f), A, list)
    <3> SUFFICES ASSUME NEW x \in Signals \cap Single, A[x], NEW k \in 1 .. Len(list[x]),
                        list[x][k].cb \in Signals
                 PROVE  A[list[x][k].cb] \/ ToBeTold(Append(F, f), x, k)
      BY DEF Announced
    <3> DEFINE G == Append(F, f)
               n == Len(F)
    <3>1. n \in Nat /\ Len(G) = n + 1 /\ G[n + 1] = f /\ \A i \in 1 .. n : G[i] = F[i]
      BY <2>4, <2>6, PushedType
    <3> HIDE DEF G
    <3>2. CASE x = s
      <4>1. n + 1 \in 1 .. Len(G) /\ G[n + 1].i < k /\ k <= G[n + 1].n
        BY <2>4, <3>1, <3>2
      <4>2. ToBeTold(G, x, k)
        BY <2>4, <3>1, <3>2, <4>1 DEF ToBeTold
      <4> QED
        BY <4>2 DEF G
    <3>3. CASE x # s
      <4>1. aborted[x]
        BY <2>2, <3>3
      <4>2. aborted[list[x][k].cb] \/ ToBeTold(F, x, k) \/ list[x][k].cb = s
        BY <4>1, InvParts DEF Announced
      <4>3. ToBeTold(F, x, k) => ToBeTold(G, x, k)
        BY <3>1 DEF ToBeTold, n
      <4> QED
        BY <2>2, <2>3, <4>2, <4>3 DEF G
    <3> QED
      BY <3>2, <3>3
  <2> QED
    BY <1>2, <2>1, <2>2, <2>8, <2>9, <2>10, <2>11 DEF A, f
<1> QED
  BY <1>3, <1>4

LEMMA AbortIInv ==
  ASSUME IInv, NEW s \in Signals, NEW r \in Reasons \cup {TimeoutError, NoReason}, NEW F,
         DoAbort(s, r, F), UNCHANGED <<store, epoch, list, world, kept, err>>,
         ops' \in ops .. MaxOps, world = "signals",
         made' \in SUBSET Signals, made \subseteq made', s \in made', timers' \subseteq timers,
         Sound(F, world, aborted, list),
         \A x \in Signals : \A k \in 1 .. Len(list[x]) :
           ToBeTold(frames, x, k) => ToBeTold(F, x, k) \/ list[x][k].cb = s,
         aborted[s] \/ \A t \in Targets : \A q \in Range(list[t]) :
           q.cb = s => \E p \in Signals : p # s /\ aborted[p] /\ reason[p] = r
  PROVE  IInv'
<1>1. /\ aborted' \in [Signals -> BOOLEAN]
      /\ reason' \in [Signals -> Reasons \cup {TimeoutError, NoReason}]
      /\ Sound(frames', world, aborted', list) /\ Announced(frames', aborted', list)
      /\ AbortedIsMade' /\ TimersInWorld' /\ CompositesHear'
  BY AbortKept
<1>2. RecordsApart'
  BY RecordsKept
<1>3. TypeOK'
  BY <1>1, EventsAssumption, InvParts DEF TypeOK, Sound
<1>4. ~Reentrant => ListenersKept'
  BY InvParts DEF ListenersKept, Registered
<1> QED
  BY <1>1, <1>2, <1>3, <1>4 DEF IInv, ListsInv, SignalsInv

\* Script aborts, or makes an aborted signal; a timer fires.
LEMMA AbortsIInv ==
  ASSUME IInv,
         \/ world = "signals" /\ \E s \in Controlled, r \in Reasons : Abort(s, r)
         \/ world = "signals" /\ \E s \in Signals, r \in Reasons : Aborted(s, r)
         \/ \E s \in Signals : TimerFires(s)
  PROVE  IInv'
<1>1. /\ Sound(frames, world, aborted, list) /\ made \subseteq Signals /\ timers \subseteq made
      /\ Controlled \subseteq made /\ ops \in ops .. MaxOps
      /\ \A t \in Targets : \A q \in Range(list[t]) :
           q.cb \in Signals => q.cb \in made \ (Controlled \cup timers)
  <2>1. \A t \in Targets : \A q \in Range(list[t]) :
           q.cb \in Signals => q.cb \in made \ (Controlled \cup timers)
    BY InvParts DEF CompositesHear, Hears
  <2> QED
    BY <2>1, EventsAssumption, InvParts DEF TypeOK
<1>2. ASSUME NEW s \in Controlled, NEW r \in Reasons, Abort(s, r), world = "signals" PROVE IInv'
  <2>1. /\ DoAbort(s, r, frames) /\ Calls
        /\ UNCHANGED <<store, epoch, list, world, kept, err, made, timers>> /\ ops' = ops + 1
    BY <1>2 DEF Abort, Does, eeVars, etVars
  <2>2. ops' \in ops .. MaxOps /\ s \in Signals /\ s \in made
    BY <1>1, <2>1, CountType
  <2> QED
    BY <1>1, <1>2, <2>1, <2>2, AbortIInv
<1>3. ASSUME NEW s \in Signals, NEW r \in Reasons, Aborted(s, r), world = "signals" PROVE IInv'
  <2>1. /\ DoAbort(s, r, frames) /\ Calls /\ s \notin made /\ made' = made \cup {s}
        /\ UNCHANGED <<store, epoch, list, world, kept, err, timers>> /\ ops' = ops + 1
    BY <1>3 DEF Aborted, Does, eeVars, etVars
  <2>2. ops' \in ops .. MaxOps
    BY <2>1, CountType
  <2> QED
    BY <1>1, <1>3, <2>1, <2>2, AbortIInv
<1>4. ASSUME NEW s \in Signals, TimerFires(s) PROVE IInv'
  <2>1. /\ DoAbort(s, TimeoutError, frames) /\ s \in timers /\ timers' = timers \ {s}
        /\ UNCHANGED <<store, epoch, list, world, kept, err, made, ops>>
    BY <1>4 DEF TimerFires, eeVars, etVars
  <2>2. world = "signals" /\ s \in made
    BY <1>1, <2>1, InvParts DEF TimersInWorld
  <2> QED
    BY <1>1, <2>1, <2>2, AbortIInv
<1> QED
  BY <1>2, <1>3, <1>4

LEMMA TimeoutIInv ==
  ASSUME IInv, NEW s \in Signals, Timeout(s), world = "signals"
  PROVE  IInv'
<1>1. /\ Calls /\ s \notin made /\ made' = made \cup {s} /\ timers' = timers \cup {s}
      /\ UNCHANGED <<store, epoch, list, aborted, reason, world, kept, err, frames>>
      /\ ops' = ops + 1
  BY DEF Timeout, Does, eeVars, etVars
<1>2. ops' \in ops .. MaxOps
  BY <1>1, CountType
<1>3. RecordsApart'
  BY <1>1, <1>2, RecordsKept
<1>4. TypeOK'
  BY <1>1, <1>2, EventsAssumption, InvParts DEF TypeOK
<1>5. ~Reentrant => ListenersKept'
  BY <1>1, InvParts DEF ListenersKept, Registered
<1>6. AbortedIsMade' /\ TimersInWorld'
  BY <1>1, InvParts DEF AbortedIsMade, TimersInWorld
<1>7. CompositesHear'
  <2> SUFFICES ASSUME NEW t \in Targets, NEW q \in Range(list[t]), q.cb \in Signals
               PROVE  Hears(t, q)'
    BY <1>1 DEF CompositesHear
  <2>1. Hears(t, q)
    BY InvParts DEF CompositesHear
  <2> QED
    BY <1>1, <2>1 DEF Hears
<1> QED
  BY <1>1, <1>3, <1>4, <1>5, <1>6, <1>7, InvParts DEF IInv, ListsInv, SignalsInv

LEMMA Least ==
  ASSUME NEW X \in SUBSET Nat, X # {}
  PROVE  \E i \in X : \A j \in X : i <= j
<1>1. \E i \in X : \A j \in X : <<j, i>> \notin OpToRel(<, Nat)
  BY NatLessThanWellFounded, WFMin
<1>2. PICK i \in X : \A j \in X : <<j, i>> \notin OpToRel(<, Nat)
  BY <1>1
<1>3. \A j \in X : ~ (j < i)
  BY <1>2 DEF OpToRel
<1> QED
  BY <1>3

LEMMA AnyOfIInv ==
  ASSUME IInv, NEW c \in Signals, NEW signals \in Composites(c), AnyOf(c, signals),
         world = "signals"
  PROVE  IInv'
<1> DEFINE at == {i \in DOMAIN signals : aborted[signals[i]]}
           first == CHOOSE i \in at : \A j \in at : i <= j
           to == IF at = {} THEN Len(signals) ELSE first - 1
           heard == {signals[i] : i \in 1 .. to}
           r == Record(AbortType, c, FALSE, FALSE)
           A == aborted'
<1>1. /\ Calls /\ Does /\ c \notin made /\ Range(signals) \subseteq made /\ made' = made \cup {c}
      /\ list' = [t \in Targets |-> IF t \in heard THEN Append(list[t], r) ELSE list[t]]
      /\ kept' = [t \in Objects |-> IF t \in heard
                    THEN [kept[t] EXCEPT ![AbortType] = Append(@, r)] ELSE kept[t]]
      /\ aborted' = [aborted EXCEPT ![c] = at # {}]
      /\ reason' = IF at = {} THEN reason ELSE [reason EXCEPT ![c] = reason[signals[to + 1]]]
      /\ UNCHANGED <<store, epoch, timers, frames, err, world>>
  BY DEF AnyOf, eeVars
<1>2. /\ made \subseteq Signals /\ timers \subseteq made /\ Controlled \subseteq made
      /\ aborted \in [Signals -> BOOLEAN]
      /\ reason \in [Signals -> Reasons \cup {TimeoutError, NoReason}]
      /\ list \in [Targets -> Seq(Rec)] /\ err \in BOOLEAN
      /\ AbortType \in Types /\ Signals \subseteq Targets /\ ~aborted[c]
  BY <1>1, EventsAssumption, InvParts DEF TypeOK, AbortedIsMade
<1>3. /\ signals \in Seq(Signals) /\ DOMAIN signals = 1 .. Len(signals) /\ Len(signals) \in Nat
      /\ \A i \in 1 .. Len(signals) : signals[i] \in made
  <2>1. signals \in Seq(Signals)
    BY EventsAssumption
  <2>2. \A i \in 1 .. Len(signals) : signals[i] \in Range(signals)
    BY <2>1, ElementsInRange
  <2> QED
    BY <1>1, <2>1, <2>2, LenProperties
<1>4. at # {} => /\ first \in at /\ (\A j \in at : first <= j)
                 /\ first \in 1 .. Len(signals) /\ aborted[signals[first]]
  <2> SUFFICES ASSUME at # {}
               PROVE  first \in at /\ (\A j \in at : first <= j)
    BY <1>3
  <2>1. at \in SUBSET Nat
    BY <1>3
  <2>2. \E i \in at : \A j \in at : i <= j
    BY <2>1, Least
  <2> QED
    BY <2>2
<1>5. /\ heard \subseteq made
      /\ \A s \in heard : ~aborted[s]
  <2> SUFFICES ASSUME NEW i \in 1 .. to PROVE signals[i] \in made /\ ~aborted[signals[i]]
    OBVIOUS
  <2>1. CASE at = {}
    BY <1>3, <2>1
  <2>2. CASE at # {}
    <3>1. first \in 1 .. Len(signals) /\ \A j \in at : first <= j
      BY <1>4, <2>2
    <3>2. i \in 1 .. Len(signals) /\ i < first
      <4>1. to = first - 1
        BY <2>2
      <4> HIDE DEF first, to
      <4> QED
        BY <1>3, <3>1, <4>1
    <3>3. i \notin at
      <4> HIDE DEF first, at, to
      <4> QED
        BY <1>3, <3>1, <3>2
    <3> QED
      BY <1>3, <3>2, <3>3
  <2> QED
    BY <2>1, <2>2
<1>6. /\ A \in [Signals -> BOOLEAN] /\ (A[c] <=> at # {})
      /\ \A s \in Signals : s # c => A[s] = aborted[s]
  BY <1>1, <1>2
<1>7. /\ reason' \in [Signals -> Reasons \cup {TimeoutError, NoReason}]
      /\ \A s \in Signals : s # c => reason'[s] = reason[s]
      /\ A[c] => \E q \in Signals : q # c /\ aborted[q] /\ reason[q] = reason'[c]
  <2>1. CASE at = {}
    BY <1>1, <1>2, <1>6, <2>1
  <2>2. CASE at # {}
    <3>1. to = first - 1 /\ first \in 1 .. Len(signals) /\ aborted[signals[first]]
      BY <1>4, <2>2
    <3> HIDE DEF to, first
    <3>2. to + 1 = first
      BY <3>1
    <3>3. signals[first] \in made /\ reason' = [reason EXCEPT ![c] = reason[signals[first]]]
      BY <1>1, <1>3, <2>2, <3>1, <3>2
    <3> QED
      BY <1>1, <1>2, <3>1, <3>3
  <2> QED
    BY <2>1, <2>2
<1>8. /\ r \in Rec /\ r.id = ops + 1 /\ r.cb = c /\ r.type = AbortType /\ ~r.once
      /\ ops' \in ops .. MaxOps
  <2>1. c \in Callbacks \cup Signals
    OBVIOUS
  <2> QED
    BY <1>1, <1>2, <2>1, CountType DEF Record, Rec, Does
<1> HIDE DEF at, first, to, heard, r, A
<1>9. list' = AppendedTo(heard, r) /\ kept' = KeptOf(heard, r) /\ heard \in SUBSET Targets
  BY <1>1, <1>2, <1>5, <1>8 DEF AppendedTo, KeptOf
<1>10. /\ list' \in [Targets -> Seq(Rec)]
       /\ kept' \in [Objects -> [Types -> Seq(Rec)]]
       /\ \A t \in Targets : /\ list'[t] = IF t \in heard THEN Append(list[t], r) ELSE list[t]
                             /\ Range(list'[t]) = Range(list[t]) \cup (IF t \in heard THEN {r} ELSE {})
       /\ Sound(frames, world, aborted, list')
       /\ RecordsApart'
       /\ ~Reentrant => ListenersKept'
  BY <1>1, <1>8, <1>9, AppendedKept
<1>11. \A s \in Signals : aborted[s] => A[s] /\ s # c
  BY <1>2, <1>6
<1>12. Sound(frames', world, A, list')
  <2>1. \A x \in Targets : Extends(list'[x], list'[x])
    <3>1. \A x \in Targets : Len(list'[x]) \in Nat
      BY <1>10, LenProperties
    <3> QED
      BY <3>1 DEF Extends
  <2>2. \A i \in 1 .. Len(frames) : frames[i].on \in Single =>
          Extends(list'[frames[i].on], list'[frames[i].on])
    BY <2>1, EventsAssumption DEF Single
  <2>3. \A s \in Signals : aborted[s] => A[s]
    BY <1>11
  <2> DEFINE M == list'
  <2>4. M \in [Targets -> Seq(Rec)] /\ Sound(frames, world, aborted, M)
        /\ \A i \in 1 .. Len(frames) : frames[i].on \in Single =>
             Extends(M[frames[i].on], M[frames[i].on])
    BY <1>10, <2>2
  <2> HIDE DEF M
  <2>5. Sound(frames, world, A, M)
    BY <2>3, <2>4, SoundElsewhere
  <2> QED
    BY <1>1, <2>5 DEF M
<1>13. \A t \in Targets : \A q \in Range(list[t]) :
         q.cb \in Signals => Hears(t, q) /\ q.cb # c /\ t # c
  BY <1>1, InvParts DEF CompositesHear, Hears
<1>14. Announced(frames', A, list')
  <2> SUFFICES ASSUME NEW s \in Signals \cap Single, A[s], NEW k \in 1 .. Len(list'[s]),
                      list'[s][k].cb \in Signals
               PROVE  A[list'[s][k].cb] \/ ToBeTold(frames, s, k)
    BY <1>1 DEF Announced
  <2>1. s \notin heard
    BY <1>1, <1>5, <1>6
  <2>2. list'[s] = list[s] /\ list[s] \in Seq(Rec) /\ s \in Targets
    BY <1>2, <1>10, <2>1
  <2>3. list[s][k] \in Range(list[s])
    BY <2>2, ElementsInRange
  <2>4. s # c
    BY <1>13, <2>2, <2>3
  <2>5. aborted[s]
    BY <1>6, <2>4
  <2>6. aborted[list[s][k].cb] \/ ToBeTold(frames, s, k)
    BY <2>2, <2>5, InvParts DEF Announced
  <2> QED
    BY <1>11, <2>2, <2>6
<1>15. CompositesHear'
  <2> SUFFICES ASSUME NEW t \in Targets, NEW q \in Range(list'[t]), q.cb \in Signals
               PROVE  Hears(t, q)'
    BY DEF CompositesHear
  <2>1. CASE q \in Range(list[t])
    <3>1. Hears(t, q) /\ q.cb # c
      BY <1>13, <2>1
    <3>2. ASSUME A[q.cb]
          PROVE  \E p \in Signals : p # q.cb /\ A[p] /\ reason'[p] = reason'[q.cb]
      <4>1. aborted[q.cb] /\ reason'[q.cb] = reason[q.cb]
        BY <1>6, <1>7, <3>1, <3>2
      <4>2. PICK p \in Signals : p # q.cb /\ aborted[p] /\ reason[p] = reason[q.cb]
        BY <3>1, <4>1 DEF Hears
      <4> QED
        BY <1>7, <1>11, <4>1, <4>2
    <3> QED
      BY <1>1, <3>1, <3>2 DEF Hears, A
  <2>2. CASE q \notin Range(list[t])
    <3>1. t \in heard /\ q = r
      BY <1>10, <2>2
    <3>2. t \in made /\ t # c /\ c \notin Controlled /\ c \notin timers
      BY <1>1, <1>2, <1>5, <3>1
    <3>3. A[c] => \E p \in Signals : p # c /\ A[p] /\ reason'[p] = reason'[c]
      BY <1>7, <1>11
    <3> QED
      BY <1>1, <1>8, <3>1, <3>2, <3>3 DEF Hears, A
  <2> QED
    BY <2>1, <2>2
<1>16. AbortedIsMade' /\ TimersInWorld'
  <2>1. \A s \in Signals : A[s] => s \in made'
    BY <1>1, <1>6, InvParts DEF AbortedIsMade
  <2> QED
    BY <1>1, <2>1, InvParts DEF AbortedIsMade, TimersInWorld, A
<1>17. TypeOK'
  BY SMTT(60), <1>1, <1>2, <1>6, <1>7, <1>8, <1>10, EventsAssumption, InvParts DEF TypeOK, A
<1> QED
  BY <1>1, <1>10, <1>12, <1>14, <1>15, <1>16, <1>17 DEF IInv, ListsInv, SignalsInv, A

----------------------------------------------------------------------------
(* A dispatch goes on. *)

\* The last frame takes one record more: it still tells what it told, but for
\* that one.
LEMMA Advanced ==
  ASSUME NEW F \in Seq(Frame), F # <<>>, NEW f \in Frame,
         f.on = F[Len(F)].on, f.phase = F[Len(F)].phase, f.n = F[Len(F)].n,
         f.i = F[Len(F)].i + 1, NEW x, NEW k \in Nat, ToBeTold(F, x, k)
  PROVE  ToBeTold([F EXCEPT ![Len(F)] = f], x, k) \/ (x = f.on /\ k = f.i)
<1> DEFINE G == [F EXCEPT ![Len(F)] = f]
           n == Len(F)
<1>1. /\ G \in Seq(Frame) /\ Len(G) = n /\ G[n] = f
      /\ \A i \in 1 .. n : i # n => G[i] = F[i]
  BY ReplacedType
<1>2. PICK i \in 1 .. n : F[i].on = x /\ F[i].phase = "list" /\ F[i].i < k /\ k <= F[i].n
  BY DEF ToBeTold
<1>3. F[n] \in Frame
  BY TopType
<1>4. F[n].i \in Nat /\ F[n].n \in Nat
  BY <1>3, FrameIsRecord
<1>5. f.on = F[n].on /\ f.phase = F[n].phase /\ f.n = F[n].n /\ f.i = F[n].i + 1
  OBVIOUS
<1> HIDE DEF G, n
<1>6. CASE i # n
  BY <1>1, <1>2, <1>6 DEF ToBeTold, G
<1>7. CASE i = n
  <2>1. CASE k = f.i
    BY <1>2, <1>5, <1>7, <2>1
  <2>2. CASE k # f.i
    <3>1. G[i] = f
      BY <1>1, <1>7
    <3>2. F[n].i < k /\ F[n].on = x /\ F[n].phase = "list" /\ k <= F[n].n
      BY <1>2, <1>7
    <3>3. k \in Nat
      OBVIOUS
    <3>4. f.i < k /\ f.on = x /\ f.phase = "list" /\ k <= f.n
      BY <1>4, <1>5, <2>2, <3>2, <3>3
    <3>5. G[i].i < k /\ G[i].on = x /\ G[i].phase = "list" /\ k <= G[i].n
      BY <3>1, <3>4
    <3> QED
      BY <1>1, <3>5 DEF ToBeTold, G
  <2> QED
    BY <2>1, <2>2
<1> QED
  BY <1>6, <1>7

\* The frame f that the loop leaves when it has taken the next record.
TakesNext(f) ==
  /\ f \in Frame /\ f.on = Top.on /\ f.kind = "dispatch" /\ f.type = Top.type
  /\ f.n = Top.n /\ f.i = Top.i + 1 /\ f.stale = Top.stale /\ f.stop = Top.stop
  /\ f.phase = "list" /\ f.owed = Top.owed /\ f.todo = Top.todo

LEMMA TakenFrame ==
  ASSUME NEW g, TakesNext(g), NEW d, Append(g.called, d) \in Seq(1 .. MaxOps)
  PROVE  /\ LET f == [g EXCEPT !.cut = TRUE] IN TakesNext(f) /\ f.cut
         /\ LET f == [g EXCEPT !.in = TRUE, !.called = Append(@, d)]
            IN  TakesNext(f) /\ f.called = Append(g.called, d) /\ f.cut = g.cut
         /\ LET f == [[g EXCEPT !.in = TRUE, !.called = Append(@, d)] EXCEPT !.in = FALSE]
            IN  TakesNext(f) /\ f.called = Append(g.called, d) /\ f.cut = g.cut
<1> DEFINE a == [g EXCEPT !.cut = TRUE]
           b == [g EXCEPT !.in = TRUE, !.called = Append(@, d)]
           c == [b EXCEPT !.in = FALSE]
           Same(f) == /\ f.on = g.on /\ f.kind = g.kind /\ f.type = g.type
                      /\ f.n = g.n /\ f.i = g.i /\ f.stale = g.stale /\ f.stop = g.stop
                      /\ f.phase = g.phase /\ f.owed = g.owed /\ f.todo = g.todo
<1>0. g \in Frame
  BY DEF TakesNext
<1>1. a \in Frame
  BY <1>0 DEF Frame
<1>2. Same(a) /\ a.cut
  BY <1>0 DEF Frame
<1>3. b \in Frame
  BY <1>0 DEF Frame
<1>4. Same(b) /\ b.called = Append(g.called, d) /\ b.cut = g.cut
  BY <1>0 DEF Frame
<1>5. c \in Frame /\ c.called = b.called /\ c.cut = b.cut
  <2> HIDE DEF b
  <2> QED
    BY <1>3 DEF Frame
<1>6. Same(c)
  <2>1. /\ c.on = b.on /\ c.kind = b.kind /\ c.type = b.type
        /\ c.n = b.n /\ c.i = b.i /\ c.stale = b.stale /\ c.stop = b.stop
        /\ c.phase = b.phase /\ c.owed = b.owed /\ c.todo = b.todo
    <3> HIDE DEF b
    <3> QED
      BY <1>3 DEF Frame
  <2> HIDE DEF b, c
  <2> QED
    BY <1>4, <2>1
<1> HIDE DEF a, b, c
<1>7. TakesNext(a) /\ TakesNext(b) /\ TakesNext(c)
  BY <1>1, <1>2, <1>3, <1>4, <1>5, <1>6 DEF TakesNext
<1> QED
  BY <1>2, <1>4, <1>5, <1>7 DEF a, b, c

LEMMA NextAccount ==
  ASSUME IInv, DispatchNext, NEW f, TakesNext(f),
         LET there == ~Top.stale /\ Top.i < Len(list[Top.on])
             r == list[Top.on][Top.i + 1]
         IN  /\ ~f.cut => ~Top.cut
             /\ there /\ r.type = Top.type /\ ~f.cut => f.called = Append(Top.called, r.id)
             /\ (there => r.type # Top.type) => f.called = Top.called
  PROVE  /\ Sound(WithTop(f), world, aborted, list)
         /\ \A x \in Signals : \A k \in 1 .. Len(list[x]) :
              ToBeTold(frames, x, k) => ToBeTold(WithTop(f), x, k) \/ (x = Top.on /\ k = Top.i + 1)
<1> DEFINE t == Top.on
           l == list[t]
           i == Top.i
           r == l[i + 1]
<1>1. /\ frames # <<>> /\ Top = frames[Len(frames)] /\ Top.kind = "dispatch" /\ Top.phase = "list"
      /\ Top.i < Top.n /\ ~Top.stop
      /\ frames \in Seq(Frame) /\ Top \in Frame /\ LawfulFrame(Top, world, aborted)
      /\ Account(Top, list)
  BY TopFacts DEF DispatchNext
<1>2. /\ Top.i \in Nat /\ Top.n \in Nat /\ t \in Targets /\ list[t] \in Seq(Rec)
      /\ Len(list[t]) \in Nat
  <2>1. Top.i \in Nat /\ Top.n \in Nat /\ t \in Targets
    BY <1>1, FrameIsRecord DEF LawfulFrame
  <2>2. list[t] \in Seq(Rec)
    BY <2>1, InvParts DEF TypeOK
  <2> QED
    BY <2>1, <2>2, LenProperties
<1>3. LawfulFrame(f, world, aborted)
  BY <1>1 DEF LawfulFrame, TakesNext
<1>4. Account(f, list)
  <2> SUFFICES ASSUME t \in Single
               PROVE  InList(f, l) /\ (~f.cut => DispatchAccount(f, l))
    BY DEF Account, TakesNext
  <2>1. ~Top.stale /\ i < Top.n /\ Top.n <= Len(l) /\ i < Len(l)
    BY <1>1, <1>2 DEF LawfulFrame, Account, InList
  <2>2. InList(f, l)
    BY <1>2, <2>1 DEF InList, TakesNext
  <2>3. ASSUME ~f.cut PROVE DispatchAccount(f, l)
    <3>1. ~Top.cut
      BY <2>3
    <3>2. HasCalled(Top, l) /\ WillCall(Top, l)
      BY <1>1, <3>1 DEF Account, DispatchAccount
    <3> DEFINE old == Ids(OfType(SubSeq(l, 1, i), Top.type))
               new == Ids(OfType(SubSeq(l, 1, i + 1), Top.type))
    <3>3. new = IF r.type = Top.type THEN Append(old, r.id) ELSE old
      BY <1>2, <2>1, OneFurther
    <3>4. Top.called = old
      BY <3>2 DEF HasCalled
    <3>5. f.called = IF r.type = Top.type THEN Append(Top.called, r.id) ELSE Top.called
      BY <2>1, <2>3
    <3> HIDE DEF old, new, r
    <3>6. f.called = new
      BY <3>3, <3>4, <3>5
    <3>7. HasCalled(f, l) /\ WillCall(f, l)
      BY <3>2, <3>6 DEF HasCalled, WillCall, TakesNext, new
    <3> QED
      BY <1>1, <3>7 DEF DispatchAccount, TakesNext
  <2> QED
    BY <2>2, <2>3
<1>5. Sound(WithTop(f), world, aborted, list)
  BY <1>1, <1>3, <1>4, InvParts, SoundReplace DEF WithTop, TakesNext
<1>6. ASSUME NEW x \in Signals, NEW k \in 1 .. Len(list[x]), ToBeTold(frames, x, k)
      PROVE  ToBeTold(WithTop(f), x, k) \/ (x = Top.on /\ k = Top.i + 1)
  <2>1. k \in Nat
    OBVIOUS
  <2>2. ToBeTold([frames EXCEPT ![Len(frames)] = f], x, k) \/ (x = f.on /\ k = f.i)
    BY <1>1, <1>6, <2>1, Advanced DEF TakesNext
  <2> QED
    BY <2>2 DEF WithTop, TakesNext
<1> QED
  BY <1>5, <1>6

\* A composite that is in a list is told by the dispatch of a signal.
LEMMA TellsComposite ==
  ASSUME IInv, DispatchNext, NEW k, k = Top.i + 1, k \in 1 .. Len(list[Top.on]),
         list[Top.on][k].cb \in Signals
  PROVE  LET q == list[Top.on][k]
         IN  /\ Top.on \in Signals /\ Top.on \in made /\ aborted[Top.on] /\ world = "signals"
             /\ Top.on \in Single => ~Top.stale
             /\ q.type = Top.type /\ q.cb \in made /\ q.cb # Top.on
<1>1. /\ frames # <<>> /\ Top.kind = "dispatch" /\ Top \in Frame /\ LawfulFrame(Top, world, aborted)
  BY TopFacts DEF DispatchNext
<1>2. Top.on \in Targets /\ list[Top.on] \in Seq(Rec)
  BY <1>1, InvParts DEF LawfulFrame, TypeOK
<1>3. list[Top.on][k] \in Range(list[Top.on])
  BY <1>2, ElementsInRange
<1>4. Hears(Top.on, list[Top.on][k])
  BY <1>2, <1>3, InvParts DEF CompositesHear
<1>5. Top.on \in made /\ made \subseteq Signals
  BY <1>4, InvParts DEF Hears, TypeOK
<1> QED
  BY <1>1, <1>4, <1>5 DEF LawfulFrame, Hears

LEMMA DispatchNextIInv ==
  ASSUME IInv, DispatchNext
  PROVE  IInv'
<1> DEFINE g == [Top EXCEPT !.i = @ + 1]
           there == ~Top.stale /\ Top.i < Len(list[Top.on])
           r == list[Top.on][Top.i + 1]
<1>1. /\ frames # <<>> /\ Top \in Frame /\ Top.kind = "dispatch" /\ Top.phase = "list"
      /\ LawfulFrame(Top, world, aborted) /\ Top.i \in Nat
      /\ UNCHANGED <<store, epoch, list, made, timers, err, world, ops, kept>>
      /\ err' \in BOOLEAN /\ err \in BOOLEAN /\ ops' \in ops .. MaxOps
  <2>1. frames # <<>> /\ Top \in Frame /\ LawfulFrame(Top, world, aborted)
    BY TopFacts DEF DispatchNext
  <2>2. Top.i \in Nat
    BY <2>1, FrameIsRecord
  <2>3. err \in BOOLEAN /\ ops \in ops .. MaxOps
    BY EventsAssumption, InvParts DEF TypeOK
  <2> QED
    BY <2>1, <2>2, <2>3 DEF DispatchNext, eeVars, etVars
<1>2. Top.on \in Targets /\ list[Top.on] \in Seq(Rec) /\ Len(list[Top.on]) \in Nat
  <2>1. Top.on \in Targets
    BY <1>1 DEF LawfulFrame
  <2>2. list[Top.on] \in Seq(Rec)
    BY <2>1, InvParts DEF TypeOK
  <2> QED
    BY <2>1, <2>2, LenProperties
<1>3. TakesNext(g) /\ g.called = Top.called /\ g.cut = Top.cut
  <2> DEFINE o == Top
  <2>0. o \in Frame /\ o.i \in Nat /\ g = [o EXCEPT !.i = o.i + 1]
    BY <1>1
  <2> HIDE DEF g
  <2>1. g \in Frame
    <3> DEFINE j == o.i + 1
    <3>1. j \in Nat /\ g = [o EXCEPT !.i = j]
      BY <2>0
    <3> HIDE DEF o, j
    <3> QED
      BY <2>0, <3>1 DEF Frame
  <2>2. /\ g.on = Top.on /\ g.kind = Top.kind /\ g.type = Top.type
        /\ g.n = Top.n /\ g.i = Top.i + 1 /\ g.stale = Top.stale /\ g.stop = Top.stop
        /\ g.phase = Top.phase /\ g.owed = Top.owed /\ g.todo = Top.todo
        /\ g.called = Top.called /\ g.cut = Top.cut
    <3> HIDE DEF o
    <3>1. /\ g.on = o.on /\ g.kind = o.kind /\ g.type = o.type
          /\ g.n = o.n /\ g.i = o.i + 1 /\ g.stale = o.stale /\ g.stop = o.stop
          /\ g.phase = o.phase /\ g.owed = o.owed /\ g.todo = o.todo
          /\ g.called = o.called /\ g.cut = o.cut
      BY <2>0 DEF Frame
    <3> QED
      BY <3>1 DEF o
  <2> QED
    BY <1>1, <2>1, <2>2 DEF TakesNext
<1>4. there => /\ r \in Rec /\ r.id \in 1 .. MaxOps /\ Append(Top.called, r.id) \in Seq(1 .. MaxOps)
               /\ Top.i + 1 \in 1 .. Len(list[Top.on])
  <2> SUFFICES ASSUME there
               PROVE  r \in Rec /\ r.id \in 1 .. MaxOps /\ Append(Top.called, r.id) \in Seq(1 .. MaxOps)
                      /\ Top.i + 1 \in 1 .. Len(list[Top.on])
    OBVIOUS
  <2>1. Top.i + 1 \in 1 .. Len(list[Top.on])
    BY <1>1, <1>2
  <2>2. r \in Rec
    BY <1>2, <2>1, ElementOfSeq
  <2>3. r.id \in 1 .. MaxOps /\ Top.called \in Seq(1 .. MaxOps)
    BY <1>1, <2>2, FrameIsRecord DEF Rec
  <2> QED
    BY <2>1, <2>2, <2>3, AppendProperties
\* Nothing is told.
<1>5. ASSUME NEW f, frames' = WithTop(f), UNCHANGED <<aborted, reason>>, TakesNext(f),
             there => r.type # Top.type \/ r.cb \in Callbacks,
             /\ ~f.cut => ~Top.cut
             /\ there /\ r.type = Top.type /\ ~f.cut => f.called = Append(Top.called, r.id)
             /\ (there => r.type # Top.type) => f.called = Top.called
      PROVE  IInv'
  <2>1. /\ Sound(WithTop(f), world, aborted, list)
        /\ \A x \in Signals : \A k \in 1 .. Len(list[x]) :
             ToBeTold(frames, x, k) => ToBeTold(WithTop(f), x, k) \/ (x = Top.on /\ k = Top.i + 1)
    BY <1>5, NextAccount
  <2>2. Announced(WithTop(f), aborted, list)
    <3> SUFFICES ASSUME NEW x \in Signals \cap Single, aborted[x], NEW k \in 1 .. Len(list[x]),
                        list[x][k].cb \in Signals, ToBeTold(frames, x, k)
                 PROVE  ToBeTold(WithTop(f), x, k)
      BY InvParts DEF Announced
    <3>1. CASE x = Top.on /\ k = Top.i + 1
      <4>1. /\ k \in 1 .. Len(list[Top.on]) /\ list[Top.on][k].cb \in Signals
        BY <3>1
      <4>2. ~Top.stale /\ list[Top.on][k].type = Top.type
        BY <3>1, <4>1, TellsComposite
      <4>3. there
        BY <1>1, <1>2, <3>1, <4>1, <4>2
      <4>4. list[Top.on][k].cb \notin Callbacks
        BY <4>1, EventsAssumption
      <4> QED
        BY <1>5, <3>1, <4>2, <4>3, <4>4
    <3>2. CASE ~(x = Top.on /\ k = Top.i + 1)
      BY <2>1, <3>2
    <3> QED
      BY <3>1, <3>2
  <2> QED
    BY <1>1, <1>5, <2>1, <2>2, FramesOnlyIInv
<1>6. CASE /\ there => r.type # Top.type
           /\ frames' = WithTop(g)
           /\ UNCHANGED <<aborted, reason>>
  <2> HIDE DEF g, there, r
  <2> QED
    BY <1>3, <1>5, <1>6
<1>7. CASE /\ there /\ r.type = Top.type /\ r.cb \in Callbacks
           /\ frames' = WithTop(IF err THEN [g EXCEPT !.cut = TRUE] ELSE Called(g, r))
           /\ UNCHANGED <<aborted, reason>>
  <2> DEFINE f == IF err THEN [g EXCEPT !.cut = TRUE] ELSE Called(g, r)
  <2>1. /\ TakesNext(f) /\ (~f.cut => ~Top.cut)
        /\ ~f.cut => f.called = Append(Top.called, r.id)
    <3>1. r.id \in 1 .. MaxOps /\ Append(Top.called, r.id) \in Seq(1 .. MaxOps)
      BY <1>4, <1>7
    <3> DEFINE d == r.id
    <3>2. Called(g, r) = [g EXCEPT !.in = TRUE, !.called = Append(@, d)]
      BY DEF Called
    <3>3. d \in 1 .. MaxOps /\ Append(Top.called, d) \in Seq(1 .. MaxOps)
      BY <3>1
    <3> HIDE DEF d, r, there, g
    <3>4. CASE err
      <4>1. f = [g EXCEPT !.cut = TRUE]
        BY <3>4
      <4> HIDE DEF f
      <4>2. TakesNext(f) /\ f.cut
        <5>1. Append(g.called, d) = Append(Top.called, d) /\ Append(g.called, d) \in Seq(1 .. MaxOps)
          BY <1>3, <3>3
        <5> QED
          BY <1>3, <4>1, <5>1, TakenFrame
      <4> QED
        BY <4>2
    <3>5. CASE ~err
      <4>1. f = [g EXCEPT !.in = TRUE, !.called = Append(@, d)]
        BY <3>2, <3>5
      <4> HIDE DEF f
      <4>2. TakesNext(f) /\ f.called = Append(Top.called, d) /\ f.cut = Top.cut
        <5>1. Append(g.called, d) = Append(Top.called, d) /\ Append(g.called, d) \in Seq(1 .. MaxOps)
          BY <1>3, <3>3
        <5> QED
          BY <1>3, <4>1, <5>1, TakenFrame
      <4> QED
        BY <4>2 DEF d
    <3> QED
      BY <3>4, <3>5
  <2> HIDE DEF f, g
  <2>2. frames' = WithTop(f)
    BY <1>7 DEF f
  <2> HIDE DEF there, r
  <2> QED
    BY <1>5, <1>7, <2>1, <2>2
<1>8. CASE /\ there /\ r.type = Top.type /\ r.cb \notin Callbacks
           /\ DoAbort(r.cb, reason[Top.on], WithTop([Called(g, r) EXCEPT !.in = FALSE]))
  <2> DEFINE f == [Called(g, r) EXCEPT !.in = FALSE]
             s == r.cb
             k == Top.i + 1
  <2>1. TakesNext(f) /\ f.cut = Top.cut /\ f.called = Append(Top.called, r.id)
    <3>1. r.id \in 1 .. MaxOps /\ Append(Top.called, r.id) \in Seq(1 .. MaxOps)
      BY <1>4, <1>8
    <3> DEFINE d == r.id
    <3>2. f = [[g EXCEPT !.in = TRUE, !.called = Append(@, d)] EXCEPT !.in = FALSE]
      BY DEF Called
    <3>3. d \in 1 .. MaxOps /\ Append(Top.called, d) \in Seq(1 .. MaxOps)
      BY <3>1
    <3> HIDE DEF d, r, f, there, g
    <3>4. TakesNext(f) /\ f.called = Append(Top.called, d) /\ f.cut = Top.cut
      <4>1. Append(g.called, d) = Append(Top.called, d) /\ Append(g.called, d) \in Seq(1 .. MaxOps)
        BY <1>3, <3>3
      <4> QED
        BY <1>3, <3>2, <4>1, TakenFrame
    <3> QED
      BY <3>4 DEF d
  <2>2. /\ k \in 1 .. Len(list[Top.on]) /\ list[Top.on][k].cb \in Signals
    BY <1>4, <1>8 DEF Rec
  <2>3. /\ Top.on \in Signals /\ Top.on \in made /\ aborted[Top.on] /\ world = "signals"
        /\ s \in made /\ s # Top.on /\ s \in Signals
    BY <2>2, TellsComposite
  <2>4. DoAbort(s, reason[Top.on], WithTop(f))
    BY <1>8
  <2>5. /\ Sound(WithTop(f), world, aborted, list)
        /\ \A x \in Signals : \A y \in 1 .. Len(list[x]) :
             ToBeTold(frames, x, y) => ToBeTold(WithTop(f), x, y) \/ (x = Top.on /\ y = k)
    <3> HIDE DEF f
    <3> QED
      BY <1>8, <2>1, NextAccount
  <2>6. list[Top.on][k].cb = s
    OBVIOUS
  <2> HIDE DEF f, s, k
  <2>7. \A x \in Signals : \A y \in 1 .. Len(list[x]) :
          ToBeTold(frames, x, y) => ToBeTold(WithTop(f), x, y) \/ list[x][y].cb = s
    BY <2>5, <2>6
  <2>8. reason[Top.on] \in Reasons \cup {TimeoutError, NoReason} /\ made \in SUBSET Signals
    BY <2>3, InvParts DEF TypeOK
  <2>9. \A t \in Targets : \A q \in Range(list[t]) :
           q.cb = s => \E p \in Signals : p # s /\ aborted[p] /\ reason[p] = reason[Top.on]
    BY <2>3
  <2>10. \E F : F = WithTop(f)
    OBVIOUS
  <2>11. PICK F : F = WithTop(f)
    BY <2>10
  <2>12. /\ DoAbort(s, reason[Top.on], F) /\ Sound(F, world, aborted, list)
         /\ \A x \in Signals : \A y \in 1 .. Len(list[x]) :
              ToBeTold(frames, x, y) => ToBeTold(F, x, y) \/ list[x][y].cb = s
    BY <2>4, <2>5, <2>7, <2>11
  <2> QED
    <3>1. /\ UNCHANGED <<store, epoch, list, world, kept, err>> /\ ops' \in ops .. MaxOps
          /\ world = "signals" /\ made' \in SUBSET Signals /\ made \subseteq made' /\ s \in made'
          /\ timers' \subseteq timers
      BY <1>1, <2>3, <2>8
    <3> DEFINE e == reason[Top.on]
    <3>2. /\ DoAbort(s, e, F) /\ e \in Reasons \cup {TimeoutError, NoReason}
          /\ \A t \in Targets : \A q \in Range(list[t]) :
               q.cb = s => \E p \in Signals : p # s /\ aborted[p] /\ reason[p] = e
      BY <2>8, <2>9, <2>12
    <3> HIDE DEF e
    <3> QED
      BY ZenonT(60), <1>1, <2>3, <2>12, <3>1, <3>2, AbortIInv
<1> QED
  BY <1>6, <1>7, <1>8 DEF DispatchNext

----------------------------------------------------------------------------
(* The invariant, and what it says of Spec. *)

LEMMA InitIInv == Init => IInv
<1> SUFFICES ASSUME Init PROVE IInv
  OBVIOUS
<1> USE DEF Init
<1>1. /\ NoRecs \in [Types -> Seq(Rec)] /\ <<>> \in Seq(Rec) /\ <<>> \in Seq(Frame)
      /\ Len(<<>>) = 0 /\ Range(<<>>) = {}
      /\ \A ty \in Types : NoRecs[ty] = <<>>
  BY EmptySeq DEF NoRecs, Range
<1>2. TypeOK
  <2>1. timers \subseteq made /\ made \subseteq Signals /\ ops \in 0 .. MaxOps /\ err \in BOOLEAN
    <3>1. err = FALSE /\ FALSE \in BOOLEAN
      OBVIOUS
    <3>2. err \in BOOLEAN
      BY <3>1, Zenon
    <3>3. timers = {} /\ made = Controlled /\ ops = 0
      OBVIOUS
    <3>4. timers \subseteq made /\ made \subseteq Signals /\ ops \in 0 .. MaxOps
      BY <3>3, EventsAssumption
    <3> QED
      BY <3>2, <3>4, Zenon
  <2>2. aborted \in [Signals -> BOOLEAN] /\ reason \in [Signals -> Reasons \cup {TimeoutError, NoReason}]
    <3>1. aborted = [s \in Signals |-> FALSE] /\ reason = [s \in Signals |-> NoReason]
      OBVIOUS
    <3>2. aborted \in [Signals -> BOOLEAN]
      BY <3>1, Zenon
    <3>3. reason \in [Signals -> Reasons \cup {TimeoutError, NoReason}]
      BY <3>1
    <3> QED
      BY <3>2, <3>3
  <2>3. NoRecs \in [Types -> Seq(Rec)]
    BY <1>1
  <2>4. /\ store \in [Emitters -> [Types -> Seq(Rec)]] /\ epoch \in [Emitters -> Nat]
        /\ kept \in [Objects -> [Types -> Seq(Rec)]]
    <3> HIDE DEF NoRecs, Rec
    <3> QED
      BY <2>3
  <2>5. list \in [Targets -> Seq(Rec)] /\ frames \in Seq(Frame)
    BY <1>1
  <2> QED
    BY <2>1, <2>2, <2>4, <2>5, EventsAssumption DEF TypeOK
<1>3. \A t \in Targets : list[t] = <<>>
  OBVIOUS
<1>4. Sound(frames, world, aborted, list)
  BY <1>1 DEF Sound
<1>5. RecordsApart /\ CompositesHear /\ AbortedIsMade /\ TimersInWorld
  BY <1>1, <1>3 DEF RecordsApart, CompositesHear, AbortedIsMade, TimersInWorld
<1>6. Announced(frames, aborted, list)
  BY DEF Announced
<1>7. ListenersKept
  BY <1>1, <1>3, NoneLasts, EventsAssumption DEF ListenersKept, Registered, Objects
<1> QED
  BY <1>2, <1>4, <1>5, <1>6, <1>7 DEF IInv, ListsInv, SignalsInv

LEMMA StutterIInv ==
  ASSUME IInv, UNCHANGED vars
  PROVE  IInv'
<1>1. /\ UNCHANGED <<store, epoch, list, aborted, reason, made, timers, world, kept, frames>>
      /\ err' \in BOOLEAN /\ ops' \in ops .. MaxOps
  BY EventsAssumption, InvParts DEF TypeOK, vars
<1> QED
  BY <1>1, InvParts, FramesOnlyIInv

LEMMA NextIInv ==
  ASSUME IInv, Next
  PROVE  IInv'
<1>1. ASSUME EmitterStep PROVE IInv'
  <2>1. \A ty \in Types : {ty} \in SUBSET Types /\ Types \in SUBSET Types
    OBVIOUS
  <2> QED
    BY <1>1, <2>1, OnIInv, OffIInv, RemoveAllIInv, EmitIInv DEF EmitterStep
<1>2. ASSUME world = "target", TargetStep PROVE IInv'
  BY <1>2, AddListenerIInv, RemoveListenerIInv, IdleIInv, DispatchEventIInv
  DEF TargetStep
<1>3. ASSUME world = "signals", SignalStep PROVE IInv'
  <2>1. /\ \A s \in made : s \in Targets
        /\ AbortType \in Types /\ FALSE \in BOOLEAN
    BY EventsAssumption, InvParts DEF TypeOK
  <2>2. \A s \in Signals, r \in Reasons : s \in Controlled /\ Abort(s, r) => IInv'
    BY <1>3, AbortsIInv
  <2>3. \A s \in Signals, r \in Reasons : Aborted(s, r) => IInv'
    BY <1>3, AbortsIInv
  <2>4. \A s \in made, cb \in Callbacks, once \in BOOLEAN :
          AddListener(s, AbortType, cb, once, FALSE) => IInv'
    BY <2>1, AddListenerIInv
  <2>8. \A s \in made, cb \in Callbacks : RemoveListener(s, AbortType, cb, FALSE) => IInv'
    BY <2>1, RemoveListenerIInv
  <2>5. \A s \in made, cb \in Callbacks : SetHandler(s, cb) => IInv'
    BY <2>1, IdleIInv
  <2>6. \A s \in Signals : (\E signals \in Composites(s) : AnyOf(s, signals)) => IInv'
    BY <1>3, AnyOfIInv
  <2>7. \A s \in Signals : Timeout(s) => IInv'
    BY <1>3, TimeoutIInv
  <2> QED
    BY <1>3, <2>2, <2>3, <2>4, <2>5, <2>6, <2>7, <2>8 DEF SignalStep
<1>4. ASSUME NEW s \in Signals, TimerFires(s) PROVE IInv'
  BY <1>4, AbortsIInv
<1>5. CASE EmitNext \/ EmitEnd
  BY <1>5, EmitNextIInv, EmitEndIInv
<1>6. CASE DispatchNext \/ DispatchEnd \/ DispatchHandler \/ DispatchReturn
  BY <1>6, DispatchNextIInv, DispatchEndIInv, DispatchHandlerIInv, DispatchReturnIInv
<1>7. CASE Return \/ Throw \/ Catch \/ StopNow
  BY <1>7, ReturnIInv, IdleIInv, StopNowIInv
<1> QED
  BY <1>1, <1>2, <1>3, <1>4, <1>5, <1>6, <1>7 DEF Next

\* Emitting, dispatching, nesting and throwing never change who is registered for
\* good, however script calls the operations (ee_emit and
\* native_EventTarget_dispatch: their post-passes). A script that adds a once
\* listener to the list that calls it, or takes a listener from it, is left aside:
\* see Reentrant.
THEOREM ListenersStay == ~Reentrant => (Spec => []ListenersKept)
<1> SUFFICES ASSUME ~Reentrant PROVE Spec => []ListenersKept
  OBVIOUS
<1>1. IInv => ListenersKept
  BY InvParts
<1>2. IInv /\ [Next]_vars => IInv'
  BY NextIInv, StutterIInv
<1> QED
  BY <1>1, <1>2, InitIInv, PTL DEF Spec

----------------------------------------------------------------------------
(* What one step does to the stack of frames and to the signals. *)

Pops == EmitEnd \/ DispatchReturn
StepLawful ==
  /\ Len(frames') < Len(frames) => Pops
  /\ \A s \in Signals : aborted[s] => aborted'[s] /\ reason'[s] = reason[s]
  /\ \A s \in Signals : Len(frames') > Len(frames) /\ frames'[Len(frames')].on = s
                          => ~aborted[s] /\ aborted'[s]

LEMMA LevelStep ==
  ASSUME IInv, UNCHANGED <<aborted, reason>>, Len(frames') = Len(frames)
  PROVE  StepLawful
<1>1. Len(frames) \in Nat
  BY InvParts, LenProperties DEF Sound
<1> QED
  BY <1>1 DEF StepLawful

LEMMA ChangedTop ==
  ASSUME IInv, frames # <<>>, NEW f
  PROVE  WithTop(f) \in Seq(Frame \cup {f}) /\ Len(WithTop(f)) = Len(frames)
<1>1. frames \in Seq(Frame) /\ DOMAIN frames = 1 .. Len(frames)
  BY InvParts, LenProperties DEF Sound
<1>2. frames \in Seq(Frame \cup {f}) /\ f \in Frame \cup {f}
  <2>1. frames \in [1 .. Len(frames) -> Frame] /\ Len(frames) \in Nat
    BY <1>1, LenProperties
  <2>2. frames \in [1 .. Len(frames) -> Frame \cup {f}]
    BY <2>1
  <2> QED
    BY <2>1, <2>2, IsASeq
<1> QED
  BY <1>2, ReplacedType DEF WithTop

LEMMA PushedStep ==
  ASSUME IInv, UNCHANGED <<aborted, reason>>, NEW f \in Frame, f.on \notin Signals,
         frames' = Append(frames, f)
  PROVE  StepLawful
<1>1. /\ Len(frames) \in Nat /\ Len(frames') = Len(frames) + 1
      /\ frames'[Len(frames) + 1] = f
  BY InvParts, PushedType DEF Sound
<1> QED
  BY <1>1 DEF StepLawful

LEMMA AbortStep ==
  ASSUME IInv, NEW s \in Signals, NEW r, NEW S, Frame \subseteq S,
         NEW F \in Seq(S), Len(F) = Len(frames), DoAbort(s, r, F)
  PROVE  StepLawful
<1>1. CASE aborted[s]
  BY <1>1, LevelStep DEF DoAbort
<1>2. CASE ~aborted[s]
  <2> DEFINE f == Dispatch(s, AbortType)
  <2>1. f \in Frame /\ f.on = s
    BY EventsAssumption, NewDispatch
  <2>2. /\ frames' = Append(F, f)
        /\ aborted' = [aborted EXCEPT ![s] = TRUE] /\ reason' = [reason EXCEPT ![s] = r]
    BY <1>2 DEF DoAbort
  <2> HIDE DEF f
  <2>3. /\ Len(F) \in Nat /\ Len(frames') = Len(F) + 1 /\ frames'[Len(F) + 1] = f
    BY <2>1, <2>2, PushedType
  <2>4. /\ aborted'[s]
        /\ \A x \in Signals : x # s => aborted'[x] = aborted[x] /\ reason'[x] = reason[x]
    BY <2>2, InvParts DEF TypeOK
  <2> QED
    BY <1>2, <2>1, <2>3, <2>4 DEF StepLawful
<1> QED
  BY <1>1, <1>2

LEMMA StepIsLawful ==
  ASSUME IInv, Next
  PROVE  StepLawful
<1>0. /\ Sound(frames, world, aborted, list) /\ frames \in Seq(Frame) /\ Len(frames) \in Nat
  <2>1. Sound(frames, world, aborted, list) /\ frames \in Seq(Frame)
    BY InvParts DEF Sound
  <2> QED
    BY <2>1, LenProperties
<1>9. ASSUME NEW t \in Targets, NEW ty, NEW cb, RemoveListener(t, ty, cb, FALSE) PROVE StepLawful
  <2>1. UNCHANGED <<aborted, reason>> /\ frames' = Freed(frames, t)
    BY <1>9 DEF RemoveListener, sigVars
  <2> QED
    BY <1>0, <2>1, FreedSame, LevelStep
<1>1. ASSUME EmitterStep PROVE StepLawful
  <2>1. CASE UNCHANGED <<frames, aborted, reason>>
    BY <1>0, <2>1, LevelStep
  <2>2. ASSUME NEW e \in Emitters, NEW ty \in Types, Emit(e, ty) PROVE StepLawful
    <3> DEFINE f == [kind |-> "emit", on |-> e, type |-> ty,
                 todo |-> store[e][ty], n |-> 0, i |-> 0, epoch |-> epoch[e],
                 stale |-> FALSE, stop |-> FALSE, phase |-> "list", in |-> FALSE,
                 owed |-> Ids(store[e][ty]), called |-> <<>>, cut |-> FALSE]
    <3>1. /\ UNCHANGED <<aborted, reason>>
          /\ frames' = frames \/ frames' = Append(frames, f)
      BY <2>2 DEF Emit, sigVars
    <3>2. f.on = e /\ e \notin Signals
      BY EventsAssumption
    <3> HIDE DEF f
    <3>3. CASE frames' = frames
      BY <3>1, <3>3, LevelStep
    <3>4. CASE frames' = Append(frames, f)
      <4>1. Len(frames') = Len(frames) + 1 /\ frames'[Len(frames')] = f
        <5>1. frames \in Seq(Frame \cup {f}) /\ f \in Frame \cup {f}
          <6>1. frames \in [1 .. Len(frames) -> Frame]
            BY <1>0, LenProperties
          <6>2. frames \in [1 .. Len(frames) -> Frame \cup {f}]
            BY <6>1
          <6> QED
            BY <1>0, <6>2, IsASeq
        <5> QED
          BY <3>4, <5>1, PushedType
      <4> QED
        BY <1>0, <3>1, <3>2, <4>1 DEF StepLawful
    <3> QED
      BY <3>1, <3>3, <3>4
  <2>3. ASSUME NEW e \in Emitters, NEW ty \in Types, NEW cb \in Callbacks,
               (\E once, first \in BOOLEAN : On(e, ty, cb, once, first)) \/ Off(e, ty, cb)
        PROVE  StepLawful
    BY <2>1, <2>3 DEF On, Off, sigVars
  <2>4. ASSUME NEW e \in Emitters, NEW tys, RemoveAll(e, tys) PROVE StepLawful
    BY <2>1, <2>4 DEF RemoveAll, sigVars
  <2> QED
    BY <1>1, <2>2, <2>3, <2>4 DEF EmitterStep
<1>2. ASSUME TargetStep PROVE StepLawful
  <2>1. CASE UNCHANGED <<frames, aborted, reason>>
    BY <1>0, <2>1, LevelStep
  <2>2. ASSUME NEW t \in Targets \ Signals, NEW ty \in Types, DispatchEvent(t, ty) PROVE StepLawful
    <3>1. /\ UNCHANGED <<aborted, reason>> /\ frames' = Append(frames, Dispatch(t, ty))
      BY <2>2 DEF DispatchEvent, sigVars
    <3>2. Dispatch(t, ty) \in Frame /\ Dispatch(t, ty).on = t
      BY NewDispatch
    <3> QED
      BY <3>1, <3>2, PushedStep
  <2> QED
    BY <1>2, <1>9, <2>1, <2>2 DEF TargetStep, AddListener, SetHandler, sigVars
<1>3. ASSUME SignalStep PROVE StepLawful
  <2>1. CASE UNCHANGED <<frames, aborted, reason>>
    BY <1>0, <2>1, LevelStep
  <2>2. ASSUME NEW s \in Signals, NEW r \in Reasons, Abort(s, r) \/ Aborted(s, r) PROVE StepLawful
    BY <1>0, <2>2, AbortStep DEF Abort, Aborted
  <2>3. ASSUME NEW c \in Signals, NEW signals \in Composites(c), AnyOf(c, signals) PROVE StepLawful
    <3>1. ~aborted[c] /\ frames' = frames
      BY <2>3, InvParts DEF AnyOf, AbortedIsMade
    <3>2. \E b : aborted' = [aborted EXCEPT ![c] = b]
      BY <2>3 DEF AnyOf
    <3>3. \E x : reason' = reason \/ reason' = [reason EXCEPT ![c] = x]
      BY <2>3 DEF AnyOf
    <3>4. \A s \in Signals : s # c => aborted'[s] = aborted[s] /\ reason'[s] = reason[s]
      BY <3>2, <3>3, InvParts DEF TypeOK
    <3> QED
      BY <1>0, <3>1, <3>4 DEF StepLawful
  <2>4. ASSUME NEW s \in made, NEW cb \in Callbacks, RemoveListener(s, AbortType, cb, FALSE)
        PROVE  StepLawful
    <3>1. s \in Targets
      BY EventsAssumption, InvParts DEF TypeOK
    <3> QED
      BY <1>9, <2>4, <3>1
  <2> QED
    BY <1>3, <2>1, <2>2, <2>3, <2>4 DEF SignalStep, AddListener, SetHandler, Timeout, sigVars
<1>4. ASSUME NEW s \in Signals, TimerFires(s) PROVE StepLawful
  BY <1>0, <1>4, AbortStep DEF TimerFires
<1>5. ASSUME Pops PROVE StepLawful
  <2>1. /\ UNCHANGED <<aborted, reason>> /\ frames # <<>> /\ frames' = Beneath
    BY <1>5 DEF Pops, EmitEnd, DispatchReturn, sigVars
  <2>2. Len(frames') = Len(frames) - 1
    BY <1>0, <2>1, TopType DEF Beneath
  <2> QED
    BY <1>0, <1>5, <2>1, <2>2 DEF StepLawful
<1>6. ASSUME EmitNext \/ DispatchHandler \/ Return \/ Throw \/ Catch \/ StopNow PROVE StepLawful
  <2>1. /\ UNCHANGED <<aborted, reason>>
        /\ frames' = frames \/ (frames # <<>> /\ \E f : frames' = WithTop(f))
    BY <1>6 DEF EmitNext, DispatchHandler, Return, Throw, Catch, StopNow, sigVars
  <2> QED
    BY <2>1, ChangedTop, LevelStep
<1>7. ASSUME DispatchNext PROVE StepLawful
  <2>1. CASE UNCHANGED <<aborted, reason>> /\ frames # <<>> /\ \E f : frames' = WithTop(f)
    BY <2>1, ChangedTop, LevelStep
  <2> DEFINE r == list[Top.on][Top.i + 1]
             f == [Called([Top EXCEPT !.i = @ + 1], r) EXCEPT !.in = FALSE]
  <2>2. CASE /\ ~Top.stale /\ Top.i < Len(list[Top.on]) /\ r.cb \notin Callbacks
             /\ DoAbort(r.cb, reason[Top.on], WithTop(f))
    <3>1. /\ frames # <<>> /\ Top \in Frame /\ LawfulFrame(Top, world, aborted)
          /\ Top.kind = "dispatch"
      BY <1>7, TopFacts DEF DispatchNext
    <3>2. Top.on \in Targets /\ list[Top.on] \in Seq(Rec) /\ Top.i \in Nat
      BY <3>1, FrameIsRecord, InvParts DEF LawfulFrame, TypeOK
    <3>3. r \in Rec
      <4>1. Top.i + 1 \in 1 .. Len(list[Top.on])
        BY <2>2, <3>2, LenProperties
      <4> QED
        BY <3>2, <4>1, ElementOfSeq
    <3>4. r.cb \in Signals
      BY <2>2, <3>3 DEF Rec
    <3> DEFINE s == r.cb
               S == Frame \cup {f}
               F == WithTop(f)
    <3>5. s \in Signals /\ Frame \subseteq S /\ F \in Seq(S) /\ Len(F) = Len(frames)
      BY <3>1, <3>4, ChangedTop
    <3>6. DoAbort(s, reason[Top.on], F)
      BY <2>2
    <3> HIDE DEF s, S, F, f, r
    <3> QED
      BY <3>5, <3>6, AbortStep
  <2> QED
    BY <1>7, <2>1, <2>2 DEF DispatchNext
<1>8. ASSUME DispatchEnd PROVE StepLawful
  <2> DEFINE f == [Top EXCEPT !.phase = "handler"]
  <2>1. /\ UNCHANGED <<aborted, reason>> /\ frames # <<>>
        /\ frames' = Append(Freed(Beneath, Top.on), f)
    BY <1>8 DEF DispatchEnd, sigVars
  <2>2. f \in Frame
    <3>1. Top \in Frame
      BY <2>1, TopFacts
    <3> QED
      BY <3>1 DEF Frame
  <2>3. Beneath \in Seq(Frame) /\ Len(Beneath) = Len(frames) - 1
    BY <1>0, <2>1, TopType DEF Beneath
  <2> DEFINE G == Freed(Beneath, Top.on)
  <2>4. G \in Seq(Frame) /\ Len(G) = Len(frames) - 1
    BY <2>3, FreedSame
  <2> HIDE DEF f, G
  <2>5. Len(frames') = (Len(frames) - 1) + 1
    BY <2>1, <2>2, <2>4, PushedType DEF G
  <2> QED
    BY <1>0, <2>1, <2>5, LevelStep
<1> QED
  BY <1>1, <1>2, <1>3, <1>4, <1>5, <1>6, <1>7, <1>8 DEF Next, Pops

\* What a frame that goes has called.
LEMMA PoppedHasCalled ==
  ASSUME IInv, Pops, ~Top.cut, Top.kind = "emit" \/ Top.on \in Single
  PROVE  Top.called = Top.owed
<1>1. frames # <<>> /\ Top \in Frame /\ Account(Top, list) /\ LawfulFrame(Top, world, aborted)
  BY TopFacts DEF Pops, EmitEnd, DispatchReturn
<1>2. CASE EmitEnd
  <2>1. Top.kind = "emit" /\ Top.todo = <<>>
    BY <1>2 DEF EmitEnd
  <2>2. Top.called \o Ids(<<>>) = Top.owed /\ Top.called \in Seq(1 .. MaxOps)
    BY <1>1, <2>1, FrameIsRecord DEF Account, EmissionAccount
  <2>3. Ids(<<>>) = <<>>
    <3>1. <<>> \in Seq(Rec) /\ Len(<<>>) = 0
      BY EmptySeq
    <3>2. Ids(<<>>) \in Seq(1 .. MaxOps) /\ Len(Ids(<<>>)) = 0
      BY <3>1, IdsType
    <3> QED
      BY <3>2, EmptySeq
  <2> QED
    BY <2>2, <2>3, ConcatEmptySeq
<1>3. CASE DispatchReturn
  <2>1. Top.kind = "dispatch" /\ Top.phase = "end"
    BY <1>3 DEF DispatchReturn
  <2> QED
    BY <1>1, <2>1 DEF Account, DispatchAccount
<1> QED
  BY <1>2, <1>3 DEF Pops

\* Only the last frame goes, and only as its call ends.
LEMMA GoesAsItEnds ==
  ASSUME IInv, [Next]_vars, NEW n \in DOMAIN frames, n = Len(frames), Len(frames') < n
  PROVE  Pops /\ frames[n] = Top
<1>1. Len(frames') < Len(frames)
  OBVIOUS
<1>2. Len(frames) \in Nat
  BY InvParts, LenProperties DEF Sound
<1>3. frames' # frames
  BY <1>1, <1>2
<1>4. Next
  BY <1>3 DEF vars
<1> QED
  BY <1>1, <1>4, StepIsLawful DEF StepLawful, Top

\* An emission that nothing cut short has called each listener that was registered
\* when it began, once and in order, whatever the listeners did meanwhile, to the
\* list that calls them too (ee_emit's snapshot).
THEOREM EmissionsCallEveryone ==
  Spec => [][\A n \in DOMAIN frames :
               n = Len(frames) /\ Len(frames') < n /\ ~frames[n].cut /\ frames[n].kind = "emit"
                 => frames[n].called = frames[n].owed]_vars
<1>1. ASSUME IInv, [Next]_vars
      PROVE  [\A n \in DOMAIN frames :
                n = Len(frames) /\ Len(frames') < n /\ ~frames[n].cut /\ frames[n].kind = "emit"
                  => frames[n].called = frames[n].owed]_vars
  <2> SUFFICES ASSUME NEW n \in DOMAIN frames, n = Len(frames), Len(frames') < n,
                      ~frames[n].cut, frames[n].kind = "emit"
               PROVE  frames[n].called = frames[n].owed
    OBVIOUS
  <2>1. Pops /\ frames[n] = Top
    BY <1>1, GoesAsItEnds
  <2> QED
    BY <1>1, <2>1, PoppedHasCalled
<1>2. IInv /\ [Next]_vars => IInv'
  BY NextIInv, StutterIInv
<1> QED
  BY <1>1, <1>2, InitIInv, PTL DEF Spec

\* The same of dispatches too, where no listener changes the list that calls it
\* (native_EventTarget_dispatch: its loop over the live list).
THEOREM EveryoneIsCalled == ~Reentrant => (Spec => CallsEveryone)
<1> SUFFICES ASSUME ~Reentrant PROVE Spec => CallsEveryone
  OBVIOUS
<1> DEFINE A == \A n \in DOMAIN frames :
                  n = Len(frames) /\ Len(frames') < n /\ ~frames[n].cut
                    => frames[n].called = frames[n].owed
<1>1. ASSUME IInv, [Next]_vars
      PROVE  [A]_vars
  <2> SUFFICES ASSUME NEW n \in DOMAIN frames, n = Len(frames), Len(frames') < n, ~frames[n].cut
               PROVE  frames[n].called = frames[n].owed
    OBVIOUS
  <2>1. Pops /\ frames[n] = Top
    BY <1>1, GoesAsItEnds
  <2>2. Top.kind = "emit" \/ Top.on \in Single
    <3>1. frames # <<>> /\ LawfulFrame(Top, world, aborted) /\ Top \in Frame
      BY <1>1, <2>1, TopFacts DEF Pops, EmitEnd, DispatchReturn
    <3> QED
      BY <3>1, FrameIsRecord DEF LawfulFrame, Single
  <2> QED
    BY <1>1, <2>1, <2>2, PoppedHasCalled
<1>2. IInv /\ [Next]_vars => IInv'
  BY NextIInv, StutterIInv
<1> QED
  BY <1>1, <1>2, InitIInv, PTL DEF Spec, CallsEveryone

\* A signal is aborted once, with one reason, and announces it once, as it is
\* aborted (signal_do_abort), whatever its listeners do: to its list, to its
\* event, to other signals.
THEOREM AbortsAreFinal == Spec => AbortsOnce
<1> DEFINE A == \A s \in Signals : aborted[s] => aborted'[s] /\ reason'[s] = reason[s]
           B == \A s \in Signals :
                  frames' # frames /\ Len(frames') > Len(frames) /\ frames'[Len(frames')].on = s
                    => ~aborted[s] /\ aborted'[s]
<1>1. ASSUME IInv, [Next]_vars
      PROVE  [A]_vars /\ [B]_vars
  <2>1. CASE Next
    BY <1>1, <2>1, StepIsLawful DEF StepLawful
  <2>2. CASE UNCHANGED vars
    BY <2>2
  <2> QED
    BY <1>1, <2>1, <2>2
<1>2. IInv /\ [Next]_vars => IInv'
  BY NextIInv, StutterIInv
<1> QED
  BY <1>1, <1>2, InitIInv, PTL DEF Spec, AbortsOnce

\* Besides, where no listener changes the list that calls it or stops the event
\* of an abort: whenever no dispatch runs, the composites of an aborted signal are
\* aborted, each for the reason of one of the signals that are (abort_any_cb,
\* as_any).  A removal or a stop ends the dispatch before it has come to them.
THEOREM SignalsKeepTheLaw == ~Reentrant => (Spec => SignalsLawful)
<1> SUFFICES ASSUME ~Reentrant PROVE Spec => SignalsLawful
  OBVIOUS
<1>1. ASSUME IInv PROVE FollowsItsSources
  <2> SUFFICES ASSUME frames = <<>>, NEW s \in Signals, NEW c \in Signals, aborted[s],
                      NEW r \in Range(kept[s][AbortType]), r.cb = c
               PROVE  aborted[c] /\ \E q \in Signals : q # c /\ aborted[q] /\ reason[q] = reason[c]
    BY DEF FollowsItsSources
  <2>1. s \in Targets /\ list[s] \in Seq(Rec) /\ s \in Single
    BY <1>1, EventsAssumption, InvParts DEF TypeOK, Single
  <2>2. r \in Range(list[s])
    <3>1. kept[s][AbortType] = NotOnce(OfType(list[s], AbortType))
      <4>1. s \in Objects /\ s \notin Emitters /\ AbortType \in Types
        BY <2>1, EventsAssumption DEF Objects
      <4> QED
        BY <1>1, <4>1, InvParts DEF ListenersKept, Registered
    <3> DEFINE l == OfType(list[s], AbortType)
    <3>2. l \in Seq(Rec) /\ Range(l) \subseteq Range(list[s])
      BY <2>1, PickedType, PickedRange DEF OfType
    <3> HIDE DEF l
    <3>3. Range(NotOnce(l)) \subseteq Range(l)
      BY <3>2, PickedRange DEF NotOnce
    <3> QED
      BY <3>1, <3>2, <3>3 DEF l
  <2>3. PICK k \in 1 .. Len(list[s]) : list[s][k] = r
    BY <2>1, <2>2, ElementsInRange
  <2>4. ~ToBeTold(frames, s, k)
    <3>1. Len(<<>>) = 0
      OBVIOUS
    <3> QED
      BY <3>1 DEF ToBeTold
  <2>5. aborted[c]
    BY <1>1, <2>1, <2>3, <2>4, InvParts DEF Announced
  <2>6. Hears(s, r)
    BY <1>1, <2>1, <2>2, InvParts DEF CompositesHear
  <2> QED
    BY <2>5, <2>6 DEF Hears
<1>2. IInv /\ [Next]_vars => IInv'
  BY NextIInv, StutterIInv
<1> QED
  BY <1>1, <1>2, InitIInv, AbortsAreFinal, PTL DEF Spec, SignalsLawful
=============================================================================
