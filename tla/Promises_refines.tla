--------------------------- MODULE Promises_refines ---------------------------
(***************************************************************************)
(* Promises implements PromiseSpec, for every script, host and number of   *)
(* promises; and a promise that takes over an outcome gets that outcome.   *)
(***************************************************************************)
EXTENDS Promises_proofs, WellFoundedInduction

----------------------------------------------------------------------------
(* The reactions that drains have detached, along the stack.               *)

LEMMA LeastNumber ==
  ASSUME NEW T, T \subseteq Nat, T # {}
  PROVE  \E m \in T : \A n \in T : m <= n
<1> DEFINE R == OpToRel(<, Nat)
<1>1. IsWellFoundedOn(R, Nat)
  BY NatLessThanWellFounded
<1>2. \A m, n \in Nat : n < m => <<n, m>> \in R
  BY DEF OpToRel
<1> HIDE DEF R
<1>3. PICK m \in T : \A n \in T : ~(<<n, m>> \in R)
  BY <1>1, WFMin
<1>4. ASSUME NEW n \in T PROVE m <= n
  <2>1. m \in Nat /\ n \in Nat
    OBVIOUS
  <2>2. ~(n < m)
    BY <1>2, <1>3, <2>1, Zenon
  <2> QED
    BY <2>1, <2>2
<1> QED
  BY <1>4

Adds(a, p, s) == IF a.k = "drain" /\ a.p = p THEN s \o a.todo ELSE s
Along(f, C, p, m) ==
  f = [n \in 0 .. m |-> IF n = 0 THEN <<>> ELSE Adds(C[n], p, f[n - 1])]

LEMMA AlongExists ==
  ASSUME NEW C, NEW p, NEW m \in Nat
  PROVE  \E f : Along(f, C, p, m)
<1> DEFINE T == {n \in Nat : ~ \E f : Along(f, C, p, n)}
<1> SUFFICES ASSUME T # {} PROVE FALSE
  OBVIOUS
<1>1. PICK k \in T : \A n \in T : k <= n
  BY LeastNumber
<1>2. k # 0
  <2> DEFINE f == [n \in 0 .. 0 |-> <<>>]
  <2>1. Along(f, C, p, 0)
    BY DEF Along
  <2> QED
    BY <2>1
<1>3. PICK g : Along(g, C, p, k - 1)
  BY <1>1, <1>2
<1>4. \A n \in 0 .. k - 1 : g[n] = IF n = 0 THEN <<>> ELSE Adds(C[n], p, g[n - 1])
  BY <1>3 DEF Along
<1>5. PICK e : e = Adds(C[k], p, g[k - 1])
  OBVIOUS
<1>6. PICK f : f = [n \in 0 .. k |-> IF n = k THEN e ELSE g[n]]
  OBVIOUS
<1>7. \A n \in 0 .. k : f[n] = IF n = 0 THEN <<>> ELSE Adds(C[n], p, f[n - 1])
  <2> SUFFICES ASSUME NEW n \in 0 .. k
               PROVE  f[n] = IF n = 0 THEN <<>> ELSE Adds(C[n], p, f[n - 1])
    OBVIOUS
  <2>1. CASE n = k
    <3>1. f[k] = e /\ f[k - 1] = g[k - 1]
      BY <1>1, <1>2, <1>6
    <3> QED
      BY <1>2, <1>5, <2>1, <3>1
  <2>2. CASE n # k
    <3>1. n \in 0 .. k - 1 /\ f[n] = g[n] /\ (n # 0 => f[n - 1] = g[n - 1])
      BY <1>1, <1>6, <2>2
    <3> QED
      BY <1>4, <3>1
  <2> QED
    BY <2>1, <2>2
<1>8. Along(f, C, p, k)
  BY <1>6, <1>7 DEF Along
<1> QED
  BY <1>8

\* What is detached up to a place depends on the stack up to that place.
LEMMA AlongSame ==
  ASSUME NEW C, NEW D, NEW p, NEW m \in Nat, NEW k \in Nat, NEW f, Along(f, C, p, m),
         NEW g, Along(g, D, p, k), NEW j \in Nat, j <= m, j <= k,
         \A i \in 1 .. j : C[i] = D[i]
  PROVE  f[j] = g[j]
<1> DEFINE T == {n \in 0 .. j : f[n] # g[n]}
<1> SUFFICES ASSUME T # {} PROVE FALSE
  OBVIOUS
<1>0. T \subseteq Nat
  OBVIOUS
<1>1. PICK n \in T : \A i \in T : n <= i
  <2> HIDE DEF T
  <2> QED
    BY <1>0, LeastNumber
<1>2. \A i \in 0 .. j : /\ f[i] = IF i = 0 THEN <<>> ELSE Adds(C[i], p, f[i - 1])
                        /\ g[i] = IF i = 0 THEN <<>> ELSE Adds(D[i], p, g[i - 1])
  BY DEF Along
<1>3. n # 0
  BY <1>2
<1>4. n - 1 \in 0 .. j /\ n - 1 \notin T
  BY <1>1, <1>3
<1>5. f[n - 1] = g[n - 1] /\ C[n] = D[n]
  BY <1>3, <1>4
<1> QED
  BY <1>2, <1>3, <1>5

LEMMA AlongTyped ==
  ASSUME NEW C \in Seq(Activation), NEW p, NEW f, Along(f, C, p, Len(C))
  PROVE  f[Len(C)] \in Seq(Reaction)
<1> DEFINE T == {n \in 0 .. Len(C) : f[n] \notin Seq(Reaction)}
<1>0. Len(C) \in Nat
  BY LenProperties
<1> SUFFICES ASSUME T # {} PROVE FALSE
  BY <1>0
<1>7. T \subseteq Nat
  BY <1>0
<1>1. PICK n \in T : \A i \in T : n <= i
  <2> HIDE DEF T
  <2> QED
    BY <1>7, LeastNumber
<1>2. \A i \in 0 .. Len(C) : f[i] = IF i = 0 THEN <<>> ELSE Adds(C[i], p, f[i - 1])
  BY <1>0 DEF Along
<1>3. n # 0
  BY <1>0, <1>2, EmptySeq
<1>4. n - 1 \in 0 .. Len(C) /\ n - 1 \notin T /\ n \in 1 .. Len(C)
  BY <1>0, <1>1, <1>3
<1>5. f[n - 1] \in Seq(Reaction) /\ C[n].todo \in Seq(Reaction)
  <2>1. C[n] \in Activation
    BY <1>4, ElementOfSeq
  <2> QED
    BY <1>4, <2>1 DEF Activation
<1>6. Adds(C[n], p, f[n - 1]) \in Seq(Reaction)
  BY <1>5, ConcatProperties DEF Adds
<1> QED
  BY <1>2, <1>3, <1>6

LEMMA DetachedAlong ==
  ASSUME NEW C \in Seq(Activation), NEW p
  PROVE  \E f : Along(f, C, p, Len(C)) /\ DetachedIn(C, p) = f[Len(C)]
<1>1. Len(C) \in Nat
  BY LenProperties
<1> DEFINE Is(f) == f = [n \in 0 .. Len(C) |->
                           IF n = 0 THEN <<>>
                           ELSE IF C[n].k = "drain" /\ C[n].p = p THEN f[n - 1] \o C[n].todo
                                ELSE f[n - 1]]
           up == CHOOSE f : Is(f)
<1>2. PICK f : Along(f, C, p, Len(C))
  BY <1>1, AlongExists
<1>3. Is(f)
  BY <1>2 DEF Along, Adds
<1>4. Is(up)
  BY <1>3
<1>5. DetachedIn(C, p) = up[Len(C)]
  BY DEF DetachedIn
<1>6. Along(up, C, p, Len(C))
  BY <1>4 DEF Along, Adds
<1> QED
  BY <1>5, <1>6

\* An activation on top adds its list if it is a drain of p.
LEMMA DetachedPushed ==
  ASSUME NEW C \in Seq(Activation), NEW a \in Activation, NEW p
  PROVE  /\ DetachedIn(Append(C, a), p) = Adds(a, p, DetachedIn(C, p))
         /\ DetachedIn(C, p) \in Seq(Reaction)
<1>1. PICK D : D = Append(C, a)
  OBVIOUS
<1>2. /\ D \in Seq(Activation) /\ Len(D) = Len(C) + 1 /\ Len(C) \in Nat
      /\ \A i \in 1 .. Len(C) : D[i] = C[i]
      /\ D[Len(C) + 1] = a
  BY <1>1, PushedType
<1>3. PICK f : Along(f, C, p, Len(C)) /\ DetachedIn(C, p) = f[Len(C)]
  BY DetachedAlong
<1>4. PICK g : Along(g, D, p, Len(D)) /\ DetachedIn(D, p) = g[Len(D)]
  BY <1>2, DetachedAlong
<1>5. g[Len(C)] = f[Len(C)]
  <2>1. PICK m, k : m = Len(C) /\ k = Len(D)
    OBVIOUS
  <2>2. m \in Nat /\ k \in Nat /\ m <= k /\ \A i \in 1 .. m : C[i] = D[i]
    BY <1>2, <2>1
  <2>3. Along(f, C, p, m) /\ Along(g, D, p, k)
    BY <1>3, <1>4, <2>1
  <2>4. f[m] = g[m]
    BY <2>2, <2>3, AlongSame
  <2> QED
    BY <2>1, <2>4
<1>6. g[Len(D)] = Adds(D[Len(D)], p, g[Len(D) - 1])
  <2>1. \A n \in 0 .. Len(D) : g[n] = IF n = 0 THEN <<>> ELSE Adds(D[n], p, g[n - 1])
    BY <1>4 DEF Along
  <2> QED
    BY <1>2, <2>1
<1>7. DetachedIn(D, p) = Adds(a, p, DetachedIn(C, p))
  BY <1>2, <1>3, <1>4, <1>5, <1>6
<1> QED
  BY <1>1, <1>3, <1>7, AlongTyped

LEMMA DetachedEmpty ==
  ASSUME NEW p
  PROVE  DetachedIn(<<>>, p) = <<>>
<1>1. <<>> \in Seq(Activation) /\ Len(<<>>) = 0
  BY EmptySeq
<1>2. PICK f : Along(f, <<>>, p, 0) /\ DetachedIn(<<>>, p) = f[0]
  BY <1>1, DetachedAlong
<1> QED
  BY <1>2 DEF Along

----------------------------------------------------------------------------
(* What a step does to the promises, that PromiseSpec can see.             *)

\* The step goes on with S, makes or settles q and registers r with x; each
\* may be None.
Moves(S, q, x, r) ==
  /\ {q, x} \subseteq Promise \cup {None} /\ (q = x => q = None)
  /\ \A y \in Promise : y # q => state'[y] = state[y] /\ value'[y] = value[y]
  /\ q # None => \/ state[q] = "PENDING" /\ state'[q] \in Final
                 \/ state[q] = "UNBORN" /\ state'[q] # "UNBORN"
  /\ \A y \in Promise : y # x => reactions'[y] = reactions[y]
  /\ x # None => /\ state[x] # "UNBORN" /\ r \in Reaction
                 /\ reactions'[x] = Append(reactions[x], r)
  /\ \A y \in Promise : DetachedIn(ctl', y) = DetachedIn(S, y)

\* An activation that is no drain detaches nothing.
LEMMA DetachedUnder ==
  ASSUME NEW S \in Seq(Activation), NEW a \in Activation, a.k # "drain" \/ a.todo = <<>>,
         NEW y
  PROVE  DetachedIn(Append(S, a), y) = DetachedIn(S, y)
<1>1. PICK d : d = DetachedIn(S, y)
  OBVIOUS
<1>2. d \in Seq(Reaction) /\ DetachedIn(Append(S, a), y) = Adds(a, y, d)
  BY <1>1, DetachedPushed
<1>3. a.todo = <<>> => d \o a.todo = d
  BY <1>2, ConcatEmptySeq
<1> QED
  BY <1>1, <1>2, <1>3 DEF Adds

LEMMA ScheduleMoves ==
  ASSUME TypeOK, NEW S \in Seq(Activation), NEW p \in Promise, NEW R, Schedule(p, R, S),
         NEW y \in Promise
  PROVE  DetachedIn(ctl', y) = DetachedIn(S, y)
<1>1. PICK a : a = Active("enter", p)
  OBVIOUS
<1>2. a \in Activation /\ a.k = "enter"
  BY <1>1, FreshActivation
<1>3. DetachedIn(Append(S, a), y) = DetachedIn(S, y)
  BY <1>2, DetachedUnder
<1>4. ctl' = S \/ ctl' = Append(S, a)
  BY <1>1 DEF Schedule, Keep
<1> QED
  BY <1>3, <1>4

LEMMA SkipMoves ==
  ASSUME NEW S, Skip(S)
  PROVE  Moves(S, None, None, None)
BY DEF Skip, Keep, Moves, promiseVars

LEMMA ConcludeMoves ==
  ASSUME TypeOK, NEW S \in Seq(Activation), NEW p \in Promise, state[p] = "PENDING",
         NEW st \in Final, NEW v, NEW src, Conclude(p, st, v, src, S)
  PROVE  Moves(S, p, None, None)
<1>1. \A y \in Promise : DetachedIn(ctl', y) = DetachedIn(S, y)
  <2>1. Schedule(p, {}, S)
    BY DEF Conclude
  <2> QED
    BY <2>1, ScheduleMoves
<1>2. None \notin Promise
  BY NatFacts
<1> QED
  BY <1>1, <1>2 DEF Conclude, Settle, Moves, TypeOK

LEMMA ThenOnMoves ==
  ASSUME TypeOK, NEW S \in Seq(Activation), NEW x \in Promise, NEW r, NEW R, ThenOn(x, r, R, S)
  PROVE  /\ reactions' = [reactions EXCEPT ![x] = Append(@, r)]
         /\ \A y \in Promise : DetachedIn(ctl', y) = DetachedIn(S, y)
<1>1. ASSUME NEW y \in Promise PROVE DetachedIn(ctl', y) = DetachedIn(S, y)
  <2>1. Keep(R \cup {x}, S) \/ Schedule(x, R, S)
    BY DEF ThenOn
  <2>2. CASE Keep(R \cup {x}, S)
    BY <2>2 DEF Keep
  <2>3. CASE Schedule(x, R, S)
    BY <2>3, ScheduleMoves
  <2> QED
    BY <2>1, <2>2, <2>3
<1> QED
  BY <1>1 DEF ThenOn

LEMMA AdoptMoves ==
  ASSUME TypeOK, NEW S \in Seq(Activation), NEW p \in Promise, NEW v,
         v \in Promise => state[v] # "UNBORN", Adopt(p, v, S)
  PROVE  \E x \in {None, v} : \E r : Moves(S, None, x, r)
<1>1. state' = state /\ value' = value
  BY DEF Adopt
<1>2. CASE v \in Promise
  <2>1. PICK r : r = [onF |-> Calls("resolve", p, 0), onR |-> Calls("reject", p, 0), np |-> None]
    OBVIOUS
  <2>2. v # Thenable
    BY <1>2, PromiseAssumption
  <2>3. ThenOn(v, r, {p}, S)
    BY <1>2, <2>1, <2>2 DEF Adopt
  <2>4. r \in Reaction
    BY <2>1 DEF Reaction, Handler, Calls
  <2>5. None \notin Promise
    BY NatFacts
  <2>6. /\ reactions' = [reactions EXCEPT ![v] = Append(@, r)]
        /\ \A y \in Promise : DetachedIn(ctl', y) = DetachedIn(S, y)
    BY <1>2, <2>3, ThenOnMoves
  <2>7. Moves(S, None, v, r)
    BY <1>1, <1>2, <2>4, <2>5, <2>6 DEF Moves, TypeOK
  <2> QED
    BY <2>7
<1>3. CASE v \notin Promise
  <2>1. PICK a : a = Active("then", p)
    OBVIOUS
  <2>2. ctl' = Append(S, a) /\ reactions' = reactions
    BY <1>3, <2>1 DEF Adopt, Keep
  <2>3. a \in Activation /\ a.k = "then"
    BY <2>1, FreshActivation
  <2>4. \A y \in Promise : DetachedIn(ctl', y) = DetachedIn(S, y)
    BY <2>2, <2>3, DetachedUnder
  <2>5. Moves(S, None, None, None)
    BY <1>1, <2>2, <2>4 DEF Moves
  <2> QED
    BY <2>5
<1> QED
  BY <1>2, <1>3

LEMMA CallMoves ==
  ASSUME TypeOK, NEW S \in Seq(Activation), NEW p \in Promise, NEW v,
         v \in Promise => state[v] # "UNBORN",
         ResolveCb(p, v, S) \/ RejectCb(p, v, S) \/ SettleChained(p, v, S)
  PROVE  \E q \in {None, p}, x \in {None, v} : \E r : Moves(S, q, x, r)
<1>1. \/ Skip(S)
      \/ Adopt(p, v, S)
      \/ \E st \in Final : \E w, src : state[p] = "PENDING" /\ Conclude(p, st, w, src, S)
  BY DEF ResolveCb, RejectCb, SettleChained, Final
<1>2. CASE Skip(S)
  BY <1>2, SkipMoves
<1>3. CASE Adopt(p, v, S)
  BY <1>3, AdoptMoves
<1>4. CASE \E st \in Final : \E w, src : state[p] = "PENDING" /\ Conclude(p, st, w, src, S)
  BY <1>4, ConcludeMoves
<1> QED
  BY <1>1, <1>2, <1>3, <1>4

\* W without its element i.
Without1(W, i) == SubSeq(W, 1, i - 1) \o SubSeq(W, i + 1, Len(W))

LEMMA RunShortens ==
  ASSUME NEW S, NEW W \in Seq(S), NEW i \in DOMAIN W
  PROVE  Len(Without1(W, i)) = Len(W) - 1
<1>1. Len(W) \in Nat /\ i \in 1 .. Len(W)
  BY LenProperties
<1>2. PICK A, B : A = SubSeq(W, 1, i - 1) /\ B = SubSeq(W, i + 1, Len(W))
  OBVIOUS
<1>3. A \in Seq(S) /\ Len(A) = i - 1
  <2>1. 1 \in Int /\ i - 1 \in Int /\ \A j \in 1 .. i - 1 : W[j] \in S
    BY <1>1, ElementOfSeq
  <2>2. A \in Seq(S) /\ Len(A) = IF 1 <= i - 1 THEN i - 1 - 1 + 1 ELSE 0
    BY <1>2, <2>1, SubSeqProperties
  <2> QED
    BY <1>1, <2>2
<1>4. B \in Seq(S) /\ Len(B) = Len(W) - i
  <2>1. i + 1 \in Int /\ Len(W) \in Int /\ \A j \in i + 1 .. Len(W) : W[j] \in S
    BY <1>1, ElementOfSeq
  <2>2. B \in Seq(S) /\ Len(B) = IF i + 1 <= Len(W) THEN Len(W) - (i + 1) + 1 ELSE 0
    BY <1>2, <2>1, SubSeqProperties
  <2> QED
    BY <1>1, <2>2
<1>5. Len(A \o B) = Len(A) + Len(B)
  BY <1>3, <1>4, ConcatProperties
<1>6. Without1(W, i) = A \o B
  BY <1>2 DEF Without1
<1>7. Len(A) + Len(B) = Len(W) - 1
  BY <1>1, <1>3, <1>4
<1> QED
  BY <1>5, <1>6, <1>7

\* A promise that the step makes, settles, registers with or leaves alone.
LEMMA OnePromised ==
  ASSUME TypeOK, TypeOK', NEW S, NEW q, NEW x, NEW r, Moves(S, q, x, r), NEW y \in Promise,
         DetachedIn(S, y) = DetachedIn(ctl, y), DetachedIn(ctl, y) \in Seq(Reaction)
  PROVE  /\ Promised!Make(y) \/ Promised!Register(y) \/ Promised!Settle(y) \/ Promised!Rest(y)
         /\ ~Promised!Run(y)
<1>1. PICK d : d = DetachedIn(ctl, y) /\ d \in Seq(Reaction) /\ d = DetachedIn(ctl', y)
  BY DEF Moves
<1>2. PICK R, R2 : /\ R = reactions[y] /\ R2 = reactions'[y]
                   /\ R \in Seq(Reaction) /\ R2 \in Seq(Reaction)
  BY DEF TypeOK
<1>3. PICK W, W2 : W = d \o R /\ W2 = d \o R2
  OBVIOUS
<1>4. W = Detached(y) \o reactions[y] /\ W2 = (Detached(y) \o reactions[y])'
  BY <1>1, <1>2, <1>3 DEF Detached
<1>5. /\ W \in Seq(Reaction) /\ W2 \in Seq(Reaction)
      /\ Len(W) = Len(d) + Len(R) /\ Len(W2) = Len(d) + Len(R2)
      /\ Len(d) \in Nat /\ Len(R) \in Nat
  BY <1>1, <1>2, <1>3, ConcatProperties, LenProperties
<1>6. R2 = R \/ (y = x /\ x # None /\ R2 = Append(R, r) /\ r \in Reaction)
  BY <1>2, NatFacts DEF Moves
<1>7. Len(R2) >= Len(R)
  BY <1>2, <1>5, <1>6, AppendProperties
<1>8. ~Promised!Run(y)
  <2> SUFFICES ASSUME NEW i \in DOMAIN W, W2 = Without1(W, i) PROVE FALSE
    BY <1>4 DEF Promised!Run, Promised!RemoveAt, Without1
  <2>1. Len(W2) = Len(W) - 1
    BY <1>5, RunShortens
  <2> QED
    BY <1>5, <1>7, <2>1
<1>9. CASE R2 = R
  <2>1. W2 = W
    BY <1>3, <1>9
  <2>2. \/ state'[y] = state[y] /\ value'[y] = value[y]
        \/ state[y] = "PENDING" /\ state'[y] \in Final
        \/ state[y] = "UNBORN" /\ state'[y] # "UNBORN"
    BY NatFacts DEF Moves
  <2>3. CASE state'[y] = state[y] /\ value'[y] = value[y]
    BY <1>4, <1>8, <2>1, <2>3 DEF Promised!Rest
  <2>4. CASE state[y] = "PENDING" /\ state'[y] \in Final
    BY <1>4, <1>8, <2>1, <2>4 DEF Promised!Settle, Final, Promised!Final
  <2>5. CASE state[y] = "UNBORN" /\ state'[y] # "UNBORN"
    BY <1>4, <1>8, <2>1, <2>5 DEF Promised!Make
  <2> QED
    BY <2>2, <2>3, <2>4, <2>5
<1>10. CASE y = x /\ x # None /\ R2 = Append(R, r) /\ r \in Reaction
  <2>1. /\ state[y] # "UNBORN" /\ state'[y] = state[y] /\ value'[y] = value[y]
    BY <1>10 DEF Moves
  <2>2. Len(R2) = Len(R) + 1 /\ \A i \in 1 .. Len(R) : R2[i] = R[i]
    <3>1. PICK rr : rr = r
      OBVIOUS
    <3>2. rr \in Reaction /\ R2 = Append(R, rr)
      BY <1>10, <3>1
    <3> QED
      BY <1>2, <3>2, PushedType
  <2>3. SubSeq(W2, 1, Len(W)) = W
    <3>1. /\ \A i \in 1 .. Len(W) : W[i] = IF i <= Len(d) THEN d[i] ELSE R[i - Len(d)]
          /\ \A i \in 1 .. Len(W2) : W2[i] = IF i <= Len(d) THEN d[i] ELSE R2[i - Len(d)]
      BY <1>1, <1>2, <1>3, <1>5, ConcatProperties
    <3>2. \A i \in 1 .. Len(W) : W2[i] = W[i]
      <4> SUFFICES ASSUME NEW i \in 1 .. Len(W) PROVE W2[i] = W[i]
        OBVIOUS
      <4>1. i \in 1 .. Len(W2) /\ (~(i <= Len(d)) => i - Len(d) \in 1 .. Len(R))
        BY <1>5, <2>2
      <4> QED
        BY <2>2, <3>1, <4>1
    <3>3. /\ SubSeq(W2, 1, Len(W)) \in Seq(Reaction) /\ Len(SubSeq(W2, 1, Len(W))) = Len(W)
          /\ \A i \in 1 .. Len(W) : SubSeq(W2, 1, Len(W))[i] = W2[i]
      BY <1>5, <2>2, SubSeqProperties
    <3> QED
      BY <1>5, <3>2, <3>3, SeqEqual
  <2>4. Promised!Register(y)
    <3>1. Len(W2) = Len(W) + 1
      BY <1>5, <2>2
    <3>2. PICK n : n = Len(W)
      OBVIOUS
    <3>3. Len(W2) = n + 1 /\ SubSeq(W2, 1, n) = W
      BY <2>3, <3>1, <3>2
    <3> QED
      BY <1>4, <2>1, <3>2, <3>3 DEF Promised!Register
  <2> QED
    BY <1>8, <2>4
<1> QED
  BY <1>6, <1>9, <1>10

\* A step that runs no reaction.
LEMMA MovesPromised ==
  ASSUME TypeOK, TypeOK', NEW S, NEW q, NEW x, NEW r, Moves(S, q, x, r),
         \A y \in Promise : DetachedIn(S, y) = DetachedIn(ctl, y),
         \A y \in Promise : DetachedIn(ctl, y) \in Seq(Reaction),
         script'.inline = script.inline
  PROVE  Promised!Next
<1>1. \A y \in Promise :
        /\ Promised!Make(y) \/ Promised!Register(y) \/ Promised!Settle(y) \/ Promised!Rest(y)
        /\ ~Promised!Run(y)
  BY OnePromised
<1>2. (~script.inline)' = ~script.inline
  OBVIOUS
<1> QED
  BY <1>1, <1>2 DEF Promised!Next

----------------------------------------------------------------------------
(* The stacks of the actions.                                              *)

Same(S) == \A y \in Promise : DetachedIn(S, y) = DetachedIn(ctl, y)
Quieted(a) == a.k # "drain" \/ a.todo = <<>>

LEMMA DetachedTyped ==
  ASSUME NEW C \in Seq(Activation), NEW p
  PROVE  DetachedIn(C, p) \in Seq(Reaction)
<1>1. PICK a : a = Active("main", None)
  OBVIOUS
<1>2. a \in Activation
  BY <1>1, FreshActivation
<1> QED
  BY <1>2, DetachedPushed

LEMMA TopAndBelow ==
  ASSUME TypeOK, ctl # <<>>
  PROVE  Below \in Seq(Activation) /\ Top \in Activation /\ ctl = Append(Below, Top)
<1>1. /\ Len(ctl) \in Nat \ {0} /\ Top \in Activation /\ Top = ctl[Len(ctl)]
      /\ Below \in Seq(Activation) /\ Len(Below) = Len(ctl) - 1
      /\ \A i \in 1 .. Len(ctl) - 1 : Below[i] = ctl[i]
  BY StackType
<1>2. PICK B, a : B = Below /\ a = Top
  OBVIOUS
<1>3. /\ Append(B, a) \in Seq(Activation) /\ Len(Append(B, a)) = Len(B) + 1
      /\ \A i \in 1 .. Len(B) : Append(B, a)[i] = B[i]
      /\ Append(B, a)[Len(B) + 1] = a
  BY <1>1, <1>2, PushedType
<1>4. \A i \in 1 .. Len(ctl) : Append(B, a)[i] = ctl[i]
  BY <1>1, <1>2, <1>3
<1>5. ctl \in Seq(Activation) /\ Len(Append(B, a)) = Len(ctl)
  BY <1>1, <1>2, <1>3 DEF TypeOK
<1>6. Append(B, a) = ctl
  BY <1>3, <1>4, <1>5, SeqEqual
<1> QED
  BY <1>1, <1>2, <1>6

LEMMA SameStacks ==
  ASSUME TypeOK, ctl # <<>>, Quieted(Top)
  PROVE  /\ Below \in Seq(Activation) /\ Same(Below)
         /\ \A a \in Activation : Quieted(a) =>
              Replaced(a) \in Seq(Activation) /\ Same(Replaced(a))
<1>1. Below \in Seq(Activation) /\ Top \in Activation /\ ctl = Append(Below, Top)
  BY TopAndBelow
<1>2. PICK B, t : B = Below /\ t = Top
  OBVIOUS
<1>3. ASSUME NEW a \in Activation, Quieted(a), NEW y \in Promise
      PROVE  DetachedIn(Append(B, a), y) = DetachedIn(B, y)
  BY <1>1, <1>2, <1>3, DetachedUnder DEF Quieted
<1>4. Same(B)
  BY <1>1, <1>2, <1>3 DEF Same
<1>5. \A a \in Activation : Quieted(a) => Same(Append(B, a))
  BY <1>3, <1>4 DEF Same
<1> QED
  BY <1>1, <1>2, <1>4, <1>5, ReplacedType DEF Replaced

LEMMA SamePush ==
  ASSUME NEW S \in Seq(Activation), Same(S), NEW a \in Activation, Quieted(a)
  PROVE  Same(Append(S, a))
BY DetachedUnder DEF Same, Quieted

\* A step that goes on with a stack that has detached the same.
LEMMA StepPromised ==
  ASSUME TypeOK, TypeOK', NEW S, Same(S), NEW q, NEW x, NEW r, Moves(S, q, x, r),
         script'.inline = script.inline
  PROVE  Promised!Next
<1>1. \A y \in Promise : DetachedIn(ctl, y) \in Seq(Reaction)
  BY DetachedTyped DEF TypeOK
<1> QED
  BY <1>1, MovesPromised DEF Same

\* A promise is made, and nothing is registered.
LEMMA MadePromised ==
  ASSUME TypeOK, TypeOK', Numbered, NEW st, NEW v, MakeFresh(st, v), st # "UNBORN",
         reactions' = reactions,
         Same(ctl'), script'.inline = script.inline
  PROVE  Promised!Next
<1>1. PICK f : f = Fresh
  OBVIOUS
<1>2. f > born /\ f # None
  BY <1>1, NatFacts DEF Fresh
<1>3. state' = [state EXCEPT ![f] = st] /\ value' = [value EXCEPT ![f] = v]
  BY <1>1 DEF MakeFresh, Settle
<1>4. PICK S : S = ctl
  OBVIOUS
<1>5. Same(S) /\ \A y \in Promise : DetachedIn(ctl', y) = DetachedIn(S, y)
  BY <1>4 DEF Same
<1>6. CASE f \in Promise
  <2>1. state[f] = "UNBORN" /\ state'[f] # "UNBORN"
    BY <1>2, <1>3, <1>6 DEF Numbered, TypeOK
  <2>2. Moves(S, f, None, None)
    BY <1>2, <1>3, <1>5, <1>6, <2>1 DEF Moves, TypeOK
  <2> QED
    BY <1>5, <2>2, StepPromised
<1>7. CASE f \notin Promise
  <2>1. Moves(S, None, None, None)
    BY <1>3, <1>5, <1>7 DEF Moves, TypeOK
  <2> QED
    BY <1>5, <2>1, StepPromised
<1> QED
  BY <1>6, <1>7

----------------------------------------------------------------------------
(* The steps of script code.                                               *)

LEMMA MakePromised ==
  ASSUME NEW H, NEW U, Inv(H, U), TypeOK', script'.inline = script.inline,
         WithResolvers \/ Construct \/ MakeSettled \/ MakeAdopting \/ All \/ Race \/ AnyOf
  PROVE  Promised!Next
<1>1. TypeOK /\ Numbered /\ ctl \in Seq(Activation) /\ Same(ctl)
  BY InvFacts DEF TypeOK, Same
<1>2. \E st \in {"PENDING", "FULFILLED", "REJECTED"} : \E v :
        /\ MakeFresh(st, v) /\ reactions' = reactions
        /\ \/ ctl' = ctl
           \/ ctl' = Append(ctl, Active("executor", Fresh))
           \/ ctl' = Append(ctl, Active("then", Fresh))
           \/ ctl' = Append(ctl, Active("build", Fresh))
           \/ \E items \in Items : ctl' = Append(ctl, [Active("race", Fresh) EXCEPT !.items = items])
  <2>1. CASE WithResolvers
    BY <2>1 DEF WithResolvers, Keep
  <2>2. CASE Construct
    BY <2>2 DEF Construct, Keep
  <2>3. CASE MakeSettled
    BY <2>3 DEF MakeSettled, Keep
  <2>4. CASE MakeAdopting
    BY <2>4 DEF MakeAdopting, Keep
  <2>5. CASE All
    BY <2>5 DEF All, Keep
  <2>6. CASE Race
    BY <2>6 DEF Race, Keep
  <2>7. CASE AnyOf
    BY <2>7 DEF AnyOf, Keep
  <2> QED
    BY <2>1, <2>2, <2>3, <2>4, <2>5, <2>6, <2>7
<1>3. PICK st \in {"PENDING", "FULFILLED", "REJECTED"} : \E v :
        /\ MakeFresh(st, v) /\ reactions' = reactions
        /\ \/ ctl' = ctl
           \/ ctl' = Append(ctl, Active("executor", Fresh))
           \/ ctl' = Append(ctl, Active("then", Fresh))
           \/ ctl' = Append(ctl, Active("build", Fresh))
           \/ \E items \in Items : ctl' = Append(ctl, [Active("race", Fresh) EXCEPT !.items = items])
  BY <1>2
<1>4. \E v : MakeFresh(st, v) /\ reactions' = reactions
  BY <1>3
<1>5. Same(ctl')
  <2>1. PICK D : D = ctl'
    OBVIOUS
  <2>2. D = ctl \/ \E a : D = Append(ctl, a) /\ a.k # "drain"
    <3>1. \A k, p : Active(k, p).k = k
      BY DEF Active
    <3>2. \A p, items : [Active("race", p) EXCEPT !.items = items].k = "race"
      BY DEF Active
    <3>3. \/ D = ctl
          \/ \E k \in {"executor", "then", "build"} : D = Append(ctl, Active(k, Fresh))
          \/ \E items : D = Append(ctl, [Active("race", Fresh) EXCEPT !.items = items])
      BY <1>3, <2>1
    <3>4. \A k \in {"executor", "then", "build", "race"} : k # "drain"
      OBVIOUS
    <3>5. CASE \E k \in {"executor", "then", "build"} : D = Append(ctl, Active(k, Fresh))
      BY <3>1, <3>4, <3>5
    <3>6. CASE \E items : D = Append(ctl, [Active("race", Fresh) EXCEPT !.items = items])
      BY <3>2, <3>4, <3>6
    <3> QED
      BY <3>3, <3>5, <3>6
  <2>3. CASE D = ctl
    BY <1>1, <2>1, <2>3
  <2>4. CASE \E a : D = Append(ctl, a) /\ a.k # "drain"
    <3>1. PICK a : D = Append(ctl, a) /\ a.k # "drain"
      BY <2>4
    <3>2. D \in Seq(Activation) /\ D[Len(ctl) + 1] = a /\ Len(ctl) + 1 \in 1 .. Len(D)
      BY <1>1, <2>1, <3>1, LenProperties DEF TypeOK
    <3>3. a \in Activation
      BY <3>2, ElementOfSeq
    <3> QED
      BY <1>1, <2>1, <3>1, <3>3, SamePush DEF Quieted
  <2> QED
    BY <2>2, <2>3, <2>4
<1> QED
  BY <1>1, <1>4, <1>5, MadePromised

LEMMA CallPromised ==
  ASSUME NEW H, NEW U, Inv(H, U), TypeOK', script'.inline = script.inline, Resolve \/ Reject
  PROVE  Promised!Next
<1>1. TypeOK /\ Numbered /\ ctl \in Seq(Activation) /\ Same(ctl)
  BY InvFacts DEF TypeOK, Same
<1>2. \E p \in open : \E v \in Val \cup known \cup {Thenable} :
        ResolveCb(p, v, ctl) \/ RejectCb(p, v, ctl)
  BY DEF Resolve, Reject
<1>3. PICK p \in open, v \in Val \cup known \cup {Thenable} :
        ResolveCb(p, v, ctl) \/ RejectCb(p, v, ctl)
  BY <1>2
<1>4. p \in Promise /\ (v \in Promise => state[v] # "UNBORN")
  BY <1>1, NatFacts, PromiseAssumption DEF Numbered
<1>5. PICK q, x, r : Moves(ctl, q, x, r)
  BY <1>1, <1>3, <1>4, CallMoves
<1> QED
  BY <1>1, <1>5, StepPromised

LEMMA ThenPromised ==
  ASSUME NEW H, NEW U, Inv(H, U), TypeOK', script'.inline = script.inline, Then
  PROVE  Promised!Next
<1>1. TypeOK /\ Numbered /\ ctl \in Seq(Activation) /\ Same(ctl)
  BY InvFacts DEF TypeOK, Same
<1>2. PICK f : f = Fresh
  OBVIOUS
<1>3. /\ f \in Promise /\ f > born /\ f # None /\ state[f] = "UNBORN"
      /\ state' = [state EXCEPT ![f] = "PENDING"] /\ value' = [value EXCEPT ![f] = NoVal]
  <2>1. MakeFresh("PENDING", NoVal) /\ InScript("then")
    BY DEF Then
  <2>2. born < MaxPromises /\ born \in Nat /\ MaxPromises \in Nat
    BY <1>1, <2>1, NatFacts DEF MakeFresh, InScript
  <2>3. f \in Promise /\ f > born /\ f # None
    BY <1>2, <2>2 DEF Fresh, Promise, None
  <2> QED
    BY <1>1, <1>2, <2>1, <2>3 DEF MakeFresh, Settle, Numbered
<1>4. PICK p \in known, r \in Reaction : ThenOn(p, r, {}, ctl)
  <2>1. PICK p \in known, h \in {Js, NoHandler}, g \in {Js, NoHandler} :
          ThenOn(p, [onF |-> h, onR |-> g, np |-> f], {}, ctl)
    BY <1>2 DEF Then
  <2>2. [onF |-> h, onR |-> g, np |-> f] \in Reaction
    BY <1>3 DEF Reaction, Handler, Js, NoHandler, Calls, None
  <2> QED
    BY <2>1, <2>2
<1>5. p \in Promise /\ p # f /\ p # None /\ state[p] # "UNBORN"
  BY <1>1, <1>3, NatFacts DEF Numbered, Born
<1>6. /\ reactions' = [reactions EXCEPT ![p] = Append(@, r)]
      /\ \A y \in Promise : DetachedIn(ctl', y) = DetachedIn(ctl, y)
  BY <1>1, <1>4, <1>5, ThenOnMoves
<1>7. PICK S : S = ctl
  OBVIOUS
<1>8. Moves(S, f, p, r)
  <2>1. \A y \in Promise : DetachedIn(ctl', y) = DetachedIn(S, y)
    BY <1>6, <1>7
  <2>2. state'[f] # "UNBORN"
    BY <1>1, <1>3 DEF TypeOK
  <2> QED
    BY <1>1, <1>3, <1>5, <1>6, <2>1, <2>2 DEF Moves, TypeOK
<1> QED
  BY <1>1, <1>7, <1>8, StepPromised

LEMMA EndPromised ==
  ASSUME NEW H, NEW U, Inv(H, U), TypeOK', script'.inline = script.inline,
         EndStep \/ Release \/ Built \/ RaceEnd
  PROVE  Promised!Next
<1>1. TypeOK /\ Numbered /\ Owners(H, U)
  BY InvFacts
<1>2. /\ ctl # <<>>
      /\ Top.k \in {"main", "executor", "then", "handler", "release", "built", "race"}
  <2>1. CASE EndStep
    BY <2>1 DEF EndStep, Ends, MainEnd, ExecutorReturn, ExecutorThrow, ThenReturn, ThenThrow,
       HandlerReturn, HandlerThrow
  <2>2. CASE Release \/ Built \/ RaceEnd
    BY <2>2 DEF Ends, Release, Built, RaceEnd
  <2> QED
    BY <2>1, <2>2
<1>3. PICK p, S : p = Top.p /\ S = Below
  OBVIOUS
<1>4. S \in Seq(Activation) /\ Same(S)
  BY <1>1, <1>2, <1>3, SameStacks DEF Quieted
<1>5. Top.k # "main" => p \in Born /\ p \in Promise /\ state[p] # "UNBORN"
  BY <1>1, <1>2, <1>3, StackReady, NatFacts DEF GoodAt, Numbered
<1>6. Top.k = "handler" => state[p] = "PENDING"
  BY <1>1, <1>2, <1>3, StackReady DEF GoodAt, Owners
<1>7. CASE Skip(S)
  BY <1>1, <1>4, <1>7, SkipMoves, StepPromised
<1>8. CASE ExecutorThrow
  <2>1. /\ Ends("executor") /\ reactions' = reactions /\ ctl' = S
        /\ \E v \in Val : IF state[p] = "PENDING" THEN Settle(p, "REJECTED", v)
                                                  ELSE UNCHANGED <<state, value>>
    BY <1>3, <1>8 DEF ExecutorThrow, Keep
  <2>2. p \in Promise /\ p # None
    BY <1>1, <1>3, <1>5, <2>1, NatFacts DEF Ends
  <2>3. CASE state[p] = "PENDING"
    <3>1. PICK v \in Val : Settle(p, "REJECTED", v)
      BY <2>1, <2>3
    <3>2. Moves(S, p, None, None)
      BY <1>1, <2>1, <2>2, <2>3, <3>1 DEF Moves, Settle, TypeOK, Final
    <3> QED
      BY <1>1, <1>4, <3>2, StepPromised
  <2>4. CASE state[p] # "PENDING"
    <3>1. Moves(S, None, None, None)
      BY <2>1, <2>4 DEF Moves
    <3> QED
      BY <1>1, <1>4, <3>1, StepPromised
  <2> QED
    BY <2>3, <2>4
<1>9. CASE HandlerThrow
  <2>1. Ends("handler") /\ \E v \in Val : Conclude(p, "REJECTED", v, None, S)
    BY <1>3, <1>9 DEF HandlerThrow
  <2>2. p \in Promise /\ state[p] = "PENDING" /\ "REJECTED" \in Final
    BY <1>3, <1>5, <1>6, <2>1 DEF Ends, Final
  <2>3. PICK v \in Val : Conclude(p, "REJECTED", v, None, S)
    BY <2>1
  <2>4. Moves(S, p, None, None)
    BY <1>1, <1>4, <2>2, <2>3, ConcludeMoves
  <2> QED
    BY <1>1, <1>4, <2>4, StepPromised
<1>10. CASE ThenThrow \/ HandlerReturn
  <2>1. Top.k # "main"
    BY <1>10 DEF ThenThrow, HandlerReturn, Ends
  <2>2. \E v \in Val \cup known \cup {Thenable} : RejectCb(p, v, S) \/ SettleChained(p, v, S)
    BY <1>3, <1>10 DEF ThenThrow, HandlerReturn
  <2>3. PICK v \in Val \cup known \cup {Thenable} : RejectCb(p, v, S) \/ SettleChained(p, v, S)
    BY <2>2
  <2>4. v \in Promise => state[v] # "UNBORN"
    BY <1>1, NatFacts, PromiseAssumption DEF Numbered
  <2>5. PICK q, x, r : Moves(S, q, x, r)
    BY <1>1, <1>4, <1>5, <2>1, <2>3, <2>4, CallMoves
  <2> QED
    BY <1>1, <1>4, <2>5, StepPromised
<1>11. \/ Skip(S) \/ ExecutorThrow \/ HandlerThrow \/ ThenThrow \/ HandlerReturn
  BY <1>3 DEF EndStep, MainEnd, ExecutorReturn, ThenReturn, Release, Built, RaceEnd
<1> QED
  BY <1>7, <1>8, <1>9, <1>10, <1>11

----------------------------------------------------------------------------
(* The steps of natives and of the host.                                   *)

LEMMA BuildPromised ==
  ASSUME NEW H, NEW U, Inv(H, U), TypeOK', script'.inline = script.inline,
         BuildKnown \/ BuildThenable \/ BuildWait \/ BuildEnd
  PROVE  Promised!Next
<1>1. TypeOK /\ Numbered /\ AggregatesProper
  BY InvFacts
<1>2. ctl # <<>> /\ Top.k = "build"
  BY DEF BuildKnown, BuildThenable, BuildWait, BuildEnd, Building, Ends
<1>3. PICK c, N : c = Top.p /\ N = NextItem
  OBVIOUS
<1>4. c \in DOMAIN agg /\ c \in Born /\ c \in Promise
  BY <1>1, <1>2, <1>3, StackReady, NatFacts DEF GoodAt, AggregatesProper
<1>5. /\ \A a \in Activation : Quieted(a) =>
           Replaced(a) \in Seq(Activation) /\ Same(Replaced(a))
      /\ N \in Seq(Activation) /\ Same(N)
  <2>1. Quieted(Top)
    BY <1>2 DEF Quieted
  <2>2. PICK a \in Activation : a.k = Top.k /\ NextItem = Replaced(a)
    BY <1>1, <1>2, NextItemType
  <2>3. Quieted(a)
    BY <1>2, <2>2 DEF Quieted
  <2> QED
    BY <1>1, <1>2, <1>3, <2>1, <2>2, <2>3, SameStacks
<1>6. ASSUME NEW S \in Seq(Activation), Same(S),
             \/ Skip(S)
             \/ state[c] = "PENDING" /\ \E st \in Final : \E v : Conclude(c, st, v, None, S)
      PROVE  Promised!Next
  <2>1. CASE Skip(S)
    BY <1>1, <1>6, <2>1, SkipMoves, StepPromised
  <2>2. CASE state[c] = "PENDING" /\ \E st \in Final : \E v : Conclude(c, st, v, None, S)
    <3>1. Moves(S, c, None, None)
      BY <1>1, <1>4, <1>6, <2>2, ConcludeMoves
    <3> QED
      BY <1>1, <1>6, <3>1, StepPromised
  <2> QED
    BY <1>6, <2>1, <2>2
<1>7. CASE BuildKnown
  <2>1. \/ \E v : Fail(c, v, N)
        \/ Skip(N)
    BY <1>3, <1>7 DEF BuildKnown
  <2> QED
    BY <1>5, <1>6, <2>1 DEF Fail, Final
<1>8. CASE BuildEnd
  <2>1. PICK a, S : a = Active("built", c) /\ S = Replaced(a)
    OBVIOUS
  <2>2. a \in Activation /\ Quieted(a)
    BY <1>4, <2>1, FreshActivation DEF Quieted
  <2>3. S \in Seq(Activation) /\ Same(S)
    BY <1>5, <2>1, <2>2
  <2>4. Finish(c, agg, S) \/ Skip(S)
    BY <1>3, <1>8, <2>1 DEF BuildEnd
  <2> QED
    BY <1>6, <2>3, <2>4 DEF Finish, Final
<1>9. CASE BuildWait
  <2>1. Top.wp # None \/ Top.at <= Len(agg[Top.p].items)
    BY <1>9 DEF BuildWait, Building
  <2>2. Item \in Promise => Item \in Born
    BY <1>2, <2>1, ItemFacts
  <2>3. Top.wp # None => Item \in Promise
    BY <1>2, <2>1, ItemFacts
  <2>4. PICK x, r : /\ x = Item
                    /\ r = [onF |-> Calls("kept", Top.p, Top.at),
                            onR |-> Calls("failed", Top.p, Top.at), np |-> None]
    OBVIOUS
  <2>5. /\ x \in Promise /\ x \in Born /\ x # None /\ state[x] # "UNBORN"
        /\ state' = state /\ value' = value /\ ctl' = N
        /\ reactions' = [reactions EXCEPT ![x] = Append(@, r)]
    BY <1>1, <1>3, <1>9, <2>2, <2>3, <2>4, NatFacts DEF BuildWait, Keep, Building, Numbered
  <2>6. r \in Reaction
    <3>1. Top.at \in Nat /\ Top.p \in Promise
      BY <1>1, <1>2, <1>3, <1>4, StackType DEF Activation
    <3> QED
      BY <2>4, <3>1 DEF Reaction, Handler, Calls, None
  <2>7. Moves(N, None, x, r)
    BY <1>1, <2>5, <2>6 DEF Moves, TypeOK
  <2> QED
    BY <1>1, <1>5, <2>7, StepPromised
<1>10. CASE BuildThenable
  <2>1. PICK f, a, b, S : /\ f = Fresh /\ a = [Top EXCEPT !.wp = f] /\ b = Active("then", f)
                          /\ S = Replaced(a)
    OBVIOUS
  <2>2. MakeFresh("PENDING", NoVal) /\ reactions' = reactions /\ ctl' = Append(S, b)
    BY <1>10, <2>1 DEF BuildThenable, Keep
  <2>3. born' = f /\ f \in Promise
    <3>1. born' = f /\ f # None
      BY <1>1, <2>1, <2>2, NatFacts DEF MakeFresh, Fresh
    <3> QED
      BY <3>1 DEF TypeOK
  <2>4. a \in Activation /\ Quieted(a)
    <3>1. Top \in Activation
      BY <1>1, <1>2, StackType
    <3>2. a = [k |-> Top.k, p |-> Top.p, ok |-> Top.ok, todo |-> Top.todo, at |-> Top.at,
               wp |-> f, items |-> Top.items]
      BY <2>1, <3>1 DEF Activation
    <3> QED
      BY <1>2, <2>3, <3>1, <3>2 DEF Activation, Quieted
  <2>5. b \in Activation /\ Quieted(b)
    BY <2>1, <2>3, FreshActivation DEF Quieted
  <2>6. S \in Seq(Activation) /\ Same(S)
    BY <1>5, <2>1, <2>4
  <2>7. Same(Append(S, b))
    BY <2>5, <2>6, SamePush
  <2>8. Same(ctl')
    BY <2>2, <2>7
  <2> QED
    BY <1>1, <2>2, <2>8, MadePromised
<1> QED
  BY <1>7, <1>8, <1>9, <1>10

LEMMA RacePromised ==
  ASSUME NEW H, NEW U, Inv(H, U), TypeOK', script'.inline = script.inline, RaceNext
  PROVE  Promised!Next
<1>1. TypeOK /\ Numbered
  BY InvFacts
<1>2. /\ ctl # <<>> /\ Top.k = "race" /\ Top.at <= Len(Top.items) /\ state[Top.p] = "PENDING"
  BY DEF RaceNext, Racing, Ends
<1>3. PICK p, x, S : p = Top.p /\ x = Racer /\ S = NextItem
  OBVIOUS
<1>4. /\ S \in Seq(Activation) /\ p \in Promise /\ p # None /\ state[p] = "PENDING"
      /\ x \in Promise => state[x] # "UNBORN" /\ x # None
  BY <1>1, <1>2, <1>3, NextRaces, NatFacts DEF Ready, Numbered
<1>5. Same(S)
  <2>1. Quieted(Top)
    BY <1>2 DEF Quieted
  <2>2. PICK a \in Activation : a.k = Top.k /\ NextItem = Replaced(a)
    BY <1>1, <1>2, NextItemType
  <2>3. Quieted(a)
    BY <1>2, <2>2 DEF Quieted
  <2> QED
    BY <1>1, <1>2, <1>3, <2>1, <2>2, <2>3, SameStacks
<1>6. PICK r : r = [onF |-> NoHandler, onR |-> NoHandler, np |-> p]
  OBVIOUS
<1>7. r \in Reaction
  BY <1>4, <1>6 DEF Reaction, Handler, NoHandler, Calls, None
<1>8. CASE /\ x \in Promise /\ reactions' = [reactions EXCEPT ![x] = Append(@, r)] /\ ctl' = S
           /\ state' = state /\ value' = value
  <2>1. Moves(S, None, x, r)
    BY <1>1, <1>4, <1>7, <1>8 DEF Moves, TypeOK
  <2> QED
    BY <1>1, <1>5, <2>1, StepPromised
<1>9. CASE \E st \in Final : \E v : Settle(p, st, v) /\ ctl' = S /\ reactions' = reactions
  <2>1. PICK st \in Final : \E v : Settle(p, st, v) /\ ctl' = S /\ reactions' = reactions
    BY <1>9
  <2>2. Moves(S, p, None, None)
    BY <1>1, <1>4, <2>1 DEF Moves, Settle, TypeOK
  <2> QED
    BY <1>1, <1>5, <2>2, StepPromised
<1>10. CASE Adopt(p, Thenable, S)
  <2>1. Thenable \notin Promise
    BY PromiseAssumption
  <2>2. PICK y, t : Moves(S, None, y, t)
    BY <1>1, <1>4, <1>10, <2>1, AdoptMoves
  <2> QED
    BY <1>1, <1>5, <2>2, StepPromised
<1>11. \/ /\ x \in Promise /\ reactions' = [reactions EXCEPT ![x] = Append(@, r)] /\ ctl' = S
          /\ state' = state /\ value' = value
       \/ /\ x \in Promise /\ state[x] # "PENDING" /\ Settle(p, state[x], value[x])
          /\ ctl' = S /\ reactions' = reactions
       \/ Adopt(p, Thenable, S)
       \/ Settle(p, "FULFILLED", x) /\ ctl' = S /\ reactions' = reactions
  BY <1>3, <1>6 DEF RaceNext, Keep
<1>12. /\ x \in Promise /\ state[x] # "PENDING" => state[x] \in Final
       /\ "FULFILLED" \in Final
  BY <1>1, <1>4 DEF TypeOK, States, Final
<1> QED
  BY <1>8, <1>9, <1>10, <1>11, <1>12

LEMMA HostPromised ==
  ASSUME NEW H, NEW U, Inv(H, U), TypeOK', script'.inline = script.inline,
         Microtask \/ Task \/ UNCHANGED vars
  PROVE  Promised!Next
<1>1. TypeOK /\ Drains
  BY InvFacts
<1>2. state' = state /\ value' = value /\ reactions' = reactions
  BY DEF Microtask, Task, vars, promiseVars
<1>3. ctl' = ctl \/ \E a \in Activation : ctl = <<>> /\ ctl' = <<a>> /\ Quieted(a)
  <2>1. CASE Microtask
    <3>1. queue \in Seq(Promise) /\ queue # <<>> /\ ctl = <<>>
          /\ ctl' = <<Active("enter", Head(queue))>>
      BY <1>1, <2>1 DEF Microtask, TypeOK
    <3>2. Head(queue) \in Promise
      BY <3>1, HeadTailProperties
    <3> QED
      BY <3>1, <3>2, FreshActivation DEF Quieted
  <2>2. CASE Task
    BY <2>2, FreshActivation DEF Task, Quieted
  <2>3. CASE UNCHANGED vars
    BY <2>3 DEF vars, taskVars
  <2> QED
    BY <2>1, <2>2, <2>3
<1>4. PICK S : S = ctl'
  OBVIOUS
<1>5. Same(S)
  <2>1. CASE ctl' = ctl
    BY <1>4, <2>1 DEF Same
  <2>2. CASE \E a \in Activation : ctl = <<>> /\ ctl' = <<a>> /\ Quieted(a)
    <3>1. PICK a \in Activation : ctl = <<>> /\ ctl' = <<a>> /\ Quieted(a)
      BY <2>2
    <3>2. S = Append(ctl, a) /\ ctl \in Seq(Activation) /\ Same(ctl)
      BY <1>1, <1>4, <3>1 DEF Same, TypeOK
    <3> QED
      BY <3>1, <3>2, SamePush
  <2> QED
    BY <1>3, <2>1, <2>2
<1>6. Moves(S, None, None, None)
  BY <1>2, <1>4 DEF Moves
<1> QED
  BY <1>1, <1>5, <1>6, StepPromised

----------------------------------------------------------------------------
(* The steps of a drain.                                                   *)

LEMMA Joined ==
  ASSUME NEW S, NEW s1 \in Seq(S), NEW s2 \in Seq(S), NEW s, s = s1 \o s2,
         NEW a, a = Len(s1), NEW b, b = Len(s2)
  PROVE  /\ a \in Nat /\ b \in Nat /\ s \in Seq(S) /\ Len(s) = a + b
         /\ \A j \in 1 .. a : s[j] = s1[j]
         /\ \A j \in a + 1 .. a + b : s[j] = s2[j - a]
<1>1. Len(s1) \in Nat /\ Len(s2) \in Nat
  BY LenProperties
<1>2. /\ s1 \o s2 \in Seq(S)
      /\ Len(s1 \o s2) = Len(s1) + Len(s2)
      /\ \A i \in 1 .. Len(s1) + Len(s2) : (s1 \o s2)[i] =
                     IF i <= Len(s1) THEN s1[i] ELSE s2[i - Len(s1)]
  BY ConcatProperties
<1>3. s \in Seq(S) /\ Len(s) = a + b
  BY <1>2
<1>4. \A i \in 1 .. a + b : s[i] = IF i <= a THEN s1[i] ELSE s2[i - a]
  BY <1>2
<1>5. \A j \in 1 .. a : s[j] = s1[j]
  BY <1>1, <1>4
<1>6. \A j \in a + 1 .. a + b : s[j] = s2[j - a]
  BY <1>1, <1>4
<1> QED
  BY <1>1, <1>3, <1>5, <1>6

LEMMA Without1At ==
  ASSUME NEW S, NEW s \in Seq(S), NEW i \in 1 .. Len(s)
  PROVE  /\ Without1(s, i) \in Seq(S) /\ Len(Without1(s, i)) = Len(s) - 1
         /\ \A k \in 1 .. Len(s) - 1 :
              Without1(s, i)[k] = IF k < i THEN s[k] ELSE s[k + 1]
<1>0. PICK n, V : n = Len(s) /\ V = Without1(s, i)
  OBVIOUS
<1>1. n \in Nat /\ i \in Nat /\ i - 1 \in Int /\ i + 1 \in Int /\ \A j \in 1 .. n : s[j] \in S
  BY <1>0, LenProperties
<1>2. PICK E, F : E = SubSeq(s, 1, i - 1) /\ F = SubSeq(s, i + 1, n)
  OBVIOUS
<1>3. E \in Seq(S) /\ Len(E) = i - 1 /\ \A j \in 1 .. i - 1 : E[j] = s[j]
  <2>1. PICK m : m = i - 1
    OBVIOUS
  <2>2. m \in Int /\ 1 \in Int /\ \A j \in 1 .. m : s[j] \in S
    BY <1>1, <2>1
  <2>3. /\ SubSeq(s, 1, m) \in Seq(S)
        /\ Len(SubSeq(s, 1, m)) = IF 1 <= m THEN m - 1 + 1 ELSE 0
        /\ \A j \in 1 .. m - 1 + 1 : SubSeq(s, 1, m)[j] = s[1 + j - 1]
    BY <2>2, SubSeqProperties
  <2>4. E = SubSeq(s, 1, m)
    BY <1>2, <2>1
  <2>5. E \in Seq(S) /\ Len(E) = IF 1 <= m THEN m - 1 + 1 ELSE 0
    BY <2>3, <2>4
  <2>6. \A j \in 1 .. m - 1 + 1 : E[j] = s[1 + j - 1]
    BY <2>3, <2>4
  <2>7. ASSUME NEW j \in 1 .. i - 1 PROVE E[j] = s[j]
    <3>1. 1 + j - 1 = j /\ j \in 1 .. m - 1 + 1
      BY <1>1, <2>1
    <3> QED
      BY <2>6, <3>1
  <2> QED
    BY <1>1, <2>1, <2>5, <2>7
<1>4. F \in Seq(S) /\ Len(F) = n - i /\ \A j \in 1 .. n - i : F[j] = s[i + j]
  <2>1. PICK m : m = i + 1
    OBVIOUS
  <2>2. m \in Int /\ n \in Int /\ \A j \in m .. n : s[j] \in S
    BY <1>1, <2>1
  <2>3. /\ SubSeq(s, m, n) \in Seq(S)
        /\ Len(SubSeq(s, m, n)) = IF m <= n THEN n - m + 1 ELSE 0
        /\ \A j \in 1 .. n - m + 1 : SubSeq(s, m, n)[j] = s[m + j - 1]
    BY <2>2, SubSeqProperties
  <2>4. F = SubSeq(s, m, n)
    BY <1>2, <2>1
  <2>5. F \in Seq(S) /\ Len(F) = IF m <= n THEN n - m + 1 ELSE 0
    BY <2>3, <2>4
  <2>6. \A j \in 1 .. n - m + 1 : F[j] = s[m + j - 1]
    BY <2>3, <2>4
  <2>7. ASSUME NEW j \in 1 .. n - i PROVE F[j] = s[i + j]
    <3>1. m + j - 1 = i + j /\ j \in 1 .. n - m + 1
      BY <1>1, <2>1
    <3> QED
      BY <2>6, <3>1
  <2> QED
    BY <1>0, <1>1, <2>1, <2>5, <2>7
<1>5. V = E \o F
  BY <1>0, <1>2 DEF Without1
<1>6. PICK a, b : a = Len(E) /\ b = Len(F)
  OBVIOUS
<1>7. /\ V \in Seq(S) /\ Len(V) = a + b
      /\ \A j \in 1 .. a : V[j] = E[j]
      /\ \A j \in a + 1 .. a + b : V[j] = F[j - a]
  <2>1. E \in Seq(S) /\ F \in Seq(S)
    BY <1>3, <1>4
  <2> QED
    BY <1>5, <1>6, <2>1, Joined
<1>8. a = i - 1 /\ b = n - i
  BY <1>3, <1>4, <1>6
<1>9. ASSUME NEW k \in 1 .. n - 1 PROVE V[k] = IF k < i THEN s[k] ELSE s[k + 1]
  <2>1. CASE k < i
    <3>1. k \in 1 .. a /\ k \in 1 .. i - 1
      BY <1>1, <1>8, <2>1
    <3> QED
      BY <1>3, <1>7, <2>1, <3>1
  <2>2. CASE ~(k < i)
    <3>1. k \in a + 1 .. a + b /\ k - a \in 1 .. n - i /\ i + (k - a) = k + 1
      BY <1>1, <1>8, <2>2
    <3>2. V[k] = F[k - a]
      BY <1>7, <3>1
    <3>3. F[k - a] = s[i + (k - a)]
      BY <1>4, <3>1
    <3> QED
      BY <2>2, <3>1, <3>2, <3>3
  <2> QED
    BY <2>1, <2>2
<1>10. Len(V) = n - 1
  BY <1>1, <1>7, <1>8
<1> QED
  BY <1>0, <1>7, <1>9, <1>10

\* What waits on p is A, then t, then R; the first of t goes.
AllThree(A, t, R) == (A \o t) \o R
AfterFirst(t) == Tail(t)
LEMMA FirstGone ==
  ASSUME NEW S, NEW A \in Seq(S), NEW t \in Seq(S), NEW R \in Seq(S), t # <<>>
  PROVE  /\ AllThree(A, t, R) \in Seq(S) /\ Len(A) + 1 \in DOMAIN AllThree(A, t, R)
         /\ Without1(AllThree(A, t, R), Len(A) + 1) = AllThree(A, AfterFirst(t), R)
<1>0. PICK W, i : W = (A \o t) \o R /\ i = Len(A) + 1
  OBVIOUS
<1>1. PICK a, m, n, T : a = Len(A) /\ m = Len(t) /\ n = Len(R) /\ T = Tail(t)
  OBVIOUS
<1>2. /\ a \in Nat /\ m \in Nat \ {0} /\ n \in Nat
      /\ T \in Seq(S) /\ Len(T) = m - 1
      /\ \A k \in 1 .. m - 1 : T[k] = t[k + 1]
  BY <1>1, LenProperties, EmptySeq, HeadTailProperties
<1>3. PICK B, C, D : B = A \o t /\ C = A \o T /\ D = C \o R
  OBVIOUS
<1>4. PICK q, u, v : q = m - 1 /\ u = a + m /\ v = a + q
  OBVIOUS
<1>5. q \in Nat /\ u \in Nat /\ v \in Nat /\ u = v + 1 /\ v - a = q
  BY <1>2, <1>4
<1>6. /\ B \in Seq(S) /\ Len(B) = u
      /\ \A j \in 1 .. a : B[j] = A[j]
      /\ \A j \in a + 1 .. u : B[j] = t[j - a]
  <2>1. /\ B \in Seq(S) /\ Len(B) = a + m
        /\ \A j \in 1 .. a : B[j] = A[j]
        /\ \A j \in a + 1 .. a + m : B[j] = t[j - a]
    BY <1>1, <1>3, Joined
  <2> QED
    BY <1>4, <2>1
<1>7. /\ C \in Seq(S) /\ Len(C) = v
      /\ \A j \in 1 .. a : C[j] = A[j]
      /\ \A j \in a + 1 .. v : C[j] = T[j - a]
  <2>1. q = Len(T)
    BY <1>2, <1>4
  <2>2. /\ C \in Seq(S) /\ Len(C) = a + q
        /\ \A j \in 1 .. a : C[j] = A[j]
        /\ \A j \in a + 1 .. a + q : C[j] = T[j - a]
    BY <1>1, <1>2, <1>3, <2>1, Joined
  <2> QED
    BY <1>4, <2>2
<1>8. /\ W \in Seq(S) /\ Len(W) = u + n
      /\ \A j \in 1 .. u : W[j] = B[j]
      /\ \A j \in u + 1 .. u + n : W[j] = R[j - u]
  <2>1. B \in Seq(S) /\ R \in Seq(S) /\ W = B \o R /\ u = Len(B) /\ n = Len(R)
    BY <1>0, <1>1, <1>3, <1>6
  <2> QED
    BY <2>1, Joined
<1>9. /\ D \in Seq(S) /\ Len(D) = v + n
      /\ \A j \in 1 .. v : D[j] = C[j]
      /\ \A j \in v + 1 .. v + n : D[j] = R[j - v]
  <2>1. v = Len(C)
    BY <1>7
  <2> QED
    BY <1>1, <1>3, <1>7, <2>1, Joined
<1>10. PICK N, V : N = u + n /\ V = Without1(W, i)
  OBVIOUS
<1>11. i = a + 1 /\ i \in 1 .. N /\ N = Len(W) /\ N - 1 = v + n
  BY <1>0, <1>1, <1>2, <1>4, <1>5, <1>8, <1>10
<1>12. /\ V \in Seq(S) /\ Len(V) = N - 1
       /\ \A k \in 1 .. N - 1 : V[k] = IF k < i THEN W[k] ELSE W[k + 1]
  <2>1. W \in Seq(S) /\ N = Len(W) /\ i \in 1 .. N /\ V = Without1(W, i)
    BY <1>8, <1>10, <1>11
  <2> QED
    <3>1. /\ Without1(W, i) \in Seq(S) /\ Len(Without1(W, i)) = Len(W) - 1
          /\ \A k \in 1 .. Len(W) - 1 :
               Without1(W, i)[k] = IF k < i THEN W[k] ELSE W[k + 1]
      BY <2>1, Without1At
    <3> QED
      BY <2>1, <3>1
<1>13. ASSUME NEW k \in 1 .. v + n PROVE V[k] = D[k]
  <2>1. k \in Int /\ 1 <= k /\ k <= v + n /\ k \in 1 .. N - 1
    BY <1>2, <1>5, <1>11
  <2>2. CASE k <= a
    <3>1. k < i /\ k \in 1 .. a /\ k \in 1 .. u /\ k \in 1 .. v
      BY <1>2, <1>4, <1>5, <1>11, <2>1, <2>2
    <3>2. V[k] = W[k] /\ W[k] = B[k] /\ B[k] = A[k]
      BY <1>6, <1>8, <1>12, <2>1, <3>1
    <3>3. D[k] = C[k] /\ C[k] = A[k]
      BY <1>7, <1>9, <3>1
    <3> QED
      BY <3>2, <3>3
  <2>3. CASE k > a /\ k <= v
    <3>1. PICK j : j = k + 1
      OBVIOUS
    <3>2. PICK l : l = k - a
      OBVIOUS
    <3>3. /\ ~(k < i) /\ j \in a + 1 .. u /\ j \in 1 .. u /\ k \in a + 1 .. v /\ k \in 1 .. v
          /\ l \in 1 .. q /\ j - a = l + 1 /\ q = m - 1
      BY <1>2, <1>4, <1>5, <1>11, <2>1, <2>3, <3>1, <3>2
    <3>4. V[k] = W[j] /\ W[j] = B[j] /\ B[j] = t[j - a]
      BY <1>6, <1>8, <1>12, <2>1, <3>1, <3>3
    <3>5. D[k] = C[k] /\ C[k] = T[l]
      BY <1>7, <1>9, <3>2, <3>3
    <3>6. T[l] = t[l + 1]
      BY <1>2, <3>3
    <3> QED
      BY <3>3, <3>4, <3>5, <3>6
  <2>4. CASE k > v
    <3>1. PICK j : j = k + 1
      OBVIOUS
    <3>2. ~(k < i) /\ j \in u + 1 .. u + n /\ k \in v + 1 .. v + n /\ j - u = k - v
      BY <1>2, <1>4, <1>5, <1>11, <2>1, <2>4, <3>1
    <3>3. V[k] = W[j] /\ W[j] = R[j - u]
      BY <1>8, <1>12, <2>1, <3>1, <3>2
    <3>4. D[k] = R[k - v]
      BY <1>9, <3>2
    <3> QED
      BY <3>2, <3>3, <3>4
  <2> QED
    BY <1>2, <1>5, <2>1, <2>2, <2>3, <2>4
<1>14. V = D
  <2>1. PICK M : M = v + n
    OBVIOUS
  <2>2. Len(V) = M /\ Len(D) = M /\ \A k \in 1 .. M : V[k] = D[k]
    BY <1>9, <1>11, <1>12, <1>13, <2>1
  <2> QED
    BY <1>9, <1>12, <2>2, SeqEqual
<1>15. i \in DOMAIN W
  BY <1>8, <1>11, LenProperties
<1> QED
  BY <1>0, <1>1, <1>3, <1>8, <1>10, <1>14, <1>15 DEF AllThree, AfterFirst

\* The promise whose drain it is runs a reaction.
LEMMA OneRuns ==
  ASSUME NEW p \in Promise, state[p] \in Final, state'[p] = state[p], value'[p] = value[p],
         NEW A \in Seq(Reaction), NEW t \in Seq(Reaction), t # <<>>,
         reactions[p] \in Seq(Reaction), reactions'[p] = reactions[p],
         DetachedIn(ctl, p) = A \o t, DetachedIn(ctl', p) = A \o Tail(t),
         ~script.inline => A = <<>>
  PROVE  Promised!Run(p)
<1>1. PICK R, W, W2, i : /\ R = reactions[p] /\ W = (A \o t) \o R /\ W2 = (A \o Tail(t)) \o R
                         /\ i = Len(A) + 1
  OBVIOUS
<1>2. /\ W \in Seq(Reaction) /\ i \in DOMAIN W /\ W2 = Without1(W, i)
  <2>1. /\ A \in Seq(Reaction) /\ t \in Seq(Reaction) /\ R \in Seq(Reaction) /\ t # <<>>
    BY <1>1
  <2>3. /\ AllThree(A, t, R) \in Seq(Reaction) /\ Len(A) + 1 \in DOMAIN AllThree(A, t, R)
        /\ Without1(AllThree(A, t, R), Len(A) + 1) = AllThree(A, AfterFirst(t), R)
    BY <2>1, FirstGone
  <2>4. W = AllThree(A, t, R) /\ W2 = AllThree(A, AfterFirst(t), R)
    BY <1>1 DEF AllThree, AfterFirst
  <2> QED
    BY <1>1, <2>3, <2>4
<1>3. W = Detached(p) \o reactions[p] /\ W2 = (Detached(p) \o reactions[p])'
  BY <1>1 DEF Detached
<1>4. W # <<>>
  BY <1>2
<1>5. ~script.inline => i = 1
  BY <1>1, EmptySeq
<1>6. W2 = SubSeq(W, 1, i - 1) \o SubSeq(W, i + 1, Len(W))
  BY <1>2 DEF Without1
<1> QED
  BY <1>2, <1>3, <1>4, <1>5, <1>6
     DEF Promised!Run, Promised!Settled, Promised!Final, Final, Promised!RemoveAt

LEMMA DrainNextPromised ==
  ASSUME NEW H, NEW U, Inv(H, U), TypeOK', script'.inline = script.inline, DrainNext
  PROVE  Promised!Next
<1>1. TypeOK /\ Numbered /\ AggregatesProper
  BY InvFacts
<1>2. /\ ctl # <<>> /\ Top.k = "drain" /\ Top.todo # <<>>
  BY DEF DrainNext, Ends
<1>3. PICK p, v : p = Top.p /\ v = value[p]
  OBVIOUS
<1>4. PICK r, s, a : DrainsOn(r, s, a)
  BY DEF DrainsOn
<1>5. PICK h, S : h = (IF Top.ok THEN r.onF ELSE r.onR) /\ S = Replaced(a)
  OBVIOUS
<1>6. r = Head(Top.todo) /\ s = Tail(Top.todo) /\ S = Replaced([Top EXCEPT !.todo = Tail(@)])
  BY <1>4, <1>5 DEF DrainsOn
<1>7. /\ Good(r, DOMAIN H) /\ a \in Activation /\ a.k = "drain" /\ a.p = p /\ a.todo = s
      /\ Top \in Activation /\ GoodAt(Top, Len(ctl), H, U) /\ Top.ok \in BOOLEAN
  <2>1. /\ Good(r, DOMAIN H) /\ a \in Activation /\ a.k = "drain" /\ a.p = p
    BY <1>2, <1>3, <1>4, DrainHead
  <2>2. Top \in Activation /\ GoodAt(Top, Len(ctl), H, U) /\ Top.ok \in BOOLEAN
    BY <1>1, <1>2, StackType, StackReady DEF Activation
  <2>3. a.todo = s
    BY <1>4, <2>2 DEF DrainsOn, Activation
  <2> QED
    BY <2>1, <2>2, <2>3
<1>8. /\ p \in Promise /\ p \in Born /\ state[p] \in Final /\ (script.inline \/ Len(ctl) = 1)
      /\ v \in AnyVal /\ v \notin Promise
  <2>1. p \in Promise /\ p \in Born /\ state[p] \in Final /\ (script.inline \/ Len(ctl) = 1)
    BY <1>1, <1>2, <1>3, <1>7, NatFacts DEF GoodAt
  <2>2. v \in AnyVal
    BY <1>1, <1>3, <2>1 DEF TypeOK
  <2> QED
    BY <2>1, <2>2, PromiseAssumption DEF AnyVal
<1>9. PICK B, t : B = Below /\ t = Top
  OBVIOUS
<1>10. /\ B \in Seq(Activation) /\ ctl = Append(B, t) /\ S = Append(B, a)
       /\ t \in Activation /\ t.k = "drain" /\ t.p = p /\ t.todo \in Seq(Reaction)
       /\ t.todo # <<>> /\ s = Tail(t.todo)
  BY <1>1, <1>2, <1>3, <1>5, <1>6, <1>7, <1>9, TopAndBelow DEF Replaced, Activation
<1>11. ASSUME NEW y \in Promise
       PROVE  /\ DetachedIn(B, y) \in Seq(Reaction)
              /\ y # p => DetachedIn(S, y) = DetachedIn(ctl, y)
              /\ y = p => /\ DetachedIn(ctl, y) = DetachedIn(B, y) \o t.todo
                          /\ DetachedIn(S, y) = DetachedIn(B, y) \o Tail(t.todo)
  <2>1. PICK d : d = DetachedIn(B, y)
    OBVIOUS
  <2>2. /\ DetachedIn(Append(B, t), y) = Adds(t, y, d)
        /\ DetachedIn(Append(B, a), y) = Adds(a, y, d) /\ d \in Seq(Reaction)
    BY <1>7, <1>10, <2>1, DetachedPushed
  <2> QED
    BY <1>7, <1>10, <2>1, <2>2 DEF Adds
<1>12. S \in Seq(Activation)
  BY <1>7, <1>10, PushedType
<1>13. ASSUME NEW y \in Promise, NEW b \in Activation, b.k # "drain"
       PROVE  DetachedIn(Append(S, b), y) = DetachedIn(S, y)
  BY <1>12, <1>13, DetachedUnder
<1>14. \E q : Moves(S, q, None, None)
  <2>1. ASSUME NEW b \in Activation, b.k # "drain", NEW T, T = Append(S, b), NEW q,
               Moves(T, q, None, None)
        PROVE  Moves(S, q, None, None)
    BY <1>13, <2>1 DEF Moves
  <2>2. ASSUME NEW y \in Promise, ResolveCb(y, v, S) \/ RejectCb(y, v, S) \/ SettleChained(y, v, S)
        PROVE  \E q : Moves(S, q, None, None)
    <3>1. \E q \in {None, y}, x \in {None, v} : \E e : Moves(S, q, x, e)
      BY <1>1, <1>8, <1>12, <2>2, CallMoves
    <3>2. PICK q, x, e : Moves(S, q, x, e) /\ x \in {None, v}
      BY <3>1
    <3>3. x = None
      BY <1>8, <3>2 DEF Moves
    <3>4. Moves(S, q, None, None)
      BY <3>2, <3>3, NatFacts DEF Moves
    <3> QED
      BY <3>4
  <2>3. Proper(r) /\ h \in {r.onF, r.onR}
    BY <1>5, <1>7 DEF Good
  <2>4. CASE h.do = "js" /\ Skip(Append(S, Active("handler", r.np)))
    <3>1. r.np \in Promise
      BY <1>1, <2>3, <2>4, NatFacts DEF Proper
    <3>2. PICK b : b = Active("handler", r.np)
      OBVIOUS
    <3>3. b \in Activation /\ b.k # "drain"
      BY <3>1, <3>2, FreshActivation
    <3>4. Moves(Append(S, b), None, None, None)
      BY <2>4, <3>2, SkipMoves
    <3> QED
      BY <2>1, <3>3, <3>4
  <2>5. CASE h.do \in {"resolve", "reject"} /\ (ResolveCb(h.to, v, S) \/ RejectCb(h.to, v, S))
    <3>1. h.to \in Promise
      BY <1>1, <2>3, <2>5, NatFacts DEF Proper
    <3> QED
      BY <2>2, <2>5, <3>1
  <2>6. CASE /\ h.do \in {"kept", "failed"}
             /\ \E st \in {"FULFILLED", "REJECTED"} : Arrived(h, st, v)
    <3>1. PICK c, b, T : c = h.to /\ b = Active("release", c) /\ T = Append(S, b)
      OBVIOUS
    <3>2. c \in Promise
      BY <1>1, <2>3, <2>6, <3>1, NatFacts DEF Proper, AggregatesProper
    <3>3. b \in Activation /\ b.k # "drain" /\ T \in Seq(Activation)
      BY <1>12, <3>1, <3>2, FreshActivation, PushedType
    <3>4. T = Replaced([Top EXCEPT !.todo = Tail(@)]) \o <<Active("release", h.to)>>
      BY <1>6, <1>12, <3>1, <3>3, AppendIsConcat
    <3>5. \/ Skip(T)
          \/ state[c] = "PENDING" /\ \E st \in Final : \E w : Conclude(c, st, w, None, T)
      <4>1. PICK st \in {"FULFILLED", "REJECTED"} : Arrived(h, st, v)
        BY <2>6
      <4>2. \/ Skip(T)
            \/ \E A : Count(c, A, T)
            \/ Fail(c, v, T)
        BY <3>1, <3>4, <4>1 DEF Arrived
      <4>3. ASSUME NEW A, Finish(c, A, T)
            PROVE  \/ Skip(T)
                   \/ state[c] = "PENDING" /\ \E so \in Final : \E w : Conclude(c, so, w, None, T)
        BY <4>3 DEF Finish, Final
      <4>4. ASSUME NEW A, Count(c, A, T) PROVE Skip(T) \/ \E A2 : Finish(c, A2, T)
        BY <4>4 DEF Count
      <4> QED
        BY <4>2, <4>3, <4>4 DEF Fail, Final
    <3>6. \E q : Moves(T, q, None, None)
      <4>1. CASE Skip(T)
        BY <4>1, SkipMoves
      <4>2. CASE state[c] = "PENDING" /\ \E st \in Final : \E w : Conclude(c, st, w, None, T)
        BY <1>1, <3>2, <3>3, <4>2, ConcludeMoves
      <4> QED
        BY <3>5, <4>1, <4>2
    <3> QED
      BY <2>1, <3>1, <3>3, <3>6
  <2>7. CASE h.do = "none" /\ (SettleChained(r.np, v, S) \/ RejectCb(r.np, v, S))
    <3>1. r.np \in Promise
      BY <1>1, <2>3, <2>7, NatFacts DEF Proper
    <3> QED
      BY <2>2, <2>7, <3>1
  <2> QED
    BY <1>3, <1>5, <1>6, <2>4, <2>5, <2>6, <2>7 DEF DrainNext
<1>15. PICK q : Moves(S, q, None, None)
  BY <1>14
<1>16. \A y \in Promise : y # p =>
         /\ Promised!Make(y) \/ Promised!Register(y) \/ Promised!Settle(y) \/ Promised!Rest(y)
         /\ ~Promised!Run(y)
  <2> SUFFICES ASSUME NEW y \in Promise, y # p
               PROVE  /\ \/ Promised!Make(y) \/ Promised!Register(y) \/ Promised!Settle(y)
                         \/ Promised!Rest(y)
                      /\ ~Promised!Run(y)
    OBVIOUS
  <2>1. DetachedIn(S, y) = DetachedIn(ctl, y) /\ DetachedIn(ctl, y) \in Seq(Reaction)
    BY <1>1, <1>11, DetachedTyped DEF TypeOK
  <2> QED
    BY <1>1, <1>15, <2>1, OnePromised
<1>17. Promised!Run(p)
  <2>1. PICK A, u : A = DetachedIn(B, p) /\ u = t.todo
    OBVIOUS
  <2>2. /\ A \in Seq(Reaction) /\ u \in Seq(Reaction) /\ u # <<>>
        /\ DetachedIn(ctl, p) = A \o u /\ DetachedIn(S, p) = A \o Tail(u)
    BY <1>8, <1>10, <1>11, <2>1
  <2>3. DetachedIn(ctl', p) = A \o Tail(u)
    BY <1>8, <1>15, <2>2 DEF Moves
  <2>4. ~script.inline => A = <<>>
    <3> SUFFICES ASSUME ~script.inline PROVE A = <<>>
      OBVIOUS
    <3>1. Len(ctl) = 1 /\ Len(ctl) = Len(B) + 1
      BY <1>8, <1>10, PushedType
    <3>2. B = <<>>
      BY <1>10, <3>1, LenProperties, EmptySeq
    <3> QED
      BY <2>1, <3>2, DetachedEmpty
  <2>5. q # p /\ p # None
    BY <1>1, <1>8, <1>15, NatFacts DEF Moves, Final
  <2>6. /\ state'[p] = state[p] /\ value'[p] = value[p] /\ reactions'[p] = reactions[p]
        /\ reactions[p] \in Seq(Reaction)
    BY <1>1, <1>8, <1>15, <2>5 DEF Moves, TypeOK
  <2> QED
    BY <1>8, <2>2, <2>3, <2>4, <2>6, OneRuns
<1>18. (~script.inline)' = ~script.inline
  OBVIOUS
<1>19. /\ \A y \in Promise : \/ Promised!Make(y) \/ Promised!Register(y) \/ Promised!Settle(y)
                             \/ Promised!Run(y) \/ Promised!Rest(y)
       /\ \A y, z \in Promise : Promised!Run(y) /\ Promised!Run(z) => y = z
  BY <1>16, <1>17
<1> QED
  BY <1>18, <1>19 DEF Promised!Next

LEMMA DrainEndsPromised ==
  ASSUME NEW H, NEW U, Inv(H, U), TypeOK', script'.inline = script.inline,
         DrainEnter \/ DrainExit
  PROVE  Promised!Next
<1>1. TypeOK
  BY InvFacts
<1>2. CASE DrainExit
  <2>1. /\ ctl # <<>> /\ Quieted(Top) /\ ctl' = Below
        /\ state' = state /\ value' = value /\ reactions' = reactions
    BY <1>2 DEF DrainExit, Ends, Quieted, promiseVars
  <2>2. Same(Below)
    BY <1>1, <2>1, SameStacks
  <2>3. Moves(Below, None, None, None)
    BY <2>1 DEF Moves
  <2> QED
    BY <1>1, <2>2, <2>3, StepPromised
<1>3. CASE DrainEnter
  <2>1. PICK p, t, a, B : /\ p = Top.p /\ t = reactions[p] /\ B = Below
                          /\ a = [Active("drain", p) EXCEPT !.todo = t,
                                                            !.ok = state[p] = "FULFILLED"]
    OBVIOUS
  <2>2. /\ ctl # <<>> /\ Top.k = "enter" /\ ctl' = Append(B, a)
        /\ state' = state /\ value' = value
        /\ reactions' = [reactions EXCEPT ![p] = <<>>]
    BY <1>3, <2>1 DEF DrainEnter, Ends, Replaced
  <2>3. B \in Seq(Activation) /\ Top \in Activation /\ ctl = Append(B, Top)
    BY <1>1, <2>1, <2>2, TopAndBelow
  <2>4. p \in Promise /\ t \in Seq(Reaction)
    BY <1>1, <2>1, <2>2, StackReady, NatFacts DEF GoodAt, TypeOK
  <2>5. a \in Activation /\ a.k = "drain" /\ a.p = p /\ a.todo = t
    <3>1. a = [k |-> "drain", p |-> p, ok |-> state[p] = "FULFILLED", todo |-> t, at |-> 1,
               wp |-> None, items |-> <<>>]
      BY <2>1 DEF Active
    <3>2. (state[p] = "FULFILLED") \in BOOLEAN /\ <<>> \in Seq(AnyVal \cup Promise)
      BY EmptySeq
    <3> QED
      BY <2>4, <3>1, <3>2 DEF Activation
  <2>6. ASSUME NEW y \in Promise
        PROVE  (Detached(y) \o reactions[y])' = Detached(y) \o reactions[y]
    <3>1. PICK d, R, u : d = DetachedIn(B, y) /\ R = reactions[y] /\ u = Top
      OBVIOUS
    <3>2. /\ DetachedIn(Append(B, u), y) = Adds(u, y, d)
          /\ DetachedIn(Append(B, a), y) = Adds(a, y, d) /\ d \in Seq(Reaction)
      BY <2>3, <2>5, <3>1, DetachedPushed
    <3>3. Detached(y) = d /\ DetachedIn(ctl', y) = Adds(a, y, d)
      BY <2>2, <2>3, <3>1, <3>2 DEF Detached, Adds
    <3>4. Detached(y)' = Adds(a, y, d)
      BY <3>3 DEF Detached
    <3>5. CASE y = p
      <4>1. Detached(y)' = d \o R /\ reactions'[y] = <<>>
        BY <1>1, <2>1, <2>2, <2>5, <3>1, <3>4, <3>5 DEF Adds, TypeOK
      <4>2. d \o R \in Seq(Reaction)
        BY <2>1, <2>4, <3>1, <3>2, <3>5, ConcatProperties
      <4>3. (d \o R) \o <<>> = d \o R
        BY <4>2, ConcatEmptySeq
      <4> QED
        BY <3>1, <3>3, <4>1, <4>3
    <3>6. CASE y # p
      BY <1>1, <2>2, <2>5, <3>1, <3>3, <3>4, <3>6 DEF Adds, TypeOK
    <3> QED
      BY <3>5, <3>6
  <2>7. \A y \in Promise : Promised!Rest(y)
    BY <2>2, <2>6 DEF Promised!Rest
  <2>8. \A y \in Promise : ~Promised!Run(y)
    <3> SUFFICES ASSUME NEW y \in Promise PROVE ~Promised!Run(y)
      OBVIOUS
    <3>1. PICK W : W = Detached(y) \o reactions[y]
      OBVIOUS
    <3>2. W \in Seq(Reaction) /\ W = (Detached(y) \o reactions[y])'
      BY <1>1, <2>6, <3>1, DetachedTyped, ConcatProperties DEF TypeOK, Detached
    <3>3. ASSUME NEW i \in DOMAIN W PROVE W # Without1(W, i)
      <4>1. Len(Without1(W, i)) = Len(W) - 1 /\ Len(W) \in Nat
        BY <3>2, <3>3, RunShortens, LenProperties
      <4> QED
        BY <4>1
    <3> QED
      BY <3>1, <3>2, <3>3 DEF Promised!Run, Promised!RemoveAt, Without1
  <2>9. (~script.inline)' = ~script.inline
    OBVIOUS
  <2> QED
    BY <2>7, <2>8, <2>9 DEF Promised!Next
<1> QED
  BY <1>2, <1>3

----------------------------------------------------------------------------
(* Refinement.                                                             *)

LEMMA InitPromised ==
  ASSUME Init
  PROVE  Promised!Init
<1>1. PICK b : b = Active("main", None)
  OBVIOUS
<1>2. b \in Activation /\ b.k # "drain" /\ ctl = <<b>>
  BY <1>1, FreshActivation DEF Init
<1>3. <<>> \in Seq(Activation) /\ ctl = Append(<<>>, b)
  BY <1>2, EmptySeq
<1>4. \A p \in Promise : DetachedIn(ctl, p) = <<>>
  <2> SUFFICES ASSUME NEW p \in Promise PROVE DetachedIn(ctl, p) = <<>>
    OBVIOUS
  <2>1. DetachedIn(Append(<<>>, b), p) = DetachedIn(<<>>, p)
    BY <1>2, <1>3, DetachedUnder
  <2> QED
    BY <1>3, <2>1, DetachedEmpty
<1>5. \A p \in Promise : state[p] = "UNBORN" /\ reactions[p] = <<>>
  BY DEF Init
<1>6. <<>> \o <<>> = <<>>
  BY EmptySeq, ConcatEmptySeq
<1> QED
  BY <1>4, <1>5, <1>6 DEF Promised!Init, Detached

LEMMA NextPromised ==
  ASSUME IInv, IInv', [Next]_vars
  PROVE  Promised!Next
<1>1. PICK H, U : Inv(H, U)
  BY DEF IInv
<1>2. TypeOK'
  BY DEF IInv, Inv, Base
<1>3. script'.inline = script.inline
  <2>1. CASE Next
    BY <1>1, <2>1, InvFacts, SameHost
  <2>2. CASE UNCHANGED vars
    BY <2>2 DEF vars
  <2> QED
    BY <2>1, <2>2
<1>4. CASE ScriptStep
  BY <1>1, <1>2, <1>3, <1>4, MakePromised, CallPromised, ThenPromised DEF ScriptStep
<1>5. CASE EndStep
  BY <1>1, <1>2, <1>3, <1>5, EndPromised
<1>6. CASE NativeStep
  <2>1. CASE Release \/ Built \/ RaceEnd
    BY <1>1, <1>2, <1>3, <2>1, EndPromised
  <2>2. CASE BuildKnown \/ BuildThenable \/ BuildWait \/ BuildEnd
    BY <1>1, <1>2, <1>3, <2>2, BuildPromised
  <2>3. CASE RaceNext
    BY <1>1, <1>2, <1>3, <2>3, RacePromised
  <2>4. CASE DrainNext
    BY <1>1, <1>2, <1>3, <2>4, DrainNextPromised
  <2>5. CASE DrainEnter \/ DrainExit
    BY <1>1, <1>2, <1>3, <2>5, DrainEndsPromised
  <2> QED
    BY <1>6, <2>1, <2>2, <2>3, <2>4, <2>5 DEF NativeStep
<1>7. CASE Microtask \/ Task \/ Over \/ UNCHANGED vars
  BY <1>1, <1>2, <1>3, <1>7, HostPromised DEF Over
<1> QED
  BY <1>4, <1>5, <1>6, <1>7 DEF Next

\* Promises keep what PromiseSpec promises, whatever script does: none settles
\* twice, and each reaction runs once, after its promise settled, and in order
\* where the host queues drains.
THEOREM PromisesKept == Spec => KeepsPromises
<1>1. Init => Promised!Init
  BY InitPromised
<1>2. IInv /\ IInv' /\ [Next]_vars => [Promised!Next]_(Promised!vars)
  BY NextPromised
<1> QED
  BY <1>1, <1>2, PromisesInvariant, PTL DEF Spec, KeepsPromises, Promised!Spec

----------------------------------------------------------------------------
(* A promise that took over an outcome has it.  The reactions that settle  *)
(* it are those of the promise it took over, and nothing else may: what    *)
(* any other reaction, handler, race or aggregation will settle has taken  *)
(* over nothing, and script has no resolvers of it.                        *)

\* Returning a rejected promise from a reaction fulfils the chained one, and any
\* fulfils with a thenable as it is, which is adopted when it is passed on.
SourcesPlain ==
  /\ ~RacesThenables /\ ~({"any", "adopting"} \subseteq script.may)
  /\ "REJECTED" \notin Results

Untouched(y) == source[y] = None /\ y \notin open
Faithful(r, q) ==
  /\ r.onF.do = "resolve" => source[r.onF.to] = q
  /\ r.np # None => Untouched(r.np)
Minds(a) ==
  /\ \A i \in 1 .. Len(a.todo) : Faithful(a.todo[i], a.p)
  /\ a.k = "drain" => a.ok = (state[a.p] = "FULFILLED")
  /\ a.k \in {"handler", "race"} => Untouched(a.p)
Traced(p) ==
  source[p] # None =>
    /\ p \in Born /\ source[p] \in Born
    /\ state[p] = "PENDING" => p \notin open
    /\ state[p] \in Final => state[p] = state[source[p]] /\ value[p] = value[source[p]]

ListsFaithful ==
  \A q \in Promise : \A i \in 1 .. Len(reactions[q]) : Faithful(reactions[q][i], q)
StackMinds == \A j \in 1 .. Len(ctl) : Minds(ctl[j])
AggsUntouched == \A c \in DOMAIN agg : Untouched(c)
AllTraced == \A p \in Promise : Traced(p) /\ value[p] # Thenable
Followed == ListsFaithful /\ StackMinds /\ AggsUntouched /\ AllTraced
FInv == SourcesPlain => Followed

\* Only p may take over an outcome or be handed to script.
Takes(p) ==
  /\ p \in Promise \cup {None}
  /\ \A y \in Promise : y # p => source'[y] = source[y] /\ (y \in open' => y \in open)
  /\ p # None => source[p] = None
GoesOn(S) == S \in Seq(Activation) /\ \A j \in 1 .. Len(S) : Fit(S[j]) /\ Minds(S[j])

\* Nothing that goes on is to settle p.
FreeOn(a, p) ==
  /\ \A i \in 1 .. Len(a.todo) : a.todo[i].np # p
  /\ a.k \in {"handler", "race"} => a.p # p
Free(p, S) ==
  p # None =>
    /\ \A q \in Promise : \A i \in 1 .. Len(reactions[q]) : reactions[q][i].np # p
    /\ \A j \in 1 .. Len(S) : FreeOn(S[j], p)
    /\ p \notin DOMAIN agg

LEMMA FaithfulStays ==
  ASSUME TypeOK, NEW p, Takes(p), NEW r \in Reaction, Proper(r), NEW q \in Promise,
         Faithful(r, q), p # None => r.np # p
  PROVE  Faithful(r, q)'
<1>1. None \notin Promise /\ Born \subseteq Promise
  BY NatFacts
<1>2. r.onF.do = "resolve" => source'[r.onF.to] = q
  <2> SUFFICES ASSUME r.onF.do = "resolve" PROVE source'[r.onF.to] = q
    OBVIOUS
  <2>1. r.onF.to \in Promise /\ source[r.onF.to] = q
    BY <1>1 DEF Proper, Faithful
  <2>2. r.onF.to # p
    BY <1>1, <2>1 DEF Takes
  <2> QED
    BY <2>1, <2>2 DEF Takes
<1>3. r.np # None => Untouched(r.np)'
  <2> SUFFICES ASSUME r.np # None PROVE Untouched(r.np)'
    OBVIOUS
  <2>1. r.np \in Promise /\ Untouched(r.np) /\ r.np # p
    BY DEF Reaction, Faithful
  <2> QED
    BY <2>1 DEF Takes, Untouched
<1> QED
  BY <1>2, <1>3 DEF Faithful

LEMMA MindsStays ==
  ASSUME TypeOK, NEW p, Takes(p), NEW q, Turns(q), NEW a, Fit(a), Minds(a),
         p # None => FreeOn(a, p)
  PROVE  Minds(a)'
<1>1. Born \subseteq Promise /\ None \notin Promise
  BY NatFacts
<1>2. a.k # "main" => a.p \in Promise
  BY <1>1 DEF Fit
<1>3. ASSUME NEW i \in 1 .. Len(a.todo) PROVE Faithful(a.todo[i], a.p)'
  <2>1. a.k = "drain"
    <3>1. a.todo # <<>>
      <4> SUFFICES ASSUME a.todo = <<>> PROVE FALSE
        OBVIOUS
      <4>1. Len(a.todo) = 0
        OBVIOUS
      <4> QED
        BY <1>3, <4>1
    <3> QED
      BY <3>1 DEF Fit
  <2>2. /\ a.p \in Promise /\ a.todo[i] \in Reaction /\ Proper(a.todo[i])
        /\ Faithful(a.todo[i], a.p)
    BY <1>2, <2>1 DEF Fit, Minds
  <2>3. p # None => a.todo[i].np # p
    BY DEF FreeOn
  <2> QED
    BY <2>2, <2>3, FaithfulStays
<1>4. a.k = "drain" => a.ok = (state'[a.p] = "FULFILLED")
  <2> SUFFICES ASSUME a.k = "drain" PROVE a.ok = (state'[a.p] = "FULFILLED")
    OBVIOUS
  <2>1. a.p \in Promise /\ a.p # q /\ a.ok = (state[a.p] = "FULFILLED")
    BY <1>1, <1>2 DEF Fit, Minds, Turns
  <2>2. state'[a.p] = state[a.p]
    BY <2>1 DEF Turns
  <2> QED
    BY <2>1, <2>2
<1>5. a.k \in {"handler", "race"} => Untouched(a.p)'
  <2> SUFFICES ASSUME a.k \in {"handler", "race"} PROVE Untouched(a.p)'
    OBVIOUS
  <2>1. a.p \in Promise /\ Untouched(a.p) /\ a.p # p
    BY <1>1, <1>2 DEF Minds, FreeOn
  <2> QED
    BY <2>1 DEF Takes, Untouched
<1> QED
  BY <1>3, <1>4, <1>5 DEF Minds

\* What a step may do, that keeps all this.
LEMMA FollowStep ==
  ASSUME NEW H, NEW U, Inv(H, U), TypeOK', Followed, born <= born',
         NEW p, Takes(p), NEW q, Turns(q), NEW S, GoesOn(S), Free(p, S),
         \/ ctl' = S
         \/ \E a \in Activation : ctl' = Append(S, a) /\ Minds(a)',
         \A y \in Promise :
           \/ reactions'[y] = reactions[y]
           \/ reactions'[y] = <<>>
           \/ \E r \in Reaction : reactions'[y] = Append(reactions[y], r) /\ Faithful(r, y)',
         \A c \in DOMAIN agg' : c \in DOMAIN agg \/ Untouched(c)',
         \A y \in {p, q} : y # None => Traced(y)' /\ value'[y] # Thenable
  PROVE  Followed'
<1>1. /\ TypeOK /\ ReactionsGood(H) /\ AggregatesProper /\ Numbered
      /\ None \notin Promise /\ Born \subseteq Promise
  BY InvFacts, NatFacts
<1>2. Born \subseteq Born'
  BY <1>1, NatFacts DEF Born, TypeOK, Promise
<1>3. ASSUME NEW y \in Promise, NEW i \in 1 .. Len(reactions[y]), NEW r, r = reactions[y][i]
      PROVE  Faithful(r, y)'
  <2>1. r \in Reaction /\ Proper(r) /\ Faithful(r, y)
    BY <1>1, <1>3 DEF ReactionsGood, HeldAt, Good, Followed, ListsFaithful
  <2>2. p # None => r.np # p
    BY <1>3 DEF Free
  <2> QED
    BY <1>1, <2>1, <2>2, FaithfulStays
<1>4. ListsFaithful'
  <2> SUFFICES ASSUME NEW y \in Promise, NEW t, t = reactions'[y], NEW i \in 1 .. Len(t),
                      NEW r, r = t[i]
               PROVE  Faithful(r, y)'
    BY DEF ListsFaithful
  <2>1. CASE t = reactions[y]
    BY <1>3, <2>1
  <2>2. CASE t = <<>>
    BY <2>2
  <2>3. CASE \E e \in Reaction : t = Append(reactions[y], e) /\ Faithful(e, y)'
    <3>1. PICK e \in Reaction : t = Append(reactions[y], e) /\ Faithful(e, y)'
      BY <2>3
    <3>2. PICK s : s = reactions[y]
      OBVIOUS
    <3>3. s \in Seq(Reaction)
      BY <1>1, <3>2 DEF TypeOK
    <3>4. /\ Len(t) = Len(s) + 1 /\ Len(s) \in Nat /\ t[Len(s) + 1] = e
          /\ \A k \in 1 .. Len(s) : t[k] = s[k]
      BY <3>1, <3>2, <3>3, PushedType
    <3>5. i \in 1 .. Len(s) \/ i = Len(s) + 1
      BY <3>4
    <3>6. CASE i \in 1 .. Len(s)
      BY <1>3, <3>2, <3>4, <3>6
    <3>7. CASE i = Len(s) + 1
      BY <3>1, <3>4, <3>7
    <3> QED
      BY <3>5, <3>6, <3>7
  <2> QED
    BY <2>1, <2>2, <2>3
<1>5. ASSUME NEW j \in 1 .. Len(S) PROVE Minds(S[j])'
  <2>1. Fit(S[j]) /\ Minds(S[j]) /\ (p # None => FreeOn(S[j], p))
    BY DEF GoesOn, Free
  <2> QED
    BY <1>1, <2>1, MindsStays
<1>6. StackMinds'
  <2>1. CASE ctl' = S
    BY <1>5, <2>1 DEF StackMinds
  <2>2. CASE \E a \in Activation : ctl' = Append(S, a) /\ Minds(a)'
    <3>1. PICK a \in Activation : ctl' = Append(S, a) /\ Minds(a)'
      BY <2>2
    <3>2. PICK T : T = ctl'
      OBVIOUS
    <3>3. /\ Len(T) = Len(S) + 1 /\ Len(S) \in Nat /\ T[Len(S) + 1] = a
          /\ \A k \in 1 .. Len(S) : T[k] = S[k]
      BY <3>1, <3>2, PushedType DEF GoesOn
    <3>4. \A j \in 1 .. Len(T) : Minds(T[j])'
      <4> SUFFICES ASSUME NEW j \in 1 .. Len(T) PROVE Minds(T[j])'
        OBVIOUS
      <4>1. j \in 1 .. Len(S) \/ j = Len(S) + 1
        BY <3>3
      <4>2. CASE j \in 1 .. Len(S)
        BY <1>5, <3>3, <4>2
      <4>3. CASE j = Len(S) + 1
        BY <3>1, <3>3, <4>3
      <4> QED
        BY <4>1, <4>2, <4>3
    <3> QED
      BY <3>2, <3>4 DEF StackMinds
  <2> QED
    BY <2>1, <2>2
<1>7. AggsUntouched'
  <2> SUFFICES ASSUME NEW c \in DOMAIN agg' PROVE Untouched(c)'
    BY DEF AggsUntouched
  <2>1. CASE c \in DOMAIN agg
    <3>1. Untouched(c) /\ c \in Promise /\ c # p
      BY <1>1, <2>1 DEF Followed, AggsUntouched, Free, AggregatesProper
    <3> QED
      BY <3>1 DEF Takes, Untouched
  <2> QED
    BY <2>1
<1>8. AllTraced'
  <2> SUFFICES ASSUME NEW y \in Promise PROVE Traced(y)' /\ value'[y] # Thenable
    BY DEF AllTraced
  <2>1. CASE y \in {p, q}
    BY <1>1, <2>1
  <2>2. CASE y # p /\ y # q
    <3>1. /\ source'[y] = source[y] /\ (y \in open' => y \in open)
          /\ state'[y] = state[y] /\ value'[y] = value[y] /\ value[y] # Thenable /\ Traced(y)
      BY <2>2 DEF Takes, Turns, Followed, AllTraced
    <3>2. ASSUME source[y] # None, state[y] \in Final
          PROVE  state'[source[y]] = state[source[y]] /\ value'[source[y]] = value[source[y]]
      <4>1. source[y] \in Promise /\ state[source[y]] \in Final
        BY <1>1, <3>1, <3>2 DEF Traced
      <4>2. source[y] # q
        BY <1>1, <4>1 DEF Turns
      <4> QED
        BY <4>1, <4>2 DEF Turns
    <3> QED
      BY <1>2, <3>1, <3>2 DEF Traced
  <2> QED
    BY <2>1, <2>2
<1> QED
  BY <1>4, <1>6, <1>7, <1>8 DEF Followed

LEMMA PlainMinds ==
  ASSUME NEW k \in {"main", "executor", "then", "enter", "build", "built", "release"},
         NEW p \in Promise \cup {None}, NEW a, a = Active(k, p)
  PROVE  a \in Activation /\ Minds(a) /\ Minds(a)'
<1>1. a \in Activation /\ a.todo = <<>> /\ a.k = k
  BY FreshActivation
<1>2. Len(a.todo) = 0
  BY <1>1
<1> QED
  BY <1>1, <1>2 DEF Minds

\* A step that settles nothing and registers nothing.
LEMMA RestFollows ==
  ASSUME NEW H, NEW U, Inv(H, U), TypeOK', Followed, NEW S, GoesOn(S),
         \/ ctl' = S
         \/ \E a \in Activation : ctl' = Append(S, a) /\ Minds(a)',
         UNCHANGED promiseVars, born' = born,
         \A c \in DOMAIN agg' : c \in DOMAIN agg \/ Untouched(c)'
  PROVE  Followed'
<1>1. Takes(None) /\ Turns(None) /\ Free(None, S)
  BY DEF Takes, Turns, Free, promiseVars
<1>2. \A y \in Promise : reactions'[y] = reactions[y]
  BY DEF promiseVars
<1>3. born <= born'
  BY NatFacts, InvFacts
<1> QED
  BY <1>1, <1>2, <1>3, FollowStep

\* The drain of p is scheduled, or nothing is.
LEMMA ScheduleGoesOn ==
  ASSUME NEW S, NEW p \in Promise, NEW R, Schedule(p, R, S)
  PROVE  ctl' = S \/ \E a \in Activation : ctl' = Append(S, a) /\ Minds(a)'
<1>1. PICK a : a = Active("enter", p)
  OBVIOUS
<1>2. a \in Activation /\ Minds(a)'
  BY <1>1, PlainMinds
<1>3. ctl' = S \/ ctl' = Append(S, a)
  BY <1>1 DEF Schedule, Keep
<1> QED
  BY <1>2, <1>3

\* p settles: with the outcome of the promise it took over, if there is one.
LEMMA ConcludeFollows ==
  ASSUME NEW H, NEW U, Inv(H, U), TypeOK', Followed, NEW S, GoesOn(S),
         NEW p \in Promise, state[p] = "PENDING", NEW st \in Final, NEW v, v # Thenable,
         source[p] = None \/ (st = state[source[p]] /\ v = value[source[p]]),
         Conclude(p, st, v, None, S), born' = born,
         \A c \in DOMAIN agg' : c \in DOMAIN agg \/ Untouched(c)'
  PROVE  Followed'
<1>1. /\ TypeOK /\ born <= born' /\ Born \subseteq Promise /\ Born' = Born
      /\ None \notin Promise
  BY NatFacts, InvFacts DEF Born
<1>2. /\ state' = [state EXCEPT ![p] = st] /\ value' = [value EXCEPT ![p] = v]
      /\ source' = source /\ reactions' = reactions /\ open' = open /\ Schedule(p, {}, S)
  BY <1>1 DEF Conclude, Settle, TypeOK
<1>3. Takes(None) /\ Free(None, S) /\ Turns(p)
  BY <1>1, <1>2 DEF Takes, Turns, Free, TypeOK, Final
<1>4. Traced(p)' /\ value'[p] # Thenable
  <2>1. state'[p] = st /\ value'[p] = v
    BY <1>1, <1>2 DEF TypeOK
  <2>2. ASSUME source[p] # None
        PROVE  /\ p \in Born' /\ source'[p] \in Born' /\ (state'[p] = "PENDING" => p \notin open')
               /\ state'[p] = state'[source'[p]] /\ value'[p] = value'[source'[p]]
    <3>1. /\ source[p] \in Born /\ p \in Born /\ st = state[source[p]] /\ v = value[source[p]]
      BY <2>2 DEF Followed, AllTraced, Traced
    <3>2. source[p] # p /\ source[p] \in Promise
      BY <1>1, <3>1 DEF Final
    <3>3. state'[source[p]] = st /\ value'[source[p]] = v
      BY <1>1, <1>2, <3>1, <3>2 DEF TypeOK
    <3> QED
      BY <1>1, <1>2, <2>1, <3>1, <3>3 DEF Final
  <2> QED
    BY <1>2, <2>1, <2>2 DEF Traced
<1>5. ctl' = S \/ \E a \in Activation : ctl' = Append(S, a) /\ Minds(a)'
  BY <1>2, ScheduleGoesOn
<1>6. \A y \in {None, p} : y # None => Traced(y)' /\ value'[y] # Thenable
  BY <1>4
<1>7. \A y \in Promise : reactions'[y] = reactions[y]
  BY <1>2
<1> QED
  BY <1>1, <1>3, <1>5, <1>6, <1>7, FollowStep

\* p takes over the outcome that x has.
LEMMA TakeFollows ==
  ASSUME NEW H, NEW U, Inv(H, U), TypeOK', Followed, NEW S, GoesOn(S),
         NEW p \in Born, state[p] = "PENDING", source[p] = None, p \notin open, Free(p, S),
         NEW x \in Born, NEW st \in Final, x # p => state[x] = st,
         Conclude(p, st, value[x], x, S), born' = born, agg' = agg
  PROVE  Followed'
<1>1. /\ TypeOK /\ born <= born' /\ Born \subseteq Promise /\ Born' = Born
      /\ None \notin Promise
  BY NatFacts, InvFacts DEF Born
<1>2. /\ state' = [state EXCEPT ![p] = st] /\ value' = [value EXCEPT ![p] = value[x]]
      /\ source' = [source EXCEPT ![p] = x] /\ reactions' = reactions /\ open' = open
      /\ Schedule(p, {}, S)
  BY <1>1 DEF Conclude, Settle, TypeOK
<1>3. Takes(p) /\ Turns(p)
  BY <1>1, <1>2 DEF Takes, Turns, TypeOK, Final
<1>4. Traced(p)' /\ value'[p] # Thenable
  <2>1. state'[p] = st /\ value'[p] = value[x] /\ source'[p] = x
    BY <1>1, <1>2 DEF TypeOK
  <2>2. state'[x] = st /\ value'[x] = value[x]
    BY <1>1, <1>2, <2>1 DEF TypeOK
  <2>3. value[x] # Thenable
    BY <1>1 DEF Followed, AllTraced
  <2> QED
    BY <1>1, <1>2, <2>1, <2>2, <2>3 DEF Traced
<1>5. ctl' = S \/ \E a \in Activation : ctl' = Append(S, a) /\ Minds(a)'
  BY <1>1, <1>2, ScheduleGoesOn
<1>6. \A c \in DOMAIN agg' : c \in DOMAIN agg \/ Untouched(c)'
  OBVIOUS
<1>7. \A y \in Promise : reactions'[y] = reactions[y]
  BY <1>2
<1>8. \A y \in {p} : y # None => Traced(y)' /\ value'[y] # Thenable
  BY <1>4
<1> QED
  BY <1>1, <1>3, <1>5, <1>6, <1>7, <1>8, FollowStep

\* p adopts x, and will settle as x does.
LEMMA AdoptFollows ==
  ASSUME NEW H, NEW U, Inv(H, U), TypeOK', Followed, NEW S, GoesOn(S),
         NEW p \in Born, state[p] = "PENDING", source[p] = None, Free(p, S),
         NEW x \in Born \cup {Thenable}, Adopt(p, x, S), born' = born, agg' = agg
  PROVE  Followed'
<1>1. /\ TypeOK /\ born <= born' /\ Born \subseteq Promise /\ Born' = Born
      /\ None \notin Promise /\ Thenable \notin Promise
  BY NatFacts, InvFacts, PromiseAssumption DEF Born
<1>2. state' = state /\ value' = value /\ value[p] # Thenable
  BY <1>1 DEF Adopt, Followed, AllTraced
<1>3. CASE x \in Born
  <2>1. PICK r : r = [onF |-> Calls("resolve", p, 0), onR |-> Calls("reject", p, 0), np |-> None]
    OBVIOUS
  <2>2. /\ ThenOn(x, r, {p}, S) /\ source' = [source EXCEPT ![p] = x] /\ open' = open \ {p}
    BY <1>1, <1>3, <2>1 DEF Adopt
  <2>3. r \in Reaction /\ r.np = None /\ r.onF.do = "resolve" /\ r.onF.to = p
    BY <1>1, <2>1 DEF Reaction, Handler, Calls
  <2>4. Takes(p) /\ Turns(None)
    BY <1>1, <1>2, <2>2 DEF Takes, Turns, TypeOK
  <2>5. Faithful(r, x)' /\ source'[p] = x
    BY <1>1, <2>2, <2>3 DEF Faithful, TypeOK
  <2>6. \A y \in Promise : \/ reactions'[y] = reactions[y]
                           \/ \E e \in Reaction : /\ reactions'[y] = Append(reactions[y], e)
                                                  /\ Faithful(e, y)'
    <3> SUFFICES ASSUME NEW y \in Promise
                 PROVE  \/ reactions'[y] = reactions[y]
                        \/ \E e \in Reaction : /\ reactions'[y] = Append(reactions[y], e)
                                               /\ Faithful(e, y)'
      OBVIOUS
    <3>1. reactions' = [reactions EXCEPT ![x] = Append(@, r)]
      BY <2>2 DEF ThenOn
    <3>2. CASE y # x
      BY <1>1, <3>1, <3>2 DEF TypeOK
    <3>3. CASE y = x
      BY <1>1, <2>3, <2>5, <3>1, <3>3 DEF TypeOK
    <3> QED
      BY <3>2, <3>3
  <2>7. ctl' = S \/ \E a \in Activation : ctl' = Append(S, a) /\ Minds(a)'
    BY <1>1, <1>3, <2>2, ScheduleGoesOn DEF ThenOn, Keep
  <2>8. Traced(p)' /\ value'[p] # Thenable
    BY <1>1, <1>2, <1>3, <2>2, <2>5 DEF Traced, Final
  <2>9. \A y \in {p, None} : y # None => Traced(y)' /\ value'[y] # Thenable
    BY <2>8
  <2>10. \A c \in DOMAIN agg' : c \in DOMAIN agg \/ Untouched(c)'
    OBVIOUS
  <2> QED
    BY <1>1, <2>4, <2>6, <2>7, <2>9, <2>10, FollowStep
<1>4. CASE x = Thenable
  <2>1. PICK a : a = Active("then", p)
    OBVIOUS
  <2>2. /\ ctl' = Append(S, a) /\ open' = open \cup {p} /\ reactions' = reactions
        /\ source' = source
    BY <1>1, <1>4, <2>1 DEF Adopt, Keep
  <2>3. a \in Activation /\ Minds(a)'
    BY <1>1, <2>1, PlainMinds
  <2>4. Takes(p) /\ Turns(None) /\ Traced(p)'
    BY <1>1, <1>2, <2>2 DEF Takes, Turns, Traced
  <2>5. \A y \in {p, None} : y # None => Traced(y)' /\ value'[y] # Thenable
    BY <1>2, <2>4
  <2>6. \A y \in Promise : reactions'[y] = reactions[y]
    BY <2>2
  <2>7. \A c \in DOMAIN agg' : c \in DOMAIN agg \/ Untouched(c)'
    OBVIOUS
  <2> QED
    BY <1>1, <2>2, <2>3, <2>4, <2>5, <2>6, <2>7, FollowStep
<1> QED
  BY <1>3, <1>4

----------------------------------------------------------------------------
(* The stacks that the actions go on with, and what nothing on them is to  *)
(* settle.                                                                 *)

LEMMA StackFits ==
  ASSUME NEW H, NEW U, Inv(H, U), Followed
  PROVE  \A j \in 1 .. Len(ctl) : Fit(ctl[j]) /\ Minds(ctl[j])
<1> SUFFICES ASSUME NEW j \in 1 .. Len(ctl) PROVE Fit(ctl[j]) /\ Minds(ctl[j])
  OBVIOUS
<1>1. PICK a : a = ctl[j]
  OBVIOUS
<1>2. GoodAt(a, j, H, U) /\ Minds(a)
  BY <1>1, InvFacts DEF StackGood, Followed, StackMinds
<1>3. Fit(a)
  BY <1>2 DEF GoodAt, Fit, HeldAt, Good
<1> QED
  BY <1>1, <1>2, <1>3

LEMMA StacksGoOn ==
  ASSUME NEW H, NEW U, Inv(H, U), Followed
  PROVE  /\ GoesOn(ctl)
         /\ ctl # <<>> => /\ GoesOn(Below) /\ Fit(Top) /\ Minds(Top)
                          /\ \A a : Fit(a) /\ Minds(a) => GoesOn(Replaced(a))
<1>1. TypeOK /\ ctl \in Seq(Activation)
  BY InvFacts DEF TypeOK
<1>2. \A j \in 1 .. Len(ctl) : Fit(ctl[j]) /\ Minds(ctl[j])
  BY StackFits
<1>3. ASSUME ctl # <<>>
      PROVE  /\ GoesOn(Below) /\ Fit(Top) /\ Minds(Top)
             /\ \A a : Fit(a) /\ Minds(a) => GoesOn(Replaced(a))
  <2>1. /\ Len(ctl) \in Nat \ {0} /\ Top \in Activation /\ Top = ctl[Len(ctl)]
        /\ Below \in Seq(Activation) /\ Len(Below) = Len(ctl) - 1
        /\ \A i \in 1 .. Len(ctl) - 1 : Below[i] = ctl[i]
    BY <1>1, <1>3, StackType
  <2>2. GoesOn(Below) /\ Fit(Top) /\ Minds(Top)
    BY <1>2, <2>1 DEF GoesOn
  <2>3. ASSUME NEW a, Fit(a), Minds(a) PROVE GoesOn(Replaced(a))
    <3>1. a \in Activation
      BY <2>3 DEF Fit
    <3>2. PICK T : T = Replaced(a)
      OBVIOUS
    <3>3. /\ T \in Seq(Activation) /\ Len(T) = Len(ctl)
          /\ T[Len(ctl)] = a /\ \A i \in 1 .. Len(ctl) - 1 : T[i] = ctl[i]
      BY <1>1, <1>3, <3>1, <3>2, ReplacedType
    <3>4. \A j \in 1 .. Len(T) : j = Len(ctl) \/ j \in 1 .. Len(ctl) - 1
      BY <2>1, <3>3
    <3>5. \A j \in 1 .. Len(T) : Fit(T[j]) /\ Minds(T[j])
      BY <1>2, <2>1, <2>3, <3>3, <3>4
    <3> QED
      BY <3>2, <3>3, <3>5 DEF GoesOn
  <2> QED
    BY <2>2, <2>3
<1> QED
  BY <1>1, <1>2, <1>3 DEF GoesOn

\* What script has resolvers of is not awaited, nor is what is not made yet.
LEMMA FreeFacts ==
  ASSUME NEW H, NEW U, Inv(H, U), Followed, NEW S, GoesOn(S), NEW p,
         p \in open \/ (p \in Promise /\ p \notin Born)
  PROVE  Free(p, S)
<1>1. /\ TypeOK /\ ReactionsGood(H) /\ AggregatesProper /\ Numbered
      /\ None \notin Promise /\ Born \subseteq Promise
  BY InvFacts, NatFacts
<1>2. \A y \in Promise : Untouched(y) /\ y \in Born => y # p
  BY <1>1 DEF Untouched
<1>3. ASSUME NEW r, NEW q, r \in Reaction, Proper(r), Faithful(r, q) PROVE r.np # p
  <2>1. r.np = None \/ (r.np \in Born /\ r.np # None)
    BY <1>1, <1>3 DEF Proper
  <2>2. p # None
    BY <1>1 DEF TypeOK
  <2> QED
    BY <1>1, <1>2, <1>3, <2>1, <2>2 DEF Faithful
<1>4. ASSUME NEW q \in Promise, NEW i \in 1 .. Len(reactions[q]) PROVE reactions[q][i].np # p
  <2>1. PICK r : r = reactions[q][i]
    OBVIOUS
  <2>2. r \in Reaction /\ Proper(r) /\ Faithful(r, q)
    BY <1>1, <2>1 DEF ReactionsGood, HeldAt, Good, Followed, ListsFaithful
  <2> QED
    BY <1>3, <2>1, <2>2
<1>5. ASSUME NEW j \in 1 .. Len(S) PROVE FreeOn(S[j], p)
  <2>1. PICK a : a = S[j]
    OBVIOUS
  <2>2. Fit(a) /\ Minds(a)
    BY <2>1 DEF GoesOn
  <2>3. \A i \in 1 .. Len(a.todo) : a.todo[i].np # p
    BY <1>3, <2>2 DEF Fit, Minds
  <2>4. a.k \in {"handler", "race"} => a.p # p
    BY <1>1, <1>2, <2>2 DEF Fit, Minds
  <2> QED
    BY <2>1, <2>3, <2>4 DEF FreeOn
<1>6. p \notin DOMAIN agg
  BY <1>1, <1>2 DEF Followed, AggsUntouched, AggregatesProper
<1> QED
  BY <1>4, <1>5, <1>6 DEF Free

\* Nor is the promise of the handler that runs, when the handler is gone.
LEMMA HandlerFree ==
  ASSUME NEW H, NEW U, Inv(H, U), ctl # <<>>, Top.k = "handler"
  PROVE  Free(Top.p, Below) /\ Top.p \in Born /\ state[Top.p] = "PENDING" /\ Top.p \notin open
<1>1. /\ TypeOK /\ ReactionsGood(H) /\ StackGood(H, U) /\ Owners(H, U)
  BY InvFacts
<1>2. /\ Len(ctl) \in Nat \ {0} /\ Len(Below) = Len(ctl) - 1
      /\ \A i \in 1 .. Len(ctl) - 1 : Below[i] = ctl[i]
  BY <1>1, StackType
<1>3. PICK p : p = Top.p
  OBVIOUS
<1>4. p \in Born /\ p \in DOMAIN H /\ H[p] = OnStack(Len(ctl))
  BY <1>1, <1>3, StackReady DEF GoodAt
<1>5. \A y : OnList(y) # OnStack(Len(ctl))
  BY DEF OnList, OnStack
<1>6. ASSUME NEW q \in Promise, NEW i \in 1 .. Len(reactions[q]) PROVE reactions[q][i].np # p
  BY <1>1, <1>4, <1>5 DEF ReactionsGood, HeldAt
<1>7. ASSUME NEW j \in 1 .. Len(Below) PROVE FreeOn(Below[j], p)
  <2>1. j \in 1 .. Len(ctl) /\ j # Len(ctl) /\ Below[j] = ctl[j]
    BY <1>2
  <2>2. PICK a : a = Below[j] /\ GoodAt(a, j, H, U)
    BY <1>1, <2>1 DEF StackGood
  <2>3. OnStack(j) # OnStack(Len(ctl))
    BY <2>1 DEF OnStack
  <2>4. \A i \in 1 .. Len(a.todo) : a.todo[i].np # p
    BY <1>4, <2>2, <2>3 DEF GoodAt, HeldAt
  <2>5. a.k \in {"handler", "race"} => a.p # p
    BY <1>4, <2>2, <2>3 DEF GoodAt
  <2> QED
    BY <2>2, <2>4, <2>5 DEF FreeOn
<1>8. p \notin DOMAIN agg /\ state[p] = "PENDING" /\ p \notin open
  BY <1>1, <1>4 DEF Owners
<1> QED
  BY <1>3, <1>4, <1>6, <1>7, <1>8 DEF Free

----------------------------------------------------------------------------
(* The steps of script code.                                               *)

LEMMA CallFollows ==
  ASSUME NEW H, NEW U, Inv(H, U), TypeOK', SourcesPlain, Followed, Resolve \/ Reject
  PROVE  Followed'
<1>1. /\ TypeOK /\ Numbered /\ Born \subseteq Promise /\ None \notin Promise
      /\ GoesOn(ctl) /\ born' = born /\ agg' = agg
  BY InvFacts, NatFacts, StacksGoOn DEF Resolve, Reject
<1>2. \A v \in Val : v \notin Promise /\ v # Thenable
  BY PromiseAssumption
<1>3. PICK S : S = ctl
  OBVIOUS
<1>4. \E p \in open : \E v \in Val \cup known \cup {Thenable} :
        v # p /\ (ResolveCb(p, v, S) \/ (v \in Val /\ RejectCb(p, v, S)))
  <2>1. open \subseteq Promise
    BY <1>1 DEF TypeOK
  <2> QED
    BY <1>2, <1>3, <2>1 DEF Resolve, Reject
<1>5. PICK p \in open, v \in Val \cup known \cup {Thenable} :
        v # p /\ (ResolveCb(p, v, S) \/ (v \in Val /\ RejectCb(p, v, S)))
  BY <1>4
<1>6. p \in Born /\ p \in Promise /\ GoesOn(S) /\ Free(p, S)
  BY <1>1, <1>3, FreeFacts DEF Numbered
<1>7. state[p] = "PENDING" => source[p] = None
  BY <1>6 DEF Followed, AllTraced, Traced
<1>8. CASE Skip(S)
  BY <1>1, <1>6, <1>8, RestFollows DEF Skip, Keep
<1>9. CASE state[p] = "PENDING" /\ Adoptable(v, p) /\ Adopt(p, v, S)
  <2>1. v \in Born \cup {Thenable}
    BY <1>1, <1>2, <1>9 DEF Adoptable, Numbered
  <2> QED
    BY <1>1, <1>6, <1>7, <1>9, <2>1, AdoptFollows
<1>10. CASE \E st \in Final : v \in Val /\ state[p] = "PENDING" /\ Conclude(p, st, v, None, S)
  <2>1. PICK st \in Final : v \in Val /\ state[p] = "PENDING" /\ Conclude(p, st, v, None, S)
    BY <1>10
  <2> QED
    BY <1>1, <1>2, <1>6, <1>7, <2>1, ConcludeFollows
<1>11. ~Adoptable(v, p) => v \in Val
  BY <1>1, <1>5 DEF Adoptable, Numbered
<1> QED
  BY <1>5, <1>8, <1>9, <1>10, <1>11 DEF ResolveCb, RejectCb, Final

\* A step that makes promise f.
LEMMA MakeFollows ==
  ASSUME NEW H, NEW U, Inv(H, U), TypeOK', Followed, NEW S, GoesOn(S),
         NEW st, NEW v, v # Thenable, MakeFresh(st, v), NEW f, f = Fresh,
         source' = source, open' \subseteq open \cup {f},
         \/ ctl' = S
         \/ \E a \in Activation : ctl' = Append(S, a) /\ Minds(a)',
         \A y \in Promise :
           \/ reactions'[y] = reactions[y]
           \/ \E r \in Reaction : reactions'[y] = Append(reactions[y], r) /\ Faithful(r, y)',
         \A c \in DOMAIN agg' : c \in DOMAIN agg \/ Untouched(c)'
  PROVE  Followed'
<1>1. TypeOK /\ Numbered /\ born \in Nat /\ None \notin Promise /\ Born \subseteq Promise
  BY InvFacts, NatFacts
<1>2. f = born + 1 /\ born' = f /\ born <= born'
  BY <1>1 DEF MakeFresh, Fresh
<1>3. f \in Promise /\ f \notin Born /\ f # None
  BY <1>1, <1>2 DEF TypeOK, Born, None
<1>4. state' = [state EXCEPT ![f] = st] /\ value' = [value EXCEPT ![f] = v]
  BY DEF MakeFresh, Settle
<1>5. state[f] = "UNBORN" /\ source[f] = None
  BY <1>1, <1>2, <1>3 DEF Numbered, Followed, AllTraced, Traced
<1>6. Takes(f) /\ Turns(f) /\ Free(f, S)
  BY <1>1, <1>3, <1>4, <1>5, FreeFacts DEF Takes, Turns, Final, TypeOK
<1>7. \A y \in {f} : y # None => Traced(y)' /\ value'[y] # Thenable
  BY <1>1, <1>3, <1>4, <1>5 DEF Traced, TypeOK
<1> QED
  BY <1>2, <1>6, <1>7, FollowStep

LEMMA FreshFacts ==
  ASSUME NEW H, NEW U, Inv(H, U), TypeOK', Followed, NEW st, NEW v, MakeFresh(st, v),
         NEW f, f = Fresh
  PROVE  /\ f \in Promise /\ f # None /\ f \notin Born /\ source[f] = None /\ f \notin open
         /\ value'[f] = v
<1>1. TypeOK /\ Numbered /\ born \in Nat /\ None \notin Promise
  BY InvFacts, NatFacts
<1>2. f = born + 1 /\ born' = f
  BY <1>1 DEF MakeFresh, Fresh
<1>3. f \in Promise /\ f \notin Born /\ f # None
  BY <1>1, <1>2 DEF TypeOK, Born, None
<1> QED
  BY <1>1, <1>3 DEF Numbered, Followed, AllTraced, Traced, MakeFresh, Settle, TypeOK

LEMMA MakesFollow ==
  ASSUME NEW H, NEW U, Inv(H, U), TypeOK', ThenablesAllowed', script'.may = script.may,
         SourcesPlain, Followed,
         \/ WithResolvers \/ Construct \/ MakeSettled \/ MakeAdopting \/ All \/ Race \/ AnyOf
         \/ Then
  PROVE  Followed'
<1>1. GoesOn(ctl)
  BY StacksGoOn
<1>2. PICK f, S : f = Fresh /\ S = ctl
  OBVIOUS
<1>3. \A v \in Val \cup {NoVal, Array} : v # Thenable
  BY PromiseAssumption
<1>4. source' = source /\ open' \subseteq open \cup {f} /\ \E st, v : MakeFresh(st, v)
  BY <1>2 DEF WithResolvers, Construct, MakeSettled, MakeAdopting, All, Race, AnyOf, Then
<1>5. /\ f \in Promise /\ f # None /\ f \notin Born /\ source[f] = None /\ f \notin open
      /\ \A st, v : MakeFresh(st, v) => value'[f] = v
  BY <1>2, <1>4, FreshFacts
<1>6. CASE WithResolvers \/ MakeSettled \/ AnyOf
  <2>1. PICK st, v : MakeFresh(st, v) /\ v # Thenable
    <3>1. CASE WithResolvers \/ MakeSettled
      BY <1>3, <3>1 DEF WithResolvers, MakeSettled
    <3>2. CASE AnyOf
      <4>1. "adopting" \notin script'.may
        BY <3>2 DEF AnyOf, InScript, SourcesPlain
      <4>2. value'[f] # Thenable
        BY <1>5, <4>1 DEF ThenablesAllowed
      <4> QED
        BY <1>4, <1>5, <4>2
    <3> QED
      BY <1>6, <3>1, <3>2
  <2>2. ctl' = S /\ reactions' = reactions /\ agg' = agg
    BY <1>2, <1>6 DEF WithResolvers, MakeSettled, AnyOf, Keep
  <2> QED
    BY <1>1, <1>2, <1>4, <2>1, <2>2, MakeFollows
<1>7. CASE Construct \/ MakeAdopting \/ All
  <2>1. PICK st, v : MakeFresh(st, v) /\ v # Thenable
    BY <1>3, <1>7 DEF Construct, MakeAdopting, All
  <2>2. PICK k \in {"executor", "then", "build"} : ctl' = Append(S, Active(k, f))
    BY <1>2, <1>7 DEF Construct, MakeAdopting, All, Keep
  <2>3. PICK a : a = Active(k, f)
    OBVIOUS
  <2>4. a \in Activation /\ Minds(a)' /\ ctl' = Append(S, a)
    BY <1>5, <2>2, <2>3, PlainMinds
  <2>5. reactions' = reactions
    BY <1>7 DEF Construct, MakeAdopting, All
  <2>6. \A c \in DOMAIN agg' : c \in DOMAIN agg \/ Untouched(c)'
    <3>1. CASE Construct \/ MakeAdopting
      BY <3>1 DEF Construct, MakeAdopting
    <3>2. CASE All
      <4>1. \A c \in DOMAIN agg' : c \in DOMAIN agg \/ c = f
        BY <1>2, <3>2 DEF All
      <4>2. Untouched(f)'
        BY <1>4, <1>5, <3>2 DEF All, Untouched
      <4> QED
        BY <4>1, <4>2
    <3> QED
      BY <1>7, <3>1, <3>2
  <2> QED
    BY <1>1, <1>2, <1>4, <2>1, <2>4, <2>5, <2>6, MakeFollows
<1>8. CASE Race
  <2>1. /\ MakeFresh("PENDING", NoVal) /\ NoVal # Thenable
        /\ reactions' = reactions /\ open' = open /\ agg' = agg
    BY <1>3, <1>8 DEF Race
  <2>2. PICK items \in Items : ctl' = Append(S, [Active("race", f) EXCEPT !.items = items])
    BY <1>2, <1>8 DEF Race, Keep
  <2>3. PICK a : a = [Active("race", f) EXCEPT !.items = items]
    OBVIOUS
  <2>4. a.k = "race" /\ a.p = f /\ Len(a.todo) = 0
    BY <2>3 DEF Active
  <2>5. a \in Activation
    <3>1. Active("race", f) \in Activation /\ items \in Seq(AnyVal \cup Promise)
      BY <1>5, FreshActivation, ItemsFacts
    <3> QED
      BY <2>3, <3>1 DEF Activation
  <2>6. Minds(a)'
    BY <1>4, <1>5, <2>1, <2>4 DEF Minds, Untouched
  <2> QED
    BY <1>1, <1>2, <1>4, <2>1, <2>2, <2>3, <2>5, <2>6, MakeFollows
<1>9. CASE Then
  <2>1. PICK p \in known, g \in {Js, NoHandler}, h \in {Js, NoHandler} :
          ThenOn(p, [onF |-> g, onR |-> h, np |-> f], {}, S)
    BY <1>2, <1>9 DEF Then
  <2>2. PICK r : r = [onF |-> g, onR |-> h, np |-> f]
    OBVIOUS
  <2>3. r \in Reaction /\ r.np = f /\ r.onF.do # "resolve"
    BY <1>5, <2>2 DEF Reaction, Handler, Js, NoHandler, Calls, None
  <2>4. /\ MakeFresh("PENDING", NoVal) /\ NoVal # Thenable /\ open' = open /\ agg' = agg
        /\ TypeOK /\ p \in Promise
    BY <1>3, <1>9, InvFacts DEF Then, TypeOK
  <2>5. \A y : Faithful(r, y)'
    BY <1>4, <1>5, <2>3, <2>4 DEF Faithful, Untouched
  <2>6. reactions' = [reactions EXCEPT ![p] = Append(@, r)]
    BY <2>1, <2>2 DEF ThenOn
  <2>7. \A y \in Promise :
          \/ reactions'[y] = reactions[y]
          \/ \E e \in Reaction : reactions'[y] = Append(reactions[y], e) /\ Faithful(e, y)'
    BY <2>3, <2>4, <2>5, <2>6 DEF TypeOK
  <2>8. ctl' = S \/ \E a \in Activation : ctl' = Append(S, a) /\ Minds(a)'
    BY <2>1, <2>4, ScheduleGoesOn DEF ThenOn, Keep
  <2>9. \A c \in DOMAIN agg' : c \in DOMAIN agg \/ Untouched(c)'
    BY <2>4
  <2> QED
    BY <1>1, <1>2, <1>4, <2>4, <2>7, <2>8, <2>9, MakeFollows
<1> QED
  BY <1>6, <1>7, <1>8, <1>9

\* The end of an activation of script code, or of a native that settles nothing.
LEMMA EndsFollow ==
  ASSUME NEW H, NEW U, Inv(H, U), TypeOK', SourcesPlain, Followed,
         EndStep \/ Release \/ Built \/ RaceEnd
  PROVE  Followed'
<1>1. /\ TypeOK /\ Numbered /\ Born \subseteq Promise /\ None \notin Promise
  BY InvFacts, NatFacts
<1>2. /\ ctl # <<>> /\ born' = born
      /\ Top.k \in {"main", "executor", "then", "handler", "release", "built", "race"}
  <2>1. CASE EndStep
    BY <2>1 DEF EndStep, Ends, MainEnd, ExecutorReturn, ExecutorThrow, ThenReturn, ThenThrow,
       HandlerReturn, HandlerThrow
  <2>2. CASE Release \/ Built \/ RaceEnd
    BY <2>2 DEF Ends, Release, Built, RaceEnd
  <2> QED
    BY <2>1, <2>2
<1>3. PICK p, S : p = Top.p /\ S = Below
  OBVIOUS
<1>4. GoesOn(S) /\ (Top.k # "main" => p \in Born /\ p \in Promise)
  BY <1>1, <1>2, <1>3, StacksGoOn DEF Fit
<1>5. \A v \in Val : v \notin Promise /\ v # Thenable
  BY PromiseAssumption
<1>6. CASE Skip(S) /\ \A c \in DOMAIN agg' : c \in DOMAIN agg
  BY <1>2, <1>4, <1>6, RestFollows DEF Skip, Keep
<1>7. CASE ExecutorThrow
  <2>1. /\ Ends("executor") /\ source[p] = None /\ reactions' = reactions /\ ctl' = S
        /\ source' = source /\ open' = open /\ agg' = agg
        /\ \E v \in Val : IF state[p] = "PENDING" THEN Settle(p, "REJECTED", v)
                                                  ELSE UNCHANGED <<state, value>>
    BY <1>3, <1>7 DEF ExecutorThrow, Keep
  <2>2. p \in Promise
    BY <1>4, <2>1 DEF Ends
  <2>3. CASE state[p] # "PENDING"
    BY <1>2, <1>4, <2>1, <2>3, RestFollows DEF promiseVars
  <2>4. CASE state[p] = "PENDING"
    <3>1. PICK v \in Val : Settle(p, "REJECTED", v)
      BY <2>1, <2>4
    <3>2. Takes(None) /\ Turns(p) /\ Free(None, S)
      BY <1>1, <2>1, <2>2, <2>4, <3>1 DEF Takes, Turns, Free, Settle, TypeOK, Final
    <3>3. Traced(p)' /\ value'[p] # Thenable
      BY <1>1, <1>5, <2>1, <2>2, <3>1 DEF Traced, Settle, TypeOK
    <3>4. \A y \in {None, p} : y # None => Traced(y)' /\ value'[y] # Thenable
      BY <3>3
    <3>5. born <= born'
      BY <1>1, <1>2, NatFacts
    <3>6. \A y \in Promise : reactions'[y] = reactions[y]
      BY <2>1
    <3>7. \A c \in DOMAIN agg' : c \in DOMAIN agg \/ Untouched(c)'
      BY <2>1
    <3> QED
      BY <1>4, <2>1, <3>2, <3>4, <3>5, <3>6, <3>7, FollowStep
  <2> QED
    BY <2>3, <2>4
<1>8. CASE ThenThrow
  <2>1. PICK v \in Val : RejectCb(p, v, S) /\ Ends("then") /\ source[p] = None /\ agg' = agg
    BY <1>3, <1>8 DEF ThenThrow
  <2>2. p \in Promise
    BY <1>4, <2>1 DEF Ends
  <2>3. CASE Skip(S)
    BY <1>6, <2>1, <2>3
  <2>4. CASE state[p] = "PENDING" /\ Conclude(p, "REJECTED", v, None, S)
    BY <1>2, <1>4, <1>5, <2>1, <2>2, <2>4, ConcludeFollows DEF Final
  <2> QED
    BY <2>1, <2>3, <2>4 DEF RejectCb
<1>9. CASE HandlerReturn \/ HandlerThrow
  <2>1. Top.k = "handler" /\ agg' = agg
    BY <1>9 DEF HandlerReturn, HandlerThrow, Ends
  <2>2. /\ Free(p, S) /\ p \in Born /\ state[p] = "PENDING" /\ p \notin open
        /\ source[p] = None
    <3>1. Minds(Top)
      BY <1>2, StacksGoOn
    <3> QED
      BY <1>2, <1>3, <2>1, <3>1, HandlerFree DEF Minds, Untouched
  <2>3. CASE HandlerThrow
    <3>1. PICK v \in Val : Conclude(p, "REJECTED", v, None, S)
      BY <1>3, <2>3 DEF HandlerThrow
    <3> QED
      BY <1>1, <1>2, <1>4, <1>5, <2>1, <2>2, <3>1, ConcludeFollows DEF Final
  <2>4. CASE HandlerReturn
    <3>1. PICK x \in Val \cup known \cup {Thenable} :
            ResultKind(x) \in Results /\ SettleChained(p, x, S)
      BY <1>3, <2>4 DEF HandlerReturn
    <3>2. x \in Promise => x \in Born /\ state[x] # "UNBORN" /\ x # Thenable
      BY <1>1, <1>5, <3>1, NatFacts, PromiseAssumption DEF Numbered
    <3>3. x \notin Promise => x \in Val \cup {Thenable}
      BY <1>1, <3>1 DEF Numbered
    <3>4. CASE Waits(x, p)
      <4>1. Adopt(p, x, S) /\ x \in Born \cup {Thenable}
        BY <3>1, <3>2, <3>4 DEF SettleChained, Waits
      <4> QED
        BY <1>2, <1>4, <2>1, <2>2, <4>1, AdoptFollows
    <3>5. CASE ~Waits(x, p) /\ x \in Promise
      <4>1. Conclude(p, "FULFILLED", value[x], x, S)
        BY <1>1, <2>2, <3>1, <3>5 DEF SettleChained, Unwrap
      <4>2. x # p => state[x] = "FULFILLED"
        <5> SUFFICES ASSUME x # p PROVE state[x] = "FULFILLED"
          OBVIOUS
        <5>1. state[x] \in {"FULFILLED", "REJECTED"}
          BY <1>1, <3>2, <3>5 DEF Waits, TypeOK, States
        <5>2. ResultKind(x) = state[x] /\ "REJECTED" \notin Results
          BY <3>5 DEF ResultKind, SourcesPlain
        <5> QED
          BY <3>1, <5>1, <5>2
      <4> QED
        BY <1>2, <1>4, <2>1, <2>2, <3>2, <3>5, <4>1, <4>2, TakeFollows DEF Final
    <3>6. CASE ~Waits(x, p) /\ x \notin Promise
      <4>1. Conclude(p, "FULFILLED", x, None, S) /\ x # Thenable
        BY <2>2, <3>1, <3>6 DEF SettleChained, Unwrap, Waits
      <4> QED
        BY <1>1, <1>2, <1>4, <2>1, <2>2, <4>1, ConcludeFollows DEF Final
    <3> QED
      BY <3>4, <3>5, <3>6
  <2> QED
    BY <1>9, <2>3, <2>4
<1>10. CASE Release
  BY <1>3, <1>6, <1>10 DEF Release
<1>11. CASE Built
  BY <1>3, <1>6, <1>11 DEF Built
<1>12. CASE MainEnd \/ ExecutorReturn \/ ThenReturn \/ RaceEnd
  BY <1>3, <1>6, <1>12 DEF MainEnd, ExecutorReturn, ThenReturn, RaceEnd
<1> QED
  BY <1>7, <1>8, <1>9, <1>10, <1>11, <1>12 DEF EndStep

----------------------------------------------------------------------------
(* The steps of natives and of the host.                                   *)

LEMMA NextItemGoesOn ==
  ASSUME NEW H, NEW U, Inv(H, U), Followed, ctl # <<>>, Top.k \in {"build", "race"}
  PROVE  GoesOn(NextItem)
<1>1. TypeOK
  BY InvFacts
<1>2. PICK a \in Activation : /\ a.k = Top.k /\ a.p = Top.p /\ a.todo = Top.todo
                              /\ NextItem = Replaced(a)
  BY <1>1, NextItemType
<1>3. Fit(Top) /\ Minds(Top)
  BY StacksGoOn
<1>4. Fit(a) /\ Minds(a)
  BY <1>2, <1>3 DEF Fit, Minds
<1> QED
  BY <1>2, <1>4, StacksGoOn

\* The result c of an aggregation settles, or nothing does.
LEMMA AggFollows ==
  ASSUME NEW H, NEW U, Inv(H, U), TypeOK', Followed, NEW S, GoesOn(S), NEW c \in DOMAIN agg,
         born' = born, DOMAIN agg' = DOMAIN agg,
         \/ Skip(S)
         \/ \E st \in Final : \E v : /\ state[c] = "PENDING" /\ v # Thenable
                                     /\ Conclude(c, st, v, None, S)
  PROVE  Followed'
<1>1. c \in Promise /\ source[c] = None
  <2>1. AggregatesProper /\ Born \subseteq Promise
    BY InvFacts, NatFacts
  <2> QED
    BY <2>1 DEF AggregatesProper, Followed, AggsUntouched, Untouched
<1>2. CASE Skip(S)
  BY <1>2, RestFollows DEF Skip, Keep
<1>3. CASE \E st \in Final : \E v : /\ state[c] = "PENDING" /\ v # Thenable
                                    /\ Conclude(c, st, v, None, S)
  <2>1. PICK st, v : /\ st \in Final /\ state[c] = "PENDING" /\ v # Thenable
                     /\ Conclude(c, st, v, None, S)
    BY <1>3
  <2> QED
    BY <1>1, <2>1, ConcludeFollows
<1> QED
  BY <1>2, <1>3

LEMMA FinishSettles ==
  ASSUME NEW c, NEW A, NEW S, Finish(c, A, S) \/ Count(c, A, S)
  PROVE  /\ DOMAIN agg' = DOMAIN A
         /\ \/ Skip(S)
            \/ \E st \in Final : \E v : /\ state[c] = "PENDING" /\ v # Thenable
                                        /\ Conclude(c, st, v, None, S)
<1>1. Array # Thenable
  BY PromiseAssumption
<1>2. ASSUME NEW B, Finish(c, B, S)
      PROVE  /\ DOMAIN agg' = DOMAIN B
             /\ \/ Skip(S)
                \/ \E st \in Final : \E v : /\ state[c] = "PENDING" /\ v # Thenable
                                            /\ Conclude(c, st, v, None, S)
  BY <1>1, <1>2 DEF Finish, Final
<1>3. CASE Count(c, A, S)
  <2>1. PICK B : B = [A EXCEPT ![c].remaining = IF @ > 0 THEN @ - 1 ELSE 0]
    OBVIOUS
  <2>2. DOMAIN B = DOMAIN A
    BY <2>1
  <2>3. Finish(c, B, S) \/ (agg' = B /\ Skip(S))
    BY <1>3, <2>1 DEF Count
  <2> QED
    BY <1>2, <2>2, <2>3
<1> QED
  BY <1>2, <1>3

LEMMA FailSettles ==
  ASSUME NEW c, NEW v, v # Thenable, NEW S, Fail(c, v, S)
  PROVE  /\ DOMAIN agg' = DOMAIN agg
         /\ \/ Skip(S)
            \/ \E st \in Final : \E w : /\ state[c] = "PENDING" /\ w # Thenable
                                        /\ Conclude(c, st, w, None, S)
BY DEF Fail, Final

LEMMA BuildsFollow ==
  ASSUME NEW H, NEW U, Inv(H, U), TypeOK', Followed,
         BuildKnown \/ BuildThenable \/ BuildWait \/ BuildEnd
  PROVE  Followed'
<1>1. TypeOK /\ Numbered /\ AggregatesProper /\ Born \subseteq Promise
  BY InvFacts, NatFacts
<1>2. ctl # <<>> /\ Top.k = "build"
  BY DEF BuildKnown, BuildThenable, BuildWait, BuildEnd, Building, Ends
<1>3. PICK c, N : c = Top.p /\ N = NextItem
  OBVIOUS
<1>4. c \in DOMAIN agg /\ c \in Born /\ c \in Promise /\ GoesOn(N)
  BY <1>1, <1>2, <1>3, StackReady, NextItemGoesOn DEF GoodAt, AggregatesProper
<1>5. CASE BuildKnown
  <2>1. born' = born
    BY <1>5 DEF BuildKnown
  <2>2. CASE Skip(N) /\ DOMAIN agg' = DOMAIN agg
    BY <1>4, <2>1, <2>2, AggFollows
  <2>3. CASE Item \in Promise /\ Fail(c, value[Item], N)
    <3>1. value[Item] # Thenable
      BY <2>3 DEF Followed, AllTraced
    <3> QED
      BY <1>4, <2>1, <2>3, <3>1, FailSettles, AggFollows
  <2>4. \/ Skip(N) /\ DOMAIN agg' = DOMAIN agg
        \/ Item \in Promise /\ Fail(c, value[Item], N)
    <3>1. PICK out : /\ out = IF Item \in Promise THEN [st |-> state[Item], v |-> value[Item]]
                                                  ELSE [st |-> "FULFILLED", v |-> Item]
                     /\ \/ out.st = "REJECTED" /\ Fail(c, out.v, N)
                        \/ agg' = Store(c, Top.at, out) /\ Skip(N)
      BY <1>3, <1>5 DEF BuildKnown
    <3>2. out.st = "REJECTED" => Item \in Promise /\ out.v = value[Item]
      BY <3>1
    <3>3. DOMAIN Store(c, Top.at, out) = DOMAIN agg
      BY DEF Store
    <3> QED
      BY <3>1, <3>2, <3>3
  <2> QED
    BY <2>2, <2>3, <2>4
<1>6. CASE BuildEnd
  <2>1. PICK a, S : a = Active("built", c) /\ S = Replaced(a)
    OBVIOUS
  <2>2. GoesOn(S)
    <3>1. a \in Activation /\ a.k = "built" /\ a.p = c /\ a.todo = <<>> /\ Minds(a)
      BY <1>4, <2>1, FreshActivation, PlainMinds
    <3>2. Len(a.todo) = 0
      BY <3>1
    <3>3. Fit(a)
      BY <1>4, <3>1, <3>2 DEF Fit
    <3> QED
      BY <1>2, <2>1, <3>1, <3>3, StacksGoOn
  <2>3. Finish(c, agg, S) \/ (Skip(S) /\ agg' = agg)
    BY <1>3, <1>6, <2>1 DEF BuildEnd
  <2>4. born' = born
    BY <1>6 DEF BuildEnd
  <2>5. CASE Finish(c, agg, S)
    BY <1>4, <2>2, <2>4, <2>5, FinishSettles, AggFollows
  <2>6. CASE Skip(S) /\ agg' = agg
    BY <1>4, <2>2, <2>4, <2>6, AggFollows
  <2> QED
    BY <2>3, <2>5, <2>6
<1>7. CASE BuildWait
  <2>1. Top.wp # None \/ Top.at <= Len(agg[Top.p].items)
    BY <1>7 DEF BuildWait, Building
  <2>2. Item \in Promise
    BY <1>2, <1>7, <2>1, ItemFacts DEF BuildWait
  <2>3. PICK x, r : /\ x = Item
                    /\ r = [onF |-> Calls("kept", Top.p, Top.at),
                            onR |-> Calls("failed", Top.p, Top.at), np |-> None]
    OBVIOUS
  <2>4. r \in Reaction /\ r.onF.do = "kept" /\ r.np = None
    <3>1. Top.at \in Nat /\ Top.p \in Promise
      BY <1>1, <1>2, <1>3, <1>4, StackType DEF Activation
    <3> QED
      BY <2>3, <3>1 DEF Reaction, Handler, Calls, None
  <2>5. /\ UNCHANGED <<state, value, source, open, born>> /\ ctl' = N
        /\ reactions' = [reactions EXCEPT ![x] = Append(@, r)]
        /\ DOMAIN agg' = DOMAIN agg
    BY <1>3, <1>7, <2>3 DEF BuildWait, Keep
  <2>6. Takes(None) /\ Turns(None) /\ Free(None, N)
    BY <2>5 DEF Takes, Turns, Free
  <2>7. \A y : Faithful(r, y)'
    BY <2>4 DEF Faithful
  <2>8. \A y \in Promise :
          \/ reactions'[y] = reactions[y]
          \/ \E e \in Reaction : reactions'[y] = Append(reactions[y], e) /\ Faithful(e, y)'
    BY <1>1, <2>2, <2>3, <2>4, <2>5, <2>7 DEF TypeOK
  <2>9. born <= born' /\ \A d \in DOMAIN agg' : d \in DOMAIN agg \/ Untouched(d)'
    BY <1>1, <2>5, NatFacts
  <2> QED
    BY <1>4, <2>5, <2>6, <2>8, <2>9, FollowStep
<1>8. CASE BuildThenable
  <2>1. PICK f, a, b, S : /\ f = Fresh /\ a = [Top EXCEPT !.wp = f] /\ b = Active("then", f)
                          /\ S = Replaced(a)
    OBVIOUS
  <2>2. /\ MakeFresh("PENDING", NoVal) /\ reactions' = reactions /\ ctl' = Append(S, b)
        /\ source' = source /\ open' = open \cup {f} /\ DOMAIN agg' = DOMAIN agg
    BY <1>8, <2>1 DEF BuildThenable, Keep
  <2>3. f \in Promise
    BY <2>1, <2>2, FreshFacts
  <2>4. Fit(a) /\ Minds(a)
    <3>1. Fit(Top) /\ Minds(Top) /\ Top \in Activation
      BY <1>2, StacksGoOn DEF Fit
    <3>2. a = [k |-> Top.k, p |-> Top.p, ok |-> Top.ok, todo |-> Top.todo, at |-> Top.at,
               wp |-> f, items |-> Top.items]
      BY <2>1, <3>1 DEF Activation
    <3>3. a \in Activation
      BY <2>3, <3>1, <3>2 DEF Activation
    <3> QED
      BY <3>1, <3>2, <3>3 DEF Fit, Minds
  <2>5. GoesOn(S)
    BY <1>2, <2>1, <2>4, StacksGoOn
  <2>6. b \in Activation /\ Minds(b)'
    BY <2>1, <2>3, PlainMinds
  <2>7. NoVal # Thenable
    BY PromiseAssumption
  <2>8. \A d \in DOMAIN agg' : d \in DOMAIN agg \/ Untouched(d)'
    BY <2>2
  <2> QED
    BY <2>1, <2>2, <2>5, <2>6, <2>7, <2>8, MakeFollows
<1> QED
  BY <1>5, <1>6, <1>7, <1>8

LEMMA RaceFollows ==
  ASSUME NEW H, NEW U, Inv(H, U), TypeOK', SourcesPlain, Followed, RaceNext
  PROVE  Followed'
<1>1. TypeOK /\ Numbered /\ Born \subseteq Promise /\ None \notin Promise
  BY InvFacts, NatFacts
<1>2. /\ ctl # <<>> /\ Top.k = "race" /\ Top.at <= Len(Top.items) /\ state[Top.p] = "PENDING"
      /\ born' = born /\ agg' = agg
  BY DEF RaceNext, Racing, Ends
<1>3. PICK p, x, S : p = Top.p /\ x = Racer /\ S = NextItem
  OBVIOUS
<1>4. /\ GoesOn(S) /\ Minds(Top) /\ p \in Born /\ p \in Promise /\ Untouched(p)
      /\ x # Thenable /\ (x \in Promise => x \in Born)
  BY <1>1, <1>2, <1>3, NextRaces, StacksGoOn, NextItemGoesOn
     DEF Minds, SourcesPlain, RacesThenables
<1>5. born <= born' /\ \A d \in DOMAIN agg' : d \in DOMAIN agg \/ Untouched(d)'
  BY <1>1, <1>2, NatFacts
<1>6. PICK r : r = [onF |-> NoHandler, onR |-> NoHandler, np |-> p]
  OBVIOUS
<1>7. r \in Reaction /\ r.onF.do # "resolve" /\ r.np = p
  BY <1>4, <1>6 DEF Reaction, Handler, NoHandler, Calls, None
<1>8. CASE /\ x \in Promise /\ reactions' = [reactions EXCEPT ![x] = Append(@, r)] /\ ctl' = S
           /\ UNCHANGED <<state, value, source, open>>
  <2>1. Takes(None) /\ Turns(None) /\ Free(None, S)
    BY <1>8 DEF Takes, Turns, Free
  <2>2. \A y : Faithful(r, y)'
    BY <1>4, <1>7, <1>8 DEF Faithful, Untouched
  <2>3. \A y \in Promise :
          \/ reactions'[y] = reactions[y]
          \/ \E e \in Reaction : reactions'[y] = Append(reactions[y], e) /\ Faithful(e, y)'
    BY <1>1, <1>7, <1>8, <2>2 DEF TypeOK
  <2> QED
    BY <1>4, <1>5, <1>8, <2>1, <2>3, FollowStep
<1>9. CASE /\ \E st, v : v # Thenable /\ Settle(p, st, v)
           /\ ctl' = S /\ UNCHANGED <<reactions, source, open>>
  <2>1. PICK st, v : v # Thenable /\ Settle(p, st, v)
    BY <1>9
  <2>2. Takes(None) /\ Turns(p) /\ Free(None, S)
    BY <1>1, <1>2, <1>3, <1>4, <1>9, <2>1 DEF Takes, Turns, Free, Settle, TypeOK, Final
  <2>3. Traced(p)' /\ value'[p] # Thenable
    BY <1>1, <1>4, <1>9, <2>1 DEF Traced, Untouched, Settle, TypeOK
  <2>4. \A y \in {None, p} : y # None => Traced(y)' /\ value'[y] # Thenable
    BY <2>3
  <2>5. \A y \in Promise : reactions'[y] = reactions[y]
    BY <1>9
  <2> QED
    BY <1>4, <1>5, <1>9, <2>2, <2>4, <2>5, FollowStep
<1>10. x \in Promise => value[x] # Thenable
  BY DEF Followed, AllTraced
<1> QED
  BY <1>3, <1>4, <1>6, <1>8, <1>9, <1>10 DEF RaceNext, Keep

LEMMA PushGoesOn ==
  ASSUME NEW S, GoesOn(S), NEW b, Fit(b), Minds(b)
  PROVE  GoesOn(Append(S, b))
<1>1. PICK T : T = Append(S, b)
  OBVIOUS
<1>2. S \in Seq(Activation) /\ b \in Activation
  BY DEF GoesOn, Fit
<1>3. /\ T \in Seq(Activation) /\ Len(T) = Len(S) + 1 /\ Len(S) \in Nat /\ T[Len(S) + 1] = b
      /\ \A k \in 1 .. Len(S) : T[k] = S[k]
  BY <1>1, <1>2, PushedType
<1>4. \A j \in 1 .. Len(T) : j \in 1 .. Len(S) \/ j = Len(S) + 1
  BY <1>3
<1>5. \A j \in 1 .. Len(T) : Fit(T[j]) /\ Minds(T[j])
  BY <1>3, <1>4 DEF GoesOn
<1> QED
  BY <1>1, <1>3, <1>5 DEF GoesOn

\* The drain of a promise runs its next reaction r, and goes on as a: r and the
\* outcome it is called with are those of one promise.
LEMMA DrainGoesOn ==
  ASSUME NEW H, NEW U, Inv(H, U), Followed, ctl # <<>>, Top.k = "drain", Top.todo # <<>>,
         NEW r, NEW s, NEW a, DrainsOn(r, s, a)
  PROVE  /\ r \in Reaction /\ Proper(r) /\ Faithful(r, Top.p) /\ GoesOn(Replaced(a))
         /\ Top.p \in Born /\ state[Top.p] \in Final /\ Top.ok = (state[Top.p] = "FULFILLED")
<1>1. /\ Good(r, DOMAIN H) /\ a \in Activation /\ a.k = "drain" /\ a.p = Top.p /\ a.todo = s
      /\ a.ok = Top.ok
  BY DrainHead
<1>2. Fit(Top) /\ Minds(Top)
  BY StacksGoOn
<1>3. PICK t : t = Top.todo
  OBVIOUS
<1>4. t \in Seq(Reaction) /\ t # <<>>
  BY <1>2, <1>3 DEF Fit, Activation
<1>5. /\ r = t[1] /\ s \in Seq(Reaction) /\ Len(s) = Len(t) - 1 /\ Len(t) \in Nat \ {0}
      /\ \A i \in 1 .. Len(s) : s[i] = t[i + 1]
  BY <1>3, <1>4, HeadTailProperties, EmptySeq, LenProperties DEF DrainsOn
<1>6. 1 \in 1 .. Len(t) /\ \A i \in 1 .. Len(s) : i + 1 \in 1 .. Len(t)
  BY <1>5
<1>7. Faithful(r, Top.p)
  BY <1>2, <1>3, <1>5, <1>6 DEF Minds
<1>8. Fit(a)
  BY <1>1, <1>2, <1>3, <1>5, <1>6 DEF Fit
<1>9. Minds(a)
  BY <1>1, <1>2, <1>3, <1>5, <1>6 DEF Minds
<1>10. GoesOn(Replaced(a))
  BY <1>8, <1>9, StacksGoOn
<1> QED
  BY <1>1, <1>2, <1>7, <1>10 DEF Good, Fit, Minds

\* An input of an aggregation arrives.
LEMMA ArrivedFollows ==
  ASSUME NEW H, NEW U, Inv(H, U), TypeOK', Followed, NEW h, NEW st, NEW v, v # Thenable,
         h.to \in DOMAIN agg, Arrived(h, st, v), born' = born,
         NEW S, GoesOn(S), S = Replaced([Top EXCEPT !.todo = Tail(@)])
  PROVE  Followed'
<1>1. PICK c, b, T : c = h.to /\ b = Active("release", c) /\ T = Append(S, b)
  OBVIOUS
<1>2. c \in Born /\ c \in Promise
  BY <1>1, InvFacts, NatFacts DEF AggregatesProper
<1>3. GoesOn(T)
  <2>1. b \in Activation /\ b.k = "release" /\ b.p = c /\ b.todo = <<>> /\ Minds(b)
    BY <1>1, <1>2, FreshActivation, PlainMinds
  <2>2. Len(b.todo) = 0
    BY <2>1
  <2>3. Fit(b)
    BY <1>2, <2>1, <2>2 DEF Fit
  <2> QED
    BY <1>1, <2>1, <2>3, PushGoesOn
<1>4. T = Replaced([Top EXCEPT !.todo = Tail(@)]) \o <<Active("release", h.to)>>
  <2>1. b \in Activation /\ S \in Seq(Activation)
    BY <1>1, <1>2, FreshActivation DEF GoesOn
  <2> QED
    BY <1>1, <2>1, AppendIsConcat
<1>5. PICK A : A = Store(c, h.at, [st |-> st, v |-> v])
  OBVIOUS
<1>6. DOMAIN A = DOMAIN agg
  BY <1>5 DEF Store
<1>7. \/ Skip(T) /\ agg' = agg
      \/ Count(c, A, T)
      \/ Fail(c, v, T)
  BY <1>1, <1>4, <1>5 DEF Arrived
<1>8. /\ DOMAIN agg' = DOMAIN agg
      /\ \/ Skip(T)
         \/ \E so \in Final : \E w : /\ state[c] = "PENDING" /\ w # Thenable
                                     /\ Conclude(c, so, w, None, T)
  BY <1>6, <1>7, FinishSettles, FailSettles
<1> QED
  BY <1>1, <1>3, <1>8, AggFollows

LEMMA DrainNextFollows ==
  ASSUME NEW H, NEW U, Inv(H, U), TypeOK', Followed, DrainNext
  PROVE  Followed'
<1>1. TypeOK /\ Born \subseteq Promise /\ None \notin Promise
  BY InvFacts, NatFacts
<1>2. ctl # <<>> /\ Top.k = "drain" /\ Top.todo # <<>> /\ born' = born
  BY DEF DrainNext, Ends
<1>3. PICK p, v : p = Top.p /\ v = value[p]
  OBVIOUS
<1>4. PICK r, s, a : DrainsOn(r, s, a)
  BY DEF DrainsOn
<1>5. PICK h, S : h = (IF Top.ok THEN r.onF ELSE r.onR) /\ S = Replaced(a)
  OBVIOUS
<1>6. r = Head(Top.todo) /\ s = Tail(Top.todo) /\ S = Replaced([Top EXCEPT !.todo = Tail(@)])
  BY <1>4, <1>5 DEF DrainsOn
<1>7. /\ r \in Reaction /\ Proper(r) /\ Faithful(r, p) /\ GoesOn(S)
      /\ p \in Born /\ p \in Promise /\ state[p] \in Final
      /\ Top.ok = (state[p] = "FULFILLED")
  BY <1>1, <1>2, <1>3, <1>4, <1>5, DrainGoesOn
<1>8. v \notin Promise /\ v # Thenable
  BY <1>1, <1>3, <1>7, PromiseAssumption DEF Followed, AllTraced, TypeOK, AnyVal
<1>9. r.np # None => r.np \in Born /\ source[r.np] = None
  BY <1>7 DEF Proper, Faithful, Untouched
<1>10. ASSUME NEW y \in Born, NEW st \in Final, agg' = agg,
              \/ Skip(S)
              \/ state[y] = "PENDING" /\ Conclude(y, st, v, None, S),
              source[y] = None \/ (source[y] = p /\ st = state[p])
       PROVE  Followed'
  <2>1. y \in Promise
    BY <1>1
  <2>2. CASE Skip(S)
    BY <1>2, <1>7, <1>10, <2>2, RestFollows DEF Skip, Keep
  <2>3. CASE state[y] = "PENDING" /\ Conclude(y, st, v, None, S)
    BY <1>2, <1>3, <1>7, <1>8, <1>10, <2>1, <2>3, ConcludeFollows
  <2> QED
    BY <1>10, <2>2, <2>3
<1>11. CASE h.do = "js" /\ Skip(Append(S, Active("handler", r.np))) /\ agg' = agg
  <2>1. r.np \in Promise /\ Untouched(r.np)
    BY <1>1, <1>5, <1>7, <1>11 DEF Proper, Faithful
  <2>2. PICK b : b = Active("handler", r.np)
    OBVIOUS
  <2>3. b \in Activation /\ b.k = "handler" /\ b.p = r.np /\ b.todo = <<>>
    BY <2>1, <2>2, FreshActivation
  <2>4. Len(b.todo) = 0 /\ UNCHANGED promiseVars /\ ctl' = Append(S, b)
    BY <1>11, <2>2, <2>3 DEF Skip, Keep
  <2>5. Minds(b)'
    BY <2>1, <2>3, <2>4 DEF Minds, Untouched, promiseVars
  <2> QED
    BY <1>2, <1>7, <1>11, <2>3, <2>4, <2>5, RestFollows
<1>12. CASE h.do = "resolve" /\ ResolveCb(h.to, v, S) /\ agg' = agg
  <2>1. /\ h.to \in Born /\ source[h.to] = p /\ state[p] = "FULFILLED"
    BY <1>1, <1>5, <1>7, <1>12 DEF Proper, Faithful
  <2>2. Skip(S) \/ (state[h.to] = "PENDING" /\ Conclude(h.to, "FULFILLED", v, None, S))
    BY <1>8, <1>12 DEF ResolveCb, Adoptable
  <2> QED
    BY <1>10, <1>12, <2>1, <2>2 DEF Final
<1>13. CASE h.do = "reject" /\ RejectCb(h.to, v, S) /\ agg' = agg
  <2>1. /\ h.to \in Born /\ source[h.to] = p /\ state[p] = "REJECTED"
    BY <1>1, <1>5, <1>7, <1>13 DEF Proper, Faithful, Final
  <2>2. Skip(S) \/ (state[h.to] = "PENDING" /\ Conclude(h.to, "REJECTED", v, None, S))
    BY <1>13 DEF RejectCb
  <2> QED
    BY <1>10, <1>13, <2>1, <2>2 DEF Final
<1>14. CASE h.do \in {"kept", "failed"} /\ \E st : Arrived(h, st, v)
  <2>1. h.to \in DOMAIN agg
    BY <1>5, <1>7, <1>14 DEF Proper
  <2> QED
    BY <1>2, <1>6, <1>7, <1>8, <1>14, <2>1, ArrivedFollows
<1>15. CASE h.do = "none" /\ SettleChained(r.np, v, S) /\ agg' = agg
  <2>1. r.np \in Born /\ source[r.np] = None
    BY <1>1, <1>5, <1>7, <1>9, <1>15 DEF Proper, Born, None
  <2>2. Skip(S) \/ (state[r.np] = "PENDING" /\ Conclude(r.np, "FULFILLED", v, None, S))
    BY <1>8, <1>15 DEF SettleChained, Waits, Unwrap
  <2> QED
    BY <1>10, <1>15, <2>1, <2>2 DEF Final
<1>16. CASE h.do = "none" /\ RejectCb(r.np, v, S) /\ agg' = agg
  <2>1. r.np \in Born /\ source[r.np] = None
    BY <1>1, <1>5, <1>7, <1>9, <1>16 DEF Proper, Born, None
  <2>2. Skip(S) \/ (state[r.np] = "PENDING" /\ Conclude(r.np, "REJECTED", v, None, S))
    BY <1>16 DEF RejectCb
  <2> QED
    BY <1>10, <1>16, <2>1, <2>2 DEF Final
<1> QED
  BY <1>3, <1>5, <1>6, <1>11, <1>12, <1>13, <1>14, <1>15, <1>16 DEF DrainNext

LEMMA HostFollows ==
  ASSUME NEW H, NEW U, Inv(H, U), TypeOK', Followed,
         DrainEnter \/ DrainExit \/ Microtask \/ Task \/ UNCHANGED vars
  PROVE  Followed'
<1>1. TypeOK /\ Born \subseteq Promise /\ GoesOn(ctl) /\ ReactionsGood(H)
  BY InvFacts, NatFacts, StacksGoOn
<1>2. CASE DrainExit
  <2>1. ctl # <<>> /\ ctl' = Below /\ born' = born /\ agg' = agg /\ UNCHANGED promiseVars
    BY <1>2 DEF DrainExit, Ends
  <2> QED
    BY <2>1, StacksGoOn, RestFollows
<1>3. CASE Microtask \/ Task
  <2>1. \E k \in {"enter", "main"} : \E p \in Promise \cup {None} : ctl' = <<Active(k, p)>>
    <3>1. CASE Microtask
      <4>1. queue \in Seq(Promise) /\ queue # <<>>
        BY <1>1, <3>1 DEF Microtask, TypeOK
      <4>2. Head(queue) \in Promise
        BY <4>1, HeadTailProperties
      <4> QED
        BY <3>1, <4>2 DEF Microtask
    <3>2. CASE Task
      BY <3>2 DEF Task
    <3> QED
      BY <1>3, <3>1, <3>2
  <2>2. PICK k \in {"enter", "main"}, p \in Promise \cup {None} : ctl' = <<Active(k, p)>>
    BY <2>1
  <2>3. PICK a : a = Active(k, p)
    OBVIOUS
  <2>4. a \in Activation /\ Minds(a)'
    BY <2>3, PlainMinds
  <2>5. ctl = <<>> /\ born' = born /\ agg' = agg /\ UNCHANGED promiseVars
    BY <1>3 DEF Microtask, Task
  <2>6. PICK S : S = ctl
    OBVIOUS
  <2>7. GoesOn(S) /\ ctl' = Append(S, a)
    BY <1>1, <2>2, <2>3, <2>5, <2>6
  <2>8. \A c \in DOMAIN agg' : c \in DOMAIN agg \/ Untouched(c)'
    BY <2>5
  <2> QED
    BY <2>4, <2>5, <2>7, <2>8, RestFollows
<1>4. CASE UNCHANGED vars
  <2>1. PICK S : S = ctl
    OBVIOUS
  <2>2. GoesOn(S) /\ ctl' = S /\ born' = born /\ agg' = agg /\ UNCHANGED promiseVars
    BY <1>1, <1>4, <2>1 DEF vars, taskVars
  <2> QED
    BY <2>2, RestFollows
<1>5. CASE DrainEnter
  <2>1. PICK p, t, a : /\ p = Top.p /\ t = reactions[p]
                       /\ a = [Active("drain", p) EXCEPT !.todo = t,
                                                         !.ok = state[p] = "FULFILLED"]
    OBVIOUS
  <2>2. /\ ctl # <<>> /\ Top.k = "enter" /\ ctl' = Replaced(a)
        /\ UNCHANGED <<state, value, source, open, agg, born>>
        /\ reactions' = [reactions EXCEPT ![p] = <<>>]
    BY <1>5, <2>1 DEF DrainEnter, Ends
  <2>3. p \in Born /\ p \in Promise /\ state[p] \in Final /\ t \in Seq(Reaction)
    BY <1>1, <2>1, <2>2, StackReady DEF GoodAt, TypeOK
  <2>4. /\ a \in Activation /\ a.k = "drain" /\ a.p = p /\ a.todo = t
        /\ a.ok = (state[p] = "FULFILLED")
    <3>1. a = [k |-> "drain", p |-> p, ok |-> state[p] = "FULFILLED", todo |-> t, at |-> 1,
               wp |-> None, items |-> <<>>]
      BY <2>1 DEF Active
    <3>2. (state[p] = "FULFILLED") \in BOOLEAN /\ <<>> \in Seq(AnyVal \cup Promise)
      BY EmptySeq
    <3> QED
      BY <2>3, <3>1, <3>2 DEF Activation
  <2>5. Fit(a)
    BY <1>1, <2>1, <2>3, <2>4 DEF Fit, ReactionsGood, HeldAt, Good
  <2>6. Minds(a)
    BY <2>1, <2>3, <2>4 DEF Minds, Followed, ListsFaithful
  <2>7. PICK S : S = Replaced(a)
    OBVIOUS
  <2>8. GoesOn(S) /\ ctl' = S
    BY <2>2, <2>5, <2>6, <2>7, StacksGoOn
  <2>9. Takes(None) /\ Turns(None) /\ Free(None, S)
    BY <2>2 DEF Takes, Turns, Free
  <2>10. \A y \in Promise : reactions'[y] = reactions[y] \/ reactions'[y] = <<>>
    BY <1>1, <2>2 DEF TypeOK
  <2>11. born <= born' /\ \A c \in DOMAIN agg' : c \in DOMAIN agg \/ Untouched(c)'
    BY <1>1, <2>2, NatFacts
  <2> QED
    BY <2>8, <2>9, <2>10, <2>11, FollowStep
<1> QED
  BY <1>2, <1>3, <1>4, <1>5

LEMMA InitFollows ==
  ASSUME Init
  PROVE  Followed
<1>1. PICK a : a = Active("main", None)
  OBVIOUS
<1>2. Minds(a) /\ ctl = <<a>>
  BY <1>1, PlainMinds DEF Init
<1>3. StackMinds
  BY <1>2 DEF StackMinds
<1>4. ListsFaithful /\ AggsUntouched
  BY DEF Init, ListsFaithful, AggsUntouched
<1>5. AllTraced
  BY PromiseAssumption DEF Init, AllTraced, Traced
<1> QED
  BY <1>3, <1>4, <1>5 DEF Followed

LEMMA NextFollows ==
  ASSUME IInv, IInv', FInv, [Next]_vars
  PROVE  FInv'
<1>1. PICK H, U : Inv(H, U)
  BY DEF IInv
<1>2. TypeOK' /\ ThenablesAllowed'
  BY DEF IInv, Inv, Base, Counts
<1>3. script'.may = script.may
  <2>1. CASE Next
    BY <1>1, <2>1, InvFacts, SameHost
  <2>2. CASE UNCHANGED vars
    BY <2>2 DEF vars
  <2> QED
    BY <2>1, <2>2
<1> SUFFICES ASSUME SourcesPlain' PROVE Followed'
  BY DEF FInv
<1>4. SourcesPlain /\ Followed
  BY <1>3 DEF FInv, SourcesPlain, RacesThenables
<1>5. CASE ScriptStep
  BY <1>1, <1>2, <1>3, <1>4, <1>5, MakesFollow, CallFollows DEF ScriptStep
<1>6. CASE EndStep
  BY <1>1, <1>2, <1>4, <1>6, EndsFollow
<1>7. CASE NativeStep
  <2>1. CASE Release \/ Built \/ RaceEnd
    BY <1>1, <1>2, <1>4, <2>1, EndsFollow
  <2>2. CASE BuildKnown \/ BuildThenable \/ BuildWait \/ BuildEnd
    BY <1>1, <1>2, <1>4, <2>2, BuildsFollow
  <2>3. CASE RaceNext
    BY <1>1, <1>2, <1>4, <2>3, RaceFollows
  <2>4. CASE DrainNext
    BY <1>1, <1>2, <1>4, <2>4, DrainNextFollows
  <2>5. CASE DrainEnter \/ DrainExit
    BY <1>1, <1>2, <1>4, <2>5, HostFollows
  <2> QED
    BY <1>7, <2>1, <2>2, <2>3, <2>4, <2>5 DEF NativeStep
<1>8. CASE Microtask \/ Task \/ Over \/ UNCHANGED vars
  BY <1>1, <1>2, <1>4, <1>8, HostFollows DEF Over
<1> QED
  BY <1>5, <1>6, <1>7, <1>8 DEF Next

\* A promise that took over another promise's outcome has that outcome, for every
\* script that gives no thenable to race or any, and returns no rejected promise
\* from a reaction.
THEOREM PromisesFollowTheirSource == Spec => [](SourcesPlain => FollowsItsSource)
<1>1. Init => FInv
  BY InitFollows DEF FInv
<1>2. IInv /\ IInv' /\ FInv /\ [Next]_vars => FInv'
  BY NextFollows
<1>3. FInv => (SourcesPlain => FollowsItsSource)
  BY DEF FInv, Followed, AllTraced, Traced, FollowsItsSource, Settled, Final
<1> QED
  BY <1>1, <1>2, <1>3, PromisesInvariant, PTL DEF Spec

=============================================================================
