------------------------- MODULE Promises_accounts --------------------------
(***************************************************************************)
(* That the aggregations of Promises keep their books: for every script,   *)
(* host and number of promises, all and allSettled see every input, their  *)
(* contexts live as long as they are used, and nothing pending is lost.    *)
(***************************************************************************)
EXTENDS Promises_proofs

----------------------------------------------------------------------------
(* The invariant.  P is not part of the state: it gives each input of an   *)
(* aggregation that is under way, <<c, i>>, the place of the one reaction  *)
(* that counts it, on the list of its promise or in a drain on the stack.  *)

\* A reaction that settles the result of no aggregation.
Theirs(r) ==
  /\ r.np \notin DOMAIN agg
  /\ r.onF.do = "resolve" => r.onF.to \notin DOMAIN agg
\* An activation that settles the result of no aggregation, but by `kept`.
Lone(a) ==
  /\ \A i \in 1 .. Len(a.todo) : Theirs(a.todo[i])
  /\ a.k = "drain" => a.ok = (state[a.p] = "FULFILLED")
  /\ a.k \in {"executor", "then", "handler", "race"} => a.p \notin DOMAIN agg
\* So an aggregation is all that settles its result.
AggsAlone ==
  /\ open \cap DOMAIN agg = {}
  /\ \A q \in Promise : \A i \in 1 .. Len(reactions[q]) : Theirs(reactions[q][i])
  /\ \A j \in 1 .. Len(ctl) : Lone(ctl[j])

\* An aggregation is built once; where drains run inline, nothing runs over that
\* but the drain of its result, which nothing waits on yet; where they are queued,
\* a context is released by a drain that runs alone.
Works(a) == a.k \in {"build", "built"}
BuildsAlone ==
  /\ \A i, j \in 1 .. Len(ctl) :
       Works(ctl[i]) /\ Works(ctl[j]) /\ ctl[i].p = ctl[j].p => i = j
  /\ script.inline => \A j \in 1 .. Len(ctl) : Works(ctl[j]) =>
       /\ \/ j = Len(ctl)
          \/ j = Len(ctl) - 1 /\ Top.k \in {"enter", "drain"} /\ Top.p = ctl[j].p /\ Top.todo = <<>>
       /\ reactions[ctl[j].p] = <<>>
       /\ \A i \in DOMAIN agg[ctl[j].p].items : agg[ctl[j].p].items[i] # ctl[j].p
  /\ ~script.inline => \A j \in 1 .. Len(ctl) : ctl[j].k = "release" =>
       j = 2 /\ Len(ctl) = 2 /\ ctl[1].k = "drain"

\* The reactions that count an input, and which they count.
IsKept(r) == r.onF.do = "kept"
KeyOf(r) == <<r.onF.to, r.onF.at>>
Keys(s) == {KeyOf(s[i]) : i \in {n \in 1 .. Len(s) : IsKept(s[n])}}
OnceEach(s) == \A i, j \in 1 .. Len(s) :
                 IsKept(s[i]) /\ IsKept(s[j]) /\ KeyOf(s[i]) = KeyOf(s[j]) => i = j
\* The reactions on s are those that P has at h, once each.
Filed(s, h, P) == Keys(s) = {k \in DOMAIN P : P[k] = h} /\ OnceEach(s)
\* P is where each is, and there it waits on, or runs for, the input it counts.
Ledger(P) ==
  /\ \A q \in Promise : Filed(reactions[q], OnList(q), P)
  /\ \A j \in 1 .. Len(ctl) : Filed(ctl[j].todo, OnStack(j), P)
  /\ \A k \in DOMAIN P :
       \E c \in DOMAIN agg : \E i \in DOMAIN agg[c].items :
         /\ k = <<c, i>> /\ agg[c].items[i] \in Promise
         /\ \/ P[k] = OnList(agg[c].items[i])
            \/ \E j \in 1 .. Len(ctl) : /\ P[k] = OnStack(j) /\ ctl[j].k = "drain"
                                        /\ ctl[j].p = agg[c].items[i]

\* The inputs of c that are under way, and the work of c on the stack, by kind.
Claims(c, P) == {i \in DOMAIN agg[c].items : <<c, i>> \in DOMAIN P}
PostsIn(C, c, k) == {j \in 1 .. Len(C) : C[j].k = k /\ C[j].p = c}
Posts(c, k) == PostsIn(ctl, c, k)
\* The outcome of an input is in its place; an input that fails an all fails it.
Stored(c, i) ==
  LET a == agg[c]
      x == a.items[i]
      o == a.values[i]
  IN  /\ o = IF x \in Promise THEN [st |-> state[x], v |-> value[x]]
                              ELSE [st |-> "FULFILLED", v |-> x]
      /\ o.st \in Final /\ (a.all => o.st = "FULFILLED")
Failed(c) ==
  /\ agg[c].all
  /\ \E i \in DOMAIN agg[c].items :
       LET x == agg[c].items[i]
       IN  x \in Promise /\ state[x] = "REJECTED" /\ value[x] = value[c]

\* The account of c: `live` counts the inputs under way and the releases to come,
\* and while the result is pending `remaining` counts the inputs under way; every
\* other input is stored, or still to be looked at by the call.
Account(c, P) ==
  LET K == Claims(c, P)
      R == Posts(c, "release")
      B == Posts(c, "build")
  IN  /\ state[c] \in {"PENDING"} \cup Final /\ (agg[c].settled <=> state[c] \in Final)
      /\ agg[c].live = Cardinality(K) + Cardinality(R)
      /\ agg[c].freed <=> (K = {} /\ R = {} /\ B = {} /\ Posts(c, "built") = {})
      /\ state[c] = "PENDING" =>
           /\ agg[c].remaining = Cardinality(K)
           /\ K = {} => B # {}
           /\ \A i \in DOMAIN agg[c].items :
                i \in K \/ Stored(c, i) \/ \E j \in B : i >= ctl[j].at
      /\ \A j \in B : \A i \in K : i < ctl[j].at
      /\ state[c] = "FULFILLED" => \A i \in DOMAIN agg[c].items : Stored(c, i)
      /\ state[c] = "REJECTED" => Failed(c)
Accounts(P) == Ledger(P) /\ \A c \in DOMAIN agg : Account(c, P)

\* What may still settle p: script, its aggregation, a reaction, a handler that
\* runs, or a race over inputs it has not looked at.
Points(r, p) == r.np = p \/ r.onF.to = p
BackedOn(a, p) ==
  \/ \E i \in 1 .. Len(a.todo) : Points(a.todo[i], p)
  \/ a.k = "handler" /\ a.p = p
  \/ a.k = "race" /\ a.p = p /\ a.at = 1 /\ a.items # <<>>
Backed(p) ==
  \/ p \in open \/ p \in DOMAIN agg
  \/ \E q \in Promise : \E i \in 1 .. Len(reactions[q]) : Points(reactions[q][i], p)
  \/ \E j \in 1 .. Len(ctl) : BackedOn(ctl[j], p)
AllBacked ==
  "any" \notin script.may => \A p \in Promise : state[p] = "PENDING" => Backed(p)

Whole(P) == AggsAlone /\ BuildsAlone /\ Accounts(P) /\ AllBacked
AInv == ~ThenablesInline => \E P : Whole(P)

----------------------------------------------------------------------------
(* Reactions that count an input, on a list.                               *)

LEMMA NoKeys == Keys(<<>>) = {} /\ OnceEach(<<>>)
<1>1. Len(<<>>) = 0
  OBVIOUS
<1> QED
  BY <1>1 DEF Keys, OnceEach

\* A reaction is put on a list.
LEMMA KeysPushed ==
  ASSUME NEW s \in Seq(Reaction), NEW r \in Reaction, OnceEach(s),
         IsKept(r) => KeyOf(r) \notin Keys(s)
  PROVE  /\ Keys(Append(s, r)) = Keys(s) \cup (IF IsKept(r) THEN {KeyOf(r)} ELSE {})
         /\ OnceEach(Append(s, r))
<1>1. PICK t : t = Append(s, r)
  OBVIOUS
<1>2. /\ Len(t) = Len(s) + 1 /\ Len(s) \in Nat /\ t[Len(s) + 1] = r
      /\ \A i \in 1 .. Len(s) : t[i] = s[i]
  BY <1>1, PushedType
<1>3. \A i : i \in 1 .. Len(t) <=> i \in 1 .. Len(s) \/ i = Len(s) + 1
  BY <1>2
<1>4. ASSUME NEW k PROVE k \in Keys(t) <=> k \in Keys(s) \cup (IF IsKept(r) THEN {KeyOf(r)} ELSE {})
  <2>1. k \in Keys(t) <=> \E i \in 1 .. Len(t) : IsKept(t[i]) /\ KeyOf(t[i]) = k
    BY DEF Keys
  <2>2. k \in Keys(s) <=> \E i \in 1 .. Len(s) : IsKept(s[i]) /\ KeyOf(s[i]) = k
    BY DEF Keys
  <2> QED
    BY <1>2, <1>3, <2>1, <2>2
<1>5. ASSUME NEW i \in 1 .. Len(t), NEW j \in 1 .. Len(t), IsKept(t[i]), IsKept(t[j]),
             KeyOf(t[i]) = KeyOf(t[j])
      PROVE  i = j
  <2>1. CASE i \in 1 .. Len(s) /\ j \in 1 .. Len(s)
    BY <1>2, <1>5, <2>1 DEF OnceEach
  <2>2. CASE i = Len(s) + 1 /\ j \in 1 .. Len(s)
    BY <1>2, <1>5, <2>2 DEF Keys
  <2>3. CASE j = Len(s) + 1 /\ i \in 1 .. Len(s)
    BY <1>2, <1>5, <2>3 DEF Keys
  <2> QED
    BY <1>3, <2>1, <2>2, <2>3
<1> QED
  BY <1>1, <1>4, <1>5 DEF OnceEach

\* The first reaction is taken off a list.
LEMMA KeysPopped ==
  ASSUME NEW s \in Seq(Reaction), s # <<>>, OnceEach(s), NEW r, r = Head(s), NEW t, t = Tail(s)
  PROVE  /\ Keys(t) = Keys(s) \ (IF IsKept(r) THEN {KeyOf(r)} ELSE {}) /\ OnceEach(t)
         /\ IsKept(r) => KeyOf(r) \in Keys(s)
<1>1. /\ r = s[1] /\ t \in Seq(Reaction) /\ Len(t) = Len(s) - 1 /\ Len(s) \in Nat \ {0}
      /\ \A i \in 1 .. Len(t) : t[i] = s[i + 1]
  BY HeadTailProperties, EmptySeq, LenProperties
<1>2. /\ 1 \in 1 .. Len(s) /\ \A i \in 1 .. Len(t) : i + 1 \in 1 .. Len(s) /\ i + 1 # 1
      /\ \A i \in 1 .. Len(s) : i = 1 \/ \E j \in 1 .. Len(t) : i = j + 1
  <2>1. ASSUME NEW i \in 1 .. Len(s), i # 1 PROVE \E j \in 1 .. Len(t) : i = j + 1
    <3>1. i - 1 \in 1 .. Len(t) /\ i = (i - 1) + 1
      BY <1>1, <2>1
    <3> QED
      BY <3>1
  <2> QED
    BY <1>1, <2>1
<1>3. ASSUME NEW k PROVE k \in Keys(t) <=> k \in Keys(s) \ (IF IsKept(r) THEN {KeyOf(r)} ELSE {})
  <2>1. k \in Keys(t) <=> \E i \in 1 .. Len(t) : IsKept(t[i]) /\ KeyOf(t[i]) = k
    BY DEF Keys
  <2>2. k \in Keys(s) <=> \E i \in 1 .. Len(s) : IsKept(s[i]) /\ KeyOf(s[i]) = k
    BY DEF Keys
  <2>3. ASSUME k \in Keys(t) PROVE k \in Keys(s) /\ (IsKept(r) => KeyOf(r) # k)
    <3>1. PICK i \in 1 .. Len(t) : IsKept(s[i + 1]) /\ KeyOf(s[i + 1]) = k
      BY <1>1, <2>1, <2>3
    <3> QED
      BY <1>1, <1>2, <2>2, <3>1 DEF OnceEach
  <2>4. ASSUME k \in Keys(s), ~(IsKept(r) /\ KeyOf(r) = k) PROVE k \in Keys(t)
    BY <1>1, <1>2, <2>1, <2>2, <2>4
  <2> QED
    BY <2>3, <2>4
<1>4. ASSUME NEW i \in 1 .. Len(t), NEW j \in 1 .. Len(t), IsKept(t[i]), IsKept(t[j]),
             KeyOf(t[i]) = KeyOf(t[j])
      PROVE  i = j
  <2>1. i + 1 = j + 1
    BY <1>1, <1>2, <1>4 DEF OnceEach
  <2> QED
    BY <2>1
<1>5. IsKept(r) => KeyOf(r) \in Keys(s)
  BY <1>1, <1>2 DEF Keys
<1> QED
  BY <1>3, <1>4, <1>5 DEF OnceEach

----------------------------------------------------------------------------
(* What the stack goes on with.                                            *)

\* What the invariant says of the stack and the lists, in the terms used here.
LEMMA FitStack ==
  ASSUME NEW H, NEW U, Inv(H, U)
  PROVE  /\ \A j \in 1 .. Len(ctl) : Fit(ctl[j])
         /\ \A q \in Promise : \A i \in 1 .. Len(reactions[q]) :
              reactions[q][i] \in Reaction /\ Proper(reactions[q][i])
<1>1. StackGood(H, U) /\ ReactionsGood(H)
  BY InvFacts
<1>2. ASSUME NEW j \in 1 .. Len(ctl) PROVE Fit(ctl[j])
  <2>1. PICK a : a = ctl[j]
    OBVIOUS
  <2>2. GoodAt(a, j, H, U)
    BY <1>1, <2>1 DEF StackGood
  <2>3. Fit(a)
    BY <2>2 DEF GoodAt, Fit, HeldAt, Good
  <2> QED
    BY <2>1, <2>3
<1>3. ASSUME NEW q \in Promise, NEW i \in 1 .. Len(reactions[q])
      PROVE  reactions[q][i] \in Reaction /\ Proper(reactions[q][i])
  BY <1>1 DEF ReactionsGood, HeldAt, Good
<1> QED
  BY <1>2, <1>3

\* The stack S is ctl, or ctl without its top, or ctl with a as its top.
Instead(S, a) ==
  \/ S = ctl
  \/ ctl # <<>> /\ S = Below
  \/ ctl # <<>> /\ S = Replaced(a) /\ Fit(a) /\ Lone(a)

\* The three ways a stack goes on.
LEMMA InsteadFacts ==
  ASSUME NEW H, NEW U, Inv(H, U), AggsAlone, NEW a, NEW S, Instead(S, a)
  PROVE  /\ S \in Seq(Activation) /\ \A j \in 1 .. Len(S) : Fit(S[j]) /\ Lone(S[j])
         /\ Len(S) \in Nat /\ Len(ctl) \in Nat
         /\ \/ S = ctl
            \/ /\ ctl # <<>> /\ Len(S) = Len(ctl) - 1 /\ Top = ctl[Len(ctl)]
               /\ S = Below /\ \A j \in 1 .. Len(S) : S[j] = ctl[j]
            \/ /\ ctl # <<>> /\ Len(S) = Len(ctl) /\ Top = ctl[Len(ctl)] /\ Len(S) \in 1 .. Len(S)
               /\ S = Replaced(a) /\ Fit(a) /\ Lone(a)
               /\ S[Len(S)] = a /\ \A j \in 1 .. Len(S) - 1 : S[j] = ctl[j]
<1>1. TypeOK /\ ctl \in Seq(Activation) /\ Len(ctl) \in Nat
  BY InvFacts, LenProperties DEF TypeOK
<1>2. \A j \in 1 .. Len(ctl) : Fit(ctl[j]) /\ Lone(ctl[j])
  BY FitStack DEF AggsAlone
<1>3. CASE S = ctl
  BY <1>1, <1>2, <1>3
<1>4. CASE ctl # <<>> /\ S = Below
  BY <1>1, <1>2, <1>4, StackType
<1>5. CASE ctl # <<>> /\ S = Replaced(a) /\ Fit(a) /\ Lone(a)
  <2>1. a \in Activation
    BY <1>5 DEF Fit
  <2>2. /\ S \in Seq(Activation) /\ Len(S) = Len(ctl) /\ S[Len(ctl)] = a
        /\ \A j \in 1 .. Len(ctl) - 1 : S[j] = ctl[j]
        /\ Len(ctl) \in Nat \ {0} /\ Top = ctl[Len(ctl)]
    BY <1>1, <1>5, <2>1, ReplacedType, StackType
  <2>3. \A j \in 1 .. Len(S) : j = Len(ctl) \/ j \in 1 .. Len(ctl) - 1
    BY <2>2
  <2>4. \A j \in 1 .. Len(ctl) - 1 : j \in 1 .. Len(ctl)
    BY <2>2
  <2>5. \A j \in 1 .. Len(S) : Fit(S[j]) /\ Lone(S[j])
    BY <1>2, <1>5, <2>2, <2>3, <2>4
  <2> QED
    BY <1>5, <2>2, <2>5
<1> QED
  BY <1>3, <1>4, <1>5 DEF Instead

----------------------------------------------------------------------------
(* Nobody else settles the result of an aggregation.                       *)

\* No reaction comes to settle the result of an aggregation: results are promises
\* that were just made.
LEMMA TheirsStays ==
  ASSUME TypeOK, TypeOK', \A c \in DOMAIN agg' : c \in DOMAIN agg \/ c \notin Born,
         NEW r, Proper(r), Theirs(r)
  PROVE  Theirs(r)'
<1>1. Born \subseteq Promise /\ None \notin Promise /\ DOMAIN agg' \subseteq Promise
  BY NatFacts DEF TypeOK
<1>2. r.np = None \/ r.np \in Born
  BY DEF Proper
<1>3. r.onF.do = "resolve" => r.onF.to \in Born
  BY DEF Proper
<1> QED
  BY <1>1, <1>2, <1>3 DEF Theirs

\* Nor does an activation.
LEMMA LoneStays ==
  ASSUME TypeOK, TypeOK', NEW q, Turns(q),
         \A c \in DOMAIN agg' : c \in DOMAIN agg \/ c \notin Born,
         NEW a, Fit(a), Lone(a)
  PROVE  Lone(a)'
<1>1. Born \subseteq Promise /\ None \notin Promise
  BY NatFacts
<1>2. \A i \in 1 .. Len(a.todo) : Theirs(a.todo[i])'
  BY TheirsStays DEF Fit, Lone
<1>3. a.k = "drain" => a.ok = (state'[a.p] = "FULFILLED")
  BY <1>1 DEF Fit, Lone, Turns
<1>4. a.k \in {"executor", "then", "handler", "race"} => a.p \notin DOMAIN agg'
  BY DEF Fit, Lone
<1> QED
  BY <1>2, <1>3, <1>4 DEF Lone

\* Nothing on S settles the result of an aggregation.
AllLone(S) == S \in Seq(Activation) /\ \A j \in 1 .. Len(S) : Fit(S[j]) /\ Lone(S[j])

\* So a step that puts no such reaction or activation anywhere keeps AggsAlone.
LEMMA LoneStep ==
  ASSUME NEW H, NEW U, Inv(H, U), TypeOK', AggsAlone, NEW q, Turns(q),
         \A c \in DOMAIN agg' : c \in DOMAIN agg \/ c \notin Born,
         open' \cap DOMAIN agg' = {},
         NEW S, AllLone(S),
         \/ ctl' = S
         \/ \E a \in Activation : ctl' = Append(S, a) /\ Lone(a)',
         \A y \in Promise :
           \/ reactions'[y] = reactions[y]
           \/ reactions'[y] = <<>>
           \/ \E r \in Reaction : reactions'[y] = Append(reactions[y], r) /\ Theirs(r)'
  PROVE  AggsAlone'
<1>1. TypeOK
  BY InvFacts
<1>2. /\ S \in Seq(Activation) /\ Len(S) \in Nat
      /\ \A j \in 1 .. Len(S) : Fit(S[j]) /\ Lone(S[j])
  BY LenProperties DEF AllLone
<1>3. \A j \in 1 .. Len(S) : Lone(S[j])'
  BY <1>1, <1>2, LoneStays
<1>4. \A T : T = ctl' => \A j \in 1 .. Len(T) : Lone(T[j])'
  <2>1. CASE ctl' = S
    BY <1>3, <2>1
  <2>2. CASE \E a \in Activation : ctl' = Append(S, a) /\ Lone(a)'
    <3>1. PICK a \in Activation : ctl' = Append(S, a) /\ Lone(a)'
      BY <2>2
    <3>2. PICK T : T = ctl'
      OBVIOUS
    <3>3. /\ Len(T) = Len(S) + 1 /\ T[Len(S) + 1] = a /\ \A k \in 1 .. Len(S) : T[k] = S[k]
      BY <1>2, <3>1, <3>2, PushedType
    <3>4. \A j \in 1 .. Len(T) : j \in 1 .. Len(S) \/ j = Len(S) + 1
      BY <1>2, <3>3
    <3>5. \A j \in 1 .. Len(T) : Lone(T[j])'
      BY <1>3, <3>1, <3>3, <3>4
    <3> QED
      BY <3>2, <3>5
  <2> QED
    BY <2>1, <2>2
<1>5. ASSUME NEW y \in Promise, NEW t, t = reactions'[y], NEW i \in 1 .. Len(t)
      PROVE  Theirs(t[i])'
  <2>1. PICK s : s = reactions[y]
    OBVIOUS
  <2>2. s \in Seq(Reaction)
    BY <1>1, <2>1 DEF TypeOK
  <2>3. \A k \in 1 .. Len(s) : Theirs(s[k])'
    <3>1. \A k \in 1 .. Len(s) : Proper(s[k]) /\ Theirs(s[k])
      BY <2>1, FitStack DEF AggsAlone
    <3> QED
      BY <1>1, <3>1, TheirsStays
  <2>4. CASE t = s
    BY <1>5, <2>3, <2>4
  <2>5. CASE t = <<>>
    BY <1>5, <2>5
  <2>6. CASE \E r \in Reaction : t = Append(s, r) /\ Theirs(r)'
    <3>1. PICK r \in Reaction : t = Append(s, r) /\ Theirs(r)'
      BY <2>6
    <3>2. /\ Len(t) = Len(s) + 1 /\ Len(s) \in Nat /\ t[Len(s) + 1] = r
          /\ \A k \in 1 .. Len(s) : t[k] = s[k]
      BY <2>2, <3>1, PushedType
    <3>3. i \in 1 .. Len(s) \/ i = Len(s) + 1
      BY <1>5, <3>2
    <3> QED
      BY <2>3, <3>1, <3>2, <3>3
  <2> QED
    BY <1>5, <2>1, <2>4, <2>5, <2>6
<1> QED
  BY <1>4, <1>5 DEF AggsAlone

----------------------------------------------------------------------------
(* Whatever is pending has something that may settle it: x loses that when *)
(* its reaction or handler goes from the top of the stack.                 *)

Yields(S, a, x) ==
  \/ S = ctl
  \/ \A p \in Promise :
       BackedOn(Top, p) => p = x \/ p \in DOMAIN agg \/ (S = Replaced(a) /\ BackedOn(a, p))

\* What may settle a promise other than x is still on the stack S.
LEMMA YieldsStays ==
  ASSUME NEW H, NEW U, Inv(H, U), AggsAlone, NEW a, NEW S, Instead(S, a), NEW x, Yields(S, a, x),
         NEW p \in Promise, p # x, p \notin DOMAIN agg,
         NEW j \in 1 .. Len(ctl), BackedOn(ctl[j], p)
  PROVE  \E k \in 1 .. Len(S) : BackedOn(S[k], p)
<1>1. /\ Len(S) \in Nat /\ Len(ctl) \in Nat
      /\ \/ S = ctl
         \/ /\ ctl # <<>> /\ Len(S) = Len(ctl) - 1 /\ Top = ctl[Len(ctl)]
            /\ S = Below /\ \A k \in 1 .. Len(S) : S[k] = ctl[k]
         \/ /\ ctl # <<>> /\ Len(S) = Len(ctl) /\ Top = ctl[Len(ctl)] /\ Len(S) \in 1 .. Len(S)
            /\ S[Len(S)] = a /\ \A k \in 1 .. Len(S) - 1 : S[k] = ctl[k]
  BY InsteadFacts
<1>2. CASE S = ctl
  BY <1>2
<1>3. CASE /\ ctl # <<>> /\ Len(S) = Len(ctl) - 1 /\ Top = ctl[Len(ctl)] /\ S # ctl
           /\ S = Below /\ \A k \in 1 .. Len(S) : S[k] = ctl[k]
  <2>1. CASE j = Len(ctl)
    <3>1. S = Replaced(a)
      BY <1>3, <2>1 DEF Yields
    <3>2. FALSE
      <4>1. Below \in Seq(Activation) /\ Len(Append(Below, a)) = Len(Below) + 1
        <5>1. Below \in Seq(Activation)
          BY <1>3, StackType, InvFacts
        <5>2. a \in Activation \/ a \notin Activation
          OBVIOUS
        <5> QED
          BY <5>1, AppendProperties
      <4> QED
        BY <1>1, <1>3, <3>1, <4>1 DEF Replaced
    <3> QED
      BY <3>2
  <2>2. CASE j # Len(ctl)
    BY <1>1, <1>3, <2>2
  <2> QED
    BY <2>1, <2>2
<1>4. CASE /\ ctl # <<>> /\ Len(S) = Len(ctl) /\ Top = ctl[Len(ctl)] /\ Len(S) \in 1 .. Len(S)
           /\ S # ctl /\ S[Len(S)] = a /\ \A k \in 1 .. Len(S) - 1 : S[k] = ctl[k]
  <2>1. CASE j = Len(ctl)
    BY <1>4, <2>1 DEF Yields
  <2>2. CASE j # Len(ctl)
    BY <1>1, <1>4, <2>2
  <2> QED
    BY <2>1, <2>2
<1> QED
  BY <1>1, <1>2, <1>3, <1>4

\* What ctl has to settle a promise with, S has too.
StillBacks(S, x) ==
  /\ S \in Seq(Activation)
  /\ \A p \in Promise :
       /\ p # x /\ p \notin DOMAIN agg
       /\ \E j \in 1 .. Len(ctl) : BackedOn(ctl[j], p)
       => \E k \in 1 .. Len(S) : BackedOn(S[k], p)

\* And for every promise at once.
LEMMA YieldsBacks ==
  ASSUME NEW H, NEW U, Inv(H, U), AggsAlone, NEW a, NEW S, Instead(S, a), NEW x, Yields(S, a, x)
  PROVE  AllLone(S) /\ StillBacks(S, x)
<1>1. S \in Seq(Activation) /\ \A j \in 1 .. Len(S) : Fit(S[j]) /\ Lone(S[j])
  BY InsteadFacts
<1>2. ASSUME NEW p \in Promise, p # x, p \notin DOMAIN agg,
             NEW j \in 1 .. Len(ctl), BackedOn(ctl[j], p)
      PROVE  \E k \in 1 .. Len(S) : BackedOn(S[k], p)
  BY <1>2, YieldsStays
<1> QED
  BY <1>1, <1>2 DEF AllLone, StillBacks

\* A step keeps AllBacked that takes from no pending promise but x what may settle
\* it.
LEMMA BackedStep ==
  ASSUME NEW H, NEW U, Inv(H, U), TypeOK', AllBacked, script'.may = script.may,
         NEW x, NEW S, StillBacks(S, x),
         ctl' = S \/ \E a \in Activation : ctl' = Append(S, a),
         DOMAIN agg \subseteq DOMAIN agg', \A p \in open : p # x => p \in open',
         \A p \in Promise : p # x /\ state'[p] = "PENDING" => state[p] = "PENDING",
         \A y \in Promise :
           \/ reactions'[y] = reactions[y]
           \/ reactions'[y] = <<>> /\ \E j \in 1 .. Len(S) : S[j].todo = reactions[y]
           \/ \E r \in Reaction : reactions'[y] = Append(reactions[y], r),
         "any" \notin script.may /\ x \in Promise /\ state'[x] = "PENDING" => Backed(x)'
  PROVE  AllBacked'
<1>1. TypeOK /\ S \in Seq(Activation) /\ Len(S) \in Nat
  BY InvFacts, LenProperties DEF StillBacks
<1> SUFFICES ASSUME "any" \notin script.may, NEW p \in Promise, state'[p] = "PENDING"
               PROVE  Backed(p)'
  BY DEF AllBacked
<1>3. CASE p = x
  BY <1>3
<1>4. CASE p # x
  <2>1. state[p] = "PENDING" /\ Backed(p)
    BY <1>4 DEF AllBacked
  <2>2. \A T : T = ctl' => \A k \in 1 .. Len(S) : k \in 1 .. Len(T) /\ T[k] = S[k]
    <3>1. CASE ctl' = S
      BY <3>1
    <3>2. CASE \E a \in Activation : ctl' = Append(S, a)
      <4>1. PICK a \in Activation : ctl' = Append(S, a)
        BY <3>2
      <4>2. PICK T : T = ctl'
        OBVIOUS
      <4>3. Len(T) = Len(S) + 1 /\ \A k \in 1 .. Len(S) : T[k] = S[k]
        BY <1>1, <4>1, <4>2, PushedType
      <4>4. \A k \in 1 .. Len(S) : k \in 1 .. Len(T)
        BY <1>1, <4>3
      <4> QED
        BY <4>2, <4>3, <4>4
    <3> QED
      BY <3>1, <3>2
  <2>3. ASSUME NEW j \in 1 .. Len(S), BackedOn(S[j], p)
        PROVE  Backed(p)'
    <3>1. PICK T : T = ctl'
      OBVIOUS
    <3>2. j \in 1 .. Len(T) /\ BackedOn(T[j], p)
      BY <2>2, <2>3, <3>1
    <3>3. BackedOn(T[j], p)'
      BY <3>2 DEF BackedOn, Points
    <3> QED
      BY <3>1, <3>2, <3>3 DEF Backed
  <2>4. CASE p \in open \/ p \in DOMAIN agg
    BY <1>4, <2>4 DEF Backed
  <2>5. CASE p \notin DOMAIN agg /\ \E j \in 1 .. Len(ctl) : BackedOn(ctl[j], p)
    BY <1>4, <2>3, <2>5 DEF StillBacks
  <2>6. CASE \E q \in Promise : \E i \in 1 .. Len(reactions[q]) : Points(reactions[q][i], p)
    <3>10. PICK q \in Promise : \E i \in 1 .. Len(reactions[q]) : Points(reactions[q][i], p)
      BY <2>6
    <3>1. PICK i \in 1 .. Len(reactions[q]) : Points(reactions[q][i], p)
      BY <3>10
    <3>2. PICK s, t : s = reactions[q] /\ t = reactions'[q]
      OBVIOUS
    <3>3. s \in Seq(Reaction) /\ i \in 1 .. Len(s) /\ Points(s[i], p)
      BY <1>1, <3>1, <3>2 DEF TypeOK
    <3>4. ASSUME i \in 1 .. Len(t), t[i] = s[i] PROVE Backed(p)'
      BY <3>2, <3>3, <3>4 DEF Backed, Points
    <3>5. CASE t = s
      BY <3>3, <3>4, <3>5
    <3>6. CASE \E r \in Reaction : t = Append(s, r)
      <4>1. PICK r \in Reaction : t = Append(s, r)
        BY <3>6
      <4>2. Len(t) = Len(s) + 1 /\ Len(s) \in Nat /\ t[i] = s[i]
        BY <3>3, <4>1, PushedType
      <4> QED
        BY <3>3, <3>4, <4>2
    <3>7. CASE \E j \in 1 .. Len(S) : S[j].todo = s
      <4>1. PICK j \in 1 .. Len(S) : S[j].todo = s
        BY <3>7
      <4>2. BackedOn(S[j], p)
        BY <3>3, <4>1 DEF BackedOn
      <4> QED
        BY <2>3, <4>2
    <3> QED
      BY <3>2, <3>5, <3>6, <3>7
  <2> QED
    BY <2>1, <2>4, <2>5, <2>6 DEF Backed
<1> QED
  BY <1>3, <1>4

----------------------------------------------------------------------------
(* Which reactions of an aggregation are where.                            *)

\* The work of an aggregation.
WorkKinds == {"build", "built", "release"}

\* The stack goes on as S, and no reaction of an aggregation comes or goes.
Going(S, b) ==
  \/ S = ctl
  \/ ctl # <<>> /\ S = Below /\ Keys(Top.todo) = {}
  \/ /\ ctl # <<>> /\ S = Replaced(b) /\ Fit(b) /\ Lone(b) /\ b.k = Top.k /\ b.p = Top.p
     /\ Keys(b.todo) = Keys(Top.todo) /\ OnceEach(b.todo)

\* The stack S holds the reactions of aggregations that ctl does, at its places.
LEMMA GoingFacts ==
  ASSUME NEW H, NEW U, Inv(H, U), AggsAlone, NEW b, NEW S, Going(S, b)
  PROVE  /\ Instead(S, b) /\ S \in Seq(Activation) /\ Len(S) \in Nat /\ Len(ctl) \in Nat
         /\ \/ Len(S) = Len(ctl)
            \/ /\ ctl # <<>> /\ Len(S) = Len(ctl) - 1 /\ S = Below
               /\ Top = ctl[Len(ctl)] /\ Keys(Top.todo) = {}
         /\ \A j \in 1 .. Len(S) :
              /\ j \in 1 .. Len(ctl) /\ S[j].k = ctl[j].k /\ S[j].p = ctl[j].p
              /\ Keys(S[j].todo) = Keys(ctl[j].todo)
              /\ OnceEach(ctl[j].todo) => OnceEach(S[j].todo)
              /\ \/ S[j] = ctl[j]
                 \/ j = Len(ctl) /\ S[j] = b /\ S = Replaced(b) /\ ctl[j] = Top
<1>1. TypeOK /\ ctl \in Seq(Activation) /\ Len(ctl) \in Nat
  BY InvFacts, LenProperties DEF TypeOK
<1>2. Instead(S, b)
  BY DEF Instead, Going
<1>3. CASE S = ctl
  BY <1>1, <1>2, <1>3
<1>4. CASE ctl # <<>> /\ S = Below /\ Keys(Top.todo) = {}
  <2>1. /\ Len(ctl) \in Nat \ {0} /\ Top = ctl[Len(ctl)]
        /\ S \in Seq(Activation) /\ Len(S) = Len(ctl) - 1
        /\ \A i \in 1 .. Len(ctl) - 1 : S[i] = ctl[i]
    BY <1>1, <1>4, StackType
  <2> QED
    BY <1>1, <1>2, <1>4, <2>1
<1>5. CASE /\ ctl # <<>> /\ S = Replaced(b) /\ Fit(b) /\ b.k = Top.k /\ b.p = Top.p
           /\ Keys(b.todo) = Keys(Top.todo) /\ OnceEach(b.todo)
  <2>1. b \in Activation
    BY <1>5 DEF Fit
  <2>2. /\ S \in Seq(Activation) /\ Len(S) = Len(ctl) /\ S[Len(ctl)] = b
        /\ \A j \in 1 .. Len(ctl) - 1 : S[j] = ctl[j]
        /\ Len(ctl) \in Nat \ {0} /\ Top = ctl[Len(ctl)]
    BY <1>1, <1>5, <2>1, ReplacedType, StackType
  <2>3. \A j \in 1 .. Len(S) : j = Len(ctl) \/ j \in 1 .. Len(ctl) - 1
    BY <2>2
  <2>4. ASSUME NEW j \in 1 .. Len(S)
        PROVE  /\ j \in 1 .. Len(ctl) /\ S[j].k = ctl[j].k /\ S[j].p = ctl[j].p
               /\ Keys(S[j].todo) = Keys(ctl[j].todo)
               /\ OnceEach(ctl[j].todo) => OnceEach(S[j].todo)
               /\ \/ S[j] = ctl[j]
                  \/ j = Len(ctl) /\ S[j] = b /\ S = Replaced(b) /\ ctl[j] = Top
    <3>1. CASE j = Len(ctl)
      BY <1>5, <2>2, <3>1
    <3>2. CASE j \in 1 .. Len(ctl) - 1
      BY <2>2, <3>2
    <3> QED
      BY <2>3, <3>1, <3>2
  <2> QED
    BY <1>1, <1>2, <2>2, <2>4
<1> QED
  BY <1>3, <1>4, <1>5 DEF Going

LEMMA HoldersApart == \A q, j, i : OnList(q) # OnStack(j) /\ (OnStack(j) = OnStack(i) => i = j)
BY DEF OnList, OnStack

\* The next stack is S, with at most one activation on it.
LEMMA NewTop ==
  ASSUME NEW S \in Seq(Activation),
         ctl' = S \/ \E a \in Activation : ctl' = Append(S, a) /\ a.todo = <<>>,
         NEW T, T = ctl'
  PROVE  /\ \A j \in 1 .. Len(S) : j \in 1 .. Len(T) /\ T[j] = S[j]
         /\ \A j \in 1 .. Len(T) : j \in 1 .. Len(S) \/ (j = Len(S) + 1 /\ T[j].todo = <<>>)
<1>1. Len(S) \in Nat
  BY LenProperties
<1>2. CASE ctl' = S
  BY <1>2
<1>3. CASE \E a \in Activation : ctl' = Append(S, a) /\ a.todo = <<>>
  <2>1. PICK a \in Activation : ctl' = Append(S, a) /\ a.todo = <<>>
    BY <1>3
  <2>2. /\ Len(T) = Len(S) + 1 /\ \A k \in 1 .. Len(S) : T[k] = S[k] 
        /\ T[Len(S) + 1] = a
    BY <2>1, PushedType
  <2> QED
    BY <1>1, <2>1, <2>2
<1> QED
  BY <1>2, <1>3

\* Reactions that count no input may come and go.
LEMMA LedgerPlain ==
  ASSUME NEW H, NEW U, Inv(H, U), AggsAlone, NEW P, Ledger(P), NEW b, NEW S, Going(S, b),
         ctl' = S \/ \E a \in Activation : ctl' = Append(S, a) /\ a.todo = <<>>,
         \A y \in Promise :
           \/ reactions'[y] = reactions[y]
           \/ \E r \in Reaction : reactions'[y] = Append(reactions[y], r) /\ ~IsKept(r),
         AggregatesGoOn
  PROVE  Ledger(P)'
<1>1. TypeOK
  BY InvFacts
<1>2. /\ S \in Seq(Activation) /\ Len(S) \in Nat /\ Len(ctl) \in Nat
      /\ \/ Len(S) = Len(ctl)
         \/ /\ Len(S) = Len(ctl) - 1 /\ ctl # <<>>
            /\ Top = ctl[Len(ctl)] /\ Keys(Top.todo) = {}
      /\ \A j \in 1 .. Len(S) :
              /\ j \in 1 .. Len(ctl) /\ S[j].k = ctl[j].k /\ S[j].p = ctl[j].p
              /\ Keys(S[j].todo) = Keys(ctl[j].todo)
              /\ OnceEach(ctl[j].todo) => OnceEach(S[j].todo)
  BY GoingFacts
<1>3. PICK T : T = ctl'
  OBVIOUS
<1>4. /\ \A j \in 1 .. Len(S) : j \in 1 .. Len(T) /\ T[j] = S[j]
      /\ \A j \in 1 .. Len(T) : j \in 1 .. Len(S) \/ (j = Len(S) + 1 /\ T[j].todo = <<>>)
  BY <1>2, <1>3, NewTop
<1>5. \A k \in DOMAIN P : \A j : P[k] = OnStack(j) => j \in 1 .. Len(ctl)
  BY HoldersApart DEF Ledger
<1>6. \A k \in DOMAIN P : \A j : P[k] = OnStack(j) => j \in 1 .. Len(S)
  <2> SUFFICES ASSUME NEW k \in DOMAIN P, NEW j, P[k] = OnStack(j) PROVE j \in 1 .. Len(S)
    OBVIOUS
  <2>1. j \in 1 .. Len(ctl)
    BY <1>5
  <2>2. Keys(ctl[j].todo) # {}
    BY <2>1 DEF Ledger, Filed
  <2> QED
    BY <1>2, <2>1, <2>2
<1>7. ASSUME NEW q \in Promise, NEW t, t = reactions'[q] PROVE Filed(t, OnList(q), P)
  <2>1. PICK s : s = reactions[q]
    OBVIOUS
  <2>2. s \in Seq(Reaction) /\ Filed(s, OnList(q), P)
    BY <1>1, <2>1 DEF Ledger, TypeOK
  <2>3. CASE t = s
    BY <2>2, <2>3
  <2>4. CASE \E r \in Reaction : t = Append(s, r) /\ ~IsKept(r)
    <3>1. PICK r \in Reaction : t = Append(s, r) /\ ~IsKept(r)
      BY <2>4
    <3>2. /\ Keys(t) = Keys(s) \cup (IF IsKept(r) THEN {KeyOf(r)} ELSE {}) /\ OnceEach(t)
      BY <2>2, <3>1, KeysPushed DEF Filed
    <3>3. Keys(t) = Keys(s)
      BY <3>1, <3>2
    <3> QED
      BY <2>2, <3>2, <3>3 DEF Filed
  <2> QED
    BY <1>7, <2>1, <2>3, <2>4
<1>8. ASSUME NEW j \in 1 .. Len(T) PROVE Filed(T[j].todo, OnStack(j), P)
  <2>1. CASE j \in 1 .. Len(S)
    BY <1>2, <1>4, <2>1 DEF Ledger, Filed
  <2>2. CASE j = Len(S) + 1 /\ T[j].todo = <<>>
    <3>1. \A k \in DOMAIN P : P[k] # OnStack(j)
      BY <1>2, <1>6, <2>2
    <3> QED
      BY <2>2, <3>1, NoKeys DEF Filed
  <2> QED
    BY <1>4, <2>1, <2>2
<1>9. ASSUME NEW k \in DOMAIN P
      PROVE  \E c \in DOMAIN agg' : \E i \in DOMAIN agg'[c].items :
               /\ k = <<c, i>> /\ agg'[c].items[i] \in Promise
               /\ \/ P[k] = OnList(agg'[c].items[i])
                  \/ \E j \in 1 .. Len(T) : /\ P[k] = OnStack(j) /\ T[j].k = "drain"
                                            /\ T[j].p = agg'[c].items[i]
  <2>1. PICK c \in DOMAIN agg : \E i \in DOMAIN agg[c].items :
               /\ k = <<c, i>> /\ agg[c].items[i] \in Promise
               /\ \/ P[k] = OnList(agg[c].items[i])
                  \/ \E j \in 1 .. Len(ctl) : /\ P[k] = OnStack(j) /\ ctl[j].k = "drain"
                                              /\ ctl[j].p = agg[c].items[i]
    BY <1>9 DEF Ledger
  <2>2. PICK i \in DOMAIN agg[c].items :
               /\ k = <<c, i>> /\ agg[c].items[i] \in Promise
               /\ \/ P[k] = OnList(agg[c].items[i])
                  \/ \E j \in 1 .. Len(ctl) : /\ P[k] = OnStack(j) /\ ctl[j].k = "drain"
                                              /\ ctl[j].p = agg[c].items[i]
    BY <2>1
  <2>3. /\ c \in DOMAIN agg' /\ i \in DOMAIN agg'[c].items
        /\ agg'[c].items[i] = agg[c].items[i]
    BY <2>2, PromiseAssumption DEF AggregatesGoOn
  <2>4. \A j : P[k] = OnStack(j) => j \in 1 .. Len(T) /\ T[j].k = ctl[j].k /\ T[j].p = ctl[j].p
    BY <1>2, <1>4, <1>6
  <2> QED
    BY <2>2, <2>3, <2>4
<1>10. \A q \in Promise : Filed(reactions[q], OnList(q), P)'
  BY <1>7 DEF Filed
<1>11. \A j \in 1 .. Len(T) : Filed(T[j].todo, OnStack(j), P)'
  BY <1>8 DEF Filed
<1> QED
  BY <1>3, <1>9, <1>10, <1>11 DEF Ledger

----------------------------------------------------------------------------
(* What a step leaves alone of the aggregations.                           *)

\* An account stays as long as its aggregation, its inputs and its work do.
LEMMA AccountStays ==
  ASSUME TypeOK, NEW c \in DOMAIN agg, NEW P, Account(c, P),
         c \in DOMAIN agg', agg'[c] = agg[c], NEW q, Turns(q), q # c,
         NEW P2, \A i \in DOMAIN agg[c].items : <<c, i>> \in DOMAIN P2 <=> <<c, i>> \in DOMAIN P,
         \A k \in WorkKinds : Posts(c, k)' = Posts(c, k),
         \A j \in Posts(c, "build") : ctl'[j].at = ctl[j].at
  PROVE  Account(c, P2)'
<1>1. c \in Promise /\ state'[c] = state[c] /\ value'[c] = value[c]
  BY DEF TypeOK, Turns
<1>2. Claims(c, P2)' = Claims(c, P)
  BY DEF Claims
<1>3. \A y \in Promise : state[y] \in Final => state'[y] = state[y] /\ value'[y] = value[y]
  BY NatFacts DEF Turns
<1>4. ASSUME NEW i \in DOMAIN agg[c].items, Stored(c, i) PROVE Stored(c, i)'
  BY <1>3, <1>4 DEF Stored
<1>5. Failed(c) => Failed(c)'
  BY <1>1, <1>3 DEF Failed, Final
<1>6. /\ Posts(c, "release")' = Posts(c, "release") /\ Posts(c, "build")' = Posts(c, "build")
      /\ Posts(c, "built")' = Posts(c, "built")
  BY DEF WorkKinds
<1> QED
  BY <1>1, <1>2, <1>4, <1>5, <1>6 DEF Account

\* The running activation is no work of an aggregation, nor the drain of one's
\* result.
Idles ==
  ctl # <<>> => /\ Top.k \notin {"build", "built", "release", "enter"}
                /\ Top.k = "drain" => Top.todo # <<>>

\* Activations that are no work may come and go.
LEMMA PostsStay ==
  ASSUME NEW H, NEW U, Inv(H, U), AggsAlone, NEW b, NEW S, Going(S, b), ctl # <<>> => Top.k \notin WorkKinds,
         ctl' = S \/ \E a \in Activation : ctl' = Append(S, a) /\ a.todo = <<>> /\ a.k \notin WorkKinds,
         NEW c, NEW k \in WorkKinds
  PROVE  Posts(c, k)' = Posts(c, k) /\ \A j \in Posts(c, k) : ctl'[j].at = ctl[j].at
<1>1. /\ S \in Seq(Activation) /\ Len(S) \in Nat /\ Len(ctl) \in Nat
      /\ \/ Len(S) = Len(ctl)
         \/ /\ Len(S) = Len(ctl) - 1 /\ ctl # <<>>
            /\ Top = ctl[Len(ctl)]
      /\ \A j \in 1 .. Len(S) :
              /\ j \in 1 .. Len(ctl) /\ S[j].k = ctl[j].k /\ S[j].p = ctl[j].p
              /\ S[j] = ctl[j] \/ (j = Len(ctl) /\ ctl[j] = Top /\ ctl # <<>>)
  <2>1. \A j : j \in 1 .. Len(ctl) => ctl # <<>>
    <3>1. Len(<<>>) = 0
      OBVIOUS
    <3> QED
      BY <3>1
  <2> QED
    BY <2>1, GoingFacts
<1>2. PICK T : T = ctl'
  OBVIOUS
<1>3. /\ \A j \in 1 .. Len(S) : j \in 1 .. Len(T) /\ T[j] = S[j]
      /\ \A j \in 1 .. Len(T) : j \in 1 .. Len(S) \/ (j = Len(S) + 1 /\ T[j].k \notin WorkKinds)
  <2>1. CASE ctl' = S
    BY <1>2, <2>1
  <2>2. CASE \E a \in Activation : ctl' = Append(S, a) /\ a.k \notin WorkKinds
    <3>1. PICK a \in Activation : ctl' = Append(S, a) /\ a.k \notin WorkKinds
      BY <2>2
    <3>2. /\ Len(T) = Len(S) + 1 /\ \A j \in 1 .. Len(S) : T[j] = S[j]
          /\ T[Len(S) + 1] = a
      BY <1>1, <1>2, <3>1, PushedType
    <3> QED
      BY <1>1, <3>1, <3>2
  <2> QED
    BY <2>1, <2>2
<1>4. ASSUME NEW j PROVE j \in Posts(c, k)' <=> j \in Posts(c, k)
  <2>1. j \in Posts(c, k)' <=> j \in 1 .. Len(T) /\ T[j].k = k /\ T[j].p = c
    BY <1>2 DEF Posts, PostsIn
  <2>2. j \in Posts(c, k) <=> j \in 1 .. Len(ctl) /\ ctl[j].k = k /\ ctl[j].p = c
    BY DEF Posts, PostsIn
  <2>3. ASSUME j \in 1 .. Len(T), T[j].k = k, T[j].p = c PROVE j \in Posts(c, k)
    BY <1>1, <1>3, <2>2, <2>3
  <2>4. ASSUME j \in Posts(c, k) PROVE j \in Posts(c, k)'
    <3>1. j \in 1 .. Len(S)
      BY <1>1, <2>2, <2>4
    <3> QED
      BY <1>1, <1>3, <2>1, <2>2, <2>4, <3>1
  <2> QED
    BY <2>1, <2>3, <2>4
<1>5. ASSUME NEW j \in Posts(c, k) PROVE ctl'[j].at = ctl[j].at
  <2>1. j \in 1 .. Len(ctl) /\ ctl[j].k = k /\ ctl[j].k \in WorkKinds
    BY DEF Posts, PostsIn
  <2>2. j \in 1 .. Len(S)
    BY <1>1, <2>1
  <2>3. ctl[j] # Top \/ ctl = <<>>
    BY <2>1
  <2>4. S[j] = ctl[j]
    BY <1>1, <2>2, <2>3
  <2> QED
    BY <1>2, <1>3, <2>2, <2>4
<1> QED
  BY <1>4, <1>5

\* While something else runs, no work is unfinished under it but as the host allows.
LEMMA NoWork ==
  ASSUME NEW H, NEW U, Inv(H, U), BuildsAlone, Idles
  PROVE  /\ script.inline => \A j \in 1 .. Len(ctl) : ~Works(ctl[j])
         /\ ~script.inline => \A j \in 1 .. Len(ctl) : ctl[j].k # "release"
<1>1. TypeOK /\ Len(ctl) \in Nat
  BY InvFacts, LenProperties DEF TypeOK
<1>2. \A j : j \in 1 .. Len(ctl) => ctl # <<>> /\ Top = ctl[Len(ctl)]
  <2>1. Len(<<>>) = 0
    OBVIOUS
  <2> QED
    BY <2>1 DEF Top
<1> QED
  BY <1>1, <1>2 DEF BuildsAlone, Idles, Works

\* The work of the next stack, T.
LEMMA BuildsAre ==
  ASSUME NEW T, T = ctl',
         \A i, j \in 1 .. Len(T) : Works(T[i]) /\ Works(T[j]) /\ T[i].p = T[j].p => i = j,
         script'.inline => \A j \in 1 .. Len(T) : Works(T[j]) =>
           /\ \/ j = Len(T)
              \/ /\ j = Len(T) - 1 /\ T[Len(T)].k \in {"enter", "drain"}
                 /\ T[Len(T)].p = T[j].p /\ T[Len(T)].todo = <<>>
           /\ reactions'[T[j].p] = <<>>
           /\ \A i \in DOMAIN agg'[T[j].p].items : agg'[T[j].p].items[i] # T[j].p,
         ~script'.inline => \A j \in 1 .. Len(T) : T[j].k = "release" =>
           j = 2 /\ Len(T) = 2 /\ T[1].k = "drain"
  PROVE  BuildsAlone'
BY DEF BuildsAlone, Works, Top

\* So BuildsAlone is kept by such a step.
LEMMA BuildsPlain ==
  ASSUME NEW H, NEW U, Inv(H, U), AggsAlone, BuildsAlone, Idles,
         NEW b, NEW S, Going(S, b),
         ctl' = S \/ \E a \in Activation : ctl' = Append(S, a) /\ a.todo = <<>> /\ a.k \notin WorkKinds,
         script'.inline = script.inline
  PROVE  BuildsAlone'
<1>1. \A c, k : k \in WorkKinds => Posts(c, k)' = Posts(c, k)
  <2>1. ctl # <<>> => Top.k \notin WorkKinds
    BY DEF Idles, WorkKinds
  <2> QED
    BY <2>1, PostsStay
<1>2. PICK T : T = ctl'
  OBVIOUS
<1>3. \A j \in 1 .. Len(T) : T[j].k \in WorkKinds =>
        j \in 1 .. Len(ctl) /\ ctl[j].k = T[j].k /\ ctl[j].p = T[j].p
  <2> SUFFICES ASSUME NEW j \in 1 .. Len(T), T[j].k \in WorkKinds
               PROVE  j \in 1 .. Len(ctl) /\ ctl[j].k = T[j].k /\ ctl[j].p = T[j].p
    OBVIOUS
  <2>1. j \in Posts(T[j].p, T[j].k)'
    BY <1>2 DEF Posts, PostsIn
  <2>2. j \in Posts(T[j].p, T[j].k)
    BY <1>1, <2>1
  <2> QED
    BY <2>2 DEF Posts, PostsIn
<1>4. /\ script.inline => \A j \in 1 .. Len(T) : ~Works(T[j])
      /\ ~script.inline => \A j \in 1 .. Len(T) : T[j].k # "release"
  BY <1>3, NoWork DEF Works, WorkKinds
<1>5. \A i, j \in 1 .. Len(T) : Works(T[i]) /\ Works(T[j]) /\ T[i].p = T[j].p => i = j
  BY <1>3 DEF BuildsAlone, Works, WorkKinds
<1> QED
  BY <1>2, <1>4, <1>5 DEF BuildsAlone, Works

----------------------------------------------------------------------------
(* A step that leaves the aggregations as they are.                        *)

\* The stack is S, or S with an activation that just began.
Atop(S) ==
  \/ ctl' = S
  \/ \E a \in Activation : /\ ctl' = Append(S, a) /\ a.todo = <<>>
                           /\ a.k \notin WorkKinds /\ Lone(a)'

\* A step that is no work of an aggregation keeps the whole.
LEMMA CalmWhole ==
  ASSUME NEW H, NEW U, Inv(H, U), TypeOK', NEW P, Whole(P), agg' = agg, SameScript,
         ctl # <<>> => Top.k \notin WorkKinds, BuildsAlone',
         NEW b, NEW S, Going(S, b), Atop(S),
         \A y \in Promise :
           \/ reactions'[y] = reactions[y]
           \/ \E r \in Reaction : /\ reactions'[y] = Append(reactions[y], r)
                                  /\ ~IsKept(r) /\ Theirs(r)',
         NEW q, Turns(q), q \notin DOMAIN agg, open' \cap DOMAIN agg = {},
         NEW x, Yields(S, b, x), \A p \in open : p # x => p \in open',
         \A p \in Promise : p # x /\ state'[p] = "PENDING" => state[p] = "PENDING",
         "any" \notin script.may /\ x \in Promise /\ state'[x] = "PENDING" => Backed(x)'
  PROVE  Whole(P)'
<1>1. AggsAlone /\ BuildsAlone /\ Ledger(P) /\ AllBacked /\ \A c \in DOMAIN agg : Account(c, P)
  BY DEF Whole, Accounts
<1>2. TypeOK /\ AllLone(S) /\ StillBacks(S, x)
  BY <1>1, InvFacts, GoingFacts, YieldsBacks
<1>3. \/ ctl' = S
      \/ \E a \in Activation : ctl' = Append(S, a) /\ a.todo = <<>> /\ a.k \notin WorkKinds
  BY DEF Atop
<1>4. AggsAlone'
  <2>1. ctl' = S \/ \E a \in Activation : ctl' = Append(S, a) /\ Lone(a)'
    BY DEF Atop
  <2>2. \A y \in Promise :
           \/ reactions'[y] = reactions[y]
           \/ reactions'[y] = <<>>
           \/ \E r \in Reaction : reactions'[y] = Append(reactions[y], r) /\ Theirs(r)'
    OBVIOUS
  <2>3. open' \cap DOMAIN agg' = {} /\ \A c \in DOMAIN agg' : c \in DOMAIN agg \/ c \notin Born
    OBVIOUS
  <2> QED
    BY <1>1, <1>2, <2>1, <2>2, <2>3, LoneStep
<1>5. AllBacked'
  <2>1. ctl' = S \/ \E a \in Activation : ctl' = Append(S, a)
    BY <1>3
  <2>2. \A y \in Promise :
           \/ reactions'[y] = reactions[y]
           \/ reactions'[y] = <<>> /\ \E j \in 1 .. Len(S) : S[j].todo = reactions[y]
           \/ \E r \in Reaction : reactions'[y] = Append(reactions[y], r)
    OBVIOUS
  <2>3. script'.may = script.may /\ DOMAIN agg \subseteq DOMAIN agg'
    BY DEF SameScript
  <2> QED
    BY <1>1, <1>2, <2>1, <2>2, <2>3, BackedStep
<1>6. Ledger(P)'
  <2>1. AggregatesGoOn
    BY DEF AggregatesGoOn
  <2>2. ctl' = S \/ \E a \in Activation : ctl' = Append(S, a) /\ a.todo = <<>>
    BY <1>3
  <2>3. \A y \in Promise :
           \/ reactions'[y] = reactions[y]
           \/ \E r \in Reaction : reactions'[y] = Append(reactions[y], r) /\ ~IsKept(r)
    OBVIOUS
  <2> QED
    BY <1>1, <2>1, <2>2, <2>3, LedgerPlain
<1>7. ASSUME NEW c \in DOMAIN agg PROVE Account(c, P)'
  <2>1. \A k \in WorkKinds : /\ Posts(c, k)' = Posts(c, k)
                             /\ \A j \in Posts(c, k) : ctl'[j].at = ctl[j].at
    BY <1>1, <1>3, PostsStay
  <2>2. /\ \A k \in WorkKinds : Posts(c, k)' = Posts(c, k)
        /\ \A j \in Posts(c, "build") : ctl'[j].at = ctl[j].at
    BY <2>1 DEF WorkKinds
  <2>3. Account(c, P) /\ q # c
    BY <1>1
  <2> QED
    BY <1>2, <2>2, <2>3, AccountStays
<1>8. Accounts(P)'
  <2>1. \A c \in DOMAIN agg' : Account(c, P)'
    BY <1>7
  <2> QED
    BY <1>6, <2>1 DEF Accounts
<1> QED
  BY <1>4, <1>5, <1>8 DEF Whole

\* The same, when what runs keeps the work apart.
LEMMA PlainWhole ==
  ASSUME NEW H, NEW U, Inv(H, U), TypeOK', NEW P, Whole(P), Idles, agg' = agg, SameScript,
         NEW b, NEW S, Going(S, b), Atop(S),
         \A y \in Promise :
           \/ reactions'[y] = reactions[y]
           \/ \E r \in Reaction : /\ reactions'[y] = Append(reactions[y], r)
                                  /\ ~IsKept(r) /\ Theirs(r)',
         NEW q, Turns(q), q \notin DOMAIN agg, open' \cap DOMAIN agg = {},
         NEW x, Yields(S, b, x), \A p \in open : p # x => p \in open',
         \A p \in Promise : p # x /\ state'[p] = "PENDING" => state[p] = "PENDING",
         "any" \notin script.may /\ x \in Promise /\ state'[x] = "PENDING" => Backed(x)'
  PROVE  Whole(P)'
<1>1. BuildsAlone'
  <2>1. \/ ctl' = S
        \/ \E a \in Activation : ctl' = Append(S, a) /\ a.todo = <<>> /\ a.k \notin WorkKinds
    BY DEF Atop
  <2> QED
    BY <2>1, BuildsPlain DEF Whole, SameScript
<1>2. ctl # <<>> => Top.k \notin WorkKinds
  BY DEF Idles, WorkKinds
<1> QED
  BY <1>1, <1>2, CalmWhole

\* Script code and drains are called on top of S.
LEMMA BegunAtop ==
  ASSUME NEW S, NEW k \in {"main", "executor", "then", "handler", "enter"},
         NEW p \in Promise \cup {None},
         k \in {"executor", "then", "handler"} => p \notin DOMAIN agg',
         ctl' = Append(S, Active(k, p))
  PROVE  Atop(S)
<1>1. PICK a : a = Active(k, p)
  OBVIOUS
<1>2. a \in Activation /\ a.k = k /\ a.p = p /\ a.todo = <<>> /\ Len(a.todo) = 0
  BY <1>1, FreshActivation
<1>3. Lone(a)'
  BY <1>2 DEF Lone
<1> QED
  BY <1>1, <1>2, <1>3 DEF Atop, WorkKinds

\* The drain of p is scheduled, or nothing is.
LEMMA ScheduleAtop ==
  ASSUME NEW S, NEW p \in Promise, NEW R, Schedule(p, R, S)
  PROVE  Atop(S)
<1>1. ctl' = S \/ ctl' = Append(S, Active("enter", p))
  BY DEF Schedule, Keep
<1> QED
  BY <1>1, BegunAtop DEF Atop

\* A step that only goes on with the stack.
LEMMA RestWhole ==
  ASSUME NEW H, NEW U, Inv(H, U), TypeOK', NEW P, Whole(P), Idles, agg' = agg, SameScript,
         NEW b, NEW S, Going(S, b), Atop(S), UNCHANGED promiseVars,
         NEW x, Yields(S, b, x),
         "any" \notin script.may /\ x \in Promise /\ state[x] = "PENDING" => Backed(x)'
  PROVE  Whole(P)'
<1>1. /\ state' = state /\ value' = value /\ reactions' = reactions /\ open' = open
  BY DEF promiseVars
<1>2. Turns(None) /\ None \notin DOMAIN agg
  BY <1>1, InvFacts, NatFacts DEF Turns, TypeOK
<1>3. open' \cap DOMAIN agg = {}
  BY <1>1 DEF Whole, AggsAlone
<1> QED
  BY <1>1, <1>2, <1>3, PlainWhole

\* p, the result of no aggregation, settles.
LEMMA ConcludeWhole ==
  ASSUME NEW H, NEW U, Inv(H, U), TypeOK', NEW P, Whole(P), Idles, agg' = agg, SameScript,
         NEW b, NEW S, Going(S, b), NEW p \in Promise, p \notin DOMAIN agg,
         state[p] = "PENDING", NEW st \in Final, NEW v, NEW src, Conclude(p, st, v, src, S),
         Yields(S, b, p)
  PROVE  Whole(P)'
<1>1. /\ state' = [state EXCEPT ![p] = st] /\ value' = [value EXCEPT ![p] = v]
      /\ reactions' = reactions /\ open' = open /\ Schedule(p, {}, S)
  BY DEF Conclude, Settle
<1>2. TypeOK
  BY InvFacts
<1>3. Turns(p) /\ state'[p] # "PENDING"
  BY <1>1, <1>2 DEF Turns, TypeOK, Final
<1>4. Atop(S)
  BY <1>1, ScheduleAtop
<1>5. open' \cap DOMAIN agg = {}
  BY <1>1 DEF Whole, AggsAlone
<1>6. \A y \in Promise : y # p /\ state'[y] = "PENDING" => state[y] = "PENDING"
  BY <1>3 DEF Turns
<1> QED
  BY <1>1, <1>3, <1>4, <1>5, <1>6, PlainWhole

\* p, the result of no aggregation, waits for x.
LEMMA AdoptWhole ==
  ASSUME NEW H, NEW U, Inv(H, U), TypeOK', NEW P, Whole(P), Idles, agg' = agg, SameScript,
         NEW b, NEW S, Going(S, b), NEW p \in Promise, p \notin DOMAIN agg,
         NEW x \in Promise \cup {Thenable}, Adopt(p, x, S), Yields(S, b, p)
  PROVE  Whole(P)'
<1>1. TypeOK /\ Thenable \notin Promise /\ open \cap DOMAIN agg = {} /\ None \notin DOMAIN agg
  BY InvFacts, NatFacts, PromiseAssumption DEF Whole, AggsAlone, TypeOK
<1>2. state' = state /\ value' = value
  BY DEF Adopt
<1>3. Turns(None)
  BY <1>2 DEF Turns
<1>4. CASE x \in Promise
  <2>1. PICK r : r = [onF |-> Calls("resolve", p, 0), onR |-> Calls("reject", p, 0), np |-> None]
    OBVIOUS
  <2>2. ThenOn(x, r, {p}, S) /\ open' = open \ {p}
    BY <1>1, <1>4, <2>1 DEF Adopt
  <2>3. r \in Reaction /\ r.np = None /\ r.onF.do = "resolve" /\ r.onF.to = p
    BY <1>1, <2>1 DEF Reaction, Handler, Calls
  <2>4. ~IsKept(r) /\ Theirs(r)' /\ Points(r, p)'
    BY <1>1, <2>3 DEF IsKept, Theirs, Points
  <2>5. reactions' = [reactions EXCEPT ![x] = Append(@, r)]
    BY <2>2 DEF ThenOn
  <2>6. \A y \in Promise :
           \/ reactions'[y] = reactions[y]
           \/ \E e \in Reaction : /\ reactions'[y] = Append(reactions[y], e)
                                  /\ ~IsKept(e) /\ Theirs(e)'
    BY <1>1, <1>4, <2>3, <2>4, <2>5 DEF TypeOK
  <2>7. Atop(S)
    BY <1>4, <2>2, ScheduleAtop DEF ThenOn, Keep, Atop
  <2>8. Backed(p)'
    <3>1. PICK s, t : s = reactions[x] /\ t = reactions'[x]
      OBVIOUS
    <3>2. s \in Seq(Reaction) /\ t = Append(s, r)
      BY <1>1, <1>4, <2>5, <3>1 DEF TypeOK
    <3>3. Len(t) = Len(s) + 1 /\ Len(s) \in Nat /\ t[Len(s) + 1] = r
      BY <2>3, <3>2, PushedType
    <3>4. Len(s) + 1 \in 1 .. Len(t)
      BY <3>3
    <3>5. \E i \in 1 .. Len(t) : Points(t[i], p)'
      BY <2>4, <3>3, <3>4 DEF Points
    <3> QED
      BY <1>4, <3>1, <3>5 DEF Backed, Points
  <2>9. \A y \in open : y # p => y \in open'
    BY <2>2
  <2>10. open' \cap DOMAIN agg = {}
    BY <1>1, <2>2
  <2> QED
    BY <1>1, <1>2, <1>3, <2>6, <2>7, <2>8, <2>9, <2>10, PlainWhole
<1>5. CASE x = Thenable
  <2>1. /\ ctl' = Append(S, Active("then", p)) /\ open' = open \cup {p} /\ reactions' = reactions
    BY <1>1, <1>5 DEF Adopt, Keep
  <2>2. Atop(S)
    BY <2>1, BegunAtop
  <2>3. Backed(p)' /\ open' \cap DOMAIN agg = {}
    BY <1>1, <2>1 DEF Backed
  <2> QED
    BY <1>1, <1>2, <1>3, <2>1, <2>2, <2>3, PlainWhole
<1> QED
  BY <1>4, <1>5

----------------------------------------------------------------------------
(* The steps of script code but for a call of all.                         *)

\* Script code is no work of an aggregation.
LEMMA ScriptIdles ==
  ASSUME NEW H, NEW U, Inv(H, U), NEW op, InScript(op)
  PROVE  /\ Idles /\ SameScript /\ ctl # <<>> /\ op \in script.may
         /\ \A b : Going(ctl, b) /\ \A x : Yields(ctl, b, x)
<1>1. ctl # <<>> /\ Top.k \in ScriptKinds /\ SameScript /\ op \in script.may
  BY ScriptFacts
<1> QED
  BY <1>1 DEF Idles, ScriptKinds, Going, Yields

\* Script calls a resolve or reject function.
LEMMA CallWhole ==
  ASSUME NEW H, NEW U, Inv(H, U), TypeOK', NEW P, Whole(P), Resolve \/ Reject
  PROVE  Whole(P)'
<1>1. /\ TypeOK /\ Numbered /\ Born \subseteq Promise /\ None \notin Promise /\ agg' = agg
      /\ open \cap DOMAIN agg = {} /\ open \subseteq Promise
  BY InvFacts, NatFacts DEF Resolve, Reject, Whole, AggsAlone, TypeOK
<1>2. PICK S : S = ctl
  OBVIOUS
<1>3. Idles /\ SameScript /\ \A b : Going(S, b) /\ \A x : Yields(S, b, x)
  BY <1>2, ScriptIdles DEF Resolve, Reject
<1>4. \E p \in open : \E v \in Val \cup known \cup {Thenable} :
        v # p /\ (ResolveCb(p, v, S) \/ RejectCb(p, v, S))
  <2>1. \A v \in Val : v \notin Promise
    BY PromiseAssumption
  <2> QED
    BY <1>1, <1>2, <2>1 DEF Resolve, Reject
<1>5. PICK p \in open, v \in Val \cup known \cup {Thenable} :
        ResolveCb(p, v, S) \/ RejectCb(p, v, S)
  BY <1>4
<1>6. p \in Promise /\ p \notin DOMAIN agg
  BY <1>1
<1>7. CASE Skip(S)
  <2>1. UNCHANGED promiseVars /\ Atop(S)
    BY <1>7 DEF Skip, Keep, Atop
  <2> QED
    BY <1>1, <1>3, <2>1, RestWhole
<1>8. CASE Adoptable(v, p) /\ Adopt(p, v, S)
  <2>1. v \in Promise \cup {Thenable}
    BY <1>8 DEF Adoptable
  <2> QED
    BY <1>1, <1>3, <1>6, <1>8, <2>1, AdoptWhole
<1>9. CASE \E st \in Final : state[p] = "PENDING" /\ Conclude(p, st, v, None, S)
  BY <1>1, <1>3, <1>6, <1>9, ConcludeWhole
<1> QED
  BY <1>5, <1>7, <1>8, <1>9 DEF ResolveCb, RejectCb, Final

\* A promise that is made was not there before.
LEMMA FreshTurns ==
  ASSUME NEW H, NEW U, Inv(H, U), TypeOK', NEW st, NEW v, MakeFresh(st, v), NEW f, f = Fresh
  PROVE  /\ f \in Promise /\ f # None /\ f \notin Born /\ f \notin DOMAIN agg /\ f \notin open
         /\ f \notin known /\ born' = f /\ Turns(f) /\ state'[f] = st /\ value'[f] = v
         /\ state[f] = "UNBORN" /\ reactions[f] = <<>>
<1>1. TypeOK /\ Numbered /\ born \in Nat /\ None \notin Promise /\ AggregatesProper
  BY InvFacts, NatFacts
<1>2. f = born + 1 /\ born' = f
  BY <1>1 DEF MakeFresh, Fresh
<1>3. f \in Promise /\ f \notin Born /\ f # None
  BY <1>1, <1>2 DEF TypeOK, Born, None
<1>4. state' = [state EXCEPT ![f] = st] /\ value' = [value EXCEPT ![f] = v]
  BY DEF MakeFresh, Settle
<1>5. state[f] = "UNBORN" /\ reactions[f] = <<>>
  BY <1>1, <1>2, <1>3 DEF Numbered
<1>6. f \notin DOMAIN agg
  BY <1>1, <1>3 DEF AggregatesProper
<1> QED
  BY <1>1, <1>2, <1>3, <1>4, <1>5, <1>6 DEF Numbered, Turns, TypeOK, Final

\* A step of script code that makes promise f.
LEMMA MakeWhole ==
  ASSUME NEW H, NEW U, Inv(H, U), TypeOK', NEW P, Whole(P), agg' = agg,
         NEW op, InScript(op), NEW st, NEW v, MakeFresh(st, v), NEW f, f = Fresh,
         open \subseteq open', open' \subseteq open \cup {f}, NEW S, S = ctl, Atop(S),
         \A y \in Promise :
           \/ reactions'[y] = reactions[y]
           \/ \E r \in Reaction : /\ reactions'[y] = Append(reactions[y], r)
                                  /\ ~IsKept(r) /\ Theirs(r)',
         "any" \notin script.may /\ st = "PENDING" => Backed(f)'
  PROVE  Whole(P)'
<1>1. /\ f \in Promise /\ f \notin DOMAIN agg /\ Turns(f) /\ state'[f] = st
  BY FreshTurns
<1>2. Idles /\ SameScript /\ \A b : Going(S, b) /\ \A x : Yields(S, b, x)
  BY ScriptIdles
<1>3. open' \cap DOMAIN agg = {}
  BY <1>1 DEF Whole, AggsAlone
<1>4. \A y \in Promise : y # f /\ state'[y] = "PENDING" => state[y] = "PENDING"
  BY <1>1 DEF Turns
<1> QED
  BY <1>1, <1>2, <1>3, <1>4, PlainWhole

\* The script steps that make a promise.
LEMMA MakesWhole ==
  ASSUME NEW H, NEW U, Inv(H, U), TypeOK', NEW P, Whole(P),
         WithResolvers \/ Construct \/ MakeSettled \/ MakeAdopting \/ Race \/ AnyOf
  PROVE  Whole(P)'
<1>1. PICK f, S : f = Fresh /\ S = ctl
  OBVIOUS
<1>2. /\ reactions' = reactions /\ open \subseteq open' /\ open' \subseteq open \cup {f}
      /\ agg' = agg
  BY <1>1 DEF WithResolvers, Construct, MakeSettled, MakeAdopting, Race, AnyOf
<1>3. PICK op, st, v : InScript(op) /\ MakeFresh(st, v)
  BY DEF WithResolvers, Construct, MakeSettled, MakeAdopting, Race, AnyOf
<1>4. /\ f \in Promise /\ f \notin DOMAIN agg /\ state'[f] = st /\ f # None
  BY <1>1, <1>3, FreshTurns
<1>5. CASE WithResolvers \/ Construct \/ MakeAdopting
  <2>1. Backed(f)'
    BY <1>1, <1>5 DEF WithResolvers, Construct, MakeAdopting, Backed
  <2>2. CASE WithResolvers
    <3>1. Atop(S)
      BY <1>1, <2>2 DEF WithResolvers, Keep, Atop
    <3> QED
      BY <1>1, <1>2, <1>3, <2>1, <3>1, MakeWhole
  <2>3. CASE Construct \/ MakeAdopting
    <3>1. PICK k \in {"executor", "then"} : ctl' = Append(S, Active(k, f))
      BY <1>1, <2>3 DEF Construct, MakeAdopting, Keep
    <3>2. Atop(S)
      BY <1>2, <1>4, <3>1, BegunAtop
    <3> QED
      BY <1>1, <1>2, <1>3, <2>1, <3>2, MakeWhole
  <2> QED
    BY <1>5, <2>2, <2>3
<1>6. CASE MakeSettled \/ AnyOf
  <2>1. Atop(S)
    BY <1>1, <1>6 DEF MakeSettled, AnyOf, Keep, Atop
  <2>2. "any" \in script.may \/ state'[f] # "PENDING"
    <3>1. CASE AnyOf
      BY <3>1, ScriptIdles DEF AnyOf
    <3>2. CASE MakeSettled
      <4>1. PICK w \in Val, so \in {"FULFILLED", "REJECTED"} : MakeFresh(so, w)
        BY <3>2 DEF MakeSettled
      <4>2. state'[f] = so
        BY <1>1, <4>1, FreshTurns
      <4> QED
        BY <4>2
    <3> QED
      BY <1>6, <3>1, <3>2
  <2> QED
    BY <1>1, <1>2, <1>3, <1>4, <2>1, <2>2, MakeWhole
<1>7. CASE Race
  <2>1. PICK items \in Items : ctl' = Append(S, [Active("race", f) EXCEPT !.items = items])
    BY <1>1, <1>7 DEF Race, Keep
  <2>2. PICK a : a = [Active("race", f) EXCEPT !.items = items]
    OBVIOUS
  <2>3. a.k = "race" /\ a.p = f /\ a.todo = <<>> /\ a.at = 1 /\ a.items = items /\ Len(a.todo) = 0
    BY <2>2 DEF Active
  <2>4. a \in Activation /\ items # <<>>
    <3>1. Active("race", f) \in Activation /\ items \in Seq(AnyVal \cup Promise) /\ Len(items) = 2
      BY <1>4, FreshActivation, ItemsFacts
    <3>2. a \in Activation
      BY <2>2, <3>1 DEF Activation
    <3>3. items # <<>>
      BY <3>1, EmptySeq
    <3> QED
      BY <3>2, <3>3
  <2>5. Lone(a)'
    BY <1>2, <1>4, <2>3 DEF Lone
  <2>6. Atop(S)
    BY <2>1, <2>2, <2>3, <2>4, <2>5 DEF Atop, WorkKinds
  <2>7. Backed(f)'
    <3>1. PICK T : T = ctl'
      OBVIOUS
    <3>2. S \in Seq(Activation)
      BY <1>1, InvFacts DEF TypeOK
    <3>3. Len(S) + 1 \in 1 .. Len(T) /\ T[Len(S) + 1] = a
      BY <2>1, <2>2, <2>4, <3>1, <3>2, PushedType
    <3>4. BackedOn(T[Len(S) + 1], f)'
      BY <2>3, <2>4, <3>3 DEF BackedOn
    <3> QED
      BY <3>1, <3>3, <3>4 DEF Backed
  <2> QED
    BY <1>1, <1>2, <1>3, <2>6, <2>7, MakeWhole
<1> QED
  BY <1>5, <1>6, <1>7

\* Script calls then.
LEMMA ThenWhole ==
  ASSUME NEW H, NEW U, Inv(H, U), TypeOK', NEW P, Whole(P), Then
  PROVE  Whole(P)'
<1>1. PICK f, S : f = Fresh /\ S = ctl
  OBVIOUS
<1>2. /\ InScript("then") /\ MakeFresh("PENDING", NoVal) /\ open' = open /\ agg' = agg
      /\ TypeOK
  BY InvFacts DEF Then
<1>3. PICK p \in known, g \in {Js, NoHandler}, h \in {Js, NoHandler} :
          ThenOn(p, [onF |-> g, onR |-> h, np |-> f], {}, S)
  BY <1>1 DEF Then
<1>4. PICK r : r = [onF |-> g, onR |-> h, np |-> f]
  OBVIOUS
<1>5. /\ f \in Promise /\ f \notin DOMAIN agg /\ p \in Promise
  BY <1>1, <1>2, FreshTurns DEF TypeOK
<1>6. r \in Reaction /\ r.np = f /\ r.onF.do \notin {"resolve", "kept"}
  BY <1>4, <1>5 DEF Reaction, Handler, Js, NoHandler, Calls, None
<1>7. ~IsKept(r) /\ Theirs(r)' /\ Points(r, f)'
  BY <1>2, <1>5, <1>6 DEF IsKept, Theirs, Points
<1>8. reactions' = [reactions EXCEPT ![p] = Append(@, r)]
  BY <1>3, <1>4 DEF ThenOn
<1>9. \A y \in Promise :
        \/ reactions'[y] = reactions[y]
        \/ \E e \in Reaction : /\ reactions'[y] = Append(reactions[y], e)
                               /\ ~IsKept(e) /\ Theirs(e)'
  BY <1>2, <1>5, <1>6, <1>7, <1>8 DEF TypeOK
<1>10. Atop(S)
  BY <1>3, <1>5, ScheduleAtop DEF ThenOn, Keep, Atop
<1>11. Backed(f)'
  <2>1. PICK s, t : s = reactions[p] /\ t = reactions'[p]
    OBVIOUS
  <2>2. s \in Seq(Reaction) /\ t = Append(s, r)
    BY <1>2, <1>5, <1>8, <2>1 DEF TypeOK
  <2>3. Len(t) = Len(s) + 1 /\ Len(s) \in Nat /\ t[Len(s) + 1] = r
    BY <1>6, <2>2, PushedType
  <2>4. Len(s) + 1 \in 1 .. Len(t)
    BY <2>3
  <2>5. \E i \in 1 .. Len(t) : Points(t[i], f)'
    BY <1>7, <2>3, <2>4 DEF Points
  <2> QED
    BY <1>5, <2>1, <2>5 DEF Backed, Points
<1> QED
  BY <1>1, <1>2, <1>9, <1>10, <1>11, MakeWhole

----------------------------------------------------------------------------
(* The ends of script code, and race.                                      *)

\* The running activation, when it is no work.
LEMMA TopFacts ==
  ASSUME NEW H, NEW U, Inv(H, U), AggsAlone, ctl # <<>>
  PROVE  /\ TypeOK /\ Top = ctl[Len(ctl)] /\ Len(ctl) \in 1 .. Len(ctl) /\ Len(ctl) \in Nat \ {0}
         /\ Fit(Top) /\ Lone(Top) /\ Top \in Activation
         /\ Top.k # "main" => Top.p \in Born /\ Top.p \in Promise
         /\ Top.k # "drain" => Top.todo = <<>> /\ Len(Top.todo) = 0 /\ Keys(Top.todo) = {}
         /\ \A y : BackedOn(Top, y) => Top.k \in {"handler", "race", "drain"}
         /\ \A y : Top.k \in {"handler", "race"} /\ BackedOn(Top, y) => y = Top.p
<1>1. TypeOK /\ Born \subseteq Promise
  BY InvFacts, NatFacts
<1>2. Top = ctl[Len(ctl)] /\ Len(ctl) \in Nat \ {0} /\ Len(ctl) \in 1 .. Len(ctl)
  BY <1>1, StackType
<1>3. Fit(Top) /\ Lone(Top)
  BY <1>2, FitStack DEF AggsAlone
<1>4. Top.k # "drain" => Top.todo = <<>> /\ Len(Top.todo) = 0 /\ Keys(Top.todo) = {}
  BY <1>3, NoKeys, EmptySeq DEF Fit
<1>5. \A y : BackedOn(Top, y) => \/ Top.k = "drain"
                                 \/ Top.k \in {"handler", "race"} /\ y = Top.p
  BY <1>4 DEF BackedOn
<1> QED
  BY <1>1, <1>2, <1>3, <1>4, <1>5 DEF Fit

\* What is to run when a handler, or code that settles nothing, has ended.
LEMMA BelowGoing ==
  ASSUME NEW H, NEW U, Inv(H, U), AggsAlone, ctl # <<>>, Top.k # "drain"
  PROVE  /\ \A b : Going(Below, b)
         /\ \A b : Yields(Below, b, Top.p)
         /\ Top.k \notin {"handler", "race"} => \A b : Yields(Below, b, None)
<1>1. /\ Keys(Top.todo) = {}
      /\ \A y : BackedOn(Top, y) => Top.k \in {"handler", "race", "drain"}
      /\ \A y : Top.k \in {"handler", "race"} /\ BackedOn(Top, y) => y = Top.p
  BY TopFacts
<1> QED
  BY <1>1 DEF Going, Yields

\* Script code returns or throws.
LEMMA EndsWhole ==
  ASSUME NEW H, NEW U, Inv(H, U), TypeOK', NEW P, Whole(P), EndStep
  PROVE  Whole(P)'
<1>1. /\ TypeOK /\ Numbered /\ Born \subseteq Promise /\ None \notin Promise
      /\ AggsAlone /\ script.inline \in BOOLEAN
  BY InvFacts, NatFacts DEF Whole
<1>2. ctl # <<>> /\ agg' = agg /\ script' = script
      /\ Top.k \in {"main", "executor", "then", "handler"}
  BY DEF EndStep, Ends, MainEnd, ExecutorReturn, ExecutorThrow, ThenReturn, ThenThrow,
     HandlerReturn, HandlerThrow
<1>3. PICK p, S : p = Top.p /\ S = Below
  OBVIOUS
<1>4. /\ \A b : Going(S, b) /\ Yields(S, b, p)
      /\ Top.k # "handler" => \A b : Yields(S, b, None)
      /\ Top.k # "main" => p \in Promise /\ p \in Born /\ p \notin DOMAIN agg
  BY <1>1, <1>2, <1>3, BelowGoing, TopFacts DEF Lone
<1>5. Idles /\ SameScript
  BY <1>2 DEF Idles, SameScript
<1>6. CASE Skip(S) /\ (Top.k = "handler" => state[p] # "PENDING")
  <2>1. Atop(S) /\ UNCHANGED promiseVars
    BY <1>6 DEF Skip, Keep, Atop
  <2>2. CASE Top.k = "handler"
    BY <1>2, <1>4, <1>5, <1>6, <2>1, <2>2, RestWhole
  <2>3. CASE Top.k # "handler"
    BY <1>1, <1>2, <1>4, <1>5, <2>1, <2>3, RestWhole
  <2> QED
    BY <2>2, <2>3
<1>7. CASE /\ Top.k # "main" /\ state[p] = "PENDING"
           /\ \E st \in Final : \E v, src : Conclude(p, st, v, src, S)
  BY <1>2, <1>4, <1>5, <1>7, ConcludeWhole
<1>8. CASE Top.k # "main" /\ \E x \in Promise \cup {Thenable} : Adopt(p, x, S)
  BY <1>2, <1>4, <1>5, <1>8, AdoptWhole
<1>9. CASE ExecutorThrow
  <2>1. /\ Top.k = "executor" /\ reactions' = reactions /\ ctl' = S /\ open' = open
        /\ source' = source
        /\ \E v \in Val : IF state[p] = "PENDING" THEN Settle(p, "REJECTED", v)
                                                  ELSE UNCHANGED <<state, value>>
    BY <1>3, <1>9 DEF ExecutorThrow, Keep, Ends
  <2>2. Atop(S)
    BY <2>1 DEF Atop
  <2>3. CASE state[p] # "PENDING"
    <3>1. UNCHANGED promiseVars
      BY <2>1, <2>3 DEF promiseVars
    <3> QED
      BY <1>1, <1>2, <1>4, <1>5, <2>1, <2>2, <3>1, RestWhole
  <2>4. CASE state[p] = "PENDING"
    <3>1. PICK v \in Val : Settle(p, "REJECTED", v)
      BY <2>1, <2>4
    <3>2. Turns(p) /\ state'[p] # "PENDING"
      BY <1>1, <1>4, <2>1, <2>4, <3>1 DEF Turns, Settle, TypeOK, Final
    <3>3. \A y \in Promise : y # p /\ state'[y] = "PENDING" => state[y] = "PENDING"
      BY <3>2 DEF Turns
    <3>4. open' \cap DOMAIN agg = {}
      BY <1>1, <2>1 DEF AggsAlone
    <3> QED
      BY <1>1, <1>2, <1>4, <1>5, <2>1, <2>2, <3>2, <3>3, <3>4, PlainWhole
  <2> QED
    BY <2>3, <2>4
<1>10. CASE ThenThrow
  BY <1>3, <1>6, <1>7, <1>10 DEF ThenThrow, RejectCb, Ends, Final
<1>11. CASE HandlerReturn \/ HandlerThrow
  <2>1. Top.k = "handler" /\ state[p] = "PENDING"
    <3>1. Top.k = "handler"
      BY <1>11 DEF HandlerReturn, HandlerThrow, Ends
    <3>2. p \in DOMAIN H
      BY <1>2, <1>3, <3>1, StackReady DEF GoodAt
    <3> QED
      BY <3>1, <3>2, InvFacts DEF Owners
  <2>2. CASE HandlerThrow
    BY <1>3, <1>7, <2>1, <2>2 DEF HandlerThrow, Final
  <2>3. CASE HandlerReturn
    <3>1. PICK x : SettleChained(p, x, S)
      BY <1>3, <2>3 DEF HandlerReturn
    <3> QED
      BY <1>7, <1>8, <2>1, <3>1 DEF SettleChained, Waits, Final
  <2> QED
    BY <1>11, <2>2, <2>3
<1>12. CASE MainEnd \/ ExecutorReturn \/ ThenReturn
  BY <1>3, <1>6, <1>12 DEF MainEnd, ExecutorReturn, ThenReturn, Ends
<1> QED
  BY <1>9, <1>10, <1>11, <1>12 DEF EndStep

\* A race looks at its next input, or ends.
LEMMA RaceWhole ==
  ASSUME NEW H, NEW U, Inv(H, U), TypeOK', NEW P, Whole(P), RaceNext \/ RaceEnd
  PROVE  Whole(P)'
<1>1. /\ TypeOK /\ Numbered /\ Born \subseteq Promise /\ None \notin Promise
      /\ AggsAlone /\ open \cap DOMAIN agg = {}
  BY InvFacts, NatFacts DEF Whole, AggsAlone
<1>2. ctl # <<>> /\ agg' = agg /\ script' = script /\ Top.k = "race"
  BY DEF RaceNext, RaceEnd, Racing, Ends
<1>3. PICK p : p = Top.p
  OBVIOUS
<1>4. /\ p \in Promise /\ p \in Born /\ p \notin DOMAIN agg
      /\ \A y : BackedOn(Top, y) => y = p
  BY <1>1, <1>2, <1>3, TopFacts DEF Lone
<1>5. Idles /\ SameScript
  BY <1>2 DEF Idles, SameScript
<1>6. CASE RaceEnd
  <2>1. PICK S : S = Below
    OBVIOUS
  <2>2. Skip(S) /\ (Top.at > Len(Top.items) \/ state[p] # "PENDING")
    <3>1. Top.at \in Nat /\ Len(Top.items) \in Nat
      BY <1>1, <1>2, StackType, LenProperties DEF Activation
    <3> QED
      BY <1>2, <1>3, <1>6, <2>1, <3>1 DEF RaceEnd, Racing, Ends
  <2>3. Atop(S) /\ UNCHANGED promiseVars
    BY <2>2 DEF Skip, Keep, Atop
  <2>4. \A b : Going(S, b) /\ Yields(S, b, p)
    BY <1>1, <1>2, <1>3, <2>1, BelowGoing
  <2>5. CASE state[p] # "PENDING"
    BY <1>2, <1>5, <2>3, <2>4, <2>5, RestWhole
  <2>6. CASE state[p] = "PENDING"
    <3>1. Top.todo = <<>> /\ Len(Top.todo) = 0 /\ Top.items \in Seq(AnyVal \cup Promise)
      BY <1>1, <1>2, TopFacts DEF Activation
    <3>2. Top.items # <<>> => Len(Top.items) \in Nat \ {0}
      BY <3>1, EmptySeq
    <3>3. ~(Top.at = 1 /\ Top.items # <<>>)
      BY <2>2, <2>6, <3>2
    <3>4. \A y : ~BackedOn(Top, y)
      BY <1>2, <3>1, <3>3 DEF BackedOn
    <3>5. \A b : Yields(S, b, None)
      BY <3>4 DEF Yields
    <3> QED
      BY <1>1, <1>2, <1>5, <2>3, <2>4, <3>5, RestWhole
  <2> QED
    BY <2>5, <2>6
<1>7. CASE RaceNext
  <2>1. PICK x, S : x = Racer /\ S = NextItem
    OBVIOUS
  <2>2. /\ Top.at <= Len(Top.items) /\ state[p] = "PENDING"
    BY <1>3, <1>7 DEF RaceNext, Racing
  <2>3. /\ x \in AnyVal \cup Promise /\ (x \in Promise => x \in Born)
    BY <1>2, <2>1, <2>2, NextRaces
  <2>4. PICK b \in Activation :
           /\ b.k = Top.k /\ b.p = Top.p /\ b.todo = Top.todo /\ S = Replaced(b)
    BY <1>1, <1>2, <2>1, NextItemType
  <2>5. Going(S, b) /\ Yields(S, b, p)
    <3>1. Fit(Top) /\ Lone(Top) /\ Top.todo = <<>> /\ Keys(Top.todo) = {}
      BY <1>1, <1>2, TopFacts
    <3>2. Fit(b) /\ Lone(b) /\ OnceEach(b.todo)
      BY <1>2, <2>4, <3>1, NoKeys DEF Fit, Lone
    <3> QED
      BY <1>2, <1>4, <2>4, <3>2 DEF Going, Yields
  <2>6. CASE x = Thenable /\ Adopt(p, Thenable, S)
    BY <1>2, <1>4, <1>5, <2>5, <2>6, AdoptWhole
  <2>7. CASE /\ \E st \in Final : \E v : Settle(p, st, v)
             /\ ctl' = S /\ UNCHANGED <<reactions, source, open>>
    <3>1. PICK st, v : st \in Final /\ Settle(p, st, v)
      BY <2>7
    <3>2. Turns(p) /\ state'[p] # "PENDING"
      BY <1>1, <1>4, <2>2, <3>1 DEF Turns, Settle, TypeOK, Final
    <3>3. \A y \in Promise : y # p /\ state'[y] = "PENDING" => state[y] = "PENDING"
      BY <3>2 DEF Turns
    <3>4. open' \cap DOMAIN agg = {} /\ Atop(S)
      BY <1>1, <2>7 DEF Atop
    <3> QED
      BY <1>2, <1>4, <1>5, <2>5, <2>7, <3>2, <3>3, <3>4, PlainWhole
  <2>8. PICK r : r = [onF |-> NoHandler, onR |-> NoHandler, np |-> p]
    OBVIOUS
  <2>9. CASE /\ x \in Promise /\ reactions' = [reactions EXCEPT ![x] = Append(@, r)] /\ ctl' = S
             /\ UNCHANGED <<state, value, source, open>>
    <3>1. r \in Reaction /\ r.onF.do = "none" /\ r.np = p
      BY <1>4, <2>8 DEF Reaction, Handler, NoHandler, Calls, None
    <3>2. ~IsKept(r) /\ Theirs(r)' /\ Points(r, p)'
      BY <1>2, <1>4, <3>1 DEF IsKept, Theirs, Points
    <3>3. \A y \in Promise :
            \/ reactions'[y] = reactions[y]
            \/ \E e \in Reaction : /\ reactions'[y] = Append(reactions[y], e)
                                   /\ ~IsKept(e) /\ Theirs(e)'
      BY <1>1, <2>9, <3>1, <3>2 DEF TypeOK
    <3>4. Backed(p)'
      <4>1. PICK s, t : s = reactions[x] /\ t = reactions'[x]
        OBVIOUS
      <4>2. s \in Seq(Reaction) /\ t = Append(s, r)
        BY <1>1, <2>9, <4>1 DEF TypeOK
      <4>3. Len(t) = Len(s) + 1 /\ Len(s) \in Nat /\ t[Len(s) + 1] = r
        BY <3>1, <4>2, PushedType
      <4>4. Len(s) + 1 \in 1 .. Len(t)
        BY <4>3
      <4>5. \E i \in 1 .. Len(t) : Points(t[i], p)'
        BY <3>2, <4>3, <4>4 DEF Points
      <4> QED
        BY <2>9, <4>1, <4>5 DEF Backed, Points
    <3>5. Turns(None) /\ None \notin DOMAIN agg /\ open' \cap DOMAIN agg = {} /\ Atop(S)
      BY <1>1, <2>9 DEF Turns, Atop, TypeOK
    <3> QED
      BY <1>2, <1>4, <1>5, <2>5, <2>9, <3>3, <3>4, <3>5, PlainWhole
  <2>10. x \in Promise /\ state[x] # "PENDING" => state[x] \in Final
    BY <1>1, <2>3, NatFacts DEF Numbered, TypeOK, States, Final
  <2> QED
    BY <1>3, <1>7, <2>1, <2>6, <2>7, <2>8, <2>9, <2>10 DEF RaceNext, Keep, Final
<1> QED
  BY <1>6, <1>7

----------------------------------------------------------------------------
(* A drain runs a reaction that is no aggregation's.                       *)

\* The reaction r that a drain runs next, and the drain a that goes on.
LEMMA DrainTop ==
  ASSUME NEW H, NEW U, Inv(H, U), AggsAlone, NEW P, Ledger(P), ctl # <<>>, Top.k = "drain",
         Top.todo # <<>>, NEW r, NEW s, NEW a, DrainsOn(r, s, a)
  PROVE  /\ Fit(a) /\ Lone(a) /\ a.k = "drain" /\ a.p = Top.p /\ a.todo = s /\ a.ok = Top.ok
         /\ r \in Reaction /\ Proper(r) /\ Theirs(r)
         /\ Keys(Top.todo) = {k \in DOMAIN P : P[k] = OnStack(Len(ctl))}
         /\ Keys(s) = Keys(Top.todo) \ (IF IsKept(r) THEN {KeyOf(r)} ELSE {}) /\ OnceEach(s)
         /\ IsKept(r) => KeyOf(r) \in Keys(Top.todo)
         /\ Top.p \in Born /\ Top.p \in Promise /\ state[Top.p] \in Final
         /\ Top.ok = (state[Top.p] = "FULFILLED")
         /\ \A y \in Promise : BackedOn(Top, y) => y \in {r.np, r.onF.to} \/ BackedOn(a, y)
         /\ ~IsKept(r) => Going(Replaced(a), a)
         /\ \A x : {r.np, r.onF.to} \subseteq {x, None} => Yields(Replaced(a), a, x)
<1>1. /\ a \in Activation /\ a.k = "drain" /\ a.p = Top.p /\ a.todo = s /\ a.ok = Top.ok
  BY DrainHead
<1>2. /\ Fit(Top) /\ Lone(Top) /\ Top.p \in Born /\ Top.p \in Promise
      /\ Len(ctl) \in 1 .. Len(ctl) /\ Top = ctl[Len(ctl)]
  BY TopFacts
<1>3. PICK t : t = Top.todo
  OBVIOUS
<1>4. t \in Seq(Reaction) /\ t # <<>>
  BY <1>2, <1>3 DEF Fit, Activation
<1>5. /\ r = t[1] /\ s \in Seq(Reaction) /\ Len(s) = Len(t) - 1 /\ Len(t) \in Nat \ {0}
      /\ \A i \in 1 .. Len(s) : s[i] = t[i + 1]
  BY <1>3, <1>4, HeadTailProperties, EmptySeq, LenProperties DEF DrainsOn
<1>6. 1 \in 1 .. Len(t) /\ \A i \in 1 .. Len(s) : i + 1 \in 1 .. Len(t)
  BY <1>5
<1>7. r \in Reaction /\ Proper(r) /\ Theirs(r)
  BY <1>2, <1>3, <1>5, <1>6 DEF Fit, Lone
<1>8. Fit(a)
  BY <1>1, <1>2, <1>3, <1>5, <1>6 DEF Fit
<1>9. Lone(a)
  BY <1>1, <1>2, <1>3, <1>5, <1>6 DEF Lone
<1>10. Keys(t) = {k \in DOMAIN P : P[k] = OnStack(Len(ctl))} /\ OnceEach(t)
  BY <1>2, <1>3 DEF Ledger, Filed
<1>11. /\ Keys(s) = Keys(t) \ (IF IsKept(r) THEN {KeyOf(r)} ELSE {}) /\ OnceEach(s)
       /\ IsKept(r) => KeyOf(r) \in Keys(t)
  <2>1. r = Head(t) /\ s = Tail(t)
    BY <1>3 DEF DrainsOn
  <2> QED
    BY <1>4, <1>10, <2>1, KeysPopped
<1>12. ASSUME NEW y \in Promise, BackedOn(Top, y)
       PROVE  y \in {r.np, r.onF.to} \/ BackedOn(a, y)
  <2>1. PICK i \in 1 .. Len(t) : Points(t[i], y)
    BY <1>3, <1>12 DEF BackedOn
  <2>2. CASE i = 1
    BY <1>5, <2>1, <2>2 DEF Points
  <2>3. CASE i # 1
    <3>1. i - 1 \in 1 .. Len(s) /\ s[i - 1] = t[(i - 1) + 1] /\ (i - 1) + 1 = i
      BY <1>5, <2>3
    <3> QED
      BY <1>1, <2>1, <3>1 DEF BackedOn
  <2> QED
    BY <2>2, <2>3
<1>13. ~IsKept(r) => Going(Replaced(a), a)
  BY <1>1, <1>3, <1>8, <1>9, <1>11 DEF Going
<1>14. ASSUME NEW x, {r.np, r.onF.to} \subseteq {x, None} PROVE Yields(Replaced(a), a, x)
  BY <1>12, <1>14, NatFacts, InvFacts DEF Yields
<1> QED
  BY <1>1, <1>2, <1>3, <1>7, <1>8, <1>9, <1>10, <1>11, <1>12, <1>13, <1>14 DEF Fit, Lone

\* The reaction of a drain runs, and counts no input.
LEMMA DrainWhole ==
  ASSUME NEW H, NEW U, Inv(H, U), TypeOK', NEW P, Whole(P), DrainNext,
         NEW r, NEW s, NEW a, DrainsOn(r, s, a), ~IsKept(r)
  PROVE  Whole(P)'
<1>1. /\ TypeOK /\ Born \subseteq Promise /\ None \notin Promise /\ AggsAlone /\ Ledger(P)
  BY InvFacts, NatFacts DEF Whole, Accounts
<1>2. ctl # <<>> /\ Top.k = "drain" /\ Top.todo # <<>> /\ script' = script
  BY DEF DrainNext, Ends
<1>3. PICK p, v : p = Top.p /\ v = value[p]
  OBVIOUS
<1>4. PICK h, S : h = (IF Top.ok THEN r.onF ELSE r.onR) /\ S = Replaced(a)
  OBVIOUS
<1>5. r = Head(Top.todo) /\ S = Replaced([Top EXCEPT !.todo = Tail(@)])
  BY <1>4 DEF DrainsOn
<1>6. /\ r \in Reaction /\ Proper(r) /\ Theirs(r) /\ p \in Promise /\ Going(S, a)
      /\ \A x : {r.np, r.onF.to} \subseteq {x, None} => Yields(S, a, x)
  BY <1>1, <1>2, <1>3, <1>4, DrainTop
<1>7. Idles /\ SameScript
  BY <1>2 DEF Idles, SameScript
<1>8. v \notin Promise
  BY <1>1, <1>3, <1>6, PromiseAssumption DEF TypeOK, AnyVal
<1>9. ASSUME NEW y \in Promise, y \notin DOMAIN agg, {r.np, r.onF.to} \subseteq {y, None},
             agg' = agg,
             \/ Skip(S) /\ state[y] # "PENDING"
             \/ Adopt(y, Thenable, S)
             \/ state[y] = "PENDING" /\ \E st \in Final : \E w, src : Conclude(y, st, w, src, S)
      PROVE  Whole(P)'
  <2>1. Yields(S, a, y)
    BY <1>6, <1>9
  <2>2. CASE Skip(S) /\ state[y] # "PENDING"
    <3>1. Atop(S) /\ UNCHANGED promiseVars
      BY <2>2 DEF Skip, Keep, Atop
    <3> QED
      BY <1>6, <1>7, <1>9, <2>1, <2>2, <3>1, RestWhole
  <2>3. CASE Adopt(y, Thenable, S)
    BY <1>6, <1>7, <1>9, <2>1, <2>3, AdoptWhole
  <2>4. CASE state[y] = "PENDING" /\ \E st \in Final : \E w, src : Conclude(y, st, w, src, S)
    BY <1>6, <1>7, <1>9, <2>1, <2>4, ConcludeWhole
  <2> QED
    BY <1>9, <2>2, <2>3, <2>4
<1>10. CASE r.onF.do \in {"js", "none"}
  <2>1. /\ h.do \in {"js", "none"} /\ r.np \in Promise /\ r.np \notin DOMAIN agg
        /\ {r.np, r.onF.to} \subseteq {r.np, None}
    BY <1>1, <1>4, <1>6, <1>10 DEF Proper, Theirs
  <2>2. CASE h.do = "js" /\ Skip(Append(S, Active("handler", r.np))) /\ agg' = agg
    <3>1. PICK b : b = Active("handler", r.np)
      OBVIOUS
    <3>2. b \in Activation /\ b.k = "handler" /\ b.p = r.np
      BY <2>1, <3>1, FreshActivation
    <3>3. UNCHANGED promiseVars /\ ctl' = Append(S, b)
      BY <2>2, <3>1 DEF Skip, Keep
    <3>4. Atop(S)
      BY <2>1, <2>2, <3>1, <3>3, BegunAtop
    <3>5. Backed(r.np)'
      <4>1. PICK T : T = ctl'
        OBVIOUS
      <4>2. S \in Seq(Activation)
        BY <1>1, <1>6, GoingFacts
      <4>3. Len(S) + 1 \in 1 .. Len(T) /\ T[Len(S) + 1] = b
        BY <3>2, <3>3, <4>1, <4>2, PushedType
      <4>4. BackedOn(T[Len(S) + 1], r.np)'
        BY <3>2, <4>3 DEF BackedOn
      <4> QED
        BY <4>1, <4>3, <4>4 DEF Backed
    <3> QED
      BY <1>6, <1>7, <2>1, <2>2, <3>3, <3>4, <3>5, RestWhole
  <2>3. CASE h.do = "none" /\ SettleChained(r.np, v, S) /\ agg' = agg
    <3>1. \/ Skip(S) /\ state[r.np] # "PENDING"
          \/ Adopt(r.np, Thenable, S)
          \/ state[r.np] = "PENDING" /\ \E st \in Final : \E w, src : Conclude(r.np, st, w, src, S)
      BY <1>8, <2>3 DEF SettleChained, Waits, Final
    <3> QED
      BY <1>9, <2>1, <2>3, <3>1
  <2>4. CASE h.do = "none" /\ RejectCb(r.np, v, S) /\ agg' = agg
    <3>1. \/ Skip(S) /\ state[r.np] # "PENDING"
          \/ state[r.np] = "PENDING" /\ \E st \in Final : \E w, src : Conclude(r.np, st, w, src, S)
      BY <2>4 DEF RejectCb, Final
    <3> QED
      BY <1>9, <2>1, <2>4, <3>1
  <2>5. \/ h.do = "js" /\ Skip(Append(S, Active("handler", r.np))) /\ agg' = agg
        \/ h.do = "none" /\ SettleChained(r.np, v, S) /\ agg' = agg
        \/ h.do = "none" /\ RejectCb(r.np, v, S) /\ agg' = agg
    BY <1>3, <1>4, <1>5, <2>1 DEF DrainNext
  <2> QED
    BY <2>2, <2>3, <2>4, <2>5
<1>11. CASE r.onF.do = "resolve"
  <2>1. /\ h.do \in {"resolve", "reject"} /\ h.to = r.onF.to /\ h.to \in Promise
        /\ h.to \notin DOMAIN agg /\ {r.np, r.onF.to} \subseteq {h.to, None}
    BY <1>1, <1>4, <1>6, <1>11 DEF Proper, Theirs
  <2>2. agg' = agg /\ (ResolveCb(h.to, v, S) \/ RejectCb(h.to, v, S))
    BY <1>3, <1>4, <1>5, <2>1 DEF DrainNext
  <2>3. \/ Skip(S) /\ state[h.to] # "PENDING"
        \/ Adopt(h.to, Thenable, S)
        \/ state[h.to] = "PENDING" /\ \E st \in Final : \E w, src : Conclude(h.to, st, w, src, S)
    BY <1>8, <2>2 DEF ResolveCb, RejectCb, Adoptable, Final
  <2> QED
    BY <1>9, <2>1, <2>2, <2>3
<1> QED
  BY <1>6, <1>10, <1>11 DEF Proper, IsKept

----------------------------------------------------------------------------
(* The end of a drain, and the steps of the host.                          *)

\* A step that leaves the promises and the aggregations as they are.
LEMMA StillWhole ==
  ASSUME NEW H, NEW U, Inv(H, U), TypeOK', NEW P, Whole(P), agg' = agg, SameScript,
         ctl # <<>> => Top.k \notin WorkKinds, BuildsAlone',
         NEW b, NEW S, Going(S, b), Atop(S), UNCHANGED promiseVars, Yields(S, b, None)
  PROVE  Whole(P)'
<1>1. /\ state' = state /\ value' = value /\ reactions' = reactions /\ open' = open
      /\ None \notin Promise
  BY InvFacts, NatFacts DEF promiseVars
<1>2. Turns(None) /\ None \notin DOMAIN agg /\ open' \cap DOMAIN agg = {}
  BY <1>1, InvFacts DEF Turns, TypeOK, Whole, AggsAlone
<1> QED
  BY <1>1, <1>2, CalmWhole

\* A drain has run every reaction.
LEMMA ExitWhole ==
  ASSUME NEW H, NEW U, Inv(H, U), TypeOK', NEW P, Whole(P), DrainExit
  PROVE  Whole(P)'
<1>1. /\ TypeOK /\ AggsAlone /\ BuildsAlone /\ script.inline \in BOOLEAN
  BY InvFacts DEF Whole
<1>2. /\ ctl # <<>> /\ Top.k = "drain" /\ Top.todo = <<>> /\ ctl' = Below /\ agg' = agg
      /\ script' = script /\ UNCHANGED promiseVars
  BY DEF DrainExit, Ends
<1>3. PICK S, b, T : S = Below /\ b = Top /\ T = ctl'
  OBVIOUS
<1>4. /\ Len(ctl) \in Nat \ {0} /\ Top = ctl[Len(ctl)] /\ Len(T) = Len(ctl) - 1
      /\ \A i \in 1 .. Len(T) : i \in 1 .. Len(ctl) /\ T[i] = ctl[i] /\ i # Len(ctl)
  BY <1>1, <1>2, <1>3, StackType
<1>5. Going(S, b) /\ Atop(S) /\ SameScript
  BY <1>2, <1>3, NoKeys DEF Going, Atop, SameScript
<1>6. Yields(S, b, None)
  <2>1. Len(Top.todo) = 0
    BY <1>2, EmptySeq
  <2>2. \A y : ~BackedOn(Top, y)
    BY <1>2, <2>1 DEF BackedOn
  <2> QED
    BY <2>2 DEF Yields
<1>7. BuildsAlone'
  <2>1. \A i, j \in 1 .. Len(T) : Works(T[i]) /\ Works(T[j]) /\ T[i].p = T[j].p => i = j
    BY <1>1, <1>4 DEF BuildsAlone
  <2>2. ASSUME script.inline, NEW j \in 1 .. Len(T), Works(T[j])
        PROVE  /\ j = Len(T) /\ reactions[T[j].p] = <<>>
               /\ \A i \in DOMAIN agg[T[j].p].items : agg[T[j].p].items[i] # T[j].p
    <3>1. j \in 1 .. Len(ctl) /\ Works(ctl[j]) /\ j # Len(ctl) /\ T[j] = ctl[j]
      BY <1>4, <2>2
    <3>2. /\ j = Len(ctl) \/ j = Len(ctl) - 1
          /\ reactions[ctl[j].p] = <<>>
          /\ \A i \in DOMAIN agg[ctl[j].p].items : agg[ctl[j].p].items[i] # ctl[j].p
      BY <1>1, <2>2, <3>1 DEF BuildsAlone
    <3> QED
      BY <1>4, <3>1, <3>2
  <2>3. ASSUME ~script.inline, NEW j \in 1 .. Len(T), T[j].k = "release" PROVE FALSE
    BY <1>1, <1>2, <1>4, <2>3 DEF BuildsAlone
  <2>4. reactions' = reactions /\ agg' = agg /\ script' = script /\ T = ctl'
    BY <1>2, <1>3 DEF promiseVars
  <2>5. script'.inline => \A j \in 1 .. Len(T) : Works(T[j]) =>
          /\ j = Len(T) /\ reactions'[T[j].p] = <<>>
          /\ \A i \in DOMAIN agg'[T[j].p].items : agg'[T[j].p].items[i] # T[j].p
    BY <2>2, <2>4
  <2>6. ~script'.inline => \A j \in 1 .. Len(T) : T[j].k # "release"
    BY <2>3, <2>4
  <2> QED
    BY <2>1, <2>4, <2>5, <2>6, BuildsAre
<1> QED
  BY <1>2, <1>5, <1>6, <1>7, StillWhole DEF WorkKinds

\* The host calls a microtask or a timer.
LEMMA HostWhole ==
  ASSUME NEW H, NEW U, Inv(H, U), TypeOK', NEW P, Whole(P), Microtask \/ Task
  PROVE  Whole(P)'
<1>1. TypeOK
  BY InvFacts
<1>2. \E k \in {"enter", "main"} : \E p \in Promise \cup {None} : ctl' = <<Active(k, p)>>
  <2>1. CASE Microtask
    <3>1. queue \in Seq(Promise) /\ queue # <<>>
      BY <1>1, <2>1 DEF Microtask, TypeOK
    <3>2. Head(queue) \in Promise
      BY <3>1, HeadTailProperties
    <3> QED
      BY <2>1, <3>2 DEF Microtask
  <2>2. CASE Task
    BY <2>2 DEF Task
  <2> QED
    BY <2>1, <2>2
<1>3. PICK k \in {"enter", "main"}, p \in Promise \cup {None} : ctl' = <<Active(k, p)>>
  BY <1>2
<1>4. /\ ctl = <<>> /\ agg' = agg /\ script' = script /\ UNCHANGED promiseVars
  BY DEF Microtask, Task
<1>5. PICK S : S = ctl
  OBVIOUS
<1>6. ctl' = Append(S, Active(k, p))
  BY <1>3, <1>4, <1>5
<1>7. Atop(S)
  BY <1>6, BegunAtop
<1>8. Idles /\ SameScript /\ \A b : Going(S, b) /\ Yields(S, b, None)
  BY <1>4, <1>5 DEF Idles, SameScript, Going, Yields
<1>9. None \notin Promise
  BY <1>1, NatFacts
<1> QED
  BY <1>4, <1>7, <1>8, <1>9, RestWhole

\* Nothing happens.
LEMMA SameWhole ==
  ASSUME NEW P, Whole(P), UNCHANGED vars
  PROVE  Whole(P)'
<1>1. /\ state' = state /\ value' = value /\ reactions' = reactions /\ open' = open
      /\ agg' = agg /\ ctl' = ctl /\ script' = script
  BY DEF vars, promiseVars, taskVars
<1>2. AggsAlone'
  BY <1>1 DEF Whole, AggsAlone, Theirs, Lone
<1>3. BuildsAlone'
  BY <1>1 DEF Whole, BuildsAlone, Works, Top
<1>4. AllBacked'
  BY <1>1 DEF Whole, AllBacked, Backed, BackedOn, Points
<1>5. Ledger(P)'
  BY <1>1 DEF Whole, Accounts, Ledger, Filed
<1>6. \A c : /\ Claims(c, P)' = Claims(c, P) /\ Failed(c)' = Failed(c)
             /\ \A k : Posts(c, k)' = Posts(c, k)
             /\ \A i : Stored(c, i)' = Stored(c, i)
  BY <1>1 DEF Claims, Failed, Posts, Stored
<1>7. ASSUME NEW c \in DOMAIN agg PROVE Account(c, P)'
  BY <1>1, <1>6, <1>7 DEF Whole, Accounts, Account
<1> QED
  BY <1>1, <1>2, <1>3, <1>4, <1>5, <1>7 DEF Whole, Accounts

----------------------------------------------------------------------------
(* A drain begins: the reactions that wait on its promise go to the stack. *)

\* The keys of P that are kept at g are kept at h from now on.
Moved(P, g, h) == [k \in DOMAIN P |-> IF P[k] = g THEN h ELSE P[k]]

\* The drain a of p begins at position n, with the reactions t.
Enters(p, n, t, a, T) ==
  /\ p = Top.p /\ n = Len(ctl) /\ t = reactions[p] /\ T = ctl'
  /\ a = [Active("drain", p) EXCEPT !.todo = t, !.ok = state[p] = "FULFILLED"]

\* A drain begins.
LEMMA EnterFacts ==
  ASSUME NEW H, NEW U, Inv(H, U), AggsAlone, DrainEnter,
         NEW p, NEW n, NEW t, NEW a, NEW T, Enters(p, n, t, a, T)
  PROVE  /\ ctl # <<>> /\ Top.k = "enter" /\ T = Replaced(a) /\ n \in Nat \ {0} /\ Len(ctl) = n
         /\ Len(T) = n /\ T[n] = a /\ Top = ctl[n] /\ Keys(ctl[n].todo) = {}
         /\ \A j \in 1 .. n : j = n \/ T[j] = ctl[j]
         /\ p \in Promise /\ p \in Born /\ t \in Seq(Reaction) /\ T \in Seq(Activation)
         /\ a \in Activation /\ a.k = "drain" /\ a.p = p /\ a.todo = t /\ Fit(a) /\ Lone(a)
         /\ UNCHANGED <<state, value, source, open, agg, born, script>>
         /\ reactions' = [reactions EXCEPT ![p] = <<>>]
<1>1. /\ ctl # <<>> /\ Top.k = "enter" /\ T = Replaced(a)
      /\ UNCHANGED <<state, value, source, open, agg, born, script>>
      /\ reactions' = [reactions EXCEPT ![p] = <<>>]
  BY DEF DrainEnter, Ends, Enters
<1>2. /\ TypeOK /\ Top = ctl[n] /\ n \in Nat \ {0} /\ Keys(ctl[n].todo) = {}
      /\ p \in Born /\ p \in Promise /\ n = Len(ctl)
  BY <1>1, TopFacts DEF Enters
<1>3. state[p] \in Final
  BY <1>1, StackReady DEF GoodAt, Enters
<1>4. t \in Seq(Reaction)
  BY <1>2 DEF TypeOK, Enters
<1>5. /\ a \in Activation /\ a.k = "drain" /\ a.p = p /\ a.todo = t
      /\ a.ok = (state[p] = "FULFILLED")
  <2>1. a = [k |-> "drain", p |-> p, ok |-> state[p] = "FULFILLED", todo |-> t, at |-> 1,
             wp |-> None, items |-> <<>>]
    BY DEF Active, Enters
  <2>2. (state[p] = "FULFILLED") \in BOOLEAN /\ <<>> \in Seq(AnyVal \cup Promise)
    BY EmptySeq
  <2> QED
    BY <1>2, <1>4, <2>1, <2>2 DEF Activation
<1>6. Fit(a)
  BY <1>2, <1>3, <1>5, FitStack DEF Fit, Enters
<1>7. Lone(a)
  BY <1>2, <1>5 DEF Lone, AggsAlone, Enters
<1>8. /\ T \in Seq(Activation) /\ Len(T) = n /\ T[n] = a
      /\ \A j \in 1 .. n - 1 : T[j] = ctl[j]
  BY <1>1, <1>2, <1>5, ReplacedType
<1>9. \A j \in 1 .. n : j = n \/ T[j] = ctl[j]
  BY <1>2, <1>8
<1> QED
  BY <1>1, <1>2, <1>4, <1>5, <1>6, <1>7, <1>8, <1>9

\* The reactions move from the list of p to position n of the stack.
LEMMA EnterLedger ==
  ASSUME NEW H, NEW U, Inv(H, U), AggsAlone, NEW P, Ledger(P), DrainEnter,
         NEW p, NEW n, NEW t, NEW a, NEW T, Enters(p, n, t, a, T),
         NEW P2, P2 = Moved(P, OnList(p), OnStack(n))
  PROVE  Ledger(P2)'
<1>1. /\ T = ctl' /\ Len(ctl) = n /\ Len(T) = n /\ T[n] = a /\ n \in Nat \ {0}
      /\ Keys(ctl[n].todo) = {} /\ a.todo = t /\ a.k = "drain" /\ a.p = p
      /\ \A j \in 1 .. n : j = n \/ T[j] = ctl[j]
      /\ p \in Promise /\ agg' = agg /\ reactions' = [reactions EXCEPT ![p] = <<>>]
      /\ t = reactions[p]
  <2>1. T = ctl' /\ t = reactions[p]
    BY DEF Enters
  <2>2. UNCHANGED <<state, value, source, open, agg, born, script>>
    BY EnterFacts
  <2>3. agg' = agg
    BY <2>2
  <2>4. reactions' = [reactions EXCEPT ![p] = <<>>]
    BY EnterFacts
  <2>5. Len(ctl) = n /\ Len(T) = n /\ T[n] = a /\ n \in Nat \ {0}
    BY EnterFacts
  <2>7. Keys(ctl[n].todo) = {}
    BY EnterFacts
  <2>8. \A j \in 1 .. n : j = n \/ T[j] = ctl[j]
    BY EnterFacts
  <2>6. a.todo = t /\ a.k = "drain" /\ a.p = p /\ p \in Promise
    BY EnterFacts
  <2> QED
    BY <2>1, <2>3, <2>4, <2>5, <2>6, <2>7, <2>8
<1>2. DOMAIN P2 = DOMAIN P /\ \A k \in DOMAIN P : P2[k] = IF P[k] = OnList(p) THEN OnStack(n) ELSE P[k]
  BY DEF Moved
<1>3. /\ \A q, j, i : OnList(q) # OnStack(j) /\ (OnStack(j) = OnStack(i) => i = j)
      /\ \A q, y : OnList(q) = OnList(y) => q = y
  BY DEF OnList, OnStack
<1>4. \A k \in DOMAIN P : P[k] # OnStack(n)
  <2>1. {k \in DOMAIN P : P[k] = OnStack(n)} = {}
    BY <1>1 DEF Ledger, Filed
  <2> QED
    BY <2>1
<1>5. TypeOK
  BY InvFacts
<1>6. ASSUME NEW q \in Promise, NEW s, s = reactions'[q] PROVE Filed(s, OnList(q), P2)
  <2>1. CASE q = p
    <3>1. s = <<>>
      BY <1>1, <1>5, <1>6, <2>1 DEF TypeOK
    <3>2. \A k \in DOMAIN P2 : P2[k] # OnList(q)
      BY <1>2, <1>3, <2>1
    <3> QED
      BY <3>1, <3>2, NoKeys DEF Filed
  <2>2. CASE q # p
    <3>1. s = reactions[q]
      BY <1>1, <1>5, <1>6, <2>2 DEF TypeOK
    <3>2. \A k \in DOMAIN P : P2[k] = OnList(q) <=> P[k] = OnList(q)
      BY <1>2, <1>3, <2>2
    <3> QED
      BY <1>2, <3>1, <3>2 DEF Ledger, Filed
  <2> QED
    BY <2>1, <2>2
<1>7. ASSUME NEW j \in 1 .. Len(T) PROVE Filed(T[j].todo, OnStack(j), P2)
  <2>1. CASE j = n
    <3>1. \A k \in DOMAIN P : P2[k] = OnStack(n) <=> P[k] = OnList(p)
      BY <1>2, <1>4
    <3>2. Filed(t, OnList(p), P)
      BY <1>1 DEF Ledger
    <3> QED
      BY <1>1, <1>2, <2>1, <3>1, <3>2 DEF Filed
  <2>2. CASE j # n
    <3>1. \A k \in DOMAIN P : P2[k] = OnStack(j) <=> P[k] = OnStack(j)
      BY <1>2, <1>3, <2>2
    <3>2. Filed(T[j].todo, OnStack(j), P)
      BY <1>1, <2>2 DEF Ledger
    <3> QED
      BY <1>2, <3>1, <3>2 DEF Filed
  <2> QED
    BY <2>1, <2>2
<1>8. ASSUME NEW k \in DOMAIN P2
      PROVE  \E c \in DOMAIN agg' : \E i \in DOMAIN agg'[c].items :
               /\ k = <<c, i>> /\ agg'[c].items[i] \in Promise
               /\ \/ P2[k] = OnList(agg'[c].items[i])
                  \/ \E j \in 1 .. Len(T) : /\ P2[k] = OnStack(j) /\ T[j].k = "drain"
                                            /\ T[j].p = agg'[c].items[i]
  <2>0. k \in DOMAIN P
    BY <1>2
  <2>1. PICK c \in DOMAIN agg : \E i \in DOMAIN agg[c].items :
               /\ k = <<c, i>> /\ agg[c].items[i] \in Promise
               /\ \/ P[k] = OnList(agg[c].items[i])
                  \/ \E j \in 1 .. Len(ctl) : /\ P[k] = OnStack(j) /\ ctl[j].k = "drain"
                                              /\ ctl[j].p = agg[c].items[i]
    BY <2>0 DEF Ledger
  <2>2. PICK i \in DOMAIN agg[c].items :
               /\ k = <<c, i>> /\ agg[c].items[i] \in Promise
               /\ \/ P[k] = OnList(agg[c].items[i])
                  \/ \E j \in 1 .. Len(ctl) : /\ P[k] = OnStack(j) /\ ctl[j].k = "drain"
                                              /\ ctl[j].p = agg[c].items[i]
    BY <2>1
  <2>3. CASE P[k] = OnList(agg[c].items[i]) /\ agg[c].items[i] = p
    <3>1. P2[k] = OnStack(n) /\ n \in 1 .. Len(T)
      BY <1>1, <1>2, <2>0, <2>3
    <3> QED
      BY <1>1, <2>2, <2>3, <3>1
  <2>4. CASE P[k] = OnList(agg[c].items[i]) /\ agg[c].items[i] # p
    <3>1. P2[k] = P[k]
      BY <1>2, <1>3, <2>0, <2>4
    <3> QED
      BY <1>1, <2>2, <2>4, <3>1
  <2>5. CASE \E j \in 1 .. Len(ctl) : /\ P[k] = OnStack(j) /\ ctl[j].k = "drain"
                                      /\ ctl[j].p = agg[c].items[i]
    <3>1. PICK j \in 1 .. Len(ctl) : /\ P[k] = OnStack(j) /\ ctl[j].k = "drain"
                                     /\ ctl[j].p = agg[c].items[i]
      BY <2>5
    <3>2. j # n /\ P2[k] = P[k]
      BY <1>2, <1>3, <1>4, <2>0, <3>1
    <3> QED
      BY <1>1, <2>2, <3>1, <3>2
  <2> QED
    BY <2>2, <2>3, <2>4, <2>5
<1>9. \A q \in Promise : Filed(reactions[q], OnList(q), P2)'
  BY <1>6 DEF Filed
<1>10. \A j \in 1 .. Len(T) : Filed(T[j].todo, OnStack(j), P2)'
  BY <1>7 DEF Filed
<1> QED
  BY <1>1, <1>8, <1>9, <1>10 DEF Ledger

LEMMA EnterWhole ==
  ASSUME NEW H, NEW U, Inv(H, U), TypeOK', NEW P, Whole(P), DrainEnter
  PROVE  AInv'
<1>1. /\ TypeOK /\ AggsAlone /\ BuildsAlone /\ Ledger(P) /\ AllBacked
      /\ script.inline \in BOOLEAN /\ \A c \in DOMAIN agg : Account(c, P)
  BY InvFacts DEF Whole, Accounts
<1>2. PICK p, n, t, a, T : Enters(p, n, t, a, T)
  BY DEF Enters
<1>3. PICK P2 : P2 = Moved(P, OnList(p), OnStack(n))
  OBVIOUS
<1>4. /\ ctl # <<>> /\ Top.k = "enter" /\ T = Replaced(a) /\ n \in Nat \ {0} /\ Len(ctl) = n
      /\ Len(T) = n /\ T[n] = a /\ Top = ctl[n]
      /\ \A j \in 1 .. n : j = n \/ T[j] = ctl[j]
      /\ p \in Promise /\ p \in Born /\ t \in Seq(Reaction) /\ T \in Seq(Activation)
      /\ a \in Activation /\ a.k = "drain" /\ a.p = p /\ a.todo = t /\ Fit(a) /\ Lone(a)
      /\ UNCHANGED <<state, value, source, open, agg, born, script>>
      /\ reactions' = [reactions EXCEPT ![p] = <<>>]
      /\ T = ctl' /\ t = reactions[p] /\ p = Top.p
  <2>1. T = ctl' /\ t = reactions[p] /\ p = Top.p
    BY <1>2 DEF Enters
  <2> QED
    BY <1>1, <1>2, <2>1, EnterFacts
<1>5. Turns(None) /\ None \notin DOMAIN agg /\ None \notin Promise
  BY <1>1, <1>4, NatFacts DEF Turns, TypeOK
<1>6. AllLone(T) /\ StillBacks(T, None)
  <2>1. Instead(T, a)
    BY <1>4 DEF Instead
  <2>2. Yields(T, a, None)
    BY <1>1, <1>4, TopFacts DEF Yields
  <2> QED
    BY <1>1, <2>1, <2>2, YieldsBacks
<1>7. \A y \in Promise : \/ reactions'[y] = reactions[y]
                         \/ reactions'[y] = <<>> /\ \E j \in 1 .. Len(T) : T[j].todo = reactions[y]
  <2>1. n \in 1 .. Len(T)
    BY <1>4
  <2> QED
    BY <1>1, <1>4, <2>1 DEF TypeOK
<1>8. AggsAlone'
  <2>1. open' \cap DOMAIN agg' = {} /\ \A c \in DOMAIN agg' : c \in DOMAIN agg \/ c \notin Born
    BY <1>1, <1>4 DEF AggsAlone
  <2> QED
    BY <1>1, <1>4, <1>5, <1>6, <1>7, <2>1, LoneStep
<1>9. AllBacked'
  <2>1. SameScript
    BY <1>4 DEF SameScript
  <2> QED
    BY <1>1, <1>4, <1>5, <1>6, <1>7, <2>1, BackedStep DEF SameScript
<1>10. BuildsAlone'
  <2>1. \A j \in 1 .. Len(T) : T[j].k \in WorkKinds => j # n /\ j \in 1 .. Len(ctl) /\ T[j] = ctl[j]
    BY <1>4 DEF WorkKinds
  <2>2. \A j : Works(T[j]) => T[j].k \in WorkKinds
    BY DEF Works, WorkKinds
  <2>3. \A i, j \in 1 .. Len(T) : Works(T[i]) /\ Works(T[j]) /\ T[i].p = T[j].p => i = j
    BY <1>1, <2>1, <2>2 DEF BuildsAlone
  <2>4. ASSUME script.inline, NEW j \in 1 .. Len(T), Works(T[j])
        PROVE  /\ j = Len(T) - 1 /\ p = T[j].p /\ t = <<>> /\ reactions'[T[j].p] = <<>>
               /\ \A i \in DOMAIN agg[T[j].p].items : agg[T[j].p].items[i] # T[j].p
    <3>1. j \in 1 .. Len(ctl) /\ Works(ctl[j]) /\ j # Len(ctl) /\ T[j] = ctl[j]
      BY <1>4, <2>1, <2>2, <2>4
    <3>2. /\ j = Len(ctl) - 1 /\ Top.p = ctl[j].p
          /\ reactions[ctl[j].p] = <<>>
          /\ \A i \in DOMAIN agg[ctl[j].p].items : agg[ctl[j].p].items[i] # ctl[j].p
      BY <1>1, <2>4, <3>1 DEF BuildsAlone
    <3> QED
      BY <1>1, <1>4, <3>1, <3>2 DEF TypeOK
  <2>5. ASSUME ~script.inline, NEW j \in 1 .. Len(T), T[j].k = "release" PROVE FALSE
    <3>1. j \in 1 .. Len(ctl) /\ ctl[j].k = "release" /\ j # n
      BY <2>1, <2>5 DEF WorkKinds
    <3>2. j = Len(ctl)
      BY <1>1, <2>5, <3>1 DEF BuildsAlone
    <3> QED
      BY <1>4, <3>1, <3>2
  <2>6. script.inline => \A j \in 1 .. Len(T) : Works(T[j]) =>
          /\ j = Len(T) - 1 /\ T[Len(T)].k = "drain" /\ T[Len(T)].p = T[j].p /\ T[Len(T)].todo = <<>>
          /\ reactions'[T[j].p] = <<>>
          /\ \A i \in DOMAIN agg'[T[j].p].items : agg'[T[j].p].items[i] # T[j].p
    BY <1>4, <2>4
  <2>7. T = ctl' /\ script' = script
    BY <1>2, <1>4 DEF Enters
  <2>8. ~script'.inline => \A j \in 1 .. Len(T) : T[j].k # "release"
    BY <2>5, <2>7
  <2> QED
    BY <2>3, <2>6, <2>7, <2>8, BuildsAre
<1>11. Ledger(P2)'
  BY <1>1, <1>2, <1>3, EnterLedger
<1>12. ASSUME NEW c \in DOMAIN agg PROVE Account(c, P2)'
  <2>1. ASSUME NEW k \in WorkKinds, NEW j PROVE j \in Posts(c, k)' <=> j \in Posts(c, k)
    <3>1. j \in Posts(c, k)' <=> j \in 1 .. Len(T) /\ T[j].k = k /\ T[j].p = c
      BY <1>4 DEF Posts, PostsIn
    <3>2. j \in Posts(c, k) <=> j \in 1 .. Len(ctl) /\ ctl[j].k = k /\ ctl[j].p = c
      BY DEF Posts, PostsIn
    <3>3. T[n].k # k /\ ctl[n].k # k
      BY <1>4 DEF WorkKinds
    <3> QED
      BY <1>4, <3>1, <3>2, <3>3
  <2>2. \A k \in WorkKinds : Posts(c, k)' = Posts(c, k)
    BY <2>1
  <2>3. ASSUME NEW j \in Posts(c, "build") PROVE ctl'[j].at = ctl[j].at
    <3>1. j \in 1 .. Len(ctl) /\ ctl[j].k = "build"
      BY DEF Posts, PostsIn
    <3>2. j # n
      BY <1>4, <3>1
    <3> QED
      BY <1>4, <3>1, <3>2
  <2>4. \A i \in DOMAIN agg[c].items : <<c, i>> \in DOMAIN P2 <=> <<c, i>> \in DOMAIN P
    BY <1>3 DEF Moved
  <2>5. Account(c, P) /\ agg' = agg /\ None # c
    BY <1>1, <1>4, <1>5
  <2> QED
    BY <1>1, <1>5, <2>2, <2>3, <2>4, <2>5, AccountStays
<1>13. Accounts(P2)'
  <2>1. \A c \in DOMAIN agg' : Account(c, P2)'
    BY <1>4, <1>12
  <2> QED
    BY <1>11, <2>1 DEF Accounts
<1>14. Whole(P2)'
  BY <1>8, <1>9, <1>10, <1>13 DEF Whole
<1> QED
  BY <1>14 DEF AInv

----------------------------------------------------------------------------
(* The steps of the aggregations themselves.                               *)

\* The stack is S, or S with an activation on it that is no work.
Overlies(S, T) ==
  \/ T = S
  \/ \E a \in Activation : T = Append(S, a) /\ a.todo = <<>> /\ a.k \notin WorkKinds

\* The work on T is that on S.
LEMMA OverFacts ==
  ASSUME NEW S \in Seq(Activation), NEW T, Overlies(S, T)
  PROVE  /\ Len(S) \in Nat /\ T \in Seq(Activation)
         /\ \A j \in 1 .. Len(S) : j \in 1 .. Len(T) /\ T[j] = S[j]
         /\ \A j \in 1 .. Len(T) :
              j \in 1 .. Len(S) \/ (j = Len(S) + 1 /\ T[j].todo = <<>> /\ T[j].k \notin WorkKinds)
         /\ \A c, k : k \in WorkKinds => PostsIn(T, c, k) = PostsIn(S, c, k)
<1>1. Len(S) \in Nat
  BY LenProperties
<1>2. /\ T \in Seq(Activation)
      /\ \A j \in 1 .. Len(S) : j \in 1 .. Len(T) /\ T[j] = S[j]
      /\ \A j \in 1 .. Len(T) :
           j \in 1 .. Len(S) \/ (j = Len(S) + 1 /\ T[j].todo = <<>> /\ T[j].k \notin WorkKinds)
  <2>1. CASE T = S
    BY <2>1
  <2>2. CASE \E a \in Activation : T = Append(S, a) /\ a.todo = <<>> /\ a.k \notin WorkKinds
    <3>1. PICK a \in Activation : T = Append(S, a) /\ a.todo = <<>> /\ a.k \notin WorkKinds
      BY <2>2
    <3>2. /\ T \in Seq(Activation) /\ Len(T) = Len(S) + 1 /\ T[Len(S) + 1] = a
          /\ \A j \in 1 .. Len(S) : T[j] = S[j]
      BY <3>1, PushedType
    <3> QED
      BY <1>1, <3>1, <3>2
  <2> QED
    BY <2>1, <2>2 DEF Overlies
<1>3. ASSUME NEW c, NEW k \in WorkKinds, NEW j PROVE j \in PostsIn(T, c, k) <=> j \in PostsIn(S, c, k)
  BY <1>1, <1>2 DEF PostsIn
<1>4. ASSUME NEW c, NEW k \in WorkKinds PROVE PostsIn(T, c, k) = PostsIn(S, c, k)
  <2>1. \A j : j \in PostsIn(T, c, k) <=> j \in PostsIn(S, c, k)
    BY <1>3
  <2> QED
    BY <2>1
<1> QED
  BY <1>1, <1>2, <1>4

\* The books of the next state, on S.
LEMMA LedgerTo ==
  ASSUME NEW S \in Seq(Activation), NEW T, T = ctl', Overlies(S, T), NEW P,
         \A q \in Promise : Filed(reactions'[q], OnList(q), P),
         \A j \in 1 .. Len(S) : Filed(S[j].todo, OnStack(j), P),
         \A k \in DOMAIN P :
           \E c \in DOMAIN agg' : \E i \in DOMAIN agg'[c].items :
             /\ k = <<c, i>> /\ agg'[c].items[i] \in Promise
             /\ \/ P[k] = OnList(agg'[c].items[i])
                \/ \E j \in 1 .. Len(S) : /\ P[k] = OnStack(j) /\ S[j].k = "drain"
                                          /\ S[j].p = agg'[c].items[i]
  PROVE  Ledger(P)'
<1>1. /\ Len(S) \in Nat
      /\ \A j \in 1 .. Len(S) : j \in 1 .. Len(T) /\ T[j] = S[j]
      /\ \A j \in 1 .. Len(T) : j \in 1 .. Len(S) \/ (j = Len(S) + 1 /\ T[j].todo = <<>>)
  BY OverFacts
<1>2. \A k \in DOMAIN P : \A j : P[k] = OnStack(j) => j \in 1 .. Len(S)
  BY HoldersApart
<1>3. ASSUME NEW j \in 1 .. Len(T) PROVE Filed(T[j].todo, OnStack(j), P)
  <2>1. CASE j \in 1 .. Len(S)
    BY <1>1, <2>1
  <2>2. CASE j = Len(S) + 1 /\ T[j].todo = <<>>
    <3>1. \A k \in DOMAIN P : P[k] # OnStack(j)
      BY <1>1, <1>2, <2>2
    <3> QED
      BY <2>2, <3>1, NoKeys DEF Filed
  <2> QED
    BY <1>1, <2>1, <2>2
<1>4. ASSUME NEW k \in DOMAIN P
      PROVE  \E c \in DOMAIN agg' : \E i \in DOMAIN agg'[c].items :
               /\ k = <<c, i>> /\ agg'[c].items[i] \in Promise
               /\ \/ P[k] = OnList(agg'[c].items[i])
                  \/ \E j \in 1 .. Len(T) : /\ P[k] = OnStack(j) /\ T[j].k = "drain"
                                            /\ T[j].p = agg'[c].items[i]
  BY <1>1
<1>5. \A q \in Promise : Filed(reactions[q], OnList(q), P)'
  BY DEF Filed
<1>6. \A j \in 1 .. Len(T) : Filed(T[j].todo, OnStack(j), P)'
  BY <1>3 DEF Filed
<1> QED
  BY <1>4, <1>5, <1>6 DEF Ledger

\* S is ctl up to position m; what is above is no work but of c.
Reaches(S, m, c) ==
  /\ S \in Seq(Activation) /\ m \in Nat /\ m <= Len(ctl) /\ m <= Len(S)
  /\ \A j \in 1 .. m : S[j] = ctl[j]
  /\ \A j \in 1 .. Len(ctl) : j > m /\ ctl[j].k \in WorkKinds => ctl[j].p = c
  /\ \A j \in 1 .. Len(S) : j > m /\ S[j].k \in WorkKinds => S[j].p = c

\* A step of the aggregation of c is none of any other.
LEMMA OthersStay ==
  ASSUME TypeOK, NEW c, NEW S, NEW m, Reaches(S, m, c), NEW T, T = ctl', Overlies(S, T),
         NEW d \in DOMAIN agg, d # c, NEW P, Account(d, P),
         d \in DOMAIN agg', agg'[d] = agg[d], NEW q, Turns(q), q # d,
         NEW P2, \A i \in DOMAIN agg[d].items : <<d, i>> \in DOMAIN P2 <=> <<d, i>> \in DOMAIN P
  PROVE  Account(d, P2)'
<1>1. /\ S \in Seq(Activation) /\ Len(S) \in Nat /\ Len(ctl) \in Nat
      /\ m \in Nat /\ m <= Len(ctl) /\ m <= Len(S)
  BY LenProperties DEF Reaches, TypeOK
<1>2. /\ \A j \in 1 .. Len(S) : j \in 1 .. Len(T) /\ T[j] = S[j]
      /\ \A k \in WorkKinds : PostsIn(T, d, k) = PostsIn(S, d, k)
  BY <1>1, OverFacts
<1>3. \A j : j \in 1 .. Len(S) => j \in 1 .. m \/ j > m
  BY <1>1
<1>4. \A j : j \in 1 .. Len(ctl) => j \in 1 .. m \/ j > m
  BY <1>1
<1>5. \A j \in 1 .. m : j \in 1 .. Len(S) /\ j \in 1 .. Len(ctl) /\ S[j] = ctl[j]
  BY <1>1 DEF Reaches
<1>6. ASSUME NEW k \in WorkKinds, NEW j PROVE j \in PostsIn(S, d, k) <=> j \in 1 .. m /\ j \in Posts(d, k)
  <2>1. j \in PostsIn(S, d, k) <=> j \in 1 .. Len(S) /\ S[j].k = k /\ S[j].p = d
    BY DEF PostsIn
  <2>2. j \in Posts(d, k) <=> j \in 1 .. Len(ctl) /\ ctl[j].k = k /\ ctl[j].p = d
    BY DEF Posts, PostsIn
  <2> QED
    BY <1>3, <1>5, <2>1, <2>2 DEF Reaches
<1>7. ASSUME NEW k \in WorkKinds, NEW j \in Posts(d, k) PROVE j \in 1 .. m
  <2>2. j \in 1 .. Len(ctl) /\ ctl[j].k = k /\ ctl[j].p = d
    BY DEF Posts, PostsIn
  <2> QED
    BY <1>4, <2>2 DEF Reaches
<1>8. \A k \in WorkKinds : Posts(d, k)' = Posts(d, k)
  <2>1. \A k \in WorkKinds : PostsIn(T, d, k) = Posts(d, k)
    BY <1>2, <1>6, <1>7
  <2> QED
    BY <2>1 DEF Posts, PostsIn
<1>9. ASSUME NEW j \in Posts(d, "build") PROVE ctl'[j].at = ctl[j].at
  <2>1. j \in 1 .. m
    BY <1>7 DEF WorkKinds
  <2> QED
    BY <1>2, <1>5, <2>1
<1> QED
  BY <1>8, <1>9, AccountStays

\* What lies under the work on top.
LEMMA WorkFacts ==
  ASSUME NEW H, NEW U, Inv(H, U), NEW P, Whole(P), ctl # <<>>, Top.k \in WorkKinds,
         NEW c, c = Top.p, NEW n, n = Len(ctl)
  PROVE  /\ TypeOK /\ AggsAlone /\ BuildsAlone /\ Ledger(P) /\ AllBacked
         /\ \A d \in DOMAIN agg : Account(d, P)
         /\ c \in DOMAIN agg /\ c \in Born /\ c \in Promise
         /\ n \in Nat \ {0} /\ n \in 1 .. n /\ Top = ctl[n] /\ Top \in Activation
         /\ Top.todo = <<>> /\ Fit(Top) /\ Lone(Top) /\ \A y : ~BackedOn(Top, y)
         /\ script.inline => \A j \in 1 .. n : Works(ctl[j]) => j = n
         /\ ~script.inline /\ Works(Top) => \A j \in 1 .. n : ctl[j].k # "release"
         /\ Top.k = "release" => \A j \in 1 .. n : ~Works(ctl[j])
         /\ Works(Top) => \A j \in 1 .. n : Works(ctl[j]) /\ ctl[j].p = c => j = n
         /\ script.inline /\ Works(Top) =>
              reactions[c] = <<>> /\ \A i \in DOMAIN agg[c].items : agg[c].items[i] # c
<1>1. /\ TypeOK /\ AggsAlone /\ BuildsAlone /\ Ledger(P) /\ AllBacked
      /\ \A d \in DOMAIN agg : Account(d, P)
  BY InvFacts DEF Whole, Accounts
<1>2. /\ c \in Born /\ c \in Promise
      /\ n \in Nat \ {0} /\ n \in 1 .. n /\ Top = ctl[n] /\ Top \in Activation
      /\ Top.todo = <<>> /\ Fit(Top) /\ Lone(Top) /\ \A y : ~BackedOn(Top, y)
  BY <1>1, TopFacts DEF WorkKinds
<1>3. c \in DOMAIN agg
  BY StackReady DEF GoodAt, WorkKinds
<1>4. Top.k \notin {"enter", "drain"}
  BY DEF WorkKinds
<1>5. script.inline => \A j \in 1 .. n : Works(ctl[j]) => j = n
  BY <1>1, <1>4 DEF BuildsAlone
<1>6. ~script.inline /\ Works(Top) => \A j \in 1 .. n : ctl[j].k # "release"
  BY <1>1, <1>2 DEF BuildsAlone, Works
<1>7. ASSUME Top.k = "release", NEW j \in 1 .. n PROVE ~Works(ctl[j])
  <2>1. CASE script.inline
    BY <1>2, <1>5, <1>7, <2>1 DEF Works
  <2>2. CASE ~script.inline
    <3>1. n = 2 /\ ctl[1].k = "drain" /\ ctl[2].k = "release"
      BY <1>1, <1>2, <1>7, <2>2 DEF BuildsAlone
    <3>2. j = 1 \/ j = 2
      BY <3>1
    <3> QED
      BY <3>1, <3>2 DEF Works
  <2> QED
    BY <2>1, <2>2
<1>8. Works(Top) => \A j \in 1 .. n : Works(ctl[j]) /\ ctl[j].p = c => j = n
  BY <1>1, <1>2 DEF BuildsAlone
<1>9. script.inline /\ Works(Top) =>
        reactions[c] = <<>> /\ \A i \in DOMAIN agg[c].items : agg[c].items[i] # c
  BY <1>1, <1>2 DEF BuildsAlone
<1> QED
  BY <1>1, <1>2, <1>3, <1>5, <1>6, <1>7, <1>8, <1>9

\* The work on top of the stack gives way to S, which has b in its place.
GivesWay(S, b) ==
  \/ S = Below
  \/ S = Replaced(b) /\ b \in Activation /\ Works(b) /\ Works(Top) /\ b.p = Top.p /\ b.todo = <<>>

\* The work on S.
LEMMA GivesWayFacts ==
  ASSUME NEW H, NEW U, Inv(H, U), NEW P, Whole(P), ctl # <<>>, Top.k \in WorkKinds,
         NEW c, c = Top.p, NEW n, n = Len(ctl), NEW b, NEW S, GivesWay(S, b)
  PROVE  /\ AllLone(S) /\ StillBacks(S, None) /\ Reaches(S, n - 1, c) /\ S \in Seq(Activation)
         /\ \/ S = Below /\ Len(S) = n - 1
            \/ S = Replaced(b) /\ Len(S) = n /\ S[n] = b
         /\ \A k \in WorkKinds : \A j :
              j \in PostsIn(S, c, k) <=>
                \/ j \in Posts(c, k) /\ j # n
                \/ j = n /\ S = Replaced(b) /\ b.k = k
<1>1. /\ TypeOK /\ AggsAlone /\ c \in Born /\ n \in Nat \ {0} /\ n \in 1 .. n /\ Top = ctl[n]
      /\ Top.todo = <<>> /\ \A y : ~BackedOn(Top, y)
  BY WorkFacts
<1>2. ctl \in Seq(Activation) /\ None \notin Promise
  BY <1>1, NatFacts DEF TypeOK
<1>3. CASE S = Below
  <2>1. Instead(S, b)
    BY <1>3 DEF Instead
  <2>2. Yields(S, b, None)
    BY <1>1 DEF Yields
  <2>3. AllLone(S) /\ StillBacks(S, None)
    BY <1>1, <2>1, <2>2, YieldsBacks
  <2>4. S \in Seq(Activation) /\ Len(S) = n - 1 /\ \A j \in 1 .. n - 1 : S[j] = ctl[j]
    BY <1>1, <1>3, StackType
  <2>5. Reaches(S, n - 1, c)
    <3>1. \A j \in 1 .. Len(ctl) : j > n - 1 => j = n
      BY <1>1
    <3>2. \A j \in 1 .. Len(S) : ~(j > n - 1)
      BY <1>1, <2>4
    <3>3. n - 1 \in Nat /\ n - 1 <= Len(ctl) /\ n - 1 <= Len(S)
      BY <1>1, <2>4
    <3> QED
      BY <1>1, <2>4, <3>1, <3>2, <3>3 DEF Reaches
  <2>6. ASSUME NEW k \in WorkKinds, NEW j
        PROVE  j \in PostsIn(S, c, k) <=> j \in Posts(c, k) /\ j # n
    <3>1. j \in PostsIn(S, c, k) <=> j \in 1 .. n - 1 /\ ctl[j].k = k /\ ctl[j].p = c
      BY <2>4 DEF PostsIn
    <3>2. j \in Posts(c, k) <=> j \in 1 .. n /\ ctl[j].k = k /\ ctl[j].p = c
      BY DEF Posts, PostsIn
    <3>3. j \in 1 .. n - 1 <=> j \in 1 .. n /\ j # n
      BY <1>1
    <3> QED
      BY <3>1, <3>2, <3>3
  <2>7. S # Replaced(b) \/ b \notin Activation
    BY <1>1, <2>4, ReplacedType
  <2>8. CASE S # Replaced(b)
    BY <1>3, <2>3, <2>4, <2>5, <2>6, <2>8
  <2>9. CASE S = Replaced(b)
    <3>1. FALSE
      <4>1. Below \in Seq(Activation)
        BY <1>3, <2>4
      <4>2. Len(Append(Below, b)) = Len(Below) + 1
        BY <4>1, AppendProperties
      <4> QED
        BY <1>1, <1>3, <2>4, <2>9, <4>2 DEF Replaced
    <3> QED
      BY <3>1
  <2> QED
    BY <2>8, <2>9
<1>4. CASE S = Replaced(b) /\ b \in Activation /\ Works(b) /\ Works(Top) /\ b.p = Top.p /\ b.todo = <<>>
  <2>0. Len(b.todo) = 0
    BY <1>4
  <2>1. Fit(b) /\ Lone(b)
    BY <1>1, <1>4, <2>0 DEF Fit, Lone, Works
  <2>2. Instead(S, b) /\ Yields(S, b, None)
    BY <1>1, <1>4, <2>1 DEF Instead, Yields
  <2>3. AllLone(S) /\ StillBacks(S, None)
    BY <1>1, <2>2, YieldsBacks
  <2>4. S \in Seq(Activation) /\ Len(S) = n /\ S[n] = b /\ \A j \in 1 .. n - 1 : S[j] = ctl[j]
    BY <1>1, <1>4, ReplacedType
  <2>5. Reaches(S, n - 1, c)
    <3>1. \A j \in 1 .. n : j > n - 1 => j = n
      BY <1>1
    <3>3. n - 1 \in Nat /\ n - 1 <= Len(ctl) /\ n - 1 <= Len(S)
      BY <1>1, <2>4
    <3> QED
      BY <1>1, <1>4, <2>4, <3>1, <3>3 DEF Reaches
  <2>6. ASSUME NEW k \in WorkKinds, NEW j
        PROVE  j \in PostsIn(S, c, k) <=> (j \in Posts(c, k) /\ j # n) \/ (j = n /\ b.k = k)
    <3>1. j \in PostsIn(S, c, k) <=> j \in 1 .. n /\ S[j].k = k /\ S[j].p = c
      BY <2>4 DEF PostsIn
    <3>2. j \in Posts(c, k) <=> j \in 1 .. n /\ ctl[j].k = k /\ ctl[j].p = c
      BY DEF Posts, PostsIn
    <3>3. j \in 1 .. n - 1 <=> j \in 1 .. n /\ j # n
      BY <1>1
    <3> QED
      BY <1>1, <1>4, <2>4, <3>1, <3>2, <3>3
  <2> QED
    BY <1>4, <2>3, <2>4, <2>5, <2>6
<1> QED
  BY <1>3, <1>4 DEF GivesWay

\* BuildsAlone is kept by a work that goes on, or ends, and may settle its result.
LEMMA WorksBuilds ==
  ASSUME NEW H, NEW U, Inv(H, U), NEW P, Whole(P), ctl # <<>>, Top.k \in WorkKinds,
         NEW c, c = Top.p, NEW n, n = Len(ctl), NEW b, NEW S, GivesWay(S, b), SameScript,
         \/ ctl' = S
         \/ \E a \in Activation : /\ ctl' = Append(S, a) /\ a.todo = <<>> /\ a.k \notin WorkKinds
                                  /\ script.inline => a.k = "enter" /\ a.p = c,
         script.inline => reactions'[c] = reactions[c] /\ agg'[c].items = agg[c].items
  PROVE  BuildsAlone'
<1>1. /\ TypeOK /\ AggsAlone /\ BuildsAlone /\ n \in Nat \ {0} /\ n \in 1 .. n /\ Top = ctl[n]
      /\ script.inline => \A j \in 1 .. n : Works(ctl[j]) => j = n
      /\ ~script.inline /\ Works(Top) => \A j \in 1 .. n : ctl[j].k # "release"
      /\ Top.k = "release" => \A j \in 1 .. n : ~Works(ctl[j])
      /\ script.inline /\ Works(Top) =>
           reactions[c] = <<>> /\ \A i \in DOMAIN agg[c].items : agg[c].items[i] # c
  BY WorkFacts
<1>2. /\ Reaches(S, n - 1, c) /\ S \in Seq(Activation)
      /\ \/ S = Below /\ Len(S) = n - 1
         \/ S = Replaced(b) /\ Len(S) = n /\ S[n] = b
  BY GivesWayFacts
<1>3. \A j \in 1 .. Len(S) :
        \/ j \in 1 .. n - 1 /\ j \in 1 .. n /\ j # n /\ S[j] = ctl[j]
        \/ j = n /\ Len(S) = n /\ S[j] = b /\ Works(b) /\ Works(Top) /\ b.p = c
  <2>1. S = Below \/ (Works(b) /\ Works(Top) /\ b.p = c)
    BY DEF GivesWay
  <2>2. ASSUME NEW j \in 1 .. n PROVE (j \in 1 .. n - 1 /\ j # n) \/ j = n
    BY <1>1
  <2>3. ASSUME NEW j \in 1 .. n - 1 PROVE j \in 1 .. n /\ j # n /\ S[j] = ctl[j]
    BY <1>1, <1>2 DEF Reaches
  <2>4. CASE S = Below /\ Len(S) = n - 1
    BY <2>3, <2>4
  <2>5. CASE S = Replaced(b) /\ Len(S) = n /\ S[n] = b /\ S # Below
    BY <2>1, <2>2, <2>3, <2>5
  <2>6. Len(Below) = n - 1
    BY <1>1, StackType
  <2> QED
    BY <1>2, <2>1, <2>4, <2>5, <2>6
<1>4. PICK T : T = ctl'
  OBVIOUS
<1>5. Overlies(S, T)
  BY <1>4 DEF Overlies
<1>6. /\ \A j \in 1 .. Len(S) : j \in 1 .. Len(T) /\ T[j] = S[j]
      /\ \A j \in 1 .. Len(T) : j \in 1 .. Len(S) \/ T[j].k \notin WorkKinds
      /\ Len(S) \in Nat
  BY <1>2, <1>5, OverFacts
<1>7. \A j \in 1 .. Len(T) : T[j].k \in WorkKinds =>
        \/ j \in 1 .. n /\ j # n /\ T[j] = ctl[j]
        \/ j = n /\ Len(S) = n /\ Works(T[j]) /\ Works(Top) /\ T[j].p = c
  BY <1>3, <1>6
<1>8. \A j : Works(T[j]) => T[j].k \in WorkKinds
  BY DEF Works, WorkKinds
<1>9. ASSUME NEW i \in 1 .. Len(T), NEW j \in 1 .. Len(T), Works(T[i]), Works(T[j]), T[i].p = T[j].p
      PROVE  i = j
  <2>1. /\ i \in 1 .. n /\ Works(ctl[i]) /\ ctl[i].p = T[i].p
        /\ j \in 1 .. n /\ Works(ctl[j]) /\ ctl[j].p = T[j].p
    BY <1>1, <1>7, <1>8, <1>9
  <2> QED
    BY <1>1, <1>9, <2>1 DEF BuildsAlone
<1>10. ASSUME script.inline, NEW j \in 1 .. Len(T), Works(T[j])
       PROVE  /\ \/ j = Len(T)
                 \/ j = Len(T) - 1 /\ T[Len(T)].k = "enter" /\ T[Len(T)].p = T[j].p /\ T[Len(T)].todo = <<>>
              /\ reactions'[T[j].p] = <<>>
              /\ \A i \in DOMAIN agg'[T[j].p].items : agg'[T[j].p].items[i] # T[j].p
  <2>1. j = n /\ Len(S) = n /\ Works(Top) /\ T[j].p = c
    BY <1>1, <1>7, <1>8, <1>10
  <2>2. reactions'[T[j].p] = <<>> /\ \A i \in DOMAIN agg'[T[j].p].items : agg'[T[j].p].items[i] # T[j].p
    BY <1>1, <1>10, <2>1
  <2>3. CASE T = S
    BY <2>1, <2>2, <2>3
  <2>4. CASE \E a \in Activation : /\ T = Append(S, a) /\ a.todo = <<>> /\ a.k = "enter" /\ a.p = c
    <3>1. PICK a \in Activation : /\ T = Append(S, a) /\ a.todo = <<>> /\ a.k = "enter" /\ a.p = c
      BY <2>4
    <3>2. Len(T) = n + 1 /\ T[n + 1] = a /\ j = Len(T) - 1
      BY <1>1, <1>2, <2>1, <3>1, PushedType
    <3> QED
      BY <2>1, <2>2, <3>1, <3>2
  <2> QED
    BY <1>4, <1>10, <2>3, <2>4
<1>11. ASSUME ~script.inline, NEW j \in 1 .. Len(T), T[j].k = "release" PROVE FALSE
  <2>1. T[j].k \in WorkKinds /\ ~Works(T[j])
    BY <1>11 DEF WorkKinds, Works
  <2>2. j \in 1 .. n /\ j # n /\ ctl[j].k = "release"
    BY <1>7, <1>11, <2>1
  <2>3. j = Len(ctl)
    BY <1>1, <1>11, <2>2 DEF BuildsAlone
  <2> QED
    BY <2>2, <2>3
<1> QED
  BY <1>4, <1>9, <1>10, <1>11 DEF BuildsAlone, SameScript, Works, Top

\* What lies under the work, and what takes its place, holds the same reactions.
LEMMA WorkFiled ==
  ASSUME NEW H, NEW U, Inv(H, U), NEW P, Whole(P), ctl # <<>>, Top.k \in WorkKinds,
         NEW c, c = Top.p, NEW n, n = Len(ctl), NEW b, NEW S, GivesWay(S, b)
  PROVE  /\ \A j \in 1 .. Len(S) : Filed(S[j].todo, OnStack(j), P)
         /\ \A k \in DOMAIN P :
              \E d \in DOMAIN agg : \E i \in DOMAIN agg[d].items :
                /\ k = <<d, i>> /\ agg[d].items[i] \in Promise
                /\ \/ P[k] = OnList(agg[d].items[i])
                   \/ \E j \in 1 .. Len(S) : /\ P[k] = OnStack(j) /\ S[j].k = "drain"
                                             /\ S[j].p = agg[d].items[i]
<1>1. /\ TypeOK /\ Ledger(P) /\ n \in Nat \ {0} /\ n \in 1 .. n /\ Top = ctl[n] /\ Top.todo = <<>>
  BY WorkFacts
<1>3. /\ Reaches(S, n - 1, c) /\ S \in Seq(Activation)
      /\ \/ S = Below /\ Len(S) = n - 1
         \/ S = Replaced(b) /\ Len(S) = n /\ S[n] = b
  <2>1. Reaches(S, n - 1, c)
    BY GivesWayFacts
  <2>2. S \in Seq(Activation)
    BY <2>1 DEF Reaches
  <2>3. (S = Below /\ Len(S) = n - 1) \/ (S = Replaced(b) /\ Len(S) = n /\ S[n] = b)
    BY GivesWayFacts
  <2> QED
    BY <2>1, <2>2, <2>3
<1>4. \A j \in 1 .. n - 1 : j \in 1 .. n /\ S[j] = ctl[j]
  BY <1>1, <1>3 DEF Reaches
<1>5. \A k \in DOMAIN P : P[k] # OnStack(n)
  <2>1. {k \in DOMAIN P : P[k] = OnStack(n)} = {}
    BY <1>1, NoKeys DEF Ledger, Filed
  <2> QED
    BY <2>1
<1>6. ASSUME NEW j \in 1 .. Len(S) PROVE Filed(S[j].todo, OnStack(j), P)
  <2>1. CASE j \in 1 .. n - 1
    BY <1>1, <1>4, <2>1 DEF Ledger
  <2>2. CASE j = n /\ S[n].todo = <<>>
    BY <1>5, <2>2, NoKeys DEF Filed
  <2>3. j \in 1 .. n - 1 \/ (j = n /\ S[n].todo = <<>>)
    <3>1. Len(Below) = n - 1
      BY <1>1, StackType
    <3>2. S = Below \/ b.todo = <<>>
      BY DEF GivesWay
    <3> QED
      BY <1>1, <1>3, <3>1, <3>2
  <2> QED
    BY <2>1, <2>2, <2>3
<1>7. ASSUME NEW k \in DOMAIN P
      PROVE  \E d \in DOMAIN agg : \E i \in DOMAIN agg[d].items :
                /\ k = <<d, i>> /\ agg[d].items[i] \in Promise
                /\ \/ P[k] = OnList(agg[d].items[i])
                   \/ \E j \in 1 .. Len(S) : /\ P[k] = OnStack(j) /\ S[j].k = "drain"
                                             /\ S[j].p = agg[d].items[i]
  <2>1. \A j \in 1 .. n : P[k] = OnStack(j) => j \in 1 .. Len(S) /\ S[j] = ctl[j]
    <3> SUFFICES ASSUME NEW j \in 1 .. n, P[k] = OnStack(j) PROVE j \in 1 .. Len(S) /\ S[j] = ctl[j]
      OBVIOUS
    <3>1. j # n
      BY <1>5
    <3>2. j \in 1 .. n - 1
      BY <1>1, <3>1
    <3>3. j \in 1 .. Len(S)
      BY <1>1, <1>3, <3>2
    <3> QED
      BY <1>4, <3>2, <3>3
  <2> QED
    BY <1>1, <2>1 DEF Ledger
<1> QED
  BY <1>6, <1>7

\* So it keeps the books.
LEMMA WorkLedger ==
  ASSUME NEW H, NEW U, Inv(H, U), NEW P, Whole(P), ctl # <<>>, Top.k \in WorkKinds,
         NEW b, NEW S, GivesWay(S, b), NEW T, T = ctl', Overlies(S, T),
         reactions' = reactions, AggregatesGoOn
  PROVE  Ledger(P)'
<1>1. PICK n, c : n = Len(ctl) /\ c = Top.p
  OBVIOUS
<1>2. TypeOK /\ Ledger(P)
  BY <1>1, WorkFacts
<1>3. S \in Seq(Activation)
  BY <1>1, GivesWayFacts
<1>4. /\ \A j \in 1 .. Len(S) : Filed(S[j].todo, OnStack(j), P)
      /\ \A k \in DOMAIN P :
           \E d \in DOMAIN agg : \E i \in DOMAIN agg[d].items :
             /\ k = <<d, i>> /\ agg[d].items[i] \in Promise
             /\ \/ P[k] = OnList(agg[d].items[i])
                \/ \E j \in 1 .. Len(S) : /\ P[k] = OnStack(j) /\ S[j].k = "drain"
                                          /\ S[j].p = agg[d].items[i]
  BY <1>1, WorkFiled
<1>5. \A q \in Promise : Filed(reactions'[q], OnList(q), P)
  BY <1>2 DEF Ledger
<1>6. ASSUME NEW k \in DOMAIN P
      PROVE  \E d \in DOMAIN agg' : \E i \in DOMAIN agg'[d].items :
               /\ k = <<d, i>> /\ agg'[d].items[i] \in Promise
               /\ \/ P[k] = OnList(agg'[d].items[i])
                  \/ \E j \in 1 .. Len(S) : /\ P[k] = OnStack(j) /\ S[j].k = "drain"
                                            /\ S[j].p = agg'[d].items[i]
  <2>1. PICK d \in DOMAIN agg : \E i \in DOMAIN agg[d].items :
             /\ k = <<d, i>> /\ agg[d].items[i] \in Promise
             /\ \/ P[k] = OnList(agg[d].items[i])
                \/ \E j \in 1 .. Len(S) : /\ P[k] = OnStack(j) /\ S[j].k = "drain"
                                          /\ S[j].p = agg[d].items[i]
    BY <1>4
  <2>2. PICK i \in DOMAIN agg[d].items :
             /\ k = <<d, i>> /\ agg[d].items[i] \in Promise
             /\ \/ P[k] = OnList(agg[d].items[i])
                \/ \E j \in 1 .. Len(S) : /\ P[k] = OnStack(j) /\ S[j].k = "drain"
                                          /\ S[j].p = agg[d].items[i]
    BY <2>1
  <2>3. /\ d \in DOMAIN agg' /\ i \in DOMAIN agg'[d].items
        /\ agg'[d].items[i] = agg[d].items[i]
    BY <2>2, PromiseAssumption DEF AggregatesGoOn
  <2> QED
    BY <2>2, <2>3
<1> QED
  BY <1>3, <1>4, <1>5, <1>6, LedgerTo

\* A step of the aggregation of c keeps the whole, if it keeps the account of c.
LEMMA WorkWhole ==
  ASSUME NEW H, NEW U, Inv(H, U), TypeOK', NEW P, Whole(P), ctl # <<>>, Top.k \in WorkKinds,
         NEW c, c = Top.p, NEW b, NEW S, GivesWay(S, b), SameScript,
         \/ ctl' = S
         \/ \E a \in Activation : /\ ctl' = Append(S, a) /\ a.todo = <<>> /\ a.k \notin WorkKinds
                                  /\ Lone(a)' /\ (script.inline => a.k = "enter" /\ a.p = c),
         script.inline => reactions'[c] = reactions[c] /\ agg'[c].items = agg[c].items,
         NEW q, Turns(q), q = c \/ q \notin DOMAIN agg,
         q \in Promise /\ state'[q] = "PENDING" => Backed(q)',
         DOMAIN agg' = DOMAIN agg, \A d \in DOMAIN agg : d # c => agg'[d] = agg[d],
         open \subseteq open', open' \cap DOMAIN agg = {},
         \A y \in Promise :
           \/ reactions'[y] = reactions[y]
           \/ \E r \in Reaction : reactions'[y] = Append(reactions[y], r) /\ Theirs(r)',
         NEW P2, \A d, i : d # c => (<<d, i>> \in DOMAIN P2 <=> <<d, i>> \in DOMAIN P),
         Ledger(P2)', Account(c, P2)'
  PROVE  Whole(P2)'
<1>1. PICK n, T : n = Len(ctl) /\ T = ctl'
  OBVIOUS
<1>2. /\ TypeOK /\ AggsAlone /\ AllBacked /\ c \in DOMAIN agg
      /\ \A d \in DOMAIN agg : Account(d, P)
  BY <1>1, WorkFacts
<1>3. AllLone(S) /\ StillBacks(S, None) /\ Reaches(S, n - 1, c)
  BY <1>1, GivesWayFacts
<1>4. AggsAlone'
  <2>1. ctl' = S \/ \E a \in Activation : ctl' = Append(S, a) /\ Lone(a)'
    OBVIOUS
  <2>2. open' \cap DOMAIN agg' = {} /\ \A d \in DOMAIN agg' : d \in DOMAIN agg \/ d \notin Born
    OBVIOUS
  <2>3. \A y \in Promise :
           \/ reactions'[y] = reactions[y]
           \/ reactions'[y] = <<>>
           \/ \E r \in Reaction : reactions'[y] = Append(reactions[y], r) /\ Theirs(r)'
    OBVIOUS
  <2> QED
    BY <1>2, <1>3, <2>1, <2>2, <2>3, LoneStep
<1>5. AllBacked'
  <2>1. StillBacks(S, q)
    <3>1. None \notin Promise
      BY <1>2, NatFacts
    <3> QED
      BY <1>3, <3>1 DEF StillBacks
  <2>2. ctl' = S \/ \E a \in Activation : ctl' = Append(S, a)
    OBVIOUS
  <2>3. \A y \in Promise :
           \/ reactions'[y] = reactions[y]
           \/ reactions'[y] = <<>> /\ \E j \in 1 .. Len(S) : S[j].todo = reactions[y]
           \/ \E r \in Reaction : reactions'[y] = Append(reactions[y], r)
    OBVIOUS
  <2>4. \A y \in Promise : y # q /\ state'[y] = "PENDING" => state[y] = "PENDING"
    BY DEF Turns
  <2>5. script'.may = script.may /\ DOMAIN agg \subseteq DOMAIN agg'
        /\ \A y \in open : y # q => y \in open'
    BY DEF SameScript
  <2> QED
    BY <1>2, <2>1, <2>2, <2>3, <2>4, <2>5, BackedStep
<1>6. BuildsAlone'
  <2>1. \/ ctl' = S
        \/ \E a \in Activation : /\ ctl' = Append(S, a) /\ a.todo = <<>> /\ a.k \notin WorkKinds
                                 /\ script.inline => a.k = "enter" /\ a.p = c
    OBVIOUS
  <2> QED
    BY <1>1, <2>1, WorksBuilds
<1>7. ASSUME NEW d \in DOMAIN agg PROVE Account(d, P2)'
  <2>1. CASE d = c
    BY <2>1
  <2>2. CASE d # c
    <3>1. Overlies(S, T)
      BY <1>1 DEF Overlies
    <3>2. q # d /\ d \in DOMAIN agg' /\ agg'[d] = agg[d]
          /\ \A i \in DOMAIN agg[d].items : <<d, i>> \in DOMAIN P2 <=> <<d, i>> \in DOMAIN P
      BY <2>2
    <3> QED
      BY <1>1, <1>2, <1>3, <2>2, <3>1, <3>2, OthersStay
  <2> QED
    BY <2>1, <2>2
<1>8. Accounts(P2)'
  <2>1. \A d \in DOMAIN agg' : Account(d, P2)'
    BY <1>7
  <2> QED
    BY <2>1 DEF Accounts
<1> QED
  BY <1>4, <1>5, <1>6, <1>8 DEF Whole

\* Sizes of finite sets.
LEMMA SizeFacts ==
  ASSUME NEW S, IsFiniteSet(S)
  PROVE  /\ Cardinality(S) \in Nat /\ (Cardinality(S) = 0 <=> S = {})
         /\ \A x \in S : Cardinality(S \ {x}) = Cardinality(S) - 1 /\ Cardinality(S) >= 1
         /\ \A x : x \notin S => Cardinality(S \cup {x}) = Cardinality(S) + 1
<1>1. Cardinality(S) \in Nat /\ (Cardinality(S) = 0 <=> S = {})
  BY FS_EmptySet, FS_CardinalityType
<1>2. \A x \in S : Cardinality(S \ {x}) = Cardinality(S) - 1 /\ Cardinality(S) >= 1
  BY <1>1, FS_RemoveElement
<1>3. \A x : x \notin S => Cardinality(S \cup {x}) = Cardinality(S) + 1
  BY FS_AddElement
<1> QED
  BY <1>1, <1>2, <1>3

\* The sets of an account are finite.
LEMMA TallyFacts ==
  ASSUME TypeOK, AggregatesProper, NEW c \in DOMAIN agg, NEW P
  PROVE  /\ IsFiniteSet(Claims(c, P)) /\ \A k : IsFiniteSet(Posts(c, k))
         /\ agg[c] \in Context /\ c \in Promise
         /\ Len(agg[c].items) \in Nat /\ DOMAIN agg[c].items = 1 .. Len(agg[c].items)
         /\ DOMAIN agg[c].values = DOMAIN agg[c].items
<1>1. agg[c] \in Context /\ Len(agg[c].values) = Len(agg[c].items) /\ c \in Promise
  BY DEF TypeOK, AggregatesProper
<1>2. /\ Len(agg[c].items) \in Nat /\ DOMAIN agg[c].items = 1 .. Len(agg[c].items)
      /\ DOMAIN agg[c].values = 1 .. Len(agg[c].values) /\ Len(ctl) \in Nat
  BY <1>1, LenProperties DEF Context, TypeOK
<1>3. IsFiniteSet(Claims(c, P))
  <2>1. Claims(c, P) \subseteq DOMAIN agg[c].items
    BY DEF Claims
  <2>2. IsFiniteSet(1 .. Len(agg[c].items))
    <3>1. \A k \in Nat : IsFiniteSet(1 .. k)
      BY FS_Interval
    <3> QED
      BY <1>2, <3>1
  <2> QED
    BY <1>2, <2>1, <2>2, FS_Subset
<1>4. ASSUME NEW k PROVE IsFiniteSet(Posts(c, k))
  <2>1. Posts(c, k) \subseteq 1 .. Len(ctl) /\ IsFiniteSet(1 .. Len(ctl))
    BY <1>2, FS_Interval DEF Posts, PostsIn
  <2> QED
    BY <2>1, FS_Subset
<1> QED
  BY <1>1, <1>2, <1>3, <1>4

\* An account, from values of its parts.
LEMMA AccountIs ==
  ASSUME NEW c, NEW P, NEW K, K = Claims(c, P)', NEW R, R = Posts(c, "release")',
         NEW B, B = Posts(c, "build")', NEW W, W = Posts(c, "built")', NEW X, X = agg'[c], NEW T, T = ctl',
         NEW st, st = state'[c],
         st \in {"PENDING"} \cup Final, (X.settled <=> st \in Final),
         X.live = Cardinality(K) + Cardinality(R),
         X.freed <=> (K = {} /\ R = {} /\ B = {} /\ W = {}),
         st = "PENDING" =>
           /\ X.remaining = Cardinality(K)
           /\ K = {} => B # {}
           /\ \A i \in DOMAIN X.items : i \in K \/ Stored(c, i)' \/ \E j \in B : i >= T[j].at,
         \A j \in B : \A i \in K : i < T[j].at,
         st = "FULFILLED" => \A i \in DOMAIN X.items : Stored(c, i)',
         st = "REJECTED" => Failed(c)'
  PROVE  Account(c, P)'
BY DEF Account

\* The account of c as it is, for values of its sets.
Tally(c, P, K, R, B, W) ==
  /\ K = Claims(c, P) /\ R = Posts(c, "release")
  /\ B = Posts(c, "build") /\ W = Posts(c, "built")

\* And the other way round.
LEMMA AccountWas ==
  ASSUME NEW c, NEW P, Account(c, P), NEW K, NEW R, NEW B, NEW W, Tally(c, P, K, R, B, W)
  PROVE  /\ state[c] \in {"PENDING"} \cup Final /\ (agg[c].settled <=> state[c] \in Final)
         /\ agg[c].live = Cardinality(K) + Cardinality(R)
         /\ agg[c].freed <=> (K = {} /\ R = {} /\ B = {} /\ W = {})
         /\ state[c] = "PENDING" =>
              /\ agg[c].remaining = Cardinality(K)
              /\ K = {} => B # {}
              /\ \A i \in DOMAIN agg[c].items :
                   i \in K \/ Stored(c, i) \/ \E j \in B : i >= ctl[j].at
         /\ \A j \in B : \A i \in K : i < ctl[j].at
         /\ state[c] = "FULFILLED" => \A i \in DOMAIN agg[c].items : Stored(c, i)
         /\ state[c] = "REJECTED" => Failed(c)
BY DEF Account, Tally

\* What settles stays settled, and so what was stored of it.
LEMMA StoredStays ==
  ASSUME TypeOK, NEW q, Turns(q), NEW c \in DOMAIN agg, NEW i \in DOMAIN agg[c].items, Stored(c, i),
         agg'[c].items[i] = agg[c].items[i], agg'[c].values[i] = agg[c].values[i],
         agg'[c].all = agg[c].all
  PROVE  Stored(c, i)'
<1>1. \A y \in Promise : state[y] \in Final => state'[y] = state[y] /\ value'[y] = value[y]
  BY NatFacts DEF Turns
<1> QED
  BY <1>1 DEF Stored

LEMMA FailedStays ==
  ASSUME TypeOK, NEW q, Turns(q), NEW c \in DOMAIN agg, Failed(c), q # c,
         agg'[c].items = agg[c].items, agg'[c].all = agg[c].all
  PROVE  Failed(c)'
<1>1. \A y \in Promise : state[y] \in Final => state'[y] = state[y] /\ value'[y] = value[y]
  BY NatFacts DEF Turns
<1>2. value'[c] = value[c]
  BY DEF Turns, TypeOK
<1> QED
  BY <1>1, <1>2 DEF Failed, Final

\* The works of c, by what is on top.
LEMMA WorkPosts ==
  ASSUME NEW H, NEW U, Inv(H, U), NEW P, Whole(P), ctl # <<>>, Top.k \in WorkKinds,
         NEW c, c = Top.p, NEW n, n = Len(ctl)
  PROVE  /\ n \in Posts(c, Top.k) /\ \A k : k # Top.k => n \notin Posts(c, k)
         /\ Top.k = "build" => Posts(c, "build") = {n} /\ Posts(c, "built") = {}
         /\ Top.k = "built" => Posts(c, "built") = {n} /\ Posts(c, "build") = {}
         /\ Top.k = "release" => Posts(c, "built") = {} /\ Posts(c, "build") = {}
<1>1. /\ n \in 1 .. n /\ Top = ctl[n]
      /\ Top.k = "release" => \A j \in 1 .. n : ~Works(ctl[j])
      /\ Works(Top) => \A j \in 1 .. n : Works(ctl[j]) /\ ctl[j].p = c => j = n
  BY WorkFacts
<1>2. \A k, j : j \in Posts(c, k) <=> j \in 1 .. n /\ ctl[j].k = k /\ ctl[j].p = c
  BY DEF Posts, PostsIn
<1>3. n \in Posts(c, Top.k) /\ \A k : k # Top.k => n \notin Posts(c, k)
  BY <1>1, <1>2
<1>4. \A j \in 1 .. n : ctl[j].k \in {"build", "built"} => Works(ctl[j])
  BY DEF Works
<1>5. Top.k \in {"build", "built"} => Works(Top)
  BY DEF Works
<1>6. \A j : (j \in Posts(c, "build") \/ j \in Posts(c, "built")) /\ Works(Top) => j = n
  BY <1>1, <1>2, <1>4
<1>7. Top.k = "release" => \A j : j \notin Posts(c, "build") /\ j \notin Posts(c, "built")
  BY <1>1, <1>2, <1>4
<1> QED
  BY <1>3, <1>5, <1>6, <1>7

----------------------------------------------------------------------------
(* An aggregation ends its work.                                           *)

\* The works of c once its work on top has gone.
LEMMA PostsGone ==
  ASSUME NEW H, NEW U, Inv(H, U), NEW P, Whole(P), ctl # <<>>, Top.k \in WorkKinds,
         NEW c, c = Top.p, NEW n, n = Len(ctl), ctl' = Below
  PROVE  \A k \in WorkKinds : Posts(c, k)' = Posts(c, k) \ {n}
<1>1. PICK S, b : S = Below /\ b = Top
  OBVIOUS
<1>2. GivesWay(S, b)
  BY <1>1 DEF GivesWay
<1>3. /\ S = Below /\ Len(S) = n - 1 /\ Len(ctl) = n /\ n \in Nat \ {0}
      /\ \A j \in 1 .. n - 1 : S[j] = ctl[j]
  BY <1>1, WorkFacts, StackType
<1>4. ASSUME NEW k \in WorkKinds, NEW j PROVE j \in Posts(c, k)' <=> j \in Posts(c, k) \ {n}
  <2>1. j \in Posts(c, k)' <=> j \in 1 .. n - 1 /\ ctl[j].k = k /\ ctl[j].p = c
    BY <1>1, <1>3 DEF Posts, PostsIn
  <2>2. j \in Posts(c, k) <=> j \in 1 .. n /\ ctl[j].k = k /\ ctl[j].p = c
    BY <1>3 DEF Posts, PostsIn
  <2>3. j \in 1 .. n - 1 <=> j \in 1 .. n /\ j # n
    BY <1>3
  <2> QED
    BY <2>1, <2>2, <2>3
<1>5. ASSUME NEW k \in WorkKinds PROVE Posts(c, k)' = Posts(c, k) \ {n}
  <2>1. \A j : j \in Posts(c, k)' <=> j \in Posts(c, k) \ {n}
    BY <1>4
  <2> QED
    BY <2>1
<1> QED
  BY <1>5

\* promise_agg_release, and the end of the call.
LEMMA ReleaseWhole ==
  ASSUME NEW H, NEW U, Inv(H, U), TypeOK', NEW P, Whole(P), Release \/ Built
  PROVE  Whole(P)'
<1>1. PICK c, n, S, X : c = Top.p /\ n = Len(ctl) /\ S = Below /\ X = agg'[c]
  OBVIOUS
<1>2. /\ ctl # <<>> /\ Top.k \in {"release", "built"} /\ ctl' = S /\ script' = script
      /\ UNCHANGED promiseVars
  BY <1>1 DEF Release, Built, Ends, Skip, Keep
<1>3. Top.k \in WorkKinds /\ SameScript /\ GivesWay(S, Top)
  BY <1>1, <1>2 DEF WorkKinds, SameScript, GivesWay
<1>4. /\ TypeOK /\ AggsAlone /\ c \in DOMAIN agg /\ c \in Promise /\ Account(c, P) /\ AggregatesProper
  BY <1>1, <1>2, <1>3, WorkFacts, InvFacts
<1>5. /\ state' = state /\ value' = value /\ reactions' = reactions /\ open' = open
  BY <1>2 DEF promiseVars
<1>6. Turns(None) /\ None \notin Promise /\ None \notin DOMAIN agg /\ None # c
  BY <1>4, <1>5, NatFacts DEF Turns, TypeOK
<1>7. PICK K, R, B, W : Tally(c, P, K, R, B, W)
  BY DEF Tally
<1>8. /\ IsFiniteSet(K) /\ IsFiniteSet(R) /\ agg[c] \in Context
  BY <1>4, <1>7, TallyFacts DEF Tally
<1>9. /\ DOMAIN agg' = DOMAIN agg /\ (\A d \in DOMAIN agg : d # c => agg'[d] = agg[d])
      /\ X.items = agg[c].items /\ X.values = agg[c].values /\ X.all = agg[c].all
      /\ X.remaining = agg[c].remaining /\ X.settled = agg[c].settled
      /\ Top.k = "release" => /\ X.live = (IF agg[c].live > 0 THEN agg[c].live - 1 ELSE 0)
                              /\ (X.freed <=> agg[c].live <= 1)
      /\ Top.k = "built" => X.live = agg[c].live /\ (X.freed <=> agg[c].freed \/ agg[c].live = 0)
  <2>1. CASE Release
    BY <1>1, <1>4, <1>8, <2>1 DEF Release, Ends, Context
  <2>2. CASE Built
    BY <1>1, <1>4, <1>8, <2>2 DEF Built, Ends, Context
  <2> QED
    BY <2>1, <2>2
<1>10. AggregatesGoOn
  BY <1>1, <1>9 DEF AggregatesGoOn
<1>11. Ledger(P)'
  <2>1. PICK T : T = ctl'
    OBVIOUS
  <2>2. Overlies(S, T)
    BY <1>2, <2>1 DEF Overlies
  <2> QED
    BY <1>2, <1>3, <1>5, <1>10, <2>1, <2>2, WorkLedger
<1>12. /\ K = Claims(c, P)' /\ R \ {n} = Posts(c, "release")'
       /\ B \ {n} = Posts(c, "build")' /\ W \ {n} = Posts(c, "built")'
  <2>1. K = Claims(c, P)'
    BY <1>1, <1>7, <1>9 DEF Tally, Claims
  <2>2. \A k \in WorkKinds : Posts(c, k)' = Posts(c, k) \ {n}
    BY <1>1, <1>2, <1>3, PostsGone
  <2> QED
    BY <1>7, <2>1, <2>2 DEF Tally, WorkKinds
<1>13. /\ B = {} /\ B \ {n} = {} /\ W \ {n} = {}
       /\ Top.k = "release" => W = {} /\ n \in R
       /\ Top.k = "built" => W # {} /\ R \ {n} = R
  <2>1. /\ n \in Posts(c, Top.k) /\ \A k : k # Top.k => n \notin Posts(c, k)
        /\ Top.k = "built" => Posts(c, "built") = {n} /\ Posts(c, "build") = {}
        /\ Top.k = "release" => Posts(c, "built") = {} /\ Posts(c, "build") = {}
    BY <1>1, <1>2, <1>3, WorkPosts
  <2> QED
    BY <1>2, <1>7, <2>1 DEF Tally
<1>14. /\ (agg[c].settled <=> state[c] \in Final) /\ state[c] \in {"PENDING"} \cup Final
       /\ agg[c].live = Cardinality(K) + Cardinality(R)
       /\ agg[c].freed <=> (K = {} /\ R = {} /\ B = {} /\ W = {})
       /\ state[c] = "PENDING" =>
            /\ agg[c].remaining = Cardinality(K)
            /\ K = {} => B # {}
            /\ \A i \in DOMAIN agg[c].items :
                 i \in K \/ Stored(c, i) \/ \E j \in B : i >= ctl[j].at
       /\ state[c] = "FULFILLED" => \A i \in DOMAIN agg[c].items : Stored(c, i)
       /\ state[c] = "REJECTED" => Failed(c)
  BY <1>4, <1>7, AccountWas
<1>15. /\ X.live = Cardinality(K) + Cardinality(R \ {n})
       /\ X.freed <=> (K = {} /\ R \ {n} = {} /\ B \ {n} = {} /\ W \ {n} = {})
  <2>1. /\ Cardinality(K) \in Nat /\ (Cardinality(K) = 0 <=> K = {})
        /\ Cardinality(R) \in Nat /\ (Cardinality(R) = 0 <=> R = {})
        /\ n \in R => Cardinality(R \ {n}) = Cardinality(R) - 1 /\ Cardinality(R) >= 1
    BY <1>8, SizeFacts
  <2>2. CASE Top.k = "release"
    <3>1. IsFiniteSet(R \ {n})
      BY <1>8, FS_RemoveElement
    <3>2. Cardinality(R \ {n}) \in Nat /\ (Cardinality(R \ {n}) = 0 <=> R \ {n} = {})
      BY <3>1, SizeFacts
    <3>3. X.live = Cardinality(K) + Cardinality(R \ {n})
      BY <1>9, <1>13, <1>14, <2>1, <2>2
    <3>4. agg[c].live <= 1 <=> Cardinality(K) = 0 /\ Cardinality(R \ {n}) = 0
      BY <1>13, <1>14, <2>1, <2>2, <3>2
    <3>5. (agg[c].live <= 1) = (K = {} /\ R \ {n} = {} /\ B \ {n} = {} /\ W \ {n} = {})
      BY <1>13, <2>1, <3>2, <3>4
    <3> QED
      BY <1>9, <2>2, <3>3, <3>5
  <2>3. CASE Top.k = "built"
    <3>1. X.live = Cardinality(K) + Cardinality(R \ {n})
      BY <1>9, <1>13, <1>14, <2>3
    <3>2. agg[c].live = 0 <=> K = {} /\ R = {}
      BY <1>14, <2>1
    <3>3. agg[c].freed = FALSE
      BY <1>13, <1>14, <2>3
    <3>4. (agg[c].freed \/ agg[c].live = 0) = (K = {} /\ R \ {n} = {} /\ B \ {n} = {} /\ W \ {n} = {})
      BY <1>13, <2>3, <3>2, <3>3
    <3> QED
      BY <1>9, <2>3, <3>1, <3>4
  <2> QED
    BY <1>2, <2>2, <2>3
<1>16. /\ \A i \in DOMAIN agg[c].items : Stored(c, i) => Stored(c, i)'
       /\ Failed(c) => Failed(c)'
  BY <1>1, <1>4, <1>6, <1>9, StoredStays, FailedStays
<1>17. Account(c, P)'
  <2>1. PICK R2, B2, W2, st, T : /\ R2 = R \ {n} /\ B2 = B \ {n} /\ W2 = W \ {n} /\ st = state'[c]
                                 /\ T = ctl'
    OBVIOUS
  <2>2. /\ R2 = Posts(c, "release")' /\ B2 = Posts(c, "build")' /\ W2 = Posts(c, "built")' /\ B2 = {}
        /\ X.live = Cardinality(K) + Cardinality(R2)
        /\ X.freed <=> (K = {} /\ R2 = {} /\ B2 = {} /\ W2 = {})
        /\ st = state[c]
    BY <1>5, <1>12, <1>13, <1>15, <2>1
  <2>3. st = "PENDING" =>
          /\ X.remaining = Cardinality(K)
          /\ K = {} => B2 # {}
          /\ \A i \in DOMAIN X.items : i \in K \/ Stored(c, i)' \/ \E j \in B2 : i >= T[j].at
    BY <1>9, <1>13, <1>14, <1>16, <2>2
  <2>4. /\ st \in {"PENDING"} \cup Final /\ (X.settled <=> st \in Final)
        /\ \A j \in B2 : \A i \in K : i < T[j].at
        /\ st = "FULFILLED" => \A i \in DOMAIN X.items : Stored(c, i)'
        /\ st = "REJECTED" => Failed(c)'
    BY <1>9, <1>14, <1>16, <2>2
  <2>5. K = Claims(c, P)' /\ X = agg'[c] /\ T = ctl' /\ st = state'[c]
    BY <1>1, <1>12, <2>1
  <2> QED
    BY <2>2, <2>3, <2>4, <2>5, AccountIs
<1>18. open \subseteq open' /\ open' \cap DOMAIN agg = {}
  BY <1>4, <1>5 DEF AggsAlone
<1> QED
  BY <1>1, <1>2, <1>3, <1>4, <1>5, <1>6, <1>9, <1>11, <1>17, <1>18, WorkWhole

\* The works of c once b has taken the place of its work on top.
LEMMA PostsTurned ==
  ASSUME NEW H, NEW U, Inv(H, U), NEW P, Whole(P), ctl # <<>>, Top.k \in WorkKinds,
         NEW c, c = Top.p, NEW n, n = Len(ctl), NEW b, NEW S, S = Replaced(b), GivesWay(S, b),
         NEW T, T = ctl', Overlies(S, T), b.k \in WorkKinds
  PROVE  /\ \A k \in WorkKinds : Posts(c, k)' = (Posts(c, k) \ {n}) \cup (IF b.k = k THEN {n} ELSE {})
         /\ T[n] = b
<1>1. /\ S \in Seq(Activation) /\ Len(S) = n /\ S[n] = b /\ n \in 1 .. n /\ b.p = c
      /\ n \in Nat \ {0} /\ \A j \in 1 .. n - 1 : S[j] = ctl[j]
  <2>1. TypeOK /\ n \in Nat \ {0} /\ n \in 1 .. n
    BY WorkFacts
  <2>2. b \in Activation /\ b.p = c
    <3>1. Len(Below) = n - 1 /\ Below \in Seq(Activation)
      BY <2>1, StackType
    <3>2. Len(Append(Below, b)) = n
      BY <2>1, <3>1, AppendProperties
    <3>3. S # Below
      BY <2>1, <3>1, <3>2 DEF Replaced
    <3> QED
      BY <3>3 DEF GivesWay
  <2> QED
    BY <2>1, <2>2, ReplacedType
<1>2. /\ \A j \in 1 .. Len(S) : j \in 1 .. Len(T) /\ T[j] = S[j]
      /\ \A k \in WorkKinds : PostsIn(T, c, k) = PostsIn(S, c, k)
  BY <1>1, OverFacts
<1>3. ASSUME NEW k \in WorkKinds, NEW j
      PROVE  j \in PostsIn(S, c, k) <=> (j \in Posts(c, k) /\ j # n) \/ (j = n /\ b.k = k)
  <2>1. j \in PostsIn(S, c, k) <=> j \in 1 .. n /\ S[j].k = k /\ S[j].p = c
    BY <1>1 DEF PostsIn
  <2>2. j \in Posts(c, k) <=> j \in 1 .. n /\ ctl[j].k = k /\ ctl[j].p = c
    BY DEF Posts, PostsIn
  <2>3. j \in 1 .. n - 1 <=> j \in 1 .. n /\ j # n
    BY <1>1
  <2> QED
    BY <1>1, <2>1, <2>2, <2>3
<1>4. ASSUME NEW k \in WorkKinds
      PROVE  PostsIn(S, c, k) = (Posts(c, k) \ {n}) \cup (IF b.k = k THEN {n} ELSE {})
  <2>1. \A j : j \in PostsIn(S, c, k) <=> j \in (Posts(c, k) \ {n}) \cup (IF b.k = k THEN {n} ELSE {})
    BY <1>3
  <2> QED
    BY <2>1
<1>5. \A k : Posts(c, k)' = PostsIn(T, c, k)
  BY DEF Posts, PostsIn
<1> QED
  BY <1>1, <1>2, <1>4, <1>5

\* The works of c while its building goes on or ends.
LEMMA PostsBuilding ==
  ASSUME NEW H, NEW U, Inv(H, U), NEW P, Whole(P), ctl # <<>>, Top.k \in WorkKinds, Works(Top),
         NEW c, c = Top.p, NEW n, n = Len(ctl), NEW b, NEW S, S = Replaced(b), GivesWay(S, b),
         NEW T, T = ctl', Overlies(S, T), b.k \in {"build", "built"}
  PROVE  /\ Posts(c, "release")' = Posts(c, "release")
         /\ Posts(c, "build")' = (IF b.k = "build" THEN {n} ELSE {})
         /\ Posts(c, "built")' = (IF b.k = "built" THEN {n} ELSE {})
         /\ T[n] = b
<1>1. /\ \A k \in WorkKinds : Posts(c, k)' = (Posts(c, k) \ {n}) \cup (IF b.k = k THEN {n} ELSE {})
      /\ T[n] = b
  <2>1. b.k \in WorkKinds
    BY DEF WorkKinds
  <2> QED
    BY <2>1, PostsTurned
<1>2. /\ n \in Posts(c, Top.k) /\ \A k : k # Top.k => n \notin Posts(c, k)
      /\ Top.k = "build" => Posts(c, "build") = {n} /\ Posts(c, "built") = {}
      /\ Top.k = "built" => Posts(c, "built") = {n} /\ Posts(c, "build") = {}
  BY WorkPosts
<1>3. /\ n \notin Posts(c, "release")
      /\ Posts(c, "build") \ {n} = {} /\ Posts(c, "built") \ {n} = {}
  BY <1>2 DEF Works
<1>4. Posts(c, "release")' = (Posts(c, "release") \ {n}) \cup {}
  BY <1>1 DEF WorkKinds
<1>5. Posts(c, "build")' = (Posts(c, "build") \ {n}) \cup (IF b.k = "build" THEN {n} ELSE {})
  BY <1>1 DEF WorkKinds
<1>6. Posts(c, "built")' = (Posts(c, "built") \ {n}) \cup (IF b.k = "built" THEN {n} ELSE {})
  BY <1>1 DEF WorkKinds
<1>7. Posts(c, "release")' = Posts(c, "release")
  BY <1>3, <1>4
<1> QED
  BY <1>1, <1>3, <1>5, <1>6, <1>7

\* The result of an aggregation settles, or nothing does, with S to go on with.
LEMMA SettlesResult ==
  ASSUME TypeOK, NEW c \in Promise, c \in Born, NEW S, NEW st \in Final, NEW v,
         state[c] = "PENDING", Conclude(c, st, v, None, S), script.inline \in BOOLEAN
  PROVE  /\ Turns(c) /\ state'[c] = st /\ value'[c] = v /\ reactions' = reactions /\ open' = open
         /\ \/ ctl' = S
            \/ \E a \in Activation : /\ ctl' = Append(S, a) /\ a.todo = <<>> /\ a.k \notin WorkKinds
                                     /\ Lone(a)' /\ a.k = "enter" /\ a.p = c /\ script.inline
<1>1. /\ state' = [state EXCEPT ![c] = st] /\ value' = [value EXCEPT ![c] = v]
      /\ reactions' = reactions /\ open' = open /\ Schedule(c, {}, S)
  BY DEF Conclude, Settle
<1>2. Turns(c) /\ state'[c] = st /\ value'[c] = v
  BY <1>1 DEF Turns, TypeOK, Final
<1>3. ctl' = S \/ (script.inline /\ ctl' = Append(S, Active("enter", c)))
  BY <1>1 DEF Schedule, Keep
<1>4. PICK a : a = Active("enter", c)
  OBVIOUS
<1>5. a \in Activation /\ a.k = "enter" /\ a.p = c /\ a.todo = <<>> /\ Len(a.todo) = 0
  BY <1>4, FreshActivation
<1>6. Lone(a)'
  BY <1>5 DEF Lone
<1> QED
  BY <1>1, <1>2, <1>3, <1>4, <1>5, <1>6 DEF WorkKinds

\* The call has looked at every input.
LEMMA BuildEndWhole ==
  ASSUME NEW H, NEW U, Inv(H, U), TypeOK', NEW P, Whole(P), BuildEnd
  PROVE  Whole(P)'
<1>1. PICK c, n, b, S, X, T : /\ c = Top.p /\ n = Len(ctl) /\ b = Active("built", c)
                              /\ S = Replaced(b) /\ X = agg'[c] /\ T = ctl'
  OBVIOUS
<1>2. /\ ctl # <<>> /\ Top.k = "build" /\ Top.wp = None /\ ~Building /\ script' = script
      /\ \/ ~agg[c].settled /\ agg[c].remaining = 0 /\ Finish(c, agg, S)
         \/ (agg[c].settled \/ agg[c].remaining # 0) /\ Skip(S) /\ agg' = agg
  BY <1>1 DEF BuildEnd, Ends
<1>3. Top.k \in WorkKinds /\ SameScript
  BY <1>2 DEF WorkKinds, SameScript
<1>4. /\ TypeOK /\ AggsAlone /\ c \in DOMAIN agg /\ c \in Promise /\ c \in Born /\ Account(c, P)
      /\ AggregatesProper /\ script.inline \in BOOLEAN /\ Top \in Activation /\ n \in Nat \ {0}
      /\ Top = ctl[n]
  BY <1>1, <1>2, <1>3, WorkFacts, InvFacts
<1>5. /\ b \in Activation /\ b.k = "built" /\ b.p = c /\ b.todo = <<>>
      /\ GivesWay(S, b) /\ b.k \in WorkKinds
  <2>1. b \in Activation /\ b.k = "built" /\ b.p = c /\ b.todo = <<>>
    BY <1>1, <1>4, FreshActivation
  <2> QED
    BY <1>1, <1>2, <2>1 DEF GivesWay, Works, WorkKinds
<1>6. None \notin Promise /\ None \notin DOMAIN agg /\ None # c
  BY <1>4, NatFacts DEF TypeOK
<1>7. PICK K, R, B, W : Tally(c, P, K, R, B, W)
  BY DEF Tally
<1>8. /\ IsFiniteSet(K) /\ IsFiniteSet(R) /\ agg[c] \in Context
      /\ Len(agg[c].items) \in Nat /\ DOMAIN agg[c].items = 1 .. Len(agg[c].items)
  BY <1>4, <1>7, TallyFacts DEF Tally
<1>9. B = {n} /\ W = {} /\ n \notin R
  BY <1>1, <1>2, <1>3, <1>7, WorkPosts DEF Tally
<1>10. /\ (agg[c].settled <=> state[c] \in Final) /\ state[c] \in {"PENDING"} \cup Final
       /\ agg[c].live = Cardinality(K) + Cardinality(R)
       /\ agg[c].freed <=> (K = {} /\ R = {} /\ B = {} /\ W = {})
       /\ state[c] = "PENDING" =>
            /\ agg[c].remaining = Cardinality(K)
            /\ K = {} => B # {}
            /\ \A i \in DOMAIN agg[c].items :
                 i \in K \/ Stored(c, i) \/ \E j \in B : i >= ctl[j].at
       /\ state[c] = "FULFILLED" => \A i \in DOMAIN agg[c].items : Stored(c, i)
       /\ state[c] = "REJECTED" => Failed(c)
  BY <1>4, <1>7, AccountWas
<1>11. state[c] = "PENDING" => \A i \in DOMAIN agg[c].items : i \in K \/ Stored(c, i)
  <2> SUFFICES ASSUME state[c] = "PENDING", NEW i \in DOMAIN agg[c].items PROVE i \in K \/ Stored(c, i)
    OBVIOUS
  <2>1. ~agg[c].settled
    BY <1>10 DEF Final
  <2>2. ~(Top.at <= Len(agg[c].items))
    BY <1>1, <1>2, <2>1 DEF Building, Ends
  <2>3. ~(i >= Top.at)
    BY <1>4, <1>8, <2>2 DEF Activation
  <2> QED
    BY <1>4, <1>9, <1>10, <2>3
<1>12. CASE Skip(S) /\ agg' = agg /\ (agg[c].settled \/ agg[c].remaining # 0)
  <2>1. /\ state' = state /\ value' = value /\ reactions' = reactions /\ open' = open /\ ctl' = S
    BY <1>12 DEF Skip, Keep, promiseVars
  <2>2. Turns(None) /\ Overlies(S, T) /\ AggregatesGoOn
    BY <1>1, <1>12, <2>1 DEF Turns, Overlies, AggregatesGoOn
  <2>3. Ledger(P)'
    BY <1>1, <1>2, <1>3, <1>5, <2>1, <2>2, WorkLedger
  <2>4. /\ Posts(c, "release")' = Posts(c, "release")
         /\ Posts(c, "build")' = (IF b.k = "build" THEN {n} ELSE {})
         /\ Posts(c, "built")' = (IF b.k = "built" THEN {n} ELSE {})
    <3>1. /\ ctl # <<>> /\ Top.k \in WorkKinds /\ Works(Top) /\ c = Top.p /\ n = Len(ctl)
          /\ S = Replaced(b) /\ GivesWay(S, b) /\ T = ctl' /\ Overlies(S, T) /\ b.k \in {"build", "built"}
      BY <1>1, <1>2, <1>3, <1>5, <2>2 DEF Works
    <3> QED
      BY <3>1, PostsBuilding
  <2>5. PICK B2, W2, st : B2 = {} /\ W2 = {n} /\ st = state[c]
    OBVIOUS
  <2>6. /\ K = Claims(c, P)' /\ R = Posts(c, "release")' /\ B2 = Posts(c, "build")' /\ W2 = Posts(c, "built")'
        /\ X = agg'[c] /\ T = ctl' /\ st = state'[c]
    <3>1. K = Claims(c, P)'
      BY <1>7, <1>12 DEF Tally, Claims
    <3>2. R = Posts(c, "release")' /\ B2 = Posts(c, "build")' /\ W2 = Posts(c, "built")'
      BY <1>5, <1>7, <2>4, <2>5 DEF Tally
    <3> QED
      BY <1>1, <2>1, <2>5, <3>1, <3>2
  <2>7. /\ \A i \in DOMAIN agg[c].items : Stored(c, i) => Stored(c, i)'
        /\ Failed(c) => Failed(c)'
    BY <1>4, <1>6, <1>12, <2>2, StoredStays, FailedStays
  <2>8. st = "PENDING" =>
          /\ X.remaining = Cardinality(K)
          /\ K = {} => B2 # {}
          /\ \A i \in DOMAIN X.items : i \in K \/ Stored(c, i)' \/ \E j \in B2 : i >= T[j].at
    <3>1. st = "PENDING" => K # {}
      <4>1. st = "PENDING" => ~agg[c].settled /\ agg[c].remaining # 0 /\ agg[c].remaining = Cardinality(K)
        BY <1>10, <1>12, <2>5 DEF Final
      <4> QED
        BY <1>8, <4>1, SizeFacts
    <3> QED
      BY <1>1, <1>10, <1>11, <1>12, <2>5, <2>7, <3>1
  <2>9. /\ st \in {"PENDING"} \cup Final /\ (X.settled <=> st \in Final)
        /\ X.live = Cardinality(K) + Cardinality(R)
        /\ X.freed <=> (K = {} /\ R = {} /\ B2 = {} /\ W2 = {})
        /\ \A j \in B2 : \A i \in K : i < T[j].at
        /\ st = "FULFILLED" => \A i \in DOMAIN X.items : Stored(c, i)'
        /\ st = "REJECTED" => Failed(c)'
    BY <1>1, <1>9, <1>10, <1>12, <2>5, <2>7
  <2>10. Account(c, P)'
    BY <2>6, <2>8, <2>9, AccountIs
  <2>11. open \subseteq open' /\ open' \cap DOMAIN agg = {}
    BY <1>4, <2>1 DEF AggsAlone
  <2> QED
    BY <1>1, <1>2, <1>3, <1>5, <1>6, <1>12, <2>1, <2>2, <2>3, <2>10, <2>11, WorkWhole
<1>13. CASE ~agg[c].settled /\ agg[c].remaining = 0 /\ Finish(c, agg, S)
  <2>1. state[c] = "PENDING" /\ K = {}
    <3>1. state[c] = "PENDING" /\ Cardinality(K) = 0
      BY <1>10, <1>13 DEF Final
    <3> QED
      BY <1>8, <3>1, SizeFacts
  <2>2. Conclude(c, "FULFILLED", Array, None, S) /\ agg' = [agg EXCEPT ![c].settled = TRUE]
    BY <1>13, <2>1 DEF Finish
  <2>3. /\ Turns(c) /\ state'[c] = "FULFILLED" /\ reactions' = reactions /\ open' = open
        /\ \/ ctl' = S
           \/ \E a \in Activation : /\ ctl' = Append(S, a) /\ a.todo = <<>> /\ a.k \notin WorkKinds
                                    /\ Lone(a)' /\ a.k = "enter" /\ a.p = c /\ script.inline
    BY <1>4, <2>1, <2>2, SettlesResult DEF Final
  <2>4. /\ DOMAIN agg' = DOMAIN agg /\ (\A d \in DOMAIN agg : d # c => agg'[d] = agg[d])
        /\ X.items = agg[c].items /\ X.values = agg[c].values /\ X.all = agg[c].all
        /\ X.live = agg[c].live /\ X.settled = TRUE /\ X.freed = agg[c].freed
    BY <1>1, <1>4, <1>8, <2>2 DEF Context
  <2>5. Overlies(S, T) /\ AggregatesGoOn
    BY <1>1, <2>3, <2>4 DEF Overlies, AggregatesGoOn
  <2>6. Ledger(P)'
    BY <1>1, <1>2, <1>3, <1>5, <2>3, <2>5, WorkLedger
  <2>7. /\ Posts(c, "release")' = Posts(c, "release")
         /\ Posts(c, "build")' = (IF b.k = "build" THEN {n} ELSE {})
         /\ Posts(c, "built")' = (IF b.k = "built" THEN {n} ELSE {})
    <3>1. /\ ctl # <<>> /\ Top.k \in WorkKinds /\ Works(Top) /\ c = Top.p /\ n = Len(ctl)
          /\ S = Replaced(b) /\ GivesWay(S, b) /\ T = ctl' /\ Overlies(S, T) /\ b.k \in {"build", "built"}
      BY <1>1, <1>2, <1>3, <1>5, <2>5 DEF Works
    <3> QED
      BY <3>1, PostsBuilding
  <2>8. PICK B2, W2, st : B2 = {} /\ W2 = {n} /\ st = "FULFILLED"
    OBVIOUS
  <2>9. /\ K = Claims(c, P)' /\ R = Posts(c, "release")' /\ B2 = Posts(c, "build")' /\ W2 = Posts(c, "built")'
        /\ X = agg'[c] /\ T = ctl' /\ st = state'[c]
    <3>1. K = Claims(c, P)'
      BY <1>1, <1>7, <2>4 DEF Tally, Claims
    <3>2. R = Posts(c, "release")' /\ B2 = Posts(c, "build")' /\ W2 = Posts(c, "built")'
      BY <1>5, <1>7, <2>7, <2>8 DEF Tally
    <3> QED
      BY <1>1, <2>3, <2>8, <3>1, <3>2
  <2>10. \A i \in DOMAIN agg[c].items : Stored(c, i)'
    <3>1. \A i \in DOMAIN agg[c].items : Stored(c, i)
      BY <1>11, <2>1
    <3>2. agg'[c].items = agg[c].items /\ agg'[c].values = agg[c].values /\ agg'[c].all = agg[c].all
      BY <1>1, <2>4
    <3> QED
      BY <1>4, <2>3, <3>1, <3>2, StoredStays
  <2>11. /\ st \in {"PENDING"} \cup Final /\ (X.settled <=> st \in Final)
         /\ X.live = Cardinality(K) + Cardinality(R)
         /\ X.freed <=> (K = {} /\ R = {} /\ B2 = {} /\ W2 = {})
         /\ \A j \in B2 : \A i \in K : i < T[j].at
         /\ st # "PENDING" /\ st # "REJECTED"
         /\ st = "FULFILLED" => \A i \in DOMAIN X.items : Stored(c, i)'
    BY <1>9, <1>10, <2>4, <2>8, <2>10 DEF Final
  <2>12. Account(c, P)'
    <3>1. st = "PENDING" =>
            /\ X.remaining = Cardinality(K)
            /\ K = {} => B2 # {}
            /\ \A i \in DOMAIN X.items : i \in K \/ Stored(c, i)' \/ \E j \in B2 : i >= T[j].at
      BY <2>8
    <3>2. st = "REJECTED" => Failed(c)'
      BY <2>8
    <3> QED
      BY <2>9, <2>11, <3>1, <3>2, AccountIs
  <2>13. open \subseteq open' /\ open' \cap DOMAIN agg = {}
    BY <1>4, <2>3 DEF AggsAlone
  <2>14. \/ ctl' = S
         \/ \E a \in Activation : /\ ctl' = Append(S, a) /\ a.todo = <<>> /\ a.k \notin WorkKinds
                                  /\ Lone(a)' /\ (script.inline => a.k = "enter" /\ a.p = c)
    BY <2>3
  <2>15. reactions'[c] = reactions[c] /\ agg'[c].items = agg[c].items /\ state'[c] # "PENDING"
    BY <1>1, <2>3, <2>4
  <2> QED
    BY <1>1, <1>2, <1>3, <1>5, <2>3, <2>4, <2>6, <2>12, <2>13, <2>14, <2>15, WorkWhole
<1> QED
  BY <1>2, <1>12, <1>13

----------------------------------------------------------------------------
(* The call of all or allSettled looks at its next input.                  *)

\* What the building of c turns into while it goes on.
LEMMA BuildGoesOn ==
  ASSUME NEW H, NEW U, Inv(H, U), NEW P, Whole(P), ctl # <<>>, Top.k = "build",
         NEW b \in Activation, b.k = "build", b.p = Top.p, b.todo = <<>>, NEW S, S = Replaced(b)
  PROVE  GivesWay(S, b) /\ Top.k \in WorkKinds /\ Works(Top) /\ b.k \in {"build", "built"}
BY DEF GivesWay, Works, WorkKinds

LEMMA NextItemGives ==
  ASSUME NEW H, NEW U, Inv(H, U), NEW P, Whole(P), ctl # <<>>, Top.k = "build"
  PROVE  \E b \in Activation :
           /\ b.k = "build" /\ b.p = Top.p /\ b.todo = <<>> /\ b.at = Top.at + 1 /\ NextItem = Replaced(b)
           /\ GivesWay(NextItem, b)
<1>1. TypeOK /\ Top.todo = <<>>
  <2>1. Top.k \in WorkKinds
    BY DEF WorkKinds
  <2> QED
    BY <2>1, WorkFacts
<1>2. PICK b \in Activation : /\ b.k = Top.k /\ b.p = Top.p /\ b.todo = Top.todo
                              /\ b.at = Top.at + 1 /\ NextItem = Replaced(b)
  BY <1>1, NextItemType
<1>3. GivesWay(NextItem, b)
  BY <1>1, <1>2, BuildGoesOn
<1> QED
  BY <1>1, <1>2, <1>3

\* What the account of c says while c is built.
LEMMA BuildWas ==
  ASSUME NEW H, NEW U, Inv(H, U), NEW P, Whole(P), ctl # <<>>, Top.k = "build",
         NEW c, c = Top.p, NEW K, K = Claims(c, P), NEW R, R = Posts(c, "release")
  PROVE  /\ TypeOK /\ AggsAlone /\ AggregatesProper /\ Ledger(P) /\ script.inline \in BOOLEAN
         /\ c \in DOMAIN agg /\ c \in Promise /\ c \in Born
         /\ agg[c] \in Context /\ IsFiniteSet(K) /\ IsFiniteSet(R) /\ Top \in Activation
         /\ DOMAIN agg[c].values = DOMAIN agg[c].items
         /\ (agg[c].settled <=> state[c] \in Final) /\ state[c] \in {"PENDING"} \cup Final
         /\ agg[c].live = Cardinality(K) + Cardinality(R)
         /\ state[c] = "PENDING" =>
              /\ agg[c].remaining = Cardinality(K)
              /\ \A i \in DOMAIN agg[c].items : i \in K \/ Stored(c, i) \/ i >= Top.at
         /\ \A i \in K : i < Top.at
         /\ state[c] = "FULFILLED" => \A i \in DOMAIN agg[c].items : Stored(c, i)
         /\ state[c] = "REJECTED" => Failed(c)
         /\ script.inline =>
              reactions[c] = <<>> /\ \A i \in DOMAIN agg[c].items : agg[c].items[i] # c
<1>1. Top.k \in WorkKinds /\ Works(Top)
  BY DEF WorkKinds, Works
<1>2. PICK n : n = Len(ctl)
  OBVIOUS
<1>3. /\ TypeOK /\ AggsAlone /\ AggregatesProper /\ Ledger(P) /\ script.inline \in BOOLEAN
      /\ c \in DOMAIN agg /\ c \in Promise /\ c \in Born /\ Account(c, P)
      /\ Top = ctl[n] /\ Top \in Activation
  BY <1>1, <1>2, WorkFacts, InvFacts
<1>4. script.inline =>
        reactions[c] = <<>> /\ \A i \in DOMAIN agg[c].items : agg[c].items[i] # c
  BY <1>1, <1>2, WorkFacts
<1>5. PICK B, W : B = Posts(c, "build") /\ W = Posts(c, "built")
  OBVIOUS
<1>6. B = {n} /\ W = {}
  BY <1>1, <1>2, <1>5, WorkPosts
<1>7. Tally(c, P, K, R, B, W)
  BY <1>5 DEF Tally
<1>8. /\ state[c] \in {"PENDING"} \cup Final /\ (agg[c].settled <=> state[c] \in Final)
      /\ agg[c].live = Cardinality(K) + Cardinality(R)
      /\ agg[c].freed <=> (K = {} /\ R = {} /\ B = {} /\ W = {})
      /\ state[c] = "PENDING" =>
           /\ agg[c].remaining = Cardinality(K)
           /\ K = {} => B # {}
           /\ \A i \in DOMAIN agg[c].items :
                i \in K \/ Stored(c, i) \/ \E j \in B : i >= ctl[j].at
      /\ \A j \in B : \A i \in K : i < ctl[j].at
      /\ state[c] = "FULFILLED" => \A i \in DOMAIN agg[c].items : Stored(c, i)
      /\ state[c] = "REJECTED" => Failed(c)
  BY <1>3, <1>7, AccountWas
<1>9. /\ IsFiniteSet(K) /\ IsFiniteSet(R) /\ agg[c] \in Context
      /\ DOMAIN agg[c].values = DOMAIN agg[c].items
  BY <1>3, TallyFacts
<1>11. /\ \A i \in K : i < Top.at
       /\ state[c] = "PENDING" => \A i \in DOMAIN agg[c].items : i \in K \/ Stored(c, i) \/ i >= Top.at
  BY <1>3, <1>6, <1>8
<1> QED
  BY <1>3, <1>4, <1>8, <1>9, <1>11

\* And what it takes for the account of c when its building has gone on.
LEMMA BuildAccount ==
  ASSUME NEW H, NEW U, Inv(H, U), NEW P, Whole(P), ctl # <<>>, Top.k = "build",
         NEW c, c = Top.p, NEW b \in Activation, b.k = "build", b.p = c, b.todo = <<>>,
         NEW S, S = Replaced(b), NEW T, T = ctl', Overlies(S, T),
         NEW P2, NEW K, K = Claims(c, P2)', NEW X, X = agg'[c], NEW st, st = state'[c],
         st \in {"PENDING"} \cup Final, (X.settled <=> st \in Final),
         X.live = Cardinality(K) + Cardinality(Posts(c, "release")), X.freed = agg[c].freed,
         st = "PENDING" =>
           /\ X.remaining = Cardinality(K)
           /\ \A i \in DOMAIN X.items : i \in K \/ Stored(c, i)' \/ i >= b.at,
         \A i \in K : i < b.at,
         st = "FULFILLED" => \A i \in DOMAIN X.items : Stored(c, i)',
         st = "REJECTED" => Failed(c)'
  PROVE  Account(c, P2)'
<1>1. PICK n, R, B, W : /\ n = Len(ctl) /\ R = Posts(c, "release")'
                        /\ B = Posts(c, "build")' /\ W = Posts(c, "built")'
  OBVIOUS
<1>2. GivesWay(S, b) /\ Top.k \in WorkKinds /\ Works(Top) /\ b.k \in {"build", "built"}
  BY BuildGoesOn
<1>3. /\ R = Posts(c, "release") /\ B = (IF b.k = "build" THEN {n} ELSE {})
      /\ W = (IF b.k = "built" THEN {n} ELSE {}) /\ T[n] = b
  BY <1>1, <1>2, PostsBuilding
<1>4. B = {n} /\ W = {}
  BY <1>3
<1>5. st = "PENDING" =>
        /\ X.remaining = Cardinality(K)
        /\ K = {} => B # {}
        /\ \A i \in DOMAIN X.items : i \in K \/ Stored(c, i)' \/ \E j \in B : i >= T[j].at
  BY <1>3, <1>4
<1>6. /\ X.live = Cardinality(K) + Cardinality(R)
      /\ \A j \in B : \A i \in K : i < T[j].at
  BY <1>3, <1>4
<1>7. X.freed <=> (K = {} /\ R = {} /\ B = {} /\ W = {})
  <2>1. PICK K0, R0, B0, W0 : Tally(c, P, K0, R0, B0, W0)
    BY DEF Tally
  <2>2. Account(c, P) /\ Posts(c, "build") = {n}
    BY <1>1, <1>2, WorkFacts, WorkPosts
  <2>3. agg[c].freed <=> (K0 = {} /\ R0 = {} /\ B0 = {} /\ W0 = {})
    BY <2>1, <2>2, AccountWas
  <2>4. B0 = {n}
    BY <2>1, <2>2 DEF Tally
  <2>5. ~(K0 = {} /\ R0 = {} /\ B0 = {} /\ W0 = {}) /\ ~(K = {} /\ R = {} /\ B = {} /\ W = {})
    BY <1>4, <2>4
  <2> QED
    BY <2>3, <2>5
<1> QED
  BY <1>1, <1>5, <1>6, <1>7, AccountIs

\* An input is a plain value or a settled promise.
LEMMA BuildKnownWhole ==
  ASSUME NEW H, NEW U, Inv(H, U), TypeOK', NEW P, Whole(P), BuildKnown
  PROVE  Whole(P)'
<1>1. PICK c, S, X, T, m, x, K, R, st : /\ c = Top.p /\ S = NextItem /\ X = agg'[c] /\ T = ctl'
                                        /\ m = Top.at /\ x = Item /\ K = Claims(c, P)
                                        /\ R = Posts(c, "release") /\ st = state'[c]
  OBVIOUS
<1>2. /\ ctl # <<>> /\ Top.k = "build" /\ m <= Len(agg[c].items) /\ ~agg[c].settled /\ script' = script
      /\ Top.k \in WorkKinds /\ SameScript
  BY <1>1 DEF BuildKnown, Building, Ends, WorkKinds, SameScript
<1>3. /\ TypeOK /\ AggsAlone /\ AggregatesProper /\ Ledger(P) /\ script.inline \in BOOLEAN
      /\ c \in DOMAIN agg /\ c \in Promise /\ c \in Born
      /\ agg[c] \in Context /\ IsFiniteSet(K) /\ IsFiniteSet(R) /\ Top \in Activation
      /\ DOMAIN agg[c].values = DOMAIN agg[c].items
  BY <1>1, <1>2, BuildWas
<1>4. /\ (agg[c].settled <=> state[c] \in Final) /\ state[c] \in {"PENDING"} \cup Final
      /\ agg[c].live = Cardinality(K) + Cardinality(R)
      /\ state[c] = "PENDING" =>
           /\ agg[c].remaining = Cardinality(K)
           /\ \A i \in DOMAIN agg[c].items : i \in K \/ Stored(c, i) \/ i >= m
      /\ \A i \in K : i < m
  <2>0. ctl # <<>> /\ Top.k = "build" /\ c = Top.p /\ K = Claims(c, P) /\ R = Posts(c, "release")
    BY <1>1, <1>2
  <2>1. /\ (agg[c].settled <=> state[c] \in Final) /\ state[c] \in {"PENDING"} \cup Final
        /\ agg[c].live = Cardinality(K) + Cardinality(R)
        /\ state[c] = "PENDING" =>
             /\ agg[c].remaining = Cardinality(K)
             /\ \A i \in DOMAIN agg[c].items : i \in K \/ Stored(c, i) \/ i >= Top.at
        /\ \A i \in K : i < Top.at
    BY <2>0, BuildWas
  <2> QED
    BY <1>1, <2>1
<1>5. state[c] = "PENDING"
  BY <1>2, <1>4 DEF Final
<1>6. m \in DOMAIN agg[c].items /\ x = agg[c].items[m] /\ (x \in Promise => x \in Born) /\ m \in Nat
  <2>1. m \in DOMAIN agg[c].items /\ x = agg[c].items[m] /\ (x \in Promise => x \in Born)
    BY <1>1, <1>2, ItemFacts
  <2> QED
    BY <1>1, <1>3, <2>1 DEF Activation
<1>7. PICK out : out = (IF x \in Promise THEN [st |-> state[x], v |-> value[x]]
                                         ELSE [st |-> "FULFILLED", v |-> x])
  OBVIOUS
<1>8. /\ out.st # "PENDING"
      /\ \/ out.st = "REJECTED" /\ agg[c].all /\ Fail(c, out.v, S)
         \/ ~(out.st = "REJECTED" /\ agg[c].all) /\ agg' = Store(c, m, out) /\ Skip(S)
  BY <1>1, <1>7 DEF BuildKnown
<1>9. out.st \in Final
  <2>1. CASE x \in Promise
    <3>1. state[x] \in States /\ state[x] # "UNBORN" /\ out.st = state[x]
      <4>1. state[x] \in States /\ out.st = state[x]
        BY <1>3, <1>7, <2>1 DEF TypeOK
      <4>2. x <= born /\ Numbered /\ x \in Nat /\ born \in Nat
        BY <1>3, <1>6, <2>1, NatFacts, InvFacts
      <4> QED
        BY <2>1, <4>1, <4>2 DEF Numbered
    <3> QED
      BY <1>8, <3>1 DEF States, Final
  <2>2. CASE x \notin Promise
    BY <1>7, <2>2 DEF Final
  <2> QED
    BY <2>1, <2>2
<1>10. PICK b \in Activation : /\ b.k = "build" /\ b.p = Top.p /\ b.todo = <<>> /\ b.at = Top.at + 1
                               /\ NextItem = Replaced(b) /\ GivesWay(NextItem, b)
  BY <1>2, NextItemGives
<1>11. b.k = "build" /\ b.p = c /\ b.todo = <<>> /\ b.at = m + 1 /\ S = Replaced(b) /\ GivesWay(S, b)
  BY <1>1, <1>10
<1>12. None \notin Promise /\ None \notin DOMAIN agg /\ None # c
  BY <1>3, NatFacts DEF TypeOK
<1>13. \A i \in K : i < b.at
  <2>1. \A i \in K : i \in Nat
    BY <1>1, <1>3, LenProperties DEF Claims, Context
  <2> QED
    BY <1>4, <1>6, <1>11, <2>1
<1>14. CASE agg' = Store(c, m, out) /\ Skip(S) /\ ~(out.st = "REJECTED" /\ agg[c].all)
  <2>1. /\ state' = state /\ value' = value /\ reactions' = reactions /\ open' = open /\ ctl' = S
    BY <1>14 DEF Skip, Keep, promiseVars
  <2>2. /\ DOMAIN agg' = DOMAIN agg /\ (\A d \in DOMAIN agg : d # c => agg'[d] = agg[d])
        /\ X.items = agg[c].items /\ X.all = agg[c].all /\ X.remaining = agg[c].remaining
        /\ X.live = agg[c].live /\ X.settled = agg[c].settled /\ X.freed = agg[c].freed
        /\ X.values = [agg[c].values EXCEPT ![m] = out]
    BY <1>1, <1>3, <1>14 DEF Store, Context
  <2>3. Turns(None) /\ Overlies(S, T) /\ AggregatesGoOn
    BY <1>1, <2>1, <2>2 DEF Turns, Overlies, AggregatesGoOn
  <2>4. Ledger(P)'
    BY <1>1, <1>2, <1>11, <2>1, <2>3, WorkLedger
  <2>5. K = Claims(c, P)'
    BY <1>1, <2>2 DEF Claims
  <2>6. Stored(c, m)'
    <3>1. agg'[c].values[m] = out /\ agg'[c].items[m] = x /\ agg'[c].all = agg[c].all
      BY <1>1, <1>3, <1>6, <2>2 DEF Context
    <3>2. out.st \in Final /\ (agg[c].all => out.st = "FULFILLED")
      BY <1>9, <1>14 DEF Final
    <3> QED
      BY <1>7, <2>1, <3>1, <3>2 DEF Stored
  <2>7. ASSUME NEW i \in DOMAIN agg[c].items, i # m, Stored(c, i) PROVE Stored(c, i)'
    <3>1. agg'[c].values[i] = agg[c].values[i] /\ agg'[c].items = agg[c].items /\ agg'[c].all = agg[c].all
      BY <1>1, <1>3, <2>2, <2>7 DEF Context
    <3> QED
      BY <1>3, <2>3, <2>7, <3>1, StoredStays
  <2>8. \A i \in DOMAIN X.items : i \in K \/ Stored(c, i)' \/ i >= b.at
    <3> SUFFICES ASSUME NEW i \in DOMAIN agg[c].items PROVE i \in K \/ Stored(c, i)' \/ i >= b.at
      BY <2>2
    <3>1. i \in Nat
      BY <1>3, LenProperties DEF Context
    <3>2. CASE i = m
      BY <2>6, <3>2
    <3>3. CASE i # m
      <4>1. i \in K \/ Stored(c, i) \/ i >= m
        BY <1>4, <1>5
      <4>2. i >= m => i >= b.at
        BY <1>6, <1>11, <3>1, <3>3
      <4> QED
        BY <2>7, <3>3, <4>1, <4>2
    <3> QED
      BY <3>2, <3>3
  <2>9. /\ st \in {"PENDING"} \cup Final /\ (X.settled <=> st \in Final)
        /\ X.live = Cardinality(K) + Cardinality(Posts(c, "release")) /\ X.freed = agg[c].freed
        /\ st = "PENDING" =>
             /\ X.remaining = Cardinality(K)
             /\ \A i \in DOMAIN X.items : i \in K \/ Stored(c, i)' \/ i >= b.at
        /\ st = "FULFILLED" => \A i \in DOMAIN X.items : Stored(c, i)'
        /\ st = "REJECTED" => Failed(c)'
    BY <1>1, <1>4, <1>5, <2>1, <2>2, <2>8
  <2>10. Account(c, P)'
    BY <1>1, <1>2, <1>11, <1>13, <2>3, <2>5, <2>9, BuildAccount
  <2>11. open \subseteq open' /\ open' \cap DOMAIN agg = {} /\ agg'[c].items = agg[c].items
    BY <1>1, <1>3, <2>1, <2>2 DEF AggsAlone
  <2> QED
    BY <1>1, <1>2, <1>11, <1>12, <2>1, <2>2, <2>3, <2>4, <2>10, <2>11, WorkWhole
<1>15. CASE out.st = "REJECTED" /\ agg[c].all /\ Fail(c, out.v, S)
  <2>1. Conclude(c, "REJECTED", out.v, None, S) /\ agg' = [agg EXCEPT ![c].settled = TRUE]
    BY <1>5, <1>15 DEF Fail
  <2>2. /\ Turns(c) /\ state'[c] = "REJECTED" /\ value'[c] = out.v /\ reactions' = reactions /\ open' = open
        /\ \/ ctl' = S
           \/ \E a \in Activation : /\ ctl' = Append(S, a) /\ a.todo = <<>> /\ a.k \notin WorkKinds
                                    /\ Lone(a)' /\ a.k = "enter" /\ a.p = c /\ script.inline
    BY <1>3, <1>5, <2>1, SettlesResult DEF Final
  <2>3. /\ DOMAIN agg' = DOMAIN agg /\ (\A d \in DOMAIN agg : d # c => agg'[d] = agg[d])
        /\ X.items = agg[c].items /\ X.values = agg[c].values /\ X.all = agg[c].all
        /\ X.live = agg[c].live /\ X.settled = TRUE /\ X.freed = agg[c].freed
    BY <1>1, <1>3, <2>1 DEF Context
  <2>4. Overlies(S, T) /\ AggregatesGoOn
    BY <1>1, <2>2, <2>3 DEF Overlies, AggregatesGoOn
  <2>5. Ledger(P)'
    BY <1>1, <1>2, <1>11, <2>2, <2>4, WorkLedger
  <2>6. K = Claims(c, P)'
    BY <1>1, <2>3 DEF Claims
  <2>7. Failed(c)'
    <3>1. x \in Promise
      BY <1>7, <1>15
    <3>2. state[x] = "REJECTED" /\ out.v = value[x]
      BY <1>7, <1>15, <3>1
    <3>3. x # c
      BY <1>5, <3>2
    <3>4. state'[x] = "REJECTED" /\ value'[x] = value'[c]
      BY <2>2, <3>1, <3>2, <3>3 DEF Turns
    <3>5. agg'[c].all /\ m \in DOMAIN agg'[c].items /\ agg'[c].items[m] = x
      BY <1>1, <1>6, <1>15, <2>3
    <3> QED
      BY <3>1, <3>4, <3>5 DEF Failed
  <2>8. /\ st \in {"PENDING"} \cup Final /\ (X.settled <=> st \in Final)
        /\ X.live = Cardinality(K) + Cardinality(Posts(c, "release")) /\ X.freed = agg[c].freed
        /\ st = "REJECTED"
    BY <1>1, <1>4, <2>2, <2>3 DEF Final
  <2>9. /\ st = "PENDING" =>
             /\ X.remaining = Cardinality(K)
             /\ \A i \in DOMAIN X.items : i \in K \/ Stored(c, i)' \/ i >= b.at
        /\ st = "FULFILLED" => \A i \in DOMAIN X.items : Stored(c, i)'
        /\ st = "REJECTED" => Failed(c)'
    BY <2>7, <2>8
  <2>10. Account(c, P)'
    BY <1>1, <1>2, <1>11, <1>13, <2>4, <2>6, <2>8, <2>9, BuildAccount
  <2>11. open \subseteq open' /\ open' \cap DOMAIN agg = {} /\ agg'[c].items = agg[c].items
    BY <1>1, <1>3, <2>2, <2>3 DEF AggsAlone
  <2>12. \/ ctl' = S
         \/ \E a \in Activation : /\ ctl' = Append(S, a) /\ a.todo = <<>> /\ a.k \notin WorkKinds
                                  /\ Lone(a)' /\ (script.inline => a.k = "enter" /\ a.p = c)
    BY <2>2
  <2>13. state'[c] # "PENDING"
    BY <2>2
  <2> QED
    BY <1>1, <1>2, <1>11, <2>2, <2>3, <2>5, <2>10, <2>11, <2>12, <2>13, WorkWhole
<1> QED
  BY <1>8, <1>14, <1>15

\* An input is a thenable, for which a promise is made.
LEMMA BuildThenableWhole ==
  ASSUME NEW H, NEW U, Inv(H, U), TypeOK', ~ThenablesInline, NEW P, Whole(P), BuildThenable
  PROVE  Whole(P)'
<1>1. PICK c, b, S, X, T, m, K, R, st, f :
        /\ c = Top.p /\ X = agg'[c] /\ T = ctl' /\ m = Top.at /\ K = Claims(c, P)
        /\ R = Posts(c, "release") /\ st = state'[c] /\ f = Fresh
        /\ b = [Top EXCEPT !.wp = f] /\ S = Replaced(b)
  OBVIOUS
<1>2. /\ ctl # <<>> /\ Top.k = "build" /\ m <= Len(agg[c].items) /\ ~agg[c].settled /\ script' = script
      /\ Item = Thenable /\ Top.k \in WorkKinds /\ SameScript
  BY <1>1 DEF BuildThenable, Building, Ends, WorkKinds, SameScript
<1>3. /\ TypeOK /\ AggsAlone /\ AggregatesProper /\ Ledger(P) /\ script.inline \in BOOLEAN
      /\ c \in DOMAIN agg /\ c \in Promise /\ c \in Born
      /\ agg[c] \in Context /\ IsFiniteSet(K) /\ IsFiniteSet(R) /\ Top \in Activation
      /\ DOMAIN agg[c].values = DOMAIN agg[c].items
  BY <1>1, <1>2, BuildWas
<1>4. /\ (agg[c].settled <=> state[c] \in Final) /\ state[c] \in {"PENDING"} \cup Final
      /\ agg[c].live = Cardinality(K) + Cardinality(R)
      /\ state[c] = "PENDING" =>
           /\ agg[c].remaining = Cardinality(K)
           /\ \A i \in DOMAIN agg[c].items : i \in K \/ Stored(c, i) \/ i >= m
      /\ \A i \in K : i < m
  <2>0. ctl # <<>> /\ Top.k = "build" /\ c = Top.p /\ K = Claims(c, P) /\ R = Posts(c, "release")
    BY <1>1, <1>2
  <2>1. /\ (agg[c].settled <=> state[c] \in Final) /\ state[c] \in {"PENDING"} \cup Final
        /\ agg[c].live = Cardinality(K) + Cardinality(R)
        /\ state[c] = "PENDING" =>
             /\ agg[c].remaining = Cardinality(K)
             /\ \A i \in DOMAIN agg[c].items : i \in K \/ Stored(c, i) \/ i >= Top.at
        /\ \A i \in K : i < Top.at
    BY <2>0, BuildWas
  <2> QED
    BY <1>1, <2>1
<1>5. state[c] = "PENDING"
  BY <1>2, <1>4 DEF Final
<1>6. m \in DOMAIN agg[c].items /\ agg[c].items[m] = Thenable /\ m \in Nat
  <2>1. m \in DOMAIN agg[c].items /\ agg[c].items[m] = Thenable
    BY <1>1, <1>2, ItemFacts
  <2> QED
    BY <1>1, <1>3, <2>1 DEF Activation
<1>7. ~script.inline
  BY <1>3, <1>6 DEF AggregatesProper, ThenablesInline
<1>8. /\ MakeFresh("PENDING", NoVal) /\ agg' = [agg EXCEPT ![c].items[m] = f]
      /\ open' = open \cup {f} /\ reactions' = reactions
      /\ ctl' = Append(S, Active("then", f))
  BY <1>1 DEF BuildThenable, Keep
<1>9. /\ f \in Promise /\ f # None /\ f \notin Born /\ f \notin DOMAIN agg
      /\ Turns(f) /\ state'[f] = "PENDING"
  BY <1>1, <1>8, FreshTurns
<1>10. b \in Activation /\ b.k = "build" /\ b.p = c /\ b.todo = <<>> /\ b.at = m
  <2>1. Top.todo = <<>>
    BY <1>2, WorkFacts
  <2>2. /\ b.k = Top.k /\ b.p = Top.p /\ b.todo = Top.todo /\ b.at = Top.at /\ b \in Activation
    BY <1>1, <1>3, <1>9 DEF Activation
  <2> QED
    BY <1>1, <1>2, <2>1, <2>2
<1>11. GivesWay(S, b)
  BY <1>1, <1>2, <1>10, BuildGoesOn
<1>12. PICK a : a = Active("then", f)
  OBVIOUS
<1>13. a \in Activation /\ a.k = "then" /\ a.p = f /\ a.todo = <<>> /\ Len(a.todo) = 0
  BY <1>9, <1>12, FreshActivation
<1>14. PICK I : I = [agg[c].items EXCEPT ![m] = f]
  OBVIOUS
<1>15. /\ DOMAIN agg' = DOMAIN agg /\ (\A d \in DOMAIN agg : d # c => agg'[d] = agg[d])
       /\ X.items = I /\ X.values = agg[c].values /\ X.all = agg[c].all
       /\ X.remaining = agg[c].remaining /\ X.live = agg[c].live
       /\ X.settled = agg[c].settled /\ X.freed = agg[c].freed
  BY <1>1, <1>3, <1>8, <1>14 DEF Context
<1>16. /\ DOMAIN I = DOMAIN agg[c].items /\ Len(I) = Len(agg[c].items) /\ I[m] = f
       /\ \A i \in DOMAIN agg[c].items : i # m => I[i] = agg[c].items[i]
  BY <1>3, <1>6, <1>9, <1>14 DEF Context
<1>17. AggregatesGoOn
  <2> SUFFICES ASSUME NEW d \in DOMAIN agg
               PROVE  /\ d \in DOMAIN agg' /\ Len(agg'[d].items) = Len(agg[d].items)
                      /\ DOMAIN agg'[d].items = DOMAIN agg[d].items
                      /\ \A i \in DOMAIN agg[d].items :
                           agg[d].items[i] # Thenable => agg'[d].items[i] = agg[d].items[i]
    BY DEF AggregatesGoOn
  <2>1. CASE d # c
    BY <1>15, <2>1
  <2>2. CASE d = c
    BY <1>1, <1>6, <1>15, <1>16, <2>2
  <2> QED
    BY <2>1, <2>2
<1>18. Lone(a)'
  BY <1>9, <1>13, <1>15 DEF Lone
<1>19. Overlies(S, T)
  BY <1>1, <1>8, <1>12, <1>13 DEF Overlies, WorkKinds
<1>20. Ledger(P)'
  BY <1>1, <1>2, <1>8, <1>11, <1>17, <1>19, WorkLedger
<1>21. K = Claims(c, P)'
  <2>1. DOMAIN agg'[c].items = DOMAIN agg[c].items
    BY <1>1, <1>15, <1>16
  <2> QED
    BY <1>1, <2>1 DEF Claims
<1>22. st = "PENDING"
  BY <1>1, <1>3, <1>5, <1>9 DEF Turns
<1>23. \A i \in DOMAIN X.items : i \in K \/ Stored(c, i)' \/ i >= b.at
  <2> SUFFICES ASSUME NEW i \in DOMAIN agg[c].items PROVE i \in K \/ Stored(c, i)' \/ i >= m
    BY <1>10, <1>15, <1>16
  <2>1. CASE i = m
    BY <1>6, <2>1
  <2>2. CASE i # m /\ Stored(c, i)
    <3>1. /\ agg'[c].items[i] = agg[c].items[i] /\ agg'[c].values[i] = agg[c].values[i]
          /\ agg'[c].all = agg[c].all
      BY <1>1, <1>15, <1>16, <2>2
    <3> QED
      BY <1>3, <1>9, <2>2, <3>1, StoredStays
  <2> QED
    BY <1>4, <1>5, <2>1, <2>2
<1>24. Account(c, P)'
  <2>1. /\ st \in {"PENDING"} \cup Final /\ (X.settled <=> st \in Final)
        /\ X.live = Cardinality(K) + Cardinality(Posts(c, "release")) /\ X.freed = agg[c].freed
        /\ st = "PENDING" =>
             /\ X.remaining = Cardinality(K)
             /\ \A i \in DOMAIN X.items : i \in K \/ Stored(c, i)' \/ i >= b.at
        /\ st # "FULFILLED" /\ st # "REJECTED"
    BY <1>1, <1>4, <1>5, <1>15, <1>22, <1>23
  <2>2. \A i \in K : i < b.at
    BY <1>4, <1>10
  <2>3. /\ st = "FULFILLED" => \A i \in DOMAIN X.items : Stored(c, i)'
        /\ st = "REJECTED" => Failed(c)'
    BY <1>22
  <2> QED
    BY <1>1, <1>2, <1>10, <1>19, <1>21, <2>1, <2>2, <2>3, BuildAccount
<1>25. /\ open \subseteq open' /\ open' \cap DOMAIN agg = {} /\ Backed(f)'
  BY <1>3, <1>8, <1>9 DEF AggsAlone, Backed
<1>26. \E z \in Activation : /\ ctl' = Append(S, z) /\ z.todo = <<>> /\ z.k \notin WorkKinds
                             /\ Lone(z)' /\ (script.inline => z.k = "enter" /\ z.p = c)
  BY <1>7, <1>8, <1>12, <1>13, <1>18 DEF WorkKinds
<1> QED
  BY <1>1, <1>2, <1>7, <1>8, <1>9, <1>11, <1>15, <1>20, <1>24, <1>25, <1>26, WorkWhole

\* One more reaction on the books: key g, held by h.
Booked(P, g, h) == [k \in DOMAIN P \cup {g} |-> IF k = g THEN h ELSE P[k]]

\* Other lists do not see it.
LEMMA FiledElsewhere ==
  ASSUME NEW s, NEW h, NEW P, Filed(s, h, P), NEW g, g \notin DOMAIN P, NEW h2, h2 # h,
         NEW P2, P2 = Booked(P, g, h2)
  PROVE  Filed(s, h, P2)
<1>1. \A k : k \in {l \in DOMAIN P2 : P2[l] = h} <=> k \in {l \in DOMAIN P : P[l] = h}
  BY DEF Booked
<1> QED
  BY <1>1 DEF Filed

\* The list it is put on does.
LEMMA FiledHere ==
  ASSUME NEW s \in Seq(Reaction), NEW h, NEW P, Filed(s, h, P), NEW r \in Reaction, IsKept(r),
         KeyOf(r) \notin DOMAIN P, NEW P2, P2 = Booked(P, KeyOf(r), h)
  PROVE  Filed(Append(s, r), h, P2)
<1>1. OnceEach(s) /\ KeyOf(r) \notin Keys(s)
  BY DEF Filed
<1>2. Keys(Append(s, r)) = Keys(s) \cup {KeyOf(r)} /\ OnceEach(Append(s, r))
  BY <1>1, KeysPushed
<1>3. \A k : k \in {l \in DOMAIN P2 : P2[l] = h} <=> k \in {l \in DOMAIN P : P[l] = h} \cup {KeyOf(r)}
  BY DEF Booked
<1> QED
  BY <1>2, <1>3 DEF Filed

\* An input is pending: one more reaction goes on the books.
LEMMA BuildWaitWhole ==
  ASSUME NEW H, NEW U, Inv(H, U), TypeOK', NEW P, Whole(P), BuildWait
  PROVE  \E P2 : Whole(P2)'
<1>1. PICK c, S, X, T, m, x, K, R, st : /\ c = Top.p /\ S = NextItem /\ X = agg'[c] /\ T = ctl'
                                        /\ m = Top.at /\ x = Item /\ K = Claims(c, P)
                                        /\ R = Posts(c, "release") /\ st = state'[c]
  OBVIOUS
<1>2. /\ ctl # <<>> /\ Top.k = "build" /\ script' = script /\ Top.k \in WorkKinds /\ SameScript
      /\ Top.wp # None \/ (Top.at <= Len(agg[Top.p].items) /\ Item \in Promise)
      /\ state' = state /\ value' = value /\ open' = open /\ ctl' = S
  BY <1>1 DEF BuildWait, Building, Ends, Keep, WorkKinds, SameScript
<1>3. /\ TypeOK /\ AggsAlone /\ AggregatesProper /\ Ledger(P) /\ script.inline \in BOOLEAN
      /\ c \in DOMAIN agg /\ c \in Promise /\ c \in Born
      /\ agg[c] \in Context /\ IsFiniteSet(K) /\ IsFiniteSet(R) /\ Top \in Activation
  BY <1>1, <1>2, BuildWas
<1>4. /\ (agg[c].settled <=> state[c] \in Final) /\ state[c] \in {"PENDING"} \cup Final
      /\ agg[c].live = Cardinality(K) + Cardinality(R)
      /\ state[c] = "PENDING" =>
           /\ agg[c].remaining = Cardinality(K)
           /\ \A i \in DOMAIN agg[c].items : i \in K \/ Stored(c, i) \/ i >= m
      /\ \A i \in K : i < m
  <2>0. ctl # <<>> /\ Top.k = "build" /\ c = Top.p /\ K = Claims(c, P) /\ R = Posts(c, "release")
    BY <1>1, <1>2
  <2>1. /\ (agg[c].settled <=> state[c] \in Final) /\ state[c] \in {"PENDING"} \cup Final
        /\ agg[c].live = Cardinality(K) + Cardinality(R)
        /\ state[c] = "PENDING" =>
             /\ agg[c].remaining = Cardinality(K)
             /\ \A i \in DOMAIN agg[c].items : i \in K \/ Stored(c, i) \/ i >= Top.at
        /\ \A i \in K : i < Top.at
    BY <2>0, BuildWas
  <2> QED
    BY <1>1, <2>1
<1>5. /\ state[c] = "FULFILLED" => \A i \in DOMAIN agg[c].items : Stored(c, i)
      /\ state[c] = "REJECTED" => Failed(c)
      /\ script.inline => \A i \in DOMAIN agg[c].items : agg[c].items[i] # c
  BY <1>1, <1>2, BuildWas
<1>6. m \in DOMAIN agg[c].items /\ agg[c].items[m] = x /\ m \in Nat /\ x \in Promise
  <2>1. m \in DOMAIN agg[c].items /\ agg[c].items[m] = x /\ x \in Promise
    BY <1>1, <1>2, ItemFacts
  <2> QED
    BY <1>1, <1>3, <2>1 DEF Activation
<1>7. PICK r, g : /\ r = [onF |-> Calls("kept", c, m), onR |-> Calls("failed", c, m), np |-> None]
                  /\ g = <<c, m>>
  OBVIOUS
<1>8. r \in Reaction /\ r.np = None /\ r.onF.to = c /\ r.onF.at = m /\ r.onF.do = "kept"
  BY <1>3, <1>6, <1>7 DEF Reaction, Handler, Calls
<1>9. IsKept(r) /\ KeyOf(r) = g
  BY <1>7, <1>8 DEF IsKept, KeyOf
<1>10. None \notin Promise /\ None \notin DOMAIN agg /\ None # c
  BY <1>3, NatFacts DEF TypeOK
<1>11. /\ reactions'[x] = Append(reactions[x], r)
       /\ \A y \in Promise : y # x => reactions'[y] = reactions[y]
  <2>1. reactions' = [reactions EXCEPT ![x] = Append(@, r)]
    BY <1>1, <1>7 DEF BuildWait
  <2> QED
    BY <1>3, <1>6, <2>1 DEF TypeOK
<1>12. /\ DOMAIN agg' = DOMAIN agg /\ (\A d \in DOMAIN agg : d # c => agg'[d] = agg[d])
       /\ X.items = agg[c].items /\ X.values = agg[c].values /\ X.all = agg[c].all
       /\ X.remaining = agg[c].remaining + 1 /\ X.live = agg[c].live + 1
       /\ X.settled = agg[c].settled /\ X.freed = agg[c].freed
  <2>1. agg' = [agg EXCEPT ![c].remaining = @ + 1, ![c].live = @ + 1]
    BY <1>1 DEF BuildWait
  <2> QED
    BY <1>1, <1>3, <2>1 DEF Context
<1>13. Theirs(r)'
  BY <1>8, <1>10, <1>12 DEF Theirs
<1>14. PICK b \in Activation : /\ b.k = "build" /\ b.p = Top.p /\ b.todo = <<>> /\ b.at = Top.at + 1
                               /\ NextItem = Replaced(b) /\ GivesWay(NextItem, b)
  BY <1>2, NextItemGives
<1>15. b.k = "build" /\ b.p = c /\ b.todo = <<>> /\ b.at = m + 1 /\ S = Replaced(b) /\ GivesWay(S, b)
  BY <1>1, <1>14
<1>16. Turns(None) /\ Overlies(S, T)
  BY <1>1, <1>2 DEF Turns, Overlies
<1>17. m \notin K /\ g \notin DOMAIN P
  <2>1. m \notin K
    BY <1>4, <1>6
  <2> QED
    BY <1>1, <1>6, <1>7, <2>1 DEF Claims
<1>18. PICK h, P2, K2 : h = OnList(x) /\ P2 = Booked(P, g, h) /\ K2 = K \cup {m}
  OBVIOUS
<1>19. /\ DOMAIN P2 = DOMAIN P \cup {g} /\ P2[g] = h /\ \A k \in DOMAIN P : P2[k] = P[k]
  BY <1>17, <1>18 DEF Booked
<1>20. K2 = Claims(c, P2)'
  <2>1. ASSUME NEW i PROVE i \in K2 <=> i \in DOMAIN agg[c].items /\ <<c, i>> \in DOMAIN P2
    <3>1. <<c, i>> = g => i = m
      BY <1>7
    <3> QED
      BY <1>1, <1>6, <1>7, <1>18, <1>19, <3>1 DEF Claims
  <2>2. Claims(c, P2)' = {i \in DOMAIN agg[c].items : <<c, i>> \in DOMAIN P2}
    BY <1>1, <1>12 DEF Claims
  <2> QED
    BY <2>1, <2>2
<1>21. /\ Cardinality(K2) = Cardinality(K) + 1 /\ Cardinality(K) \in Nat /\ Cardinality(R) \in Nat
  BY <1>3, <1>17, <1>18, SizeFacts
<1>22. \A i \in K2 : i < b.at
  <2>1. \A i \in K : i \in Nat
    BY <1>1, <1>3, LenProperties DEF Claims, Context
  <2> QED
    BY <1>4, <1>6, <1>15, <1>18, <2>1
<1>23. /\ \A i \in DOMAIN agg[c].items : Stored(c, i) => Stored(c, i)'
       /\ Failed(c) => Failed(c)'
  BY <1>1, <1>3, <1>10, <1>12, <1>16, StoredStays, FailedStays
<1>24. state[c] = "PENDING" => \A i \in DOMAIN X.items : i \in K2 \/ Stored(c, i)' \/ i >= b.at
  <2> SUFFICES ASSUME state[c] = "PENDING", NEW i \in DOMAIN agg[c].items
               PROVE  i \in K2 \/ Stored(c, i)' \/ i >= m + 1
    BY <1>12, <1>15
  <2>1. i \in Nat /\ (i \in K \/ Stored(c, i) \/ i >= m)
    BY <1>3, <1>4, LenProperties DEF Context
  <2> QED
    BY <1>6, <1>18, <1>23, <2>1
<1>25. Account(c, P2)'
  <2>1. /\ st \in {"PENDING"} \cup Final /\ (X.settled <=> st \in Final)
        /\ X.live = Cardinality(K2) + Cardinality(Posts(c, "release")) /\ X.freed = agg[c].freed
        /\ st = "PENDING" =>
             /\ X.remaining = Cardinality(K2)
             /\ \A i \in DOMAIN X.items : i \in K2 \/ Stored(c, i)' \/ i >= b.at
        /\ st = "FULFILLED" => \A i \in DOMAIN X.items : Stored(c, i)'
        /\ st = "REJECTED" => Failed(c)'
    <3>1. X.live = Cardinality(K2) + Cardinality(Posts(c, "release"))
      BY <1>1, <1>4, <1>12, <1>21
    <3>2. st = state[c]
      BY <1>1, <1>2
    <3>3. st = "PENDING" => X.remaining = Cardinality(K2)
      BY <1>4, <1>12, <1>21, <3>2
    <3>4. /\ st = "FULFILLED" => \A i \in DOMAIN X.items : Stored(c, i)'
          /\ st = "REJECTED" => Failed(c)'
      BY <1>5, <1>12, <1>23, <3>2
    <3> QED
      BY <1>4, <1>12, <1>24, <3>1, <3>2, <3>3, <3>4
  <2> QED
    BY <1>1, <1>2, <1>15, <1>16, <1>20, <1>22, <2>1, BuildAccount
<1>26. Ledger(P2)'
  <2>0. PICK n : n = Len(ctl)
    OBVIOUS
  <2>1. /\ \A j \in 1 .. Len(S) : Filed(S[j].todo, OnStack(j), P)
        /\ \A k \in DOMAIN P :
              \E d \in DOMAIN agg : \E i \in DOMAIN agg[d].items :
                /\ k = <<d, i>> /\ agg[d].items[i] \in Promise
                /\ \/ P[k] = OnList(agg[d].items[i])
                   \/ \E j \in 1 .. Len(S) : /\ P[k] = OnStack(j) /\ S[j].k = "drain"
                                             /\ S[j].p = agg[d].items[i]
    BY <1>1, <1>2, <1>15, <2>0, WorkFiled
  <2>2. ASSUME NEW j \in 1 .. Len(S) PROVE Filed(S[j].todo, OnStack(j), P2)
    <3>1. OnStack(j) # h
      BY <1>18 DEF OnStack, OnList
    <3> QED
      BY <1>17, <1>18, <2>1, <3>1, FiledElsewhere
  <2>3. ASSUME NEW q \in Promise PROVE Filed(reactions'[q], OnList(q), P2)
    <3>1. Filed(reactions[q], OnList(q), P) /\ reactions[q] \in Seq(Reaction)
      BY <1>3 DEF Ledger, TypeOK
    <3>2. CASE q = x
      BY <1>8, <1>9, <1>11, <1>17, <1>18, <3>1, <3>2, FiledHere
    <3>3. CASE q # x
      <4>1. OnList(q) # h
        BY <1>18, <3>3 DEF OnList
      <4> QED
        BY <1>11, <1>17, <1>18, <3>1, <3>3, <4>1, FiledElsewhere
    <3> QED
      BY <3>2, <3>3
  <2>4. \A d \in DOMAIN agg : d \in DOMAIN agg' /\ agg'[d].items = agg[d].items
    BY <1>1, <1>12
  <2>5. ASSUME NEW k \in DOMAIN P2
        PROVE  \E d \in DOMAIN agg' : \E i \in DOMAIN agg'[d].items :
                 /\ k = <<d, i>> /\ agg'[d].items[i] \in Promise
                 /\ \/ P2[k] = OnList(agg'[d].items[i])
                    \/ \E j \in 1 .. Len(S) : /\ P2[k] = OnStack(j) /\ S[j].k = "drain"
                                              /\ S[j].p = agg'[d].items[i]
    <3>1. CASE k = g
      <4>1. /\ c \in DOMAIN agg' /\ m \in DOMAIN agg'[c].items /\ k = <<c, m>>
            /\ agg'[c].items[m] \in Promise /\ P2[k] = OnList(agg'[c].items[m])
        BY <1>3, <1>6, <1>7, <1>18, <1>19, <2>4, <3>1
      <4> QED
        BY <4>1
    <3>2. CASE k \in DOMAIN P
      <4>1. P2[k] = P[k]
        BY <1>19, <3>2
      <4> QED
        BY <2>1, <2>4, <3>2, <4>1
    <3> QED
      BY <1>19, <3>1, <3>2
  <2>6. S \in Seq(Activation)
    BY <1>1, <1>2, <1>15, <2>0, GivesWayFacts
  <2> QED
    BY <1>1, <1>16, <2>2, <2>3, <2>5, <2>6, LedgerTo
<1>27. /\ open \subseteq open' /\ open' \cap DOMAIN agg = {}
       /\ script.inline => reactions'[c] = reactions[c] /\ agg'[c].items = agg[c].items
  BY <1>1, <1>2, <1>3, <1>5, <1>6, <1>11, <1>12 DEF AggsAlone
<1>28. \A y \in Promise :
         \/ reactions'[y] = reactions[y]
         \/ \E z \in Reaction : reactions'[y] = Append(reactions[y], z) /\ Theirs(z)'
  BY <1>8, <1>11, <1>13
<1>29. \A d, i : d # c => (<<d, i>> \in DOMAIN P2 <=> <<d, i>> \in DOMAIN P)
  BY <1>7, <1>19
<1>30. Whole(P2)'
  BY <1>1, <1>2, <1>10, <1>12, <1>15, <1>16, <1>25, <1>26, <1>27, <1>28, <1>29, WorkWhole
<1> QED
  BY <1>30

----------------------------------------------------------------------------
(* all and allSettled are called.                                          *)

\* A call of all begins to build.
LEMMA AllBuilds ==
  ASSUME NEW H, NEW U, Inv(H, U), NEW P, Whole(P), Idles, SameScript,
         NEW a \in Activation, a.k = "build", a.p \notin DOMAIN agg, a.todo = <<>>,
         ctl' = Append(ctl, a), reactions'[a.p] = <<>>,
         \A i \in DOMAIN agg'[a.p].items : agg'[a.p].items[i] # a.p
  PROVE  BuildsAlone'
<1>1. /\ TypeOK /\ BuildsAlone /\ StackGood(H, U) /\ ctl \in Seq(Activation)
  BY InvFacts DEF Whole, TypeOK
<1>2. PICK n, T : n = Len(ctl) /\ T = ctl'
  OBVIOUS
<1>3. /\ n \in Nat /\ Len(T) = n + 1 /\ T[n + 1] = a /\ \A j \in 1 .. n : T[j] = ctl[j]
  BY <1>1, <1>2, PushedType
<1>4. \A j \in 1 .. Len(T) : (j \in 1 .. n /\ T[j] = ctl[j]) \/ (j = n + 1 /\ T[j] = a)
  BY <1>3
<1>5. /\ script.inline => \A j \in 1 .. n : ~Works(ctl[j])
      /\ ~script.inline => \A j \in 1 .. n : ctl[j].k # "release"
  BY <1>1, <1>2, NoWork
<1>6. \A j \in 1 .. n : Works(ctl[j]) => ctl[j].p \in DOMAIN agg
  BY <1>1, <1>2 DEF StackGood, GoodAt, Works
<1>7. ASSUME NEW i \in 1 .. Len(T), NEW j \in 1 .. Len(T), Works(T[i]), Works(T[j]), T[i].p = T[j].p
      PROVE  i = j
  BY <1>1, <1>2, <1>4, <1>6, <1>7 DEF BuildsAlone
<1>8. ASSUME script.inline, NEW j \in 1 .. Len(T), Works(T[j]) PROVE j = Len(T) /\ T[j] = a
  BY <1>3, <1>4, <1>5, <1>8
<1>9. ASSUME ~script.inline, NEW j \in 1 .. Len(T), T[j].k = "release" PROVE FALSE
  BY <1>4, <1>5, <1>9
<1>10. ASSUME script.inline, NEW j \in 1 .. Len(T), Works(T[j])
       PROVE  /\ j = Len(T) /\ reactions'[T[j].p] = <<>>
              /\ \A i \in DOMAIN agg'[T[j].p].items : agg'[T[j].p].items[i] # T[j].p
  BY <1>8, <1>10
<1> QED
  BY <1>2, <1>7, <1>9, <1>10 DEF BuildsAlone, SameScript, Works

Grows(T, a) == T = Append(ctl, a)

\* The context of an aggregation that has just been called.
Opened(X) == /\ X.items \in Seq(AnyVal \cup Promise) /\ X.remaining = 0 /\ X.live = 0
             /\ X.settled = FALSE /\ X.freed = FALSE

\* Its account is open.
LEMMA NewAccount ==
  ASSUME TypeOK, NEW H, NEW U, Inv(H, U), NEW P, Ledger(P), NEW f \in Promise, f \notin DOMAIN agg,
         f \notin Born, NEW a \in Activation, a.k = "build", a.p = f, a.at = 1,
         NEW T, T = ctl', Grows(T, a), NEW X, X = agg'[f], Opened(X), state'[f] = "PENDING"
  PROVE  Account(f, P)'
<1>1. /\ StackGood(H, U) /\ ctl \in Seq(Activation)
  BY InvFacts DEF TypeOK
<1>2. PICK n, K, R, B, W, st : /\ n = Len(ctl) /\ st = state'[f]
                                  /\ K = Claims(f, P)' /\ R = Posts(f, "release")'
                                  /\ B = Posts(f, "build")' /\ W = Posts(f, "built")'
  OBVIOUS
<1>3. /\ n \in Nat /\ Len(T) = n + 1 /\ T[n + 1] = a /\ \A j \in 1 .. n : T[j] = ctl[j]
  BY <1>1, <1>2, PushedType DEF Grows
<1>4. \A j \in 1 .. Len(T) : (j \in 1 .. n /\ T[j] = ctl[j]) \/ (j = n + 1 /\ T[j] = a)
  BY <1>3
<1>5. \A j \in 1 .. n : ctl[j].k # "main" => ctl[j].p # f
  BY <1>1, <1>2 DEF StackGood, GoodAt
<1>6. ASSUME NEW k \in WorkKinds, NEW j
      PROVE  j \in Posts(f, k)' <=> j = n + 1 /\ k = "build"
  <2>1. j \in Posts(f, k)' <=> j \in 1 .. Len(T) /\ T[j].k = k /\ T[j].p = f
    BY <1>2 DEF Posts, PostsIn
  <2>2. n + 1 \in 1 .. Len(T) /\ k # "main"
    BY <1>3 DEF WorkKinds
  <2> QED
    BY <1>3, <1>4, <1>5, <2>1, <2>2
<1>7. R = {} /\ B = {n + 1} /\ W = {}
  BY <1>2, <1>6 DEF WorkKinds
<1>8. K = {}
  <2>1. ASSUME NEW i, <<f, i>> \in DOMAIN P PROVE FALSE
    <3>1. \E c \in DOMAIN agg : \E l : <<f, i>> = <<c, l>>
      BY <2>1 DEF Ledger
    <3> QED
      BY <3>1
  <2> QED
    BY <1>2, <2>1 DEF Claims
<1>9. Cardinality(K) = 0 /\ Cardinality(R) = 0
  BY <1>7, <1>8, FS_EmptySet
<1>10. \A i \in DOMAIN X.items : \E j \in B : i >= T[j].at
  <2>1. \A i \in DOMAIN X.items : i >= 1
    BY LenProperties DEF Opened
  <2> QED
    BY <1>3, <1>7, <2>1
<1>11. X.freed <=> (K = {} /\ R = {} /\ B = {} /\ W = {})
  <2>1. ~(K = {} /\ R = {} /\ B = {} /\ W = {})
    BY <1>7
  <2> QED
    BY <2>1 DEF Opened
<1>14. st \in {"PENDING"} \cup Final /\ (X.settled <=> st \in Final)
  <2>1. st \notin Final /\ st \in {"PENDING"} \cup Final
    BY <1>2 DEF Final
  <2>2. X.settled = FALSE
    BY DEF Opened
  <2> QED
    BY <2>1, <2>2
<1>12. /\ X.live = Cardinality(K) + Cardinality(R) /\ X.remaining = Cardinality(K)
       /\ \A j \in B : \A i \in K : i < T[j].at
  BY <1>8, <1>9 DEF Opened
<1>13. /\ st = "PENDING" =>
            /\ X.remaining = Cardinality(K)
            /\ K = {} => B # {}
            /\ \A i \in DOMAIN X.items : i \in K \/ Stored(f, i)' \/ \E j \in B : i >= T[j].at
       /\ st = "FULFILLED" => \A i \in DOMAIN X.items : Stored(f, i)'
       /\ st = "REJECTED" => Failed(f)'
  BY <1>2, <1>7, <1>10, <1>12
<1> QED
  BY <1>2, <1>11, <1>12, <1>13, <1>14, AccountIs

LEMMA AllWhole ==
  ASSUME NEW H, NEW U, Inv(H, U), TypeOK', NEW P, Whole(P), All
  PROVE  Whole(P)'
<1>1. PICK f, a, S, T, n : f = Fresh /\ a = Active("build", f) /\ S = ctl' /\ T = ctl' /\ n = Len(ctl)
  OBVIOUS
<1>2. /\ TypeOK /\ AggsAlone /\ Ledger(P) /\ AllBacked /\ BuildsAlone /\ AggregatesProper
      /\ \A d \in DOMAIN agg : Account(d, P)
  BY InvFacts DEF Whole, Accounts
<1>3. /\ InScript("all") /\ MakeFresh("PENDING", Array) /\ ctl' = Append(ctl, a)
      /\ reactions' = reactions /\ open' = open
  BY <1>1 DEF All, Keep
<1>4. /\ f \in Promise /\ f # None /\ f \notin Born /\ f \notin DOMAIN agg /\ f \notin open
      /\ f \notin known /\ Turns(f) /\ state'[f] = "PENDING" /\ reactions[f] = <<>>
  BY <1>1, <1>3, FreshTurns
<1>5. PICK items \in Items, all \in BOOLEAN :
        agg' = [c \in DOMAIN agg \cup {Fresh} |->
                  IF c # Fresh THEN agg[c]
                  ELSE [items |-> items, values |-> [i \in DOMAIN items |-> Hole],
                        all |-> all, remaining |-> 0, live |-> 0,
                        settled |-> FALSE, freed |-> FALSE]]
  BY DEF All
<1>6. PICK X : X = agg'[f]
  OBVIOUS
<1>7. /\ DOMAIN agg' = DOMAIN agg \cup {f} /\ \A d \in DOMAIN agg : agg'[d] = agg[d]
      /\ X.items = items /\ X.remaining = 0 /\ X.live = 0
      /\ X.settled = FALSE /\ X.freed = FALSE
  BY <1>1, <1>4, <1>5, <1>6
<1>8. /\ items \in Seq(AnyVal \cup Promise) /\ \A i \in DOMAIN items : items[i] # f
  <2>1. known \subseteq Promise /\ Val \subseteq AnyVal /\ Thenable \in AnyVal
    BY <1>2 DEF TypeOK, AnyVal
  <2>2. \A x \in known \cup Val \cup {Thenable} : x \in AnyVal \cup Promise /\ x # f
    BY <1>4, <2>1, PromiseAssumption
  <2>3. PICK x \in known \cup Val \cup {Thenable}, y \in known \cup Val \cup {Thenable} : items = <<x, y>>
    BY <1>5 DEF Items
  <2> QED
    BY <2>2, <2>3
<1>9. /\ a \in Activation /\ a.k = "build" /\ a.p = f /\ a.todo = <<>> /\ a.at = 1 /\ Len(a.todo) = 0
  BY <1>1, <1>4, FreshActivation
<1>10. Idles /\ SameScript /\ \A b : Going(ctl, b)
  BY <1>3, ScriptIdles
<1>11. AllLone(ctl) /\ StillBacks(ctl, f)
  <2>1. \A j \in 1 .. Len(ctl) : Fit(ctl[j])
    BY FitStack
  <2> QED
    BY <1>2, <2>1 DEF AllLone, StillBacks, AggsAlone, TypeOK
<1>12. AggsAlone'
  <2>1. Lone(a)'
    BY <1>9 DEF Lone
  <2>2. /\ \A c \in DOMAIN agg' : c \in DOMAIN agg \/ c \notin Born
        /\ open' \cap DOMAIN agg' = {}
    BY <1>2, <1>3, <1>4, <1>7 DEF AggsAlone
  <2>3. ctl' = ctl \/ \E b \in Activation : ctl' = Append(ctl, b) /\ Lone(b)'
    BY <1>3, <1>9, <2>1
  <2>4. \A y \in Promise :
           \/ reactions'[y] = reactions[y]
           \/ reactions'[y] = <<>>
           \/ \E r \in Reaction : reactions'[y] = Append(reactions[y], r) /\ Theirs(r)'
    BY <1>3
  <2> QED
    BY <1>2, <1>4, <1>11, <2>2, <2>3, <2>4, LoneStep
<1>13. AllBacked'
  <2>1. Backed(f)'
    BY <1>7 DEF Backed
  <2>2. ctl' = ctl \/ \E b \in Activation : ctl' = Append(ctl, b)
    BY <1>3, <1>9
  <2>3. \A y \in Promise :
           \/ reactions'[y] = reactions[y]
           \/ reactions'[y] = <<>> /\ \E j \in 1 .. Len(ctl) : ctl[j].todo = reactions[y]
           \/ \E r \in Reaction : reactions'[y] = Append(reactions[y], r)
    BY <1>3
  <2>4. \A y \in Promise : y # f /\ state'[y] = "PENDING" => state[y] = "PENDING"
    BY <1>4 DEF Turns
  <2>5. script'.may = script.may /\ DOMAIN agg \subseteq DOMAIN agg'
        /\ \A y \in open : y # f => y \in open'
    BY <1>3, <1>7, <1>10 DEF SameScript
  <2> QED
    BY <1>2, <1>11, <2>1, <2>2, <2>3, <2>4, <2>5, BackedStep
<1>14. BuildsAlone'
  <2>1. reactions'[a.p] = <<>> /\ \A i \in DOMAIN agg'[a.p].items : agg'[a.p].items[i] # a.p
    BY <1>3, <1>4, <1>6, <1>7, <1>8, <1>9
  <2> QED
    BY <1>3, <1>4, <1>9, <1>10, <2>1, AllBuilds
<1>15. Ledger(P)'
  <2>1. AggregatesGoOn
    BY <1>7 DEF AggregatesGoOn
  <2>2. ctl' = ctl \/ \E b \in Activation : ctl' = Append(ctl, b) /\ b.todo = <<>>
    BY <1>3, <1>9
  <2> QED
    BY <1>2, <1>3, <1>10, <2>1, <2>2, LedgerPlain
<1>16. ASSUME NEW d \in DOMAIN agg PROVE Account(d, P)'
  <2>1. d # f /\ d \in DOMAIN agg' /\ agg'[d] = agg[d]
    BY <1>4, <1>7
  <2>2. /\ S \in Seq(Activation) /\ Len(S) = n + 1 /\ S[n + 1] = a /\ n \in Nat
        /\ \A j \in 1 .. n : S[j] = ctl[j]
    BY <1>1, <1>2, <1>3, <1>9, PushedType DEF TypeOK
  <2>3. \A j \in 1 .. Len(S) : j > n => S[j].p = f
    BY <1>9, <2>2
  <2>4. Reaches(S, n, f)
    BY <1>1, <2>2, <2>3 DEF Reaches
  <2>5. Overlies(S, T)
    BY <1>1 DEF Overlies
  <2> QED
    BY <1>1, <1>2, <1>4, <2>1, <2>4, <2>5, OthersStay
<1>19. Opened(X)
  BY <1>7, <1>8 DEF Opened
<1>17. Account(f, P)'
  <2>1. Grows(T, a)
    BY <1>1, <1>3 DEF Grows
  <2> QED
    BY <1>1, <1>2, <1>4, <1>6, <1>9, <1>19, <2>1, NewAccount
<1>18. Accounts(P)'
  <2>1. \A d \in DOMAIN agg' : Account(d, P)'
    BY <1>7, <1>16, <1>17
  <2> QED
    BY <1>15, <2>1 DEF Accounts
<1> QED
  BY <1>12, <1>13, <1>14, <1>18 DEF Whole

----------------------------------------------------------------------------
(* An input arrives: a drain runs the reaction that counts it.             *)

\* An input of the aggregation of c, its i-th, has arrived: r is the reaction, a
\* the drain that goes on, and T the stack with the release of the context.
Arrives(r, a, c, i, n, S, b, T) ==
  /\ ctl # <<>> /\ Top.k = "drain" /\ Top.todo # <<>> /\ DrainsOn(r, Tail(Top.todo), a)
  /\ IsKept(r) /\ c = r.onF.to /\ i = r.onF.at /\ n = Len(ctl)
  /\ S = Replaced(a) /\ b = Active("release", c) /\ T = Append(S, b)

\* What is on the books of the reaction r.
LEMMA ArrivalTop ==
  ASSUME NEW H, NEW U, Inv(H, U), NEW P, Whole(P), NEW r, NEW a, NEW c, NEW i, NEW n, NEW S, NEW b,
         NEW T, Arrives(r, a, c, i, n, S, b, T)
  PROVE  /\ TypeOK /\ AggsAlone /\ AggregatesProper /\ script.inline \in BOOLEAN
         /\ c \in DOMAIN agg /\ c \in Promise /\ c \in Born /\ i \in DOMAIN agg[c].items
         /\ r.np = None /\ Top.p \in Promise /\ state[Top.p] \in Final
         /\ Top.ok = (state[Top.p] = "FULFILLED")
         /\ agg[c].items[i] = Top.p /\ KeyOf(r) \in DOMAIN P /\ P[KeyOf(r)] = OnStack(n)
         /\ \A k : k \in Keys(Top.todo) <=> k \in DOMAIN P /\ P[k] = OnStack(n)
         /\ Keys(a.todo) = Keys(Top.todo) \ {KeyOf(r)} /\ OnceEach(a.todo)
<1>1. ctl # <<>> /\ Top.k = "drain" /\ Top.todo # <<>> /\ IsKept(r) /\ KeyOf(r) = <<c, i>>
  BY DEF Arrives, KeyOf
<1>2. PICK s : s = Tail(Top.todo) /\ DrainsOn(r, s, a)
  BY DEF Arrives
<1>3. /\ TypeOK /\ AggsAlone /\ AggregatesProper /\ Ledger(P) /\ script.inline \in BOOLEAN
      /\ n = Len(ctl)
  BY InvFacts DEF Whole, Accounts, Arrives
<1>4. /\ a.todo = s /\ r \in Reaction /\ Proper(r)
      /\ Keys(Top.todo) = {k \in DOMAIN P : P[k] = OnStack(Len(ctl))}
      /\ Keys(s) = Keys(Top.todo) \ (IF IsKept(r) THEN {KeyOf(r)} ELSE {}) /\ OnceEach(s)
      /\ IsKept(r) => KeyOf(r) \in Keys(Top.todo)
      /\ Top.p \in Promise /\ state[Top.p] \in Final
      /\ Top.ok = (state[Top.p] = "FULFILLED")
  BY <1>1, <1>2, <1>3, DrainTop
<1>5. Keys(s) = Keys(Top.todo) \ {<<c, i>>} /\ <<c, i>> \in DOMAIN P /\ P[<<c, i>>] = OnStack(n)
  BY <1>1, <1>3, <1>4
<1>6. r.np = None /\ c \in DOMAIN agg /\ i \in DOMAIN agg[c].items
  BY <1>1, <1>4 DEF Proper, IsKept, Arrives
<1>7. c \in Promise /\ c \in Born
  BY <1>3, <1>6, NatFacts DEF AggregatesProper
<1>8. agg[c].items[i] = Top.p
  <2>1. PICK d \in DOMAIN agg : \E l \in DOMAIN agg[d].items :
         /\ <<c, i>> = <<d, l>> /\ agg[d].items[l] \in Promise
         /\ \/ P[<<c, i>>] = OnList(agg[d].items[l])
            \/ \E j \in 1 .. Len(ctl) : /\ P[<<c, i>>] = OnStack(j) /\ ctl[j].k = "drain"
                                        /\ ctl[j].p = agg[d].items[l]
    BY <1>3, <1>5 DEF Ledger
  <2>2. \/ P[<<c, i>>] = OnList(agg[c].items[i])
        \/ \E j \in 1 .. Len(ctl) : /\ P[<<c, i>>] = OnStack(j) /\ ctl[j].p = agg[c].items[i]
    BY <2>1
  <2>3. ctl[n].p = agg[c].items[i]
    BY <1>5, <2>2, HoldersApart
  <2> QED
    BY <1>1, <1>3, <2>3, StackType
<1>9. \A k : k \in Keys(Top.todo) <=> k \in DOMAIN P /\ P[k] = OnStack(n)
  BY <1>3, <1>4
<1> QED
  BY <1>3, <1>4, <1>5, <1>6, <1>7, <1>8, <1>9

\* What the stack T holds.
LEMMA ArrivalStack ==
  ASSUME NEW H, NEW U, Inv(H, U), NEW P, Whole(P), NEW r, NEW a, NEW c, NEW i, NEW n, NEW S, NEW b,
         NEW T, Arrives(r, a, c, i, n, S, b, T)
  PROVE  /\ AllLone(T) /\ StillBacks(T, c) /\ Reaches(T, n - 1, c)
         /\ T \in Seq(Activation) /\ Len(T) = n + 1 /\ n \in Nat \ {0} /\ n \in 1 .. n
         /\ T[n] = a /\ T[n + 1] = b /\ \A j \in 1 .. n - 1 : T[j] = ctl[j]
         /\ a.k = "drain" /\ a.p = Top.p /\ Top = ctl[n] /\ ctl[n].k = "drain"
         /\ b \in Activation /\ b.k = "release" /\ b.p = c /\ b.todo = <<>>
<1>1. ctl # <<>> /\ Top.k = "drain" /\ Top.todo # <<>> /\ n = Len(ctl) /\ c = r.onF.to
  BY DEF Arrives
<1>2. PICK s : s = Tail(Top.todo) /\ DrainsOn(r, s, a)
  BY DEF Arrives
<1>3. /\ TypeOK /\ AggsAlone /\ Ledger(P) /\ c \in DOMAIN agg /\ c \in Promise /\ c \in Born /\ r.np = None
  BY ArrivalTop DEF Whole, Accounts
<1>4. /\ Fit(a) /\ Lone(a) /\ a.k = "drain" /\ a.p = Top.p
      /\ \A x : {r.np, r.onF.to} \subseteq {x, None} => Yields(Replaced(a), a, x)
  BY <1>1, <1>2, <1>3, DrainTop
<1>5. S = Replaced(a) /\ T = Append(S, b) /\ b = Active("release", c)
  BY DEF Arrives
<1>6. AllLone(S) /\ StillBacks(S, c)
  <2>1. Instead(S, a) /\ Yields(S, a, c)
    BY <1>1, <1>3, <1>4, <1>5 DEF Instead
  <2> QED
    BY <1>3, <2>1, YieldsBacks
<1>7. b \in Activation /\ b.k = "release" /\ b.p = c /\ b.todo = <<>> /\ Len(b.todo) = 0
  BY <1>3, <1>5, FreshActivation
<1>8. Fit(b) /\ Lone(b)
  BY <1>3, <1>7 DEF Fit, Lone
<1>9. /\ S \in Seq(Activation) /\ Len(S) = n /\ S[n] = a /\ \A j \in 1 .. n - 1 : S[j] = ctl[j]
      /\ n \in Nat \ {0} /\ n \in 1 .. n /\ Top = ctl[n]
  <2>1. a \in Activation
    BY <1>4 DEF Fit
  <2> QED
    BY <1>1, <1>3, <1>5, <2>1, ReplacedType, StackType
<1>10. /\ T \in Seq(Activation) /\ Len(T) = n + 1 /\ T[n + 1] = b
       /\ \A j \in 1 .. n : T[j] = S[j]
  BY <1>5, <1>7, <1>9, PushedType
<1>11. /\ \A j \in 1 .. n : j \in 1 .. Len(T)
       /\ \A j \in 1 .. Len(T) : j \in 1 .. n \/ j = n + 1
       /\ \A j \in 1 .. n - 1 : j \in 1 .. n
       /\ \A j \in 1 .. n : j > n - 1 => j = n
  BY <1>9, <1>10
<1>12. AllLone(T)
  BY <1>6, <1>8, <1>9, <1>10, <1>11 DEF AllLone
<1>13. StillBacks(T, c)
  BY <1>6, <1>9, <1>10, <1>11 DEF StillBacks
<1>14. Reaches(T, n - 1, c)
  <2>1. n - 1 \in Nat /\ n - 1 <= Len(ctl) /\ n - 1 <= Len(T)
    BY <1>1, <1>9, <1>10
  <2>2. \A j \in 1 .. n - 1 : T[j] = ctl[j]
    BY <1>9, <1>10, <1>11
  <2>3. ctl[n].k \notin WorkKinds /\ T[n].k \notin WorkKinds
    BY <1>1, <1>4, <1>9, <1>10 DEF WorkKinds
  <2>4. \A j \in 1 .. Len(ctl) : j > n - 1 /\ ctl[j].k \in WorkKinds => ctl[j].p = c
    BY <1>1, <1>11, <2>3
  <2>5. \A j \in 1 .. Len(T) : j > n - 1 /\ T[j].k \in WorkKinds => T[j].p = c
    BY <1>7, <1>10, <1>11, <2>3
  <2> QED
    BY <1>10, <2>1, <2>2, <2>4, <2>5 DEF Reaches
<1> QED
  BY <1>1, <1>4, <1>7, <1>9, <1>10, <1>11, <1>12, <1>13, <1>14

\* The works of c, before and on T.
LEMMA ArrivalPosts ==
  ASSUME NEW H, NEW U, Inv(H, U), NEW P, Whole(P), NEW r, NEW a, NEW c, NEW i, NEW n, NEW S, NEW b,
         NEW T, Arrives(r, a, c, i, n, S, b, T)
  PROVE  /\ PostsIn(T, c, "release") = Posts(c, "release") \cup {n + 1} /\ n + 1 \notin Posts(c, "release")
         /\ PostsIn(T, c, "build") = {} /\ PostsIn(T, c, "built") = {}
         /\ Posts(c, "build") = {} /\ Posts(c, "built") = {}
         /\ script.inline => \A j \in 1 .. n : ~Works(ctl[j])
         /\ ~script.inline => n = 1
<1>0. n = Len(ctl)
  BY DEF Arrives
<1>1. /\ Len(T) = n + 1 /\ n \in Nat \ {0} /\ n \in 1 .. n /\ n = Len(ctl)
      /\ T[n] = a /\ T[n + 1] = b /\ \A j \in 1 .. n - 1 : T[j] = ctl[j]
      /\ a.k = "drain" /\ ctl[n].k = "drain" /\ b.k = "release" /\ b.p = c
  BY <1>0, ArrivalStack
<1>2. Top.k = "drain" /\ Top.todo # <<>> /\ ctl # <<>>
  BY DEF Arrives
<1>3. script.inline => \A j \in 1 .. n : ~Works(ctl[j])
  <2>1. Idles /\ BuildsAlone
    BY <1>2 DEF Idles, Whole
  <2> QED
    BY <1>1, <2>1, NoWork
<1>4. ~script.inline => n = 1
  <2>1. GoodAt(Top, n, H, U)
    BY <1>1, <1>2, StackReady
  <2> QED
    BY <1>2, <2>1 DEF GoodAt
<1>5. \A j \in 1 .. n : ~Works(ctl[j])
  <2>1. CASE script.inline
    BY <1>3, <2>1
  <2>2. CASE ~script.inline
    <3>1. \A j \in 1 .. n : j = n
      BY <1>4, <2>2
    <3> QED
      BY <1>1, <3>1 DEF Works
  <2> QED
    BY <2>1, <2>2
<1>6. \A k : k \in {"build", "built"} => \A j : j \notin Posts(c, k)
  BY <1>1, <1>5 DEF Posts, PostsIn, Works
<1>7. \A j : j \in 1 .. Len(T) <=> j \in 1 .. n - 1 \/ j = n \/ j = n + 1
  BY <1>1
<1>8. \A j : j \in 1 .. Len(ctl) <=> j \in 1 .. n - 1 \/ j = n
  BY <1>1
<1>9. ASSUME NEW k \in WorkKinds, NEW j
      PROVE  j \in PostsIn(T, c, k) <=> j \in Posts(c, k) \/ (j = n + 1 /\ k = "release")
  <2>1. j \in PostsIn(T, c, k) <=> j \in 1 .. Len(T) /\ T[j].k = k /\ T[j].p = c
    BY DEF PostsIn
  <2>2. j \in Posts(c, k) <=> j \in 1 .. Len(ctl) /\ ctl[j].k = k /\ ctl[j].p = c
    BY DEF Posts, PostsIn
  <2> QED
    BY <1>1, <1>7, <1>8, <2>1, <2>2 DEF WorkKinds
<1>10. \A j : /\ j \in PostsIn(T, c, "release") <=> j \in Posts(c, "release") \cup {n + 1}
              /\ j \notin PostsIn(T, c, "build") /\ j \notin PostsIn(T, c, "built")
              /\ j \notin Posts(c, "build") /\ j \notin Posts(c, "built")
  BY <1>6, <1>9 DEF WorkKinds
<1>11. PostsIn(T, c, "release") = Posts(c, "release") \cup {n + 1}
  BY <1>10
<1>12. n + 1 \notin Posts(c, "release")
  BY <1>1 DEF Posts, PostsIn
<1> QED
  BY <1>3, <1>4, <1>10, <1>11, <1>12

\* What is on the books without the key g.
Struck(P, g) == [k \in DOMAIN P \ {g} |-> P[k]]

\* The books without r.
LEMMA ArrivalLedger ==
  ASSUME NEW H, NEW U, Inv(H, U), NEW P, Whole(P), NEW r, NEW a, NEW c, NEW i, NEW n, NEW S, NEW b,
         NEW T, Arrives(r, a, c, i, n, S, b, T), NEW C, C = ctl', Overlies(T, C),
         reactions' = reactions, AggregatesGoOn, NEW P2, P2 = Struck(P, KeyOf(r))
  PROVE  Ledger(P2)'
<1>1. /\ Len(T) = n + 1 /\ n \in Nat \ {0} /\ T \in Seq(Activation)
      /\ T[n] = a /\ T[n + 1] = b /\ \A j \in 1 .. n - 1 : T[j] = ctl[j]
      /\ a.k = "drain" /\ a.p = Top.p /\ Top = ctl[n] /\ b.todo = <<>>
  BY ArrivalStack
<1>2. n = Len(ctl)
  BY DEF Arrives
<1>3. /\ P[KeyOf(r)] = OnStack(n) /\ KeyOf(r) \in DOMAIN P /\ OnceEach(a.todo)
      /\ Keys(a.todo) = {k \in DOMAIN P : P[k] = OnStack(n)} \ {KeyOf(r)}
  <2>1. /\ P[KeyOf(r)] = OnStack(n) /\ KeyOf(r) \in DOMAIN P /\ OnceEach(a.todo)
        /\ \A k : k \in Keys(Top.todo) <=> k \in DOMAIN P /\ P[k] = OnStack(n)
        /\ Keys(a.todo) = Keys(Top.todo) \ {KeyOf(r)}
    BY ArrivalTop
  <2>2. \A k : k \in Keys(a.todo) <=> k \in {l \in DOMAIN P : P[l] = OnStack(n)} \ {KeyOf(r)}
    BY <2>1
  <2> QED
    BY <2>1, <2>2
<1>4. Ledger(P)
  BY DEF Whole, Accounts
<1>5. DOMAIN P2 = DOMAIN P \ {KeyOf(r)} /\ \A k \in DOMAIN P2 : k \in DOMAIN P /\ P2[k] = P[k]
  BY DEF Struck
<1>6. ASSUME NEW h, h # OnStack(n)
      PROVE  {k \in DOMAIN P2 : P2[k] = h} = {k \in DOMAIN P : P[k] = h}
  <2>1. \A k : k \in {l \in DOMAIN P2 : P2[l] = h} <=> k \in {l \in DOMAIN P : P[l] = h}
    BY <1>3, <1>5, <1>6
  <2> QED
    BY <2>1
<1>7. \A j : j \in 1 .. Len(T) => j \in 1 .. n - 1 \/ j = n \/ j = n + 1
  BY <1>1
<1>8. \A j : j \in 1 .. n - 1 => j \in 1 .. n /\ j # n
  BY <1>1
<1>9. ASSUME NEW j \in 1 .. Len(T) PROVE Filed(T[j].todo, OnStack(j), P2)
  <2>1. CASE j \in 1 .. n - 1
    <3>1. OnStack(j) # OnStack(n)
      BY <1>8, <2>1, HoldersApart
    <3>2. Filed(ctl[j].todo, OnStack(j), P)
      BY <1>2, <1>4, <1>8, <2>1 DEF Ledger
    <3> QED
      BY <1>1, <1>6, <2>1, <3>1, <3>2 DEF Filed
  <2>2. CASE j = n
    <3>1. \A k : k \in {l \in DOMAIN P2 : P2[l] = OnStack(n)}
                  <=> k \in {l \in DOMAIN P : P[l] = OnStack(n)} \ {KeyOf(r)}
      BY <1>5
    <3> QED
      BY <1>1, <1>3, <2>2, <3>1 DEF Filed
  <2>3. CASE j = n + 1
    <3>1. \A k \in DOMAIN P : P[k] # OnStack(j)
      <4>1. j \notin 1 .. n
        BY <1>1, <2>3
      <4> QED
        BY <1>2, <1>4, <4>1, HoldersApart DEF Ledger
    <3>2. \A k \in DOMAIN P2 : P2[k] # OnStack(j)
      BY <1>5, <3>1
    <3> QED
      BY <1>1, <2>3, <3>2, NoKeys DEF Filed
  <2> QED
    BY <1>7, <2>1, <2>2, <2>3
<1>10. ASSUME NEW q \in Promise PROVE Filed(reactions'[q], OnList(q), P2)
  <2>1. OnList(q) # OnStack(n) /\ Filed(reactions[q], OnList(q), P)
    BY <1>4, HoldersApart DEF Ledger
  <2> QED
    BY <1>6, <2>1 DEF Filed
<1>11. ASSUME NEW k \in DOMAIN P2
       PROVE  \E d \in DOMAIN agg' : \E l \in DOMAIN agg'[d].items :
                /\ k = <<d, l>> /\ agg'[d].items[l] \in Promise
                /\ \/ P2[k] = OnList(agg'[d].items[l])
                   \/ \E j \in 1 .. Len(T) : /\ P2[k] = OnStack(j) /\ T[j].k = "drain"
                                             /\ T[j].p = agg'[d].items[l]
  <2>0. k \in DOMAIN P /\ P2[k] = P[k]
    BY <1>5
  <2>1. PICK d \in DOMAIN agg : \E l \in DOMAIN agg[d].items :
               /\ k = <<d, l>> /\ agg[d].items[l] \in Promise
               /\ \/ P[k] = OnList(agg[d].items[l])
                  \/ \E j \in 1 .. Len(ctl) : /\ P[k] = OnStack(j) /\ ctl[j].k = "drain"
                                              /\ ctl[j].p = agg[d].items[l]
    BY <1>4, <2>0 DEF Ledger
  <2>2. PICK l \in DOMAIN agg[d].items :
               /\ k = <<d, l>> /\ agg[d].items[l] \in Promise
               /\ \/ P[k] = OnList(agg[d].items[l])
                  \/ \E j \in 1 .. Len(ctl) : /\ P[k] = OnStack(j) /\ ctl[j].k = "drain"
                                              /\ ctl[j].p = agg[d].items[l]
    BY <2>1
  <2>3. /\ d \in DOMAIN agg' /\ l \in DOMAIN agg'[d].items
        /\ agg'[d].items[l] = agg[d].items[l]
    BY <2>2, PromiseAssumption DEF AggregatesGoOn
  <2>4. \A j \in 1 .. n : j \in 1 .. Len(T) /\ (ctl[j].k = "drain" => T[j].k = "drain" /\ T[j].p = ctl[j].p)
    <3>1. \A j \in 1 .. n : j \in 1 .. n - 1 \/ j = n
      BY <1>1
    <3>2. \A j \in 1 .. n : j \in 1 .. Len(T)
      BY <1>1
    <3> QED
      BY <1>1, <3>1, <3>2
  <2> QED
    BY <1>2, <2>0, <2>2, <2>3, <2>4
<1>12. T \in Seq(Activation)
  BY <1>1
<1> QED
  BY <1>9, <1>10, <1>11, <1>12, LedgerTo

\* What T goes on as: C is T, or T with the entry that settles c.
Goes(C, T, c) ==
  \/ C = T
  \/ \E e \in Activation : /\ C = Append(T, e) /\ e.todo = <<>> /\ e.k \notin WorkKinds
                           /\ Lone(e)' /\ e.k = "enter" /\ e.p = c /\ script.inline

\* A release on top of a drain is as the host allows.
LEMMA ArrivalBuilds ==
  ASSUME NEW H, NEW U, Inv(H, U), NEW P, Whole(P), NEW r, NEW a, NEW c, NEW i, NEW n, NEW S, NEW b,
         NEW T, Arrives(r, a, c, i, n, S, b, T), NEW C, C = ctl', Goes(C, T, c), SameScript
  PROVE  BuildsAlone'
<1>1. /\ Len(T) = n + 1 /\ n \in Nat \ {0} /\ T \in Seq(Activation)
      /\ T[n] = a /\ T[n + 1] = b /\ \A j \in 1 .. n - 1 : T[j] = ctl[j]
      /\ a.k = "drain" /\ ctl[n].k = "drain" /\ b.k = "release"
  BY ArrivalStack
<1>2. n = Len(ctl) /\ script'.inline = script.inline
  BY DEF Arrives, SameScript
<1>3. /\ script.inline => \A j \in 1 .. n : ~Works(ctl[j])
      /\ ~script.inline => n = 1
  BY ArrivalPosts
<1>4. Overlies(T, C)
  BY DEF Overlies, Goes
<1>5. \A j \in 1 .. Len(C) : j \in 1 .. Len(T) \/ C[j].k \notin WorkKinds
  BY <1>1, <1>4, OverFacts
<1>6. \A j \in 1 .. Len(T) : j \in 1 .. Len(C) /\ C[j] = T[j]
  BY <1>1, <1>4, OverFacts
<1>7. \A j : j \in 1 .. Len(T) => (j \in 1 .. n - 1 /\ j \in 1 .. n) \/ j = n \/ j = n + 1
  BY <1>1
<1>8. \A j \in 1 .. Len(C) : ~Works(C[j])
  <2> SUFFICES ASSUME NEW j \in 1 .. Len(C), Works(C[j]) PROVE FALSE
    OBVIOUS
  <2>1. j \in 1 .. Len(T) /\ C[j] = T[j]
    BY <1>5, <1>6 DEF Works, WorkKinds
  <2>2. j \in 1 .. n - 1 /\ j \in 1 .. n /\ C[j] = ctl[j]
    BY <1>1, <1>7, <2>1 DEF Works
  <2>3. script.inline
    BY <1>1, <1>3, <2>2
  <2> QED
    BY <1>3, <2>2, <2>3
<1>9. ASSUME ~script.inline, NEW j \in 1 .. Len(C), C[j].k = "release"
      PROVE  j = 2 /\ Len(C) = 2 /\ C[1].k = "drain"
  <2>1. C = T /\ n = 1
    BY <1>3, <1>9 DEF Goes
  <2>0. Len(T) = 2 /\ T[1] = a
    <3>1. n + 1 = 2
      BY <2>1
    <3>2. Len(T) = n + 1 /\ T[n] = a
      BY <1>1
    <3> QED
      BY <2>1, <3>1, <3>2
  <2>2. /\ Len(C) = 2 /\ C[1] = a /\ j \in 1 .. 2
    <3>1. j \in 1 .. Len(C)
      BY <1>9
    <3> QED
      BY <2>0, <2>1, <3>1
  <2>3. j = 1 \/ j = 2
    BY <2>2
  <2>4. C[1].k = "drain"
    BY <1>1, <2>2
  <2> QED
    BY <1>9, <2>2, <2>3, <2>4
<1> QED
  BY <1>2, <1>8, <1>9 DEF BuildsAlone

\* No other input is struck.
LEMMA StruckFacts ==
  ASSUME NEW H, NEW U, Inv(H, U), NEW P, Whole(P), NEW r, NEW a, NEW c, NEW i, NEW n, NEW S, NEW b,
         NEW T, Arrives(r, a, c, i, n, S, b, T), NEW P2, P2 = Struck(P, KeyOf(r))
  PROVE  /\ Claims(c, P2) = Claims(c, P) \ {i} /\ i \in Claims(c, P)
         /\ \A d, l : d # c => (<<d, l>> \in DOMAIN P2 <=> <<d, l>> \in DOMAIN P)
<1>1. KeyOf(r) = <<c, i>>
  BY DEF Arrives, KeyOf
<1>2. KeyOf(r) \in DOMAIN P /\ i \in DOMAIN agg[c].items
  BY ArrivalTop
<1>3. DOMAIN P2 = DOMAIN P \ {KeyOf(r)}
  BY DEF Struck
<1>4. \A l : <<c, l>> = <<c, i>> <=> l = i
  OBVIOUS
<1>5. \A d, l : <<d, l>> = <<c, i>> => d = c
  OBVIOUS
<1>6. \A l : l \in Claims(c, P2) <=> l \in Claims(c, P) \ {i}
  BY <1>1, <1>3, <1>4 DEF Claims
<1>7. i \in Claims(c, P)
  BY <1>1, <1>2 DEF Claims
<1>8. \A d, l : d # c => (<<d, l>> \in DOMAIN P2 <=> <<d, l>> \in DOMAIN P)
  BY <1>1, <1>3, <1>5
<1> QED
  BY <1>6, <1>7, <1>8

\* Everything but the account of c.
LEMMA ArrivalRest ==
  ASSUME NEW H, NEW U, Inv(H, U), TypeOK', NEW P, Whole(P), NEW r, NEW a, NEW c, NEW i, NEW n, NEW S,
         NEW b, NEW T, Arrives(r, a, c, i, n, S, b, T), NEW C, C = ctl', Goes(C, T, c), SameScript,
         NEW q, Turns(q), q = c \/ q = None,
         DOMAIN agg' = DOMAIN agg, \A d \in DOMAIN agg : d # c => agg'[d] = agg[d],
         agg'[c].items = agg[c].items, reactions' = reactions, open' = open,
         NEW P2, P2 = Struck(P, KeyOf(r)), Account(c, P2)'
  PROVE  Whole(P2)'
<1>1. TypeOK /\ AggsAlone /\ c \in DOMAIN agg /\ c \in Promise
  BY ArrivalTop
<1>2. AllBacked /\ \A d \in DOMAIN agg : Account(d, P)
  BY DEF Whole, Accounts
<1>3. AllLone(T) /\ StillBacks(T, c) /\ Reaches(T, n - 1, c)
  BY ArrivalStack
<1>4. Overlies(T, C) /\ AggregatesGoOn
  BY DEF Overlies, Goes, AggregatesGoOn
<1>5. AggsAlone'
  <2>1. ctl' = T \/ \E e \in Activation : ctl' = Append(T, e) /\ Lone(e)'
    BY DEF Goes
  <2>2. open' \cap DOMAIN agg' = {} /\ \A d \in DOMAIN agg' : d \in DOMAIN agg \/ d \notin Born
    BY <1>1 DEF AggsAlone
  <2> QED
    BY <1>1, <1>3, <2>1, <2>2, LoneStep
<1>6. AllBacked'
  <2>1. ctl' = T \/ \E e \in Activation : ctl' = Append(T, e)
    BY DEF Goes
  <2>2. Backed(c)'
    BY <1>1 DEF Backed
  <2>3. \A y \in Promise : y # c /\ state'[y] = "PENDING" => state[y] = "PENDING"
    BY <1>1, NatFacts DEF Turns
  <2>4. script'.may = script.may /\ DOMAIN agg \subseteq DOMAIN agg'
    BY DEF SameScript
  <2> QED
    BY <1>2, <1>3, <2>1, <2>2, <2>3, <2>4, BackedStep
<1>7. BuildsAlone'
  BY ArrivalBuilds
<1>8. Ledger(P2)'
  <2>1. P2 = Struck(P, <<c, i>>)
    BY DEF Arrives, KeyOf
  <2> QED
    BY <1>4, ArrivalLedger
<1>9. ASSUME NEW d \in DOMAIN agg PROVE Account(d, P2)'
  <2>1. CASE d = c
    BY <2>1
  <2>2. CASE d # c
    <3>0. None \notin DOMAIN agg
      BY <1>1, NatFacts DEF TypeOK
    <3>1. q # d /\ d \in DOMAIN agg' /\ agg'[d] = agg[d]
      BY <2>2, <3>0
    <3>2. \A l \in DOMAIN agg[d].items : <<d, l>> \in DOMAIN P2 <=> <<d, l>> \in DOMAIN P
      BY <2>2, StruckFacts
    <3>3. Account(d, P)
      BY <1>2
    <3> QED
      BY <1>1, <1>3, <1>4, <2>2, <3>1, <3>2, <3>3, OthersStay
  <2> QED
    BY <2>1, <2>2
<1>10. Accounts(P2)'
  <2>1. \A d \in DOMAIN agg' : Account(d, P2)'
    BY <1>9
  <2> QED
    BY <1>8, <2>1 DEF Accounts
<1> QED
  BY <1>5, <1>6, <1>7, <1>10 DEF Whole

\* The account of c, whichever way it takes the arrival.
LEMMA ArrivalAccount ==
  ASSUME NEW H, NEW U, Inv(H, U), NEW P, Whole(P), NEW r, NEW a, NEW c, NEW i, NEW n, NEW S, NEW b,
         NEW T, Arrives(r, a, c, i, n, S, b, T), NEW C, C = ctl', Goes(C, T, c),
         NEW P2, P2 = Struck(P, KeyOf(r)), NEW K, K = Claims(c, P), NEW X, X = agg'[c],
         X.items = agg[c].items, X.live = agg[c].live, X.freed = agg[c].freed,
         NEW st, st = state'[c], st \in {"PENDING"} \cup Final, (X.settled <=> st \in Final),
         st = "PENDING" =>
           /\ X.remaining = Cardinality(K \ {i}) /\ K \ {i} # {}
           /\ \A j \in DOMAIN X.items : j \in K \ {i} \/ Stored(c, j)',
         st = "FULFILLED" => \A j \in DOMAIN X.items : Stored(c, j)',
         st = "REJECTED" => Failed(c)'
  PROVE  Account(c, P2)'
<1>1. PICK K2, R, R2, B, W : /\ K2 = K \ {i} /\ R = Posts(c, "release") /\ R2 = Posts(c, "release")'
                             /\ B = Posts(c, "build")' /\ W = Posts(c, "built")'
  OBVIOUS
<1>2. TypeOK /\ AggregatesProper /\ c \in DOMAIN agg
  BY ArrivalTop
<1>3. Account(c, P)
  BY <1>2 DEF Whole, Accounts
<1>4. IsFiniteSet(K) /\ IsFiniteSet(R)
  BY <1>1, <1>2, TallyFacts
<1>5. /\ R2 = R \cup {n + 1} /\ n + 1 \notin R /\ B = {} /\ W = {}
  <2>1. \A k : k \in WorkKinds => PostsIn(C, c, k) = PostsIn(T, c, k)
    <3>1. T \in Seq(Activation) /\ Overlies(T, C)
      BY ArrivalStack DEF Overlies, Goes
    <3> QED
      BY <3>1, OverFacts
  <2>2. \A k : Posts(c, k)' = PostsIn(C, c, k)
    BY DEF Posts, PostsIn
  <2>3. /\ PostsIn(T, c, "release") = Posts(c, "release") \cup {n + 1} /\ n + 1 \notin Posts(c, "release")
        /\ PostsIn(T, c, "build") = {} /\ PostsIn(T, c, "built") = {}
    BY ArrivalPosts
  <2> QED
    BY <1>1, <2>1, <2>2, <2>3 DEF WorkKinds
<1>6. K2 = Claims(c, P2)' /\ i \in K
  <2>1. Claims(c, P2)' = Claims(c, P2)
    BY DEF Claims
  <2>2. Claims(c, P2) = Claims(c, P) \ {i} /\ i \in Claims(c, P)
    BY StruckFacts
  <2> QED
    BY <1>1, <2>1, <2>2
<1>7. /\ Cardinality(K2) = Cardinality(K) - 1 /\ Cardinality(K) \in Nat
      /\ Cardinality(R2) = Cardinality(R) + 1 /\ Cardinality(R) \in Nat
  BY <1>1, <1>4, <1>5, <1>6, SizeFacts
<1>8. PICK B0, W0 : Tally(c, P, K, R, B0, W0)
  BY <1>1 DEF Tally
<1>9. /\ agg[c].live = Cardinality(K) + Cardinality(R)
      /\ agg[c].freed <=> (K = {} /\ R = {} /\ B0 = {} /\ W0 = {})
  BY <1>3, <1>8, AccountWas
<1>10. X.live = Cardinality(K2) + Cardinality(R2)
  BY <1>7, <1>9
<1>11. X.freed <=> (K2 = {} /\ R2 = {} /\ B = {} /\ W = {})
  <2>1. R2 # {} /\ K # {}
    BY <1>5, <1>6
  <2> QED
    BY <1>9, <2>1
<1>12. st = "PENDING" =>
         /\ X.remaining = Cardinality(K2)
         /\ K2 = {} => B # {}
         /\ \A j \in DOMAIN X.items : j \in K2 \/ Stored(c, j)' \/ \E l \in B : j >= C[l].at
  BY <1>1
<1>13. \A j \in B : \A l \in K2 : l < C[j].at
  BY <1>5
<1>14. /\ K2 = Claims(c, P2)' /\ R2 = Posts(c, "release")' /\ B = Posts(c, "build")'
       /\ W = Posts(c, "built")' /\ X = agg'[c] /\ C = ctl' /\ st = state'[c]
  BY <1>1, <1>6
<1> QED
  BY <1>10, <1>11, <1>12, <1>13, <1>14, AccountIs

\* What the account of c says while an input of it is on its way.
LEMMA ArrivalWas ==
  ASSUME NEW H, NEW U, Inv(H, U), NEW P, Whole(P), NEW r, NEW a, NEW c, NEW i, NEW n, NEW S, NEW b,
         NEW T, Arrives(r, a, c, i, n, S, b, T), NEW K, K = Claims(c, P)
  PROVE  /\ state[c] \in {"PENDING"} \cup Final /\ (agg[c].settled <=> state[c] \in Final)
         /\ state[c] = "PENDING" =>
              /\ agg[c].remaining = Cardinality(K)
              /\ \A j \in DOMAIN agg[c].items : j \in K \/ Stored(c, j)
         /\ state[c] = "FULFILLED" => \A j \in DOMAIN agg[c].items : Stored(c, j)
         /\ state[c] = "REJECTED" => Failed(c)
         /\ IsFiniteSet(K) /\ agg[c] \in Context /\ Len(agg[c].items) \in Nat
         /\ DOMAIN agg[c].items = 1 .. Len(agg[c].items)
         /\ DOMAIN agg[c].values = DOMAIN agg[c].items
<1>1. TypeOK /\ AggregatesProper /\ c \in DOMAIN agg
  BY ArrivalTop
<1>2. Account(c, P)
  BY <1>1 DEF Whole, Accounts
<1>3. PICK R, B, W : Tally(c, P, K, R, B, W)
  BY DEF Tally
<1>4. B = {}
  BY <1>3, ArrivalPosts DEF Tally
<1>5. /\ IsFiniteSet(K) /\ agg[c] \in Context /\ Len(agg[c].items) \in Nat
      /\ DOMAIN agg[c].items = 1 .. Len(agg[c].items)
      /\ DOMAIN agg[c].values = DOMAIN agg[c].items
  BY <1>1, TallyFacts
<1>6. /\ state[c] \in {"PENDING"} \cup Final /\ (agg[c].settled <=> state[c] \in Final)
      /\ state[c] = "PENDING" =>
           /\ agg[c].remaining = Cardinality(K)
           /\ \A j \in DOMAIN agg[c].items : j \in K \/ Stored(c, j) \/ \E l \in B : j >= ctl[l].at
      /\ state[c] = "FULFILLED" => \A j \in DOMAIN agg[c].items : Stored(c, j)
      /\ state[c] = "REJECTED" => Failed(c)
  BY <1>2, <1>3, AccountWas
<1> QED
  BY <1>4, <1>5, <1>6

\* The result has settled already.
LEMMA ArrivesLate ==
  ASSUME NEW H, NEW U, Inv(H, U), TypeOK', NEW P, Whole(P), NEW r, NEW a, NEW c, NEW i, NEW n, NEW S,
         NEW b, NEW T, Arrives(r, a, c, i, n, S, b, T), SameScript,
         agg[c].settled, Skip(T), agg' = agg
  PROVE  \E P2 : Whole(P2)'
<1>1. PICK P2, K, X, st, C : /\ P2 = Struck(P, KeyOf(r)) /\ K = Claims(c, P) /\ X = agg'[c]
                             /\ st = state'[c] /\ C = ctl'
  OBVIOUS
<1>2. /\ state' = state /\ value' = value /\ reactions' = reactions /\ open' = open /\ C = T
  BY <1>1 DEF Skip, Keep, promiseVars
<1>3. TypeOK /\ c \in DOMAIN agg /\ c \in Promise
  BY ArrivalTop
<1>4. Turns(None) /\ Goes(C, T, c) /\ None \notin Promise /\ None # c
  BY <1>2, <1>3, NatFacts DEF Turns, Goes
<1>5. /\ state[c] \in {"PENDING"} \cup Final /\ (agg[c].settled <=> state[c] \in Final)
      /\ state[c] = "FULFILLED" => \A j \in DOMAIN agg[c].items : Stored(c, j)
      /\ state[c] = "REJECTED" => Failed(c)
  BY <1>1, ArrivalWas
<1>6. /\ \A j \in DOMAIN agg[c].items : Stored(c, j) => Stored(c, j)'
      /\ Failed(c) => Failed(c)'
  BY <1>3, <1>4, StoredStays, FailedStays
<1>7. /\ X.items = agg[c].items /\ X.live = agg[c].live /\ X.freed = agg[c].freed
      /\ st \in {"PENDING"} \cup Final /\ (X.settled <=> st \in Final) /\ st # "PENDING"
      /\ st = "FULFILLED" => \A j \in DOMAIN X.items : Stored(c, j)'
      /\ st = "REJECTED" => Failed(c)'
  BY <1>1, <1>2, <1>5, <1>6 DEF Final
<1>8. Account(c, P2)'
  <2>1. /\ P2 = Struck(P, KeyOf(r)) /\ K = Claims(c, P) /\ X = agg'[c] /\ st = state'[c] /\ C = ctl'
        /\ Goes(C, T, c)
    BY <1>1, <1>4
  <2>2. st = "PENDING" =>
          /\ X.remaining = Cardinality(K \ {i}) /\ K \ {i} # {}
          /\ \A j \in DOMAIN X.items : j \in K \ {i} \/ Stored(c, j)'
    BY <1>7
  <2> QED
    BY <1>7, <2>1, <2>2, ArrivalAccount
<1>9. Whole(P2)'
  BY <1>1, <1>2, <1>4, <1>8, ArrivalRest
<1> QED
  BY <1>9

\* The input of an all rejects the result.
LEMMA ArrivesFailing ==
  ASSUME NEW H, NEW U, Inv(H, U), TypeOK', NEW P, Whole(P), NEW r, NEW a, NEW c, NEW i, NEW n, NEW S,
         NEW b, NEW T, Arrives(r, a, c, i, n, S, b, T), SameScript,
         ~agg[c].settled, agg[c].all, NEW x, x = Top.p, state[x] = "REJECTED", Fail(c, value[x], T)
  PROVE  \E P2 : Whole(P2)'
<1>1. PICK P2, K, X, st, C : /\ P2 = Struck(P, KeyOf(r)) /\ K = Claims(c, P) /\ X = agg'[c]
                             /\ st = state'[c] /\ C = ctl'
  OBVIOUS
<1>2. /\ TypeOK /\ c \in DOMAIN agg /\ c \in Promise /\ c \in Born /\ script.inline \in BOOLEAN
      /\ i \in DOMAIN agg[c].items /\ agg[c].items[i] = x /\ x \in Promise
  BY ArrivalTop
<1>3. /\ state[c] \in {"PENDING"} \cup Final /\ (agg[c].settled <=> state[c] \in Final)
      /\ agg[c] \in Context
  BY <1>1, ArrivalWas
<1>4. state[c] = "PENDING" /\ x # c
  BY <1>3
<1>5. Conclude(c, "REJECTED", value[x], None, T) /\ agg' = [agg EXCEPT ![c].settled = TRUE]
  BY <1>4 DEF Fail
<1>6. /\ Turns(c) /\ state'[c] = "REJECTED" /\ value'[c] = value[x]
      /\ reactions' = reactions /\ open' = open
      /\ \/ ctl' = T
         \/ \E e \in Activation : /\ ctl' = Append(T, e) /\ e.todo = <<>> /\ e.k \notin WorkKinds
                                  /\ Lone(e)' /\ e.k = "enter" /\ e.p = c /\ script.inline
  BY <1>2, <1>4, <1>5, SettlesResult DEF Final
<1>7. Goes(C, T, c)
  BY <1>1, <1>6 DEF Goes
<1>8. /\ DOMAIN agg' = DOMAIN agg /\ (\A d \in DOMAIN agg : d # c => agg'[d] = agg[d])
      /\ X.items = agg[c].items /\ X.live = agg[c].live /\ X.freed = agg[c].freed
      /\ X.all = agg[c].all /\ X.settled = TRUE
  BY <1>1, <1>2, <1>3, <1>5 DEF Context
<1>9. Failed(c)'
  <2>1. state'[x] = "REJECTED" /\ value'[x] = value[x]
    BY <1>2, <1>4, <1>6 DEF Turns
  <2> QED
    BY <1>1, <1>2, <1>6, <1>8, <2>1 DEF Failed
<1>10. /\ st \in {"PENDING"} \cup Final /\ (X.settled <=> st \in Final) /\ st = "REJECTED"
       /\ st # "PENDING" /\ st # "FULFILLED"
  BY <1>1, <1>6, <1>8 DEF Final
<1>11. Account(c, P2)'
  BY <1>1, <1>7, <1>8, <1>9, <1>10, ArrivalAccount
<1>12. Whole(P2)'
  <2>1. agg'[c].items = agg[c].items
    BY <1>1, <1>8
  <2> QED
    BY <1>1, <1>6, <1>7, <1>8, <1>11, <2>1, ArrivalRest
<1> QED
  BY <1>12

\* The input is stored, and one fewer remains.
LEMMA ArrivesCounting ==
  ASSUME NEW H, NEW U, Inv(H, U), TypeOK', NEW P, Whole(P), NEW r, NEW a, NEW c, NEW i, NEW n, NEW S,
         NEW b, NEW T, Arrives(r, a, c, i, n, S, b, T), SameScript,
         ~agg[c].settled, NEW x, x = Top.p, state[x] = "FULFILLED" \/ ~agg[c].all,
         NEW o, o = [st |-> state[x], v |-> value[x]], Count(c, Store(c, i, o), T)
  PROVE  \E P2 : Whole(P2)'
<1>1. PICK P2, K, X, st, C : /\ P2 = Struck(P, KeyOf(r)) /\ K = Claims(c, P) /\ X = agg'[c]
                             /\ st = state'[c] /\ C = ctl'
  OBVIOUS
<1>2. /\ TypeOK /\ c \in DOMAIN agg /\ c \in Promise /\ c \in Born /\ script.inline \in BOOLEAN
      /\ i \in DOMAIN agg[c].items /\ agg[c].items[i] = x /\ x \in Promise /\ state[x] \in Final
  BY ArrivalTop
<1>3. /\ state[c] \in {"PENDING"} \cup Final /\ (agg[c].settled <=> state[c] \in Final)
      /\ state[c] = "PENDING" =>
           /\ agg[c].remaining = Cardinality(K)
           /\ \A j \in DOMAIN agg[c].items : j \in K \/ Stored(c, j)
      /\ IsFiniteSet(K) /\ agg[c] \in Context /\ DOMAIN agg[c].values = DOMAIN agg[c].items
  BY <1>1, ArrivalWas
<1>4. state[c] = "PENDING" /\ x # c
  BY <1>2, <1>3 DEF Final
<1>5. i \in K
  BY <1>1, StruckFacts
<1>6. /\ Cardinality(K \ {i}) = Cardinality(K) - 1 /\ Cardinality(K) >= 1 /\ Cardinality(K) \in Nat
      /\ (Cardinality(K \ {i}) = 0 <=> K \ {i} = {}) /\ Cardinality(K \ {i}) \in Nat
  <2>1. IsFiniteSet(K \ {i})
    BY <1>3, FS_RemoveElement
  <2> QED
    BY <1>3, <1>5, <2>1, SizeFacts
<1>7. PICK A, B, m : /\ A = Store(c, i, o) /\ m = Cardinality(K \ {i})
                     /\ B = [A EXCEPT ![c].remaining = IF @ > 0 THEN @ - 1 ELSE 0]
  OBVIOUS
<1>8. /\ DOMAIN B = DOMAIN agg /\ (\A d \in DOMAIN agg : d # c => B[d] = agg[d])
      /\ B[c].items = agg[c].items /\ B[c].live = agg[c].live /\ B[c].freed = agg[c].freed
      /\ B[c].all = agg[c].all /\ B[c].settled = agg[c].settled
      /\ B[c].values = [agg[c].values EXCEPT ![i] = o]
      /\ B[c].remaining = m /\ B[c] = [[agg[c] EXCEPT !.values[i] = o] EXCEPT !.remaining = m]
  <2>1. /\ DOMAIN A = DOMAIN agg /\ (\A d \in DOMAIN agg : d # c => A[d] = agg[d])
        /\ A[c] = [agg[c] EXCEPT !.values[i] = o]
    BY <1>2, <1>7 DEF Store
  <2>2. /\ A[c].items = agg[c].items /\ A[c].live = agg[c].live /\ A[c].freed = agg[c].freed
        /\ A[c].all = agg[c].all /\ A[c].settled = agg[c].settled
        /\ A[c].values = [agg[c].values EXCEPT ![i] = o] /\ A[c].remaining = agg[c].remaining
    BY <1>3, <2>1 DEF Context
  <2>3. (IF A[c].remaining > 0 THEN A[c].remaining - 1 ELSE 0) = m
    BY <1>3, <1>4, <1>6, <1>7, <2>2
  <2>4. /\ DOMAIN B = DOMAIN A /\ (\A d \in DOMAIN A : d # c => B[d] = A[d])
        /\ B[c] = [A[c] EXCEPT !.remaining = m]
    BY <1>2, <1>7, <2>1, <2>3
  <2>5. /\ B[c].items = A[c].items /\ B[c].live = A[c].live /\ B[c].freed = A[c].freed
        /\ B[c].all = A[c].all /\ B[c].settled = A[c].settled /\ B[c].values = A[c].values
        /\ B[c].remaining = m
    BY <1>3, <2>1, <2>4 DEF Context
  <2> QED
    BY <2>1, <2>2, <2>4, <2>5
<1>9. /\ B[c].values[i] = o /\ \A j \in DOMAIN agg[c].items : j # i => B[c].values[j] = agg[c].values[j]
  BY <1>2, <1>3, <1>8
<1>10. \/ B[c].remaining = 0 /\ Finish(c, B, T)
       \/ B[c].remaining # 0 /\ agg' = B /\ Skip(T)
  BY <1>7 DEF Count
<1>11. ASSUME NEW q, Turns(q), q = c \/ q = None, X.items = B[c].items, X.values = B[c].values,
              X.all = B[c].all, NEW j \in DOMAIN agg[c].items, j \notin K \ {i}
       PROVE  Stored(c, j)'
  <2>1. CASE j = i
    <3>1. state'[x] = state[x] /\ value'[x] = value[x]
      BY <1>2, <1>4, <1>11, NatFacts DEF Turns
    <3>2. /\ agg'[c].items[i] = x /\ agg'[c].values[i] = o /\ agg'[c].all = agg[c].all
      BY <1>1, <1>2, <1>8, <1>9, <1>11
    <3>3. /\ o = [st |-> state'[x], v |-> value'[x]] /\ o.st = state[x]
      BY <3>1
    <3> QED
      BY <1>2, <2>1, <3>1, <3>2, <3>3 DEF Stored, Final
  <2>2. CASE j # i
    <3>1. Stored(c, j)
      BY <1>3, <1>4, <1>11, <2>2
    <3>2. /\ agg'[c].items[j] = agg[c].items[j] /\ agg'[c].values[j] = agg[c].values[j]
          /\ agg'[c].all = agg[c].all
      BY <1>1, <1>8, <1>9, <1>11, <2>2
    <3> QED
      BY <1>2, <1>11, <3>1, <3>2, StoredStays
  <2> QED
    BY <2>1, <2>2
<1>12. CASE B[c].remaining # 0 /\ agg' = B /\ Skip(T)
  <2>1. /\ state' = state /\ value' = value /\ reactions' = reactions /\ open' = open /\ C = T
    BY <1>1, <1>12 DEF Skip, Keep, promiseVars
  <2>2. Turns(None) /\ Goes(C, T, c) /\ None \notin Promise /\ None # c
    BY <1>2, <2>1, NatFacts DEF Turns, Goes
  <2>3. X = B[c] /\ st = "PENDING" /\ K \ {i} # {}
    BY <1>1, <1>4, <1>6, <1>7, <1>8, <1>12, <2>1
  <2>4. \A j \in DOMAIN X.items : j \in K \ {i} \/ Stored(c, j)'
    BY <1>8, <1>11, <2>2, <2>3
  <2>5. /\ X.items = agg[c].items /\ X.live = agg[c].live /\ X.freed = agg[c].freed
        /\ st \in {"PENDING"} \cup Final /\ (X.settled <=> st \in Final)
        /\ X.remaining = Cardinality(K \ {i}) /\ st # "FULFILLED" /\ st # "REJECTED"
    BY <1>3, <1>4, <1>7, <1>8, <2>3
  <2>6. Account(c, P2)'
    BY <1>1, <2>2, <2>3, <2>4, <2>5, ArrivalAccount
  <2>7. /\ agg'[c].items = agg[c].items
        /\ DOMAIN agg' = DOMAIN agg /\ (\A d \in DOMAIN agg : d # c => agg'[d] = agg[d])
    BY <1>8, <1>12
  <2>8. Whole(P2)'
    BY <1>1, <2>1, <2>2, <2>6, <2>7, ArrivalRest
  <2> QED
    BY <2>8
<1>13. CASE B[c].remaining = 0 /\ Finish(c, B, T)
  <2>1. Conclude(c, "FULFILLED", Array, None, T) /\ agg' = [B EXCEPT ![c].settled = TRUE]
    BY <1>4, <1>13 DEF Finish
  <2>2. /\ Turns(c) /\ state'[c] = "FULFILLED" /\ reactions' = reactions /\ open' = open
        /\ \/ ctl' = T
           \/ \E e \in Activation : /\ ctl' = Append(T, e) /\ e.todo = <<>> /\ e.k \notin WorkKinds
                                    /\ Lone(e)' /\ e.k = "enter" /\ e.p = c /\ script.inline
    BY <1>2, <1>4, <2>1, SettlesResult DEF Final
  <2>3. Goes(C, T, c)
    BY <1>1, <2>2 DEF Goes
  <2>4. /\ DOMAIN agg' = DOMAIN agg /\ (\A d \in DOMAIN agg : d # c => agg'[d] = agg[d])
        /\ X = [B[c] EXCEPT !.settled = TRUE]
    BY <1>1, <1>2, <1>8, <2>1
  <2>6. /\ X.items = B[c].items /\ X.live = B[c].live /\ X.freed = B[c].freed
        /\ X.all = B[c].all /\ X.values = B[c].values /\ X.settled = TRUE
    BY <1>3, <1>8, <2>4 DEF Context
  <2>7. K \ {i} = {} /\ st = "FULFILLED"
    BY <1>1, <1>6, <1>7, <1>8, <1>13, <2>2
  <2>8. \A j \in DOMAIN X.items : Stored(c, j)'
    BY <1>8, <1>11, <2>2, <2>6, <2>7
  <2>9. /\ X.items = agg[c].items /\ X.live = agg[c].live /\ X.freed = agg[c].freed
        /\ st \in {"PENDING"} \cup Final /\ (X.settled <=> st \in Final)
        /\ st # "PENDING" /\ st # "REJECTED"
    BY <1>8, <2>6, <2>7 DEF Final
  <2>10. Account(c, P2)'
    BY <1>1, <2>3, <2>8, <2>9, ArrivalAccount
  <2>11. agg'[c].items = agg[c].items
    BY <1>1, <2>9
  <2>12. Whole(P2)'
    BY <1>1, <2>2, <2>3, <2>4, <2>10, <2>11, ArrivalRest
  <2> QED
    BY <2>12
<1> QED
  BY <1>10, <1>12, <1>13

\* The reaction of a drain that counts an input of an aggregation runs.
LEMMA ArrivedWhole ==
  ASSUME NEW H, NEW U, Inv(H, U), TypeOK', NEW P, Whole(P), DrainNext,
         NEW r, NEW s, NEW a, DrainsOn(r, s, a), IsKept(r)
  PROVE  \E P2 : Whole(P2)'
<1>1. /\ ctl # <<>> /\ Top.k = "drain" /\ Top.todo # <<>> /\ SameScript
  BY DEF DrainNext, Ends, SameScript
<1>2. PICK c, i, n, S, b, T : /\ c = r.onF.to /\ i = r.onF.at /\ n = Len(ctl) /\ S = Replaced(a)
                              /\ b = Active("release", c) /\ T = Append(S, b)
  OBVIOUS
<1>3. Arrives(r, a, c, i, n, S, b, T)
  <2>1. s = Tail(Top.todo) /\ DrainsOn(r, Tail(Top.todo), a)
    BY DEF DrainsOn
  <2> QED
    BY <1>1, <1>2, <2>1 DEF Arrives
<1>4. /\ TypeOK /\ Top.p \in Promise /\ state[Top.p] \in Final /\ c \in DOMAIN agg
      /\ Top.ok = (state[Top.p] = "FULFILLED")
  BY <1>3, ArrivalTop
<1>5. Proper(r) /\ r \in Reaction
  <2>1. AggsAlone /\ Ledger(P)
    BY DEF Whole, Accounts
  <2> QED
    BY <1>1, <2>1, DrainTop
<1>6. r.onF.do = "kept" /\ r.onR.do = "failed" /\ r.onR.to = c /\ r.onR.at = i
  BY <1>2, <1>5 DEF Proper, IsKept
<1>7. PICK x, v, h, o : /\ x = Top.p /\ v = value[x] /\ h = (IF Top.ok THEN r.onF ELSE r.onR)
                        /\ o = [st |-> state[x], v |-> v]
  OBVIOUS
<1>8. /\ r = Head(Top.todo) /\ S = Replaced([Top EXCEPT !.todo = Tail(@)])
      /\ h = (IF Top.ok THEN Head(Top.todo).onF ELSE Head(Top.todo).onR) /\ v = value[Top.p]
  BY <1>2, <1>7 DEF DrainsOn
<1>9. /\ h.to = c /\ h.at = i /\ h.do \in {"kept", "failed"}
      /\ h.do = "kept" => state[x] = "FULFILLED"
      /\ h.do = "failed" => state[x] = "REJECTED"
  BY <1>2, <1>4, <1>6, <1>7 DEF Final
<1>10. Arrived(h, state[x], v)
  <2>1. \/ h.do = "kept" /\ Arrived(h, "FULFILLED", v)
        \/ h.do = "failed" /\ Arrived(h, "REJECTED", v)
    BY <1>8, <1>9 DEF DrainNext
  <2> QED
    BY <1>9, <2>1
<1>11. T = S \o <<b>>
  <2>1. S \in Seq(Activation) /\ b \in Activation
    <3>1. T \in Seq(Activation) /\ T[n] = a /\ Len(T) = n + 1 /\ n \in Nat \ {0} /\ b \in Activation
      BY <1>3, ArrivalStack
    <3>2. a \in Activation
      BY <3>1
    <3> QED
      BY <1>1, <1>2, <1>4, <3>1, <3>2, ReplacedType DEF TypeOK
  <2> QED
    BY <1>2, <2>1, AppendIsConcat
<1>12. \/ agg[c].settled /\ Skip(T) /\ agg' = agg
       \/ /\ ~agg[c].settled /\ (state[x] = "FULFILLED" \/ ~agg[c].all)
          /\ Count(c, Store(c, i, o), T)
       \/ ~agg[c].settled /\ state[x] = "REJECTED" /\ agg[c].all /\ Fail(c, v, T)
  <2>1. T = Replaced([Top EXCEPT !.todo = Tail(@)]) \o <<Active("release", h.to)>>
    BY <1>2, <1>8, <1>9, <1>11
  <2>2. Store(c, i, o) = Store(h.to, h.at, [st |-> state[x], v |-> v])
    BY <1>7, <1>9
  <2>3. \/ agg[h.to].settled /\ Skip(T) /\ agg' = agg
        \/ /\ ~agg[h.to].settled /\ (state[x] = "FULFILLED" \/ ~agg[h.to].all)
           /\ Count(h.to, Store(h.to, h.at, [st |-> state[x], v |-> v]), T)
        \/ ~agg[h.to].settled /\ state[x] = "REJECTED" /\ agg[h.to].all /\ Fail(h.to, v, T)
    BY <1>10, <2>1 DEF Arrived
  <2> QED
    BY <1>9, <2>2, <2>3
<1>13. CASE agg[c].settled /\ Skip(T) /\ agg' = agg
  BY <1>1, <1>3, <1>13, ArrivesLate
<1>14. CASE /\ ~agg[c].settled /\ (state[x] = "FULFILLED" \/ ~agg[c].all)
            /\ Count(c, Store(c, i, o), T)
  <2>1. o = [st |-> state[x], v |-> value[x]]
    BY <1>7
  <2> QED
    BY <1>1, <1>3, <1>7, <1>14, <2>1, ArrivesCounting
<1>15. CASE ~agg[c].settled /\ state[x] = "REJECTED" /\ agg[c].all /\ Fail(c, v, T)
  <2>1. Fail(c, value[x], T)
    BY <1>7, <1>15
  <2> QED
    BY <1>1, <1>3, <1>7, <1>15, <2>1, ArrivesFailing
<1> QED
  BY <1>12, <1>13, <1>14, <1>15

----------------------------------------------------------------------------
(* Every step.                                                             *)

\* Every step keeps the account.
LEMMA NextWhole ==
  ASSUME NEW H, NEW U, Inv(H, U), TypeOK', ~ThenablesInline, NEW P, Whole(P), [Next]_vars
  PROVE  AInv'
<1> SUFFICES ASSUME ~(ThenablesInline') PROVE \E P2 : Whole(P2)'
  BY DEF AInv
<1>1. CASE UNCHANGED vars
  BY <1>1, SameWhole
<1>2. CASE ScriptStep
  <2>1. \/ Resolve \/ Reject \/ Then \/ All
        \/ WithResolvers \/ Construct \/ MakeSettled \/ MakeAdopting \/ Race \/ AnyOf
    BY <1>2 DEF ScriptStep
  <2>2. CASE Resolve \/ Reject
    BY <2>2, CallWhole
  <2>3. CASE Then
    BY <2>3, ThenWhole
  <2>4. CASE All
    BY <2>4, AllWhole
  <2>5. CASE WithResolvers \/ Construct \/ MakeSettled \/ MakeAdopting \/ Race \/ AnyOf
    BY <2>5, MakesWhole
  <2> QED
    BY <2>1, <2>2, <2>3, <2>4, <2>5
<1>3. CASE EndStep
  BY <1>3, EndsWhole
<1>4. CASE NativeStep
  <2>1. \/ Release \/ BuildKnown \/ BuildThenable \/ BuildWait \/ BuildEnd \/ Built
        \/ RaceNext \/ RaceEnd \/ DrainEnter \/ DrainNext \/ DrainExit
    BY <1>4 DEF NativeStep
  <2>2. CASE Release \/ Built
    BY <2>2, ReleaseWhole
  <2>3. CASE BuildKnown
    BY <2>3, BuildKnownWhole
  <2>4. CASE BuildThenable
    BY <2>4, BuildThenableWhole
  <2>5. CASE BuildWait
    BY <2>5, BuildWaitWhole
  <2>6. CASE BuildEnd
    BY <2>6, BuildEndWhole
  <2>7. CASE RaceNext \/ RaceEnd
    BY <2>7, RaceWhole
  <2>8. CASE DrainEnter
    BY <2>8, EnterWhole DEF AInv
  <2>9. CASE DrainNext
    <3>1. PICK r, s, a : DrainsOn(r, s, a)
      BY DEF DrainsOn
    <3>2. CASE IsKept(r)
      BY <2>9, <3>1, <3>2, ArrivedWhole
    <3>3. CASE ~IsKept(r)
      BY <2>9, <3>1, <3>3, DrainWhole
    <3> QED
      BY <3>2, <3>3
  <2>10. CASE DrainExit
    BY <2>10, ExitWhole
  <2> QED
    BY <2>1, <2>2, <2>3, <2>4, <2>5, <2>6, <2>7, <2>8, <2>9, <2>10
<1>5. CASE Microtask \/ Task
  BY <1>5, HostWhole
<1>6. CASE Over
  BY <1>6, SameWhole DEF Over
<1> QED
  BY <1>1, <1>2, <1>3, <1>4, <1>5, <1>6 DEF Next

\* At the start there is nothing to account for.
LEMMA InitWhole ==
  ASSUME Init
  PROVE  AInv
<1>1. PICK b, P : b = Active("main", None) /\ P = [k \in {} |-> 0]
  OBVIOUS
<1>2. ctl = <<b>> /\ b.k = "main" /\ b.todo = <<>>
  BY <1>1, FreshActivation DEF Init
<1>3. /\ Len(ctl) = 1 /\ Len(b.todo) = 0 /\ \A j \in 1 .. Len(ctl) : ctl[j] = b
  BY <1>2
<1>4. /\ DOMAIN agg = {} /\ open = {} /\ DOMAIN P = {}
      /\ \A p \in Promise : state[p] = "UNBORN" /\ reactions[p] = <<>>
  BY <1>1 DEF Init
<1>5. AggsAlone
  <2>1. \A q \in Promise : Len(reactions[q]) = 0
    BY <1>4
  <2>2. Lone(b)
    BY <1>2, <1>3 DEF Lone
  <2> QED
    BY <1>3, <1>4, <2>1, <2>2 DEF AggsAlone
<1>6. BuildsAlone
  BY <1>2, <1>3 DEF BuildsAlone, Works
<1>7. Ledger(P)
  <2>1. \A h : Filed(<<>>, h, P)
    BY <1>4, NoKeys DEF Filed
  <2>2. \A q \in Promise : Filed(reactions[q], OnList(q), P)
    BY <1>4, <2>1
  <2>3. \A j \in 1 .. Len(ctl) : Filed(ctl[j].todo, OnStack(j), P)
    BY <1>2, <1>3, <2>1
  <2> QED
    BY <1>4, <2>2, <2>3 DEF Ledger
<1>8. AllBacked
  BY <1>4 DEF AllBacked
<1>9. Accounts(P)
  BY <1>4, <1>7 DEF Accounts
<1> QED
  BY <1>5, <1>6, <1>8, <1>9 DEF AInv, Whole

\* The invariant of Promises makes it inductive.
LEMMA NextAInv ==
  ASSUME IInv, AInv, [Next]_vars, IInv'
  PROVE  AInv'
<1> SUFFICES ASSUME ~(ThenablesInline') PROVE AInv'
  BY DEF AInv
<1>1. PICK H, U : Inv(H, U)
  BY DEF IInv
<1>2. TypeOK' /\ ScriptSound
  BY <1>1, InvFacts DEF IInv, Inv, Base
<1>3. script'.may = script.may /\ script'.inline = script.inline
  <2>1. CASE Next
    BY <1>2, <2>1, SameHost
  <2>2. CASE UNCHANGED vars
    BY <2>2 DEF vars
  <2> QED
    BY <2>1, <2>2
<1>4. ~ThenablesInline
  BY <1>3 DEF ThenablesInline
<1>5. PICK P : Whole(P)
  BY <1>4 DEF AInv
<1> QED
  BY <1>1, <1>2, <1>4, <1>5, NextWhole

----------------------------------------------------------------------------
(* What the accounts say of the properties that are checked.               *)

\* A result that settled has its outcome from the inputs.
LEMMA WholeComplete ==
  ASSUME NEW P, Whole(P), NEW c \in DOMAIN agg
  PROVE  LET x == agg[c].items
             kept(i) == agg[c].values[i] =
               IF x[i] \in Promise THEN [st |-> state[x[i]], v |-> value[x[i]]]
                                   ELSE [st |-> "FULFILLED", v |-> x[i]]
             failed(i) == x[i] \in Promise /\ state[x[i]] = "REJECTED"
         IN  /\ state[c] = "FULFILLED" =>
                   \A i \in DOMAIN x : kept(i) /\ agg[c].values[i].st # "PENDING"
                                       /\ (agg[c].all => ~failed(i))
             /\ state[c] = "REJECTED" =>
                   agg[c].all /\ \E i \in DOMAIN x : failed(i) /\ value[x[i]] = value[c]
<1>1. Account(c, P)
  BY DEF Whole, Accounts
<1>2. PICK x : x = agg[c].items
  OBVIOUS
<1>3. ASSUME state[c] = "FULFILLED", NEW i \in DOMAIN x
      PROVE  /\ agg[c].values[i] = IF x[i] \in Promise THEN [st |-> state[x[i]], v |-> value[x[i]]]
                                   ELSE [st |-> "FULFILLED", v |-> x[i]]
             /\ agg[c].values[i].st # "PENDING"
             /\ agg[c].all => ~(x[i] \in Promise /\ state[x[i]] = "REJECTED")
  <2>1. Stored(c, i)
    BY <1>1, <1>2, <1>3 DEF Account
  <2>2. PICK y, o : y = x[i] /\ o = agg[c].values[i]
    OBVIOUS
  <2>3. /\ o = IF y \in Promise THEN [st |-> state[y], v |-> value[y]]
                                ELSE [st |-> "FULFILLED", v |-> y]
        /\ o.st \in Final /\ (agg[c].all => o.st = "FULFILLED")
    BY <1>2, <2>1, <2>2 DEF Stored
  <2>4. y \in Promise => o.st = state[y]
    BY <2>3
  <2> QED
    BY <2>2, <2>3, <2>4 DEF Final
<1>4. ASSUME state[c] = "REJECTED"
      PROVE  agg[c].all /\ \E i \in DOMAIN x : /\ x[i] \in Promise /\ state[x[i]] = "REJECTED"
                                               /\ value[x[i]] = value[c]
  BY <1>1, <1>2, <1>4 DEF Account, Failed
<1> QED
  BY <1>2, <1>3, <1>4

\* A reaction that counts an input of the aggregation of c is outstanding exactly
\* when an input is under way.
LEMMA KeptOutstanding ==
  ASSUME NEW H, NEW U, Inv(H, U), NEW P, Whole(P), NEW c \in DOMAIN agg
  PROVE  Claims(c, P) # {} <=> \E r \in Outstanding : r.onF.do = "kept" /\ r.onF.to = c
<1>1. /\ TypeOK /\ Ledger(P) /\ AggsAlone
  BY InvFacts DEF Whole, Accounts
<1>2. /\ ctl \in Seq(Activation) /\ DOMAIN ctl = 1 .. Len(ctl)
      /\ \A j \in 1 .. Len(ctl) : ctl[j].todo \in Seq(Reaction)
      /\ \A q \in Promise : reactions[q] \in Seq(Reaction)
  <2>1. ctl \in Seq(Activation) /\ \A q \in Promise : reactions[q] \in Seq(Reaction)
    BY <1>1 DEF TypeOK
  <2>2. DOMAIN ctl = 1 .. Len(ctl) /\ \A j \in 1 .. Len(ctl) : ctl[j] \in Activation
    BY <2>1, LenProperties, ElementOfSeq
  <2> QED
    BY <2>1, <2>2 DEF Activation
<1>3. ASSUME NEW s \in Seq(Reaction), NEW r
      PROVE  r \in Range(s) <=> \E i \in 1 .. Len(s) : s[i] = r
  BY LenProperties DEF Range
<1>4. ASSUME NEW s \in Seq(Reaction), NEW k
      PROVE  k \in Keys(s) <=> \E r \in Range(s) : IsKept(r) /\ k = KeyOf(r)
  BY <1>3 DEF Keys
<1>5. \A r : r \in Outstanding <=> \/ \E q \in Promise : r \in Range(reactions[q])
                                   \/ \E j \in 1 .. Len(ctl) : r \in Range(ctl[j].todo)
  BY <1>2 DEF Outstanding
<1>6. ASSUME Claims(c, P) # {}
      PROVE  \E r \in Outstanding : r.onF.do = "kept" /\ r.onF.to = c
  <2>1. PICK i \in DOMAIN agg[c].items : <<c, i>> \in DOMAIN P
    BY <1>6 DEF Claims
  <2>2. PICK k : k = <<c, i>>
    OBVIOUS
  <2>3. \/ \E q \in Promise : P[k] = OnList(q)
        \/ \E j \in 1 .. Len(ctl) : P[k] = OnStack(j)
    BY <1>1, <2>1, <2>2 DEF Ledger
  <2>4. \/ \E q \in Promise : k \in Keys(reactions[q])
        \/ \E j \in 1 .. Len(ctl) : k \in Keys(ctl[j].todo)
    BY <1>1, <2>1, <2>2, <2>3 DEF Ledger, Filed
  <2>5. \E r \in Outstanding : IsKept(r) /\ k = KeyOf(r)
    BY <1>2, <1>4, <1>5, <2>4
  <2> QED
    BY <2>2, <2>5 DEF IsKept, KeyOf
<1>7. ASSUME NEW r \in Outstanding, r.onF.do = "kept", r.onF.to = c
      PROVE  Claims(c, P) # {}
  <2>1. IsKept(r) /\ KeyOf(r) = <<c, r.onF.at>>
    BY <1>7 DEF IsKept, KeyOf
  <2>2. \/ \E q \in Promise : KeyOf(r) \in Keys(reactions[q])
        \/ \E j \in 1 .. Len(ctl) : KeyOf(r) \in Keys(ctl[j].todo)
    BY <1>2, <1>4, <1>5, <2>1
  <2>3. KeyOf(r) \in DOMAIN P
    BY <1>1, <2>2 DEF Ledger, Filed
  <2>4. \E d \in DOMAIN agg : \E i \in DOMAIN agg[d].items : KeyOf(r) = <<d, i>>
    BY <1>1, <2>3 DEF Ledger
  <2>5. r.onF.at \in DOMAIN agg[c].items
    BY <2>1, <2>4
  <2> QED
    BY <2>1, <2>3, <2>5 DEF Claims
<1> QED
  BY <1>6, <1>7

\* A context is freed once nothing will use it.
LEMMA WholeAlive ==
  ASSUME NEW H, NEW U, Inv(H, U), NEW P, Whole(P), NEW c \in DOMAIN agg
  PROVE  LET used == \/ \E i \in DOMAIN ctl : /\ ctl[i].k \in {"build", "built", "release"}
                                              /\ ctl[i].p = c
                     \/ \E r \in Outstanding : r.onF.do = "kept" /\ r.onF.to = c
         IN  agg[c].freed <=> ~used
<1>1. TypeOK /\ Account(c, P)
  BY InvFacts DEF Whole, Accounts
<1>2. DOMAIN ctl = 1 .. Len(ctl)
  BY <1>1, LenProperties DEF TypeOK
<1>3. PICK K, R, B, D : /\ K = Claims(c, P) /\ R = Posts(c, "release") /\ B = Posts(c, "build")
                        /\ D = Posts(c, "built")
  OBVIOUS
<1>4. agg[c].freed <=> (K = {} /\ R = {} /\ B = {} /\ D = {})
  BY <1>1, <1>3 DEF Account
<1>5. /\ R # {} <=> \E i \in 1 .. Len(ctl) : ctl[i].k = "release" /\ ctl[i].p = c
      /\ B # {} <=> \E i \in 1 .. Len(ctl) : ctl[i].k = "build" /\ ctl[i].p = c
      /\ D # {} <=> \E i \in 1 .. Len(ctl) : ctl[i].k = "built" /\ ctl[i].p = c
  BY <1>3 DEF Posts, PostsIn
<1>6. R # {} \/ B # {} \/ D # {} <=>
        \E i \in DOMAIN ctl : ctl[i].k \in {"build", "built", "release"} /\ ctl[i].p = c
  BY <1>2, <1>5
<1>7. K # {} <=> \E r \in Outstanding : r.onF.do = "kept" /\ r.onF.to = c
  BY <1>3, KeptOutstanding
<1> QED
  BY <1>4, <1>6, <1>7

LEMMA WholeAggregates ==
  ASSUME NEW H, NEW U, Inv(H, U), NEW P, Whole(P)
  PROVE  AggregatesSound
<1>1. AggregateComplete
  BY WholeComplete DEF AggregateComplete
<1>2. AggregateAlive
  BY WholeAlive DEF AggregateAlive
<1> QED
  BY <1>1, <1>2 DEF AggregatesSound

\* What waits on an input at rest waits on a pending one.
LEMMA WholeOrphans ==
  ASSUME IInv, ~ThenablesInline, NEW P, Whole(P)
  PROVE  NoOrphans
<1> SUFFICES ASSUME Quiet, "any" \notin script.may, NEW p \in Promise, state[p] = "PENDING",
                    p \notin open
             PROVE  \E q \in Promise :
                      /\ state[q] = "PENDING"
                      /\ p \in {r.np : r \in Range(reactions[q])} \cup PointedAt(Range(reactions[q]))
  BY DEF NoOrphans
<1>1. PICK H, U : Inv(H, U)
  BY DEF IInv
<1>2. /\ TypeOK /\ Ledger(P) /\ Numbered /\ Backed(p) /\ Len(ctl) = 0
  BY <1>1, InvFacts DEF Whole, Accounts, AllBacked, Quiet
<1>3. ASSUME NEW q \in Promise, NEW i \in 1 .. Len(reactions[q])
      PROVE  state[q] = "PENDING" /\ reactions[q][i] \in Range(reactions[q])
  <2>1. reactions[q] \in Seq(Reaction)
    BY <1>2 DEF TypeOK
  <2>2. reactions[q][i] \in Range(reactions[q])
    BY <2>1, LenProperties DEF Range
  <2>3. reactions[q] # <<>>
    BY <1>3
  <2>4. state[q] # "UNBORN"
    BY <1>2, <2>3 DEF Numbered
  <2>5. ~Settled(q)
    BY <2>3, InvReactionsRunDry DEF ReactionsRunDry
  <2>6. state[q] \in States
    BY <1>2 DEF TypeOK
  <2> QED
    BY <2>2, <2>4, <2>5, <2>6 DEF States, Settled
<1>4. \E q \in Promise : \E i \in 1 .. Len(reactions[q]) : Points(reactions[q][i], p)
  <2>1. CASE p \in DOMAIN agg
    <3>1. Account(p, P)
      BY <2>1 DEF Whole, Accounts
    <3>2. PICK K, B : K = Claims(p, P) /\ B = Posts(p, "build")
      OBVIOUS
    <3>3. K = {} => B # {}
      BY <3>1, <3>2 DEF Account
    <3>4. B = {}
      BY <1>2, <3>2 DEF Posts, PostsIn
    <3>5. PICK i \in DOMAIN agg[p].items : <<p, i>> \in DOMAIN P
      BY <3>2, <3>3, <3>4 DEF Claims
    <3>6. PICK k : k = <<p, i>>
      OBVIOUS
    <3>7. \E q \in Promise : P[k] = OnList(q)
      BY <1>2, <3>5, <3>6 DEF Ledger
    <3>8. PICK q \in Promise : k \in Keys(reactions[q])
      BY <1>2, <3>5, <3>6, <3>7 DEF Ledger, Filed
    <3>9. \E l \in 1 .. Len(reactions[q]) : k = KeyOf(reactions[q][l])
      BY <3>8 DEF Keys
    <3> QED
      BY <3>6, <3>9 DEF KeyOf, Points
  <2> QED
    BY <1>2, <2>1 DEF Backed
<1>5. PICK q, r : /\ q \in Promise /\ r \in Range(reactions[q]) /\ Points(r, p) /\ state[q] = "PENDING"
  BY <1>3, <1>4
<1> QED
  BY <1>5 DEF Points, PointedAt

LEMMA InvAccounted ==
  ASSUME IInv, AInv, ~ThenablesInline
  PROVE  AggregatesSound /\ NothingLost
<1>1. PICK H, U : Inv(H, U)
  BY DEF IInv
<1>2. PICK P : Whole(P)
  BY DEF AInv
<1>3. AggregatesSound
  BY <1>1, <1>2, WholeAggregates
<1>4. NothingLost
  BY <1>2, WholeOrphans, InvReactionsRunDry DEF NothingLost
<1> QED
  BY <1>3, <1>4

\* But for scripts that give `all` a thenable on a host that runs drains inline,
\* the accounts of the aggregations always balance.
THEOREM PromisesAccounted == Spec => []AInv
<1>1. Init => AInv
  BY InitWhole
<1>2. AInv /\ IInv /\ IInv' /\ [Next]_vars => AInv'
  BY NextAInv
<1> QED
  BY <1>1, <1>2, PromisesInvariant, PTL DEF Spec

\* So all and allSettled fulfil with the outcome of every input in its place, a
\* rejection is that of an input, and a context is freed exactly when nothing
\* will use it again.
THEOREM PromisesAggregatesSound == Spec => [](~ThenablesInline => AggregatesSound)
<1>1. IInv /\ AInv => (~ThenablesInline => AggregatesSound)
  BY InvAccounted
<1> QED
  BY <1>1, PromisesAccounted, PromisesInvariant, PTL

\* And nothing is lost: at rest no reaction waits on a settled promise, and a
\* pending promise is one that script can settle or waits on a pending one.
THEOREM PromisesNothingLost == Spec => [](~ThenablesInline => NothingLost)
<1>1. IInv /\ AInv => (~ThenablesInline => NothingLost)
  BY InvAccounted
<1> QED
  BY <1>1, PromisesAccounted, PromisesInvariant, PTL

=============================================================================
