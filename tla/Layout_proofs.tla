--------------------------- MODULE Layout_proofs ---------------------------
(***************************************************************************)
(* For every program that is laid out as the compiler does and keeps clear *)
(* of README section 3.1, the interpreter is where its stacks say: the     *)
(* scopes and operands of every activation are those the code calls for,   *)
(* whatever transfers brought control there.                               *)
(***************************************************************************)
EXTENDS Layout, VMRun_proofs

----------------------------------------------------------------------------
(* The openers around an instruction. *)

\* A nonempty set of numbers has a least one.
LEMMA LeastExists ==
  ASSUME NEW X \in SUBSET Nat, X # {}
  PROVE  \E m \in X : \A k \in X : m <= k
<1>1. PICK m \in X : \A k \in X : ~ (k < m)
  <2>1. \E x \in X : \A y \in X : <<y, x>> \notin OpToRel(<, Nat)
    BY NatLessThanWellFounded, WFMin
  <2> QED
    BY <2>1 DEF OpToRel
<1> QED
  BY <1>1

\* The paths of the instructions up to n, each from the one before.
IsPathTable(g, p, n) ==
  g = [i \in 1 .. n |-> IF i = 1 THEN <<>> ELSE Around(g[i - 1], p, i - 1)]

LEMMA PathTableExists ==
  ASSUME NEW p, NEW n \in Nat
  PROVE  \E g : IsPathTable(g, p, n)
<1> DEFINE Bad == {m \in Nat : ~ \E g : IsPathTable(g, p, m)}
<1> SUFFICES ASSUME Bad # {} PROVE FALSE
  OBVIOUS
<1>1. PICK m \in Bad : \A k \in Bad : m <= k
  <2> Bad \in SUBSET Nat
    OBVIOUS
  <2> HIDE DEF Bad
  <2> QED
    BY LeastExists
<1>2. m # 0
  <2> DEFINE g == [i \in 1 .. 0 |-> <<>>]
  <2>1. IsPathTable(g, p, 0)
    BY DEF IsPathTable
  <2> QED
    BY <1>1, <2>1
<1>3. m - 1 \in Nat /\ m - 1 \notin Bad
  BY <1>1, <1>2
<1>4. PICK g : IsPathTable(g, p, m - 1)
  BY <1>3
<1> DEFINE last == IF m = 1 THEN <<>> ELSE Around(g[m - 1], p, m - 1)
           h == [i \in 1 .. m |-> IF i < m THEN g[i] ELSE last]
<1>5. \A i \in 1 .. m : h[i] = IF i = 1 THEN <<>> ELSE Around(h[i - 1], p, i - 1)
  <2> TAKE i \in 1 .. m
  <2>1. CASE i < m
    <3>1. i \in 1 .. m - 1 /\ h[i] = g[i]
      BY <1>3, <2>1
    <3>2. g[i] = IF i = 1 THEN <<>> ELSE Around(g[i - 1], p, i - 1)
      BY <1>4, <3>1 DEF IsPathTable
    <3>3. i # 1 => h[i - 1] = g[i - 1]
      BY <1>3, <3>1
    <3> QED
      BY <3>1, <3>2, <3>3
  <2>2. CASE i = m
    <3>1. h[i] = last
      BY <2>2
    <3>2. m # 1 => h[m - 1] = g[m - 1]
      BY <1>3
    <3> QED
      BY <2>2, <3>1, <3>2
  <2> QED
    BY <1>3, <2>1, <2>2
<1>6. IsPathTable(h, p, m)
  <2> DEFINE f == [i \in 1 .. m |-> IF i = 1 THEN <<>> ELSE Around(h[i - 1], p, i - 1)]
  <2>1. \A i \in 1 .. m : h[i] = f[i]
    BY <1>5
  <2>2. h = f
    BY <2>1
  <2> QED
    BY <2>2 DEF IsPathTable
<1> QED
  BY <1>1, <1>6

\* Two tables agree where both are defined.
LEMMA PathTablesAgree ==
  ASSUME NEW p, NEW n \in Nat, NEW m \in 0 .. n, NEW g, NEW h,
         IsPathTable(g, p, n), IsPathTable(h, p, m)
  PROVE  \A i \in 1 .. m : g[i] = h[i]
<1> DEFINE Bad == {i \in 1 .. m : g[i] # h[i]}
<1> SUFFICES ASSUME Bad # {} PROVE FALSE
  OBVIOUS
<1>1. PICK i \in Bad : \A k \in Bad : i <= k
  <2> Bad \in SUBSET Nat
    OBVIOUS
  <2> HIDE DEF Bad
  <2> QED
    BY LeastExists
<1>2. i \in 1 .. m /\ i \in 1 .. n
  BY <1>1
<1>3. /\ g[i] = IF i = 1 THEN <<>> ELSE Around(g[i - 1], p, i - 1)
      /\ h[i] = IF i = 1 THEN <<>> ELSE Around(h[i - 1], p, i - 1)
  BY <1>2 DEF IsPathTable
<1>4. i # 1 => g[i - 1] = h[i - 1]
  BY <1>1, <1>2
<1> QED
  BY <1>1, <1>3, <1>4

LEMMA SameTable ==
  ASSUME NEW p, NEW n \in Nat, NEW g, NEW h, IsPathTable(g, p, n), IsPathTable(h, p, n)
  PROVE  g = h
<1>1. \A i \in 1 .. n : g[i] = h[i]
  BY PathTablesAgree
<1>2. g = [i \in 1 .. n |-> g[i]] /\ h = [i \in 1 .. n |-> h[i]]
  BY DEF IsPathTable
<1> QED
  BY <1>1, <1>2

LEMMA CodeFacts ==
  ASSUME NEW p \in Progs
  PROVE  /\ Code[p] \in Seq(Instr) /\ Len(Code[p]) \in Nat
         /\ DOMAIN Code[p] = 1 .. Len(Code[p])
<1>1. Code[p] \in Seq(Instr)
  BY ProgAssumption
<1> QED
  BY <1>1, LenProperties

\* A table grows by the path of the next instruction.
LEMMA TableGrows ==
  ASSUME NEW p, NEW n \in Nat, n >= 1, NEW g, IsPathTable(g, p, n)
  PROVE  IsPathTable(Append(g, Around(g[n], p, n)), p, n + 1)
<1> DEFINE next == Around(g[n], p, n)
           S == {g[i] : i \in 1 .. n} \cup {next}
           h == Append(g, next)
           f == [i \in 1 .. n + 1 |-> IF i = 1 THEN <<>> ELSE Around(h[i - 1], p, i - 1)]
<1>1. g = [i \in 1 .. n |-> g[i]]
  BY DEF IsPathTable
<1>2. g \in Seq(S) /\ Len(g) = n
  <2>1. g \in [1 .. n -> S]
    BY <1>1
  <2> HIDE DEF S
  <2> QED
    BY <2>1
<1>3. next \in S
  OBVIOUS
<1> HIDE DEF S
<1>4. /\ h \in Seq(S) /\ Len(h) = n + 1 /\ h[n + 1] = next
      /\ \A i \in 1 .. n : h[i] = g[i]
  <2> HIDE DEF next
  <2> QED
    BY <1>2, <1>3, AppendProperties
<1>5. \A i \in 1 .. n + 1 : h[i] = IF i = 1 THEN <<>> ELSE Around(h[i - 1], p, i - 1)
  <2> TAKE i \in 1 .. n + 1
  <2>1. CASE i = n + 1
    <3>1. h[n] = g[n]
      BY <1>4
    <3> QED
      BY <1>4, <2>1, <3>1
  <2>2. CASE i \in 1 .. n
    <3>1. g[i] = IF i = 1 THEN <<>> ELSE Around(g[i - 1], p, i - 1)
      BY <2>2 DEF IsPathTable
    <3>2. i # 1 => h[i - 1] = g[i - 1]
      BY <1>4, <2>2
    <3>3. h[i] = g[i]
      BY <1>4, <2>2
    <3> HIDE DEF h
    <3> QED
      BY <3>1, <3>2, <3>3
  <2>3. i = n + 1 \/ i \in 1 .. n
    OBVIOUS
  <2> HIDE DEF h
  <2> QED
    BY <2>1, <2>2, <2>3
<1>6. h = f
  <2>1. h = [i \in 1 .. n + 1 |-> h[i]]
    <3> HIDE DEF h
    <3> QED
      BY <1>4
  <2> HIDE DEF h
  <2> QED
    BY <1>5, <2>1
<1> QED
  BY <1>6 DEF IsPathTable

\* The tables that ScopePaths goes through.
Tabulates(f, p) ==
  f = [n \in DOMAIN Code[p] |->
         IF n = 1 THEN << <<>> >>
         ELSE LET before == f[n - 1]
              IN  Append(before, Around(before[n - 1], p, n - 1))]

LEMMA FirstTable ==
  ASSUME NEW p
  PROVE  IsPathTable(<< <<>> >>, p, 1)
<1> DEFINE g == << <<>> >>
<1>1. g = [i \in 1 .. 1 |-> IF i = 1 THEN <<>> ELSE Around(g[i - 1], p, i - 1)]
  OBVIOUS
<1> QED
  BY <1>1 DEF IsPathTable

LEMMA TablesExist ==
  ASSUME NEW p \in Progs
  PROVE  \E f : Tabulates(f, p)
<1> DEFINE table(n) == CHOOSE g : IsPathTable(g, p, n)
           f == [n \in DOMAIN Code[p] |-> table(n)]
<1>1. \A n \in Nat : IsPathTable(table(n), p, n)
  BY PathTableExists
<1> HIDE DEF table
<1>2. DOMAIN Code[p] = 1 .. Len(Code[p]) /\ Len(Code[p]) \in Nat
  BY CodeFacts
<1>3. \A n \in DOMAIN Code[p] :
        f[n] = IF n = 1 THEN << <<>> >>
               ELSE LET before == f[n - 1]
                    IN  Append(before, Around(before[n - 1], p, n - 1))
  <2> TAKE n \in DOMAIN Code[p]
  <2>1. n \in Nat /\ n >= 1 /\ f[n] = table(n) /\ IsPathTable(table(n), p, n)
    BY <1>1, <1>2
  <2>2. CASE n = 1
    <3>1. table(1) = << <<>> >>
      BY <2>1, <2>2, FirstTable, SameTable
    <3> QED
      BY <2>1, <2>2, <3>1
  <2>3. CASE n # 1
    <3>1. n - 1 \in Nat /\ n - 1 >= 1 /\ n - 1 \in DOMAIN Code[p] /\ (n - 1) + 1 = n
      BY <1>2, <2>1, <2>3
    <3>2. f[n - 1] = table(n - 1) /\ IsPathTable(table(n - 1), p, n - 1)
      BY <1>1, <3>1
    <3> DEFINE g == table(n - 1)
               h == Append(g, Around(g[n - 1], p, n - 1))
    <3>3. IsPathTable(h, p, n)
      <4>1. IsPathTable(h, p, (n - 1) + 1)
        BY <3>1, <3>2, TableGrows
      <4> QED
        BY <3>1, <4>1
    <3>4. table(n) = h
      <4> HIDE DEF h
      <4> QED
        BY <2>1, <3>3, SameTable
    <3> QED
      BY <2>1, <2>3, <3>2, <3>4
  <2> QED
    BY <2>2, <2>3
<1>4. Tabulates(f, p)
  <2> DEFINE h == [n \in DOMAIN Code[p] |->
                     IF n = 1 THEN << <<>> >>
                     ELSE LET before == f[n - 1]
                          IN  Append(before, Around(before[n - 1], p, n - 1))]
  <2>1. \A n \in DOMAIN Code[p] : f[n] = h[n]
    BY <1>3
  <2>2. f = h
    <3>1. f = [n \in DOMAIN Code[p] |-> f[n]] /\ h = [n \in DOMAIN Code[p] |-> h[n]]
      OBVIOUS
    <3> HIDE DEF f, h
    <3> QED
      BY <2>1, <3>1
  <2> QED
    BY Zenon, <2>2 DEF Tabulates
<1> QED
  BY <1>4

\* Each of them is the table of the paths so far.
LEMMA TablesGood ==
  ASSUME NEW p \in Progs, NEW f, Tabulates(f, p)
  PROVE  \A n \in DOMAIN Code[p] : IsPathTable(f[n], p, n)
<1> DEFINE Bad == {n \in DOMAIN Code[p] : ~ IsPathTable(f[n], p, n)}
<1> SUFFICES ASSUME Bad # {} PROVE FALSE
  OBVIOUS
<1>1. DOMAIN Code[p] = 1 .. Len(Code[p]) /\ Len(Code[p]) \in Nat
  BY CodeFacts
<1>2. PICK n \in Bad : \A k \in Bad : n <= k
  <2> Bad \in SUBSET Nat
    BY <1>1
  <2> HIDE DEF Bad
  <2> QED
    BY LeastExists
<1>3. n \in Nat /\ n >= 1 /\ n \in DOMAIN Code[p]
  BY <1>1, <1>2
<1>4. f[n] = IF n = 1 THEN << <<>> >>
             ELSE Append(f[n - 1], Around(f[n - 1][n - 1], p, n - 1))
  BY <1>3 DEF Tabulates
<1>5. n # 1
  <2>1. f[1] = << <<>> >> => IsPathTable(f[1], p, 1)
    BY FirstTable
  <2> QED
    BY <1>2, <1>4, <2>1
<1>6. n - 1 \in Nat /\ n - 1 >= 1 /\ n - 1 \in DOMAIN Code[p] /\ (n - 1) + 1 = n
  BY <1>1, <1>3, <1>5
<1>7. IsPathTable(f[n - 1], p, n - 1)
  BY <1>2, <1>6
<1>8. IsPathTable(Append(f[n - 1], Around(f[n - 1][n - 1], p, n - 1)), p, (n - 1) + 1)
  BY <1>6, <1>7, TableGrows
<1>9. IsPathTable(f[n], p, n)
  BY <1>4, <1>5, <1>6, <1>8
<1> QED
  BY <1>2, <1>9

\* ScopePath goes from one instruction to the next by Around.
LEMMA ScopePathStep ==
  ASSUME NEW p \in Progs, NEW i \in DOMAIN Code[p]
  PROVE  /\ i = 1 => ScopePath(p, i) = <<>>
         /\ i + 1 \in DOMAIN Code[p] =>
              ScopePath(p, i + 1) = Around(ScopePath(p, i), p, i)
<1> DEFINE n == Len(Code[p])
           tables == CHOOSE f : Tabulates(f, p)
           g == tables[n]
<1>1. DOMAIN Code[p] = 1 .. n /\ n \in Nat
  BY CodeFacts
<1>2. Tabulates(tables, p)
  BY TablesExist
<1>3. IsPathTable(g, p, n)
  <2>1. n \in DOMAIN Code[p]
    BY <1>1
  <2> HIDE DEF tables
  <2> QED
    BY <1>2, <2>1, TablesGood
<1>4. ScopePaths[p] = g
  BY Zenon DEF ScopePaths, Tabulates
<1> HIDE DEF g
<1>5. \A k \in 1 .. n : g[k] = IF k = 1 THEN <<>> ELSE Around(g[k - 1], p, k - 1)
  BY <1>3 DEF IsPathTable
<1>6. i = 1 => g[i] = <<>>
  BY <1>1, <1>5
<1>7. ASSUME i + 1 \in DOMAIN Code[p] PROVE g[i + 1] = Around(g[i], p, i)
  <2>1. i + 1 \in 1 .. n /\ i + 1 # 1 /\ (i + 1) - 1 = i
    BY <1>1, <1>7
  <2> QED
    BY <1>5, <2>1
<1> QED
  BY <1>4, <1>6, <1>7 DEF ScopePath

LEMMA PoppedFacts ==
  ASSUME NEW S, NEW s \in Seq(S)
  PROVE  /\ Popped(s) \in Seq(S)
         /\ Len(Popped(s)) = IF s = <<>> THEN 0 ELSE Len(s) - 1
         /\ \A k \in 1 .. Len(Popped(s)) : Popped(s)[k] = s[k]
<1>1. Len(s) \in Nat /\ (s = <<>> <=> Len(s) = 0)
  BY LenProperties, EmptySeq
<1>2. Popped(s) = SubSeq(s, 1, Len(s) - 1)
  BY <1>1 DEF Popped, Down
<1>3. Len(s) - 1 \in Int
  BY <1>1
<1>4. CASE s = <<>>
  <2>1. Popped(s) = <<>>
    BY <1>1, <1>2, <1>4, SubSeqEmpty
  <2> QED
    BY <1>4, <2>1, EmptySeq
<1>5. CASE s # <<>>
  <2>1. Len(s) - 1 \in Nat /\ Len(s) - 1 <= Len(s)
    BY <1>1, <1>5
  <2>2. PICK n \in Nat : n = Len(s) - 1
    BY <2>1
  <2>3. n \in Int /\ n <= Len(s) /\ n >= 0
    BY <1>1, <2>1, <2>2
  <2>4. /\ SubSeq(s, 1, n) \in Seq(S)
        /\ Len(SubSeq(s, 1, n)) = n
        /\ \A k \in 1 .. n : SubSeq(s, 1, n)[k] = s[k]
    BY <2>3, PrefixType
  <2> QED
    BY <1>2, <1>5, <2>2, <2>4
<1> QED
  BY <1>4, <1>5

\* The path at i lists openers before i, and the path at each of them is the
\* part of it that comes before.
IsPath(p, i) ==
  /\ Path(p, i) \in Seq(Nat)
  /\ \A k \in 1 .. Len(Path(p, i)) :
       /\ Path(p, i)[k] \in 1 .. i - 1
       /\ OpAt(p, Path(p, i)[k]) \in Openers
       /\ Len(Path(p, Path(p, i)[k])) = k - 1
       /\ \A l \in 1 .. k - 1 : Path(p, Path(p, i)[k])[l] = Path(p, i)[l]

LEMMA PathStep ==
  ASSUME NEW p \in Progs, NEW i \in DOMAIN Code[p]
  PROVE  /\ i = 1 => Path(p, i) = <<>>
         /\ i + 1 \in DOMAIN Code[p] => Path(p, i + 1) = Around(Path(p, i), p, i)
  BY ScopePathStep DEF Path

LEMMA PathNext ==
  ASSUME NEW p \in Progs, NEW i \in DOMAIN Code[p], IsPath(p, i),
         i + 1 \in DOMAIN Code[p]
  PROVE  IsPath(p, i + 1)
<1> DEFINE path == Path(p, i)
           next == Path(p, i + 1)
<1>1. path \in Seq(Nat) /\ next = Around(path, p, i)
  BY PathStep DEF IsPath
<1>2. \A k \in 1 .. Len(path) :
        /\ path[k] \in 1 .. i - 1
        /\ OpAt(p, path[k]) \in Openers
        /\ Len(Path(p, path[k])) = k - 1
        /\ \A l \in 1 .. k - 1 : Path(p, path[k])[l] = path[l]
  BY DEF IsPath
<1>3. i \in Nat /\ i >= 1 /\ Len(path) \in Nat
  BY <1>1, CodeFacts, LenProperties
<1>4. SUFFICES
        /\ next \in Seq(Nat)
        /\ \A k \in 1 .. Len(next) :
             /\ next[k] \in 1 .. i
             /\ OpAt(p, next[k]) \in Openers
             /\ Len(Path(p, next[k])) = k - 1
             /\ \A l \in 1 .. k - 1 : Path(p, next[k])[l] = next[l]
  <2>1. (i + 1) - 1 = i
    BY <1>3
  <2> QED
    BY <2>1 DEF IsPath
<1>5. Path(p, i) = path
  OBVIOUS
<1> HIDE DEF path, next
<1>6. ASSUME NEW k \in 1 .. Len(path), next[k] = path[k],
             \A l \in 1 .. k - 1 : next[l] = path[l]
      PROVE  /\ next[k] \in 1 .. i
             /\ OpAt(p, next[k]) \in Openers
             /\ Len(Path(p, next[k])) = k - 1
             /\ \A l \in 1 .. k - 1 : Path(p, next[k])[l] = next[l]
  <2>1. path[k] \in 1 .. i - 1
    BY <1>2
  <2>2. next[k] \in 1 .. i
    BY <1>3, <1>6, <2>1
  <2> QED
    BY <1>2, <1>6, <2>2
<1>7. CASE OpAt(p, i) \in Openers
  <2>1. next = Append(path, i)
    BY <1>1, <1>7 DEF Around, OpAt
  <2>2. /\ next \in Seq(Nat) /\ Len(next) = Len(path) + 1
        /\ \A k \in 1 .. Len(path) : next[k] = path[k]
        /\ next[Len(path) + 1] = i
    BY <1>1, <1>3, <2>1, AppendProperties
  <2>3. /\ Len(next) = Len(path) + 1
        /\ \A k \in 1 .. Len(path) : next[k] = path[k]
        /\ next[Len(path) + 1] = i
    BY <2>2
  <2>4. ASSUME NEW k \in 1 .. Len(next)
        PROVE  /\ next[k] \in 1 .. i
               /\ OpAt(p, next[k]) \in Openers
               /\ Len(Path(p, next[k])) = k - 1
               /\ \A l \in 1 .. k - 1 : Path(p, next[k])[l] = next[l]
    <3>1. CASE k \in 1 .. Len(path)
      <4>1. next[k] = path[k] /\ \A l \in 1 .. k - 1 : next[l] = path[l]
        BY <1>3, <2>3, <3>1
      <4> QED
        BY <1>6, <3>1, <4>1
    <3>2. CASE k = Len(path) + 1
      BY <1>3, <1>5, <1>7, <2>3, <3>2
    <3> QED
      BY <1>3, <2>3, <3>1, <3>2
  <2> QED
    BY <2>2, <2>4
<1>8. CASE OpAt(p, i) \notin Openers
  <2>1. next = path \/ next = Popped(path)
    BY <1>1, <1>8 DEF Around, OpAt
  <2>2. /\ next \in Seq(Nat) /\ Len(next) <= Len(path)
        /\ \A k \in 1 .. Len(next) : next[k] = path[k]
    <3>1. CASE next = path
      BY <1>1, <1>3, <3>1
    <3>2. CASE next = Popped(path)
      <4>1. /\ Popped(path) \in Seq(Nat)
            /\ Len(Popped(path)) = IF path = <<>> THEN 0 ELSE Len(path) - 1
            /\ \A k \in 1 .. Len(Popped(path)) : Popped(path)[k] = path[k]
        BY <1>1, PoppedFacts
      <4> QED
        BY <1>3, <3>2, <4>1
    <3> QED
      BY <2>1, <3>1, <3>2
  <2>3. Len(next) \in Nat
    BY <2>2, LenProperties
  <2>4. Len(next) <= Len(path) /\ \A k \in 1 .. Len(next) : next[k] = path[k]
    BY <2>2
  <2>5. ASSUME NEW k \in 1 .. Len(next)
        PROVE  /\ next[k] \in 1 .. i
               /\ OpAt(p, next[k]) \in Openers
               /\ Len(Path(p, next[k])) = k - 1
               /\ \A l \in 1 .. k - 1 : Path(p, next[k])[l] = next[l]
    <3>1. k \in 1 .. Len(path)
      BY <1>3, <2>3, <2>4
    <3>2. next[k] = path[k] /\ \A l \in 1 .. k - 1 : next[l] = path[l]
      BY <2>3, <2>4
    <3> QED
      BY <1>6, <3>1, <3>2
  <2> QED
    BY <2>2, <2>5
<1> QED
  BY <1>7, <1>8

LEMMA PathFacts ==
  ASSUME NEW p \in Progs, NEW i \in DOMAIN Code[p]
  PROVE  IsPath(p, i)
<1> DEFINE Bad == {j \in DOMAIN Code[p] : ~IsPath(p, j)}
<1> SUFFICES ASSUME Bad # {} PROVE FALSE
  OBVIOUS
<1>1. PICK j \in Bad : \A k \in Bad : j <= k
  <2> Bad \in SUBSET Nat
    BY CodeFacts
  <2> HIDE DEF Bad
  <2> QED
    BY LeastExists
<1>2. j \in DOMAIN Code[p] /\ j \in 1 .. Len(Code[p]) /\ Len(Code[p]) \in Nat
  BY <1>1, CodeFacts
<1>3. CASE j = 1
  <2>1. Path(p, j) = <<>>
    BY <1>2, <1>3, PathStep
  <2>2. IsPath(p, j)
    BY <2>1, EmptySeq DEF IsPath
  <2> QED
    BY <1>1, <2>2
<1>4. CASE j # 1
  <2>1. j - 1 \in DOMAIN Code[p] /\ j - 1 \notin Bad /\ (j - 1) + 1 = j
    BY <1>1, <1>2, <1>4, CodeFacts
  <2>2. IsPath(p, j - 1)
    BY <2>1
  <2>3. IsPath(p, (j - 1) + 1)
    BY <1>2, <2>1, <2>2, PathNext
  <2> QED
    BY <1>1, <2>1, <2>3
<1> QED
  BY <1>3, <1>4

\* What the lemmas below use of a path.
LEMMA PathAt ==
  ASSUME NEW p \in Progs, NEW i \in DOMAIN Code[p]
  PROVE  /\ Path(p, i) \in Seq(Nat) /\ Len(Path(p, i)) \in Nat
         /\ DOMAIN Path(p, i) = 1 .. Len(Path(p, i))
         /\ i \in Nat /\ i >= 1 /\ i <= Len(Code[p])
         /\ \A k \in 1 .. Len(Path(p, i)) :
              /\ Path(p, i)[k] \in DOMAIN Code[p]
              /\ OpAt(p, Path(p, i)[k]) \in Openers
              /\ Len(Path(p, Path(p, i)[k])) = k - 1
              /\ \A l \in 1 .. k - 1 : Path(p, Path(p, i)[k])[l] = Path(p, i)[l]
<1>1. Path(p, i) \in Seq(Nat)
  BY PathFacts DEF IsPath
<1>2. Len(Path(p, i)) \in Nat /\ DOMAIN Path(p, i) = 1 .. Len(Path(p, i))
  BY <1>1, LenProperties
<1>3. /\ DOMAIN Code[p] = 1 .. Len(Code[p]) /\ Len(Code[p]) \in Nat
      /\ i \in 1 .. Len(Code[p])
  BY CodeFacts
<1>4. ASSUME NEW k \in 1 .. Len(Path(p, i))
      PROVE  Path(p, i)[k] \in DOMAIN Code[p]
  <2>1. Path(p, i)[k] \in 1 .. i - 1
    BY PathFacts DEF IsPath
  <2> QED
    BY <1>3, <2>1
<1>5. i \in Nat /\ i >= 1 /\ i <= Len(Code[p])
  BY <1>3
<1>6. \A k \in 1 .. Len(Path(p, i)) :
        /\ OpAt(p, Path(p, i)[k]) \in Openers
        /\ Len(Path(p, Path(p, i)[k])) = k - 1
        /\ \A l \in 1 .. k - 1 : Path(p, Path(p, i)[k])[l] = Path(p, i)[l]
  BY PathFacts DEF IsPath
<1> QED
  BY <1>1, <1>2, <1>4, <1>5, <1>6

\* Control goes from i to j, staying in the scopes around i or leaving some, so
\* that a try that was armed as it should be still is.
Reaches(p, i, j) ==
  /\ j \in DOMAIN Code[p]
  /\ j \in Functions(p) <=> i \in Functions(p)
  /\ Len(Path(p, j)) <= Len(Path(p, i))
  /\ \A k \in 1 .. Len(Path(p, j)) :
       /\ Path(p, j)[k] = Path(p, i)[k]
       /\ ~Closing(p, j, k) =>
            /\ ~Closing(p, i, k)
            /\ Guards(p, Path(p, i)[k], i) <=> Guards(p, Path(p, i)[k], j)

LEMMA LaidFacts ==
  ASSUME NEW p \in Progs, WellLaidOut(p), NEW i \in DOMAIN Code[p]
  PROVE  /\ FlowsOn(p, i)
         /\ OpAt(p, i) \in Openers => Anchored(p, i)
         /\ Nested(p, i)
BY DEF WellLaidOut

\* A step or jump to an instruction with the same scopes, or with fewer when i
\* is not the end of one that stays.
LEMMA JoinedReaches ==
  ASSUME NEW p \in Progs, NEW i \in DOMAIN Code[p], NEW j, Joined(p, i, j),
         Len(Path(p, j)) <= Len(Path(p, i)),
         \A k \in 1 .. Len(Path(p, j)) : Path(p, j)[k] = Path(p, i)[k],
         OpAt(p, i) = "BLOCK_END" => Len(Path(p, j)) < Len(Path(p, i))
  PROVE  Reaches(p, i, j)
<1>1. j \in DOMAIN Code[p] /\ (j \in Functions(p) <=> i \in Functions(p))
  BY DEF Joined
<1>2. /\ DOMAIN Path(p, i) = 1 .. Len(Path(p, i)) /\ Len(Path(p, i)) \in Nat
      /\ DOMAIN Path(p, j) = 1 .. Len(Path(p, j)) /\ Len(Path(p, j)) \in Nat
  BY <1>1, PathAt
<1>3. ASSUME NEW k \in 1 .. Len(Path(p, j)), ~Closing(p, j, k)
      PROVE  /\ ~Closing(p, i, k)
             /\ Guards(p, Path(p, i)[k], i) <=> Guards(p, Path(p, i)[k], j)
  <2>1. k \in DOMAIN Path(p, i) \cap DOMAIN Path(p, j)
    BY <1>2
  <2>2. Guards(p, Path(p, i)[k], i) <=> Guards(p, Path(p, i)[k], j)
    BY <1>3, <2>1 DEF Joined
  <2>3. ~Closing(p, i, k)
    <3> SUFFICES ASSUME OpAt(p, i) = "BLOCK_END", k = Len(Path(p, i)) PROVE FALSE
      BY DEF Closing
    <3> QED
      BY <1>2
  <2> QED
    BY <2>2, <2>3
<1> QED
  BY <1>1, <1>3 DEF Reaches

\* From an instruction to the next one, when it opens no scope.
LEMMA NextReached ==
  ASSUME NEW p \in Progs, WellLaidOut(p), NEW i \in DOMAIN Code[p],
         OpAt(p, i) \notin Leaps \cup Openers
  PROVE  /\ Reaches(p, i, i + 1)
         /\ Len(Path(p, i + 1)) = IF OpAt(p, i) = "BLOCK_END"
                                  THEN Len(Path(p, i)) - 1 ELSE Len(Path(p, i))
<1>1. Joined(p, i, i + 1) /\ (OpAt(p, i) = "BLOCK_END" => Path(p, i) # <<>>)
  BY LaidFacts DEF FlowsOn
<1>2. i + 1 \in DOMAIN Code[p]
  BY <1>1 DEF Joined
<1>3. Path(p, i) \in Seq(Nat) /\ Len(Path(p, i)) \in Nat
  BY PathAt
<1>4. CASE OpAt(p, i) = "BLOCK_END"
  <2>1. Path(p, i + 1) = Popped(Path(p, i))
    BY <1>2, <1>4, PathStep DEF Around, OpAt, Openers
  <2>2. /\ Len(Popped(Path(p, i))) = Len(Path(p, i)) - 1
        /\ \A k \in 1 .. Len(Popped(Path(p, i))) : Popped(Path(p, i))[k] = Path(p, i)[k]
    BY <1>1, <1>3, <1>4, PoppedFacts
  <2>3. /\ Len(Path(p, i + 1)) = Len(Path(p, i)) - 1
        /\ \A k \in 1 .. Len(Path(p, i + 1)) : Path(p, i + 1)[k] = Path(p, i)[k]
    BY <2>1, <2>2
  <2>4. Len(Path(p, i + 1)) < Len(Path(p, i))
    BY <1>3, <2>3
  <2> QED
    BY <1>1, <1>3, <1>4, <2>3, <2>4, JoinedReaches
<1>5. CASE OpAt(p, i) # "BLOCK_END"
  <2>1. Path(p, i + 1) = Path(p, i)
    BY <1>2, <1>5, PathStep DEF Around, OpAt
  <2> QED
    BY <1>1, <1>3, <1>5, <2>1, JoinedReaches
<1> QED
  BY <1>4, <1>5

\* The scopes around i with a new one inside them.
LEMMA OpenerNext ==
  ASSUME NEW p \in Progs, WellLaidOut(p), NEW i \in DOMAIN Code[p],
         OpAt(p, i) \in Openers
  PROVE  /\ Joined(p, i, i + 1)
         /\ Len(Path(p, i + 1)) = Len(Path(p, i)) + 1
         /\ \A k \in 1 .. Len(Path(p, i)) : Path(p, i + 1)[k] = Path(p, i)[k]
         /\ Path(p, i + 1)[Len(Path(p, i)) + 1] = i
<1>1. Joined(p, i, i + 1)
  BY LaidFacts DEF FlowsOn, Openers, Leaps
<1>2. Path(p, i + 1) = Append(Path(p, i), i)
  <2>1. i + 1 \in DOMAIN Code[p]
    BY <1>1 DEF Joined
  <2> QED
    BY <2>1, PathStep DEF Around, OpAt
<1>3. Path(p, i) \in Seq(Nat) /\ i \in Nat
  BY PathAt
<1> QED
  BY <1>1, <1>2, <1>3, AppendProperties

\* The jumps to places with the same scopes.
LEMMA JumpReached ==
  ASSUME NEW p \in Progs, WellLaidOut(p), NEW i \in DOMAIN Code[p],
         OpAt(p, i) \in {"JMP", "NJMP"}
  PROVE  /\ Reaches(p, i, ToAt(p, i))
         /\ Len(Path(p, ToAt(p, i))) = Len(Path(p, i))
<1>1. Joined(p, i, ToAt(p, i)) /\ Path(p, ToAt(p, i)) = Path(p, i)
  BY LaidFacts DEF FlowsOn, Jumps
<1>2. Len(Path(p, i)) \in Nat
  BY PathAt
<1> QED
  BY <1>1, <1>2, JoinedReaches

\* The back edges: what is open inside the innermost loop is left.
LoopsOf(p, i) == {k \in 1 .. Len(Path(p, i)) : OpAt(p, Path(p, i)[k]) = "LOOP"}

LEMMA BackReached ==
  ASSUME NEW p \in Progs, WellLaidOut(p), NEW i \in DOMAIN Code[p],
         OpAt(p, i) \in {"JMPB", "NJMPB"}
  PROVE  /\ Reaches(p, i, ToAt(p, i))
         /\ Len(Path(p, ToAt(p, i))) = Innermost(LoopsOf(p, i))
<1>1. /\ Joined(p, i, ToAt(p, i))
      /\ Path(p, ToAt(p, i)) = ToLoop(p, Path(p, i))
  BY LaidFacts DEF FlowsOn, Jumps
<1>2. /\ Path(p, i) \in Seq(Nat) /\ Len(Path(p, i)) \in Nat
      /\ DOMAIN Path(p, i) = 1 .. Len(Path(p, i))
  BY PathAt
<1>3. LoopsOf(p, i) \in SUBSET (1 .. Len(Path(p, i)))
  BY DEF LoopsOf
<1>4. PICK n \in Nat : n = Innermost(LoopsOf(p, i)) /\ n <= Len(Path(p, i))
  BY <1>2, <1>3, InnermostProperties
<1>5. ToLoop(p, Path(p, i)) = SubSeq(Path(p, i), 1, n)
  BY <1>2, <1>4 DEF ToLoop, LoopsOf
<1>6. n \in Int /\ n >= 0
  BY <1>4
<1>7. /\ Len(SubSeq(Path(p, i), 1, n)) = n
      /\ \A k \in 1 .. n : SubSeq(Path(p, i), 1, n)[k] = Path(p, i)[k]
  BY <1>2, <1>4, <1>6, PrefixType
<1>8. /\ Len(Path(p, ToAt(p, i))) = n
      /\ \A k \in 1 .. n : Path(p, ToAt(p, i))[k] = Path(p, i)[k]
  BY <1>1, <1>5, <1>7
<1> QED
  BY <1>1, <1>4, <1>8, JoinedReaches

\* From inside the scopes of o to a place that o leads to outside of it: o and
\* what it encloses lie on the same side of every handler around it.
LEMMA OutOf ==
  ASSUME NEW p \in Progs, WellLaidOut(p), NEW i \in DOMAIN Code[p],
         NEW b \in 1 .. Len(Path(p, i)), NEW j, Joined(p, Path(p, i)[b], j),
         NEW k \in 1 .. b - 1, k \in DOMAIN Path(p, j), ~Closing(p, j, k)
  PROVE  Guards(p, Path(p, i)[k], i) <=> Guards(p, Path(p, i)[k], j)
<1> DEFINE o == Path(p, i)[b]
           t == Path(p, i)[k]
<1>1. /\ o \in DOMAIN Code[p] /\ Len(Path(p, o)) = b - 1 /\ Path(p, o)[k] = t
      /\ DOMAIN Path(p, i) = 1 .. Len(Path(p, i)) /\ Len(Path(p, i)) \in Nat
  BY PathAt
<1>2. DOMAIN Path(p, o) = 1 .. b - 1
  BY <1>1, PathAt
<1>3. Guards(p, t, i) <=> Guards(p, t, o)
  BY <1>1, LaidFacts DEF Nested
<1>4. Guards(p, Path(p, o)[k], o) <=> Guards(p, Path(p, o)[k], j)
  <2>1. k \in DOMAIN Path(p, o) \cap DOMAIN Path(p, j)
    BY <1>2
  <2> QED
    BY <2>1 DEF Joined
<1> QED
  BY <1>1, <1>3, <1>4

\* From inside a scope that owns a finally to the finally.
LEMMA FinReached ==
  ASSUME NEW p \in Progs, WellLaidOut(p), NEW i \in DOMAIN Code[p],
         NEW b \in 1 .. Len(Path(p, i)), OwnsFinally(Code[p][Path(p, i)[b]])
  PROVE  LET f == ToAt(p, Path(p, i)[b])
         IN  /\ Reaches(p, i, f)
             /\ Len(Path(p, f)) = b - 1
             /\ Height(p, f) = 0
             /\ f \in DOMAIN FinallyBodies[p] /\ f \in FinallyBodies[p][f]
<1> DEFINE o == Path(p, i)[b]
           f == ToAt(p, o)
<1>1. /\ o \in DOMAIN Code[p] /\ OpAt(p, o) \in Openers /\ Len(Path(p, o)) = b - 1
      /\ \A l \in 1 .. b - 1 : Path(p, o)[l] = Path(p, i)[l]
      /\ DOMAIN Path(p, i) = 1 .. Len(Path(p, i)) /\ Len(Path(p, i)) \in Nat
  BY PathAt
<1>2. Joined(p, o, f) /\ Path(p, f) = Path(p, o) /\ Height(p, f) = 0
  BY <1>1, LaidFacts DEF Anchored
<1>3. f \in DOMAIN Code[p] /\ (f \in Functions(p) <=> i \in Functions(p))
  <2>1. f \in DOMAIN Code[p] /\ (f \in Functions(p) <=> o \in Functions(p))
    BY <1>2 DEF Joined
  <2>2. o \in Functions(p) <=> i \in Functions(p)
    BY <1>1, LaidFacts DEF Nested
  <2> QED
    BY <2>1, <2>2
<1>4. /\ Len(Path(p, f)) = b - 1 /\ DOMAIN Path(p, f) = 1 .. b - 1
      /\ \A k \in 1 .. b - 1 : Path(p, f)[k] = Path(p, i)[k]
  <2>1. DOMAIN Path(p, o) = 1 .. Len(Path(p, o))
    BY <1>1, PathAt
  <2> QED
    BY <1>1, <1>2, <2>1
<1>5. ASSUME NEW k \in 1 .. b - 1, ~Closing(p, f, k)
      PROVE  /\ ~Closing(p, i, k)
             /\ Guards(p, Path(p, i)[k], i) <=> Guards(p, Path(p, i)[k], f)
  <2>1. ~Closing(p, i, k)
    <3> SUFFICES ASSUME k = Len(Path(p, i)) PROVE FALSE
      BY DEF Closing
    <3> QED
      BY <1>1
  <2>2. Guards(p, Path(p, i)[k], i) <=> Guards(p, Path(p, i)[k], f)
    <3>1. k \in DOMAIN Path(p, f)
      BY <1>4
    <3> HIDE DEF f
    <3> QED
      BY <1>2, <1>5, <3>1, OutOf
  <2> QED
    BY <2>1, <2>2
<1>6. Reaches(p, i, f)
  <2> HIDE DEF f, o
  <2>1. Len(Path(p, f)) <= Len(Path(p, i))
    BY <1>1, <1>4
  <2> QED
    BY <1>3, <1>4, <1>5, <2>1 DEF Reaches
<1>7. f \in DOMAIN FinallyBodies[p]
  <2>1. f \in {Code[p][n].to : n \in {j \in DOMAIN Code[p] : OwnsFinally(Code[p][j])}}
    BY <1>1 DEF ToAt
  <2> QED
    BY <2>1 DEF FinallyBodies
<1>8. f \in FinallyBodies[p][f]
  BY <1>7 DEF WellLaidOut, Closed
<1> QED
  BY <1>2, <1>4, <1>6, <1>7, <1>8

\* From inside a scope to one of its anchors.
LEMMA AnchorPath ==
  ASSUME NEW p \in Progs, WellLaidOut(p), NEW i \in DOMAIN Code[p],
         NEW b \in 1 .. Len(Path(p, i)), NEW a \in Anchors(p, Path(p, i)[b])
  PROVE  /\ a \in DOMAIN Code[p]
         /\ a \in Functions(p) <=> i \in Functions(p)
         /\ Len(Path(p, a)) = b
         /\ \A k \in 1 .. b : Path(p, a)[k] = Path(p, i)[k]
         /\ \A k \in 1 .. b - 1 : Guards(p, Path(p, i)[k], i) <=> Guards(p, Path(p, i)[k], a)
         /\ Height(p, a) = IF OpAt(p, Path(p, i)[b]) = "TRY" THEN 1 ELSE 0
<1> DEFINE o == Path(p, i)[b]
<1>1. /\ o \in DOMAIN Code[p] /\ OpAt(p, o) \in Openers /\ Len(Path(p, o)) = b - 1
      /\ \A l \in 1 .. b - 1 : Path(p, o)[l] = Path(p, i)[l]
      /\ DOMAIN Path(p, i) = 1 .. Len(Path(p, i)) /\ Len(Path(p, i)) \in Nat
  BY PathAt
<1>2. /\ Joined(p, o, a) /\ Path(p, a) = Append(Path(p, o), o)
      /\ Height(p, a) = IF OpAt(p, o) = "TRY" THEN 1 ELSE 0
  BY <1>1, LaidFacts DEF Anchored
<1>3. a \in DOMAIN Code[p] /\ (a \in Functions(p) <=> i \in Functions(p))
  <2>1. a \in DOMAIN Code[p] /\ (a \in Functions(p) <=> o \in Functions(p))
    BY <1>2 DEF Joined
  <2>2. o \in Functions(p) <=> i \in Functions(p)
    BY <1>1, LaidFacts DEF Nested
  <2> QED
    BY <2>1, <2>2
<1>4. Len(Path(p, a)) = b /\ \A k \in 1 .. b : Path(p, a)[k] = Path(p, i)[k]
  <2>1. Path(p, o) \in Seq(Nat) /\ o \in Nat
    BY <1>1, PathAt
  <2>2. /\ Len(Append(Path(p, o), o)) = Len(Path(p, o)) + 1
        /\ \A k \in 1 .. Len(Path(p, o)) : Append(Path(p, o), o)[k] = Path(p, o)[k]
        /\ Append(Path(p, o), o)[Len(Path(p, o)) + 1] = o
    BY <2>1, AppendProperties
  <2>3. /\ Len(Path(p, a)) = Len(Path(p, o)) + 1
        /\ \A k \in 1 .. Len(Path(p, o)) : Path(p, a)[k] = Path(p, o)[k]
        /\ Path(p, a)[Len(Path(p, o)) + 1] = o
    BY <1>2, <2>2
  <2> QED
    BY <1>1, <2>3
<1>5. ASSUME NEW k \in 1 .. b - 1
      PROVE  Guards(p, Path(p, i)[k], i) <=> Guards(p, Path(p, i)[k], a)
  <2>1. k \in DOMAIN Path(p, a) /\ ~Closing(p, a, k)
    <3>1. DOMAIN Path(p, a) = 1 .. Len(Path(p, a))
      BY <1>3, PathAt
    <3> QED
      BY <1>4, <3>1 DEF Closing
  <2> QED
    BY <1>2, <2>1, OutOf
<1> QED
  BY <1>2, <1>3, <1>4, <1>5

\* A break or continue to a scope that is not a try.
LEMMA AnchorReached ==
  ASSUME NEW p \in Progs, WellLaidOut(p), NEW i \in DOMAIN Code[p],
         NEW b \in 1 .. Len(Path(p, i)), NEW a \in Anchors(p, Path(p, i)[b]),
         OpAt(p, Path(p, i)[b]) # "TRY", OpAt(p, i) # "BLOCK_END"
  PROVE  Reaches(p, i, a) /\ Len(Path(p, a)) = b /\ Height(p, a) = 0
<1>1. Len(Path(p, i)) \in Nat
  BY PathAt
<1>2. \A k \in 1 .. Len(Path(p, i)) : ~Closing(p, i, k)
  BY DEF Closing
<1>3. ~Guards(p, Path(p, i)[b], i) /\ ~Guards(p, Path(p, i)[b], a)
  BY DEF Guards
<1>4. ASSUME NEW k \in 1 .. b
      PROVE  Guards(p, Path(p, i)[k], i) <=> Guards(p, Path(p, i)[k], a)
  <2>1. CASE k \in 1 .. b - 1
    BY <2>1, AnchorPath
  <2>2. CASE k = b
    BY <1>3, <2>2
  <2> QED
    BY <1>1, <2>1, <2>2
<1> QED
  BY <1>1, <1>2, <1>4, AnchorPath DEF Reaches

----------------------------------------------------------------------------
(* The activations. *)

LEMMA LiesReached ==
  ASSUME NEW p \in Progs, NEW i \in DOMAIN Code[p], NEW j, Reaches(p, i, j),
         NEW S, NEW T, NEW fr, Lies(p, S, fr, i),
         \A k \in 1 .. Len(Path(p, j)) : T[fr.scopeBase + k] = S[fr.scopeBase + k]
  PROVE  Lies(p, T, fr, j)
<1>1. j \in DOMAIN Code[p]
  BY DEF Reaches
<1>2. /\ DOMAIN Path(p, i) = 1 .. Len(Path(p, i)) /\ Len(Path(p, i)) \in Nat
      /\ DOMAIN Path(p, j) = 1 .. Len(Path(p, j)) /\ Len(Path(p, j)) \in Nat
  BY <1>1, PathAt
<1> SUFFICES ASSUME NEW k \in 1 .. Len(Path(p, j))
             PROVE  LET o == Path(p, j)[k]
                        s == T[fr.scopeBase + k]
                    IN  /\ s = Placed(p, o, s.armed, fr.stackBase)
                        /\ s.armed => OpAt(p, o) = "TRY"
                        /\ OpAt(p, o) = "TRY" /\ ~Closing(p, j, k) =>
                             (s.armed <=> Guards(p, o, j))
  BY <1>2 DEF Lies
<1>3. k \in DOMAIN Path(p, i)
  BY <1>2 DEF Reaches
<1>4. /\ Path(p, j)[k] = Path(p, i)[k]
      /\ T[fr.scopeBase + k] = S[fr.scopeBase + k]
      /\ ~Closing(p, j, k) =>
           /\ ~Closing(p, i, k)
           /\ Guards(p, Path(p, i)[k], i) <=> Guards(p, Path(p, i)[k], j)
  BY DEF Reaches
<1>5. LET o == Path(p, i)[k]
          s == S[fr.scopeBase + k]
      IN  /\ s = Placed(p, o, s.armed, fr.stackBase)
          /\ s.armed => OpAt(p, o) = "TRY"
          /\ OpAt(p, o) = "TRY" /\ ~Closing(p, i, k) => (s.armed <=> Guards(p, o, i))
  BY <1>3 DEF Lies
<1> QED
  BY <1>4, <1>5

LEMMA PlaceNumbers ==
  ASSUME NEW a \in Nat, NEW b \in Nat, NEW l \in Nat, NEW c \in Nat,
         b = a + l + 1, b <= c
  PROVE  a <= c - 1 /\ \A k \in 1 .. l : a + k \in 1 .. c - 1
OBVIOUS

LEMMA FrameNumbers ==
  ASSUME NEW F \in Seq(RunFrame)
  PROVE  /\ Len(F) \in Nat
         /\ \A m \in 1 .. Len(F) :
              /\ F[m].scopeBase \in Nat /\ F[m].stackBase \in Nat
              /\ F[m].resume \in Nat /\ F[m].saved \in Transfer
              /\ F[m].via \in {"top", "call", "native"}
<1>1. Len(F) \in Nat /\ \A m \in 1 .. Len(F) : F[m] \in RunFrame
  BY LenProperties, ElementOfSeq
<1> QED
  BY <1>1 DEF RunFrame

\* What happens on the scope stack above the running function's scope does not
\* concern the activations that wait.
LEMMA ActivationsKept ==
  ASSUME NEW p \in Progs, NEW F \in Seq(RunFrame), Len(F) >= 1, NEW S, NEW T,
         Activations(p, S, F),
         \A k \in 1 .. F[Len(F)].scopeBase - 1 : T[k] = S[k]
  PROVE  Activations(p, T, F)
<1> DEFINE n == Len(F)
<1>1. n \in Nat /\ \A m \in 1 .. n : F[m].scopeBase \in Nat
  BY FrameNumbers
<1>2. /\ F[1].scopeBase = 0 /\ F[1].stackBase = 0
      /\ \A l, m \in 1 .. n : l <= m => F[l].scopeBase <= F[m].scopeBase
      /\ \A m \in 1 .. n - 1 : Calls(p, S, F, m)
  BY DEF Activations
<1>3. ASSUME NEW m \in 1 .. n - 1
      PROVE  Calls(p, T, F, m)
  <2> DEFINE at == F[m + 1].resume
  <2>1. /\ at \in DOMAIN Code[p] /\ Height(p, at) = 1
        /\ at \in Functions(p) \/ m = 1
        /\ F[m + 1].scopeBase = F[m].scopeBase + Len(Path(p, at)) + 1
        /\ F[m + 1].stackBase = F[m].stackBase + (IF F[m + 1].via = "native" THEN 2 ELSE 1)
        /\ InFunction(S, F, m)
        /\ Lies(p, S, F[m], at)
        /\ Waits(p, F[m + 1].saved, at)
    BY <1>2 DEF Calls
  <2>2. /\ m \in 1 .. n /\ m + 1 \in 1 .. n /\ n \in 1 .. n
        /\ F[m].scopeBase \in Nat /\ F[m + 1].scopeBase \in Nat
        /\ Len(Path(p, at)) \in Nat
        /\ F[m + 1].scopeBase <= F[n].scopeBase /\ F[n].scopeBase \in Nat
    BY <1>1, <1>2, <2>1, PathAt
  <2>7. /\ F[m].scopeBase <= F[n].scopeBase - 1
        /\ \A k \in 1 .. Len(Path(p, at)) : F[m].scopeBase + k \in 1 .. F[n].scopeBase - 1
    BY <2>1, <2>2, PlaceNumbers
  <2>3. InFunction(T, F, m)
    <3>1. CASE m = 1
      BY <3>1 DEF InFunction
    <3>2. CASE m > 1
      <4>1. m - 1 \in 1 .. n - 1 /\ (m - 1) + 1 = m
        BY <1>1, <3>2
      <4>2. Calls(p, S, F, m - 1)
        BY <1>2, <4>1
      <4>3. /\ F[m].resume \in DOMAIN Code[p]
            /\ F[m].scopeBase = F[m - 1].scopeBase + Len(Path(p, F[m].resume)) + 1
        BY <4>1, <4>2 DEF Calls
      <4>4. F[m - 1].scopeBase \in Nat /\ Len(Path(p, F[m].resume)) \in Nat
        BY <1>1, <4>1, <4>3, PathAt
      <4>5. F[m].scopeBase \in 1 .. F[n].scopeBase - 1
        <5>1. F[m].scopeBase >= 1
          BY <4>3, <4>4
        <5>2. F[m].scopeBase <= F[n].scopeBase - 1
          BY <2>2, <2>7
        <5> QED
          BY <2>2, <5>1, <5>2
      <4> QED
        BY <2>1, <4>5 DEF InFunction
    <3> QED
      BY <3>1, <3>2
  <2>4. ASSUME NEW k \in 1 .. Len(Path(p, at))
        PROVE  T[F[m].scopeBase + k] = S[F[m].scopeBase + k]
    <3>1. F[m].scopeBase + k \in 1 .. F[n].scopeBase - 1
      BY <2>7
    <3> QED
      BY <3>1
  <2>5. DOMAIN Path(p, at) = 1 .. Len(Path(p, at))
    BY <2>1, PathAt
  <2>6. Lies(p, T, F[m], at)
    <3> HIDE DEF at
    <3> QED
      BY <2>1, <2>4, <2>5 DEF Lies
  <2> QED
    BY <2>1, <2>3, <2>6 DEF Calls
<1> QED
  BY <1>2, <1>3 DEF Activations

\* A function's scope lies above the bottom of the stack.
LEMMA BaseFacts ==
  ASSUME NEW p \in Progs, NEW F \in Seq(RunFrame), NEW S, Activations(p, S, F)
  PROVE  \A m \in 2 .. Len(F) : F[m].scopeBase >= 1
<1> TAKE m \in 2 .. Len(F)
<1>1. Len(F) \in Nat
  BY FrameNumbers
<1>2. m - 1 \in 1 .. Len(F) - 1 /\ (m - 1) + 1 = m /\ m - 1 \in 1 .. Len(F)
  BY <1>1
<1>3. Calls(p, S, F, m - 1)
  BY <1>2 DEF Activations
<1>4. /\ F[m].resume \in DOMAIN Code[p]
      /\ F[m].scopeBase = F[m - 1].scopeBase + Len(Path(p, F[m].resume)) + 1
  BY <1>2, <1>3 DEF Calls
<1>5. F[m - 1].scopeBase \in Nat /\ Len(Path(p, F[m].resume)) \in Nat
  BY <1>2, <1>4, FrameNumbers, PathAt
<1> QED
  BY <1>4, <1>5

\* The instructions that find no operand.
LEMMA HeightAt ==
  ASSUME NEW p \in Progs, WellLaidOut(p), NEW i \in DOMAIN Code[p],
         OpAt(p, i) \notin TakesOne, OpAt(p, i) # "JMP"
  PROVE  Height(p, i) = 0
<1> SUFFICES ASSUME i > 2, OpAt(p, i - 2) = "TRY" PROVE FALSE
  BY DEF Height
<1>1. i - 2 \in DOMAIN Code[p] /\ (i - 2) + 2 = i
  BY CodeFacts
<1>2. Anchored(p, i - 2)
  BY <1>1, LaidFacts DEF Openers
<1> QED
  BY <1>1, <1>2 DEF Anchored

\* A transfer waits for its finally body as long as control stays in it.
LEMMA NoneWaits ==
  ASSUME NEW p, NEW i
  PROVE  Waits(p, NoTransfer, i)
BY DEF Waits, NoTransfer

LEMMA WaitsKept ==
  ASSUME NEW p \in Progs, WellLaidOut(p), NEW i, NEW t, Waits(p, t, i)
  PROVE  /\ OpAt(p, i) \notin Leaps \cup {"FINALLY_END"} => Waits(p, t, i + 1)
         /\ OpAt(p, i) \in Jumps => Waits(p, t, ToAt(p, i))
<1>1. CASE t.op = "NONE"
  BY <1>1 DEF Waits
<1>2. CASE t.op # "NONE"
  <2>1. t.for \in DOMAIN FinallyBodies[p] /\ i \in FinallyBodies[p][t.for]
    BY <1>2 DEF Waits
  <2>2. Closed(p, t.for)
    BY <2>1 DEF WellLaidOut
  <2>3. /\ OpAt(p, i) \notin Leaps \cup {"FINALLY_END"} =>
             i + 1 \in FinallyBodies[p][t.for]
        /\ OpAt(p, i) \in Jumps => ToAt(p, i) \in FinallyBodies[p][t.for]
    BY <2>1, <2>2 DEF Closed
  <2> QED
    BY <1>2, <2>3 DEF Waits
<1> QED
  BY <1>1, <1>2

\* No handler of the function is armed while a transfer waits.
LEMMA NoneArmed ==
  ASSUME NEW p \in Progs, KeepsClear(p), NEW i \in DOMAIN Code[p],
         NEW t, Waits(p, t, i), t.op # "NONE", NEW S, NEW fr, Lies(p, S, fr, i)
  PROVE  \A k \in 1 .. Len(Path(p, i)) : ~S[fr.scopeBase + k].armed
<1>1. t.for \in DOMAIN FinallyBodies[p] /\ i \in FinallyBodies[p][t.for]
  BY DEF Waits
<1>2. /\ \A k \in DOMAIN Path(p, i) : ~Guards(p, Path(p, i)[k], i)
      /\ OpAt(p, i) = "BLOCK_END" => OpAt(p, Path(p, i)[Len(Path(p, i))]) # "TRY"
  BY <1>1 DEF KeepsClear, FinallyPlain
<1>3. DOMAIN Path(p, i) = 1 .. Len(Path(p, i))
  BY PathAt
<1> SUFFICES ASSUME NEW k \in 1 .. Len(Path(p, i)), S[fr.scopeBase + k].armed
             PROVE  FALSE
  OBVIOUS
<1>4. /\ OpAt(p, Path(p, i)[k]) = "TRY"
      /\ ~Closing(p, i, k) => (S[fr.scopeBase + k].armed <=> Guards(p, Path(p, i)[k], i))
  BY <1>3 DEF Lies
<1> QED
  BY <1>2, <1>3, <1>4 DEF Closing

\* The running activation goes to a place that its own can reach.
LEMMA RunsReached ==
  ASSUME NEW p \in Progs, NEW F \in Seq(RunFrame), Len(F) >= 1, NEW S, NEW T,
         NEW i, NEW t, NEW j, NEW u,
         Activations(p, S, F), Runs(p, S, F, i, t), Reaches(p, i, j), Waits(p, u, j),
         Len(T) = F[Len(F)].scopeBase + Len(Path(p, j)),
         \A k \in 1 .. Len(T) : T[k] = S[k]
  PROVE  Runs(p, T, F, j, u)
<1> DEFINE n == Len(F)
           base == F[n].scopeBase
           width == Len(Path(p, j))
<1>1. /\ i \in DOMAIN Code[p] /\ (i \in Functions(p) \/ n = 1)
      /\ InFunction(S, F, n) /\ Lies(p, S, F[n], i)
  BY DEF Runs
<1>2. j \in DOMAIN Code[p] /\ (j \in Functions(p) <=> i \in Functions(p))
  BY DEF Reaches
<1>3. n \in Nat /\ n \in 1 .. n /\ base \in Nat
  BY FrameNumbers
<1>4. width \in Nat
  BY <1>2, PathAt
<1>5. \A k \in 1 .. width : base + k \in 1 .. Len(T)
  <2> HIDE DEF base, width
  <2> QED
    BY <1>3, <1>4 DEF base, width
<1>6. Lies(p, T, F[n], j)
  <2>1. \A k \in 1 .. width : T[base + k] = S[base + k]
    BY <1>5
  <2> HIDE DEF n
  <2> QED
    BY <1>1, <2>1, LiesReached
<1>7. InFunction(T, F, n)
  <2>1. CASE n > 1
    <3>1. n \in 2 .. Len(F)
      BY <1>3, <2>1
    <3>2. base >= 1
      BY <3>1, BaseFacts
    <3>3. base \in 1 .. Len(T)
      <4> HIDE DEF base, width
      <4> QED
        BY <1>3, <1>4, <3>2 DEF base, width
    <3>4. T[base] = S[base]
      BY <3>3
    <3> QED
      BY <1>1, <3>4 DEF InFunction
  <2>2. CASE ~(n > 1)
    BY <2>2 DEF InFunction
  <2> QED
    BY <2>1, <2>2
<1> QED
  BY <1>1, <1>2, <1>6, <1>7 DEF Runs

----------------------------------------------------------------------------
(* What an instruction finds and what it has to leave. *)

LInv == IInv /\ LaidClear /\ KeepsPlace

\* A run is at an instruction.
Inside == frames # <<>> /\ leave = "no" /\ pc \in DOMAIN Code[prog]

LEMMA InsideFacts ==
  ASSUME LInv, Inside
  PROVE  /\ prog \in Progs /\ WellLaidOut(prog) /\ KeepsClear(prog)
         /\ scopes \in Seq(Scope) /\ stack \in Seq(Slots) /\ frames \in Seq(RunFrame)
         /\ Len(scopes) \in Nat /\ DOMAIN scopes = 1 .. Len(scopes)
         /\ Len(stack) \in Nat
         /\ Len(frames) \in Nat /\ Len(frames) >= 1
         /\ Frame.scopeBase \in Nat /\ Frame.stackBase \in Nat
         /\ Frame = frames[Len(frames)]
         /\ Activations(prog, scopes, frames)
         /\ Runs(prog, scopes, frames, pc, pend)
         /\ IF abort THEN Len(stack) >= Frame.stackBase
                     ELSE Len(stack) = Frame.stackBase + Height(prog, pc)
         /\ Len(scopes) = Frame.scopeBase + Len(Path(prog, pc))
         /\ Lies(prog, scopes, Frame, pc)
         /\ Len(frames) > 1 => /\ Frame.scopeBase >= 1
                               /\ scopes[Frame.scopeBase] = FuncPlaced(Frame)
         /\ Len(frames) = 1 => Frame.scopeBase = 0 /\ Frame.stackBase = 0
         /\ Waits(prog, pend, pc)
         /\ pc \in Nat /\ pend \in Transfer
<1>1. TypeOK /\ WellLaidOut(prog) /\ KeepsClear(prog) /\ prog \in Progs
  BY ProgAssumption DEF LInv, IInv, LaidClear, TypeOK
<1>2. scopes \in Seq(Scope) /\ stack \in Seq(Slots) /\ frames \in Seq(RunFrame)
  BY <1>1 DEF TypeOK
<1>3. /\ Len(scopes) \in Nat /\ DOMAIN scopes = 1 .. Len(scopes)
      /\ Len(stack) \in Nat /\ Len(frames) \in Nat
  BY <1>2, LenProperties
<1>4. Len(frames) >= 1 /\ Len(frames) \in 1 .. Len(frames)
  BY <1>1, <1>3, FrameType DEF Inside
<1>5. Frame.scopeBase \in Nat /\ Frame.stackBase \in Nat
  BY <1>2, <1>4, FrameNumbers DEF Frame
<1>6. InPlace
  <2>1. pc # EndPc
    BY <1>1, CodeFacts DEF EndPc, Inside
  <2> QED
    BY <2>1 DEF LInv, KeepsPlace, Inside
<1>7. /\ Activations(prog, scopes, frames)
      /\ Runs(prog, scopes, frames, pc, pend)
      /\ IF abort THEN Len(stack) >= Frame.stackBase
                  ELSE Len(stack) = Frame.stackBase + Height(prog, pc)
  BY <1>6 DEF InPlace, Inside
<1>8. /\ Len(scopes) = Frame.scopeBase + Len(Path(prog, pc))
      /\ Lies(prog, scopes, Frame, pc) /\ Waits(prog, pend, pc)
      /\ InFunction(scopes, frames, Len(frames))
  BY <1>7 DEF Runs, Frame
<1>9. Len(frames) > 1 => /\ Frame.scopeBase >= 1
                         /\ scopes[Frame.scopeBase] = FuncPlaced(Frame)
  <2>1. Len(frames) > 1 => Len(frames) \in 2 .. Len(frames)
    BY <1>3
  <2> QED
    BY <1>1, <1>2, <1>7, <1>8, <2>1, BaseFacts DEF InFunction, Frame
<1>10. Len(frames) = 1 => Frame.scopeBase = 0 /\ Frame.stackBase = 0
  BY <1>7 DEF Activations, Frame
<1> QED
  BY <1>1, <1>2, <1>3, <1>4, <1>5, <1>7, <1>8, <1>9, <1>10 DEF Frame, TypeOK

LEMMA OneOrMore ==
  ASSUME LInv, Inside
  PROVE  Len(frames) > 1 \/ Len(frames) = 1
<1>1. Len(frames) \in Nat /\ Len(frames) >= 1
  BY InsideFacts
<1>2. PICK n \in Nat : n = Len(frames)
  BY <1>1
<1>3. n >= 1
  BY <1>1, <1>2
<1>4. n > 1 \/ n = 1
  BY <1>3
<1> QED
  BY <1>2, <1>4

\* A step inside a run leaves the callers' part of the scope stack, and is in
\* its place again.
Stays ==
  /\ UNCHANGED <<prog, frames, leave>>
  /\ \A k \in 1 .. Frame.scopeBase : scopes'[k] = scopes[k]
  /\ Runs(prog, scopes', frames, pc', pend')
  /\ IF abort' THEN Len(stack') >= Frame.stackBase
               ELSE Len(stack') = Frame.stackBase + Height(prog, pc')

LEMMA StaysInPlace ==
  ASSUME LInv, Inside, Stays
  PROVE  KeepsPlace'
<1>1. /\ prog' = prog /\ frames' = frames /\ leave' = "no"
      /\ \A k \in 1 .. Frame.scopeBase : scopes'[k] = scopes[k]
      /\ Runs(prog, scopes', frames, pc', pend')
  BY DEF Stays, Inside
<1>2. Activations(prog, scopes', frames)
  <2>1. \A k \in 1 .. frames[Len(frames)].scopeBase - 1 : scopes'[k] = scopes[k]
    BY <1>1, InsideFacts
  <2> QED
    BY <2>1, InsideFacts, ActivationsKept
<1>3. pc' \in DOMAIN Code[prog]
  BY <1>1 DEF Runs
<1>4. pc' # EndPc'
  BY <1>1, <1>3, InsideFacts, CodeFacts DEF EndPc
<1>5. InPlace'
  BY <1>1, <1>2 DEF InPlace, Stays, Frame
<1> QED
  BY <1>4, <1>5 DEF KeepsPlace

\* A step to a place that this one can reach, which leaves of the scopes those
\* around that place.
LEMMA ReachedStays ==
  ASSUME LInv, Inside, UNCHANGED <<prog, frames, leave>>,
         Reaches(prog, pc, pc'), Waits(prog, pend', pc'),
         Len(scopes') = Frame.scopeBase + Len(Path(prog, pc')),
         \A k \in 1 .. Len(scopes') : scopes'[k] = scopes[k],
         IF abort' THEN Len(stack') >= Frame.stackBase
                   ELSE Len(stack') = Frame.stackBase + Height(prog, pc')
  PROVE  Stays
<1>1. Runs(prog, scopes', frames, pc', pend')
  BY InsideFacts, RunsReached
<1>2. Len(Path(prog, pc')) \in Nat
  <2>1. pc' \in DOMAIN Code[prog]
    BY DEF Reaches
  <2> QED
    BY <2>1, InsideFacts, PathAt
<1>3. \A k \in 1 .. Frame.scopeBase : scopes'[k] = scopes[k]
  BY <1>2, InsideFacts
<1> QED
  BY <1>1, <1>3 DEF Stays

LEMMA DispatchingInside ==
  ASSUME LInv, Dispatching
  PROVE  /\ Inside /\ ~abort
         /\ Len(stack) = Frame.stackBase + Height(prog, pc)
         /\ OpAt(prog, pc) = InsAt(pc).op /\ ToAt(prog, pc) = InsAt(pc).to
         /\ OpAt(prog, pc) \notin TakesOne \cup {"JMP"} => Len(stack) = Frame.stackBase
         /\ OpAt(prog, pc) \in TakesOne => Len(stack) = Frame.stackBase + 1
<1>1. Inside /\ ~abort
  BY DEF Inside, Dispatching
<1>2. Len(stack) = Frame.stackBase + Height(prog, pc)
  BY <1>1, InsideFacts
<1>3. OpAt(prog, pc) = InsAt(pc).op /\ ToAt(prog, pc) = InsAt(pc).to
  BY DEF OpAt, ToAt, InsAt
<1>4. /\ OpAt(prog, pc) \notin TakesOne \cup {"JMP"} => Height(prog, pc) = 0
      /\ OpAt(prog, pc) \in TakesOne => Height(prog, pc) = 1
  <2>1. pc \in DOMAIN Code[prog]
    BY <1>1 DEF Inside
  <2> QED
    BY <1>1, <2>1, InsideFacts, HeightAt DEF Height
<1>5. Frame.stackBase \in Nat
  BY <1>1, InsideFacts
<1> QED
  BY <1>1, <1>2, <1>3, <1>4, <1>5

\* On to the next instruction, with the scopes as they are.
LEMMA NextStays ==
  ASSUME LInv, Dispatching, UNCHANGED <<prog, scopes, frames, leave>>, pc' = pc + 1,
         OpAt(prog, pc) \notin Leaps \cup Openers \cup {"BLOCK_END"},
         (OpAt(prog, pc) # "FINALLY_END" /\ pend' = pend) \/ pend'.op = "NONE",
         IF abort' THEN Len(stack') >= Frame.stackBase
                   ELSE Len(stack') = Frame.stackBase + Height(prog, pc + 1)
  PROVE  Stays
<1>1. Inside
  BY DispatchingInside
<1>2. prog \in Progs /\ WellLaidOut(prog) /\ pc \in DOMAIN Code[prog]
  BY <1>1, InsideFacts DEF Inside
<1>3. Reaches(prog, pc, pc + 1) /\ Len(Path(prog, pc + 1)) = Len(Path(prog, pc))
  BY <1>2, NextReached
<1>4. Waits(prog, pend', pc + 1)
  <2>1. CASE pend'.op = "NONE"
    BY <2>1 DEF Waits
  <2>2. CASE OpAt(prog, pc) # "FINALLY_END" /\ pend' = pend
    BY <1>1, <1>2, <2>2, InsideFacts, WaitsKept
  <2> QED
    BY <2>1, <2>2
<1>5. Len(scopes') = Frame.scopeBase + Len(Path(prog, pc'))
  BY <1>1, <1>3, InsideFacts
<1> QED
  BY <1>1, <1>3, <1>4, <1>5, ReachedStays

\* What an instruction leaves on the value stack for the next one.
LEMMA NextHeight ==
  ASSUME LInv, Dispatching,
         OpAt(prog, pc) \notin Leaps \cup {"THROW", "VM_THROW"}
  PROVE  Height(prog, pc + 1) = IF OpAt(prog, pc) \in LeavesOne THEN 1 ELSE 0
<1>1. Inside
  BY DispatchingInside
<1>2. prog \in Progs /\ WellLaidOut(prog) /\ pc \in DOMAIN Code[prog]
  BY <1>1, InsideFacts DEF Inside
<1> QED
  BY <1>2, LaidFacts DEF FlowsOn

LEMMA PoppedOne ==
  ASSUME LInv, Dispatching, OpAt(prog, pc) \in TakesOne
  PROVE  /\ Len(Popped(stack)) = Frame.stackBase
         /\ Len(stack) = Frame.stackBase + 1 /\ stack # <<>>
         /\ Frame.stackBase \in Nat
<1>1. /\ Len(stack) = Frame.stackBase + 1 /\ Frame.stackBase \in Nat
      /\ stack \in Seq(Slots)
  BY DispatchingInside, InsideFacts
<1>2. stack # <<>>
  <2>1. Len(stack) # 0
    BY <1>1
  <2> QED
    BY <2>1, EmptySeq
<1>3. Len(Popped(stack)) = Len(stack) - 1
  BY <1>1, <1>2, PoppedFacts
<1> QED
  BY <1>1, <1>2, <1>3

LEMMA AppendLength ==
  ASSUME NEW K \in Seq(Slots), NEW v
  PROVE  Len(Append(K, v)) = Len(K) + 1
<1>1. K \in Seq(Slots \cup {v})
  BY SeqMonotonic
<1> QED
  BY <1>1, AppendProperties

\* The instructions that only move values.
LEMMA ValuesStay ==
  ASSUME LInv, Nil \/ Cond \/ Push \/ Show \/ Catch
  PROVE  Dispatching /\ Stays
<1>1. Dispatching /\ ~abort
  BY DEF Nil, Cond, Push, Show, Catch, At, Dispatching
<1>2. stack \in Seq(Slots) /\ Frame.stackBase \in Nat
  BY <1>1, DispatchingInside, InsideFacts
<1>3. /\ UNCHANGED <<prog, scopes, frames, leave>> /\ pc' = pc + 1
      /\ pend' = pend /\ abort' = abort
  BY DEF Nil, Cond, Push, Show, Catch
<1>4. OpAt(prog, pc) \in {"NIL", "COND", "PUSH", "SHOW", "CATCH"}
  BY DEF Nil, Cond, Push, Show, Catch, At, OpAt, InsAt
<1>5. Height(prog, pc + 1) = IF OpAt(prog, pc) \in LeavesOne THEN 1 ELSE 0
  BY <1>1, <1>4, NextHeight DEF Leaps
<1>6. Len(stack') = Frame.stackBase + Height(prog, pc + 1)
  <2>1. CASE Nil
    <3>1. OpAt(prog, pc) = "NIL" /\ stack' = stack
      BY <2>1 DEF Nil, At, OpAt, InsAt
    <3>2. Len(stack) = Frame.stackBase
      BY <1>1, <3>1, DispatchingInside DEF TakesOne
    <3> QED
      BY <1>2, <1>5, <3>1, <3>2 DEF LeavesOne
  <2>2. CASE Cond \/ Push
    <3>1. OpAt(prog, pc) \in {"COND", "PUSH"} /\ \E v : stack' = Append(stack, v)
      BY <2>2 DEF Cond, Push, At, OpAt, InsAt
    <3>2. Len(stack) = Frame.stackBase
      BY <1>1, <3>1, DispatchingInside DEF TakesOne
    <3>3. Len(stack') = Len(stack) + 1
      BY <1>2, <3>1, AppendLength
    <3> QED
      BY <1>2, <1>5, <3>1, <3>2, <3>3 DEF LeavesOne
  <2>3. CASE Show \/ Catch
    <3>1. OpAt(prog, pc) \in {"SHOW", "CATCH"} /\ stack' = Popped(stack)
      BY <2>3 DEF Show, Catch, At, OpAt, InsAt
    <3>2. Len(stack') = Frame.stackBase
      BY <1>1, <3>1, PoppedOne DEF TakesOne
    <3> QED
      BY <1>2, <1>5, <3>1, <3>2 DEF LeavesOne
  <2> QED
    BY <2>1, <2>2, <2>3
<1>7. OpAt(prog, pc) \notin Leaps \cup Openers \cup {"BLOCK_END", "FINALLY_END"}
  BY <1>4 DEF Leaps, Openers
<1> QED
  BY <1>1, <1>3, <1>6, <1>7, NextStays

----------------------------------------------------------------------------
(* What the walks along the scope stack find. *)

LEMMA PlacedFields ==
  ASSUME NEW p, NEW o, OpAt(p, o) \in Openers, NEW armed, NEW base
  PROVE  LET s == Placed(p, o, armed, base)
         IN  /\ s.kind # "func" /\ s.base = base /\ s.armed = armed
             /\ s.kind = "loop" <=> OpAt(p, o) = "LOOP"
             /\ s.kind \in {"loop", "switch"} <=> OpAt(p, o) \in {"LOOP", "SWITCH"}
             /\ s.kind = "label" <=> OpAt(p, o) = "LABEL"
             /\ s.kind = "try" <=> OpAt(p, o) = "TRY"
             /\ OpAt(p, o) = "LABEL" => s.label = Code[p][o].arg
             /\ s.fin # 0 <=> OwnsFinally(Code[p][o])
             /\ s.fin # 0 => s.fin = ToAt(p, o)
             /\ OpAt(p, o) = "LOOP" => s.pc = o + 3 /\ s.start = o + 2
             /\ OpAt(p, o) \in {"TRY", "SWITCH", "LABEL"} => s.pc = o + 2
<1>1. OpAt(p, o) \in {"BLOCK", "LOOP", "TRY", "SWITCH", "LABEL"}
  BY DEF Openers
<1>2. OwnsFinally(Code[p][o]) <=> OpAt(p, o) \in {"TRY", "BLOCK"} /\ ToAt(p, o) # 0
  BY DEF OwnsFinally, OpAt, ToAt
<1> QED
  BY <1>1, <1>2 DEF Placed

\* The scopes of the running activation, one for each opener around pc.
LEMMA ScopeAt ==
  ASSUME LInv, Inside, NEW k \in 1 .. Len(Path(prog, pc))
  PROVE  LET o == Path(prog, pc)[k]
             x == Frame.scopeBase + k
             s == scopes[x]
         IN  /\ x \in 1 .. Len(scopes) /\ x > Frame.scopeBase
             /\ o \in DOMAIN Code[prog] /\ OpAt(prog, o) \in Openers
             /\ s = Placed(prog, o, s.armed, Frame.stackBase)
             /\ s.armed => OpAt(prog, o) = "TRY"
             /\ OpAt(prog, o) = "TRY" /\ ~Closing(prog, pc, k) =>
                  (s.armed <=> Guards(prog, o, pc))
<1> DEFINE o == Path(prog, pc)[k]
           x == Frame.scopeBase + k
           s == scopes[x]
<1>1. /\ prog \in Progs /\ pc \in DOMAIN Code[prog]
      /\ Len(scopes) = Frame.scopeBase + Len(Path(prog, pc))
      /\ Frame.scopeBase \in Nat /\ Lies(prog, scopes, Frame, pc)
  BY InsideFacts DEF Inside
<1>2. /\ Len(Path(prog, pc)) \in Nat /\ DOMAIN Path(prog, pc) = 1 .. Len(Path(prog, pc))
      /\ o \in DOMAIN Code[prog] /\ OpAt(prog, o) \in Openers
  BY <1>1, PathAt
<1>3. x \in 1 .. Len(scopes) /\ x > Frame.scopeBase
  BY <1>1, <1>2
<1>4. k \in DOMAIN Path(prog, pc)
  BY <1>2
<1>5. /\ s = Placed(prog, o, s.armed, Frame.stackBase)
      /\ s.armed => OpAt(prog, o) = "TRY"
      /\ OpAt(prog, o) = "TRY" /\ ~Closing(prog, pc, k) => (s.armed <=> Guards(prog, o, pc))
  BY <1>1, <1>4 DEF Lies
<1> QED
  BY <1>2, <1>3, <1>5

LEMMA ScopeFields ==
  ASSUME LInv, Inside, NEW k \in 1 .. Len(Path(prog, pc))
  PROVE  LET o == Path(prog, pc)[k]
             s == scopes[Frame.scopeBase + k]
         IN  /\ s.kind # "func" /\ s.base = Frame.stackBase
             /\ s.kind = "loop" <=> OpAt(prog, o) = "LOOP"
             /\ s.kind = "try" <=> OpAt(prog, o) = "TRY"
             /\ \A label : IsBreakTarget(s, label) <=> IsTarget(prog, o, label)
             /\ s.fin # 0 <=> OwnsFinally(Code[prog][o])
             /\ s.fin # 0 => s.fin = ToAt(prog, o)
             /\ OpAt(prog, o) = "LOOP" => s.pc = o + 3 /\ s.start = o + 2
             /\ OpAt(prog, o) \in {"TRY", "SWITCH", "LABEL"} => s.pc = o + 2
<1> DEFINE o == Path(prog, pc)[k]
           s == scopes[Frame.scopeBase + k]
<1>1. OpAt(prog, o) \in Openers /\ s = Placed(prog, o, s.armed, Frame.stackBase)
  BY ScopeAt
<1>2. PICK armed : armed = s.armed
  OBVIOUS
<1>3. s = Placed(prog, o, armed, Frame.stackBase)
  BY <1>1, <1>2
<1> HIDE DEF o, s
<1>4. /\ s.kind # "func" /\ s.base = Frame.stackBase
      /\ s.kind = "loop" <=> OpAt(prog, o) = "LOOP"
      /\ s.kind \in {"loop", "switch"} <=> OpAt(prog, o) \in {"LOOP", "SWITCH"}
      /\ s.kind = "label" <=> OpAt(prog, o) = "LABEL"
      /\ s.kind = "try" <=> OpAt(prog, o) = "TRY"
      /\ OpAt(prog, o) = "LABEL" => s.label = Code[prog][o].arg
      /\ s.fin # 0 <=> OwnsFinally(Code[prog][o])
      /\ s.fin # 0 => s.fin = ToAt(prog, o)
      /\ OpAt(prog, o) = "LOOP" => s.pc = o + 3 /\ s.start = o + 2
      /\ OpAt(prog, o) \in {"TRY", "SWITCH", "LABEL"} => s.pc = o + 2
  BY <1>1, <1>3, PlacedFields
<1>5. ASSUME NEW label
      PROVE  IsBreakTarget(s, label) <=> IsTarget(prog, o, label)
  BY <1>4 DEF IsBreakTarget, IsTarget
<1> QED
  BY <1>4, <1>5 DEF o, s

LEMMA PlaceOf ==
  ASSUME LInv, Inside, NEW x \in 1 .. Len(scopes), x > Frame.scopeBase
  PROVE  \E k \in 1 .. Len(Path(prog, pc)) : x = Frame.scopeBase + k
<1>1. /\ Len(scopes) = Frame.scopeBase + Len(Path(prog, pc))
      /\ Frame.scopeBase \in Nat /\ prog \in Progs /\ pc \in DOMAIN Code[prog]
  BY InsideFacts DEF Inside
<1>2. Len(Path(prog, pc)) \in Nat
  BY <1>1, PathAt
<1>3. /\ x - Frame.scopeBase \in 1 .. Len(Path(prog, pc))
      /\ x = Frame.scopeBase + (x - Frame.scopeBase)
  BY <1>1, <1>2
<1> QED
  BY <1>3

\* A back edge stops at the innermost loop around it, or at the function's scope.
LEMMA BackEdge ==
  ASSUME LInv, Inside
  PROVE  LET stop == Frame.scopeBase + Innermost(LoopsOf(prog, pc))
         IN  /\ Innermost(LoopsOf(prog, pc)) \in 0 .. Len(Path(prog, pc))
             /\ Len(PopToLoop) = stop
             /\ \A k \in 1 .. stop : PopToLoop[k] = scopes[k]
<1> DEFINE L == LoopsOf(prog, pc)
           width == Len(Path(prog, pc))
           base == Frame.scopeBase
           stops == {x \in DOMAIN scopes :
                       x <= Frame.scopeBase \/ scopes[x].kind \in {"func", "loop"}}
           inner == Innermost(L)
           found == Innermost(stops)
<1>1. /\ prog \in Progs /\ pc \in DOMAIN Code[prog] /\ base \in Nat
      /\ Len(scopes) = base + width /\ scopes \in Seq(Scope)
      /\ DOMAIN scopes = 1 .. Len(scopes) /\ Len(scopes) \in Nat
  BY InsideFacts DEF Inside
<1>2. width \in Nat
  BY <1>1, PathAt
<1>3. L \in SUBSET (1 .. width)
  BY DEF LoopsOf
<1>4. /\ L = {} => inner = 0
      /\ L # {} => inner \in L /\ \A j \in L : j <= inner
      /\ inner \in 0 .. width
  BY <1>2, <1>3, InnermostProperties
<1>5. \A k \in 1 .. width : base + k \in stops <=> k \in L
  <2> TAKE k \in 1 .. width
  <2>1. /\ base + k \in 1 .. Len(scopes) /\ base + k > base
        /\ scopes[base + k].kind # "func"
        /\ scopes[base + k].kind = "loop" <=> OpAt(prog, Path(prog, pc)[k]) = "LOOP"
    BY ScopeAt, ScopeFields
  <2>2. k \in L <=> OpAt(prog, Path(prog, pc)[k]) = "LOOP"
    BY DEF LoopsOf
  <2>3. ~(base + k <= base)
    BY <1>1
  <2> QED
    BY <1>1, <2>1, <2>2, <2>3
<1>6. \A x \in 1 .. base : x \in stops
  BY <1>1, <1>2
<1>7. stops \in SUBSET (1 .. Len(scopes))
  BY <1>1
<1>8. /\ stops = {} => found = 0
      /\ stops # {} => found \in stops /\ \A j \in stops : j <= found
      /\ found \in 0 .. Len(scopes)
  BY <1>1, <1>7, InnermostProperties
<1>9. \A x \in stops : x > base => \E k \in L : x = base + k
  <2> TAKE x \in stops
  <2> HAVE x > base
  <2>1. x \in 1 .. Len(scopes)
    BY <1>7
  <2>2. PICK k \in 1 .. width : x = base + k
    BY <2>1, PlaceOf
  <2> QED
    BY <1>5, <2>2
<1> HIDE DEF stops, found, inner, L, base
<1>10. found = base + inner
  <2>1. CASE L = {}
    <3>1. ~(found > base)
      <4> SUFFICES ASSUME found > base PROVE FALSE
        OBVIOUS
      <4>1. stops # {} /\ found \in stops
        BY <1>1, <1>8
      <4> QED
        BY <1>9, <2>1, <4>1
    <3>2. base = 0 \/ base \in stops
      BY <1>1, <1>6
    <3>3. found >= base
      BY <1>1, <1>8, <3>2
    <3> QED
      BY <1>1, <1>4, <1>8, <2>1, <3>1, <3>3
  <2>2. CASE L # {}
    <3>1. inner \in L /\ inner \in 1 .. width
      BY <1>3, <1>4, <2>2
    <3>2. base + inner \in stops
      BY <1>5, <3>1
    <3>3. found \in stops /\ base + inner <= found
      BY <1>8, <3>2
    <3>4. found > base
      BY <1>1, <1>8, <3>1, <3>3
    <3>5. PICK k \in L : found = base + k
      BY <1>9, <3>3, <3>4
    <3>6. k <= inner /\ k \in 1 .. width
      BY <1>3, <1>4, <2>2
    <3> QED
      BY <1>1, <3>1, <3>3, <3>5, <3>6
  <2> QED
    BY <2>1, <2>2
<1>11. PICK n \in Nat : n = found /\ n <= Len(scopes)
  BY <1>1, <1>8
<1>12. n \in Int /\ n >= 0
  BY <1>11
<1>13. PopToLoop = SubSeq(scopes, 1, n)
  BY <1>11 DEF PopToLoop, found, stops
<1>14. Len(SubSeq(scopes, 1, n)) = n /\ \A k \in 1 .. n : SubSeq(scopes, 1, n)[k] = scopes[k]
  BY <1>1, <1>11, <1>12, PrefixType
<1> QED
  BY <1>4, <1>10, <1>11, <1>13, <1>14 DEF inner, L, base

----------------------------------------------------------------------------
(* The jumps and the scopes that are opened and closed. *)

LEMMA JumpStays ==
  ASSUME LInv, Dispatching, OpAt(prog, pc) \in {"JMP", "NJMP"}, pc' = ToAt(prog, pc),
         UNCHANGED <<prog, scopes, frames, leave, pend, abort>>,
         Len(stack') = Frame.stackBase + Height(prog, pc')
  PROVE  Stays
<1>1. Inside /\ ~abort
  BY DispatchingInside
<1>2. prog \in Progs /\ WellLaidOut(prog) /\ pc \in DOMAIN Code[prog]
  BY <1>1, InsideFacts DEF Inside
<1>3. Reaches(prog, pc, pc') /\ Len(Path(prog, pc')) = Len(Path(prog, pc))
  BY <1>2, JumpReached
<1>4. Waits(prog, pend', pc')
  <2>1. Waits(prog, pend, ToAt(prog, pc))
    BY <1>1, <1>2, InsideFacts, WaitsKept DEF Jumps
  <2> QED
    BY <2>1
<1>5. Len(scopes') = Frame.scopeBase + Len(Path(prog, pc'))
  BY <1>1, <1>3, InsideFacts
<1> QED
  BY <1>1, <1>3, <1>4, <1>5, ReachedStays

LEMMA BackStays ==
  ASSUME LInv, Dispatching, OpAt(prog, pc) \in {"JMPB", "NJMPB"}, pc' = ToAt(prog, pc),
         scopes' = PopToLoop, UNCHANGED <<prog, frames, leave, pend, abort>>,
         Len(stack') = Frame.stackBase
  PROVE  Stays
<1>1. Inside /\ ~abort
  BY DispatchingInside
<1>2. prog \in Progs /\ WellLaidOut(prog) /\ pc \in DOMAIN Code[prog]
  BY <1>1, InsideFacts DEF Inside
<1>3. Reaches(prog, pc, pc') /\ Len(Path(prog, pc')) = Innermost(LoopsOf(prog, pc))
  BY <1>2, BackReached
<1>4. Waits(prog, pend', pc')
  <2>1. Waits(prog, pend, ToAt(prog, pc))
    BY <1>1, <1>2, InsideFacts, WaitsKept DEF Jumps
  <2> QED
    BY <2>1
<1>5. /\ Len(scopes') = Frame.scopeBase + Len(Path(prog, pc'))
      /\ \A k \in 1 .. Len(scopes') : scopes'[k] = scopes[k]
  BY <1>1, <1>3, BackEdge
<1>6. Height(prog, pc') = 0 /\ Frame.stackBase \in Nat
  <2>1. Height(prog, ToAt(prog, pc)) = 0
    BY <1>2, LaidFacts DEF FlowsOn
  <2> QED
    BY <1>1, <2>1, InsideFacts
<1>7. Len(stack') = Frame.stackBase + Height(prog, pc')
  BY <1>6
<1> QED
  BY <1>1, <1>3, <1>4, <1>5, <1>7, ReachedStays

LEMMA JumpsStay ==
  ASSUME LInv, Jmp \/ JmpBack \/ JmpUnless
  PROVE  Dispatching /\ Stays
<1>1. Dispatching /\ ~abort
  BY DEF Jmp, JmpBack, JmpUnless, At, Dispatching
<1>2. /\ OpAt(prog, pc) = InsAt(pc).op /\ ToAt(prog, pc) = InsAt(pc).to
      /\ Frame.stackBase \in Nat /\ Inside
      /\ prog \in Progs /\ WellLaidOut(prog) /\ pc \in DOMAIN Code[prog]
  BY <1>1, DispatchingInside, InsideFacts DEF Inside
<1>3. UNCHANGED <<prog, frames, leave, pend, abort>>
  BY DEF Jmp, JmpBack, JmpUnless
<1>4. CASE Jmp
  <2>1. /\ OpAt(prog, pc) = "JMP" /\ pc' = ToAt(prog, pc)
        /\ UNCHANGED <<scopes, stack>>
    BY <1>2, <1>4 DEF Jmp, At
  <2>2. Height(prog, ToAt(prog, pc)) = Height(prog, pc)
    BY <1>2, <2>1, LaidFacts DEF FlowsOn
  <2>3. Len(stack') = Frame.stackBase + Height(prog, pc')
    BY <1>1, <2>1, <2>2, DispatchingInside
  <2> QED
    BY <1>1, <1>3, <2>1, <2>3, JumpStays
<1>5. CASE JmpBack
  <2>1. /\ OpAt(prog, pc) = "JMPB" /\ pc' = ToAt(prog, pc)
        /\ scopes' = PopToLoop /\ stack' = stack
    BY <1>2, <1>5 DEF JmpBack, At
  <2>2. Len(stack) = Frame.stackBase
    BY <1>1, <2>1, DispatchingInside DEF TakesOne
  <2> QED
    BY <1>1, <1>3, <2>1, <2>2, BackStays
<1>6. CASE JmpUnless
  <2>1. OpAt(prog, pc) \in {"NJMP", "NJMPB"} /\ stack' = Popped(stack)
    BY <1>2, <1>6 DEF JmpUnless
  <2>2. Len(stack') = Frame.stackBase
    BY <1>1, <2>1, PoppedOne DEF TakesOne
  <2>3. CASE TopOf(stack) = "F" /\ OpAt(prog, pc) = "NJMPB"
    <3>1. pc' = ToAt(prog, pc) /\ scopes' = PopToLoop
      BY <1>2, <1>6, <2>3 DEF JmpUnless
    <3> QED
      BY <1>1, <1>3, <2>2, <2>3, <3>1, BackStays
  <2>4. CASE TopOf(stack) = "F" /\ OpAt(prog, pc) = "NJMP"
    <3>1. pc' = ToAt(prog, pc) /\ scopes' = scopes
      BY <1>2, <1>6, <2>4 DEF JmpUnless
    <3>2. Height(prog, ToAt(prog, pc)) = 0
      BY <1>2, <2>4, LaidFacts DEF FlowsOn
    <3>3. Len(stack') = Frame.stackBase + Height(prog, pc')
      BY <1>2, <2>2, <3>1, <3>2
    <3> QED
      BY <1>1, <1>3, <2>4, <3>1, <3>3, JumpStays
  <2>5. CASE TopOf(stack) # "F"
    <3>1. pc' = pc + 1 /\ scopes' = scopes
      BY <1>6, <2>5 DEF JmpUnless
    <3>2. Height(prog, pc + 1) = 0
      BY <1>1, <2>1, NextHeight DEF Leaps, LeavesOne
    <3>3. Len(stack') = Frame.stackBase + Height(prog, pc + 1)
      BY <1>2, <2>2, <3>2
    <3>4. OpAt(prog, pc) \notin Leaps \cup Openers \cup {"BLOCK_END", "FINALLY_END"}
      BY <2>1 DEF Leaps, Openers
    <3> QED
      BY <1>1, <1>3, <3>1, <3>3, <3>4, NextStays
  <2> QED
    BY <2>1, <2>3, <2>4, <2>5
<1> QED
  BY <1>1, <1>4, <1>5, <1>6

\* The end of a scope.
LEMMA BlockEndStays ==
  ASSUME LInv, BlockEnd
  PROVE  Dispatching /\ Stays
<1>1. Dispatching /\ ~abort
  BY DEF BlockEnd, At, Dispatching
<1>2. /\ OpAt(prog, pc) = "BLOCK_END" /\ scopes' = Popped(scopes) /\ pc' = pc + 1
      /\ UNCHANGED <<prog, stack, frames, pend, abort, leave>>
  BY DEF BlockEnd, At, OpAt, InsAt
<1>3. /\ Inside /\ prog \in Progs /\ WellLaidOut(prog) /\ pc \in DOMAIN Code[prog]
      /\ scopes \in Seq(Scope) /\ Frame.scopeBase \in Nat /\ Frame.stackBase \in Nat
      /\ Len(scopes) = Frame.scopeBase + Len(Path(prog, pc))
  BY <1>1, DispatchingInside, InsideFacts DEF Inside
<1>4. /\ Reaches(prog, pc, pc + 1)
      /\ Len(Path(prog, pc + 1)) = Len(Path(prog, pc)) - 1
  BY <1>2, <1>3, NextReached DEF Leaps, Openers
<1>5. Len(Path(prog, pc + 1)) \in Nat /\ Len(Path(prog, pc)) \in Nat
  <2>1. pc + 1 \in DOMAIN Code[prog]
    BY <1>4 DEF Reaches
  <2> QED
    BY <1>3, <2>1, PathAt
<1>6. scopes # <<>>
  <2>1. Len(scopes) # 0
    BY <1>3, <1>4, <1>5
  <2> QED
    BY <2>1, EmptySeq
<1>7. /\ Len(scopes') = Len(scopes) - 1
      /\ \A k \in 1 .. Len(scopes') : scopes'[k] = scopes[k]
  BY <1>2, <1>3, <1>6, PoppedFacts
<1>8. Len(scopes') = Frame.scopeBase + Len(Path(prog, pc'))
  BY <1>2, <1>3, <1>4, <1>5, <1>7
<1>9. Waits(prog, pend', pc')
  <2>1. Waits(prog, pend, pc + 1)
    BY <1>2, <1>3, InsideFacts, WaitsKept DEF Leaps
  <2> QED
    BY <1>2, <2>1
<1>10. Len(stack') = Frame.stackBase + Height(prog, pc')
  <2>1. Height(prog, pc + 1) = 0
    BY <1>1, <1>2, NextHeight DEF Leaps, LeavesOne
  <2>2. Len(stack) = Frame.stackBase
    BY <1>1, <1>2, DispatchingInside DEF TakesOne
  <2> QED
    BY <1>2, <1>3, <2>1, <2>2
<1> QED
  BY <1>1, <1>2, <1>3, <1>4, <1>7, <1>8, <1>9, <1>10, ReachedStays

\* A new scope: a try is armed at once, and its body is what it guards.
LEMMA BlockStays ==
  ASSUME LInv, Block
  PROVE  Dispatching /\ Stays
<1> DEFINE width == Len(Path(prog, pc))
           base == Frame.scopeBase
           new == Opened(InsAt(pc), pc)
<1>1. Dispatching /\ ~abort
  BY DEF Block, Dispatching
<1>2. /\ OpAt(prog, pc) \in Openers /\ scopes' = Append(scopes, new) /\ pc' = pc + 1
      /\ UNCHANGED <<prog, stack, frames, pend, abort, leave>>
  BY DEF Block, OpAt, InsAt, Openers
<1>3. /\ Inside /\ prog \in Progs /\ WellLaidOut(prog) /\ pc \in DOMAIN Code[prog]
      /\ scopes \in Seq(Scope) /\ base \in Nat /\ Frame.stackBase \in Nat
      /\ Len(scopes) = base + width /\ Lies(prog, scopes, Frame, pc)
      /\ Runs(prog, scopes, frames, pc, pend)
  BY <1>1, DispatchingInside, InsideFacts DEF Inside
<1>4. /\ width \in Nat /\ DOMAIN Path(prog, pc) = 1 .. width /\ pc \in Nat
  BY <1>3, PathAt
<1>5. /\ Joined(prog, pc, pc + 1)
      /\ Len(Path(prog, pc + 1)) = width + 1
      /\ \A k \in 1 .. width : Path(prog, pc + 1)[k] = Path(prog, pc)[k]
      /\ Path(prog, pc + 1)[width + 1] = pc
  BY <1>2, <1>3, OpenerNext
<1>6. pc + 1 \in DOMAIN Code[prog] /\ (pc + 1 \in Functions(prog) <=> pc \in Functions(prog))
  BY <1>5 DEF Joined
<1>7. DOMAIN Path(prog, pc + 1) = 1 .. width + 1
  BY <1>3, <1>5, <1>6, PathAt
<1>8. /\ Len(scopes') = base + width + 1
      /\ \A k \in 1 .. base + width : scopes'[k] = scopes[k]
      /\ scopes'[base + width + 1] = new
  <2>1. new \in Scope
    <3>1. TypeOK
      BY DEF LInv, IInv
    <3>2. InsAt(pc).op \in Openers
      BY <1>2 DEF OpAt, InsAt
    <3> QED
      BY <1>3, <3>1, <3>2, OpenedType
  <2> HIDE DEF new
  <2>2. /\ Len(scopes') = Len(scopes) + 1
        /\ \A k \in 1 .. Len(scopes) : scopes'[k] = scopes[k]
        /\ scopes'[Len(scopes) + 1] = new
    BY <1>2, <1>3, <2>1, AppendProperties
  <2> QED
    BY <1>3, <2>2
<1>9. Len(stack) = Frame.stackBase
  BY <1>1, <1>2, DispatchingInside DEF TakesOne, Openers
<1>10. new = Placed(prog, pc, OpAt(prog, pc) = "TRY", Frame.stackBase)
  BY <1>9 DEF Opened, Placed, OpAt, ToAt, InsAt
<1>11. OpAt(prog, pc) = "TRY" => Guards(prog, pc, pc + 1)
  <2> SUFFICES ASSUME OpAt(prog, pc) = "TRY" PROVE Guards(prog, pc, pc + 1)
    OBVIOUS
  <2>1. /\ ToAt(prog, pc + 2) > pc + 2
        /\ Joined(prog, pc, pc + 2)
    BY <1>2, <1>3, LaidFacts DEF Anchored, Anchors
  <2>2. pc + 2 \in DOMAIN Code[prog]
    BY <2>1 DEF Joined
  <2>3. Code[prog][pc + 2] \in Instr
    BY <1>3, <2>2, CodeFacts, ElementOfSeq
  <2>4. ToAt(prog, pc + 2) \in Nat
    BY <2>3 DEF Instr, ToAt
  <2> QED
    BY <1>4, <2>1, <2>4 DEF Guards
<1>12. Lies(prog, scopes', Frame, pc + 1)
  <2> SUFFICES ASSUME NEW k \in 1 .. width + 1
      PROVE  LET o == Path(prog, pc + 1)[k]
                 s == scopes'[base + k]
             IN  /\ s = Placed(prog, o, s.armed, Frame.stackBase)
                 /\ s.armed => OpAt(prog, o) = "TRY"
                 /\ OpAt(prog, o) = "TRY" /\ ~Closing(prog, pc + 1, k) =>
                      (s.armed <=> Guards(prog, o, pc + 1))
    BY <1>7 DEF Lies
  <2>1. CASE k \in 1 .. width
    <3>1. scopes'[base + k] = scopes[base + k] /\ Path(prog, pc + 1)[k] = Path(prog, pc)[k]
      <4>1. base + k \in 1 .. base + width
        BY <1>3, <1>4, <2>1
      <4> QED
        BY <1>5, <1>8, <2>1, <4>1
    <3>2. LET o == Path(prog, pc)[k]
              s == scopes[base + k]
          IN  /\ s = Placed(prog, o, s.armed, Frame.stackBase)
              /\ s.armed => OpAt(prog, o) = "TRY"
              /\ OpAt(prog, o) = "TRY" /\ ~Closing(prog, pc, k) =>
                   (s.armed <=> Guards(prog, o, pc))
      BY <1>3, <1>4, <2>1 DEF Lies
    <3>3. ~Closing(prog, pc, k)
      BY <1>2 DEF Closing, Openers
    <3>4. ~Closing(prog, pc + 1, k) =>
            (Guards(prog, Path(prog, pc)[k], pc) <=> Guards(prog, Path(prog, pc)[k], pc + 1))
      BY <1>4, <1>5, <1>7, <2>1 DEF Joined
    <3> QED
      BY <3>1, <3>2, <3>3, <3>4
  <2>2. CASE k = width + 1
    <3>1. scopes'[base + k] = new /\ Path(prog, pc + 1)[k] = pc
      <4>1. base + k = base + width + 1
        BY <1>3, <1>4, <2>2
      <4> QED
        BY <1>5, <1>8, <2>2, <4>1
    <3>2. new.armed = (OpAt(prog, pc) = "TRY")
      BY DEF Opened, OpAt, InsAt
    <3> QED
      BY <1>10, <1>11, <3>1, <3>2
  <2> QED
    BY <1>4, <2>1, <2>2
<1>13. \A k \in 1 .. base : scopes'[k] = scopes[k]
  BY <1>3, <1>4, <1>8
<1>14. Waits(prog, pend, pc + 1)
  BY <1>2, <1>3, InsideFacts, WaitsKept DEF Leaps, Openers
<1>15. InFunction(scopes', frames, Len(frames))
  <2> SUFFICES ASSUME Len(frames) > 1 PROVE scopes'[Frame.scopeBase] = FuncPlaced(Frame)
    BY DEF InFunction, Frame
  <2>1. Frame.scopeBase >= 1 /\ scopes[Frame.scopeBase] = FuncPlaced(Frame)
    BY <1>3, InsideFacts
  <2>2. Frame.scopeBase \in 1 .. Frame.scopeBase
    BY <1>3, <2>1
  <2> QED
    BY <1>13, <2>1, <2>2
<1>16. Runs(prog, scopes', frames, pc', pend')
  <2>1. pc \in Functions(prog) \/ Len(frames) = 1
    BY <1>3 DEF Runs
  <2>2. Len(scopes') = base + Len(Path(prog, pc + 1))
    <3>1. Len(Path(prog, pc + 1)) = width + 1
      BY <1>5
    <3>2. Len(scopes') = base + width + 1
      BY <1>8
    <3>3. base \in Nat /\ width \in Nat
      BY <1>3, <1>4
    <3> HIDE DEF base, width
    <3> QED
      BY <3>1, <3>2, <3>3
  <2> QED
    BY <1>2, <1>6, <1>12, <1>14, <1>15, <2>1, <2>2 DEF Runs, Frame
<1>17. Len(stack') = Frame.stackBase + Height(prog, pc')
  <2>1. Height(prog, pc + 1) = 0
    BY <1>1, <1>2, NextHeight DEF Leaps, LeavesOne, Openers
  <2> QED
    BY <1>2, <1>3, <1>9, <2>1
<1> QED
  BY <1>1, <1>2, <1>13, <1>16, <1>17 DEF Stays

----------------------------------------------------------------------------
(* The transfers. *)

\* What a walk finds among the scopes of the running activation.
LEMMA FoundAbove ==
  ASSUME LInv, Inside, NEW X \in SUBSET (DOMAIN scopes), NEW y \in X,
         y > Frame.scopeBase
  PROVE  \E b \in 1 .. Len(Path(prog, pc)) :
           /\ Innermost(X) = Frame.scopeBase + b /\ Frame.scopeBase + b \in X
           /\ \A x \in X : x <= Frame.scopeBase + b
<1>1. /\ Frame.scopeBase \in Nat /\ Len(scopes) \in Nat
      /\ DOMAIN scopes = 1 .. Len(scopes)
  BY InsideFacts
<1>2. /\ Innermost(X) \in X /\ \A x \in X : x <= Innermost(X)
      /\ Innermost(X) \in 1 .. Len(scopes)
  BY <1>1, InnermostProperties
<1>3. Innermost(X) > Frame.scopeBase
  BY <1>1, <1>2
<1>4. PICK b \in 1 .. Len(Path(prog, pc)) : Innermost(X) = Frame.scopeBase + b
  BY <1>2, <1>3, PlaceOf
<1> QED
  BY <1>2, <1>4

\* vm->pc at the finally of the scope that the opener at c has left.
LEMMA FinallyEntered ==
  ASSUME LInv, Inside, NEW c \in 1 .. Len(Path(prog, pc)),
         scopes[Frame.scopeBase + c].fin # 0, RunFinally(Frame.scopeBase + c)
  PROVE  /\ OwnsFinally(Code[prog][Path(prog, pc)[c]])
         /\ pc' = scopes[Frame.scopeBase + c].fin
         /\ Reaches(prog, pc, pc')
         /\ Len(Path(prog, pc')) = c - 1 /\ DOMAIN Path(prog, pc') = 1 .. c - 1
         /\ \A k \in 1 .. c - 1 : Path(prog, pc')[k] = Path(prog, pc)[k]
         /\ Height(prog, pc') = 0
         /\ pc' \in DOMAIN FinallyBodies[prog] /\ pc' \in FinallyBodies[prog][pc']
         /\ Len(scopes') = Frame.scopeBase + c - 1
         /\ \A k \in 1 .. Len(scopes') : scopes'[k] = scopes[k]
<1> DEFINE x == Frame.scopeBase + c
<1>1. /\ prog \in Progs /\ WellLaidOut(prog) /\ pc \in DOMAIN Code[prog]
      /\ scopes \in Seq(Scope) /\ Len(scopes) \in Nat /\ Frame.scopeBase \in Nat
  BY InsideFacts DEF Inside
<1>2. OwnsFinally(Code[prog][Path(prog, pc)[c]]) /\ scopes[x].fin = ToAt(prog, Path(prog, pc)[c])
  BY ScopeFields
<1>3. pc' = scopes[x].fin /\ scopes' = SubSeq(scopes, 1, x - 1)
  BY DEF RunFinally
<1>4. pc' = ToAt(prog, Path(prog, pc)[c])
  BY <1>2, <1>3
<1>5. /\ Reaches(prog, pc, pc')
      /\ Len(Path(prog, pc')) = c - 1
      /\ Height(prog, pc') = 0
      /\ pc' \in DOMAIN FinallyBodies[prog] /\ pc' \in FinallyBodies[prog][pc']
  BY <1>1, <1>2, <1>4, FinReached
<1>6. DOMAIN Path(prog, pc') = 1 .. c - 1
  <2>1. pc' \in DOMAIN Code[prog]
    BY <1>5 DEF Reaches
  <2> QED
    BY <1>1, <1>5, <2>1, PathAt
<1>7. \A k \in 1 .. c - 1 : Path(prog, pc')[k] = Path(prog, pc)[k]
  BY <1>5 DEF Reaches
<1>8. Len(scopes') = x - 1 /\ \A k \in 1 .. Len(scopes') : scopes'[k] = scopes[k]
  <2>1. x \in 1 .. Len(scopes)
    BY ScopeAt
  <2>2. PICK n \in Nat : n = x - 1 /\ n <= Len(scopes)
    BY <1>1, <2>1
  <2>3. n \in Int /\ n >= 0
    BY <2>2
  <2>4. Len(SubSeq(scopes, 1, n)) = n /\ \A k \in 1 .. n : SubSeq(scopes, 1, n)[k] = scopes[k]
    BY <1>1, <2>2, <2>3, PrefixType
  <2> QED
    BY <1>3, <2>2, <2>4
<1>9. Len(scopes') = Frame.scopeBase + c - 1
  BY <1>1, <1>8
<1> QED
  BY <1>2, <1>3, <1>5, <1>6, <1>7, <1>8, <1>9

LEMMA FinallyStays ==
  ASSUME LInv, Inside, NEW c \in 1 .. Len(Path(prog, pc)),
         scopes[Frame.scopeBase + c].fin # 0, RunFinally(Frame.scopeBase + c),
         UNCHANGED <<prog, frames, leave>>, Waits(prog, pend', pc'),
         Len(stack') = Frame.stackBase
  PROVE  Stays
<1>1. /\ Reaches(prog, pc, pc') /\ Len(Path(prog, pc')) = c - 1 /\ Height(prog, pc') = 0
      /\ Len(scopes') = Frame.scopeBase + c - 1
      /\ \A k \in 1 .. Len(scopes') : scopes'[k] = scopes[k]
  BY FinallyEntered
<1>2. Frame.scopeBase \in Nat /\ Frame.stackBase \in Nat
  BY InsideFacts
<1>3. Len(scopes') = Frame.scopeBase + Len(Path(prog, pc'))
  BY <1>1, <1>2
<1>4. IF abort' THEN Len(stack') >= Frame.stackBase
                ELSE Len(stack') = Frame.stackBase + Height(prog, pc')
  BY <1>1, <1>2
<1> QED
  BY <1>1, <1>3, <1>4, ReachedStays

\* vm->pc at an anchor of the scope of the opener at b.
LEMMA AnchorStays ==
  ASSUME LInv, Inside, NEW b \in 1 .. Len(Path(prog, pc)),
         OpAt(prog, Path(prog, pc)[b]) # "TRY", OpAt(prog, pc) # "BLOCK_END",
         NEW a \in Anchors(prog, Path(prog, pc)[b]), JumpTo(Frame.scopeBase + b, a),
         UNCHANGED <<prog, frames, leave>>, Len(stack) = Frame.stackBase
  PROVE  Stays
<1>1. /\ prog \in Progs /\ WellLaidOut(prog) /\ pc \in DOMAIN Code[prog]
      /\ scopes \in Seq(Scope) /\ Len(scopes) \in Nat
      /\ Frame.scopeBase \in Nat /\ Frame.stackBase \in Nat
  BY InsideFacts DEF Inside
<1>2. /\ scopes' = SubSeq(scopes, 1, Frame.scopeBase + b) /\ pc' = a
      /\ pend' = NoTransfer /\ stack' = stack
  BY DEF JumpTo
<1>3. Reaches(prog, pc, pc') /\ Len(Path(prog, pc')) = b /\ Height(prog, pc') = 0
  BY <1>1, <1>2, AnchorReached
<1>4. Len(scopes') = Frame.scopeBase + b /\ \A k \in 1 .. Len(scopes') : scopes'[k] = scopes[k]
  <2>1. Frame.scopeBase + b \in 1 .. Len(scopes)
    BY ScopeAt
  <2>2. PICK n \in Nat : n = Frame.scopeBase + b /\ n <= Len(scopes)
    BY <1>1, <2>1
  <2>3. n \in Int /\ n >= 0
    BY <2>2
  <2>4. Len(SubSeq(scopes, 1, n)) = n /\ \A k \in 1 .. n : SubSeq(scopes, 1, n)[k] = scopes[k]
    BY <1>1, <2>2, <2>3, PrefixType
  <2> QED
    BY <1>2, <2>2, <2>4
<1>5. Waits(prog, pend', pc')
  BY <1>2, NoneWaits
<1>6. Len(scopes') = Frame.scopeBase + Len(Path(prog, pc'))
  BY <1>3, <1>4
<1>7. IF abort' THEN Len(stack') >= Frame.stackBase
                ELSE Len(stack') = Frame.stackBase + Height(prog, pc')
  BY <1>1, <1>2, <1>3
<1> QED
  BY <1>3, <1>4, <1>5, <1>6, <1>7, ReachedStays

\* A break goes to the statement it names, or into a finally on the way there.
LEMMA BreakWalk ==
  ASSUME LInv, Inside, NEW label, DoBreak(label),
         BreakLands(prog, Path(prog, pc), label)
  PROVE  \E b \in 1 .. Len(Path(prog, pc)) :
           /\ IsTarget(prog, Path(prog, pc)[b], label)
           /\ \/ \E c \in b + 1 .. Len(Path(prog, pc)) :
                   /\ scopes[Frame.scopeBase + c].fin # 0
                   /\ RunFinally(Frame.scopeBase + c)
                   /\ pend' = Parked("BREAK", NoVal, label, scopes[Frame.scopeBase + c].fin)
                   /\ UNCHANGED stack
              \/ \E a \in Anchors(prog, Path(prog, pc)[b]) : JumpTo(Frame.scopeBase + b, a)
<1> DEFINE base == Frame.scopeBase
           width == Len(Path(prog, pc))
           X == {i \in DOMAIN scopes : IsBreakTarget(scopes[i], label)}
           target == Innermost(X)
           Y == {i \in DOMAIN scopes : i > target /\ scopes[i].fin # 0}
           fin == Innermost(Y)
<1>1. /\ base \in Nat /\ Len(scopes) \in Nat /\ DOMAIN scopes = 1 .. Len(scopes)
      /\ prog \in Progs /\ pc \in DOMAIN Code[prog]
  BY InsideFacts DEF Inside
<1>2. width \in Nat /\ DOMAIN Path(prog, pc) = 1 .. width
  BY <1>1, PathAt
<1>3. PICK k \in 1 .. width : IsTarget(prog, Path(prog, pc)[k], label)
  BY <1>2 DEF BreakLands
<1>4. base + k \in X /\ base + k > base
  <2>1. base + k \in DOMAIN scopes /\ base + k > base
    BY <1>1, ScopeAt
  <2>2. IsBreakTarget(scopes[base + k], label)
    BY <1>3, ScopeFields
  <2> QED
    BY <2>1, <2>2
<1>5. PICK b \in 1 .. width : target = base + b /\ base + b \in X
  <2> X \in SUBSET (DOMAIN scopes)
    OBVIOUS
  <2> HIDE DEF X
  <2> QED
    BY <1>4, FoundAbove
<1>6. IsTarget(prog, Path(prog, pc)[b], label)
  BY <1>5, ScopeFields
<1>7. \/ /\ target # 0 /\ fin # 0
         /\ RunFinally(fin)
         /\ pend' = Parked("BREAK", NoVal, label, scopes[fin].fin)
         /\ UNCHANGED stack
      \/ /\ target # 0 /\ fin = 0
         /\ JumpTo(target, scopes[target].pc)
  <2>1. target # 0
    BY <1>1, <1>5
  <2> QED
    BY <2>1 DEF DoBreak
<1>8. CASE /\ fin # 0
           /\ RunFinally(fin)
           /\ pend' = Parked("BREAK", NoVal, label, scopes[fin].fin)
           /\ UNCHANGED stack
  <2>1. Y \in SUBSET (1 .. Len(scopes))
    BY <1>1
  <2>2. fin \in Y
    <3> HIDE DEF Y
    <3> QED
      BY <1>1, <1>8, <2>1, InnermostProperties
  <2>3. fin \in 1 .. Len(scopes) /\ fin > base + b /\ scopes[fin].fin # 0
    BY <1>1, <1>5, <2>2
  <2> HIDE DEF fin
  <2>4. fin > base
    BY <1>1, <2>3
  <2>5. PICK c \in 1 .. width : fin = base + c
    BY <2>3, <2>4, PlaceOf
  <2>6. c \in b + 1 .. width
    BY <1>1, <2>3, <2>5
  <2>7. /\ scopes[base + c].fin # 0
        /\ RunFinally(base + c)
        /\ pend' = Parked("BREAK", NoVal, label, scopes[base + c].fin)
        /\ UNCHANGED stack
    BY <1>8, <2>3, <2>5 DEF RunFinally
  <2> QED
    BY <1>6, <2>6, <2>7
<1>9. CASE JumpTo(target, scopes[target].pc)
  <2> DEFINE o == Path(prog, pc)[b]
  <2>1. OpAt(prog, o) \in {"LOOP", "SWITCH", "LABEL"}
    BY <1>6 DEF IsTarget
  <2>2. scopes[target].pc \in Anchors(prog, o)
    BY <1>5, <2>1, ScopeFields DEF Anchors
  <2>3. JumpTo(base + b, scopes[target].pc)
    BY <1>5, <1>9 DEF JumpTo
  <2> QED
    BY <1>6, <2>2, <2>3
<1> QED
  BY <1>7, <1>8, <1>9

LEMMA BreakStays ==
  ASSUME LInv, Inside, NEW label, DoBreak(label),
         BreakLands(prog, Path(prog, pc), label), OpAt(prog, pc) # "BLOCK_END",
         UNCHANGED <<prog, frames, leave>>, Len(stack) = Frame.stackBase
  PROVE  Stays
<1>1. PICK b \in 1 .. Len(Path(prog, pc)) :
        /\ IsTarget(prog, Path(prog, pc)[b], label)
        /\ \/ \E c \in b + 1 .. Len(Path(prog, pc)) :
                /\ scopes[Frame.scopeBase + c].fin # 0
                /\ RunFinally(Frame.scopeBase + c)
                /\ pend' = Parked("BREAK", NoVal, label, scopes[Frame.scopeBase + c].fin)
                /\ UNCHANGED stack
           \/ \E a \in Anchors(prog, Path(prog, pc)[b]) : JumpTo(Frame.scopeBase + b, a)
  BY BreakWalk
<1>2. CASE \E a \in Anchors(prog, Path(prog, pc)[b]) : JumpTo(Frame.scopeBase + b, a)
  <2>1. OpAt(prog, Path(prog, pc)[b]) # "TRY"
    BY <1>1 DEF IsTarget
  <2> QED
    BY <1>2, <2>1, AnchorStays
<1>3. CASE \E c \in b + 1 .. Len(Path(prog, pc)) :
             /\ scopes[Frame.scopeBase + c].fin # 0
             /\ RunFinally(Frame.scopeBase + c)
             /\ pend' = Parked("BREAK", NoVal, label, scopes[Frame.scopeBase + c].fin)
             /\ UNCHANGED stack
  <2>1. PICK c \in b + 1 .. Len(Path(prog, pc)) :
             /\ scopes[Frame.scopeBase + c].fin # 0
             /\ RunFinally(Frame.scopeBase + c)
             /\ pend' = Parked("BREAK", NoVal, label, scopes[Frame.scopeBase + c].fin)
             /\ UNCHANGED stack
    BY <1>3
  <2>2. c \in 1 .. Len(Path(prog, pc)) /\ b \in 1 .. c - 1
    OBVIOUS
  <2>3. /\ pc' = scopes[Frame.scopeBase + c].fin
        /\ b \in DOMAIN Path(prog, pc') /\ Path(prog, pc')[b] = Path(prog, pc)[b]
        /\ pc' \in DOMAIN FinallyBodies[prog] /\ pc' \in FinallyBodies[prog][pc']
    BY <2>1, <2>2, FinallyEntered
  <2>4. BreakLands(prog, Path(prog, pc'), label)
    BY <1>1, <2>3 DEF BreakLands
  <2>5. Waits(prog, pend', pc')
    <3>1. /\ pend'.op = "BREAK" /\ pend'.for = pc' /\ pend'.label = label
      BY <2>1, <2>3 DEF Parked
    <3> QED
      BY <2>3, <2>4, <3>1 DEF Waits
  <2>6. Len(stack') = Frame.stackBase
    BY <2>1
  <2> QED
    BY <2>1, <2>2, <2>5, <2>6, FinallyStays
<1> QED
  BY <1>1, <1>2, <1>3

\* A continue restarts the loop it names, or goes into a finally on the way there.
IsStop(p, o, label) == IF label = NoLabel THEN OpAt(p, o) = "LOOP" ELSE IsTarget(p, o, label)

LEMMA ContinueWalk ==
  ASSUME LInv, Inside, NEW label, DoContinue(label),
         ContinueLands(prog, Path(prog, pc), label)
  PROVE  \E b \in 1 .. Len(Path(prog, pc)) : \E l \in b .. Len(Path(prog, pc)) :
           /\ IsStop(prog, Path(prog, pc)[b], label)
           /\ l = IF label = NoLabel THEN b ELSE b + 1
           /\ IsRestarted(prog, Path(prog, pc), l, label)
           /\ \/ \E c \in b + 1 .. Len(Path(prog, pc)) :
                   /\ scopes[Frame.scopeBase + c].fin # 0
                   /\ RunFinally(Frame.scopeBase + c)
                   /\ pend' = Parked("CONTINUE", NoVal, label, scopes[Frame.scopeBase + c].fin)
                   /\ UNCHANGED stack
              \/ \E a \in Anchors(prog, Path(prog, pc)[l]) : JumpTo(Frame.scopeBase + l, a)
<1> DEFINE base == Frame.scopeBase
           path == Path(prog, pc)
           width == Len(path)
           X == {i \in DOMAIN scopes :
                   IF label = NoLabel THEN scopes[i].kind = "loop"
                                      ELSE IsBreakTarget(scopes[i], label)}
           stop == ContinueStop(label)
           Y == {i \in DOMAIN scopes : i > ContinueStop(label) /\ scopes[i].fin # 0}
           fin == Innermost(Y)
           loop == ContinueLoop(label)
<1>1. /\ base \in Nat /\ Len(scopes) \in Nat /\ DOMAIN scopes = 1 .. Len(scopes)
      /\ prog \in Progs /\ pc \in DOMAIN Code[prog] /\ Len(scopes) = base + width
  BY InsideFacts DEF Inside
<1>2. width \in Nat /\ DOMAIN path = 1 .. width
  BY <1>1, PathAt
<1>3. PICK k \in 1 .. width : IsStop(prog, path[k], label)
  <2>1. CASE label = NoLabel
    BY <1>2, <2>1 DEF ContinueLands, IsStop
  <2>2. CASE label # NoLabel
    BY <1>2, <2>2 DEF ContinueLands, BreakLands, IsStop
  <2> QED
    BY <2>1, <2>2
<1>4. \A j \in 1 .. width : base + j \in X <=> IsStop(prog, path[j], label)
  <2> TAKE j \in 1 .. width
  <2>1. base + j \in DOMAIN scopes
    BY <1>1, ScopeAt
  <2>2. /\ scopes[base + j].kind = "loop" <=> OpAt(prog, path[j]) = "LOOP"
        /\ IsBreakTarget(scopes[base + j], label) <=> IsTarget(prog, path[j], label)
    BY ScopeFields
  <2> QED
    BY <2>1, <2>2 DEF IsStop
<1>5. PICK b \in 1 .. width : stop = base + b /\ base + b \in X
  <2>1. stop = Innermost(X)
    BY DEF ContinueStop
  <2>2. X \in SUBSET (DOMAIN scopes)
    OBVIOUS
  <2>3. base + k \in X /\ base + k > base
    BY <1>1, <1>3, <1>4
  <2> HIDE DEF X
  <2> QED
    BY <2>1, <2>2, <2>3, FoundAbove
<1>6. IsStop(prog, path[b], label)
  BY <1>4, <1>5
<1> DEFINE l == IF label = NoLabel THEN b ELSE b + 1
<1>7. l \in b .. width /\ l \in 1 .. width /\ IsRestarted(prog, path, l, label)
  <2>1. CASE label = NoLabel
    BY <1>2, <1>6, <2>1 DEF IsStop, IsRestarted
  <2>2. CASE label # NoLabel
    <3>1. b + 1 \in DOMAIN path /\ OpAt(prog, path[b + 1]) = "LOOP"
      BY <1>2, <1>6, <2>2 DEF ContinueLands, IsStop
    <3>2. b + 1 > 1 /\ (b + 1) - 1 = b /\ b + 1 \in b .. width
      BY <1>2, <3>1
    <3> QED
      BY <1>2, <1>6, <2>2, <3>1, <3>2 DEF IsStop, IsRestarted
  <2> QED
    BY <2>1, <2>2
<1>8. loop = base + l
  <2>1. CASE label = NoLabel
    BY <1>5, <2>1 DEF ContinueLoop
  <2>2. CASE label # NoLabel
    <3>1. stop # 0 /\ stop + 1 = base + l /\ stop < Len(scopes)
      <4>1. l = b + 1 /\ l \in 1 .. width /\ stop = base + b
        BY <1>5, <1>7, <2>2
      <4>2. base \in Nat /\ width \in Nat /\ b \in 1 .. width /\ Len(scopes) = base + width
        BY <1>1, <1>2
      <4> HIDE DEF stop, base, width, l
      <4> QED
        BY <4>1, <4>2
    <3>2. scopes[stop + 1].kind = "loop"
      <4>1. OpAt(prog, path[l]) = "LOOP"
        BY <1>7 DEF IsRestarted
      <4> QED
        BY <1>7, <3>1, <4>1, ScopeFields
    <3> QED
      BY <2>2, <3>1, <3>2 DEF ContinueLoop
  <2> QED
    BY <2>1, <2>2
<1>9. \/ /\ fin # 0
         /\ RunFinally(fin)
         /\ pend' = Parked("CONTINUE", NoVal, label, scopes[fin].fin)
         /\ UNCHANGED stack
      \/ JumpTo(loop, scopes[loop].start)
  <2>1. loop # 0
    BY <1>1, <1>7, <1>8
  <2> QED
    BY <2>1 DEF DoContinue
<1>10. CASE /\ fin # 0
            /\ RunFinally(fin)
            /\ pend' = Parked("CONTINUE", NoVal, label, scopes[fin].fin)
            /\ UNCHANGED stack
  <2>1. Y \in SUBSET (1 .. Len(scopes))
    BY <1>1
  <2>2. fin \in Y
    <3> HIDE DEF Y
    <3> QED
      BY <1>1, <1>10, <2>1, InnermostProperties
  <2>3. fin \in 1 .. Len(scopes) /\ fin > base + b /\ scopes[fin].fin # 0
    BY <1>1, <1>5, <2>2
  <2> HIDE DEF fin
  <2>4. fin > base
    BY <1>1, <2>3
  <2>5. PICK c \in 1 .. width : fin = base + c
    BY <2>3, <2>4, PlaceOf
  <2>6. c \in b + 1 .. width
    BY <1>1, <2>3, <2>5
  <2>7. /\ scopes[base + c].fin # 0
        /\ RunFinally(base + c)
        /\ pend' = Parked("CONTINUE", NoVal, label, scopes[base + c].fin)
        /\ UNCHANGED stack
    BY <1>10, <2>3, <2>5 DEF RunFinally
  <2> QED
    BY <1>6, <1>7, <2>6, <2>7
<1>11. CASE JumpTo(loop, scopes[loop].start)
  <2>1. OpAt(prog, path[l]) = "LOOP"
    BY <1>7 DEF IsRestarted
  <2>2. scopes[loop].start \in Anchors(prog, path[l])
    BY <1>7, <1>8, <2>1, ScopeFields DEF Anchors
  <2>3. JumpTo(base + l, scopes[loop].start)
    BY <1>8, <1>11 DEF JumpTo
  <2> QED
    BY <1>6, <1>7, <2>2, <2>3
<1> QED
  BY <1>9, <1>10, <1>11

LEMMA ContinueStays ==
  ASSUME LInv, Inside, NEW label, DoContinue(label),
         ContinueLands(prog, Path(prog, pc), label), OpAt(prog, pc) # "BLOCK_END",
         UNCHANGED <<prog, frames, leave>>, Len(stack) = Frame.stackBase
  PROVE  Stays
<1> DEFINE path == Path(prog, pc)
           width == Len(path)
<1>1. PICK b \in 1 .. width : \E l \in b .. width :
        /\ IsStop(prog, path[b], label)
        /\ l = IF label = NoLabel THEN b ELSE b + 1
        /\ IsRestarted(prog, path, l, label)
        /\ \/ \E c \in b + 1 .. width :
                /\ scopes[Frame.scopeBase + c].fin # 0
                /\ RunFinally(Frame.scopeBase + c)
                /\ pend' = Parked("CONTINUE", NoVal, label, scopes[Frame.scopeBase + c].fin)
                /\ UNCHANGED stack
           \/ \E a \in Anchors(prog, path[l]) : JumpTo(Frame.scopeBase + l, a)
  BY ContinueWalk
<1>2. PICK l \in b .. width :
        /\ IsStop(prog, path[b], label)
        /\ l = IF label = NoLabel THEN b ELSE b + 1
        /\ IsRestarted(prog, path, l, label)
        /\ \/ \E c \in b + 1 .. width :
                /\ scopes[Frame.scopeBase + c].fin # 0
                /\ RunFinally(Frame.scopeBase + c)
                /\ pend' = Parked("CONTINUE", NoVal, label, scopes[Frame.scopeBase + c].fin)
                /\ UNCHANGED stack
           \/ \E a \in Anchors(prog, path[l]) : JumpTo(Frame.scopeBase + l, a)
  BY <1>1
<1>3. /\ prog \in Progs /\ pc \in DOMAIN Code[prog]
      /\ width \in Nat /\ DOMAIN path = 1 .. width
  BY InsideFacts, PathAt DEF Inside
<1>4. CASE \E a \in Anchors(prog, path[l]) : JumpTo(Frame.scopeBase + l, a)
  <2>1. OpAt(prog, path[l]) # "TRY" /\ l \in 1 .. width
    BY <1>2 DEF IsRestarted
  <2> QED
    BY <1>4, <2>1, AnchorStays
<1>5. CASE \E c \in b + 1 .. width :
             /\ scopes[Frame.scopeBase + c].fin # 0
             /\ RunFinally(Frame.scopeBase + c)
             /\ pend' = Parked("CONTINUE", NoVal, label, scopes[Frame.scopeBase + c].fin)
             /\ UNCHANGED stack
  <2>1. PICK c \in b + 1 .. width :
             /\ scopes[Frame.scopeBase + c].fin # 0
             /\ RunFinally(Frame.scopeBase + c)
             /\ pend' = Parked("CONTINUE", NoVal, label, scopes[Frame.scopeBase + c].fin)
             /\ UNCHANGED stack
    BY <1>5
  <2>2. c \in 1 .. width /\ b \in 1 .. c - 1
    OBVIOUS
  <2>3. /\ pc' = scopes[Frame.scopeBase + c].fin
        /\ OwnsFinally(Code[prog][path[c]])
        /\ DOMAIN Path(prog, pc') = 1 .. c - 1
        /\ \A k \in 1 .. c - 1 : Path(prog, pc')[k] = path[k]
        /\ pc' \in DOMAIN FinallyBodies[prog] /\ pc' \in FinallyBodies[prog][pc']
    BY <2>1, <2>2, FinallyEntered
  <2>4. ContinueLands(prog, Path(prog, pc'), label)
    <3>1. CASE label = NoLabel
      <4>1. OpAt(prog, path[b]) = "LOOP"
        BY <1>2, <3>1 DEF IsStop
      <4> QED
        BY <2>2, <2>3, <3>1, <4>1 DEF ContinueLands
    <3>2. CASE label # NoLabel
      <4>1. BreakLands(prog, Path(prog, pc'), label)
        BY <1>2, <2>2, <2>3, <3>2 DEF IsStop, BreakLands
      <4>2. ASSUME NEW k \in 1 .. c - 1, IsTarget(prog, path[k], label)
            PROVE  k + 1 \in 1 .. c - 1 /\ OpAt(prog, path[k + 1]) = "LOOP"
        <5>1. k \in 1 .. width
          BY <1>3
        <5>2. k + 1 \in 1 .. width /\ OpAt(prog, path[k + 1]) = "LOOP"
          BY <1>3, <3>2, <4>2, <5>1 DEF ContinueLands
        <5>3. OpAt(prog, path[c]) # "LOOP"
          BY <2>3 DEF OwnsFinally, OpAt
        <5>4. k + 1 # c
          BY <5>2, <5>3
        <5> QED
          BY <1>3, <5>2, <5>4
      <4>3. \A k \in DOMAIN Path(prog, pc') : IsTarget(prog, Path(prog, pc')[k], label) =>
              k + 1 \in DOMAIN Path(prog, pc') /\ OpAt(prog, Path(prog, pc')[k + 1]) = "LOOP"
        BY <2>3, <4>2
      <4> QED
        BY <3>2, <4>1, <4>3 DEF ContinueLands
    <3> QED
      BY <3>1, <3>2
  <2>5. Waits(prog, pend', pc')
    <3>1. /\ pend'.op = "CONTINUE" /\ pend'.for = pc' /\ pend'.label = label
      BY <2>1, <2>3 DEF Parked
    <3> QED
      BY <2>3, <2>4, <3>1 DEF Waits
  <2>6. Len(stack') = Frame.stackBase
    BY <2>1
  <2> QED
    BY <2>1, <2>2, <2>5, <2>6, FinallyStays
<1> QED
  BY <1>2, <1>4, <1>5

\* The scope of the running function is the one its call opened.
LEMMA FuncScopeAt ==
  ASSUME LInv, Inside
  PROVE  FuncScope(scopes) = IF Len(frames) > 1 THEN Frame.scopeBase ELSE 0
<1> DEFINE base == Frame.scopeBase
           X == {i \in DOMAIN scopes : scopes[i].kind = "func"}
           func == Innermost(X)
<1>1. /\ base \in Nat /\ Len(scopes) \in Nat /\ DOMAIN scopes = 1 .. Len(scopes)
      /\ Len(scopes) = base + Len(Path(prog, pc))
      /\ prog \in Progs /\ pc \in DOMAIN Code[prog] /\ Len(frames) \in Nat
      /\ Len(frames) >= 1
  BY InsideFacts DEF Inside
<1>2. Len(Path(prog, pc)) \in Nat
  BY <1>1, PathAt
<1>3. \A x \in X : x <= base
  <2> SUFFICES ASSUME NEW x \in X, ~(x <= base) PROVE FALSE
    OBVIOUS
  <2>1. x \in 1 .. Len(scopes) /\ x > base
    BY <1>1
  <2>2. PICK k \in 1 .. Len(Path(prog, pc)) : x = base + k
    BY <2>1, PlaceOf
  <2>3. scopes[base + k].kind # "func"
    BY ScopeFields
  <2> QED
    BY <2>2, <2>3
<1>4. X \in SUBSET (1 .. Len(scopes))
  BY <1>1
<1>5. /\ X = {} => func = 0
      /\ X # {} => func \in X /\ \A j \in X : j <= func
      /\ func \in 0 .. Len(scopes)
  <2> HIDE DEF X
  <2> QED
    BY <1>1, <1>4, InnermostProperties
<1>6. FuncScope(scopes) = func
  BY DEF FuncScope
<1>7. CASE Len(frames) > 1
  <2>1. base >= 1 /\ scopes[base].kind = "func"
    BY <1>7, InsideFacts DEF FuncPlaced
  <2>2. base \in X
    BY <1>1, <1>2, <2>1
  <2> HIDE DEF X, func
  <2>3. func \in X /\ base <= func
    BY <1>5, <2>2
  <2>4. func <= base
    BY <1>3, <2>3
  <2> QED
    BY <1>1, <1>5, <1>6, <1>7, <2>3, <2>4
<1>8. CASE Len(frames) = 1
  <2>1. base = 0
    BY <1>8, InsideFacts
  <2> HIDE DEF X, func
  <2>2. X = {}
    BY <1>3, <1>4, <2>1
  <2> QED
    BY <1>5, <1>6, <1>8, <2>2
<1>9. Len(frames) > 1 \/ Len(frames) = 1
  BY OneOrMore
<1> QED
  BY <1>7, <1>8, <1>9

\* A step by which the running activation leaves its loop.
Quits ==
  /\ UNCHANGED <<prog, frames>> /\ leave' # "no"
  /\ \A k \in 1 .. Frame.scopeBase - 1 : scopes'[k] = scopes[k]
  /\ Len(frames) > 1 =>
       \/ /\ leave' = "returned" /\ ~abort'
          /\ Len(scopes') = Frame.scopeBase - 1
          /\ pc' = Frame.resume
       \/ /\ leave' = "out" /\ abort'
          /\ Len(scopes') >= Frame.scopeBase
  /\ Len(stack') >= Frame.stackBase
  /\ pc' = EndPc => ~abort'

LEMMA QuitsInPlace ==
  ASSUME LInv, Inside, Quits
  PROVE  KeepsPlace'
<1>1. Activations(prog, scopes', frames)
  <2>1. \A k \in 1 .. frames[Len(frames)].scopeBase - 1 : scopes'[k] = scopes[k]
    BY InsideFacts DEF Quits
  <2> QED
    BY <2>1, InsideFacts, ActivationsKept
<1>2. Leaves(scopes, frames, pc)'
  BY DEF Leaves, Quits, Frame
<1>3. InPlace'
  BY <1>1, <1>2 DEF InPlace, Quits, Frame
<1>4. pc' = EndPc' => ~abort'
  BY DEF Quits, EndPc
<1> QED
  BY <1>3, <1>4 DEF KeepsPlace

\* A return goes to the call it returns to, or into a finally on the way there.
LEMMA ReturnLeaves ==
  ASSUME LInv, Inside, ~abort, UNCHANGED <<prog, frames, abort>>,
         NEW v, NEW K \in Seq(Slots), Len(K) = Frame.stackBase, FinishReturn(v, K)
  PROVE  \/ Stays /\ pend' # NoTransfer
         \/ Quits /\ leave' = "returned"
<1> DEFINE base == Frame.scopeBase
           width == Len(Path(prog, pc))
           func == FuncScope(scopes)
           Y == {i \in DOMAIN scopes : i > FuncScope(scopes) /\ scopes[i].fin # 0}
           fin == Innermost(Y)
           result == IF v = NoVal THEN Undef ELSE v
<1>1. /\ base \in Nat /\ Len(scopes) \in Nat /\ DOMAIN scopes = 1 .. Len(scopes)
      /\ prog \in Progs /\ pc \in DOMAIN Code[prog] /\ Len(frames) \in Nat
      /\ Len(frames) >= 1 /\ scopes \in Seq(Scope) /\ Frame.stackBase \in Nat
      /\ Len(scopes) = base + width
  BY InsideFacts DEF Inside
<1>2. func = base /\ (Len(frames) = 1 => base = 0)
  <2>1. func = IF Len(frames) > 1 THEN base ELSE 0
    BY FuncScopeAt
  <2>2. Len(frames) = 1 => base = 0
    BY InsideFacts
  <2>3. Len(frames) > 1 \/ Len(frames) = 1
    BY OneOrMore
  <2> HIDE DEF func, base
  <2> QED
    BY <2>1, <2>2, <2>3
<1>3. \/ /\ fin # 0
         /\ RunFinally(fin)
         /\ pend' = Parked("RETURN", v, NoLabel, scopes[fin].fin)
         /\ stack' = K
         /\ UNCHANGED leave
      \/ /\ stack' = Append(K, result)
         /\ scopes' = SubSeq(scopes, 1, IF func = 0 THEN 0 ELSE func - 1)
         /\ pc' = IF func = 0 THEN pc + 1 ELSE scopes[func].pc
         /\ leave' = "returned"
  BY DEF FinishReturn
<1>4. CASE /\ fin # 0
           /\ RunFinally(fin)
           /\ pend' = Parked("RETURN", v, NoLabel, scopes[fin].fin)
           /\ stack' = K
           /\ UNCHANGED leave
  <2>1. Y \in SUBSET (1 .. Len(scopes))
    BY <1>1
  <2>2. fin \in Y
    <3> HIDE DEF Y
    <3> QED
      BY <1>1, <1>4, <2>1, InnermostProperties
  <2>3. fin \in 1 .. Len(scopes) /\ fin > base /\ scopes[fin].fin # 0
    BY <1>1, <1>2, <2>2
  <2> HIDE DEF fin
  <2>4. PICK c \in 1 .. width : fin = base + c
    BY <2>3, PlaceOf
  <2>5. /\ scopes[base + c].fin # 0
        /\ RunFinally(base + c)
        /\ pend' = Parked("RETURN", v, NoLabel, scopes[base + c].fin)
    BY <1>4, <2>3, <2>4 DEF RunFinally
  <2>6. /\ pc' = scopes[base + c].fin
        /\ pc' \in DOMAIN FinallyBodies[prog] /\ pc' \in FinallyBodies[prog][pc']
    BY <2>5, FinallyEntered
  <2>7. Waits(prog, pend', pc')
    <3>1. pend'.op = "RETURN" /\ pend'.for = pc'
      BY <2>5, <2>6 DEF Parked
    <3> QED
      BY <2>6, <3>1 DEF Waits
  <2>8. pend' # NoTransfer
    BY <2>5 DEF Parked, NoTransfer
  <2>9. Stays
    BY <1>4, <2>5, <2>7, FinallyStays
  <2> QED
    BY <2>8, <2>9
<1>5. CASE /\ stack' = Append(K, result)
           /\ scopes' = SubSeq(scopes, 1, IF func = 0 THEN 0 ELSE func - 1)
           /\ pc' = IF func = 0 THEN pc + 1 ELSE scopes[func].pc
           /\ leave' = "returned"
  <2>1. Len(stack') = Frame.stackBase + 1
    BY <1>5, AppendLength
  <2>2. PICK n \in Nat : n = (IF func = 0 THEN 0 ELSE func - 1) /\ n <= Len(scopes)
    <3>1. width \in Nat
      BY <1>1, PathAt
    <3> QED
      BY <1>1, <1>2, <3>1
  <2>3. n \in Int /\ n >= 0
    BY <2>2
  <2>4. Len(SubSeq(scopes, 1, n)) = n /\ \A k \in 1 .. n : SubSeq(scopes, 1, n)[k] = scopes[k]
    BY <1>1, <2>2, <2>3, PrefixType
  <2>5. Len(scopes') = n /\ \A k \in 1 .. n : scopes'[k] = scopes[k]
    BY <1>5, <2>2, <2>4
  <2>6. \A k \in 1 .. base - 1 : scopes'[k] = scopes[k]
    BY <1>1, <1>2, <2>2, <2>5
  <2>7. Len(frames) > 1 => Len(scopes') = base - 1 /\ pc' = Frame.resume
    <3> SUFFICES ASSUME Len(frames) > 1 PROVE Len(scopes') = base - 1 /\ pc' = Frame.resume
      OBVIOUS
    <3>1. base >= 1 /\ scopes[base] = FuncPlaced(Frame)
      BY InsideFacts
    <3>2. func # 0 /\ n = base - 1
      BY <1>1, <1>2, <2>2, <3>1
    <3>3. pc' = scopes[base].pc
      BY <1>2, <1>5, <3>2
    <3> QED
      BY <2>5, <3>1, <3>2, <3>3 DEF FuncPlaced
  <2>8. Len(stack') >= Frame.stackBase
    BY <1>1, <2>1
  <2> QED
    BY <1>5, <2>6, <2>7, <2>8 DEF Quits
<1> QED
  BY <1>3, <1>4, <1>5

LEMMA JumpOutStays ==
  ASSUME LInv, Break \/ Continue
  PROVE  Dispatching /\ Stays
<1>1. Dispatching /\ ~abort
  BY DEF Break, Continue, At, Dispatching
<1>2. /\ Inside /\ prog \in Progs /\ WellLaidOut(prog) /\ pc \in DOMAIN Code[prog]
      /\ JumpsLand(prog)
      /\ OpAt(prog, pc) = InsAt(pc).op /\ InsAt(pc).arg = Code[prog][pc].arg
  BY <1>1, DispatchingInside, InsideFacts DEF Inside, KeepsClear, InsAt
<1>3. UNCHANGED <<prog, frames, leave>>
  BY DEF Break, Continue
<1>4. CASE Break
  <2>1. OpAt(prog, pc) = "BREAK" /\ DoBreak(Code[prog][pc].arg)
    BY <1>2, <1>4 DEF Break, At
  <2>2. BreakLands(prog, Path(prog, pc), Code[prog][pc].arg)
    BY <1>2, <2>1 DEF JumpsLand
  <2>3. Len(stack) = Frame.stackBase
    BY <1>1, <2>1, DispatchingInside DEF TakesOne
  <2> QED
    BY <1>1, <1>2, <1>3, <2>1, <2>2, <2>3, BreakStays
<1>5. CASE Continue
  <2>1. OpAt(prog, pc) = "CONTINUE" /\ DoContinue(Code[prog][pc].arg)
    BY <1>2, <1>5 DEF Continue, At
  <2>2. ContinueLands(prog, Path(prog, pc), Code[prog][pc].arg)
    BY <1>2, <2>1 DEF JumpsLand
  <2>3. Len(stack) = Frame.stackBase
    BY <1>1, <2>1, DispatchingInside DEF TakesOne
  <2> QED
    BY <1>1, <1>2, <1>3, <2>1, <2>2, <2>3, ContinueStays
<1> QED
  BY <1>4, <1>5

LEMMA ReturnStep ==
  ASSUME LInv, Return
  PROVE  /\ Dispatching /\ OpAt(prog, pc) \in {"RETURN", "RETURNV"}
         /\ \/ Stays /\ pend' # NoTransfer
            \/ Quits /\ leave' = "returned"
<1>1. Dispatching /\ ~abort
  BY DEF Return, At, Dispatching
<1>2. Inside /\ OpAt(prog, pc) = InsAt(pc).op /\ stack \in Seq(Slots)
  BY <1>1, DispatchingInside, InsideFacts
<1>3. UNCHANGED <<prog, frames, abort>>
  BY DEF Return
<1>4. CASE At("RETURN") /\ FinishReturn(NoVal, stack)
  <2>1. OpAt(prog, pc) = "RETURN"
    BY <1>2, <1>4 DEF At
  <2>2. Len(stack) = Frame.stackBase
    BY <1>1, <2>1, DispatchingInside DEF TakesOne
  <2> QED
    BY <1>1, <1>2, <1>3, <1>4, <2>1, <2>2, ReturnLeaves
<1>5. CASE At("RETURNV") /\ FinishReturn(TopOf(stack), Popped(stack))
  <2>1. OpAt(prog, pc) = "RETURNV"
    BY <1>2, <1>5 DEF At
  <2>2. Len(Popped(stack)) = Frame.stackBase /\ Popped(stack) \in Seq(Slots)
    BY <1>1, <1>2, <2>1, PoppedOne, PoppedType DEF TakesOne
  <2> QED
    BY <1>1, <1>2, <1>3, <1>5, <2>1, <2>2, ReturnLeaves
<1> QED
  BY <1>4, <1>5 DEF Return

\* A parked transfer goes on from where its finally body ends.
LEMMA FinallyEndLeaves ==
  ASSUME LInv, FinallyEnd
  PROVE  /\ Dispatching /\ OpAt(prog, pc) = "FINALLY_END"
         /\ \/ Stays
            \/ Quits /\ leave' = "returned"
<1>1. Dispatching /\ ~abort
  BY DEF FinallyEnd, At, Dispatching
<1>2. /\ Inside /\ prog \in Progs /\ WellLaidOut(prog) /\ pc \in DOMAIN Code[prog]
      /\ KeepsClear(prog) /\ Waits(prog, pend, pc) /\ stack \in Seq(Slots)
      /\ Frame.stackBase \in Nat
  BY <1>1, DispatchingInside, InsideFacts DEF Inside
<1>3. OpAt(prog, pc) = "FINALLY_END" /\ UNCHANGED <<prog, frames>>
  BY DEF FinallyEnd, At, OpAt, InsAt
<1>4. Len(stack) = Frame.stackBase
  BY <1>1, <1>3, DispatchingInside DEF TakesOne
<1>5. Height(prog, pc + 1) = 0
  BY <1>1, <1>3, NextHeight DEF Leaps, LeavesOne
<1>6. pend.op # "NONE" => Path(prog, pc) = Path(prog, pend.for)
  <2> SUFFICES ASSUME pend.op # "NONE" PROVE Path(prog, pc) = Path(prog, pend.for)
    OBVIOUS
  <2>1. pend.for \in DOMAIN FinallyBodies[prog] /\ pc \in FinallyBodies[prog][pend.for]
    BY <1>2 DEF Waits
  <2> QED
    BY <1>2, <1>3, <2>1 DEF KeepsClear, FinallyPlain
<1>7. CASE /\ pend.op \in {"NONE", "THROW"} /\ pc' = pc + 1 /\ pend'.op = "NONE"
           /\ UNCHANGED <<scopes, stack, leave>>
  <2>1. IF abort' THEN Len(stack') >= Frame.stackBase
                  ELSE Len(stack') = Frame.stackBase + Height(prog, pc + 1)
    BY <1>2, <1>4, <1>5, <1>7
  <2>2. OpAt(prog, pc) \notin Leaps \cup Openers \cup {"BLOCK_END"}
    BY <1>3 DEF Leaps, Openers
  <2> QED
    BY <1>1, <1>3, <1>7, <2>1, <2>2, NextStays
<1>8. CASE pend.op = "RETURN" /\ FinishReturn(pend.value, stack) /\ UNCHANGED abort
  BY <1>1, <1>2, <1>3, <1>4, <1>8, ReturnLeaves
<1>9. CASE pend.op = "BREAK" /\ DoBreak(pend.label) /\ UNCHANGED leave
  <2>1. BreakLands(prog, Path(prog, pc), pend.label)
    BY <1>2, <1>6, <1>9 DEF Waits
  <2> QED
    BY <1>1, <1>2, <1>3, <1>4, <1>9, <2>1, BreakStays
<1>10. CASE pend.op = "CONTINUE" /\ DoContinue(pend.label) /\ UNCHANGED leave
  <2>1. ContinueLands(prog, Path(prog, pc), pend.label)
    BY <1>2, <1>6, <1>10 DEF Waits
  <2> QED
    BY <1>1, <1>2, <1>3, <1>4, <1>10, <2>1, ContinueStays
<1> QED
  BY <1>7, <1>8, <1>9, <1>10 DEF FinallyEnd, NoTransfer

----------------------------------------------------------------------------
(* The ways into a handler. *)

\* What a throw finds: the innermost armed try of the function, in no finally
\* body whose end is waited for.
LEMMA HandlerFound ==
  ASSUME LInv, Inside, InRangeTry(scopes, Frame.scopeBase) # 0
  PROVE  /\ pend.op = "NONE"
         /\ \E b \in 1 .. Len(Path(prog, pc)) :
              /\ InRangeTry(scopes, Frame.scopeBase) = Frame.scopeBase + b
              /\ OpAt(prog, Path(prog, pc)[b]) = "TRY"
              /\ scopes[Frame.scopeBase + b].armed
              /\ scopes[Frame.scopeBase + b].pc = Path(prog, pc)[b] + 2
<1> DEFINE base == Frame.scopeBase
           X == {i \in DOMAIN scopes : i > Frame.scopeBase /\ scopes[i].armed}
<1>1. /\ base \in Nat /\ Len(scopes) \in Nat /\ DOMAIN scopes = 1 .. Len(scopes)
      /\ prog \in Progs /\ pc \in DOMAIN Code[prog] /\ KeepsClear(prog)
      /\ Waits(prog, pend, pc) /\ Lies(prog, scopes, Frame, pc)
  BY InsideFacts DEF Inside
<1>2. InRangeTry(scopes, base) = Innermost(X) /\ Innermost(X) # 0
  BY DEF InRangeTry
<1>3. Innermost(X) \in X
  <2>1. X \in SUBSET (1 .. Len(scopes))
    BY <1>1
  <2> HIDE DEF X
  <2> QED
    BY <1>1, <1>2, <2>1, InnermostProperties
<1>4. PICK x : x = Innermost(X) /\ x \in 1 .. Len(scopes) /\ x > base /\ scopes[x].armed
  BY <1>1, <1>3
<1>5. PICK b \in 1 .. Len(Path(prog, pc)) : x = base + b
  BY <1>4, PlaceOf
<1>6. scopes[base + b].armed /\ OpAt(prog, Path(prog, pc)[b]) = "TRY"
  BY <1>4, <1>5, ScopeAt
<1>7. scopes[base + b].pc = Path(prog, pc)[b] + 2
  BY <1>6, ScopeFields
<1>8. pend.op = "NONE"
  BY <1>1, <1>6, NoneArmed
<1> QED
  BY <1>2, <1>4, <1>5, <1>6, <1>7, <1>8

Disarmed(s) ==
  [kind |-> s.kind, armed |-> FALSE, fin |-> s.fin, pc |-> s.pc, start |-> s.start,
   label |-> s.label, base |-> s.base]

LEMMA DisarmedScope ==
  ASSUME NEW s \in Scope
  PROVE  [s EXCEPT !.armed = FALSE] = Disarmed(s)
<1> DEFINE u == [s EXCEPT !.armed = FALSE]
<1>1. DOMAIN s = {"kind", "armed", "fin", "pc", "start", "label", "base"}
  BY DEF Scope
<1>2. /\ DOMAIN u = DOMAIN s /\ u.armed = FALSE /\ u.kind = s.kind /\ u.fin = s.fin
      /\ u.pc = s.pc /\ u.start = s.start /\ u.label = s.label /\ u.base = s.base
  BY <1>1
<1>3. u \in Scope
  BY DEF Scope
<1> HIDE DEF u
<1>4. u = [kind |-> u.kind, armed |-> u.armed, fin |-> u.fin, pc |-> u.pc,
           start |-> u.start, label |-> u.label, base |-> u.base]
  BY <1>3 DEF Scope
<1> QED
  BY <1>2, <1>4 DEF u, Disarmed

LEMMA PlacedDisarmed ==
  ASSUME NEW p, NEW o, NEW armed, NEW base
  PROVE  Disarmed(Placed(p, o, armed, base)) = Placed(p, o, FALSE, base)
BY DEF Placed, Disarmed

LEMMA EnterTryFacts ==
  ASSUME NEW S \in Seq(Scope), NEW t \in 1 .. Len(S)
  PROVE  /\ Len(EnterTry(S, t)) = t
         /\ \A k \in 1 .. t - 1 : EnterTry(S, t)[k] = S[k]
         /\ EnterTry(S, t)[t] = Disarmed(S[t])
<1> DEFINE P == SubSeq(S, 1, t)
<1>1. Len(S) \in Nat
  BY LenProperties
<1>2. PICK n \in Nat : n = t /\ n <= Len(S)
  BY <1>1
<1>3. n \in Int /\ n >= 0
  BY <1>2
<1>4. /\ SubSeq(S, 1, n) \in Seq(Scope) /\ Len(SubSeq(S, 1, n)) = n
      /\ \A k \in 1 .. n : SubSeq(S, 1, n)[k] = S[k]
  BY <1>2, <1>3, PrefixType
<1>5. P \in Seq(Scope) /\ Len(P) = t /\ \A k \in 1 .. t : P[k] = S[k]
  BY <1>2, <1>4
<1> DEFINE u == [P[t] EXCEPT !.armed = FALSE]
<1>6. EnterTry(S, t) = [P EXCEPT ![t] = u]
  BY DEF EnterTry
<1> HIDE DEF P
<1>11. u = [S[t] EXCEPT !.armed = FALSE]
  <2>1. P[t] = S[t]
    BY <1>1, <1>5
  <2> QED
    BY <2>1
<1> HIDE DEF u
<1>7. DOMAIN P = 1 .. t
  BY <1>5, LenProperties
<1>8. \A k \in 1 .. t - 1 : EnterTry(S, t)[k] = S[k]
  BY <1>1, <1>5, <1>6, <1>7
<1>12. S[t] \in Scope
  BY ElementOfSeq
<1>13. [S[t] EXCEPT !.armed = FALSE] = Disarmed(S[t])
  BY <1>12, DisarmedScope
<1>9. EnterTry(S, t)[t] = Disarmed(S[t])
  <2>1. [P EXCEPT ![t] = u][t] = u
    BY <1>1, <1>7
  <2> QED
    BY <1>6, <1>11, <1>13, <2>1
<1>10. Len(EnterTry(S, t)) = t
  <2>1. EnterTry(S, t) \in Seq(Scope)
    BY EnterTryType
  <2>2. DOMAIN EnterTry(S, t) = 1 .. t
    BY <1>6, <1>7
  <2> QED
    BY <1>1, <2>1, <2>2, LenProperties
<1> QED
  BY <1>8, <1>9, <1>10

\* In the catch of the try at b, which is consumed.
LEMMA CatchStays ==
  ASSUME LInv, Inside, NEW b \in 1 .. Len(Path(prog, pc)),
         OpAt(prog, Path(prog, pc)[b]) = "TRY",
         scopes' = EnterTry(scopes, Frame.scopeBase + b), pc' = Path(prog, pc)[b] + 2,
         pend'.op = "NONE", UNCHANGED <<prog, frames, leave>>, ~abort',
         Len(stack') = Frame.stackBase + 1
  PROVE  Stays
<1> DEFINE base == Frame.scopeBase
           path == Path(prog, pc)
           o == path[b]
           a == o + 2
<1>1. /\ prog \in Progs /\ WellLaidOut(prog) /\ pc \in DOMAIN Code[prog]
      /\ scopes \in Seq(Scope) /\ base \in Nat /\ Frame.stackBase \in Nat
      /\ Lies(prog, scopes, Frame, pc) /\ Runs(prog, scopes, frames, pc, pend)
      /\ Len(scopes) \in Nat
  BY InsideFacts DEF Inside
<1>2. /\ Len(path) \in Nat /\ DOMAIN path = 1 .. Len(path)
      /\ o \in DOMAIN Code[prog]
  BY <1>1, PathAt
<1>3. PICK t \in 1 .. Len(scopes) : t = base + b
  BY ScopeAt
<1>4. /\ Len(scopes') = t
      /\ \A k \in 1 .. t - 1 : scopes'[k] = scopes[k]
      /\ scopes'[t] = Disarmed(scopes[t])
  <2>1. /\ Len(EnterTry(scopes, t)) = t
        /\ \A k \in 1 .. t - 1 : EnterTry(scopes, t)[k] = scopes[k]
        /\ EnterTry(scopes, t)[t] = Disarmed(scopes[t])
    BY <1>1, EnterTryFacts
  <2>2. scopes' = EnterTry(scopes, t)
    BY <1>3
  <2> QED
    BY <2>1, <2>2
<1>5. a \in Anchors(prog, o)
  BY DEF Anchors
<1>6. /\ a \in DOMAIN Code[prog]
      /\ a \in Functions(prog) <=> pc \in Functions(prog)
      /\ Len(Path(prog, a)) = b
      /\ \A k \in 1 .. b : Path(prog, a)[k] = path[k]
      /\ \A k \in 1 .. b - 1 : Guards(prog, path[k], pc) <=> Guards(prog, path[k], a)
      /\ Height(prog, a) = 1
  <2>1. /\ a \in DOMAIN Code[prog]
        /\ a \in Functions(prog) <=> pc \in Functions(prog)
        /\ Len(Path(prog, a)) = b
        /\ \A k \in 1 .. b : Path(prog, a)[k] = path[k]
        /\ \A k \in 1 .. b - 1 : Guards(prog, path[k], pc) <=> Guards(prog, path[k], a)
        /\ Height(prog, a) = IF OpAt(prog, o) = "TRY" THEN 1 ELSE 0
    <3>1. PICK x \in Anchors(prog, o) : x = a
      BY <1>5
    <3>2. /\ x \in DOMAIN Code[prog]
          /\ x \in Functions(prog) <=> pc \in Functions(prog)
          /\ Len(Path(prog, x)) = b
          /\ \A k \in 1 .. b : Path(prog, x)[k] = path[k]
          /\ \A k \in 1 .. b - 1 : Guards(prog, path[k], pc) <=> Guards(prog, path[k], x)
          /\ Height(prog, x) = IF OpAt(prog, o) = "TRY" THEN 1 ELSE 0
      BY <1>1, AnchorPath
    <3> HIDE DEF a
    <3> QED
      BY <3>1, <3>2
  <2>2. OpAt(prog, o) = "TRY"
    OBVIOUS
  <2> HIDE DEF o, a, path
  <2> QED
    BY <2>1, <2>2
<1>7. DOMAIN Path(prog, a) = 1 .. b
  BY <1>1, <1>6, PathAt
<1>8. Lies(prog, scopes', Frame, a)
  <2> SUFFICES ASSUME NEW k \in 1 .. b
      PROVE  LET q == Path(prog, a)[k]
                 s == scopes'[base + k]
             IN  /\ s = Placed(prog, q, s.armed, Frame.stackBase)
                 /\ s.armed => OpAt(prog, q) = "TRY"
                 /\ OpAt(prog, q) = "TRY" /\ ~Closing(prog, a, k) =>
                      (s.armed <=> Guards(prog, q, a))
    BY <1>7 DEF Lies
  <2>1. CASE k \in 1 .. b - 1
    <3>1. base + k \in 1 .. t - 1 /\ k \in 1 .. Len(path) /\ k # Len(path)
      <4>1. base \in Nat /\ Len(path) \in Nat /\ b \in 1 .. Len(path)
        BY <1>1, <1>2
      <4> HIDE DEF base, path
      <4> QED
        BY <1>3, <2>1, <4>1
    <3>2. scopes'[base + k] = scopes[base + k] /\ Path(prog, a)[k] = path[k]
      BY <1>4, <1>6, <3>1
    <3>3. ~Closing(prog, pc, k)
      BY <3>1 DEF Closing
    <3>4. LET q == path[k]
              s == scopes[base + k]
          IN  /\ s = Placed(prog, q, s.armed, Frame.stackBase)
              /\ s.armed => OpAt(prog, q) = "TRY"
              /\ OpAt(prog, q) = "TRY" /\ ~Closing(prog, pc, k) =>
                   (s.armed <=> Guards(prog, q, pc))
      BY <3>1, ScopeAt
    <3>5. Guards(prog, path[k], pc) <=> Guards(prog, path[k], a)
      BY <1>6, <2>1
    <3> QED
      BY <3>2, <3>3, <3>4, <3>5
  <2>2. CASE k = b
    <3>1. scopes'[base + k] = Disarmed(scopes[base + b]) /\ Path(prog, a)[k] = o
      BY <1>3, <1>4, <1>6, <2>2
    <3>2. PICK armed : scopes[base + b] = Placed(prog, o, armed, Frame.stackBase)
      BY ScopeAt
    <3>3. scopes'[base + k] = Placed(prog, o, FALSE, Frame.stackBase)
      <4>1. PICK s, q, sb : s = scopes[base + b] /\ q = o /\ sb = Frame.stackBase
        OBVIOUS
      <4>2. s = Placed(prog, q, armed, sb)
        BY <3>2, <4>1
      <4>3. Disarmed(s) = Placed(prog, q, FALSE, sb)
        BY <4>2, PlacedDisarmed
      <4> QED
        BY <3>1, <4>1, <4>3
    <3>4. Placed(prog, o, FALSE, Frame.stackBase).armed = FALSE
      BY DEF Placed
    <3>5. ~Guards(prog, o, a)
      BY DEF Guards
    <3> QED
      BY <3>1, <3>3, <3>4, <3>5
  <2> QED
    BY <2>1, <2>2
<1>9. \A k \in 1 .. base : scopes'[k] = scopes[k]
  <2>1. base \in Nat /\ b \in Nat /\ b >= 1
    BY <1>1, <1>2
  <2>2. \A k \in 1 .. base : k \in 1 .. t - 1
    <3> HIDE DEF base
    <3> QED
      BY <1>3, <2>1
  <2> QED
    BY <1>4, <2>2
<1>10. InFunction(scopes', frames, Len(frames))
  <2> SUFFICES ASSUME Len(frames) > 1 PROVE scopes'[Frame.scopeBase] = FuncPlaced(Frame)
    BY DEF InFunction, Frame
  <2>1. Frame.scopeBase >= 1 /\ scopes[Frame.scopeBase] = FuncPlaced(Frame)
    BY InsideFacts
  <2>2. Frame.scopeBase \in 1 .. Frame.scopeBase
    BY <1>1, <2>1
  <2> QED
    BY <1>9, <2>1, <2>2
<1>11. Runs(prog, scopes', frames, pc', pend')
  <2>1. pc \in Functions(prog) \/ Len(frames) = 1
    BY <1>1 DEF Runs
  <2>2. Waits(prog, pend', a)
    BY DEF Waits
  <2>3. Len(scopes') = base + Len(Path(prog, a))
    BY <1>3, <1>4, <1>6
  <2> QED
    BY <1>6, <1>8, <1>10, <2>1, <2>2, <2>3 DEF Runs, Frame
<1>12. Len(stack') = Frame.stackBase + Height(prog, pc')
  BY <1>6
<1> QED
  BY <1>9, <1>11, <1>12 DEF Stays

\* At the start of a statement, and with one value on top of it, there is nothing
\* for vm_throw_truncate to drop.
LEMMA NothingTruncated ==
  ASSUME LInv, Inside, NEW K, Len(K) <= Frame.stackBase + 1
  PROVE  Truncate(K, scopes) = K
<1>1. (IF FuncScope(scopes) = 0 THEN 0 ELSE scopes[FuncScope(scopes)].base) = Frame.stackBase
  <2>1. FuncScope(scopes) = IF Len(frames) > 1 THEN Frame.scopeBase ELSE 0
    BY FuncScopeAt
  <2>2. CASE Len(frames) > 1
    <3>1. Frame.scopeBase >= 1 /\ scopes[Frame.scopeBase] = FuncPlaced(Frame)
      BY <2>2, InsideFacts
    <3>2. Frame.scopeBase # 0
      BY <3>1, InsideFacts
    <3>3. FuncScope(scopes) = Frame.scopeBase
      BY <2>1, <2>2
    <3> QED
      BY <3>1, <3>2, <3>3 DEF FuncPlaced
  <2>3. CASE ~(Len(frames) > 1)
    <3>1. Len(frames) = 1
      BY <2>3, OneOrMore
    <3>2. Frame.stackBase = 0
      BY <3>1, InsideFacts
    <3>3. FuncScope(scopes) = 0
      BY <2>1, <2>3
    <3> QED
      BY <3>2, <3>3
  <2> QED
    BY <2>2, <2>3
<1> QED
  BY <1>1 DEF Truncate

\* Into the handler that a throw has found.
LEMMA FoundStays ==
  ASSUME LInv, Inside, InRangeTry(scopes, Frame.scopeBase) # 0,
         scopes' = EnterTry(scopes, InRangeTry(scopes, Frame.scopeBase)),
         pc' = scopes[InRangeTry(scopes, Frame.scopeBase)].pc,
         pend' = pend \/ pend' = NoTransfer, UNCHANGED <<prog, frames, leave>>, ~abort',
         Len(stack') = Frame.stackBase + 1
  PROVE  pend.op = "NONE" /\ Stays
<1>1. pend.op = "NONE"
  BY HandlerFound
<1>2. PICK b \in 1 .. Len(Path(prog, pc)) :
        /\ InRangeTry(scopes, Frame.scopeBase) = Frame.scopeBase + b
        /\ OpAt(prog, Path(prog, pc)[b]) = "TRY"
        /\ scopes[Frame.scopeBase + b].pc = Path(prog, pc)[b] + 2
  BY HandlerFound
<1>3. scopes' = EnterTry(scopes, Frame.scopeBase + b) /\ pc' = Path(prog, pc)[b] + 2
  BY <1>2
<1>4. pend'.op = "NONE"
  BY <1>1 DEF NoTransfer
<1> QED
  BY <1>1, <1>2, <1>3, <1>4, CatchStays

LEMMA ThrowsStay ==
  ASSUME LInv, Throw \/ VmThrow \/ NativeThrow
  PROVE  /\ Dispatching /\ Stays
         /\ OpAt(prog, pc) \in {"THROW", "VM_THROW", "NATIVE_THROW"}
         /\ InRangeTry(scopes, Frame.scopeBase) # 0 =>
              scopes' = EnterTry(scopes, InRangeTry(scopes, Frame.scopeBase))
         /\ InRangeTry(scopes, Frame.scopeBase) = 0 => scopes' = scopes /\ abort'
         /\ pend.op # "NONE" => abort' \/ pend' = pend
<1> DEFINE t == InRangeTry(scopes, Frame.scopeBase)
<1>1. Dispatching /\ ~abort
  BY DEF Throw, VmThrow, NativeThrow, At, Dispatching
<1>2. /\ Inside /\ OpAt(prog, pc) = InsAt(pc).op /\ stack \in Seq(Slots)
      /\ Frame.stackBase \in Nat
  BY <1>1, DispatchingInside, InsideFacts
<1>3. UNCHANGED <<prog, frames, leave>> /\ (pend' = pend \/ pend' = NoTransfer)
  BY DEF Throw, VmThrow, NativeThrow
<1>4. OpAt(prog, pc) \in {"THROW", "VM_THROW", "NATIVE_THROW"}
  BY <1>2 DEF Throw, VmThrow, NativeThrow, At
<1>5. OpAt(prog, pc) \notin Leaps \cup Openers \cup {"BLOCK_END"} /\ OpAt(prog, pc) # "FINALLY_END"
  BY <1>4 DEF Leaps, Openers
<1>6. PICK K : /\ Len(K) = Frame.stackBase + 1 /\ K # <<>> /\ K \in Seq(Slots)
               /\ Truncate(K, scopes) = K
               /\ OpAt(prog, pc) = "THROW" => K = stack
               /\ OpAt(prog, pc) # "THROW" => K = Append(stack, InsAt(pc).arg)
  <2>1. CASE OpAt(prog, pc) = "THROW"
    <3>1. Len(stack) = Frame.stackBase + 1 /\ stack # <<>>
      BY <1>1, <2>1, PoppedOne DEF TakesOne
    <3>2. Truncate(stack, scopes) = stack
      BY <1>2, <3>1, NothingTruncated
    <3> QED
      BY <1>2, <2>1, <3>1, <3>2
  <2>2. CASE OpAt(prog, pc) # "THROW"
    <3> DEFINE L == Append(stack, InsAt(pc).arg)
    <3>1. Len(stack) = Frame.stackBase
      BY <1>1, <1>4, <2>2, DispatchingInside DEF TakesOne
    <3>2. InsAt(pc).arg \in Slots
      <4>1. TypeOK /\ pc \in DOMAIN Code[prog]
        BY <1>2 DEF Inside, LInv, IInv
      <4> QED
        BY <1>2, <1>4, <2>2, <4>1, OperandType
    <3>3. L \in Seq(Slots) /\ L # <<>> /\ Len(L) = Frame.stackBase + 1
      BY <1>2, <3>1, <3>2, AppendProperties
    <3>4. Truncate(L, scopes) = L
      <4> HIDE DEF L
      <4>1. Len(L) <= Frame.stackBase + 1
        BY <1>2, <3>3
      <4> QED
        BY <1>2, <4>1, NothingTruncated
    <3> QED
      BY <2>2, <3>3, <3>4
  <2> QED
    BY <2>1, <2>2
<1>7. Len(Popped(K)) = Frame.stackBase
  <2>1. Len(Popped(K)) = Len(K) - 1
    BY <1>6, PoppedFacts
  <2> QED
    BY <1>2, <1>6, <2>1
<1>8. \/ /\ t # 0
         /\ scopes' = EnterTry(scopes, t)
         /\ stack' = K
         /\ pc' = scopes[t].pc
         /\ UNCHANGED abort
      \/ /\ t = 0
         /\ stack' \in {stack, Popped(K), Append(Popped(K), Undef)}
         /\ pc' = pc + 1
         /\ abort'
         /\ UNCHANGED scopes
  <2>1. CASE Throw
    <3>1. OpAt(prog, pc) = "THROW"
      BY <1>2, <2>1 DEF Throw, At
    <3>2. K = stack /\ Truncate(stack, scopes) = K
      BY <1>6, <3>1
    <3> QED
      BY <2>1, <3>2 DEF Throw, Propagate
  <2>2. CASE VmThrow
    <3>1. OpAt(prog, pc) = "VM_THROW"
      BY <1>2, <2>2 DEF VmThrow, At
    <3>2. Truncate(Append(stack, InsAt(pc).arg), scopes) = K
      BY <1>6, <3>1
    <3> QED
      BY <2>2, <3>2 DEF VmThrow, Propagate
  <2>3. CASE NativeThrow
    <3>1. OpAt(prog, pc) = "NATIVE_THROW"
      BY <1>2, <2>3 DEF NativeThrow, At
    <3>2. Truncate(Append(stack, InsAt(pc).arg), scopes) = K
      BY <1>6, <3>1
    <3> QED
      BY <2>3, <3>2 DEF NativeThrow, Propagate
  <2> QED
    BY <2>1, <2>2, <2>3
<1>9. CASE /\ t # 0
           /\ scopes' = EnterTry(scopes, t)
           /\ stack' = K
           /\ pc' = scopes[t].pc
           /\ UNCHANGED abort
  <2>1. Len(stack') = Frame.stackBase + 1
    BY <1>6, <1>9
  <2>2. pend.op = "NONE" /\ Stays
    BY <1>1, <1>2, <1>3, <1>9, <2>1, FoundStays
  <2> QED
    BY <1>1, <1>4, <1>9, <2>2
<1>10. CASE /\ t = 0
            /\ stack' \in {stack, Popped(K), Append(Popped(K), Undef)}
            /\ pc' = pc + 1
            /\ abort'
            /\ UNCHANGED scopes
  <2>1. Len(stack') >= Frame.stackBase
    <3>1. Len(stack) >= Frame.stackBase
      <4>1. Len(stack) = Frame.stackBase \/ Len(stack) = Frame.stackBase + 1
        BY <1>1, <1>4, DispatchingInside DEF TakesOne
      <4> QED
        BY <1>2, <4>1
    <3>2. Len(Append(Popped(K), Undef)) = Frame.stackBase + 1
      <4>1. Popped(K) \in Seq(Slots)
        BY <1>6, PoppedType
      <4> QED
        BY <1>7, <4>1, AppendLength
    <3>3. \/ stack' = stack
          \/ stack' = Popped(K)
          \/ stack' = Append(Popped(K), Undef)
      BY <1>10
    <3> QED
      BY <1>2, <1>7, <3>1, <3>2, <3>3
  <2>2. (OpAt(prog, pc) # "FINALLY_END" /\ pend' = pend) \/ pend'.op = "NONE"
    BY <1>3, <1>5 DEF NoTransfer
  <2>3. Stays
    BY <1>1, <1>3, <1>5, <1>10, <2>1, <2>2, NextStays
  <2> QED
    BY <1>1, <1>4, <1>10, <2>3
<1> QED
  BY <1>8, <1>9, <1>10

----------------------------------------------------------------------------
(* The abort branch, calls and the ends of a run. *)

LEMMA DownFacts ==
  ASSUME NEW S, NEW s \in Seq(S), NEW n \in Nat
  PROVE  /\ Down(s, n) \in Seq(S)
         /\ Len(Down(s, n)) = IF Len(s) <= n THEN Len(s) ELSE n
         /\ \A k \in 1 .. Len(Down(s, n)) : Down(s, n)[k] = s[k]
<1>1. Len(s) \in Nat
  BY LenProperties
<1>2. CASE Len(s) <= n
  BY <1>2, DownType DEF Down
<1>3. CASE ~(Len(s) <= n)
  <2>1. Down(s, n) = SubSeq(s, 1, n)
    BY <1>3 DEF Down
  <2>2. n \in Int /\ n >= 0 /\ n <= Len(s)
    BY <1>1, <1>3
  <2>3. /\ SubSeq(s, 1, n) \in Seq(S) /\ Len(SubSeq(s, 1, n)) = n
        /\ \A k \in 1 .. n : SubSeq(s, 1, n)[k] = s[k]
    BY <2>2, PrefixType
  <2> QED
    BY <1>3, <2>1, <2>3
<1> QED
  BY <1>2, <1>3

\* What the abort branch finds: the innermost scope of the run that owns a
\* finally.
LEMMA FinallyFound ==
  ASSUME LInv, Inside, InRangeFinally(scopes, Frame.scopeBase) # 0
  PROVE  \E c \in 1 .. Len(Path(prog, pc)) :
           /\ InRangeFinally(scopes, Frame.scopeBase) = Frame.scopeBase + c
           /\ scopes[Frame.scopeBase + c].fin # 0
           /\ \A i \in Frame.scopeBase + c + 1 .. Len(scopes) : scopes[i].fin = 0
<1> DEFINE base == Frame.scopeBase
           X == {i \in DOMAIN scopes : i > Frame.scopeBase /\ scopes[i].fin # 0}
<1>1. base \in Nat /\ Len(scopes) \in Nat /\ DOMAIN scopes = 1 .. Len(scopes)
  BY InsideFacts
<1>2. InRangeFinally(scopes, base) = Innermost(X) /\ Innermost(X) # 0
  BY DEF InRangeFinally
<1>3. Innermost(X) \in X /\ \A x \in X : x <= Innermost(X)
  <2>1. X \in SUBSET (1 .. Len(scopes))
    BY <1>1
  <2> HIDE DEF X
  <2> QED
    BY <1>1, <1>2, <2>1, InnermostProperties
<1>4. PICK x : /\ x = Innermost(X) /\ x \in 1 .. Len(scopes) /\ x > base
               /\ scopes[x].fin # 0
  BY <1>1, <1>3
<1>5. PICK c \in 1 .. Len(Path(prog, pc)) : x = base + c
  BY <1>4, PlaceOf
<1>6. ASSUME NEW i \in base + c + 1 .. Len(scopes), scopes[i].fin # 0
      PROVE  FALSE
  <2>1. i \in 1 .. Len(scopes) /\ i > x /\ i > base
    <3>1. i \in x + 1 .. Len(scopes)
      BY <1>5
    <3>2. base \in Nat /\ x \in 1 .. Len(scopes) /\ x > base /\ Len(scopes) \in Nat
      BY <1>1, <1>4
    <3> HIDE DEF base
    <3> QED
      BY <3>1, <3>2
  <2>2. i \in X
    BY <1>1, <1>6, <2>1
  <2>3. i <= x
    BY <1>3, <1>4, <2>2
  <2> QED
    BY <1>4, <2>1, <2>3
<1> QED
  BY <1>2, <1>4, <1>5, <1>6

LEMMA AbortLeaves ==
  ASSUME LInv, AbortCatch \/ AbortFinally \/ AbortLeave
  PROVE  /\ Inside /\ abort
         /\ \/ AbortCatch /\ pend.op = "NONE" /\ Stays
            \/ AbortFinally /\ Stays
            \/ AbortLeave /\ Quits /\ leave' = "out"
<1>1. Inside /\ abort
  BY DEF AbortCatch, AbortFinally, AbortLeave, Aborting, Inside
<1>2. /\ prog \in Progs /\ pc \in DOMAIN Code[prog] /\ stack \in Seq(Slots)
      /\ scopes \in Seq(Scope) /\ Frame.stackBase \in Nat /\ Frame.scopeBase \in Nat
      /\ Len(stack) >= Frame.stackBase /\ Len(stack) \in Nat
  BY <1>1, InsideFacts DEF Inside
<1>3. Down(stack, Frame.stackBase) \in Seq(Slots) /\ Len(Down(stack, Frame.stackBase)) = Frame.stackBase
  <2>1. /\ Down(stack, Frame.stackBase) \in Seq(Slots)
        /\ Len(Down(stack, Frame.stackBase)) =
             IF Len(stack) <= Frame.stackBase THEN Len(stack) ELSE Frame.stackBase
    BY <1>2, DownFacts
  <2>2. Len(stack) <= Frame.stackBase => Len(stack) = Frame.stackBase
    BY <1>2
  <2> QED
    BY <2>1, <2>2
<1>4. CASE AbortCatch
  <2>1. Len(stack') = Frame.stackBase + 1
    BY <1>3, <1>4, AppendLength DEF AbortCatch
  <2>2. /\ InRangeTry(scopes, Frame.scopeBase) # 0
        /\ scopes' = EnterTry(scopes, InRangeTry(scopes, Frame.scopeBase))
        /\ pc' = scopes[InRangeTry(scopes, Frame.scopeBase)].pc
        /\ pend' = pend /\ UNCHANGED <<prog, frames, leave>> /\ ~abort'
    BY <1>4 DEF AbortCatch
  <2>3. pend.op = "NONE" /\ Stays
    BY <1>1, <2>1, <2>2, FoundStays
  <2> QED
    BY <1>1, <1>4, <2>3
<1>5. CASE AbortFinally
  <2>1. PICK c \in 1 .. Len(Path(prog, pc)) :
          /\ InRangeFinally(scopes, Frame.scopeBase) = Frame.scopeBase + c
          /\ scopes[Frame.scopeBase + c].fin # 0
    BY <1>1, <1>5, FinallyFound DEF AbortFinally
  <2>2. /\ RunFinally(Frame.scopeBase + c)
        /\ pend' = Parked("THROW", err, NoLabel, scopes[Frame.scopeBase + c].fin)
        /\ UNCHANGED <<prog, frames, leave>>
    BY <1>5, <2>1 DEF AbortFinally, RunFinally
  <2>3. /\ pc' = scopes[Frame.scopeBase + c].fin
        /\ pc' \in DOMAIN FinallyBodies[prog] /\ pc' \in FinallyBodies[prog][pc']
    BY <1>1, <2>1, <2>2, FinallyEntered
  <2>4. Waits(prog, pend', pc')
    <3>1. pend'.op = "THROW" /\ pend'.for = pc'
      BY <2>2, <2>3 DEF Parked
    <3> QED
      BY <2>3, <3>1 DEF Waits
  <2>5. Len(stack') = Frame.stackBase
    BY <1>3, <1>5 DEF AbortFinally
  <2>6. Stays
    BY <1>1, <2>1, <2>2, <2>4, <2>5, FinallyStays
  <2> QED
    BY <1>1, <1>5, <2>6
<1>6. CASE AbortLeave
  <2>1. /\ stack' = Down(stack, Frame.stackBase) /\ scopes' = Down(scopes, Frame.scopeBase)
        /\ leave' = "out" /\ UNCHANGED <<prog, pc, frames, abort>>
    BY <1>6 DEF AbortLeave
  <2>2. Len(stack') >= Frame.stackBase
    BY <1>2, <1>3, <2>1
  <2>3. Len(scopes') >= Frame.scopeBase /\ \A k \in 1 .. Frame.scopeBase : scopes'[k] = scopes[k]
    <3>1. /\ Len(scopes') = IF Len(scopes) <= Frame.scopeBase THEN Len(scopes) ELSE Frame.scopeBase
          /\ \A k \in 1 .. Len(scopes') : scopes'[k] = scopes[k]
      BY <1>2, <2>1, DownFacts
    <3>2. Len(scopes) >= Frame.scopeBase
      <4>1. Len(scopes) = Frame.scopeBase + Len(Path(prog, pc)) /\ Len(Path(prog, pc)) \in Nat
        BY <1>1, <1>2, InsideFacts, PathAt
      <4> QED
        BY <1>2, <4>1
    <3>3. Len(scopes) \in Nat
      BY <1>1, InsideFacts
    <3>4. Len(scopes') = Frame.scopeBase
      <4>1. CASE Len(scopes) <= Frame.scopeBase
        BY <1>2, <3>1, <3>2, <3>3, <4>1
      <4>2. CASE ~(Len(scopes) <= Frame.scopeBase)
        BY <3>1, <4>2
      <4> QED
        BY <4>1, <4>2
    <3> QED
      BY <1>2, <3>1, <3>4
  <2>4. \A k \in 1 .. Frame.scopeBase - 1 : scopes'[k] = scopes[k]
    BY <1>2, <2>3
  <2>5. pc' # EndPc
    BY <1>2, <2>1, CodeFacts DEF EndPc
  <2> QED
    BY <1>1, <1>6, <2>1, <2>2, <2>3, <2>4, <2>5 DEF Quits
<1> QED
  BY <1>4, <1>5, <1>6

LEMMA CallsSame ==
  ASSUME NEW p, NEW S, NEW F, NEW G, NEW m, G[m] = F[m], G[m + 1] = F[m + 1],
         Calls(p, S, F, m)
  PROVE  Calls(p, S, G, m)
BY DEF Calls, InFunction

\* One more activation, at the call that the running one makes.
LEMMA ActivationsPushed ==
  ASSUME NEW p \in Progs, NEW F \in Seq(RunFrame), Len(F) >= 1, NEW S, NEW T, NEW G,
         Activations(p, S, F),
         \A k \in 1 .. F[Len(F)].scopeBase : T[k] = S[k],
         Len(G) = Len(F) + 1, \A m \in 1 .. Len(F) : G[m] = F[m],
         G[Len(F) + 1].scopeBase \in Nat,
         F[Len(F)].scopeBase <= G[Len(F) + 1].scopeBase,
         Calls(p, T, G, Len(F))
  PROVE  Activations(p, T, G)
<1>1. PICK n \in Nat : n = Len(F) /\ n >= 1
  BY FrameNumbers
<1>2. Activations(p, T, F)
  <2>1. F[Len(F)].scopeBase \in Nat
    BY <1>1, FrameNumbers
  <2>2. \A k \in 1 .. F[Len(F)].scopeBase - 1 : T[k] = S[k]
    BY <2>1
  <2> QED
    BY <2>2, ActivationsKept
<1>3. /\ \A m \in 1 .. n : F[m].scopeBase \in Nat
      /\ F[1].scopeBase = 0 /\ F[1].stackBase = 0
      /\ \A l, m \in 1 .. n : l <= m => F[l].scopeBase <= F[m].scopeBase
      /\ \A m \in 1 .. n - 1 : Calls(p, T, F, m)
  BY <1>1, <1>2, FrameNumbers DEF Activations
<1>4. Len(G) = n + 1 /\ \A m \in 1 .. n : G[m] = F[m]
  BY <1>1
<1>5. G[1].scopeBase = 0 /\ G[1].stackBase = 0
  BY <1>1, <1>3, <1>4
<1>6. ASSUME NEW l \in 1 .. n + 1, NEW m \in 1 .. n + 1, l <= m
      PROVE  G[l].scopeBase <= G[m].scopeBase
  <2>1. CASE m \in 1 .. n
    <3>1. l \in 1 .. n
      BY <1>1, <1>6, <2>1
    <3> QED
      BY <1>3, <1>4, <1>6, <2>1, <3>1
  <2>2. CASE l \in 1 .. n /\ m = n + 1
    <3>1. n \in 1 .. n /\ l <= n
      BY <1>1, <2>2
    <3>2. F[l].scopeBase <= F[n].scopeBase /\ F[l].scopeBase \in Nat /\ F[n].scopeBase \in Nat
      BY <1>3, <2>2, <3>1
    <3>3. F[n].scopeBase <= G[n + 1].scopeBase /\ G[n + 1].scopeBase \in Nat
      BY <1>1
    <3> QED
      BY <1>4, <2>2, <3>2, <3>3
  <2>3. CASE l = n + 1 /\ m = n + 1
    <3>1. G[n + 1].scopeBase \in Nat
      BY <1>1
    <3> QED
      BY <2>3, <3>1
  <2> QED
    BY <1>1, <1>6, <2>1, <2>2, <2>3
<1>7. ASSUME NEW m \in 1 .. n
      PROVE  Calls(p, T, G, m)
  <2>1. CASE m = n
    BY <1>1, <2>1
  <2>2. CASE m # n
    <3>1. m \in 1 .. n - 1 /\ m + 1 \in 1 .. n
      BY <1>1, <2>2
    <3> QED
      BY <1>3, <1>4, <3>1, CallsSame
  <2> QED
    BY <2>1, <2>2
<1>8. (n + 1) - 1 = n
  BY <1>1
<1> QED
  BY <1>4, <1>5, <1>6, <1>7, <1>8 DEF Activations

\* A call: the caller waits for it where it goes on, the callee starts clean.
LEMMA EnterKeeps ==
  ASSUME LInv, Dispatching, NEW via \in {"call", "native"}, NEW K \in Seq(Slots),
         OpAt(prog, pc) \in {"CALL", "CALL_NATIVE"}, Enter(ToAt(prog, pc), K, via),
         Len(K) = Frame.stackBase + (IF via = "native" THEN 1 ELSE 0),
         UNCHANGED <<prog, abort, leave>>
  PROVE  /\ KeepsPlace'
         /\ Len(frames') = Len(frames) + 1
         /\ \A k \in 1 .. Frame.scopeBase : scopes'[k] = scopes[k]
         /\ Len(scopes') >= Frame.scopeBase
         /\ Len(stack') >= Frame.stackBase
<1> DEFINE base == Frame.scopeBase
           n == Len(frames)
           at == pc + 1
           entry == ToAt(prog, pc)
           run == [scopeBase |-> Len(scopes) + 1, stackBase |-> Len(K) + 1,
                   saved |-> pend, resume |-> at, via |-> via]
           func == FuncScopeFor(Append(K, Env))
<1>1. Inside /\ ~abort
  BY DispatchingInside
<1>2. /\ prog \in Progs /\ WellLaidOut(prog) /\ pc \in DOMAIN Code[prog] /\ pc \in Nat
      /\ scopes \in Seq(Scope) /\ frames \in Seq(RunFrame) /\ pend \in Transfer
      /\ base \in Nat /\ Frame.stackBase \in Nat
      /\ Frame = frames[n] /\ Len(scopes) = base + Len(Path(prog, pc))
      /\ Lies(prog, scopes, Frame, pc) /\ Waits(prog, pend, pc)
      /\ Activations(prog, scopes, frames) /\ Runs(prog, scopes, frames, pc, pend)
  BY <1>1, InsideFacts DEF Inside
<1>3. PICK m \in Nat : m = n /\ m >= 1
  BY <1>1, InsideFacts
<1>4. /\ frames' = Append(frames, run) /\ scopes' = Append(scopes, func)
      /\ stack' = Append(K, Env) /\ pend' = NoTransfer /\ pc' = entry
  BY DEF Enter
<1>5. /\ entry \in Functions(prog) \cap DOMAIN Code[prog]
      /\ Path(prog, entry) = <<>> /\ Height(prog, entry) = 0
  BY <1>2, LaidFacts DEF FlowsOn
<1>6. /\ Reaches(prog, pc, at) /\ Len(Path(prog, at)) = Len(Path(prog, pc))
      /\ Height(prog, at) = 1 /\ Waits(prog, pend, at)
  <2>1. Height(prog, at) = 1
    BY <1>2, NextHeight DEF Leaps, LeavesOne
  <2>2. OpAt(prog, pc) \notin Leaps \cup Openers \cup {"BLOCK_END", "FINALLY_END"}
    BY DEF Leaps, Openers
  <2> QED
    BY <1>2, <2>1, <2>2, NextReached, WaitsKept
<1>7. at \in DOMAIN Code[prog] /\ (at \in Functions(prog) <=> pc \in Functions(prog))
  BY <1>6 DEF Reaches
<1>8. /\ Len(Path(prog, pc)) \in Nat /\ Len(scopes) \in Nat /\ Len(K) \in Nat
  BY <1>1, <1>2, PathAt, LenProperties, InsideFacts
<1>9. run \in RunFrame
  <2>1. Len(scopes) + 1 \in Nat /\ Len(K) + 1 \in Nat
    BY <1>8
  <2>2. at \in Nat /\ via \in {"top", "call", "native"}
    BY <1>2
  <2>3. pend \in Transfer
    BY <1>2
  <2> HIDE DEF at
  <2> QED
    BY <2>1, <2>2, <2>3 DEF RunFrame
<1>10. /\ Len(frames') = n + 1 /\ frames'[n + 1] = run
       /\ \A l \in 1 .. n : frames'[l] = frames[l]
  <2> HIDE DEF run
  <2> QED
    BY <1>2, <1>4, <1>9, AppendProperties
<1>11. /\ Len(scopes') = Len(scopes) + 1 /\ scopes'[Len(scopes) + 1] = func
       /\ \A k \in 1 .. Len(scopes) : scopes'[k] = scopes[k]
  <2>1. Len(Append(K, Env)) \in Nat
    BY <1>8, AppendLength
  <2>2. func \in Scope
    BY <1>2, <2>1 DEF FuncScopeFor, Scope, ScopeKinds
  <2>3. scopes \in Seq(Scope) /\ scopes' = Append(scopes, func)
    BY <1>2, <1>4
  <2> HIDE DEF func
  <2> QED
    BY <2>2, <2>3, AppendProperties
<1>12. \A k \in 1 .. base : scopes'[k] = scopes[k]
  <2>1. \A k \in 1 .. base : k \in 1 .. Len(scopes)
    <3> HIDE DEF base
    <3> QED
      BY <1>2, <1>8 DEF base
  <2> QED
    BY <1>11, <2>1
<1>13. Lies(prog, scopes', frames'[n], at)
  <2>1. \A k \in 1 .. Len(Path(prog, at)) : base + k \in 1 .. Len(scopes)
    <3>1. PICK x \in Nat, y \in Nat : x = base /\ y = Len(Path(prog, pc))
      BY <1>2, <1>8
    <3>2. Len(scopes) = x + y /\ Len(Path(prog, at)) = y
      BY <1>2, <1>6, <3>1
    <3>3. \A k \in 1 .. y : x + k \in 1 .. x + y
      OBVIOUS
    <3> QED
      BY <3>1, <3>2, <3>3
  <2>2. \A k \in 1 .. Len(Path(prog, at)) : scopes'[base + k] = scopes[base + k]
    BY <1>11, <2>1
  <2>3. frames'[n] = Frame
    BY <1>2, <1>3, <1>10
  <2> QED
    BY <1>2, <1>6, <2>2, <2>3, LiesReached
<1>14. Calls(prog, scopes', frames', n)
  <2>1. frames'[n + 1] = run /\ frames'[n] = Frame
    BY <1>2, <1>3, <1>10
  <2>2. at \in Functions(prog) \/ n = 1
    BY <1>2, <1>7 DEF Runs
  <2>3. run.scopeBase = base + Len(Path(prog, at)) + 1
    BY <1>2, <1>6, <1>8
  <2>4. run.stackBase = Frame.stackBase + (IF run.via = "native" THEN 2 ELSE 1)
    BY <1>2, <1>8
  <2>5. InFunction(scopes', frames', n)
    <3> SUFFICES ASSUME n > 1 PROVE scopes'[base] = FuncPlaced(Frame)
      BY <2>1 DEF InFunction
    <3>1. base >= 1 /\ scopes[base] = FuncPlaced(Frame)
      BY <1>1, InsideFacts
    <3>2. base \in 1 .. base
      BY <1>2, <3>1
    <3> QED
      BY <1>12, <3>1, <3>2
  <2>6. run.resume = at /\ run.saved = pend
    OBVIOUS
  <2> HIDE DEF run, at, n
  <2> QED
    BY <1>6, <1>7, <1>13, <2>1, <2>2, <2>3, <2>4, <2>5, <2>6 DEF Calls
<1>15. Activations(prog, scopes', frames')
  <2>1. frames'[n + 1].scopeBase = Len(scopes) + 1
    BY <1>10
  <2>2. frames'[n + 1].scopeBase \in Nat /\ frames[n].scopeBase <= frames'[n + 1].scopeBase
    <3>1. frames[n].scopeBase = base
      BY <1>2
    <3>2. base \in Nat /\ Len(scopes) \in Nat /\ Len(scopes) = base + Len(Path(prog, pc))
          /\ Len(Path(prog, pc)) \in Nat
      BY <1>2, <1>8
    <3> HIDE DEF base, n
    <3> QED
      BY <2>1, <3>1, <3>2
  <2>3. \A k \in 1 .. frames[n].scopeBase : scopes'[k] = scopes[k]
    BY <1>2, <1>12
  <2>4. Len(frames) >= 1
    BY <1>3
  <2> QED
    BY <1>2, <1>10, <1>14, <2>2, <2>3, <2>4, ActivationsPushed
<1>16. Runs(prog, scopes', frames', pc', pend')
  <2>1. frames'[Len(frames')] = run
    BY <1>10
  <2>2. Len(Path(prog, entry)) = 0 /\ DOMAIN Path(prog, entry) = {}
    BY <1>5, EmptySeq
  <2>3. Lies(prog, scopes', run, entry)
    BY <2>2 DEF Lies
  <2>4. InFunction(scopes', frames', Len(frames'))
    <3>1. func = FuncPlaced(run)
      <4>1. Len(Append(K, Env)) = Len(K) + 1
        BY AppendLength
      <4> QED
        BY <4>1 DEF FuncScopeFor, FuncPlaced
    <3>2. run.scopeBase = Len(scopes) + 1
      OBVIOUS
    <3> HIDE DEF run, func
    <3> QED
      BY <1>11, <2>1, <3>1, <3>2 DEF InFunction
  <2>5. Len(scopes') = run.scopeBase + Len(Path(prog, entry))
    BY <1>8, <1>11, <2>2
  <2>6. Waits(prog, pend', entry)
    BY <1>4, NoneWaits
  <2> HIDE DEF run, entry
  <2> QED
    BY <1>4, <1>5, <2>1, <2>3, <2>4, <2>5, <2>6 DEF Runs
<1>17. Len(stack') = Frame'.stackBase + Height(prog, pc')
  <2>1. Frame'.stackBase = Len(K) + 1
    BY <1>10 DEF Frame
  <2>2. Len(stack') = Len(K) + 1
    BY <1>4, AppendLength
  <2> QED
    BY <1>4, <1>5, <1>8, <2>1, <2>2
<1>18. InPlace'
  <2>1. leave' = "no" /\ ~abort' /\ prog' = prog
    BY <1>1 DEF Inside
  <2> QED
    BY <1>15, <1>16, <1>17, <2>1 DEF InPlace
<1>19. pc' # EndPc'
  BY <1>2, <1>4, <1>5, CodeFacts DEF EndPc
<1>20. Len(scopes') >= base
  BY <1>2, <1>8, <1>11
<1>21. Len(stack') >= Frame.stackBase
  <2>1. Len(stack') = Len(K) + 1
    BY <1>4, AppendLength
  <2> QED
    BY <1>2, <2>1
<1> QED
  BY <1>10, <1>12, <1>18, <1>19, <1>20, <1>21 DEF KeepsPlace

\* Past the end of the code only a terminated run.
LEMMA EndedKeeps ==
  ASSUME prog' = prog, pc' = EndPc, ~abort'
  PROVE  KeepsPlace'
BY DEF KeepsPlace, EndPc

LEMMA CallsKeep ==
  ASSUME LInv, Call \/ CallNative
  PROVE  /\ Dispatching
         /\ KeepsPlace'
         /\ pc' = EndPc \/
              /\ Len(frames') = Len(frames) + 1
              /\ \A k \in 1 .. Frame.scopeBase : scopes'[k] = scopes[k]
              /\ Len(scopes') >= Frame.scopeBase
              /\ Len(stack') >= Frame.stackBase
<1>1. /\ Dispatching /\ UNCHANGED <<prog, abort, leave>>
      /\ OpAt(prog, pc) \in {"CALL", "CALL_NATIVE"}
      /\ \/ TooDeep
         \/ \E K \in {stack, Append(stack, Env)}, via \in {"call", "native"} :
              /\ Enter(ToAt(prog, pc), K, via)
              /\ K = IF via = "native" THEN Append(stack, Env) ELSE stack
  BY DEF Call, CallNative, At, OpAt, ToAt, InsAt
<1>2. ~abort /\ Len(stack) = Frame.stackBase
  <2>1. OpAt(prog, pc) \notin TakesOne \cup {"JMP"}
    BY <1>1 DEF TakesOne
  <2> QED
    BY <1>1, <2>1, DispatchingInside
<1>3. CASE TooDeep
  BY <1>1, <1>2, <1>3, EndedKeeps DEF TooDeep
<1>4. ASSUME NEW K, NEW via \in {"call", "native"}, Enter(ToAt(prog, pc), K, via),
             K = IF via = "native" THEN Append(stack, Env) ELSE stack
      PROVE  /\ KeepsPlace'
             /\ Len(frames') = Len(frames) + 1
             /\ \A k \in 1 .. Frame.scopeBase : scopes'[k] = scopes[k]
             /\ Len(scopes') >= Frame.scopeBase
             /\ Len(stack') >= Frame.stackBase
  <2>1. stack \in Seq(Slots) /\ Env \in Slots /\ Frame.stackBase \in Nat
    BY <1>1, DispatchingInside, InsideFacts DEF Slots
  <2>2. CASE via = "native"
    <3>1. K \in Seq(Slots)
      BY <1>4, <2>1, <2>2, AppendProperties
    <3>2. Len(K) = Frame.stackBase + 1
      BY <1>2, <1>4, <2>1, <2>2, AppendLength
    <3> QED
      BY <1>1, <1>4, <2>2, <3>1, <3>2, EnterKeeps
  <2>3. CASE via = "call"
    <3>1. Len(K) = Frame.stackBase + 0
      BY <1>2, <1>4, <2>1, <2>3
    <3>2. K \in Seq(Slots)
      BY <1>4, <2>1, <2>3
    <3> QED
      BY <1>1, <1>4, <2>3, <3>1, <3>2, EnterKeeps
  <2> QED
    BY <1>4, <2>2, <2>3
<1> QED
  BY <1>1, <1>3, <1>4

\* The end of the script is only in its outermost run.
LEMMA RunEndKeeps ==
  ASSUME LInv, RunEnd
  PROVE  KeepsPlace' /\ (pc' = EndPc \/ Len(frames) = 1)
<1>1. /\ frames # <<>> /\ leave = "no" /\ leave' = "out"
      /\ UNCHANGED <<prog, pc, scopes, stack, frames, abort>>
  BY DEF RunEnd
<1>2. CASE pc \notin DOMAIN Code[prog]
  <2>1. pc = EndPc
    BY <1>1, <1>2 DEF LInv, KeepsPlace, InPlace, Runs
  <2>2. ~abort
    BY <2>1 DEF LInv, KeepsPlace
  <2> QED
    BY <1>1, <2>1, <2>2, EndedKeeps
<1>3. CASE pc \in DOMAIN Code[prog]
  <2>1. Inside /\ ~abort /\ OpAt(prog, pc) = "END"
    BY <1>1, <1>3 DEF Inside, RunEnd, OpAt, InsAt
  <2>2. pc \notin Functions(prog)
    BY <1>3, <2>1, InsideFacts, LaidFacts DEF FlowsOn
  <2>3. Len(frames) = 1
    BY <2>1, <2>2, InsideFacts DEF Runs
  <2>4. Len(stack) >= Frame.stackBase
    <3>1. Len(stack) = Frame.stackBase + Height(prog, pc) /\ Height(prog, pc) \in Nat
      BY <2>1, InsideFacts DEF Height
    <3> QED
      BY <2>1, <3>1, InsideFacts
  <2>5. Quits
    BY <1>1, <2>1, <2>3, <2>4 DEF Quits
  <2> QED
    BY <2>1, <2>3, <2>5, QuitsInPlace
<1> QED
  BY <1>2, <1>3

\* Where the caller of the running activation stands.
LEMMA CallerFacts ==
  ASSUME NEW p \in Progs, NEW F \in Seq(RunFrame), NEW n \in Nat, Len(F) = n, n > 1,
         NEW S, Activations(p, S, F)
  PROVE  /\ Calls(p, S, F, n - 1)
         /\ F[n].scopeBase \in Nat /\ F[n].scopeBase >= 1
         /\ F[n].stackBase \in Nat /\ F[n - 1].stackBase \in Nat
         /\ F[n].stackBase = F[n - 1].stackBase + (IF F[n].via = "native" THEN 2 ELSE 1)
<1>1. \A m \in 1 .. n - 1 : Calls(p, S, F, m)
  BY DEF Activations
<1>2. n - 1 \in 1 .. n - 1 /\ (n - 1) + 1 = n /\ n \in 2 .. n /\ n \in 1 .. n /\ n - 1 \in 1 .. n
  OBVIOUS
<1>3. Calls(p, S, F, n - 1)
  BY <1>1, <1>2
<1>4. F[n].scopeBase >= 1
  BY <1>2, BaseFacts
<1>5. F[n].scopeBase \in Nat /\ F[n].stackBase \in Nat /\ F[n - 1].stackBase \in Nat
  BY <1>2, FrameNumbers
<1>6. F[n].stackBase = F[n - 1].stackBase + (IF F[n].via = "native" THEN 2 ELSE 1)
  BY <1>2, <1>3 DEF Calls
<1> QED
  BY <1>3, <1>4, <1>5, <1>6

\* One activation less.
LEMMA ActivationsPopped ==
  ASSUME NEW p, NEW F, NEW l \in Nat, l >= 1, Len(F) = l + 1,
         NEW S, NEW G, Activations(p, S, F),
         Len(G) = l, \A m \in 1 .. l : G[m] = F[m]
  PROVE  Activations(p, S, G)
<1>1. /\ F[1].scopeBase = 0 /\ F[1].stackBase = 0
      /\ \A k, m \in 1 .. l + 1 : k <= m => F[k].scopeBase <= F[m].scopeBase
      /\ \A m \in 1 .. (l + 1) - 1 : Calls(p, S, F, m)
  BY DEF Activations
<1>2. ASSUME NEW m \in 1 .. l - 1
      PROVE  Calls(p, S, G, m)
  <2>1. m \in 1 .. (l + 1) - 1 /\ m \in 1 .. l /\ m + 1 \in 1 .. l
    OBVIOUS
  <2> QED
    BY <1>1, <2>1, CallsSame
<1>3. \A k, m \in 1 .. l : k <= m => G[k].scopeBase <= G[m].scopeBase
  <2>1. \A k \in 1 .. l : k \in 1 .. l + 1
    OBVIOUS
  <2> QED
    BY <1>1, <2>1
<1>4. G[1] = F[1]
  <2>1. 1 \in 1 .. l
    OBVIOUS
  <2> QED
    BY <2>1
<1> QED
  BY <1>1, <1>2, <1>3, <1>4 DEF Activations

\* A finished call leaves one value on what its caller had.
LEMMA CallResultLength ==
  ASSUME IInv, frames # <<>>, NEW b \in Nat,
         Frame.stackBase = b + (IF Frame.via = "native" THEN 2 ELSE 1),
         Len(stack) >= Frame.stackBase
  PROVE  Len(CallResult(Frame)) = b + 1
<1> DEFINE below == Down(stack, Frame.stackBase - 1)
           natEnv == IF Frame.via = "native" THEN Popped(below) ELSE below
           top == IF err = NoVal /\ leave = "returned" THEN TopOf(stack) ELSE Undef
           ret == IF top = NoVal THEN Undef ELSE top
<1>1. stack \in Seq(Slots) /\ Len(stack) \in Nat
  BY LenProperties DEF IInv, TypeOK
<1>2. PICK s \in Nat : s = Frame.stackBase - 1
  OBVIOUS
<1>3. Down(stack, s) \in Seq(Slots) /\ Len(Down(stack, s)) = s
  <2>1. Len(stack) > s
    BY <1>2, <1>1
  <2>2. ~(Len(stack) <= s)
    BY <1>1, <2>1
  <2> QED
    BY <1>1, <2>2, DownFacts
<1>4. below \in Seq(Slots) /\ Len(below) = s
  BY <1>2, <1>3
<1>5. natEnv \in Seq(Slots) /\ Len(natEnv) = b
  <2>1. CASE Frame.via = "native"
    <3>1. s = b + 1 /\ below # <<>>
      <4>1. s = b + 1
        BY <1>2, <2>1
      <4> HIDE DEF below
      <4> QED
        BY <1>4, <4>1, EmptySeq
    <3>2. Popped(below) \in Seq(Slots) /\ Len(Popped(below)) = Len(below) - 1
      <4> HIDE DEF below
      <4> QED
        BY <1>4, <3>1, PoppedFacts
    <3>3. Len(Popped(below)) = b
      BY <1>4, <3>1, <3>2
    <3> QED
      BY <2>1, <3>2, <3>3
  <2>2. CASE Frame.via # "native"
    <3>1. s = b
      BY <1>2, <2>2
    <3> QED
      BY <1>4, <2>2, <3>1
  <2> QED
    BY <2>1, <2>2
<1>6. CallResult(Frame) = Append(natEnv, ret)
  BY DEF CallResult
<1> HIDE DEF natEnv, ret
<1> QED
  BY <1>5, <1>6, AppendLength

\* A run that is done hands control back to its caller, who finds the stacks as
\* it left them and the result on top.
LEMMA CallReturnKeeps ==
  ASSUME LInv, CallReturn
  PROVE  /\ KeepsPlace'
         /\ Len(frames') = Len(frames) - 1
         /\ pc' # EndPc =>
              /\ Len(scopes') = Frame.scopeBase - 1
              /\ \A k \in 1 .. Frame.scopeBase - 1 : scopes'[k] = scopes[k]
              /\ Len(stack') = Frame.stackBase - (IF Frame.via = "native" THEN 1 ELSE 0)
<1>1. PICK n \in Nat : n = Len(frames)
  BY FrameNumbers DEF LInv, IInv, TypeOK
<1>2. /\ leave # "no" /\ leave' = "no" /\ n > 1 /\ frames # <<>>
      /\ stack' = CallResult(Frame) /\ pend' = Frame.saved
      /\ frames' = SubSeq(frames, 1, n - 1) /\ UNCHANGED <<prog, abort, err>>
      /\ \/ err # NoVal /\ scopes' = Down(scopes, Frame.scopeBase - 1) /\ pc' = Frame.resume
         \/ err = NoVal /\ UNCHANGED <<scopes, pc>>
  <2>1. frames # <<>>
    BY <1>1, EmptySeq DEF CallReturn
  <2> QED
    BY <1>1, <2>1 DEF CallReturn
<1>3. /\ frames \in Seq(RunFrame) /\ scopes \in Seq(Scope) /\ prog \in Progs
      /\ abort <=> err # NoVal
  BY DEF LInv, IInv, TypeOK, ErrorInFlight, Code
<1>4. Len(frames') = n - 1 /\ \A m \in 1 .. n - 1 : frames'[m] = frames[m]
  <2>1. n - 1 \in Int /\ n - 1 <= n /\ n - 1 >= 0
    BY <1>2
  <2> QED
    BY <1>1, <1>2, <1>3, <2>1, PrefixType
<1>5. CASE pc = EndPc
  <2>1. ~abort
    BY <1>5 DEF LInv, KeepsPlace
  <2>2. pc' = EndPc /\ ~abort'
    BY <1>2, <1>3, <1>5, <2>1
  <2> QED
    BY <1>1, <1>2, <1>4, <2>2, EndedKeeps
<1>6. CASE pc # EndPc
  <2> DEFINE base == frames[n].scopeBase
  <2>1. /\ Activations(prog, scopes, frames) /\ Leaves(scopes, frames, pc)
        /\ Len(stack) >= Frame.stackBase /\ Frame = frames[n]
    BY <1>1, <1>2, <1>6 DEF LInv, KeepsPlace, InPlace, Frame
  <2>2. base \in Nat /\ base >= 1 /\ frames[n].stackBase \in Nat
    <3>1. n \in 1 .. n /\ n \in 2 .. n
      BY <1>2
    <3> QED
      BY <1>1, <1>3, <2>1, <3>1, BaseFacts, FrameNumbers
  <2>3. /\ pc' = frames[n].resume /\ Len(scopes') = base - 1
        /\ \A k \in 1 .. base - 1 : scopes'[k] = scopes[k]
    <3>1. CASE leave = "returned" /\ ~abort /\ Len(scopes) = base - 1 /\ pc = frames[n].resume
      BY <1>2, <1>3, <3>1
    <3>2. CASE abort /\ Len(scopes) >= base
      <4>1. scopes' = Down(scopes, base - 1) /\ pc' = frames[n].resume
        BY <1>2, <1>3, <2>1, <3>2
      <4>2. PICK d \in Nat : d = base - 1
        BY <2>2
      <4>3. Len(scopes) \in Nat
        BY <1>3, LenProperties
      <4>4. ~(Len(scopes) <= d)
        BY <2>2, <3>2, <4>2, <4>3
      <4>5. Len(Down(scopes, d)) = d /\ \A k \in 1 .. d : Down(scopes, d)[k] = scopes[k]
        BY <1>3, <4>4, DownFacts
      <4> QED
        BY <4>1, <4>2, <4>5
    <3> QED
      BY <1>1, <1>2, <2>1, <3>1, <3>2 DEF Leaves
  <2>4. /\ Activations(prog, scopes', frames')
        /\ Calls(prog, scopes', frames, n - 1)
        /\ frames[n - 1].stackBase \in Nat
        /\ frames[n].stackBase = frames[n - 1].stackBase
                                   + (IF frames[n].via = "native" THEN 2 ELSE 1)
    <3>1. Activations(prog, scopes', frames)
      <4>1. \A k \in 1 .. frames[Len(frames)].scopeBase - 1 : scopes'[k] = scopes[k]
        BY <1>1, <2>3
      <4>2. Len(frames) >= 1
        BY <1>1, <1>2
      <4> QED
        BY <1>3, <2>1, <4>1, <4>2, ActivationsKept
    <3>2. /\ Calls(prog, scopes', frames, n - 1)
          /\ frames[n - 1].stackBase \in Nat
          /\ frames[n].stackBase = frames[n - 1].stackBase
                                     + (IF frames[n].via = "native" THEN 2 ELSE 1)
      BY <1>1, <1>2, <1>3, <3>1, CallerFacts
    <3>3. Activations(prog, scopes', frames')
      <4>1. PICK l \in Nat : l = n - 1 /\ l >= 1 /\ n = l + 1
        BY <1>2
      <4>2. Len(frames) = l + 1 /\ Len(frames') = l /\ \A m \in 1 .. l : frames'[m] = frames[m]
        BY <1>1, <1>4, <4>1
      <4> QED
        BY <3>1, <4>1, <4>2, ActivationsPopped
    <3> QED
      BY <3>2, <3>3
  <2>5. Len(stack') = frames[n - 1].stackBase + 1
    <3>1. PICK b \in Nat : b = frames[n - 1].stackBase
      BY <2>4
    <3>2. Frame.stackBase = b + (IF Frame.via = "native" THEN 2 ELSE 1)
      BY <2>1, <2>4, <3>1
    <3>3. Len(CallResult(Frame)) = b + 1
      BY <1>2, <2>1, <3>2, CallResultLength DEF LInv
    <3> QED
      BY <1>2, <3>1, <3>3
  <2> DEFINE at == frames[n].resume
             low == frames[n - 1]
  <2>6. /\ at \in DOMAIN Code[prog] /\ Height(prog, at) = 1
        /\ at \in Functions(prog) \/ n - 1 = 1
        /\ base = low.scopeBase + Len(Path(prog, at)) + 1
        /\ InFunction(scopes', frames, n - 1)
        /\ Lies(prog, scopes', low, at)
        /\ Waits(prog, frames[n].saved, at)
    <3>1. (n - 1) + 1 = n
      OBVIOUS
    <3> QED
      BY <2>4, <3>1 DEF Calls
  <2>7. low = frames'[n - 1] /\ low.scopeBase \in Nat /\ Len(Path(prog, at)) \in Nat
    <3>1. n - 1 \in 1 .. n - 1 /\ n - 1 \in 1 .. n
      BY <1>2
    <3> QED
      BY <1>1, <1>3, <1>4, <2>6, <3>1, FrameNumbers, PathAt
  <2>8. Len(scopes') = low.scopeBase + Len(Path(prog, at))
    <3> HIDE DEF low, at, base
    <3> QED
      BY <2>3, <2>6, <2>7
  <2>9. InFunction(scopes', frames', n - 1)
    BY <2>6, <2>7 DEF InFunction
  <2>10. Runs(prog, scopes', frames', pc', pend')
    <3>1. pend' = frames[n].saved /\ pc' = at
      BY <1>2, <2>1, <2>3
    <3> HIDE DEF at, low
    <3> QED
      BY <1>4, <2>6, <2>7, <2>8, <2>9, <3>1 DEF Runs
  <2>11. /\ Len(stack') = Frame'.stackBase + Height(prog, pc')
         /\ Len(stack') >= Frame'.stackBase
    <3>1. Frame' = low /\ pc' = at
      BY <1>4, <2>3, <2>7 DEF Frame
    <3>2. Height(prog, pc') = 1 /\ low.stackBase \in Nat /\ Len(stack') = low.stackBase + 1
      BY <2>4, <2>5, <2>6, <3>1
    <3>3. Frame'.stackBase = low.stackBase
      BY <3>1
    <3> HIDE DEF at, low
    <3> QED
      BY <3>2, <3>3
  <2>12. pc' # EndPc' /\ pc' # EndPc
    <3>1. pc' \in DOMAIN Code[prog]
      BY <2>3, <2>6
    <3> QED
      BY <1>2, <1>3, <3>1, CodeFacts DEF EndPc
  <2>13. KeepsPlace'
    BY <1>2, <2>4, <2>10, <2>11, <2>12 DEF KeepsPlace, InPlace
  <2>14. Len(stack') = Frame.stackBase - (IF Frame.via = "native" THEN 1 ELSE 0)
    BY <2>1, <2>4, <2>5
  <2> QED
    BY <1>1, <1>4, <2>1, <2>3, <2>13, <2>14
<1> QED
  BY <1>5, <1>6

----------------------------------------------------------------------------
(* The invariant. *)

LEMMA InitLInv == Init /\ LaidClear => LInv
<1> SUFFICES ASSUME Init, LaidClear PROVE LInv
  OBVIOUS
<1>1. IInv
  BY InitIInv
<1>2. /\ pc = 1 /\ scopes = <<>> /\ stack = <<>> /\ leave = "no" /\ ~abort
      /\ pend = NoTransfer /\ prog \in Progs
      /\ frames = <<[scopeBase |-> 0, stackBase |-> 0, saved |-> NoTransfer,
                     resume |-> 0, via |-> "top"]>>
  BY DEF Init
<1>3. Len(frames) = 1 /\ frames[1].scopeBase = 0 /\ frames[1].stackBase = 0
  BY <1>2
<1>4. Frame = frames[1]
  BY <1>3 DEF Frame
<1>5. 1 \in DOMAIN Code[prog] /\ Height(prog, 1) = 0
  BY DEF LaidClear, WellLaidOut
<1>6. Path(prog, 1) = <<>>
  BY <1>2, <1>5, PathStep
<1>7. Len(Path(prog, 1)) = 0 /\ Len(scopes) = 0 /\ Len(stack) = 0
      /\ DOMAIN Path(prog, 1) = {}
  BY <1>2, <1>6
<1>8. Activations(prog, scopes, frames)
  <2>1. \A m \in 1 .. Len(frames) - 1 : FALSE
    BY <1>3
  <2>2. \A l, m \in 1 .. Len(frames) : l <= m => frames[l].scopeBase <= frames[m].scopeBase
    <3>1. \A m \in 1 .. Len(frames) : frames[m].scopeBase = 0
      BY <1>3
    <3> QED
      BY <3>1
  <2> QED
    BY <1>3, <2>1, <2>2 DEF Activations
<1>9. Runs(prog, scopes, frames, pc, pend)
  <2>1. Lies(prog, scopes, frames[1], 1)
    BY <1>7 DEF Lies
  <2>2. InFunction(scopes, frames, 1)
    BY DEF InFunction
  <2> QED
    BY <1>2, <1>3, <1>5, <1>7, <2>1, <2>2, NoneWaits DEF Runs
<1>10. InPlace
  BY <1>2, <1>3, <1>4, <1>5, <1>7, <1>8, <1>9 DEF InPlace
<1> QED
  BY <1>1, <1>2, <1>10 DEF LInv, KeepsPlace

LEMMA StepKeepsPlace ==
  ASSUME LInv, Step
  PROVE  KeepsPlace'
<1>1. CASE Nil \/ Cond \/ Push \/ Show \/ Catch
  BY <1>1, ValuesStay, DispatchingInside, StaysInPlace
<1>2. CASE Jmp \/ JmpBack \/ JmpUnless
  BY <1>2, JumpsStay, DispatchingInside, StaysInPlace
<1>3. CASE Block
  BY <1>3, BlockStays, DispatchingInside, StaysInPlace
<1>4. CASE BlockEnd
  BY <1>4, BlockEndStays, DispatchingInside, StaysInPlace
<1>5. CASE Break \/ Continue
  BY <1>5, JumpOutStays, DispatchingInside, StaysInPlace
<1>6. CASE Return
  BY <1>6, ReturnStep, DispatchingInside, StaysInPlace, QuitsInPlace
<1>7. CASE FinallyEnd
  BY <1>7, FinallyEndLeaves, DispatchingInside, StaysInPlace, QuitsInPlace
<1>8. CASE Throw \/ VmThrow \/ NativeThrow
  BY <1>8, ThrowsStay, DispatchingInside, StaysInPlace
<1>9. CASE AbortCatch \/ AbortFinally \/ AbortLeave
  BY <1>9, AbortLeaves, StaysInPlace, QuitsInPlace
<1>10. CASE Call \/ CallNative
  BY <1>10, CallsKeep
<1>11. CASE RunEnd
  BY <1>11, RunEndKeeps
<1>12. CASE CallReturn
  BY <1>12, CallReturnKeeps
<1>13. CASE ScriptEnd
  BY <1>13 DEF ScriptEnd, KeepsPlace
<1> QED
  BY <1>1, <1>2, <1>3, <1>4, <1>5, <1>6, <1>7, <1>8, <1>9, <1>10, <1>11, <1>12,
     <1>13 DEF Step

LEMMA NextLInv == LInv /\ [Next]_vars => LInv'
<1> SUFFICES ASSUME LInv, [Next]_vars PROVE LInv'
  OBVIOUS
<1>1. IInv'
  BY NextIInv DEF LInv
<1>2. prog' = prog
  BY DEF Next, Step, Halted, vars, Nil, Jmp, JmpBack, JmpUnless, Cond, Push, Show, Block,
     BlockEnd, Break, Continue, Return, FinallyEnd, Throw, VmThrow, NativeThrow,
     Catch, Call, CallNative, RunEnd, CallReturn, ScriptEnd, AbortCatch,
     AbortFinally, AbortLeave
<1>3. LaidClear'
  BY <1>2 DEF LInv, LaidClear
<1>4. CASE UNCHANGED vars \/ Halted
  <2>1. KeepsPlace'
    BY <1>4 DEF vars, Halted, LInv, KeepsPlace, InPlace, EndPc, Frame, Leaves
  <2> QED
    BY <1>1, <1>3, <2>1 DEF LInv
<1>5. CASE Step
  BY <1>1, <1>3, <1>5, StepKeepsPlace DEF LInv
<1> QED
  BY <1>4, <1>5 DEF Next

LEMMA OpenedPlaced ==
  ASSUME NEW o, OpAt(prog, o) \in Openers, NEW armed, NEW base
  PROVE  [Opened(InsAt(o), o) EXCEPT !.armed = armed, !.base = base]
           = Placed(prog, o, armed, base)
<1> DEFINE kind == CASE OpAt(prog, o) = "BLOCK" -> "block" [] OpAt(prog, o) = "LOOP" -> "loop"
                     [] OpAt(prog, o) = "TRY" -> "try" [] OpAt(prog, o) = "SWITCH" -> "switch"
                     [] OpAt(prog, o) = "LABEL" -> "label"
           fin == IF OpAt(prog, o) \in {"TRY", "BLOCK"} THEN ToAt(prog, o) ELSE 0
           at == CASE OpAt(prog, o) = "LOOP" -> o + 3 [] OpAt(prog, o) = "BLOCK" -> 0
                   [] OTHER -> o + 2
           start == IF OpAt(prog, o) = "LOOP" THEN o + 2 ELSE 0
           label == IF OpAt(prog, o) = "LABEL" THEN Code[prog][o].arg ELSE NoLabel
           r == Opened(InsAt(o), o)
<1>1. PICK x : x = (OpAt(prog, o) = "TRY")
  OBVIOUS
<1>2. r = Placed(prog, o, OpAt(prog, o) = "TRY", Len(stack))
  BY DEF Opened, Placed, OpAt, ToAt, InsAt
<1>3. r = Placed(prog, o, x, Len(stack))
  <2> HIDE DEF r
  <2> QED
    BY <1>1, <1>2
<1>4. ASSUME NEW a, NEW b
      PROVE  Placed(prog, o, a, b)
               = [kind |-> kind, armed |-> a, fin |-> fin, pc |-> at, start |-> start,
                  label |-> label, base |-> b]
  BY DEF Placed
<1> HIDE DEF r, kind, fin, at, start, label
<1>5. r = [kind |-> kind, armed |-> x, fin |-> fin, pc |-> at, start |-> start,
           label |-> label, base |-> Len(stack)]
  BY <1>3, <1>4
<1>6. [r EXCEPT !.armed = armed, !.base = base]
        = [kind |-> kind, armed |-> armed, fin |-> fin, pc |-> at, start |-> start,
           label |-> label, base |-> base]
  <2> DEFINE u == [r EXCEPT !.armed = armed, !.base = base]
             R(t, z) == [kind : {kind}, armed : {t}, fin : {fin}, pc : {at}, start : {start},
                         label : {label}, base : {z}]
  <2>1. r \in R(x, Len(stack))
    BY <1>5
  <2>2. u \in R(armed, base)
    BY <2>1
  <2> HIDE DEF u
  <2>3. u = [kind |-> u.kind, armed |-> u.armed, fin |-> u.fin, pc |-> u.pc,
             start |-> u.start, label |-> u.label, base |-> u.base]
    BY <2>2
  <2>4. u.kind = kind /\ u.armed = armed /\ u.fin = fin /\ u.pc = at /\ u.start = start
        /\ u.label = label /\ u.base = base
    BY <2>2
  <2> QED
    BY <2>3, <2>4 DEF u
<1>7. [r EXCEPT !.armed = armed, !.base = base] = Placed(prog, o, armed, base)
  BY <1>4, <1>6
<1> QED
  BY <1>7 DEF r

LEMMA LInvStacks == LInv => StacksMatchCode
<1> SUFFICES ASSUME LInv, Dispatching
             PROVE  /\ ScopesMatchCode
                    /\ InsAt(pc).op \in StatementOps => Len(stack) = Frame.stackBase
  BY DEF StacksMatchCode, ScopesMatchCode, OperandsBalanced
<1>1. Inside /\ prog \in Progs /\ pc \in DOMAIN Code[prog]
  BY DispatchingInside, InsideFacts DEF Inside
<1>2. ScopePath(prog, pc) = Path(prog, pc)
  BY <1>1 DEF Path
<1>3. InsAt(pc).op \in StatementOps => Len(stack) = Frame.stackBase
  <2>1. OpAt(prog, pc) \in StatementOps => OpAt(prog, pc) \notin TakesOne \cup {"JMP"}
    BY DEF StatementOps, Openers, TakesOne
  <2> QED
    BY <2>1, DispatchingInside
<1>4. Len(scopes) = Frame.scopeBase + Len(Path(prog, pc))
  BY <1>1, InsideFacts
<1>5. ASSUME NEW k \in DOMAIN Path(prog, pc)
      PROVE  LET s == scopes[Frame.scopeBase + k]
                 o == Path(prog, pc)[k]
             IN  /\ s = [Opened(InsAt(o), o) EXCEPT
                           !.armed = s.armed, !.base = Frame.stackBase]
                 /\ s.kind = "try" /\ InsAt(pc).op # "BLOCK_END" =>
                      (s.armed <=> pc < InsAt(o + 2).to /\ pc # o + 2)
  <2> DEFINE s == scopes[Frame.scopeBase + k]
             o == Path(prog, pc)[k]
  <2>1. k \in 1 .. Len(Path(prog, pc))
    BY <1>1, PathAt
  <2>2. /\ OpAt(prog, o) \in Openers
        /\ s = Placed(prog, o, s.armed, Frame.stackBase)
        /\ OpAt(prog, o) = "TRY" /\ ~Closing(prog, pc, k) => (s.armed <=> Guards(prog, o, pc))
    BY <1>1, <2>1, ScopeAt
  <2>3. s.kind = "try" => OpAt(prog, o) = "TRY"
    BY <1>1, <2>1, ScopeFields
  <2>4. s = [Opened(InsAt(o), o) EXCEPT !.armed = s.armed, !.base = Frame.stackBase]
    <3>1. PICK x : x = s.armed
      OBVIOUS
    <3>2. s = Placed(prog, o, x, Frame.stackBase) /\ OpAt(prog, o) \in Openers
      BY <2>2, <3>1
    <3> HIDE DEF o
    <3>3. [Opened(InsAt(o), o) EXCEPT !.armed = x, !.base = Frame.stackBase]
            = Placed(prog, o, x, Frame.stackBase)
      BY <3>2, OpenedPlaced
    <3> HIDE DEF s
    <3> QED
      BY <3>1, <3>2, <3>3
  <2>5. ASSUME s.kind = "try", InsAt(pc).op # "BLOCK_END"
        PROVE  s.armed <=> pc < InsAt(o + 2).to /\ pc # o + 2
    <3>1. ~Closing(prog, pc, k)
      BY <2>5 DEF Closing, OpAt, InsAt
    <3>2. Guards(prog, o, pc) <=> pc < InsAt(o + 2).to /\ pc # o + 2
      BY <2>3, <2>5 DEF Guards, ToAt, InsAt
    <3> QED
      BY <2>2, <2>3, <2>5, <3>1, <3>2
  <2> QED
    BY <2>4, <2>5
<1>6. ScopesMatchCode
  BY <1>2, <1>4, <1>5 DEF ScopesMatchCode, OpenScopesAre
<1> QED
  BY <1>3, <1>6

\* For every program laid out as the compiler lays it out, every tape and
\* every depth limit: whatever break, continue, return, throw, finally or call
\* brought control to an instruction, the scopes open there are those around it
\* in the code, a try is armed just where it guards, and at a statement nothing
\* is left on the value stack.
THEOREM StacksMatchEverywhere == Spec /\ LaidClear => []StacksMatchCode
<1> QED
  BY InitLInv, NextLInv, LInvStacks, PTL DEF Spec

----------------------------------------------------------------------------
(* No transfer is lost on its way. *)

LEMMA ParkedInside == LInv => ParkedInItsFinally
<1> SUFFICES ASSUME LInv, Dispatching, pend.op # "NONE"
             PROVE  InFinally(pend.for, pc)
  BY DEF ParkedInItsFinally
<1>1. Waits(prog, pend, pc)
  BY DispatchingInside, InsideFacts
<1> QED
  BY <1>1 DEF Waits, InFinally

\* What a step inside a run leaves to the runs below it.
UntouchedBelow ==
  /\ Len(scopes') >= Frame.scopeBase - 1
  /\ \A i \in 1 .. Frame.scopeBase - 1 : scopes'[i] = scopes[i]
  /\ Len(stack') >= Frame.stackBase - 1 - (IF Frame.via = "native" THEN 1 ELSE 0)

LEMMA StaysAbove ==
  ASSUME LInv, Inside, Stays
  PROVE  UntouchedBelow
<1>1. /\ Frame.scopeBase \in Nat /\ Frame.stackBase \in Nat /\ prog \in Progs
      /\ Frame = frames[Len(frames)]
  BY InsideFacts
<1>2. /\ \A k \in 1 .. Frame.scopeBase : scopes'[k] = scopes[k]
      /\ pc' \in DOMAIN Code[prog]
      /\ Len(scopes') = Frame.scopeBase + Len(Path(prog, pc'))
  BY <1>1 DEF Stays, Runs
<1>3. Len(Path(prog, pc')) \in Nat
  BY <1>1, <1>2, PathAt
<1>4. Len(stack') >= Frame.stackBase
  <2>1. Height(prog, pc') \in Nat
    BY DEF Height
  <2>2. CASE abort'
    BY <2>2 DEF Stays
  <2>3. CASE ~abort'
    <3>1. Len(stack') = Frame.stackBase + Height(prog, pc')
      BY <2>3 DEF Stays
    <3> QED
      BY <1>1, <2>1, <3>1
  <2> QED
    BY <2>2, <2>3
<1>5. Len(stack') >= Frame.stackBase - 1 - (IF Frame.via = "native" THEN 1 ELSE 0)
  <2>1. ASSUME NEW x, x = Len(stack'), x >= Frame.stackBase
        PROVE  x >= Frame.stackBase - 1 - (IF Frame.via = "native" THEN 1 ELSE 0)
    BY <1>1, <2>1
  <2> QED
    BY <1>4, <2>1
<1>6. \A k \in 1 .. Frame.scopeBase - 1 : k \in 1 .. Frame.scopeBase
  BY <1>1
<1>7. Len(scopes') >= Frame.scopeBase - 1
  BY <1>1, <1>2, <1>3
<1> QED
  BY <1>2, <1>5, <1>6, <1>7 DEF UntouchedBelow

LEMMA QuitsAbove ==
  ASSUME LInv, Inside, Quits, Len(frames) > 1
  PROVE  UntouchedBelow
<1>1. Frame.scopeBase \in Nat /\ Frame.stackBase \in Nat
  BY InsideFacts
<1>2. /\ \A k \in 1 .. Frame.scopeBase - 1 : scopes'[k] = scopes[k]
      /\ Len(scopes') = Frame.scopeBase - 1 \/ Len(scopes') >= Frame.scopeBase
      /\ Len(stack') >= Frame.stackBase
  BY DEF Quits
<1>3. Len(scopes') >= Frame.scopeBase - 1
  BY <1>1, <1>2
<1>4. Len(stack') >= Frame.stackBase - 1 - (IF Frame.via = "native" THEN 1 ELSE 0)
  BY <1>1, <1>2
<1> QED
  BY <1>2, <1>3, <1>4 DEF UntouchedBelow

LEMMA OneIsNotMore ==
  ASSUME LInv, Len(frames) > 1
  PROVE  Len(frames) # 1
<1>1. PICK n \in Nat : n = Len(frames)
  BY FrameNumbers DEF LInv, IInv, TypeOK
<1>2. n > 1
  BY <1>1
<1>3. n # 1
  BY <1>2
<1> QED
  BY <1>1, <1>3

LEMMA CallersKept ==
  ASSUME LInv, Step, Len(frames) > 1, pc' # EndPc
  PROVE  UntouchedBelow
<1>0. Len(frames) # 1
  BY OneIsNotMore
<1>1. CASE Nil \/ Cond \/ Push \/ Show \/ Catch
  BY <1>1, ValuesStay, DispatchingInside, StaysAbove
<1>2. CASE Jmp \/ JmpBack \/ JmpUnless
  BY <1>2, JumpsStay, DispatchingInside, StaysAbove
<1>3. CASE Block
  BY <1>3, BlockStays, DispatchingInside, StaysAbove
<1>4. CASE BlockEnd
  BY <1>4, BlockEndStays, DispatchingInside, StaysAbove
<1>5. CASE Break \/ Continue
  BY <1>5, JumpOutStays, DispatchingInside, StaysAbove
<1>6. CASE Return
  BY <1>6, ReturnStep, DispatchingInside, StaysAbove, QuitsAbove
<1>7. CASE FinallyEnd
  BY <1>7, FinallyEndLeaves, DispatchingInside, StaysAbove, QuitsAbove
<1>8. CASE Throw \/ VmThrow \/ NativeThrow
  BY <1>8, ThrowsStay, DispatchingInside, StaysAbove
<1>9. CASE AbortCatch \/ AbortFinally \/ AbortLeave
  BY <1>9, AbortLeaves, StaysAbove, QuitsAbove
<1>10. CASE Call \/ CallNative
  <2>1. /\ \A k \in 1 .. Frame.scopeBase : scopes'[k] = scopes[k]
        /\ Len(scopes') >= Frame.scopeBase
        /\ Len(stack') >= Frame.stackBase
    BY <1>10, CallsKeep
  <2>2. Frame.scopeBase \in Nat /\ Frame.stackBase \in Nat
    BY <1>10, CallsKeep, DispatchingInside, InsideFacts
  <2>3. \A k \in 1 .. Frame.scopeBase - 1 : k \in 1 .. Frame.scopeBase
    BY <2>2
  <2>4. Len(scopes') >= Frame.scopeBase - 1
    BY <2>1, <2>2
  <2>5. Len(stack') >= Frame.stackBase - 1 - (IF Frame.via = "native" THEN 1 ELSE 0)
    BY <2>1, <2>2
  <2> QED
    BY <2>1, <2>3, <2>4, <2>5 DEF UntouchedBelow
<1>11. CASE RunEnd
  BY <1>11, <1>0, RunEndKeeps
<1>12. CASE CallReturn
  <2>1. /\ Len(scopes') = Frame.scopeBase - 1
        /\ \A k \in 1 .. Frame.scopeBase - 1 : scopes'[k] = scopes[k]
        /\ Len(stack') = Frame.stackBase - (IF Frame.via = "native" THEN 1 ELSE 0)
    BY <1>12, CallReturnKeeps
  <2>2. Frame.scopeBase \in Nat /\ Frame.stackBase \in Nat
    <3>1. PICK n \in Nat : n = Len(frames) /\ n > 1
      BY FrameNumbers DEF LInv, IInv, TypeOK
    <3>2. n \in 1 .. n /\ Frame = frames[n]
      BY <3>1 DEF Frame
    <3> QED
      BY <3>1, <3>2, FrameNumbers DEF LInv, IInv, TypeOK
  <2>3. Len(scopes') >= Frame.scopeBase - 1
    BY <2>1, <2>2
  <2>4. Len(stack') >= Frame.stackBase - 1 - (IF Frame.via = "native" THEN 1 ELSE 0)
    BY <2>1, <2>2
  <2> QED
    BY <2>1, <2>3, <2>4 DEF UntouchedBelow
<1>13. CASE ScriptEnd
  BY <1>13, <1>0 DEF ScriptEnd
<1> QED
  BY <1>1, <1>2, <1>3, <1>4, <1>5, <1>6, <1>7, <1>8, <1>9, <1>10, <1>11, <1>12,
     <1>13 DEF Step

\* A terminated callee's callers, which have lost their scopes, show nothing.
LEMMA ShowsNothing ==
  ASSUME LInv, Step, Len(frames) > 1, scopes = <<>>
  PROVE  log' = log
<1>1. ~Inside
  <2> SUFFICES ASSUME Inside PROVE FALSE
    OBVIOUS
  <2>1. Frame.scopeBase >= 1 /\ Len(scopes) = Frame.scopeBase + Len(Path(prog, pc))
        /\ Frame.scopeBase \in Nat /\ pc \in DOMAIN Code[prog] /\ prog \in Progs
    BY InsideFacts DEF Inside
  <2>2. Len(Path(prog, pc)) \in Nat /\ Len(scopes) = 0
    BY <2>1, PathAt
  <2> QED
    BY <2>1, <2>2
<1>2. ~Show /\ ~Catch
  BY <1>1, ValuesStay, DispatchingInside
<1>3. ~ScriptEnd
  BY OneIsNotMore DEF ScriptEnd
<1> QED
  BY <1>2, <1>3 DEF Step, Nil, Jmp, JmpBack, JmpUnless, Cond, Push, Block,
     BlockEnd, Break, Continue, Return, FinallyEnd, Throw, VmThrow, NativeThrow,
     Call, CallNative, RunEnd, CallReturn, AbortCatch, AbortFinally, AbortLeave

\* A break or continue that keeps clear ends outside the finally body it is in.
LEMMA LandsOutside ==
  ASSUME LInv, Inside, pend.op # "NONE", NEW b \in 1 .. Len(Path(prog, pc)),
         NEW a \in Anchors(prog, Path(prog, pc)[b]),
         \/ /\ OpAt(prog, pc) = "BREAK"
            /\ IsTarget(prog, Path(prog, pc)[b], Code[prog][pc].arg)
         \/ /\ OpAt(prog, pc) = "CONTINUE"
            /\ IsRestarted(prog, Path(prog, pc), b, Code[prog][pc].arg)
  PROVE  ~InFinally(pend.for, a)
<1> DEFINE B == FinallyBodies[prog][pend.for]
           around == Path(prog, pend.for)
           path == Path(prog, pc)
<1>1. /\ prog \in Progs /\ WellLaidOut(prog) /\ KeepsClear(prog)
      /\ pend.for \in DOMAIN FinallyBodies[prog] /\ pc \in B
      /\ pc \in DOMAIN Code[prog]
  BY InsideFacts DEF Waits, Inside
<1>2. /\ pend.for \in DOMAIN Code[prog]
      /\ Len(around) <= Len(path) /\ SubSeq(path, 1, Len(around)) = around
      /\ \A k \in DOMAIN around : Anchors(prog, around[k]) \cap B = {}
  BY <1>1 DEF WellLaidOut, Closed
<1>3. \A k \in Len(around) + 1 .. Len(path) :
        /\ OpAt(prog, pc) = "BREAK" => ~IsTarget(prog, path[k], Code[prog][pc].arg)
        /\ OpAt(prog, pc) = "CONTINUE" => ~IsRestarted(prog, path, k, Code[prog][pc].arg)
  BY <1>1 DEF KeepsClear, FinallyPlain
<1>4. PICK w \in Nat : w = Len(around)
  BY <1>1, <1>2, PathAt
<1>5. PICK width \in Nat : width = Len(path)
  BY <1>1, PathAt
<1>6. b <= w
  <2>1. b \notin w + 1 .. width
    BY <1>3, <1>4, <1>5
  <2>2. b \in 1 .. width
    BY <1>5
  <2> QED
    BY <1>4, <1>5, <2>1, <2>2
<1>7. path[b] = around[b] /\ b \in DOMAIN around
  <2>1. path \in Seq(Nat) /\ DOMAIN around = 1 .. w
    BY <1>1, <1>2, <1>4, PathAt
  <2>2. \A k \in 1 .. w : SubSeq(path, 1, w)[k] = path[k]
    <3>1. w \in Int /\ w <= Len(path)
      BY <1>2, <1>4
    <3> HIDE DEF path
    <3> QED
      BY <2>1, <3>1, PrefixType
  <2>3. b \in 1 .. w
    BY <1>4, <1>6
  <2> QED
    BY <1>2, <1>4, <2>1, <2>2, <2>3
<1> QED
  BY <1>2, <1>7 DEF InFinally

LEMMA DropLeaves ==
  ASSUME LInv, Step, Dispatching, pend.op # "NONE", pend' = NoTransfer,
         Len(frames') = Len(frames), InsAt(pc).op # "FINALLY_END"
  PROVE  ~(leave' = "no" /\ ~abort' /\ InFinally(pend.for, pc'))
<1>1. Inside /\ pend' # pend /\ OpAt(prog, pc) = InsAt(pc).op /\ ~abort
      /\ prog \in Progs /\ KeepsClear(prog) /\ pc \in DOMAIN Code[prog]
  BY DispatchingInside, InsideFacts DEF NoTransfer, Inside
<1>2. CASE Break
  <2>1. OpAt(prog, pc) = "BREAK" /\ DoBreak(Code[prog][pc].arg)
    BY <1>1, <1>2 DEF Break, At, InsAt
  <2>2. BreakLands(prog, Path(prog, pc), Code[prog][pc].arg)
    BY <1>1, <2>1 DEF KeepsClear, JumpsLand
  <2>3. PICK b \in 1 .. Len(Path(prog, pc)) :
          /\ IsTarget(prog, Path(prog, pc)[b], Code[prog][pc].arg)
          /\ \/ \E c \in b + 1 .. Len(Path(prog, pc)) :
                  pend' = Parked("BREAK", NoVal, Code[prog][pc].arg, scopes[Frame.scopeBase + c].fin)
             \/ \E a \in Anchors(prog, Path(prog, pc)[b]) : JumpTo(Frame.scopeBase + b, a)
    BY <1>1, <2>1, <2>2, BreakWalk
  <2>4. PICK a \in Anchors(prog, Path(prog, pc)[b]) : pc' = a
    BY <2>3 DEF JumpTo, Parked, NoTransfer
  <2> QED
    BY <1>1, <2>1, <2>3, <2>4, LandsOutside
<1>3. CASE Continue
  <2>1. OpAt(prog, pc) = "CONTINUE" /\ DoContinue(Code[prog][pc].arg)
    BY <1>1, <1>3 DEF Continue, At, InsAt
  <2>2. ContinueLands(prog, Path(prog, pc), Code[prog][pc].arg)
    BY <1>1, <2>1 DEF KeepsClear, JumpsLand
  <2>3. PICK b \in 1 .. Len(Path(prog, pc)), l \in 1 .. Len(Path(prog, pc)) :
          /\ IsRestarted(prog, Path(prog, pc), l, Code[prog][pc].arg)
          /\ \/ \E c \in b + 1 .. Len(Path(prog, pc)) :
                  pend' = Parked("CONTINUE", NoVal, Code[prog][pc].arg, scopes[Frame.scopeBase + c].fin)
             \/ \E a \in Anchors(prog, Path(prog, pc)[l]) : JumpTo(Frame.scopeBase + l, a)
    <3>1. \A b \in 1 .. Len(Path(prog, pc)) : \A l \in b .. Len(Path(prog, pc)) :
            l \in 1 .. Len(Path(prog, pc))
      <4>1. Len(Path(prog, pc)) \in Nat
        BY <1>1, PathAt
      <4> QED
        BY <4>1
    <3> QED
      BY <1>1, <2>1, <2>2, <3>1, ContinueWalk
  <2>4. PICK a \in Anchors(prog, Path(prog, pc)[l]) : pc' = a
    BY <2>3 DEF JumpTo, Parked, NoTransfer
  <2> QED
    BY <1>1, <2>1, <2>3, <2>4, LandsOutside
<1>4. CASE Return
  BY <1>1, <1>4, ReturnStep
<1>5. CASE Throw \/ VmThrow \/ NativeThrow
  BY <1>1, <1>5, ThrowsStay
<1>6. CASE Call \/ CallNative
  <2>1. CASE TooDeep
    BY <1>1, <2>1 DEF TooDeep
  <2>2. CASE ~TooDeep
    <3>1. PICK K, via : Enter(InsAt(pc).to, K, via)
      BY <1>6, <2>2 DEF Call, CallNative
    <3>2. PICK n \in Nat : n = Len(frames)
      BY <1>1, InsideFacts
    <3>3. Len(frames') = n + 1
      <4>1. PICK fr : frames' = Append(frames, fr)
        BY <3>1 DEF Enter
      <4>2. Len(Append(frames, fr)) = Len(frames) + 1
        BY <1>1, InsideFacts
      <4> QED
        BY <3>2, <4>1, <4>2
    <3> QED
      BY <3>2, <3>3
  <2> QED
    BY <2>1, <2>2
<1>7. ~FinallyEnd
  BY DEF FinallyEnd, At
<1>8. ~CallReturn /\ ~ScriptEnd /\ ~AbortCatch /\ ~AbortFinally /\ ~AbortLeave
  BY DEF Dispatching, CallReturn, ScriptEnd, AbortCatch, AbortFinally, AbortLeave, Aborting
<1>9. ~Nil /\ ~Cond /\ ~Push /\ ~Show /\ ~Catch /\ ~Jmp /\ ~JmpBack /\ ~JmpUnless
      /\ ~Block /\ ~BlockEnd /\ ~RunEnd
  BY <1>1 DEF Nil, Cond, Push, Show, Catch, Jmp, JmpBack, JmpUnless, Block, BlockEnd, RunEnd
<1> QED
  BY <1>2, <1>3, <1>4, <1>5, <1>6, <1>7, <1>8, <1>9 DEF Step

\* Nothing above a handler that is entered owns a finally.
LEMMA HandlerNearest ==
  ASSUME LInv, Inside, InRangeTry(scopes, Frame.scopeBase) # 0,
         scopes' = EnterTry(scopes, InRangeTry(scopes, Frame.scopeBase))
  PROVE  \A i \in DOMAIN scopes \ DOMAIN scopes' : scopes[i].fin = 0
<1>1. /\ prog \in Progs /\ pc \in DOMAIN Code[prog] /\ FinallyUncaught(prog)
      /\ scopes \in Seq(Scope) /\ DOMAIN scopes = 1 .. Len(scopes)
      /\ Len(scopes) = Frame.scopeBase + Len(Path(prog, pc)) /\ Frame.scopeBase \in Nat
  BY InsideFacts DEF Inside, KeepsClear
<1>2. PICK b \in 1 .. Len(Path(prog, pc)) :
        /\ InRangeTry(scopes, Frame.scopeBase) = Frame.scopeBase + b
        /\ OpAt(prog, Path(prog, pc)[b]) = "TRY"
        /\ scopes[Frame.scopeBase + b].armed
  BY HandlerFound
<1>3. PICK width \in Nat : width = Len(Path(prog, pc)) /\ DOMAIN Path(prog, pc) = 1 .. width
  BY <1>1, PathAt
<1>4. PICK t \in Nat : t = Frame.scopeBase + b /\ t \in 1 .. Len(scopes)
  BY <1>1, <1>3
<1>5. Len(scopes') = t /\ DOMAIN scopes' = 1 .. t
  <2>1. scopes' = EnterTry(scopes, t)
    BY <1>2, <1>4
  <2>2. EnterTry(scopes, t) \in Seq(Scope) /\ Len(EnterTry(scopes, t)) = t
    BY <1>1, <1>4, EnterTryType, EnterTryFacts
  <2> QED
    BY <2>1, <2>2, LenProperties
<1>6. ASSUME NEW k \in 1 .. width, k > b
      PROVE  scopes[Frame.scopeBase + k].fin = 0
  <2>1. k \in 1 .. Len(Path(prog, pc)) /\ b \in 1 .. k - 1 /\ b # width
    BY <1>3, <1>6
  <2>2. ~Closing(prog, pc, b)
    BY <1>3, <2>1 DEF Closing
  <2>3. Guards(prog, Path(prog, pc)[b], pc)
    BY <1>2, <2>2, ScopeAt
  <2>4. ~OwnsFinally(Code[prog][Path(prog, pc)[k]])
    BY <1>1, <1>3, <2>1, <2>3 DEF FinallyUncaught
  <2> QED
    BY <2>1, <2>4, ScopeFields
<1>7. ASSUME NEW i \in DOMAIN scopes \ DOMAIN scopes'
      PROVE  scopes[i].fin = 0
  <2>1. i \in 1 .. Len(scopes) /\ i > t
    <3>1. i \in 1 .. Len(scopes) /\ i \notin 1 .. t
      BY <1>1, <1>5, <1>7
    <3> QED
      BY <1>4, <3>1
  <2>2. i > Frame.scopeBase
    BY <1>1, <1>4, <2>1
  <2>3. PICK k \in 1 .. Len(Path(prog, pc)) : i = Frame.scopeBase + k
    BY <2>1, <2>2, PlaceOf
  <2>4. k > b
    BY <1>1, <1>3, <1>4, <2>1, <2>3
  <2>5. k \in 1 .. width
    BY <1>3
  <2> QED
    BY <1>6, <2>3, <2>4, <2>5
<1> QED
  BY <1>7

LEMMA DeliversThroughFinally ==
  ASSUME LInv, Step,
         Aborting \/ (Dispatching /\ InsAt(pc).op \in {"THROW", "VM_THROW", "NATIVE_THROW"}),
         NEW i \in DOMAIN scopes \ DOMAIN scopes', scopes[i].fin # 0
  PROVE  pc' = scopes[i].fin
<1>1. Inside /\ scopes \in Seq(Scope) /\ DOMAIN scopes = 1 .. Len(scopes)
      /\ Len(scopes) \in Nat /\ Frame.scopeBase \in Nat
  BY DispatchingInside, InsideFacts DEF Aborting, Inside
<1>2. CASE Throw \/ VmThrow \/ NativeThrow
  <2>1. InRangeTry(scopes, Frame.scopeBase) # 0
    BY <1>2, ThrowsStay
  <2>2. scopes' = EnterTry(scopes, InRangeTry(scopes, Frame.scopeBase))
    BY <1>2, <2>1, ThrowsStay
  <2> QED
    BY <1>1, <2>1, <2>2, HandlerNearest
<1>3. CASE AbortCatch
  BY <1>1, <1>3, HandlerNearest DEF AbortCatch
<1>4. CASE AbortFinally
  <2>1. PICK f : /\ f = InRangeFinally(scopes, Frame.scopeBase) /\ f # 0
                 /\ scopes' = SubSeq(scopes, 1, f - 1) /\ pc' = scopes[f].fin
    BY <1>4 DEF AbortFinally, RunFinally
  <2>2. PICK c \in 1 .. Len(Path(prog, pc)) :
          /\ f = Frame.scopeBase + c
          /\ \A k \in Frame.scopeBase + c + 1 .. Len(scopes) : scopes[k].fin = 0
    BY <1>1, <2>1, FinallyFound
  <2>3. f \in 1 .. Len(scopes)
    BY <1>1, <2>2, ScopeAt
  <2>4. DOMAIN scopes' = 1 .. f - 1
    <3>1. PICK m \in Int : m = f - 1 /\ m <= Len(scopes) /\ m >= 0
      BY <1>1, <2>3
    <3>2. SubSeq(scopes, 1, m) \in Seq(Scope) /\ Len(SubSeq(scopes, 1, m)) = m
      BY <1>1, <3>1, PrefixType
    <3>3. DOMAIN SubSeq(scopes, 1, m) = 1 .. m
      BY <3>2, LenProperties
    <3> QED
      BY <2>1, <3>1, <3>3
  <2>5. i \in 1 .. Len(scopes) /\ i \notin 1 .. f - 1
    BY <1>1, <2>4
  <2>6. i = f \/ i \in f + 1 .. Len(scopes)
    BY <1>1, <2>3, <2>5
  <2> QED
    BY <2>1, <2>2, <2>6
<1>5. CASE AbortLeave
  <2>1. InRangeFinally(scopes, Frame.scopeBase) = 0 /\ scopes' = Down(scopes, Frame.scopeBase)
    BY <1>5 DEF AbortLeave
  <2> DEFINE X == {k \in DOMAIN scopes : k > Frame.scopeBase /\ scopes[k].fin # 0}
  <2>2. X = {}
    <3>1. X \in SUBSET (1 .. Len(scopes)) /\ Innermost(X) = 0
      BY <1>1, <2>1 DEF InRangeFinally
    <3>2. X # {} => Innermost(X) \in X
      <4> HIDE DEF X
      <4> QED
        BY <1>1, <3>1, InnermostProperties
    <3>3. 0 \notin X
      BY <1>1
    <3> QED
      BY <3>1, <3>2, <3>3
  <2>3. i \in DOMAIN scopes /\ ~(i > Frame.scopeBase)
    BY <2>2
  <2>4. i \in 1 .. Len(scopes') /\ DOMAIN scopes' = 1 .. Len(scopes')
    <3>1. Down(scopes, Frame.scopeBase) \in Seq(Scope)
          /\ Len(Down(scopes, Frame.scopeBase))
               = IF Len(scopes) <= Frame.scopeBase THEN Len(scopes) ELSE Frame.scopeBase
      BY <1>1, DownFacts
    <3>2. DOMAIN scopes' = 1 .. Len(scopes')
      BY <2>1, <3>1, LenProperties
    <3>3. i \in 1 .. Len(scopes) /\ i <= Frame.scopeBase
      BY <1>1, <2>3
    <3>4. i <= Len(scopes') /\ Len(scopes') \in Nat
      BY <1>1, <2>1, <3>1, <3>3
    <3> QED
      BY <3>2, <3>3, <3>4
  <2> QED
    BY <2>4
<1>6. CASE Aborting
  BY <1>3, <1>4, <1>5, <1>6 DEF Aborting, Step, At, Dispatching, Nil, Jmp, JmpBack, JmpUnless, Cond,
     Push, Show, Block, BlockEnd, Break, Continue, Return, FinallyEnd, Throw, VmThrow, NativeThrow,
     Catch, Call, CallNative, RunEnd, CallReturn, ScriptEnd
<1>7. CASE Dispatching /\ InsAt(pc).op \in {"THROW", "VM_THROW", "NATIVE_THROW"}
  BY <1>2, <1>7 DEF Aborting, Step, At, Dispatching, Nil, Jmp, JmpBack, JmpUnless, Cond,
     Push, Show, Block, BlockEnd, Break, Continue, Return, FinallyEnd,
     Catch, Call, CallNative, RunEnd, CallReturn, ScriptEnd, AbortCatch, AbortFinally, AbortLeave
<1> QED
  BY <1>6, <1>7

\* For the same programs: a parked transfer waits only in its own finally body
\* and is given up only by what leaves that body, an error runs every finally
\* of the scopes it discards, no run touches the stacks of those below it but by
\* terminating the script, and a terminated script shows nothing more.
THEOREM TransfersKeptEverywhere == Spec /\ LaidClear => TransfersKept
<1> DEFINE Drops ==
             Dispatching /\ pend.op # "NONE" /\ pend' = NoTransfer
               /\ Len(frames') = Len(frames) /\ InsAt(pc).op # "FINALLY_END" =>
             ~(leave' = "no" /\ ~abort' /\ InFinally(pend.for, pc'))
           Delivers ==
             Aborting \/ (Dispatching /\ InsAt(pc).op \in {"THROW", "VM_THROW", "NATIVE_THROW"}) =>
               \A i \in DOMAIN scopes \ DOMAIN scopes' :
                 scopes[i].fin # 0 => pc' = scopes[i].fin
           Untouched ==
             Len(frames) > 1 /\ pc' # EndPc =>
               /\ Len(scopes') >= Frame.scopeBase - 1
               /\ \A i \in 1 .. Frame.scopeBase - 1 : scopes'[i] = scopes[i]
               /\ Len(stack') >= Frame.stackBase - 1 - (IF Frame.via = "native" THEN 1 ELSE 0)
           Silent == Len(frames) > 1 /\ scopes = <<>> => log' = log
<1>1. ASSUME LInv, [Next]_vars
      PROVE  [Drops]_vars /\ [Delivers]_vars /\ [Untouched]_vars /\ [Silent]_vars
  <2>1. CASE Step
    <3>1. Drops
      BY <1>1, <2>1, DropLeaves
    <3>2. Delivers
      BY <1>1, <2>1, DeliversThroughFinally
    <3>3. Untouched
      BY <1>1, <2>1, CallersKept DEF UntouchedBelow
    <3>4. Silent
      BY <1>1, <2>1, ShowsNothing
    <3> QED
      BY <3>1, <3>2, <3>3, <3>4
  <2>2. CASE UNCHANGED vars \/ Halted
    BY <2>2 DEF Halted
  <2> QED
    BY <1>1, <2>1, <2>2 DEF Next
<1>2. LInv /\ [Next]_vars => [Drops]_vars /\ [Delivers]_vars /\ [Untouched]_vars /\ [Silent]_vars
  BY <1>1
<1> QED
  BY <1>2, InitLInv, NextLInv, ParkedInside, PTL DEF Spec, TransfersKept,
     DroppedOnlyByLeaving, ThrowRunsFinally, CallersUntouched, TerminatedStops
=============================================================================
