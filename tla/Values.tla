------------------------------- MODULE Values -------------------------------
(***************************************************************************)
(* A script that computes with values: with BigInts, with one buffer of    *)
(* bytes through views of several element types at once, with strings, or  *)
(* with a RegExp and the texts it is matched against.                      *)
(***************************************************************************)
EXTENDS BigInts, SequencesExt

CONSTANTS
    Alphabet, Newline, Shorthands, WideChars, Wide(_), Lower(_), MaxGroups, MaxRep, MaxDepth,
    MaxLoopDepth, LbScan, MaxSteps, MaxBt,        \* see RegExps
    LeadLength(_), Order(_), Spaces, Lowered(_), Raised(_), Blank,        \* see Strings
    ByteBits, Absent, NoCallback,       \* see ByteViews
    Worlds,          \* what a run looks at: "bigint", "bytes", "string", "regexp"
    Operands,        \* the second operands of BigInt operators, integers
    Places,          \* where a BigInt is that is stepped: "accessor", "proxy", "variable"
    Widths,          \* the widths of asIntN and asUintN
    Radices,         \* radices of text
    Doubles,         \* halves of them are compared with
    Limit,           \* results beyond it are not computed with further
    PowLimit,        \* bound on the base and the exponent of **
    BufferBytes,     \* the length of the buffer
    Calls(_),        \* the calls a script makes on a buffer with these bytes
    StringCalls(_),  \* the calls it makes on a string with these characters
    MaxText,         \* bound on the length of a string
    Patterns,        \* the patterns of RegExps, with their flags, texts and methods
    Misspelt,        \* texts that are no pattern
    Indices          \* what a script sets lastIndex to

V == INSTANCE ByteViews
M == INSTANCE NumericMeaning
S == INSTANCE Strings
SM == INSTANCE StringMeaning
R == INSTANCE RegExps
PM == INSTANCE PatternMeaning

VARIABLES world,
    acc,      \* a BigInt: the result of the operators so far
    exact,    \* the integer it should be
    buf,      \* the bytes of the buffer
    text,     \* the characters of the string
    re,       \* the RegExp: its text, its flags and its lastIndex
    pat       \* the pattern its text was written for

vars == <<world, acc, exact, buf, text, re, pat>>

NoPattern == [n |-> PM!Seq_(<<>>), flags |-> {}, subjects |-> {}, methods |-> {}]

Init ==
    /\ world \in Worlds
    /\ acc = FromInt64(0) /\ exact = 0
    /\ buf = [b \in 0 .. BufferBytes - 1 |-> 0]
    /\ text = <<>>
    /\ IF world = "regexp" THEN pat \in Patterns ELSE pat = NoPattern
    /\ re = [source |-> PM!Printed(pat.n), flags |-> pat.flags, lastIndex |-> 0]

\* The literal of an integer of up to three digits.
Decimal(n) == <<n \div 100, (n \div 10) % 10, n % 10>>
Literal(n) == FromString(IF n < 0 THEN -1 ELSE 1, 10, Decimal(Abs(n)))

\* The operators throw instead of giving a result; the script stops then.
GoesOn == world = "bigint" /\ acc # Raises /\ exact \in -Limit .. Limit

Becomes(result, integer) ==
    /\ acc' = result /\ exact' = integer
    /\ UNCHANGED <<world, buf, text, re, pat>>

Binary(op, n) ==
    /\ GoesOn
    /\ op = "**" => exact \in -PowLimit .. PowLimit /\ n <= PowLimit
    /\ op \in {"<<", ">>"} => n < 2 ^ LimbBits
    /\ Becomes(MathOp(op, acc, Literal(n)), M!Integer(op, exact, n))

Unary(op) ==
    /\ GoesOn
    /\ Becomes(UnaryOp(op, acc), M!Integer(op, exact, 0))

Step(op, place) ==
    /\ GoesOn
    /\ Becomes(Stepped(op, acc, place), M!Integer(op, exact, 0))

AsN(bits) ==
    /\ GoesOn
    /\ \/ Becomes(AsIntN(bits, acc), M!Integer("asIntN", exact, bits))
       \/ Becomes(AsUintN(bits, acc), M!Integer("asUintN", exact, bits))

\* One call on the buffer.
Call(o) ==
    /\ world = "bytes"
    /\ buf' = V!Runs(buf, o).buf
    /\ UNCHANGED <<world, acc, exact, text, re, pat>>

\* One call on the string, the answer becomes the string.
Encoded(s) == FlattenSeq([i \in DOMAIN s |-> Wide(s[i])])
AsBytes(o) == [o EXCEPT !.t = Encoded(@), !.u = Encoded(@)]
StringCall(o) ==
    /\ world = "string" /\ o.gives = "string"
    /\ Len(SM!Means(text, o)) <= MaxText
    /\ text' = SM!Means(text, o)
    /\ UNCHANGED <<world, acc, exact, buf, re, pat>>

Program == R!Compile(re.source, re.flags)

\* test and exec, and an assignment to lastIndex.
Exec(s) ==
    /\ world = "regexp"
    /\ re' = [re EXCEPT !.lastIndex = R!RegExpRun(Program, s, re.lastIndex).last]
    /\ UNCHANGED <<world, acc, exact, buf, text, pat>>
SetLastIndex(k) ==
    /\ world = "regexp" /\ re.flags \cap {"g", "y"} # {}
    /\ re' = [re EXCEPT !.lastIndex = k]
    /\ UNCHANGED <<world, acc, exact, buf, text, pat>>

Next ==
    \/ \E op \in {"+", "-", "*", "/", "%", "**", "&", "|", "^", "<<", ">>", ">>>"}, n \in Operands : Binary(op, n)
    \/ \E op \in {"-x", "~x", "+x"} : Unary(op)
    \/ \E op \in {"++", "--"}, place \in Places : Step(op, place)
    \/ \E bits \in Widths : AsN(bits)
    \/ \E o \in Calls(buf) : Call(o)
    \/ \E o \in StringCalls(text) : StringCall(o)
    \/ \E s \in pat.subjects : Exec(s)
    \/ \E k \in Indices : SetLastIndex(k)

Spec == Init /\ [][Next]_vars

(***************************************************************************)
(* Properties.                                                             *)
(***************************************************************************)
Denoted(x) ==
    LET v[i \in 0 .. Len(x.limbs)] == IF i = 0 THEN 0 ELSE v[i - 1] + x.limbs[i] * Base ^ (i - 1)
    IN  x.sign * v[Len(x.limbs)]

Canonical(x) ==
    /\ \A i \in DOMAIN x.limbs : x.limbs[i] \in 0 .. Base - 1
    /\ IF x.limbs = <<>> THEN x.sign = 0 ELSE x.sign \in {-1, 1} /\ x.limbs[Len(x.limbs)] # 0

Sign(n) == IF n < 0 THEN -1 ELSE IF n > 0 THEN 1 ELSE 0

\* Text and back: the digits in every radix, with an underscore allowed.
TextExact(r) ==
    LET d == ToDigits(acc, r)
    IN  /\ M!Value(d, r) = Abs(exact) /\ (Len(d) > 1 => d[1] # 0)
        /\ FromText(acc.sign, r, d) = acc
        /\ Len(d) > 1 => FromText(acc.sign, r, <<d[1], r>> \o Tail(d)) = acc
        /\ FromText(acc.sign, r, Append(d, r)) = Raises

\* Against numbers: exact within the int64 range, never the wrong way round
\* beyond it.
DoublesExact ==
    \A h \in Doubles :
        LET c == CmpDouble(acc, h)
        IN  IF h % 2 = 0 /\ Abs(h) < 2 * Int64 THEN c = Sign(2 * exact - h)
            ELSE c \in {0, Sign(2 * exact - h)}

\* Whatever has been computed, the limbs are the canonical form of the exact
\* integer: operators, comparisons, text, int64 and doubles agree with it.
BigIntsAreExact ==
    world = "bigint" =>
        IF acc = Raises \/ exact = Raises THEN acc = exact
        ELSE /\ Denoted(acc) = exact /\ Canonical(acc)
             /\ exact \in -Limit .. Limit =>
                  /\ \A n \in Operands : Cmp(acc, Literal(n)) = Sign(exact - n)
                  /\ \A r \in Radices : TextExact(r)
                  /\ DoublesExact
                  /\ (ToInt64(acc) - exact) % (2 * Int64) = 0
                  /\ \A e \in 0 .. LimbBits : Abs(exact) < 2 ^ Precision =>
                        Denoted(FromDouble(exact, e)) = exact * 2 ^ e

\* Every method of every view changes exactly the elements the language says,
\* to the values it says, whatever the bytes are and however views overlap;
\* and gives the answer it says.
ViewsMeanWhatTheySay ==
    world = "bytes" => \A o \in Calls(buf) : V!Runs(buf, o) = M!Means(buf, o)

\* An answer, with the characters as their bytes.
Answered(o, means) ==
    CASE o.gives \in {"string", "character"} -> Encoded(means)
      [] o.gives = "list" -> [i \in DOMAIN means |-> Encoded(means[i])]
      [] OTHER -> means
StringsMeanWhatTheySay ==
    world = "string" =>
        \A o \in StringCalls(text) : S!Runs(Encoded(text), AsBytes(o)) = Answered(o, SM!Means(text, o))

MethodAgrees(p, s, o) ==
    LET n == pat.n
        f == pat.flags
    IN  CASE o.m = "match" -> R!MatchMethod(p, s) = PM!MatchOf(n, f, s)
          [] o.m = "matchAll" -> R!MatchAll(p, s) = PM!MatchAllOf(n, f, s)
          [] o.m = "search" -> R!Search(p, s) = PM!SearchOf(n, f, s)
          [] o.m = "replace" -> R!ReplaceMethod(p, s, [fn |-> o.fn, t |-> FlattenSeq([i \in DOMAIN o.parts |-> PM!PartPrinted(o.parts[i])])])
                                  = PM!ReplaceOf(n, f, s, o)
          [] o.m = "split" -> R!SplitMethod(p, s, o.limit) = PM!SplitOf(n, f, s, o.limit)
Matching(p) ==
    /\ p.ok
    /\ \A s \in pat.subjects :
          /\ R!RegExpRun(p, s, re.lastIndex) = PM!Exec(pat.n, pat.flags, s, re.lastIndex)
          /\ re.lastIndex = 0 => \A o \in pat.methods : MethodAgrees(p, s, o)
PatternsMatchAsWritten ==
    world = "regexp" => Matching(Program) /\ \A t \in Misspelt : ~ R!Compile(t, {}).ok

\* Every method of a string gives what it means for the characters, whether it
\* counts bytes or decodes them.  A pattern written as a text, read back,
\* compiled and run finds what the pattern means: the first match in the order
\* of its choices, with its groups, from lastIndex on; and so does every method
\* that takes a RegExp (re_compile, re_match, str_re_replace, str_re_split).
TextsMeanWhatTheySay == StringsMeanWhatTheySay /\ PatternsMatchAsWritten
=============================================================================
