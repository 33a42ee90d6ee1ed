------------------------------ MODULE BigInts -------------------------------
(***************************************************************************)
(* The arbitrary-precision integers of mario_js (bn_* in mario.c): a sign  *)
(* and a magnitude of limbs, least significant first.  A limb has LimbBits *)
(* bits where the program has 32; an int64 is two limbs, as it is there; a *)
(* double has a significand of Precision bits, 53 in the program.  The     *)
(* loops over limbs are folds that hand a carry from limb to limb; growing *)
(* and freeing the storage is left out.                                    *)
(***************************************************************************)
EXTENDS Integers, Sequences, SequencesExt, Bitwise

CONSTANTS LimbBits, Precision,
          Raises        \* the value of an operation that throws

ASSUME WidthAssumption == LimbBits \in Nat \ {0} /\ Precision \in LimbBits .. 2 * LimbBits

Base  == 2 ^ LimbBits
Int64 == 2 ^ (2 * LimbBits - 1)          \* an int64 is in -Int64 .. Int64 - 1

\* The limb i of x, counted from 0; past the magnitude there are zeros.
Limb(x, i) == IF i < Len(x.limbs) THEN x.limbs[i + 1] ELSE 0

\* Without leading zero limbs.
Normalized(sign, d) ==
    LET len == FoldLeft(LAMBDA n, i : IF d[i] # 0 THEN i ELSE n, 0, [i \in DOMAIN d |-> i])
    IN  [sign |-> IF len = 0 THEN 0 ELSE sign, limbs |-> SubSeq(d, 1, len)]

Zero == [sign |-> 0, limbs |-> <<>>]
WithSign(x, sign) == [x EXCEPT !.sign = IF x.limbs = <<>> THEN 0 ELSE sign]

\* n limbs, the one at i being the low part of Term(i, carry) and its high
\* part the carry of the next; the last carry is kept.  A borrow is the carry
\* -1 (\div and % round towards minus infinity).
Chain(n, carry, Term(_, _)) ==
    FoldLeft(LAMBDA acc, i : LET s == Term(i, acc.carry)
                             IN  [limbs |-> Append(acc.limbs, s % Base), carry |-> s \div Base],
             [limbs |-> <<>>, carry |-> carry], [i \in 1 .. n |-> i - 1])

FromUint64(v) == Normalized(1, <<v % Base, v \div Base>>)
FromInt64(v)  == WithSign(FromUint64(IF v < 0 THEN -v ELSE v), IF v < 0 THEN -1 ELSE 1)

Longer(a, b) == IF Len(a.limbs) > Len(b.limbs) THEN Len(a.limbs) ELSE Len(b.limbs)

\* -1, 0 or 1: by the number of limbs, then from the highest limb down.
CmpAbs(a, b) ==
    IF Len(a.limbs) # Len(b.limbs) THEN IF Len(a.limbs) > Len(b.limbs) THEN 1 ELSE -1
    ELSE FoldLeft(LAMBDA c, i : IF a.limbs[i] = b.limbs[i] THEN c
                                ELSE IF a.limbs[i] > b.limbs[i] THEN 1 ELSE -1,
                  0, [i \in DOMAIN a.limbs |-> i])

Cmp(a, b) ==
    IF a.sign # b.sign THEN IF a.sign > b.sign THEN 1 ELSE -1
    ELSE IF a.sign >= 0 THEN CmpAbs(a, b) * a.sign ELSE -CmpAbs(a, b)

AddAbs(a, b) ==
    LET r == Chain(Longer(a, b), 0, LAMBDA i, c : Limb(a, i) + Limb(b, i) + c)
    IN  Normalized(1, Append(r.limbs, r.carry))

\* |a| - |b|, where |a| >= |b|; also in place, for the remainder of a division.
SubAbs(a, b) ==
    Normalized(1, Chain(Len(a.limbs), 0, LAMBDA i, c : Limb(a, i) - Limb(b, i) + c).limbs)

Neg(a) == WithSign(a, -a.sign)

Add(a, b) ==
    IF a.sign = 0 THEN b ELSE IF b.sign = 0 THEN a
    ELSE IF a.sign = b.sign THEN WithSign(AddAbs(a, b), a.sign)
    ELSE LET c == CmpAbs(a, b)
         IN  IF c = 0 THEN Zero
             ELSE IF c > 0 THEN WithSign(SubAbs(a, b), a.sign) ELSE WithSign(SubAbs(b, a), b.sign)

Sub(a, b) == Add(a, Neg(b))

\* The schoolbook product: a row for each limb of a, added in at its place.
Mul(a, b) ==
    LET n == Len(a.limbs) + Len(b.limbs)
        Row(r, i) == Chain(n, 0, LAMBDA k, c : r[k + 1] + (IF k >= i THEN Limb(a, i) * Limb(b, k - i) ELSE 0) + c).limbs
    IN  IF a.sign = 0 \/ b.sign = 0 THEN Zero
        ELSE Normalized(IF a.sign = b.sign THEN 1 ELSE -1,
                        FoldLeft(Row, [k \in 1 .. n |-> 0], [i \in DOMAIN a.limbs |-> i - 1]))

MulSmall(b, m) ==
    LET r == Chain(Len(b.limbs), 0, LAMBDA i, c : b.limbs[i + 1] * m + c)
    IN  Normalized(b.sign, Append(r.limbs, r.carry))

\* The sign is left alone: a zero has none until the whole number is read.
AddSmall(b, v) ==
    LET r == Chain(Len(b.limbs), v, LAMBDA i, c : b.limbs[i + 1] + c)
    IN  Normalized(1, Append(r.limbs, r.carry))

\* From the highest limb down: the quotient, and the remainder.
DivmodSmall(b, d) ==
    LET n == Len(b.limbs)
        r == FoldLeft(LAMBDA acc, i : LET cur == acc.rem * Base + b.limbs[i]
                                      IN  [q |-> <<cur \div d>> \o acc.q, rem |-> cur % d],
                      [q |-> <<>>, rem |-> 0], [k \in 1 .. n |-> n + 1 - k])
    IN  [quot |-> Normalized(b.sign, r.q), rem |-> r.rem]

BitOf(x, i) == (Limb(x, i \div LimbBits) \div 2 ^ (i % LimbBits)) % 2

Doubled(x, bit) ==
    LET r == Chain(Len(x.limbs), bit, LAMBDA i, c : 2 * x.limbs[i + 1] + c)
    IN  Normalized(1, Append(r.limbs, r.carry))

\* Long division, a bit at a time from the top; the quotient's bits come in
\* the same order.
DivmodAbs(a, b) ==
    LET n == Len(a.limbs) * LimbBits
        Step(acc, bit) ==
            LET rem == Doubled(acc.rem, BitOf(a, bit))
            IN  IF CmpAbs(rem, b) >= 0
                THEN [quot |-> Doubled(acc.quot, 1), rem |-> SubAbs(rem, b)]
                ELSE [quot |-> Doubled(acc.quot, 0), rem |-> rem]
    IN  IF CmpAbs(a, b) < 0 THEN [quot |-> Zero, rem |-> WithSign(a, 1)]
        ELSE FoldLeft(Step, [quot |-> Zero, rem |-> Zero], [k \in 1 .. n |-> n - k])

\* Towards zero; the remainder has the sign of the dividend.
Div(a, b) == WithSign(DivmodAbs(a, b).quot, IF a.sign = b.sign THEN 1 ELSE -1)
Mod(a, b) == WithSign(DivmodAbs(a, b).rem, a.sign)

\* Square and multiply, from the lowest bit of the exponent to its top bit.
Pow(base, exp) ==
    LET bits == [i \in 1 .. Len(exp.limbs) * LimbBits |-> i - 1]
        Step(acc, i) == [res |-> IF BitOf(exp, i) = 1 THEN Mul(acc.res, acc.b) ELSE acc.res,
                         b   |-> IF \E j \in (i + 1) .. Len(bits) - 1 : BitOf(exp, j) = 1
                                 THEN Mul(acc.b, acc.b) ELSE acc.b]
    IN  FoldLeft(Step, [res |-> FromInt64(1), b |-> base], bits).res

\* The limbs 0 .. n of the two's complement of x: ~(|x| - 1) for a negative x.
TwosComplement(x, n) ==
    LET less == Chain(n + 1, -1, LAMBDA i, c : Limb(x, i) + c).limbs
    IN  [i \in 1 .. n + 1 |-> IF x.sign < 0 THEN Base - 1 - less[i] ELSE Limb(x, i - 1)]

\* ~d + 1 over the same number of limbs, and the carry out of the last.
Complemented(d) == Chain(Len(d), 1, LAMBDA i, c : Base - 1 - d[i + 1] + c)

BitwiseOp(a, b, Op(_, _)) ==
    LET n == Longer(a, b)
        A == TwosComplement(a, n)
        B == TwosComplement(b, n)
        r == [i \in DOMAIN A |-> Op(A[i], B[i])]
        neg == Complemented(r)
    IN  IF Op(IF a.sign < 0 THEN 1 ELSE 0, IF b.sign < 0 THEN 1 ELSE 0) = 1
        THEN Normalized(-1, Append(neg.limbs, neg.carry)) ELSE Normalized(1, r)

BnAnd(a, b) == BitwiseOp(a, b, LAMBDA x, y : x & y)
BnOr(a, b)  == BitwiseOp(a, b, LAMBDA x, y : x | y)
BnXor(a, b) == BitwiseOp(a, b, LAMBDA x, y : x ^^ y)

\* ~x is -(x + 1).
BnNot(a) == Neg(Add(a, FromInt64(1)))

Shl(a, bits) ==
    LET words == bits \div LimbBits
        r == Chain(Len(a.limbs), 0, LAMBDA i, c : a.limbs[i + 1] * 2 ^ (bits % LimbBits) + c)
    IN  IF a.sign = 0 \/ bits = 0 THEN a
        ELSE Normalized(a.sign, [i \in 1 .. words |-> 0] \o Append(r.limbs, r.carry))

ShrMag(a, bits) ==
    LET words == bits \div LimbBits
        s     == 2 ^ (bits % LimbBits)
    IN  IF bits = 0 THEN a
        ELSE IF words >= Len(a.limbs) THEN Zero
        ELSE Normalized(1, [i \in 1 .. Len(a.limbs) - words |->
                 (a.limbs[i + words] \div s + Limb(a, i + words) * (Base \div s)) % Base])

\* The arithmetic shift of a negative number rounds down: -((|x| - 1 >> n) + 1).
\* Mutant: it shifts the magnitude, which rounds towards zero.
Shr_Truncates(a, bits) == WithSign(ShrMag(a, bits), a.sign)

Shr(a, bits) ==
    LET one == FromInt64(1)
    IN  IF a.sign = 0 \/ bits = 0 THEN a
        ELSE IF a.sign > 0 THEN ShrMag(a, bits)
        ELSE WithSign(AddAbs(ShrMag(SubAbs(a, one), bits), one), -1)

\* The low two limbs, as an int64.
ToInt64(b) ==
    LET mag == (Limb(b, 0) + Limb(b, 1) * Base) * b.sign
    IN  ((mag + Int64) % (2 * Int64)) - Int64

ModPow2(a, bits) ==
    LET words == (bits + LimbBits - 1) \div LimbBits
        low   == bits % LimbBits
        Masked(d) == [i \in 1 .. words |-> IF i = words /\ low # 0 THEN d[i] % 2 ^ low ELSE d[i]]
        r == Masked([i \in 1 .. words |-> Limb(a, i - 1)])
    IN  IF a.sign < 0 /\ \E i \in DOMAIN r : r[i] # 0
        THEN Normalized(1, Masked(Complemented(r).limbs)) ELSE Normalized(1, r)

AsUintN(bits, a) == ModPow2(a, bits)

AsIntN(bits, a) ==
    LET r == ModPow2(a, bits)
        words == (bits + LimbBits - 1) \div LimbBits
        low   == bits % LimbBits
        neg   == Complemented([i \in 1 .. words |-> Limb(r, i - 1)]).limbs
    IN  IF bits = 0 THEN Zero
        ELSE IF BitOf(r, bits - 1) = 0 THEN r
        ELSE Normalized(-1, [i \in 1 .. words |->
                 IF i = words /\ low # 0 THEN neg[i] % 2 ^ low ELSE neg[i]])

(***************************************************************************)
(* Text.  A number is written as its sign and its digits; "_" between      *)
(* digits stands for an underscore.                                        *)
(***************************************************************************)
FromString(sign, radix, digits) ==
    WithSign(FoldLeft(LAMBDA r, d : IF d = radix THEN r ELSE AddSmall(MulSmall(r, radix), d), Zero, digits), sign)

\* BigInt("..."): an underscore stands between two digits, and there is a digit.
FromText(sign, radix, digits) ==
    LET under(i) == digits[i] = radix
    IN  IF \/ \A i \in DOMAIN digits : under(i)
           \/ under(1) \/ under(Len(digits))
           \/ \E i \in 2 .. Len(digits) : under(i) /\ under(i - 1)
        THEN Raises ELSE FromString(sign, radix, digits)

\* Digits are split off the low end until nothing is left.
ToDigits(b, radix) ==
    LET cap == Len(b.limbs) * LimbBits + 4
        Step(acc, i) == IF acc.mag.limbs = <<>> THEN acc
                        ELSE LET s == DivmodSmall(acc.mag, radix)
                             IN  [mag |-> s.quot, out |-> <<s.rem>> \o acc.out]
    IN  IF b.sign = 0 THEN <<0>>
        ELSE FoldLeft(Step, [mag |-> b, out |-> <<>>], [i \in 1 .. cap |-> i]).out

(***************************************************************************)
(* Doubles that are integers: m * 2 ^ e with |m| < 2 ^ Precision.         *)
(***************************************************************************)
Abs(n) == IF n < 0 THEN -n ELSE n

\* Round to nearest, ties to even, to Precision bits (n >= 0).
Rounded(n) ==
    LET drop == CHOOSE d \in 0 .. 30 : n < 2 ^ (Precision + d) /\ (d = 0 \/ n >= 2 ^ (Precision + d - 1))
        unit == 2 ^ drop
        q == n \div unit
        r == n % unit
        up == 2 * r > unit \/ (2 * r = unit /\ q % 2 = 1)
    IN  (IF up THEN q + 1 ELSE q) * unit

\* bn_to_double: a rounding for every limb.  An integer, the value of the double.
ToDouble(b) ==
    FoldRight(LAMBDA limb, d : Rounded(Rounded(d * Base) + limb), b.limbs, 0) * b.sign

FromDouble(m, e) ==
    LET v == m * 2 ^ e
        r == Shl(FromUint64(Abs(m)), e)
    IN  IF v >= -Int64 /\ v < Int64 THEN FromInt64(v) ELSE WithSign(r, IF m < 0 THEN -1 ELSE 1)

\* Against half of h, where an odd h stands for a fraction: exactly against an
\* int64, through bn_to_double otherwise.
CmpDouble(a, h) ==
    IF h % 2 = 0 /\ h \div 2 >= -Int64 /\ h \div 2 < Int64 THEN Cmp(a, FromInt64(h \div 2))
    ELSE LET da == 2 * ToDouble(a) IN IF da < h THEN -1 ELSE IF da > h THEN 1 ELSE 0

(***************************************************************************)
(* The operators of the language on two BigInts, and on a BigInt alone.    *)
(***************************************************************************)
MathOp(op, x, y) ==
    CASE op = "+" -> Add(x, y)
      [] op = "-" -> Sub(x, y)
      [] op = "*" -> Mul(x, y)
      [] op \in {"/", "%"} /\ y.sign = 0 -> Raises
      [] op = "/" -> Div(x, y)
      [] op = "%" -> Mod(x, y)
      [] op \in {"**", "<<", ">>"} /\ y.sign < 0 -> Raises
      [] op = "**" -> Pow(x, y)
      [] op = "&" -> BnAnd(x, y)
      [] op = "|" -> BnOr(x, y)
      [] op = "^" -> BnXor(x, y)
      [] op = "<<" -> Shl(x, ToInt64(y))
      [] op = ">>" -> Shr(x, ToInt64(y))
      [] op = ">>>" -> Raises

UnaryOp(op, x) ==
    CASE op = "-x" -> Neg(x) [] op = "~x" -> BnNot(x) [] op = "+x" -> Raises

\* ++ and --: a BigInt behind an accessor or a proxy is stepped; in a variable, a
\* member or an element it is taken for no number and left as it is.
Stepped(op, x, place) ==
    IF place \in {"accessor", "proxy"} THEN Add(x, FromInt64(IF op = "++" THEN 1 ELSE -1)) ELSE x
=============================================================================
