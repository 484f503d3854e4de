------------------------------ MODULE Ps2Float ------------------------------
(***************************************************************************)
(* The number system of the EE's COP1 (sim/ee/ps2_float.py): no denormals, *)
(* no infinities, no NaN, results truncated toward zero.  The width of the *)
(* exponent and of the mantissa are parameters (8 and 23 in the source); a *)
(* value is an exact multiple of 1/Unit, so the source's Fraction becomes  *)
(* an integer, and a quotient a pair of integers.                          *)
(***************************************************************************)
EXTENDS Integers

CONSTANTS ExpBits, ManBits,
          Bisections    \* iterations of sqrt_ (200 in the source)

\* The widths a format can have (assumed where the constants get their values).
FloatAssumption ==
  /\ ExpBits \in Nat /\ ExpBits > 1
  /\ ManBits \in Nat \ {0}
  /\ Bisections \in Nat

Bias == 2^(ExpBits - 1) - 1
Hidden == 2^ManBits                        \* the implicit leading one
ExpAll == 2^ExpBits - 1
SignBit == 2^(ExpBits + ManBits)
Unit == 2^(ManBits + Bias - 1)           \* denominator of every value
Pattern == 0..2 * SignBit - 1
Causes == {"I", "D", "O", "U"}             \* the cause flags of FCR31

AbsOf(n) == IF n < 0 THEN -n ELSE n
Larger(m, n) == IF m > n THEN m ELSE n

Sign(x) == x \div SignBit
Exp(x) == (x \div Hidden) % 2^ExpBits
Man(x) == x % Hidden
PosMax == (ExpAll - 1) * Hidden + Hidden - 1

\* The operand conditioner: denormals read as a signed zero, a full exponent
\* as the largest finite value.
Cond(x) == CASE Exp(x) = 0      -> Sign(x) * SignBit
             [] Exp(x) = ExpAll -> Sign(x) * SignBit + PosMax
             [] OTHER           -> x

\* The exact value of a pattern, in units of 1/Unit.
ValueOf == [x \in Pattern |->
              LET c == Cond(x)
                  v == (Hidden + Man(c)) * 2^(Exp(c) - 1)
              IN  IF Exp(c) = 0 THEN 0 ELSE IF Sign(c) = 1 THEN -v ELSE v]
Value(x) == ValueOf[x]

\* a/d >= 2^e, without fractions.
AtLeastPower(a, d, e) == IF e >= 0 THEN a >= d * 2^e ELSE a * 2^(-e) >= d

\* F of x, and TLC evaluates x once.
With(x, F(_)) == CHOOSE y \in {F(z) : z \in {x}} : TRUE

\* The pattern of num/den truncated toward zero, and the flags that implies.
PackExact(num, den) ==
  LET s == IF num < 0 THEN SignBit ELSE 0
      a == AbsOf(num)
      e == CHOOSE k \in -2^ExpBits .. 2^ExpBits :
             AtLeastPower(a, den, k) /\ ~AtLeastPower(a, den, k + 1)
      m == IF e >= 0 THEN (a * Hidden) \div (den * 2^e)
                     ELSE (a * Hidden * 2^(-e)) \div den
  IN  CASE num = 0      -> [res |-> 0, cause |-> {}]
        [] num # 0 /\ e > Bias     -> [res |-> s + PosMax, cause |-> {"O"}]
        [] num # 0 /\ e < 1 - Bias -> [res |-> s, cause |-> {"U"}]
        [] OTHER -> [res |-> s + (e + Bias) * Hidden + (m - Hidden), cause |-> {}]
Pack(num, den) == With(num, LAMBDA n : PackExact(n, den))

Add(a, b) == Pack(Value(a) + Value(b), Unit)
Sub(a, b) == Pack(Value(a) - Value(b), Unit)
Mul(a, b) == Pack(Value(a) * Value(b), Unit * Unit)

\* A zero divisor saturates; the flag tells 0/0 from x/0.
Quotient(a, b) ==
  IF Exp(Cond(b)) = 0
  THEN [res   |-> ((Sign(a) + Sign(b)) % 2) * SignBit + PosMax,
        cause |-> IF Exp(Cond(a)) = 0 THEN {"I"} ELSE {"D"}]
  ELSE Pack(IF Value(b) < 0 THEN -Value(a) ELSE Value(a), AbsOf(Value(b)))
Div(a, b) == With(b, LAMBDA y : Quotient(a, y))

\* The lower bound the bisection ends with, in units of 1/(Unit * 2^Bisections):
\* it starts from [0, max(v, 1)] and keeps the half that holds the root.
RootBelow(v) ==
  LET halve(r, k) == LET lo == r.lo  hi == r.hi
                     IN  IF lo + hi <= (v * Unit * 4^k) \div (lo + hi)
                         THEN [lo |-> lo + hi, hi |-> 2 * hi]
                         ELSE [lo |-> 2 * lo,  hi |-> lo + hi]
      range[k \in 0..Bisections] ==
        IF k = 0 THEN [lo |-> 0, hi |-> Larger(v, Unit)]
                 ELSE With(range[k - 1], LAMBDA r : halve(r, k))
  IN  range[Bisections].lo

Sqrt(x) == With(AbsOf(Value(x)), LAMBDA v :
             IF v = 0 THEN [res |-> 0, cause |-> {}]
             ELSE Pack(RootBelow(v), Unit * 2^Bisections))

\* MAX.S and MIN.S compare the patterns as signed integers, reversed when both
\* are negative.
SignedPattern(x) == IF Sign(x) = 1 THEN x - 2 * SignBit ELSE x
\* A mutant: two negative patterns are compared as they are.
FMax_plain(x, y) == IF SignedPattern(Cond(x)) > SignedPattern(Cond(y)) THEN Cond(x) ELSE Cond(y)

FMax(x, y) == LET a == Cond(x)  b == Cond(y)
                  less == SignedPattern(a) < SignedPattern(b)
              IN  IF Sign(a) = 1 /\ Sign(b) = 1
                  THEN IF less THEN a ELSE b
                  ELSE IF SignedPattern(a) > SignedPattern(b) THEN a ELSE b
FMin(x, y) == LET a == Cond(x)  b == Cond(y)
                  more == SignedPattern(a) > SignedPattern(b)
              IN  IF Sign(a) = 1 /\ Sign(b) = 1
                  THEN IF more THEN a ELSE b
                  ELSE IF SignedPattern(a) < SignedPattern(b) THEN a ELSE b
=============================================================================
