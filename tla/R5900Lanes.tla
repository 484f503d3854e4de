----------------------------- MODULE R5900Lanes -----------------------------
(***************************************************************************)
(* The multimedia instructions of the EE core as functions                 *)
(* (sim/ee/r5900_ref.py).  ByteBits is the width of a byte, 8 in the       *)
(* source; every other width follows from it.  A 128-bit register is the   *)
(* pair of its doublewords, low one first.                                 *)
(***************************************************************************)
EXTENDS Integers, Sequences

CONSTANT ByteBits

BB == ByteBits
HB == 2 * ByteBits
WB == 4 * ByteBits
DB == 8 * ByteBits

Double == 0 .. 2^DB - 1
Quad == Double \X Double

Low(v, w) == v % 2^w
Field(v, off, w) == (v \div 2^off) % 2^w
Signed(v, w) == IF Field(v, w - 1, 1) = 1 THEN Low(v, w) - 2^w ELSE Low(v, w)
Sext(v) == Low(Signed(v, WB), DB)        \* sext32
Clamp(v, lo, hi) == IF v < lo THEN lo ELSE IF v > hi THEN hi ELSE v

\* sum of f[0..n-1]
SumTo(f, n) == LET s[i \in 0..n] == IF i = n THEN 0 ELSE f[i] + s[i + 1] IN s[0]

Lanes(q, w) == LET n == DB \div w
               IN  [i \in 0 .. 2*n - 1 |-> Field(q[1 + i \div n], w * (i % n), w)]
Join(ls, w) == LET n == DB \div w
                   half(k) == SumTo([i \in 0..n-1 |-> Low(ls[k*n + i], w) * 2^(w*i)], n)
               IN  <<half(0), half(1)>>
Word(q, i) == Lanes(q, WB)[i]
MapQuad(f(_, _), p, q, w) ==
  LET a == Lanes(p, w)  b == Lanes(q, w) IN Join([i \in DOMAIN a |-> f(a[i], b[i])], w)

\* One lane of a parallel operation.
Pop(op, a, b, w) ==
  LET sa == Signed(a, w)  sb == Signed(b, w)
      top == 2^(w - 1) - 1  bottom == -2^(w - 1)
  IN  CASE op = "add"  -> Low(a + b, w)
        [] op = "sub"  -> Low(a - b, w)
        [] op = "cgt"  -> IF sa > sb THEN 2^w - 1 ELSE 0
        [] op = "ceq"  -> IF a = b THEN 2^w - 1 ELSE 0
        [] op = "max"  -> IF sa > sb THEN a ELSE b
        [] op = "min"  -> IF sa < sb THEN a ELSE b
        [] op = "adds" -> Low(Clamp(sa + sb, bottom, top), w)
        [] op = "subs" -> Low(Clamp(sa - sb, bottom, top), w)
        [] op = "addu" -> Clamp(a + b, 0, 2^w - 1)
        [] op = "subu" -> Clamp(a - b, 0, 2^w - 1)
        [] op = "abs"  -> IF sb = bottom THEN top ELSE IF sb < 0 THEN -sb ELSE sb
Parallel(op, w, a, b) == MapQuad(LAMBDA x, y : Pop(op, x, y, w), a, b, w)

\* The (operation, width) pairs the two tables define.
MMI0Ops == ({"add", "sub", "cgt", "max", "adds", "subs"} \X {BB, HB, WB}) \ {<<"max", BB>>}
MMI1Ops == ({"abs", "ceq", "min", "addu", "subu"} \X {BB, HB, WB})
             \ {<<"abs", BB>>, <<"min", BB>>}

\* Extend and pack: interleave a half of rt and rs, keep every other lane.
Pext(w, a, b, upper) ==
  LET n == DB \div w  la == Lanes(a, w)  lb == Lanes(b, w)
      off == IF upper THEN n ELSE 0
  IN  Join([i \in 0 .. 2*n - 1 |-> IF i % 2 = 0 THEN lb[off + i \div 2]
                                                ELSE la[off + i \div 2]], w)
Ppac(w, a, b) ==
  LET n == DB \div w  la == Lanes(a, w)  lb == Lanes(b, w)
  IN  Join([i \in 0 .. 2*n - 1 |-> IF i < n THEN lb[2*i] ELSE la[2 * (i - n)]], w)

\* 1555 colours: three channels of Chan bits and an alpha bit in a halfword,
\* moved to the top of the bytes of a word and back.
Chan == (2 * ByteBits - 1) \div 3
MapWords(f(_), q) == MapQuad(LAMBDA x, y : f(x), q, q, WB)
Pext5(q) == MapWords(LAMBDA v :
  SumTo([k \in 0..2 |-> Field(v, Chan*k, Chan) * 2^(BB*k + BB - Chan)], 3)
    + Field(v, 3*Chan, 1) * 2^(WB - 1), q)
Ppac5(q) == MapWords(LAMBDA v :
  SumTo([k \in 0..2 |-> Field(v, BB*k + BB - Chan, Chan) * 2^(Chan*k)], 3)
    + Field(v, WB - 1, 1) * 2^(3*Chan), q)

Padsbh(a, b) ==
  LET la == Lanes(a, HB)  lb == Lanes(b, HB)
  IN  Join([i \in 0..7 |-> Pop(IF i < 4 THEN "sub" ELSE "add", la[i], lb[i], HB)], HB)

\* The funnel shift counts bytes of the 32-byte concatenation of rs and rt.
Qfsrv(a, b, sa) ==
  LET la == Lanes(a, BB)  lb == Lanes(b, BB)
  IN  Join([i \in 0..15 |-> IF i + sa < 16 THEN lb[i + sa]
                                           ELSE la[i + sa - 16]], BB)

\* The permutes as tables of (register, lane), lowest lane first.
Picks(reg, lanes) == [i \in 1..Len(lanes) |-> <<reg, lanes[i]>>]
Alternate(t, s) == [i \in 1..8 |-> IF i % 2 = 1 THEN <<"T", t[(i + 1) \div 2]>>
                                                ELSE <<"S", s[i \div 2]>>]
Perm == [PINTH  |-> Alternate(<<0, 1, 2, 3>>, <<4, 5, 6, 7>>),
         PEXEH  |-> Picks("T", <<2, 1, 0, 3, 6, 5, 4, 7>>),
         PREVH  |-> Picks("T", <<3, 2, 1, 0, 7, 6, 5, 4>>),
         PINTEH |-> Alternate(<<0, 2, 4, 6>>, <<0, 2, 4, 6>>),
         PEXCH  |-> Picks("T", <<0, 2, 1, 3, 4, 6, 5, 7>>),
         PCPYH  |-> Picks("T", <<0, 0, 0, 0, 4, 4, 4, 4>>),
         PEXEW  |-> Picks("T", <<2, 1, 0, 3>>),
         PROT3W |-> Picks("T", <<1, 2, 0, 3>>),
         PEXCW  |-> Picks("T", <<0, 2, 1, 3>>)]
Permute(name, a, b) ==
  LET tbl == Perm[name]
      w   == IF Len(tbl) = 8 THEN HB ELSE WB
      pick(p) == IF p[1] = "S" THEN Lanes(a, w)[p[2]] ELSE Lanes(b, w)[p[2]]
  IN  Join([i \in 0 .. Len(tbl) - 1 |-> pick(tbl[i + 1])], w)

\* One word divide: quotient and remainder, with the results of the iterative
\* divider for a zero divisor.
DivW(signed, x, y) ==
  LET sx == Signed(x, WB)  sy == Signed(y, WB)
      mag(n) == IF n < 0 THEN -n ELSE n
      q == (mag(sx) \div mag(sy)) * (IF (sx < 0) = (sy < 0) THEN 1 ELSE -1)
      ux == Low(x, WB)  uy == Low(y, WB)
  IN  CASE signed /\ sy = 0  -> [lo |-> Sext(IF sx >= 0 THEN -1 ELSE 1), hi |-> Sext(sx)]
        [] signed /\ sy # 0  -> [lo |-> Sext(q), hi |-> Sext(sx - q * sy)]
        [] ~signed /\ uy = 0 -> [lo |-> Sext(2^WB - 1), hi |-> Sext(ux)]
        [] ~signed /\ uy # 0 -> [lo |-> Sext(ux \div uy), hi |-> Sext(ux % uy)]

PdivW(signed, a, b) ==
  LET d == [n \in 1..2 |-> DivW(signed, a[n], b[n])]
  IN  [lo |-> <<d[1].lo, d[2].lo>>, hi |-> <<d[1].hi, d[2].hi>>]

PdivBW(a, b) ==
  LET y == Signed(b[1], HB)
      d == [n \in 0..3 |-> DivW(TRUE, Word(a, n), y)]
  IN  [lo |-> Join([n \in 0..3 |-> d[n].lo], WB), hi |-> Join([n \in 0..3 |-> d[n].hi], WB)]

\* The product of two words as a doubleword, its halves to LO and HI.
Product(signed, x, y) ==
  Low(IF signed THEN Signed(x, WB) * Signed(y, WB) ELSE Low(x, WB) * Low(y, WB), DB)
Halves(p) == [rd |-> p, lo |-> <<Sext(p[1]), Sext(p[2])>>,
              hi |-> <<Sext(p[1] \div 2^WB), Sext(p[2] \div 2^WB)>>]
PmultW(signed, a, b) == Halves(<<Product(signed, a[1], b[1]), Product(signed, a[2], b[2])>>)
PmaddUW(a, b, lo, hi) ==
  LET acc(n) == Low(lo[n], WB) + Low(hi[n], WB) * 2^WB
  IN  Halves([n \in 1..2 |-> Low(acc(n) + Product(FALSE, a[n], b[n]), DB)])

\* The multiply-accumulate group: eight halfword products dealt to LO and HI in
\* pairs, the first word of each pair to rd.
Hmac(form, a, b, lo, hi) ==
  LET p  == [i \in 0..7 |-> Signed(Lanes(a, HB)[i], HB) * Signed(Lanes(b, HB)[i], HB)]
      c(g, j) == Signed(Word(IF g % 2 = 0 THEN lo ELSE hi, 2 * (g \div 2) + j), WB)
      v(g, j) == LET x == p[2*g]  y == p[2*g + 1]
                 IN  CASE form = "PMULTH" -> p[2*g + j]
                       [] form = "PMADDH" -> c(g, j) + p[2*g + j]
                       [] form = "PMSUBH" -> c(g, j) - p[2*g + j]
                       [] form = "PHMADH" -> IF j = 0 THEN y + x ELSE y
                       [] form = "PHMSBH" -> IF j = 0 THEN y - x ELSE -y - 1
  IN  [rd |-> Join([g \in 0..3 |-> v(g, 0)], WB),
       lo |-> Join([n \in 0..3 |-> v(2 * (n \div 2), n % 2)], WB),
       hi |-> Join([n \in 0..3 |-> v(2 * (n \div 2) + 1, n % 2)], WB)]

\* Words 0 and 2 shifted by the matching word of rs, widened to doublewords.
PshiftV(kind, a, b) ==
  LET r(n) == LET sh == Low(a[n], WB) % WB
              IN  CASE kind = "sll" -> Sext(Low(b[n], WB - sh) * 2^sh)
                    [] kind = "srl" -> Sext(Low(b[n], WB) \div 2^sh)
                    [] kind = "sra" -> Sext(Signed(b[n], WB) \div 2^sh)
  IN  <<r(1), r(2)>>

\* Bit by bit, on doublewords.
BitsOf(f(_, _), x, y) ==
  SumTo([i \in 0 .. DB - 1 |-> 2^i * f(Field(x, i, 1), Field(y, i, 1))], DB)
AndBits(x, y) == BitsOf(LAMBDA p, q : p * q, x, y)
OrBits(x, y) == BitsOf(LAMBDA p, q : p + q - p * q, x, y)
XorBits(x, y) == BitsOf(LAMBDA p, q : (p + q) % 2, x, y)
NorBits(x, y) == BitsOf(LAMBDA p, q : (1 - p) * (1 - q), x, y)
=============================================================================
