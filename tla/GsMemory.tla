------------------------------ MODULE GsMemory ------------------------------
(***************************************************************************)
(* Local memory of the GS and where its formats put a pixel                *)
(* (sim/gs/gs_ref.py, shared with rtl/gs/gs_addr_pkg.vhd).  Every layout   *)
(* is a permutation of address bits: Gather(n, bits) builds the number     *)
(* whose bit k is bits[k + 1].                                             *)
(*                                                                         *)
(* A 32-bit word is the tuple of its four bytes, low one first: as a       *)
(* number it would not fit the integers of the model checker.  Local       *)
(* memory holds the words that were written; the others are zero.          *)
(***************************************************************************)
EXTENDS Ps2Float, Sequences

CONSTANTS VM_WORDS        \* words of local memory, 2^20 in the source

PAGE_WORDS == 2048
BLOCK_WORDS == 64
BLK_Z == 24

Byte == 0..255
Word == Byte \X Byte \X Byte \X Byte
ZeroWord == <<0, 0, 0, 0>>
WordAt(vm, a) == IF a \in DOMAIN vm THEN vm[a] ELSE ZeroWord
SetWord(vm, a, w) == [b \in DOMAIN vm \cup {a} |-> IF b = a THEN w ELSE vm[b]]

Bit(v, k) == (v \div 2^k) % 2
Gather(bits) == LET g[k \in 0..Len(bits)] ==
                      IF k = Len(bits) THEN 0 ELSE bits[k + 1] + 2 * g[k + 1]
                IN  g[0]
XorBits(a, b) == (a + b) % 2
\* blk exclusive-or BLK_Z, whose two bits are 3 and 4
ForZ(blk) == Gather([k \in 1..5 |-> XorBits(Bit(blk, k - 1), Bit(BLK_Z, k - 1))])

-----------------------------------------------------------------------------
\* 32-bit pixels: pages of 64 x 32, blocks of 8 x 8.
block32(by, bx) == Gather(<<Bit(bx, 0), Bit(by, 0), Bit(bx, 1), Bit(by, 1), Bit(bx, 2)>>)
column32(y, x) ==
  Gather(<<Bit(x, 0), Bit(y, 0), Bit(x, 1), Bit(x, 2), Bit(y, 1), Bit(y, 2)>>)

addr32p(pagebase, bw, x, y, z) ==
  LET blk == block32((y \div 8) % 4, (x \div 8) % 8)
  IN  (pagebase + (y \div 32) * bw + x \div 64) * PAGE_WORDS
        + (IF z THEN ForZ(blk) ELSE blk) * BLOCK_WORDS + column32(y % 8, x % 8)
addr32(bp, bw, x, y) == addr32p(bp \div 32, bw, x, y, FALSE)

\* 16-bit pixels: pages of 64 x 64, blocks of 16 x 8, two pixels to a word.
block16(by, bx) == Gather(<<Bit(by, 0), Bit(bx, 0), Bit(by, 1), Bit(bx, 1), Bit(by, 2)>>)
block16s(by, bx) == Gather(<<Bit(by, 0), Bit(bx, 0), Bit(by, 2), Bit(by, 1), Bit(bx, 1)>>)

addr16p(pagebase, bw, x, y, sform, z) ==
  LET by  == (y \div 8) % 8
      bx  == (x \div 16) % 4
      blk == IF sform THEN block16s(by, bx) ELSE block16(by, bx)
  IN  [word |-> (pagebase + (y \div 64) * bw + x \div 64) * PAGE_WORDS
                  + (IF z THEN ForZ(blk) ELSE blk) * BLOCK_WORDS + column32(y % 8, x % 8),
       half |-> (x \div 8) % 2]

\* Indexed texels: bytes in pages of 128 x 64, nibbles in pages of 128 x 128.
Mixed(y, x) == (Bit(y, 1) + Bit(y, 2) + Bit(x, 2)) % 2
column8(y, x) == Gather(<<Bit(y, 1), Bit(x, 3), Bit(x, 0), Bit(y, 0), Bit(x, 1),
                          Mixed(y, x), Bit(y, 2), Bit(y, 3)>>)
column4(y, x) == Gather(<<Bit(y, 1), Bit(x, 3), Bit(x, 4), Bit(x, 0), Bit(y, 0), Bit(x, 1),
                          Mixed(y, x), Bit(y, 2), Bit(y, 3)>>)
block8(by, bx) == block32(by, bx)
block4(by, bx) == block32(bx, by)

addr8p(pagebase, bw, x, y) ==                       \* in bytes
  4 * PAGE_WORDS * (pagebase + (y \div 64) * (bw \div 2) + x \div 128)
    + 4 * BLOCK_WORDS * block8((y \div 16) % 4, (x \div 16) % 8) + column8(y % 16, x % 16)
addr8(bp, bw, x, y) == addr8p(bp \div 32, bw, x, y)
addr4p(pagebase, bw, x, y) ==                       \* in nibbles
  8 * PAGE_WORDS * (pagebase + (y \div 128) * (bw \div 2) + x \div 128)
    + 8 * BLOCK_WORDS * block4((y \div 16) % 8, (x \div 32) % 4) + column4(y % 16, x % 32)
addr4(bp, bw, x, y) == addr4p(bp \div 32, bw, x, y)

-----------------------------------------------------------------------------
\* The palette index of a texel.  The H formats use the top byte of a 32-bit
\* word, which a 24-bit colour leaves unused.
INDEXED == {"T8", "T4", "T8H", "T4HL", "T4HH"}
texel_index(vm, psm, tbp, tbw, x, y) ==
  LET b   == addr8(tbp, tbw, x, y)
      n   == addr4(tbp, tbw, x, y)
      top == WordAt(vm, addr32(tbp, tbw, x, y))[4]
  IN  CASE psm = "T8"   -> WordAt(vm, b \div 4)[1 + (b % 4)]
        [] psm = "T4"   -> (WordAt(vm, n \div 8)[1 + ((n \div 2) % 4)] \div 16^(n % 2)) % 16
        [] psm = "T8H"  -> top
        [] psm = "T4HL" -> top % 16
        [] psm = "T4HH" -> top \div 16

\* A mutant: the palette is a row of words.
clut_csm1_row(c) == c
\* Where entry c of a 32-bit palette is, from its base: swizzled or linear.
clut_csm1_32(c) ==
  LET j == c % 16
      k == (c \div 16) % 8
  IN  128 * (c \div 128) + 64 * (k % 2) + 16 * (k \div 2) + column32(j \div 8, j % 8)
clut_csm2(c, cbw, cou, cov) ==
  addr32p(0, IF cbw > 1 THEN cbw ELSE 1, cou * 16 + c, cov, FALSE)

-----------------------------------------------------------------------------
(* The texture unit: the palette buffer and when it is refilled, wrapping,   *)
(* fetching, filtering, the level of detail and the texture function.  A     *)
(* colour is a word <<r, g, b, a>>; TEX0, TEX1, TEXCLUT and CLAMP are        *)
(* records of their fields.                                                  *)

ClampTo(v, lo, hi) == IF v < lo THEN lo ELSE IF v > hi THEN hi ELSE v
Sat8(v) == ClampTo(v, 0, 255)                            \* _sat8
Sixteen == {"CT16", "CT16S"}

-----------------------------------------------------------------------------
\* 16-bit pixels are A1 B5 G5 R5: writing drops low bits, reading appends zeros.
pack16(w) == (w[1] \div 8) + 32 * (w[2] \div 8) + 1024 * (w[3] \div 8) + 32768 * (w[4] \div 128)
expand16(px) == <<8 * (px % 32), 8 * ((px \div 32) % 32), 8 * ((px \div 1024) % 32),
                  128 * (px \div 32768)>>
HalfOf(w, half) == w[1 + 2 * half] + 256 * w[2 + 2 * half]
SetHalf(w, half, v) == [w EXCEPT ![1 + 2 * half] = v % 256, ![2 + 2 * half] = v \div 256]

-----------------------------------------------------------------------------
\* The palette: 256 words on the chip, two remembered pointers, a load count.
NoPointer == -1
Clut == [entries: [0..255 -> Word], cbp0: Nat \cup {NoPointer},
         cbp1: Nat \cup {NoPointer}, loads: Nat]
EmptyClut == [entries |-> [c \in 0..255 |-> ZeroWord], cbp0 |-> NoPointer,
              cbp1 |-> NoPointer, loads |-> 0]

\* CLD: 1 to 3 load, 2 and 3 also remember the pointer, 4 and 5 load when the
\* pointer is not the remembered one, 6 and 7 are reserved.
should_load(clut, cld, cbp) == \/ cld \in 1..3
                               \/ cld = 4 /\ clut.cbp0 # cbp
                               \/ cld = 5 /\ clut.cbp1 # cbp

\* A format other than PSMCT32 is refused after the pointer was remembered.
Entries(vm, t, texclut, old) ==
  LET n   == IF t.psm \in {"T4", "T4HL", "T4HH"} THEN 16 ELSE 256
      dst == IF n = 16 THEN (t.csa % 16) * 16 ELSE 0
      off(c) == IF t.csm = 0 THEN clut_csm1_32(c + dst)
                ELSE clut_csm2(c, texclut.cbw, texclut.cou, texclut.cov)
  IN  [e \in 0..255 |-> IF e \in dst .. dst + n - 1
                        THEN WordAt(vm, t.cbp * BLOCK_WORDS + off(e - dst)) ELSE old[e]]
LoadClut(clut, vm, t, texclut) ==
  LET noted == CASE t.cld = 2 -> [clut EXCEPT !.cbp0 = t.cbp]
                 [] t.cld = 3 -> [clut EXCEPT !.cbp1 = t.cbp]
                 [] OTHER     -> clut
      goes == should_load(clut, t.cld, t.cbp)
  IN  [clut |-> CASE ~goes             -> clut
                  [] goes /\ t.cpsm # "CT32" -> noted
                  [] OTHER -> [noted EXCEPT !.loads = @ + 1,
                                            !.entries = Entries(vm, t, texclut, @)],
       refused |-> goes /\ t.cpsm # "CT32"]

-----------------------------------------------------------------------------
\* One axis of wrapping.  Region repeat is a mask and an or, not a range.
AndBits(a, b) == Gather([k \in 1..14 |-> Bit(a, k - 1) * Bit(b, k - 1)])
OrBits(a, b) == a + b - AndBits(a, b)
wrap(u, mode, lo, hi, size) ==
  CASE mode = "repeat"       -> u % size
    [] mode = "clamp"        -> ClampTo(u, 0, size - 1)
    [] mode = "regionClamp"  -> ClampTo(u, lo, hi)
    [] mode = "regionRepeat" -> OrBits(AndBits(u % 2^14, lo), hi)

\* One stored texel as a colour; raw is a word, or 16 bits for the two formats.
expand_texel(raw, psm) == CASE psm = "CT24"     -> [raw EXCEPT ![4] = 0]
                            [] psm \in Sixteen  -> expand16(raw)
                            [] OTHER            -> raw

fetch_texel(vm, t, clut, u, v) ==
  LET at == addr16p(t.tbp \div 32, t.tbw, u, v, t.psm = "CT16S", FALSE)
  IN  CASE t.psm \in INDEXED -> clut.entries[texel_index(vm, t.psm, t.tbp, t.tbw, u, v)]
        [] t.psm \in Sixteen -> expand_texel(HalfOf(WordAt(vm, at.word), at.half), t.psm)
        [] OTHER             -> expand_texel(WordAt(vm, addr32(t.tbp, t.tbw, u, v)), t.psm)

\* The fragment and the texel combined; 128 is one.
texture_function(tfx, tcc, f, t) ==
  LET m(n) == (f[n] * t[n]) \div 128
      alpha == CASE tfx = "modulate"  -> m(4)
                 [] tfx = "highlight" -> t[4] + f[4]
                 [] OTHER             -> t[4]
      colour(n) == CASE tfx = "decal"    -> t[n]
                     [] tfx = "modulate" -> m(n)
                     [] OTHER             -> m(n) + f[4]
  IN  <<Sat8(colour(1)), Sat8(colour(2)), Sat8(colour(3)), IF tcc THEN Sat8(alpha) ELSE f[4]>>

-----------------------------------------------------------------------------
\* Reading at a 12.4 coordinate: the texel it is in, or four texels around the
\* point half a texel up and left, in sixteenths.
TexelAt(vm, t, cl, clut, u, v) ==
  fetch_texel(vm, t, clut, wrap(u, cl.wms, cl.minu, cl.maxu, 2^t.tw),
                           wrap(v, cl.wmt, cl.minv, cl.maxv, 2^t.th))
sample_uv(vm, t, cl, clut, u, v) == TexelAt(vm, t, cl, clut, u \div 16, v \div 16)

\* A mutant: the four texels are those right and below of the point.
Around_corner(u) == u

Around(u) == u - 8
lerp8(a, b, f) == a + ((b - a) * f) \div 16
sample_uv_linear(vm, t, cl, clut, u, v) ==
  LET u0 == Around(u) \div 16
      v0 == Around(v) \div 16
      row(tex, j, k) == lerp8(tex[0, j][k], tex[1, j][k], Around(u) % 16)
  IN  With([i \in 0..1, j \in 0..1 |-> TexelAt(vm, t, cl, clut, u0 + i, v0 + j)],
           LAMBDA tex : [k \in 1..4 |-> lerp8(row(tex, 0, k), row(tex, 1, k), Around(v) % 16)])
sample(vm, t, cl, clut, u, v, linear) ==
  IF linear THEN sample_uv_linear(vm, t, cl, clut, u, v) ELSE sample_uv(vm, t, cl, clut, u, v)

\* S, T and Q to a coordinate, in the float arithmetic of the EE; the result is
\* truncated toward zero and saturates at the width of the coordinate.
UvLimit == 2^18 - 1
OneCoordinate(x, q, sizeLog2) ==
  LET f == Value(Mul(Div(x, q).res, Pack(2^sizeLog2, 1).res).res)
      n == (AbsOf(f) * 16) \div Unit
  IN  ClampTo(IF f < 0 THEN -n ELSE n, -UvLimit - 1, UvLimit)
stq_to_uv(s, t, q, tw, th) == <<OneCoordinate(s, q, tw), OneCoordinate(t, q, th)>>

-----------------------------------------------------------------------------
\* The level of detail comes from the exponent of Q alone.
lod_from_q(q, l, k) == (IF Exp(q) = 0 THEN Bias ELSE Bias - Exp(q)) * 2^l + k
Lod(t1, q) == IF t1.lcm THEN t1.k ELSE lod_from_q(q, t1.l, t1.k)
mip_level(lod, mxl) == ClampTo(lod, 0, mxl)
\* A negative level is magnification.  (Blending two levels is not built.)
filter_for(lod, mmag, mmin) == IF lod < 0 THEN mmag ELSE mmin \in {1, 3, 5}

\* A level is half the size in each axis and has a pointer of its own.
sample_mipmap(vm, t, t1, cl, clut, u, v, q, levels) ==
  LET lod    == Lod(t1, q)
      linear == filter_for(lod, t1.mmag, t1.mmin)
      level  == mip_level(lod, t1.mxl)
      lv     == IF level < Len(levels) THEN level ELSE Len(levels)
      less(s) == IF s > lv THEN s - lv ELSE 0
      small  == [t EXCEPT !.tbp = levels[lv].tbp, !.tbw = levels[lv].tbw,
                          !.tw = less(@), !.th = less(@)]
  IN  IF level = 0 \/ levels = <<>>
      THEN sample(vm, t, cl, clut, u, v, linear)
      ELSE sample(vm, small, cl, clut, u \div 2^lv, v \div 2^lv, linear)
=============================================================================
