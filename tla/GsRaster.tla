------------------------------ MODULE GsRaster ------------------------------
(***************************************************************************)
(* Drawing in the GS (sim/gs/gs_ref.py): the fill rule, the interpolator,  *)
(* the depth test, the blender and the pixel write, as functions from one  *)
(* state of the GS to the next.  The state g is a record; its registers    *)
(* are g.reg[<<name, context>>], each a record of the fields the code      *)
(* reads.  Coordinates are 12.4 fixed point, so the source's fractions     *)
(* become integers over a common denominator.                              *)
(***************************************************************************)
EXTENDS GsMemory, FiniteSets

CONSTANTS GRID,     \* fractions of the interpolator, 1024 in the source
          BLOCK     \* pixels it steps at a time, 8 in the source

Reg(g, name, c) == g.reg[<<name, c>>]
Prim(g) == Reg(g, "PRIM", 0)
LeastOf(s) == CHOOSE m \in s : \A n \in s : m <= n
MostOf(s) == CHOOSE m \in s : \A n \in s : m >= n
CeilDiv(a, b) == -((-a) \div b)

\* step(...step(step(base, lo), lo + 1)..., hi)
Through(lo, hi, base, step(_, _)) ==
  LET f[i \in lo - 1 .. hi] ==
        IF i = lo - 1 THEN base ELSE With(f[i - 1], LAMBDA h : step(h, i))
  IN  IF hi < lo THEN base ELSE f[hi]

-----------------------------------------------------------------------------
\* The interpolator.  The plane through three vertices, its gradients per pixel
\* 16 nx / det and 16 ny / det.
Plane(P, v) ==
  LET x1 == P[2].x - P[1].x   x2 == P[3].x - P[1].x
      y1 == P[2].y - P[1].y   y2 == P[3].y - P[1].y
      d  == x1 * y2 - x2 * y1
      s  == IF d < 0 THEN -1 ELSE 1
  IN  [x |-> P[1].x, y |-> P[1].y, v |-> v[1], det |-> s * d,
       nx |-> s * ((v[2] - v[1]) * y2 - (v[3] - v[1]) * y1),
       ny |-> s * ((v[3] - v[1]) * x1 - (v[2] - v[1]) * x2)]
Degenerate(P) == Plane(P, <<0, 0, 0>>).det = 0

\* floor(num / det * GRID), in an order that stays small
Grid(num, det) == GRID * (num \div det) + ((num % det) * GRID) \div det

\* A component along one span: a seed, an offset per lane and a step per block,
\* all on the grid.  The bias is in halves of a grid step.
Walk(plane, left, y, bias) ==
  [seed |-> Grid(plane.v * plane.det + plane.nx * (16 * left - plane.x)
                   + plane.ny * (16 * y - plane.y), plane.det),
   lane |-> [j \in 0 .. BLOCK - 1 |-> Grid(16 * plane.nx * j, plane.det)],
   step |-> Grid(16 * plane.nx * BLOCK, plane.det),
   bias |-> bias]
At(walk, i) ==
  (2 * (walk.seed + walk.step * (i \div BLOCK) + walk.lane[i % BLOCK]) + walk.bias)
    \div (2 * GRID)

\* Depth runs short of its plane, by half a step and by another per scanline.
ZBias(k, ny) == -1 - (IF k > 0 /\ ny # 0 THEN (IF ny > 0 THEN k ELSE -k) ELSE 0)

-----------------------------------------------------------------------------
\* The blender works on the three colours; the alpha written is the source's.
Blend(g, src, dst, c) ==
  LET al   == Reg(g, "ALPHA", c)
      pick(sel, n) == IF sel = "src" THEN src[n] ELSE IF sel = "dst" THEN dst[n] ELSE 0
      factor == IF al.c = "src" THEN src[4] ELSE IF al.c = "dst" THEN dst[4] ELSE al.fix
      v(n) == ((pick(al.a, n) - pick(al.b, n)) * factor) \div 128 + pick(al.d, n)
      fit(x) == IF Reg(g, "COLCLAMP", 0) THEN Sat8(x) ELSE x % 256
  IN  IF Prim(g).abe THEN <<fit(v(1)), fit(v(2)), fit(v(3)), src[4]>> ELSE src

\* The bits of mask from old, the others from new.
Keep(mask, old, new, n) ==
  Gather([k \in 1..n |-> IF Bit(mask, k - 1) = 1 THEN Bit(old, k - 1) ELSE Bit(new, k - 1)])

\* What FRAME says of the frame buffer; PSMCT24 leaves the top byte alone.
Drawable(g, c) == Reg(g, "FRAME", c).psm \in {"CT32", "CT24", "CT16", "CT16S"}
\* A mutant: PSMCT24 draws like PSMCT32.
FbMask_plain(fr) == fr.fbmsk
FbMask(fr) == IF fr.psm = "CT24" THEN [fr.fbmsk EXCEPT ![4] = 255] ELSE fr.fbmsk
FbAddr(fr, x, y) ==
  IF fr.psm \in Sixteen THEN addr16p(fr.fbp, fr.fbw, x, y, fr.psm = "CT16S", FALSE)
  ELSE [word |-> addr32p(fr.fbp, fr.fbw, x, y, FALSE), half |-> 0]

PutPixel(g, loc, src, c) ==
  LET fr   == Reg(g, "FRAME", c)
      m    == FbMask(fr)
      word == WordAt(g.vm, loc.word)
      old  == HalfOf(word, loc.half)
      px   == Blend(g, src, IF fr.psm \in Sixteen THEN expand16(old) ELSE word, c)
      new  == IF fr.psm \in Sixteen
              THEN SetHalf(word, loc.half, Keep(pack16(m), old, pack16(px), 16))
              ELSE [n \in 1..4 |-> Keep(m[n], word[n], px[n], 8)]
  IN  [g EXCEPT !.vm = SetWord(@, loc.word, new), !.pixels = @ + 1]

-----------------------------------------------------------------------------
\* The depth test.  A depth wider than the format clamps.
DepthBytes == [Z32 |-> 4, Z24 |-> 3, Z16 |-> 2, Z16S |-> 2]
DepthUsed(g, c) ==
  LET t == Reg(g, "TEST", c)  zb == Reg(g, "ZBUF", c)
  IN  t.zte /\ ~(t.ztst = "always" /\ zb.zmsk) /\ zb.psm \in DOMAIN DepthBytes

BytesOf(z, n) == [k \in 1..n |-> (z \div 256^(k - 1)) % 256]
Below(a, b) == \E k \in DOMAIN a : a[k] < b[k] /\ \A j \in DOMAIN a : j > k => a[j] = b[j]

\* A mutant: equal depths fail, too.
Passes_strict(test, new, old) == test = "always" \/ (test # "never" /\ Below(old, new))

Passes(test, new, old) ==
  /\ test # "never"
  /\ test = "gequal"  => ~Below(new, old)
  /\ test = "greater" => Below(old, new)
ZAddr(g, c, x, y) ==
  LET zb  == Reg(g, "ZBUF", c)
      fbw == Reg(g, "FRAME", c).fbw
  IN  IF zb.psm \in {"Z16", "Z16S"} THEN addr16p(zb.zbp, fbw, x, y, zb.psm = "Z16S", TRUE)
      ELSE [word |-> addr32p(zb.zbp, fbw, x, y, TRUE), half |-> 0]
\* Whether the pixel survives, and local memory after the Z write.
ZTest(g, c, loc, word, z) ==
  LET zb    == Reg(g, "ZBUF", c)
      n     == DepthBytes[zb.psm]
      lanes == [k \in 1..n |-> k + 2 * loc.half]
      new   == IF n < 4 /\ z >= 256^n THEN [k \in 1..n |-> 255] ELSE BytesOf(z, n)
      ok    == /\ loc.word < VM_WORDS
               /\ Passes(Reg(g, "TEST", c).ztst, new, [k \in 1..n |-> word[lanes[k]]])
      stored == [b \in 1..4 |-> IF b - 2 * loc.half \in 1..n THEN new[b - 2 * loc.half] ELSE word[b]]
  IN  [ok |-> ok, vm |-> IF ok /\ ~zb.zmsk THEN SetWord(g.vm, loc.word, stored) ELSE g.vm]
ZCheck(g, c, x, y, z) ==
  IF DepthUsed(g, c)
  THEN With(ZAddr(g, c, x, y), LAMBDA loc : ZTest(g, c, loc, WordAt(g.vm, loc.word), z))
  ELSE [ok |-> TRUE, vm |-> g.vm]

\* One pixel: addressable, then the depth test, then the colour, then the write.
DrawPixel(g, c, x, y, z, source(_)) ==
  LET put(loc, h) == PutPixel(h, loc, source(h), c)
      tested(loc, zr) == IF loc.word >= VM_WORDS \/ ~zr.ok THEN g
                         ELSE put(loc, [g EXCEPT !.vm = zr.vm])
  IN  With(FbAddr(Reg(g, "FRAME", c), x, y),
           LAMBDA loc : With(ZCheck(g, c, x, y, z), LAMBDA zr : tested(loc, zr)))

-----------------------------------------------------------------------------
\* A fragment of a span, textured; Q, of the last vertex, chooses the filter.
UvClamp(x) == ClampTo(x, 0, 2^14 - 1)
TextureFrag(g, c, frag, u, v, q) ==
  LET t  == Reg(g, "TEX0", c)
      t1 == Reg(g, "TEX1", c)
  IN  texture_function(t.tfx, t.tcc, frag,
                       sample(g.vm, t, Reg(g, "CLAMP", c), g.clut, u, v,
                              filter_for(Lod(t1, q), t1.mmag, t1.mmin)))
Fragment(g, c, walk, i, last) ==
  LET shade == IF Prim(g).iip THEN [n \in 1..4 |-> Sat8(At(walk.c[n], i))] ELSE last.rgba
  IN  IF Prim(g).tme
      THEN TextureFrag(g, c, shade, UvClamp(At(walk.u, i)), UvClamp(At(walk.v, i)), last.q)
      ELSE shade

\* The fill rule: a scanline is inside [ceil(top), ceil(bottom)), a pixel of it
\* inside [ceil(left), ceil(right)); both are cut to the scissor.
Crossing(P, y) ==
  {e \in {<<a, b>> \in (1..3) \X (1..3) : P[a].y < P[b].y} : P[e[1]].y <= 16*y /\ 16*y < P[e[2]].y}
EdgeX(P, e, y) ==
  LET lo == P[e[1]]  hi == P[e[2]]  dy == hi.y - lo.y
  IN  CeilDiv(lo.x * dy + (hi.x - lo.x) * (16 * y - lo.y), 16 * dy)

Window(g, c, v) == LET off == Reg(g, "XYOFFSET", c) IN [x |-> v.x - off.x, y |-> v.y - off.y]
Top(P, s) == MostOf({CeilDiv(LeastOf({P[i].y : i \in 1..3}), 16), s.y0})
Bottom(P, s) == LeastOf({CeilDiv(MostOf({P[i].y : i \in 1..3}), 16) - 1, s.y1})
\* A mutant: the right edge is part of the span.
Span_closed(P, s, y) ==
  LET xs == {EdgeX(P, e, y) : e \in Crossing(P, y)}
  IN  IF xs = {} THEN [left |-> 0, right |-> -1]
      ELSE [left |-> MostOf({LeastOf(xs), s.x0}), right |-> LeastOf({MostOf(xs), s.x1})]
Span(P, s, y) ==
  LET xs == {EdgeX(P, e, y) : e \in Crossing(P, y)}
  IN  IF xs = {} THEN [left |-> 0, right |-> -1]
      ELSE [left |-> MostOf({LeastOf(xs), s.x0}), right |-> LeastOf({MostOf(xs) - 1, s.x1})]

\* One scanline: every pixel of its span, on the planes of the components.
Scanline(h, y, c, P, s, plane, last) ==
  LET sp == Span(P, s, y)
      on(p) == Walk(p, sp.left, y, 0)
      walk == [z |-> Walk(plane.z, sp.left, y, ZBias(y - Top(P, s), plane.z.ny)),
               c |-> [n \in 1..4 |-> on(plane.c[n])], u |-> on(plane.u), v |-> on(plane.v)]
      depth(i) == IF DepthUsed(h, c) THEN MostOf({At(walk.z, i), 0}) ELSE 0
  IN  Through(sp.left, sp.right, h,
              LAMBDA k, x : DrawPixel(k, c, x, y, depth(x - sp.left),
                                      LAMBDA j : Fragment(j, c, walk, x - sp.left, last)))

\* STQ coordinates are not built: such a primitive is refused and counted.
DrawTriangle(g, v0, v1, v2) ==
  LET c  == Prim(g).ctxt
      s  == Reg(g, "SCISSOR", c)
      V  == <<v0, v1, v2>>
      P  == [i \in 1..3 |-> Window(g, c, V[i])]
      over(field(_)) == Plane(P, [i \in 1..3 |-> field(V[i])])
      plane == [z |-> over(LAMBDA v : v.z), u |-> over(LAMBDA v : v.u), v |-> over(LAMBDA v : v.v),
                c |-> [n \in 1..4 |-> over(LAMBDA v : v.rgba[n])]]
      textured == Prim(g).tme
      empty == \/ P[1].y = P[2].y /\ P[2].y = P[3].y
               \/ ~Drawable(g, c)
               \/ Degenerate(P) /\ DepthUsed(g, c)
      refused == textured /\ ~Prim(g).fst
  IN  CASE empty                -> g
        [] ~empty /\ refused    -> [g EXCEPT !.skipped = @ + 1]
        [] ~empty /\ ~refused /\ Degenerate(P) /\ (Prim(g).iip \/ textured) -> g
        [] OTHER -> Through(Top(P, s), Bottom(P, s), g,
                            LAMBDA h, y : Scanline(h, y, c, P, s, plane, v2))

\* A sprite: colour and depth of the second vertex.  A textured one is refused.
DrawSprite(g, v0, v1) ==
  LET c == Prim(g).ctxt
      s == Reg(g, "SCISSOR", c)
      a == Window(g, c, v0)
      b == Window(g, c, v1)
      lo(p, q) == LeastOf({p \div 16, q \div 16})
      hi(p, q) == MostOf({p \div 16, q \div 16})
      row(h, y) == Through(MostOf({lo(a.x, b.x), s.x0}), LeastOf({hi(a.x, b.x) - 1, s.x1}), h,
                           LAMBDA k, x : DrawPixel(k, c, x, y, v1.z, LAMBDA j : v1.rgba))
  IN  CASE ~Drawable(g, c)                -> g
        [] Drawable(g, c) /\ Prim(g).tme  -> [g EXCEPT !.skipped = @ + 1]
        [] OTHER -> Through(MostOf({lo(a.y, b.y), s.y0}), LeastOf({hi(a.y, b.y) - 1, s.y1}),
                            g, row)
=============================================================================
