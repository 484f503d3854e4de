------------------------------- MODULE GsHost --------------------------------
(***************************************************************************)
(* The host's side of a GS stream: the streams the tools build and what    *)
(* they conclude of the answer.  A session with the card (tools/gs/        *)
(* gsrun.py) clears local memory, which outlives a reset, and compares     *)
(* the card with the reference; gsfill.py counts the pixels of sprites;    *)
(* hw/ps2probe/compare.py draws gradients and reads them back the way a    *)
(* console does.  Sizes are parameters: the source has 1024 x 1024 and     *)
(* 64 x 32 pixels.                                                         *)
(***************************************************************************)
EXTENDS Gs

A(name) == <<name, 0>>
Tag(flg, nloop, regs) == [flg |-> flg, nloop |-> nloop, regs |-> regs, pre |-> FALSE]
Ad(addr, d) == [addr |-> addr, data |-> d]
AdTag(n) == Tag("packed", n, <<A("A+D")>>)
XY(x, y, z) == [x |-> x, y |-> y, z |-> z]
AdPacket(items) == <<AdTag(Len(items))>> \o items
Reset == [flg |-> "reset"]

Frame32(fbw) == [psm |-> "CT32", fbp |-> 0, fbw |-> fbw, fbmsk |-> ZeroWord]
Window0(w, h) == [x0 |-> 0, x1 |-> w - 1, y0 |-> 0, y1 |-> h - 1]
Plain(type, abe, iip) == [type |-> type, iip |-> iip, tme |-> FALSE, abe |-> abe, fst |-> FALSE,
                          ctxt |-> 0]
Always == [zte |-> TRUE, ztst |-> "always"]
NoBlend == [a |-> "src", b |-> "src", c |-> "src", d |-> "src", fix |-> 0]

\* The state a sprite needs, and n of them from the origin.
SpriteState(w, h, zmsk, rgba, abe) ==
  AdPacket(<<Ad(A("FRAME"), Frame32(1 + (w - 1) \div 64)), Ad(A("XYOFFSET"), [x |-> 0, y |-> 0]),
             Ad(A("SCISSOR"), Window0(w, h)), Ad(A("ALPHA"), NoBlend), Ad(A("COLCLAMP"), TRUE),
             Ad(A("ZBUF"), [zbp |-> 0, zmsk |-> zmsk, psm |-> "Z32"]), Ad(A("TEST"), Always),
             Ad(A("RGBAQ"), [rgba |-> rgba, q |-> 0]), Ad(A("PRIM"), Plain("sprite", abe, FALSE))>>)
Corners2(w, h) == <<Ad(A("XYZ2"), XY(0, 0, 0)), Ad(A("XYZ2"), XY(16 * w, 16 * h, 0))>>
Sprites(w, h, n) ==
  <<Tag("packed", n, <<A("A+D"), A("A+D")>>)>>
    \o [k \in 1 .. 2 * n |-> Corners2(w, h)[2 - (k % 2)]]

\* The clear: one black sprite over all the pages, the depth masked.
ClearStream(w, h) == SpriteState(w, h, TRUE, ZeroWord, FALSE) \o Sprites(w, h, 1)
\* The fill-rate workload.
FillColour == <<32, 64, 128, 0>>
SpriteStream(w, h, n, blend, ztest) ==
  SpriteState(64, 32, ~ztest, FillColour, blend) \o Sprites(w, h, n)

\* A session with the card, and the registers and words it compares with the
\* reference's own.
Session(w, h, stream) == <<Reset>> \o ClearStream(w, h) \o <<Reset>> \o stream
CardAgrees(card, model, words) ==
  /\ card.pixels = model.pixels
  /\ card.reg = model.reg
  /\ \A a \in words : WordAt(card.vm, a) = WordAt(model.vm, a)

-----------------------------------------------------------------------------
\* The console's probes: a gradient of colour, and one of depth along an axis.
ZB_PAGE == 4
ProbeState(w, h, zmsk, prim) ==
  AdPacket(<<Ad(A("FRAME"), Frame32(1)), Ad(A("XYOFFSET"), [x |-> 0, y |-> 0]),
             Ad(A("SCISSOR"), Window0(w, h)), Ad(A("TEST"), Always),
             Ad(A("ZBUF"), [zbp |-> ZB_PAGE, zmsk |-> zmsk, psm |-> "Z32"]), Ad(A("PRIM"), prim)>>)
Colour(r, g_, b) == Ad(A("RGBAQ"), [rgba |-> <<r, g_, b, 128>>, q |-> 0])
At4(x, y, z) == Ad(A("XYZ2"), XY(16 * x, 16 * y, z))
stream_gouraud(w, h) ==
  ProbeState(w, h, TRUE, Plain("triangle", FALSE, TRUE))
    \o AdPacket(<<Colour(255, 0, 0), At4(0, 0, 0), Colour(0, 255, 0), At4(w - 1, 0, 0),
                  Colour(0, 0, 255), At4(0, h - 1, 0)>>)
stream_zgrad(w, h, z0, dz, along_y) ==
  ProbeState(w, h, FALSE, Plain("triangle", FALSE, FALSE))
    \o AdPacket(<<Colour(64, 64, 64), At4(0, 0, z0),
                  At4(w - 1, 0, IF along_y THEN z0 ELSE z0 + dz),
                  At4(0, h - 1, IF along_y THEN z0 + dz ELSE z0)>>)

\* The read back: the depth formats' swizzle undone for a depth buffer.
ReadBack(vm, page, z, w, h) ==
  [y \in 0 .. h - 1 |-> [x \in 0 .. w - 1 |-> WordAt(vm, addr32p(page, 1, x, y, z))]]

-----------------------------------------------------------------------------
\* Where the pixels of one page lie, in each layout; and the entries of a palette.
Seen32(z) == {addr32p(0, 1, x, y, z) : x \in 0..63, y \in 0..31}
Seen16(sform, z) == {LET p == addr16p(0, 1, x, y, sform, z) IN 2 * p.word + p.half :
                       x \in 0..63, y \in 0..63}
ColourIsDepth == {c \in (0..63) \X (0..31) :
                    addr32p(0, 1, c[1], c[2], FALSE) = addr32p(0, 1, c[1], c[2], TRUE)}
SeenClut == {clut_csm1_32(c) : c \in 0..255}
AsSquare == \A c \in 0..255 : clut_csm1_32(c) = addr32p(0, 1, c % 16, c \div 16, FALSE)

\* Every layout is a permutation of its page, colour and depth never agree on a
\* pixel's place, and a palette fills its four blocks, though not as a square.
\* (xcheck_swizzle and xcheck_clut, what they check without their oracle.)
LayoutsPermute ==
  Law("layout") =>
    CASE program.bits = 32 -> /\ Seen32(program.depth) = 0 .. PAGE_WORDS - 1
                                                       /\ ColourIsDepth = {}
      [] program.bits = 16 ->
           \A s \in BOOLEAN : Seen16(s, program.depth) = 0 .. 2 * PAGE_WORDS - 1
      [] program.bits = 8 -> SeenClut = 0..255 /\ ~AsSquare

\* A session ends as a fresh GS given the same stream would, whatever the card
\* held before; and the clear touches every word of its pages, each once.
\* (gsrun: reset, clear, reset, feed, compare.)
SessionAgrees ==
  Law("card") =>
    LET n     == Len(program.writes)
        model == Through(1, n, [Start(program) EXCEPT !.vm = [a \in {} |-> ZeroWord]],
                         LAMBDA h, i : Write(h, program.writes[i][1], program.writes[i][2]))
    IN  CardAgrees(g, model, 0 .. PAGE_WORDS - 1)

\* n sprites of w x h draw n * w * h pixels, blended, depth tested or not, and
\* the colour as it was given unless the depth is written over it.
FillCounted ==
  Law("fill") =>
    /\ g.pixels = program.n * program.w * program.h
    /\ ~program.ztest => ReadBack(g.vm, 0, FALSE, program.w, program.h)
                           = [y \in 0 .. program.h - 1 |-> [x \in 0 .. program.w - 1 |-> FillColour]]

\* A depth that rises along one axis reads back constant along the other and
\* rising along its own, as far as the triangle reaches; a colour fades from its
\* corner.  (draw_triangle's planes and the layouts of frame and depth together.)
Reached(w, h, x, y) == x * (h - 1) + y * (w - 1) < (w - 1) * (h - 1)
GradientsStraight ==
  Law("probe") =>
    LET w    == program.w
        h    == program.h
        rows == ReadBack(g.vm, IF program.depth THEN ZB_PAGE ELSE 0, program.depth, w, h)
        inner == {c \in (0 .. w - 1) \X (0 .. h - 1) : Reached(w, h, c[1], c[2])}
        value(c, k) == rows[c[2]][c[1]][k]
        along(c) == IF program.along_y THEN c[2] ELSE c[1]
        z(c) == value(c, 1) + 256 * value(c, 2)
    IN  /\ g.pixels = Cardinality(inner)
        /\ \A c \in ((0 .. w - 1) \X (0 .. h - 1)) \ inner : rows[c[2]][c[1]] = ZeroWord
        /\ program.depth => \A c, d \in inner : along(c) < along(d) <=> z(c) < z(d)
        /\ ~program.depth => \A c, d \in inner : /\ c[1] < d[1] /\ c[2] = d[2] =>
                                                   value(c, 1) > value(d, 1) /\ value(c, 2) < value(d, 2)
                                              /\ c[2] < d[2] /\ c[1] = d[1] =>
                                                   value(c, 1) > value(d, 1) /\ value(c, 3) < value(d, 3)
=============================================================================
