--------------------------------- MODULE Gs ---------------------------------
(***************************************************************************)
(* The GS as its reference executes it (sim/gs/gs_ref.py, class GS): the   *)
(* GIF's stream of quadwords, the registers, the vertex queue, transfers   *)
(* to local memory, and the drawing they start (GsRaster).  One step       *)
(* consumes one quadword.  Beside the queue of the reference runs the one  *)
(* of the RTL (rtl/gs/gs_gif.vhd), a shift register with a counter and an  *)
(* anchor; both record what they draw.                                     *)
(*                                                                         *)
(* A host that runs one stream after another resets the GS between them:   *)
(* the quadword "reset" stands for it, and local memory outlives it.       *)
(*                                                                         *)
(* Decoding is abstracted: a tag, a register and a vertex are records of   *)
(* the fields the code extracts; NREG = 0 is a list of sixteen registers.  *)
(***************************************************************************)
EXTENDS GsRaster

CONSTANT Programs   \* [law, reg, vm, stream]: registers and memory preset, and
                    \* the quadwords to come

VARIABLES program, at, tag, left, g

vars == <<program, at, tag, left, g>>

Contextual == {"TEX0", "TEX1", "CLAMP", "XYOFFSET", "SCISSOR", "ALPHA", "TEST", "FRAME", "ZBUF"}
Global == {"PRIM", "RGBAQ", "UV", "TEXCLUT", "COLCLAMP", "BITBLTBUF", "TRXPOS", "TRXREG",
           "TRXDIR", "XYZ2", "XYZ3", "XYZF2", "XYZF3", "HWREG", "ST", "FOG", "FINISH"}
REG_ADDR == Contextual \X {0, 1} \cup Global \X {0}
Vertices == {"XYZ2", "XYZ3", "XYZF2", "XYZF3"}
Triangles == {"triangle", "strip", "fan"}

NoTransfer == [psm |-> "none", n |-> 0, w |-> 0, h |-> 0]
EmptyPipe == [cnt |-> 0, anchor |-> <<>>, v1 |-> <<>>, v2 |-> <<>>, drawn |-> <<>>]
Start(p) ==
  [reg |-> p.reg, vm |-> p.vm, clut |-> EmptyClut, unknown |-> 0, refused |-> 0, skipped |-> 0,
   xfer |-> NoTransfer, vq |-> <<>>, pixels |-> 0, drawn |-> <<>>, pipe |-> EmptyPipe]

-----------------------------------------------------------------------------
(* What the GS shows of its local memory: the two read circuits of the       *)
(* PCRTC and their merge (sim/gs/pcrtc_ref.py), and the picture the host     *)
(* takes through the read port (tools/gs/gsgrab.py).  DISPFB, DISPLAY and    *)
(* PMODE are records of their fields, sizes stored minus one as they are in  *)
(* the registers; a pixel shown is <<r, g, b>>.                              *)

Rgb(w) == <<w[1], w[2], w[3]>>

\* One read circuit: where in memory, where on the raster, how much stretched.
Circuit(fb, area, on) ==
  [fb |-> fb, on |-> on, dx |-> area.dx, dy |-> area.dy, magh |-> area.magh + 1,
   magv |-> area.magv + 1, dw |-> area.dw + 1, dh |-> area.dh + 1]
covers(c, hx, vy) == c.on /\ hx \in c.dx .. c.dx + c.dw - 1 /\ vy \in c.dy .. c.dy + c.dh - 1

\* The stretching divides the offset into the area.
SourceX(c, hx) == c.fb.dbx + (hx - c.dx) \div c.magh
SourceY(c, vy) == c.fb.dby + (vy - c.dy) \div c.magv
\* The colour a circuit reads where it covers; 24-bit pixels have no alpha.
fetch(vm, c, hx, vy) ==
  LET f  == c.fb
      x  == SourceX(c, hx)
      y  == SourceY(c, vy)
      pos == addr16p(f.fbp, f.fbw, x, y, f.psm = "CT16S", FALSE)
      w  == WordAt(vm, addr32p(f.fbp, f.fbw, x, y, FALSE))
  IN  CASE f.psm = "CT32"     -> w
        [] f.psm = "CT24"     -> [w EXCEPT ![4] = 0]
        [] f.psm \in Sixteen  -> expand16(HalfOf(WordAt(vm, pos.word), pos.half))

\* The privileged registers the circuits are made of.
Pcrtc(pmode, fbs, areas, bg) == [pmode |-> pmode, dispfb |-> fbs, display |-> areas, bgcolor |-> bg]
WritePrivileged(p, addr, v) ==
  CASE addr = "PMODE"    -> [p EXCEPT !.pmode = v]
    [] addr = "DISPFB1"  -> [p EXCEPT !.dispfb[1] = v]
    [] addr = "DISPLAY1" -> [p EXCEPT !.display[1] = v]
    [] addr = "DISPFB2"  -> [p EXCEPT !.dispfb[2] = v]
    [] addr = "DISPLAY2" -> [p EXCEPT !.display[2] = v]
    [] addr = "BGCOLOR"  -> [p EXCEPT !.bgcolor = v]
circuits(p) == [n \in 1..2 |-> Circuit(p.dispfb[n], p.display[n], p.pmode.en[n])]

\* Circuit 2 over what is under it, by an alpha of which 128 is one.
Merge(under, over, a) == [n \in 1..3 |-> Sat8(under[n] + ((over[n] - under[n]) * a) \div 128)]

\* One pixel of the raster: circuit 1, circuit 2 over circuit 1 or over the
\* background, or the background.
pixel(vm, p, hx, vy) ==
  LET c   == circuits(p)
      in1 == covers(c[1], hx, vy)
      in2 == covers(c[2], hx, vy)
      p1  == fetch(vm, c[1], hx, vy)
      p2  == Rgb(fetch(vm, c[2], hx, vy))
      alpha(own) == IF p.pmode.mmod THEN p.pmode.alp ELSE own
  IN  CASE in1 /\ ~in2  -> Rgb(p1)
        [] ~in1 /\ in2  -> IF p.pmode.slbg THEN Merge(p.bgcolor, p2, alpha(128)) ELSE p2
        [] ~in1 /\ ~in2 -> p.bgcolor
        [] OTHER        -> Merge(IF p.pmode.slbg THEN p.bgcolor ELSE Rgb(p1), p2, alpha(p1[4]))
frame(vm, p, htotal, vtotal) ==
  [vy \in 0 .. vtotal - 1 |-> [hx \in 0 .. htotal - 1 |-> pixel(vm, p, hx, vy)]]

-----------------------------------------------------------------------------
\* The host's own picture: the pages of the frame are read, what is outside of
\* them is black, and the swizzle is undone for the width given.
GrabPitch(W) == IF W < 64 THEN 1 ELSE W \div 64
GrabPages(W, H) == ((H + 31) \div 32) * GrabPitch(W)
Grab(vm, fbp, W, x, y, H) ==
  LET a == addr32p(fbp, GrabPitch(W), x, y, FALSE)
  IN  IF a \in fbp * PAGE_WORDS .. (fbp + GrabPages(W, H)) * PAGE_WORDS - 1
      THEN Rgb(WordAt(vm, a)) ELSE <<0, 0, 0>>

-----------------------------------------------------------------------------
\* The vertex queue.  XYZ2 and XYZF2 kick; XYZ3 and XYZF3 only queue.
Corner(h, d) == [x |-> d.x, y |-> d.y, z |-> d.z, rgba |-> Reg(h, "RGBAQ", 0).rgba,
                 q |-> Reg(h, "RGBAQ", 0).q, u |-> Reg(h, "UV", 0).u, v |-> Reg(h, "UV", 0).v]

Vertex(h, d, kick) ==
  LET vq     == Append(h.vq, Corner(h, d))
      n      == Len(vq)
      type   == Prim(h).type
      sprite == kick /\ type = "sprite" /\ n >= 2
      tri    == kick /\ type \in Triangles /\ n >= 3
      last   == IF sprite THEN SubSeq(vq, n - 1, n) ELSE SubSeq(vq, n - 2, n)
      after  == CASE sprite \/ (tri /\ type = "triangle") -> <<>>
                  [] tri /\ type = "fan"                  -> <<vq[1], vq[n]>>
                  [] \/ tri /\ type = "strip"
                     \/ kick /\ ~sprite /\ ~tri /\ n > 8  -> SubSeq(vq, n - 1, n)
                  [] OTHER                                -> vq
      k      == [h EXCEPT !.vq = after,
                          !.drawn = IF sprite \/ tri THEN Append(@, last) ELSE @]
  IN  CASE sprite -> DrawSprite(k, last[1], last[2])
        [] tri    -> DrawTriangle(k, last[1], last[2], last[3])
        [] OTHER  -> k

\* The queue of the RTL: three vertices in flight, the anchor of a fan, and a
\* counter that says how many are there.
PipeVertex(pipe, v, type, kick) ==
  LET anchor == IF pipe.cnt = 0 THEN v ELSE pipe.anchor
      tri    == kick /\ type \in Triangles /\ pipe.cnt >= 2
      sprite == kick /\ type = "sprite" /\ pipe.cnt >= 1
      oldest == IF type = "fan" THEN pipe.anchor ELSE pipe.v1
  IN  [cnt    |-> CASE sprite \/ (tri /\ type = "triangle") -> 0
                    [] tri /\ type # "triangle"             -> 2
                    [] OTHER -> IF pipe.cnt < 7 THEN pipe.cnt + 1 ELSE 7,
       anchor |-> anchor, v1 |-> pipe.v2, v2 |-> v,
       drawn  |-> CASE sprite -> Append(pipe.drawn, <<pipe.v2, v>>)
                    [] tri    -> Append(pipe.drawn, <<oldest, pipe.v2, v>>)
                    [] OTHER  -> pipe.drawn]

-----------------------------------------------------------------------------
\* Host to local memory: TRXDIR starts a transfer, every HWREG brings two pixels.
StartTransfer(h) ==
  LET b == Reg(h, "BITBLTBUF", 0)  p == Reg(h, "TRXPOS", 0)  r == Reg(h, "TRXREG", 0)
  IN  [h EXCEPT !.xfer = IF Reg(h, "TRXDIR", 0).dir # 0 THEN NoTransfer
                         ELSE [bp |-> b.dbp, bw |-> b.dbw, psm |-> b.dpsm, dx |-> p.dsax,
                               dy |-> p.dsay, w |-> r.rrw, h |-> r.rrh, n |-> 0]]

TransferPixel(h, px) ==
  LET t == h.xfer
      a == addr32(t.bp, t.bw, t.dx + (t.n % t.w), t.dy + t.n \div t.w)
  IN  IF t.n >= t.w * t.h THEN h
      ELSE [h EXCEPT !.xfer.n = @ + 1, !.vm = IF a < VM_WORDS THEN SetWord(@, a, px) ELSE @]
HwReg(h, two) == IF h.xfer.w = 0 \/ h.xfer.psm # "CT32" THEN h
                 ELSE TransferPixel(TransferPixel(h, two[1]), two[2])

\* TEX0 may reload the palette when it is written, not when it is used.
ReloadClut(h, d) ==
  LET l == LoadClut(h.clut, h.vm, d, Reg(h, "TEXCLUT", 0))
  IN  [h EXCEPT !.clut = l.clut, !.refused = @ + (IF l.refused THEN 1 ELSE 0)]

\* A mutant: a new primitive begins with the vertices in flight.
Restarted_flying(k) == [k EXCEPT !.vq = <<>>]

\* PRIM empties the vertex queue.
Restarted(k) == [k EXCEPT !.vq = <<>>, !.pipe.cnt = 0]
\* A register write with everything it starts.
Write(h, addr, d) ==
  LET name == addr[1]
      k    == [h EXCEPT !.reg[addr] = d]
      kick == name \in {"XYZ2", "XYZF2"}
  IN  CASE addr \notin REG_ADDR -> [h EXCEPT !.unknown = @ + 1]
        [] name = "TRXDIR"      -> StartTransfer(k)
        [] name = "HWREG"       -> HwReg(k, d)
        [] name = "PRIM"        -> Restarted(k)
        [] name \in Vertices    ->
             Vertex([k EXCEPT !.pipe = PipeVertex(@, Corner(k, d), Prim(k).type, kick)], d, kick)
        [] name = "TEX0"        -> ReloadClut(k, d)
        [] OTHER                -> k

\* The data of a PACKED quadword lands where REGLIST would put it, except that
\* RGBAQ clears Q and XYZF puts the fog into the byte above the depth.
Fogged(d) == [x |-> d.x, y |-> d.y, z |-> (d.z % 2^24) + d.f * 2^24]
Packed(h, desc, qw) ==
  LET direct == desc[1] = "A+D"
      data   == CASE direct                           -> qw.data
                  [] desc[1] = "RGBAQ"                -> [rgba |-> qw.rgba, q |-> 0]
                  [] desc[1] \in {"XYZF2", "XYZF3"}   -> Fogged(qw)
                  [] OTHER                            -> qw
  IN  CASE desc[1] = "reserved" -> [h EXCEPT !.unknown = @ + 1]
        [] desc[1] = "NOP"      -> h
        [] OTHER                -> Write(h, IF direct THEN qw.addr ELSE desc, data)
Reglist(h, desc, d) ==
  CASE desc[1] \in {"reserved", "NOP"} -> h
    [] desc[1] = "A+D"                 -> [h EXCEPT !.unknown = @ + 1]
    [] OTHER                           -> Write(h, desc, d)

-----------------------------------------------------------------------------
\* The GIF.  left counts what the tag still announces: registers, or quadwords
\* of an image.  EOP ends a packet; the next quadword is a tag either way.
Qword == program.stream[at]
More == at <= Len(program.stream)
NoTag == [flg |-> "disable", nloop |-> 0, regs |-> <<>>, pre |-> FALSE]
Announced(t) == CASE t.flg = "image"   -> t.nloop
                  [] t.flg = "disable" -> 0
                  [] OTHER             -> t.nloop * Len(t.regs)
Desc(i) == tag.regs[1 + ((Announced(tag) - left + i) % Len(tag.regs))]

\* PRE loads PRIM ahead of the data.  The reference empties the vertex queue as
\* PRIM does; the RTL's shift register keeps what it has.
Preset(h, prim) == [Write(h, <<"PRIM", 0>>, prim) EXCEPT !.pipe = h.pipe]

\* The host resets the GS between two streams: the logic, neither local memory
\* nor the palette.
TakeReset ==
  /\ More /\ left = 0 /\ Qword.flg = "reset"
  /\ tag' = NoTag
  /\ g'   = [Start(program) EXCEPT !.vm = g.vm, !.clut.entries = g.clut.entries]
  /\ at'  = at + 1
  /\ UNCHANGED <<program, left>>

TakeTag ==
  /\ More /\ left = 0 /\ Qword.flg # "reset"
  /\ tag'  = Qword
  /\ left' = Announced(Qword)
  /\ g'    = IF Qword.pre /\ Qword.flg # "image" THEN Preset(g, Qword.prim) ELSE g
  /\ at'   = at + 1
  /\ UNCHANGED program

Data(flg, used) ==
  /\ More /\ left > 0 /\ tag.flg = flg
  /\ left' = left - used
  /\ at'   = at + 1
  /\ UNCHANGED <<program, tag>>

TakePacked == Data("packed", 1) /\ g' = Packed(g, Desc(0), Qword)
TakeImage == Data("image", 1)
             /\ g' = HwReg(HwReg(g, SubSeq(Qword, 1, 2)), SubSeq(Qword, 3, 4))
\* Two registers, or the last one alone and the upper half ignored.
TakeReglist ==
  LET n == LeastOf({left, 2})
  IN  /\ Data("reglist", n)
      /\ g' = Through(1, n, g, LAMBDA h, i : Reglist(h, Desc(i - 1), Qword[i]))

Init ==
  /\ program \in Programs
  /\ at = 1 /\ left = 0 /\ tag = NoTag
  /\ g = Start(program)
Next == TakeReset \/ TakeTag \/ TakePacked \/ TakeReglist \/ TakeImage
Spec == Init /\ [][Next]_vars
-----------------------------------------------------------------------------
Law(l) == program.law = l /\ ~More
Scissored(h, rect) == [h EXCEPT !.reg[<<"SCISSOR", 0>>] = rect]
Primitive(h, p) == IF Len(p) = 2 THEN DrawSprite(h, p[1], p[2]) ELSE DrawTriangle(h, p[1], p[2], p[3])
Draw(h, ps) == Through(1, Len(ps), h, LAMBDA k, i : Primitive(k, ps[i]))

\* A quadrangle drawn as two triangles is covered without a gap and without a
\* pixel drawn twice, whichever diagonal splits it; the scissor only takes
\* pixels away; a rectangle on whole pixels covers what a sprite covers.  (The
\* half-open rule of draw_triangle's edges, and the sprite's of its corners.)
CoverageExact ==
  Law("cover") =>
    LET a == g.drawn[1][1]  b == g.drawn[1][2]  d == g.drawn[1][3]  c == g.drawn[2][3]
        fresh == [Start(program) EXCEPT !.reg = g.reg]
        wide  == Scissored(fresh, [x0 |-> 0, x1 |-> 63, y0 |-> 0, y1 |-> 31])
        s     == Reg(g, "SCISSOR", 0)
        open  == {addr32p(0, 1, x, y, FALSE) : x \in s.x0 .. s.x1, y \in s.y0 .. s.y1}
    IN  /\ g.pixels = Cardinality(DOMAIN g.vm)
        /\ \A ps \in {<<<<a, b, c>>, <<a, c, d>>>>}
                     \cup (IF program.rectangle THEN {<<<<a, c>>>>} ELSE {}) :
             DOMAIN Draw(fresh, ps).vm = DOMAIN g.vm
        /\ DOMAIN g.vm = DOMAIN Draw(wide, <<<<a, b, d>>, <<b, d, c>>>>).vm \cap open

\* What two overlapping primitives leave in the frame and the Z buffer does not
\* depend on which is drawn first, in every depth format: drawing A then B with
\* GEQUAL is drawing B then A with GREATER.  (zcheck: a depth too wide for the
\* format clamps, for the comparison and for the store alike.)
OrderFree ==
  Law("depth") =>
    LET greater == [Start(program) EXCEPT !.reg = [g.reg EXCEPT ![<<"TEST", 0>>].ztst = "greater"]]
    IN  g.vm = Draw(greater, <<g.drawn[2], g.drawn[1]>>).vm

\* The indices kept in the top byte of a 24-bit buffer outlive everything drawn
\* into its colours, blended and masked or not, and into a 24-bit depth beside
\* them.  (fbsetup's mask for PSMCT24, zcheck's for PSMZ24.)
IndexSurvives ==
  [][program.law = "shared" => \A a \in DOMAIN g.vm : g'.vm[a][4] = g.vm[a][4]]_vars

\* An image sent through the GIF reads back texel by texel, at any corner and
\* width, over block and page borders; and a palette sent as an image of 16 x 16
\* (bits 3 and 4 of the index exchanged) reaches a pixel as the colour of its
\* index.  (hwreg's walk, addr32, clut_csm1_32 and fetch_texel fit together.)
ImagePixel(i, j) == LET n == j * program.w + i
                    IN  program.stream[1 + program.head + n \div 4][1 + (n % 4)]
PalettePixel(c) == ImagePixel((c % 8) + 8 * Bit(c, 4),
                              Bit(c, 3) + 2 * ((c \div 32) % 4) + 8 * (c \div 128))
\* The PCRTC shows the picture from raster position (3, 2), stretched as it is
\* told, on either circuit, background around it; merging a picture with itself
\* changes nothing, and an alpha of 128 shows circuit 2, one of 0 what is under
\* it; the host's own picture is the same.  (fetch divides the offset into the
\* area; pixel's merge; the pages gsgrab reads.)
BackGround == <<9, 200, 77>>
Displayed(mag, en) ==
  LET fb   == [fbp |-> program.bp \div 32, fbw |-> program.bw, psm |-> "CT32",
               dbx |-> program.dx, dby |-> program.dy]
      area == [dx |-> 3, dy |-> 2, magh |-> mag[1], magv |-> mag[2],
               dw |-> program.w * (mag[1] + 1) - 1, dh |-> program.h * (mag[2] + 1) - 1]
  IN  Pcrtc([en |-> en, mmod |-> TRUE, slbg |-> FALSE, alp |-> 77], <<fb, fb>>, <<area, area>>,
            BackGround)
InPicture(mag, x, y) == /\ x \in 3 .. 2 + program.w * (mag[1] + 1)
                        /\ y \in 2 .. 1 + program.h * (mag[2] + 1)
Pictured(mag, x, y) == IF InPicture(mag, x, y)
                       THEN Rgb(ImagePixel((x - 3) \div (mag[1] + 1), (y - 2) \div (mag[2] + 1)))
                       ELSE BackGround
PictureShown ==
  LET Raster(mag) == (0 .. 4 + program.w * (mag[1] + 1)) \X (1 .. 3 + program.h * (mag[2] + 1))
      plain == <<0, 0>>
      over(a) == WritePrivileged(Displayed(plain, <<FALSE, TRUE>>), "PMODE",
                                 [en |-> <<FALSE, TRUE>>, mmod |-> TRUE, slbg |-> TRUE, alp |-> a])
  IN  /\ \A s \in {<<plain, <<TRUE, TRUE>>>>, <<<<1, 2>>, <<TRUE, FALSE>>>>, <<<<2, 0>>, <<FALSE, TRUE>>>>} :
           \A c \in Raster(s[1]) : pixel(g.vm, Displayed(s[1], s[2]), c[1], c[2])
                                     = Pictured(s[1], c[1], c[2])
      /\ \A c \in Raster(plain) : /\ pixel(g.vm, over(128), c[1], c[2]) = Pictured(plain, c[1], c[2])
                                   /\ pixel(g.vm, over(0), c[1], c[2]) = BackGround
      /\ \A i \in 0 .. program.w - 1, j \in 0 .. program.h - 1 :
           Grab(g.vm, program.bp \div 32, 64 * program.bw, program.dx + i, program.dy + j,
                program.dy + program.h) = Rgb(ImagePixel(i, j))

\* A frame of any format is shown as the texture unit reads it.
FrameShown ==
  LET f    == Reg(g, "FRAME", 0)
      p    == Pcrtc([en |-> <<TRUE, FALSE>>, mmod |-> FALSE, slbg |-> FALSE, alp |-> 0],
                    [n \in 1..2 |-> [fbp |-> f.fbp, fbw |-> f.fbw, psm |-> f.psm, dbx |-> 0, dby |-> 0]],
                    [n \in 1..2 |-> [dx |-> 0, dy |-> 0, magh |-> 0, magv |-> 0, dw |-> 5, dh |-> 4]],
                    BackGround)
      t    == [psm |-> f.psm, tbp |-> 32 * f.fbp, tbw |-> f.fbw]
      shown == frame(g.vm, p, 6, 5)
  IN  \A x \in 0..5, y \in 0..4 : shown[y][x] = Rgb(fetch_texel(g.vm, t, g.clut, x, y))
UploadReadsBack ==
  /\ Law("depth") => FrameShown
  /\ Law("image") => PictureShown
  /\ Law("image") =>
       LET t == [psm |-> "CT32", tbp |-> program.bp, tbw |-> program.bw]
       IN  \A i \in 0 .. program.w - 1, j \in 0 .. program.h - 1 :
             fetch_texel(g.vm, t, g.clut, program.dx + i, program.dy + j) = ImagePixel(i, j)
  /\ Law("palette") =>
       LET t == Reg(g, "TEX0", 0)
       IN  /\ g.clut.loads = 1
           /\ \A x \in 0..15 : fetch_texel(g.vm, t, g.clut, x, 0) =
                                 PalettePixel(texel_index(g.vm, t.psm, t.tbp, t.tbw, x, 0))

\* The same register writes leave the same GS whether they come PACKED, in a
\* REGLIST of even or odd length, or as addresses with data; and what is drawn
\* is what the RTL's shift register, counter and anchor would draw.
FormsAgree ==
  Law("forms") =>
    LET n == Len(program.writes)
        direct == Through(1, n, Start(program),
                          LAMBDA h, i : Write(h, program.writes[i][1], program.writes[i][2]))
    IN  /\ g = direct
        /\ g.drawn = g.pipe.drawn

\* A bilinear sample at the centre of a texel is that texel, in every wrap mode;
\* a level of detail made by keeping every second texel gives the texel of the
\* base it was made from; S, T and Q scaled together give the same coordinate.
SamplingAgrees ==
  Law("sample") =>
    LET t == Reg(g, "TEX0", 0)
        t1 == Reg(g, "TEX1", 0)
        cl == Reg(g, "CLAMP", 0)
    IN  /\ \A u, v \in program.texels :
             sample(g.vm, t, cl, g.clut, 16 * u + 8, 16 * v + 8, TRUE)
               = sample(g.vm, t, cl, g.clut, 16 * u + 8, 16 * v + 8, FALSE)
        /\ \A q \in program.qs, u, v \in 0 .. 2^t.tw - 1 :
             LET lv == mip_level(Lod(t1, q), t1.mxl)
             IN  sample_mipmap(g.vm, t, t1, [cl EXCEPT !.wms = "repeat", !.wmt = "repeat"],
                               g.clut, 16 * u, 16 * v, q, program.levels)
                   = fetch_texel(g.vm, t, g.clut, u - (u % 2^lv), v - (v % 2^lv))
        /\ \A s \in program.qs, q \in program.qs, k \in {0, 1} :
             LET twice(x) == Mul(x, Pack(2^k, 1).res).res
             IN  stq_to_uv(s, s, q, t.tw, t.th) = stq_to_uv(twice(s), twice(s), twice(q), t.tw, t.th)
=============================================================================
