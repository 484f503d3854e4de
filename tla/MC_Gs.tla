------------------------------- MODULE MC_Gs --------------------------------
(* Streams of a few quadwords on two pages of local memory. *)
EXTENDS GsHost, TLC

White == <<255, 255, 255, 255>>
Grey(n) == <<16 * n, 255 - 16 * n, 8 * n, 128>>
Fields(name) ==
  CASE name = "PRIM"      -> [type |-> "point", iip |-> FALSE, tme |-> FALSE, abe |-> FALSE,
                              fst |-> FALSE, ctxt |-> 0]
    [] name = "RGBAQ"     -> [rgba |-> ZeroWord, q |-> 0]
    [] name = "UV"        -> [u |-> 0, v |-> 0]
    [] name = "TEX0"      -> [tbp |-> 0, tbw |-> 0, psm |-> "CT32", tw |-> 0, th |-> 0,
                              tcc |-> FALSE, tfx |-> "modulate", cbp |-> 0, cpsm |-> "CT32",
                              csm |-> 0, csa |-> 0, cld |-> 0]
    [] name = "TEX1"      -> [lcm |-> FALSE, mxl |-> 0, mmag |-> FALSE, mmin |-> 0, l |-> 0,
                              k |-> 0]
    [] name = "TEXCLUT"   -> [cbw |-> 0, cou |-> 0, cov |-> 0]
    [] name = "CLAMP"     -> [wms |-> "repeat", wmt |-> "repeat", minu |-> 0, maxu |-> 0,
                              minv |-> 0, maxv |-> 0]
    [] name = "XYOFFSET"  -> [x |-> 0, y |-> 0]
    [] name = "SCISSOR"   -> [x0 |-> 0, x1 |-> 63, y0 |-> 0, y1 |-> 31]
    [] name = "ALPHA"     -> [a |-> "src", b |-> "src", c |-> "src", d |-> "src", fix |-> 0]
    [] name = "COLCLAMP"  -> FALSE
    [] name = "TEST"      -> [zte |-> FALSE, ztst |-> "never"]
    [] name = "FRAME"     -> [psm |-> "CT32", fbp |-> 0, fbw |-> 1, fbmsk |-> ZeroWord]
    [] name = "ZBUF"      -> [zbp |-> 1, zmsk |-> FALSE, psm |-> "Z32"]
    [] name = "BITBLTBUF" -> [dbp |-> 0, dbw |-> 1, dpsm |-> "CT32"]
    [] name = "TRXPOS"    -> [dsax |-> 0, dsay |-> 0]
    [] name = "TRXREG"    -> [rrw |-> 0, rrh |-> 0]
    [] name = "TRXDIR"    -> [dir |-> 0]
    [] OTHER              -> 0
Regs0 == [r \in REG_ADDR |-> Fields(r[1])]
None == [a \in {} |-> ZeroWord]
Type(t) == [Fields("PRIM") EXCEPT !.type = t]

\* Cover: a strip a, b, d, c of the corners of a convex quadrangle.
Turn(p, q, r) == (q[1] - p[1]) * (r[2] - q[2]) - (r[1] - q[1]) * (q[2] - p[2])
Convex(a, b, c, d) == Turn(a, b, c) > 0 /\ Turn(b, c, d) > 0 /\ Turn(c, d, a) > 0 /\ Turn(d, a, b) > 0
Boxes == {<<<<x, y>>, <<x + w, y>>, <<x + w, y + h>>, <<x, y + h>>>> :
            x \in {0, 32}, y \in {16}, w \in {48, 144}, h \in {32, 64}}
Corners == Boxes \cup
  {<<a, b, c, d>> \in ({0, 5} \X {0, 7}) \X ({64, 75} \X {0, 9}) \X ({64, 83} \X {50, 64})
                      \X {<<0, 61>>, <<11, 48>>} : Convex(a, b, c, d)}
Cuts == {Fields("SCISSOR"), [x0 |-> 1, x1 |-> 3, y0 |-> 1, y1 |-> 2]}
Cover ==
  {[law |-> "cover", vm |-> None, rectangle |-> k \in Boxes,
    reg |-> [Regs0 EXCEPT ![A("SCISSOR")] = s, ![A("XYOFFSET")] = [x |-> 3, y |-> 2],
                          ![A("RGBAQ")].rgba = White],
    stream |-> <<[Tag("reglist", 1, <<A("PRIM"), A("XYZ2"), A("XYZF2"), A("XYZ2"), A("XYZ2")>>)
                    EXCEPT !.pre = FALSE],
                 <<Type("strip"), XY(k[1][1] + 3, k[1][2] + 2, 0)>>,
                 <<XY(k[2][1] + 3, k[2][2] + 2, 0), XY(k[4][1] + 3, k[4][2] + 2, 0)>>,
                 <<XY(k[3][1] + 3, k[3][2] + 2, 0), 0>>>>] :
     k \in Corners, s \in Cuts}

\* Depth: two primitives, each with its own type, colour and depths.
DepthSprites(zs) == {<<"sprite", <<XY(0, 0, 0), XY(64, 48, z)>>>> : z \in zs}
               \cup {<<"sprite", <<XY(80, 64, 9), XY(16, 16, z)>>>> : z \in zs}
Slopes(u, v) == {<<"triangle", <<XY(0, 0, u), XY(75, 5, v), XY(9, 64, w)>>>> : w \in {u, v}}
DepthPairs ==
  {<<"Z32", p, q>> : p, q \in DepthSprites({3, 2^24 + 1, 2^30}) \cup Slopes(0, 9)}
  \cup {<<"Z24", p, q>> : p, q \in DepthSprites({3, 2^24 - 1, 2^24 + 1}) \cup Slopes(7, 1)}
  \cup {<<f, p, q>> : f \in {"Z16", "Z16S"}, p, q \in DepthSprites({3, 65535, 65539})
                                                   \cup Slopes(60000, 70000)}
DepthStream(p, q) ==
  LET one(x, c) == <<Ad(A("PRIM"), [Type(x[1]) EXCEPT !.iip = (x[1] = "triangle")]),
                     Ad(A("RGBAQ"), [rgba |-> Grey(c), q |-> 0])>>
                   \o [i \in DOMAIN x[2] |-> Ad(A("XYZ2"), x[2][i])]
      all == one(p, 3) \o one(q, 9)
  IN  <<AdTag(Len(all))>> \o all
Depth ==
  {[law |-> "depth", vm |-> None,
    reg |-> [Regs0 EXCEPT ![A("ZBUF")].psm = d[1], ![A("FRAME")].psm = f,
                          ![A("TEST")] = [zte |-> TRUE, ztst |-> "gequal"]],
    stream |-> DepthStream(d[2], d[3])] : d \in DepthPairs, f \in {"CT32"}}
  \cup {[law |-> "depth", vm |-> None,
    reg |-> [Regs0 EXCEPT ![A("ZBUF")].psm = "Z16", ![A("FRAME")].psm = f,
                          ![A("FRAME")].fbmsk = <<15, 0, 0, 128>>,
                          ![A("TEST")] = [zte |-> TRUE, ztst |-> "gequal"]],
    stream |-> DepthStream(p, q)] : p, q \in DepthSprites({3, 65539}), f \in {"CT16", "CT16S", "CT24"}}

\* Shared: page 0 holds a 24-bit frame, page 1 a 24-bit depth, both indices on top.
Indices == [a \in {addr32p(p, 1, x, y, z) : p \in {0, 1}, x, y \in 0..3, z \in BOOLEAN} |->
              <<7, 130, 255, 16 * (a % 16) + 5>>]
Shared ==
  {[law |-> "shared", vm |-> Indices,
    reg |-> [Regs0 EXCEPT ![A("FRAME")] = [psm |-> "CT24", fbp |-> 0, fbw |-> 1, fbmsk |-> m],
                          ![A("ZBUF")].psm = "Z24", ![A("COLCLAMP")] = cc,
                          ![A("ALPHA")] = [a |-> s, b |-> "dst", c |-> f, d |-> "dst", fix |-> 190],
                          ![A("TEST")] = [zte |-> TRUE, ztst |-> t]],
    stream |-> <<[Tag("packed", 1, <<A("RGBAQ"), A("NOP"), A("XYZF2"), A("XYZF2")>>)
                    EXCEPT !.pre = TRUE] @@ [prim |-> [Type("sprite") EXCEPT !.abe = b]],
                 [rgba |-> <<9, 99, 199, 255>>], 0,
                 XY(0, 0, 0) @@ [f |-> 5], XY(48, 48, 2^23) @@ [f |-> 64]>>] :
     m \in {ZeroWord, <<240, 0, 255, 0>>}, cc, b \in BOOLEAN, s \in {"src", "zero"},
     f \in {"dst", "fix"}, t \in {"never", "always", "gequal"}}

\* Image: w x h pixels at a corner near a border; four to a quadword.
Quadwords(n) == [k \in 1 .. (n + 3) \div 4 |->
                   [j \in 1..4 |-> <<4 * k + j, (4 * k + j) \div 64, k % 256, j>>]]
Upload(b, p, r, n) ==
  <<AdTag(4), Ad(A("BITBLTBUF"), b), Ad(A("TRXPOS"), p), Ad(A("TRXREG"), r),
    Ad(A("TRXDIR"), [dir |-> 0]), Tag("image", (n + 3) \div 4, <<>>)>>
Image ==
  {[law |-> "image", vm |-> None, reg |-> Regs0, head |-> 6, bp |-> 32 * p, bw |-> 2,
    dx |-> x, dy |-> y, w |-> w, h |-> h,
    stream |-> Upload([dbp |-> 32 * p, dbw |-> 2, dpsm |-> "CT32"], [dsax |-> x, dsay |-> y],
                      [rrw |-> w, rrh |-> h], w * h) \o Quadwords(w * h)] :
     p \in {0, 1}, x \in {0, 5, 62}, y \in {0, 30}, w \in {1, 3, 8}, h \in {1, 3, 5}}

\* Palette: 256 colours as an image of 16 x 16, loaded by a TEX0 write.
TestTexture(psm) == [a \in {addr32p(3, 1, x, 0, FALSE) : x \in 0..15}
                           \cup {addr8p(3, 2, x, 0) \div 4 : x \in 0..15}
                           \cup {addr4p(3, 2, x, 0) \div 8 : x \in 0..15} |->
                       <<a % 256, (7 * a) % 256, (a + 129) % 256, (23 * a) % 256>>]
PaletteOf(psm, csa, cld, bp, head) ==
  [law |-> "palette", vm |-> TestTexture(psm), reg |-> Regs0, head |-> head, w |-> 16,
   stream |-> Upload([dbp |-> bp, dbw |-> 1, dpsm |-> "CT32"], [dsax |-> 0, dsay |-> 0],
                     [rrw |-> 16, rrh |-> 16], 256) \o Quadwords(256)
              \o <<AdTag(1), Ad(A("TEX0"), [Fields("TEX0") EXCEPT !.tbp = 96, !.tbw = 2,
                     !.psm = psm, !.cbp = bp, !.csa = csa, !.cld = cld])>>]
Palette == {PaletteOf(psm, 0, cld, 32, 6) : psm \in {"T8", "T4", "T8H", "T4HL", "T4HH"},
                                         cld \in {1, 2, 5}}

\* Forms: the same writes as single registers, packed, or in a register list.
Shape(type) == <<<<A("PRIM"), Type(type)>>>>
Point(i) == <<<<A("RGBAQ"), [rgba |-> Grey(i), q |-> 0]>>,
              <<A(IF i % 2 = 0 THEN "XYZ2" ELSE "XYZF2"), XY(16 * (i * i % 5), 16 * (3 * i % 4), i)>>>>
Points(n) == LET p[i \in 0..n] == IF i = 0 THEN <<>> ELSE p[i - 1] \o Point(i) IN p[n]
WriteLists ==
  {Shape(t) \o Points(n) : t \in {"triangle", "strip", "fan", "sprite", "point"}, n \in 1..10}
  \cup {Shape("fan") \o Points(4) \o Shape("strip") \o Points(3),
        Shape("point") \o Points(2) \o Shape("sprite") \o Points(3)}
  \cup {<<<<A("FOG"), 0>>>> \o Points(1) \o <<<<A("FINISH"), 0>>, <<A("undefined"), 0>>,
          <<A("TEX0"), [Fields("TEX0") EXCEPT !.cld = c, !.cpsm = "CT16"]>>>> : c \in {2, 3, 6}}
Names(ws) == [i \in DOMAIN ws |-> ws[i][1]]
Values(ws) == [i \in DOMAIN ws |-> ws[i][2]]
InRegs(ws) == \A i \in DOMAIN ws : ws[i][1] \in REG_ADDR
AsAd(ws) == <<AdTag(Len(ws))>> \o [i \in DOMAIN ws |-> Ad(ws[i][1], ws[i][2])]
AsPacked(ws) == <<Tag("packed", 1, Names(ws))>>
                \o [i \in DOMAIN ws |-> IF ws[i][1][1] = "XYZF2" THEN ws[i][2] @@ [f |-> 0]
                                        ELSE ws[i][2]]
AsReglist(ws) == <<Tag("reglist", 1, Names(ws))>>
                 \o [k \in 1 .. (Len(ws) + 1) \div 2 |->
                       <<ws[2*k - 1][2], IF 2*k <= Len(ws) THEN ws[2*k][2] ELSE 0>>]
Form(ws, s) == [law |-> "forms", vm |-> None, writes |-> ws, stream |-> s,
                reg |-> [Regs0 EXCEPT ![A("XYOFFSET")] = [x |-> 8, y |-> 8]]]
Forms == {Form(ws, AsAd(ws)) : ws \in WriteLists}
         \cup {Form(ws, AsPacked(ws)) : ws \in {w \in WriteLists : InRegs(w)}}
         \cup {Form(ws, AsReglist(ws)) : ws \in {w \in WriteLists : InRegs(w)}}
         \cup {Form(ws, <<[Tag("packed", 1, Names(Tail(ws))) EXCEPT !.pre = TRUE]
                             @@ [prim |-> ws[1][2]]>> \o Tail(AsPacked(Tail(ws)))) :
                 ws \in {w \in WriteLists : InRegs(w) /\ w[1][1] = A("PRIM")}}
         \cup {Form(<<>>, <<Tag("disable", 3, <<A("PRIM")>>), Tag("packed", 1, <<A("NOP")>>), 0>>)}

\* Sample: a 4 x 4 texture, its level made of every second texel, an 8-bit one.
Texel(x, y) == <<17 * x, 40 * y, 85 * ((x + y) % 4), 128>>
Page(p, psm, n, s) == [a \in {addr32p(p, 1, x, y, FALSE) : x, y \in 0 .. n - 1} |->
   LET xy == CHOOSE c \in (0 .. n - 1) \X (0 .. n - 1) : addr32p(p, 1, c[1], c[2], FALSE) = a
   IN  Texel(s * xy[1], s * xy[2])]
Sixteens(p, sform) == [a \in {addr16p(p, 1, x, y, sform, FALSE).word : x, y \in 0..3} |->
                         <<a % 256, 8 * a % 256, 255 - (a % 256), 3 * a % 256>>]
Modes == {[wms |-> m, wmt |-> n, minu |-> 1, maxu |-> 2, minv |-> 1, maxv |-> 2] :
            m, n \in {"repeat", "clamp", "regionClamp", "regionRepeat"}}
Sample ==
  {[law |-> "sample", texels |-> -1..5, qs |-> {},
    vm |-> IF psm \in Sixteen THEN Sixteens(0, psm = "CT16S") ELSE Page(0, psm, 4, 1),
    levels |-> <<>>, stream |-> <<AdTag(1), Ad(A("FINISH"), 0)>>,
    reg |-> [Regs0 EXCEPT ![A("CLAMP")] = m,
               ![A("TEX0")] = [@ EXCEPT !.psm = psm, !.tw = 2, !.th = 2, !.tbw = 1]]] :
     psm \in {"CT24", "CT16S"}, m \in Modes}
  \cup
  {[law |-> "sample", texels |-> {0}, qs |-> {32, 40, 48, 50, 55, 64},
    vm |-> Page(0, "CT32", 4, 1) @@ Page(1, "CT32", 2, 2) @@ Page(2, "CT32", 1, 4),
    levels |-> <<[tbp |-> 32, tbw |-> 1], [tbp |-> 64, tbw |-> 1]>>,
    stream |-> <<AdTag(1), Ad(A("FINISH"), 0)>>,
    reg |-> [Regs0 EXCEPT ![A("TEX1")] = [@ EXCEPT !.mxl = x, !.lcm = c, !.k = k, !.l = l],
               ![A("TEX0")] = [@ EXCEPT !.tw = 2, !.th = 2, !.tbw = 1]]] :
     x \in 0..2, c \in BOOLEAN, k \in {-1, 0, 1, 2}, l \in {0, 1}}

\* Layout: nothing is drawn.
Layout == {[law |-> "layout", vm |-> None, reg |-> Regs0, stream |-> <<>>, bits |-> b, depth |-> d] :
             b \in {32, 16}, d \in BOOLEAN}
          \cup {[law |-> "layout", vm |-> None, reg |-> Regs0, stream |-> <<>>, bits |-> 8, depth |-> FALSE]}
\* Card: a session on a card that drew before; fill; probe.
Leftovers == [a \in {addr32p(0, 1, i, 15 - (7 * i % 16), FALSE) : i \in 0..15} |-> <<255, a % 256, 3, 200>>]
Card == {[law |-> "card", vm |-> Leftovers, reg |-> [Regs0 EXCEPT ![A("XYOFFSET")] = [x |-> 8, y |-> 8]],
          writes |-> ws, stream |-> Session(16, 16, AsAd(ws))] :
           ws \in {Shape("fan") \o Points(5),
                   <<<<A("PRIM"), [Type("sprite") EXCEPT !.abe = TRUE]>>,
                     <<A("ALPHA"), [a |-> "src", b |-> "dst", c |-> "fix", d |-> "dst", fix |-> 64]>>>>
                     \o Points(4)}}
Fill == {[law |-> "fill", vm |-> None, reg |-> Regs0, w |-> s[1], h |-> s[2], n |-> n, ztest |-> z,
          stream |-> SpriteStream(s[1], s[2], n, b, z)] :
           s \in {<<8, 8>>, <<3, 10>>}, n \in {1, 2}, b, z \in BOOLEAN}
Probe == {[law |-> "probe", vm |-> None, reg |-> Regs0, w |-> s[1], h |-> s[2], depth |-> TRUE,
           along_y |-> y, stream |-> stream_zgrad(s[1], s[2], 16, 64, y)] :
            s \in {<<12, 6>>, <<7, 9>>}, y \in BOOLEAN}
         \cup {[law |-> "probe", vm |-> None, reg |-> Regs0, w |-> s[1], h |-> s[2], depth |-> FALSE,
           along_y |-> FALSE, stream |-> stream_gouraud(s[1], s[2])] : s \in {<<12, 6>>, <<7, 9>>}}

MC_Programs == Cover \cup Depth \cup Shared \cup Image \cup Palette \cup Forms \cup Sample
               \cup Layout \cup Card \cup Fill \cup Probe
=============================================================================
