--------------------------- MODULE BoardIop_proofs ---------------------------
(***************************************************************************)
(* The ROM of the IOP is loaded in place: proved of the board plugged in   *)
(* (MC_Boards), for images of any length, whatever writes come too soon    *)
(* and any latency of the memory.  IopInv is the inductive invariant.      *)
(***************************************************************************)
EXTENDS Boards_proofs

-----------------------------------------------------------------------------
(* The IOP board. *)

Val == Nat \cup {None}
Posts == {None, "pass", "fail"}
Mails == {None, "greeting", "SIFINIT"}
Sels == {None, "MSCOM", "MSFLAG"}
ValPair == Val \X Val
PostPair == Posts \X Posts
MailPair == Mails \X Mails
SelPair == Sels \X Sels
IopSys == [reset : BOOLEAN, addr : Nat, word : Nat, anchor : BOOLEAN, wr : BOOLEAN, ptr : Nat,
           peek : BOOLEAN, parm : BOOLEAN, pgo : BOOLEAN, value : ValPair,
           data : Mails, sel : Sels, sif : BOOLEAN,
           sarm : BOOLEAN, sgo : BOOLEAN, ready : Bits, post : PostPair]
IopCore == [rst : Bits, anchor : Trio, wr : Trio, ptr : Nat, rom_wr : BOOLEAN, word : Nat,
            rom : [0 .. Size - 1 -> Val], peek : Trio, paddr : Nat \X Nat,
            left : (0 .. PeekSlow) \cup {None}, value : Val, sif : Trio,
            sel : SelPair,
            data : MailPair,
            MSCOM : Mails, MSFLAG : Mails,
            ready : BOOLEAN, post : Posts]
IopLoading == {"reset", "anchor", "word", "count"}
IopVerifying == {"peek", "data"}
IopRunning == {"release", "smflag", "d0", "g0", "d1", "g1", "status", "pass", "fail"}
IopHost == [pc : IopLoading \cup IopVerifying \cup IopRunning \cup {"bad"}, n : Nat,
            slipped : SUBSET Nat, slips : Nat, bad : BOOLEAN, answered : BOOLEAN]
IopClk == [sys : [reset : BOOLEAN, addr : Nat, word : Nat, anchor : BOOLEAN, wr : BOOLEAN, ptr : Nat,
                  peek : BOOLEAN, data : Mails, sel : Sels,
                  sif : BOOLEAN],
           core : [value : Val, ready : BOOLEAN, post : Posts], edges : 0 .. 4, gap : 0 .. Gap]
IopTypes == sys \in IopSys /\ core \in IopCore /\ host \in IopHost /\ clk \in IopClk

\* The IOP is held until its ROM has been read back.
IopHeld == host.pc \notin IopRunning \ {"release"} =>
              /\ sys.reset = TRUE /\ clk.sys.reset = TRUE
              /\ core.rst[1] = TRUE /\ core.rst[2] = TRUE

\* What was flipped so many edges ago has come so far.
Settles(t, was, c) ==
    /\ clk.gap >= 1 => was = t
    /\ clk.gap >= 2 => c[1] = t
    /\ clk.gap >= 3 => c[2] = t
    /\ clk.gap >= 4 => c[3] = t
IopSettles ==
    /\ Settles(sys.wr, clk.sys.wr, core.wr)
    /\ Settles(sys.anchor, clk.sys.anchor, core.anchor)
    /\ clk.gap >= 5 => core.rom_wr = FALSE
Resting ==
    /\ sys.wr = clk.sys.wr /\ core.wr = <<sys.wr, sys.wr, sys.wr>> /\ core.rom_wr = FALSE
    /\ sys.anchor = clk.sys.anchor /\ core.anchor = <<sys.anchor, sys.anchor, sys.anchor>>
IopRests == host.pc \notin {"word", "count"} => Resting

\* No word overtakes the address of its chunk.
Anchoring == sys.anchor # core.anchor[3]
IopOrder ==
    /\ Pulsing(sys.anchor, clk.sys.anchor, core.anchor[1], core.anchor[2], core.anchor[3])
    /\ clk.sys.anchor # core.anchor[3] => clk.sys.addr = sys.addr
    /\ Anchoring =>
         /\ core.rom_wr = FALSE
         /\ clk.sys.anchor = core.anchor[3] => sys.wr = clk.sys.wr /\ clk.sys.wr = core.wr[1]
         /\ core.anchor[1] = core.anchor[3] => core.wr[1] = core.wr[2]
         /\ core.anchor[2] = core.anchor[3] => core.wr[2] = core.wr[3]
    /\ ~Anchoring /\ host.pc \in {"word", "count"} => core.ptr >= sys.addr

\* In a chunk without a slip one word at a time is on its way, to its place.
Whole == (sys.addr \div Part) \notin host.slipped
IopChunk ==
    host.pc \in {"word", "count"} =>
      /\ sys.addr <= host.n
      /\ \A i \in sys.addr .. host.n - 1 : (i \div Part) = (sys.addr \div Part)
      /\ host.pc = "word" => (host.n \div Part) = (sys.addr \div Part)
      /\ Whole =>
           /\ Pulsing(sys.wr, clk.sys.wr, core.wr[1], core.wr[2], core.wr[3])
           /\ Anchoring => host.n = sys.addr /\ sys.wr = core.wr[3]
           /\ sys.wr # core.wr[3] => /\ core.rom_wr = FALSE /\ core.ptr + 1 = host.n /\ sys.word = core.ptr
                                     /\ clk.sys.wr # core.wr[3] => clk.sys.word = sys.word
           /\ core.rom_wr = TRUE => core.ptr + 1 = host.n /\ core.word = core.ptr
           /\ ~Anchoring /\ sys.wr = core.wr[3] /\ core.rom_wr = FALSE => core.ptr = host.n
           /\ ~Anchoring => \A i \in sys.addr .. core.ptr - 1 : core.rom[i] = i

\* The words before the host's place are where they belong, but for chunks with a slip.
Placed(n) == \A i \in 0 .. Size - 1 : i < n /\ (i \div Part) \notin host.slipped => core.rom[i] = i
IopRom ==
    /\ host.pc = "reset" => host.n = 0
    /\ host.pc \in {"anchor", "word", "peek", "data"} => host.n < Size
    /\ host.n <= Size
    /\ host.pc \in {"reset", "anchor"} => Placed(host.n)
    /\ host.pc \in {"word", "count"} => Placed(sys.addr)
    /\ host.pc \notin IopLoading => Placed(Size)

\* A peek is in one place of its path, with the address it was asked for.
IopPeek ==
    /\ Pulsing(sys.peek, clk.sys.peek, core.peek[1], core.peek[2], core.peek[3])
    /\ sys.parm = TRUE => sys.pgo = FALSE
    /\ sys.parm = TRUE \/ sys.pgo = TRUE => sys.peek = core.peek[3] /\ core.left = None
    /\ sys.parm = FALSE => clk.sys.ptr = sys.ptr
    /\ core.peek[1] # core.peek[3] => core.paddr[1] = sys.ptr
    /\ core.peek[2] # core.peek[3] => core.paddr[2] = sys.ptr
    /\ core.left # None => /\ core.paddr[1] = sys.ptr /\ core.paddr[2] = sys.ptr
                           /\ sys.peek = core.peek[3]

\* It is answered when the host comes for the word.
IopTimes ==
    /\ sys.parm = TRUE => clk.gap = 0 \/ (clk.gap = 1 /\ clk.edges = 0)
    /\ sys.pgo = TRUE => clk.gap = 0 \/ (clk.gap = 1 /\ clk.edges <= 1)
    /\ clk.gap >= 2 => clk.sys.peek = sys.peek
    /\ clk.gap >= 3 => core.peek[1] = sys.peek
    /\ clk.gap >= 4 => core.peek[2] = sys.peek
    /\ clk.gap >= 5 => core.peek[3] = sys.peek
    /\ clk.gap >= 5 /\ core.left # None => core.left + clk.gap <= PeekSlow + 5
Answered == sys.parm = FALSE /\ sys.pgo = FALSE /\ sys.peek = core.peek[3] /\ core.left = None
IopValue ==
    host.pc = "data" =>
      /\ sys.ptr = host.n
      /\ Answered => core.value = core.rom[host.n]
      /\ clk.gap >= PeekSlow + 6 =>
           /\ clk.edges >= 1 \/ clk.gap >= PeekSlow + 7 => clk.core.value = core.value
           /\ clk.edges >= 2 \/ clk.gap >= PeekSlow + 7 => sys.value[1] = core.value
           /\ clk.edges >= 3 \/ clk.gap >= PeekSlow + 7 => sys.value[2] = core.value

\* What the host has found.
IopFound ==
    /\ host.pc \in IopLoading => host.bad = FALSE
    /\ host.pc \in IopVerifying /\ host.bad = FALSE => \A i \in 0 .. host.n - 1 : core.rom[i] = i
    /\ host.bad = TRUE => \E i \in 0 .. Size - 1 : core.rom[i] # i
    /\ host.pc = "bad" => host.bad = TRUE
    /\ host.pc \in IopRunning => \A i \in 0 .. Size - 1 : core.rom[i] = i

IopInv == /\ IopTypes /\ IopHeld /\ IopSettles /\ IopRests /\ IopOrder /\ IopChunk
          /\ IopRom /\ IopPeek /\ IopTimes /\ IopValue /\ IopFound
-----------------------------------------------------------------------------
(* What an edge of the IOP board does, field by field. *)

LEMMA IopFits ==
  /\ Size \in Nat \ {0} /\ Part \in Nat \ {0} /\ Size % Part = 0
  /\ Gap \in Nat /\ PeekSlow \in Nat /\ PeekSlow + 7 <= Gap
  /\ Slips \in Nat /\ None \notin Nat
  BY RomFits DEF Iop!BoardIopAssumption

LEMMA NextInChunk ==
  ASSUME NEW n \in Nat, (n + 1) % Part # 0
  PROVE  (n + 1) \div Part = n \div Part
<1>1. Part \in Nat \ {0}
  BY IopFits
<1> QED BY <1>1

IopTicks ==
    /\ clk' \in IopClk
    /\ clk'.sys.reset = sys.reset /\ clk'.sys.addr = sys.addr /\ clk'.sys.word = sys.word
    /\ clk'.sys.anchor = sys.anchor /\ clk'.sys.wr = sys.wr /\ clk'.sys.ptr = sys.ptr
    /\ clk'.sys.peek = sys.peek
    /\ clk'.core.value = core.value

LEMMA IopTicksIs ==
  ASSUME IopTypes, NEW n \in 0 .. 4, NEW g \in 0 .. Gap,
         clk' = [sys |-> Iop!SysOut, core |-> Iop!CoreOut, edges |-> n, gap |-> g]
  PROVE  IopTicks /\ clk'.edges = n /\ clk'.gap = g
  BY DEF IopTypes, IopSys, IopCore, IopClk, IopTicks, Iop!SysOut, Iop!CoreOut

\* The registers s that an edge of sys leaves before the host's access.
IopLeaves(s) ==
    /\ s.reset = sys.reset /\ s.addr = sys.addr /\ s.word = sys.word
    /\ s.anchor = sys.anchor /\ s.wr = sys.wr /\ s.ptr = sys.ptr
    /\ s.parm = FALSE /\ s.pgo = sys.parm
    /\ s.peek = IF sys.pgo = TRUE THEN ~sys.peek ELSE sys.peek
    /\ s.value[1] \in {clk.core.value, core.value} /\ s.value[2] = sys.value[1]

LEMMA IopSettledIs ==
  ASSUME IopTypes,
         NEW value \in Iop!Caught(clk.core.value, core.value),
         NEW ready \in Iop!Caught(clk.core.ready, core.ready),
         NEW post \in Iop!Caught(clk.core.post, core.post),
         NEW s, s = Iop!Settled(sys, [value |-> value, ready |-> ready, post |-> post])
  PROVE  s \in IopSys /\ IopLeaves(s)
<1>1. /\ sys \in IopSys
      /\ value \in Val /\ value \in {clk.core.value, core.value}
      /\ ready \in BOOLEAN /\ post \in Posts
  BY DEF IopTypes, IopCore, IopClk, Iop!Caught
<1>2. /\ Iop!Clocked(sys.value, value) \in ValPair
      /\ Iop!Clocked(sys.value, value)[1] = value /\ Iop!Clocked(sys.value, value)[2] = sys.value[1]
      /\ Iop!Clocked(sys.ready, ready) \in Bits /\ Iop!Clocked(sys.post, post) \in PostPair
  BY <1>1 DEF IopSys, Bits, ValPair, PostPair, Iop!Clocked
<1>3. PICK v \in ValPair, r \in Bits, p \in PostPair :
        /\ v = Iop!Clocked(sys.value, value) /\ r = Iop!Clocked(sys.ready, ready)
        /\ p = Iop!Clocked(sys.post, post) /\ v[1] = value /\ v[2] = sys.value[1]
  BY <1>2
<1>4. PICK pk \in BOOLEAN, sf \in BOOLEAN :
        /\ pk = IF sys.pgo THEN ~sys.peek ELSE sys.peek
        /\ sf = IF sys.sgo THEN ~sys.sif ELSE sys.sif
  BY <1>1 DEF IopSys
<1>5. s = [sys EXCEPT !.parm = FALSE, !.pgo = sys.parm, !.peek = pk,
                      !.sarm = FALSE, !.sgo = sys.sarm, !.sif = sf,
                      !.value = v, !.ready = r, !.post = p]
  BY <1>3, <1>4 DEF Iop!Settled
<1>6. s \in IopSys
  <2>1. sys \in IopSys
    BY <1>1
  <2>2. PICK a, b : a \in BOOLEAN /\ b \in BOOLEAN /\ a = sys.parm /\ b = sys.sarm
    BY <1>1 DEF IopSys
  <2>3. PICK t : t = [sys EXCEPT !.parm = FALSE, !.pgo = a, !.peek = pk]
    OBVIOUS
  <2>4. PICK u : u = [t EXCEPT !.sarm = FALSE, !.sgo = b, !.sif = sf]
    OBVIOUS
  <2>5. pk \in BOOLEAN /\ sf \in BOOLEAN /\ v \in ValPair /\ r \in Bits /\ p \in PostPair
    BY <1>3, <1>4
  <2>6. a \in BOOLEAN /\ b \in BOOLEAN
    BY <2>2
  <2>7. t \in IopSys
    BY <2>1, <2>3, <2>5, <2>6, ZenonT(60) DEF IopSys
  <2>8. u \in IopSys
    BY <2>4, <2>7, <2>5, <2>6, ZenonT(60) DEF IopSys
  <2>9. s = [u EXCEPT !.value = v, !.ready = r, !.post = p]
    BY <1>5, <2>2, <2>3, <2>4
  <2> QED BY <2>8, <2>9, <2>5 DEF IopSys
<1>7. /\ s.reset = sys.reset /\ s.addr = sys.addr /\ s.word = sys.word
      /\ s.anchor = sys.anchor /\ s.wr = sys.wr /\ s.ptr = sys.ptr
      /\ s.parm = FALSE /\ s.pgo = sys.parm /\ s.peek = pk /\ s.value = v
  BY <1>1, <1>5, ZenonT(60) DEF IopSys
<1>8. sys.pgo \in BOOLEAN
  BY <1>1 DEF IopSys
<1> QED BY <1>1, <1>3, <1>4, <1>6, <1>7, <1>8 DEF IopLeaves

\* An edge of sys is the registers' own step, and at most one access.
IopQuiet(s) == sys' = s /\ host' = host /\ clk'.gap = clk.gap
IopActs(s) == Iop!Spaced /\ clk'.gap = 0 /\ (Iop!Load(s) \/ Iop!Verify(s) \/ Iop!Run(s))

LEMMA IopSysStep ==
  ASSUME IopTypes, Iop!SysEdge
  PROVE  /\ IopTicks /\ core' = core /\ clk'.edges = clk.edges + 1
         /\ \E s : s \in IopSys /\ IopLeaves(s) /\ (IopQuiet(s) \/ IopActs(s))
<1>1. PICK value \in Iop!Caught(clk.core.value, core.value),
           ready \in Iop!Caught(clk.core.ready, core.ready),
           post \in Iop!Caught(clk.core.post, core.post) :
         LET s == Iop!Settled(sys, [value |-> value, ready |-> ready, post |-> post])
         IN  \/ Iop!Spaced /\ (Iop!Load(s) \/ Iop!Verify(s) \/ Iop!Run(s)) /\ Iop!Tick(0)
             \/ sys' = s /\ UNCHANGED host /\ Iop!Tick(clk.gap)
  BY DEF Iop!SysEdge
<1>2. PICK s : s = Iop!Settled(sys, [value |-> value, ready |-> ready, post |-> post])
  OBVIOUS
<1>3. s \in IopSys /\ IopLeaves(s)
  BY <1>2, IopSettledIs
<1>4. /\ core' = core /\ clk.edges + 1 \in 0 .. 4 /\ clk.gap \in 0 .. Gap /\ 0 \in 0 .. Gap
  BY IopFits DEF Iop!SysEdge, IopTypes, IopClk
<1>5. CASE Iop!Spaced /\ (Iop!Load(s) \/ Iop!Verify(s) \/ Iop!Run(s)) /\ Iop!Tick(0)
  <2>1. IopTicks /\ clk'.edges = clk.edges + 1 /\ clk'.gap = 0
    BY <1>4, <1>5, IopTicksIs DEF Iop!Tick
  <2> QED BY <1>3, <1>4, <1>5, <2>1 DEF IopActs
<1>6. CASE sys' = s /\ UNCHANGED host /\ Iop!Tick(clk.gap)
  <2>1. IopTicks /\ clk'.edges = clk.edges + 1 /\ clk'.gap = clk.gap
    BY <1>4, <1>6, IopTicksIs DEF Iop!Tick
  <2> QED BY <1>3, <1>4, <1>6, <2>1 DEF IopQuiet
<1> QED BY <1>1, <1>2, <1>5, <1>6


\* What an access changes, and what it leaves alone.
IopPcs == IopLoading \cup IopVerifying \cup IopRunning \cup {"bad"}
IopMoves(s) ==
    /\ sys' \in IopSys /\ host' \in IopHost
    /\ sys'.value = s.value /\ sys'.pgo = s.pgo /\ sys'.peek = s.peek
    /\ host.pc # "release" => sys'.reset = sys.reset
    /\ host.pc # "anchor" => sys'.addr = sys.addr /\ sys'.anchor = sys.anchor
    /\ host.pc # "word" => /\ sys'.wr = sys.wr /\ sys'.word = sys.word
                           /\ host'.slipped = host.slipped /\ clk.gap = Gap
    /\ host.pc \notin IopVerifying => /\ sys'.ptr = sys.ptr /\ sys'.parm = FALSE
                                      /\ host'.bad = host.bad
    /\ host.pc \notin {"word", "count", "data"} => host'.n = host.n
    /\ host.pc = "reset" => host'.pc = "anchor"
    /\ host.pc = "anchor" => /\ host'.pc = "word" /\ sys'.addr = host.n
                             /\ sys'.anchor = ~sys.anchor
    /\ host.pc = "word" =>
         /\ sys'.word = host.n /\ sys'.wr = ~sys.wr /\ host'.n = host.n + 1
         /\ host'.pc = IF (host.n + 1) % Part = 0 THEN "count" ELSE "word"
         /\ host'.slipped = IF clk.gap < Gap THEN host.slipped \cup {host.n \div Part} ELSE host.slipped
    /\ host.pc = "count" => \/ host.n < Size /\ host'.pc = "anchor" /\ host'.n = host.n
                            \/ ~(host.n < Size) /\ host'.pc = "peek" /\ host'.n = 0
    /\ host.pc = "peek" => /\ host'.pc = "data" /\ host'.bad = host.bad
                           /\ sys'.ptr = host.n /\ sys'.parm = TRUE
    /\ host.pc = "data" =>
         /\ sys'.ptr = sys.ptr + 1 /\ sys'.parm = TRUE /\ host'.n = host.n + 1
         /\ host'.bad = FALSE <=> host.bad = FALSE /\ sys.value[2] = Iop!Image[host.n]
         /\ host'.pc = IF (host.n + 1) % Part # 0 THEN "data"
                       ELSE IF host.n + 1 < Size THEN "peek"
                       ELSE IF host'.bad THEN "bad" ELSE "release"
    /\ host.pc \in IopRunning => host'.pc \in IopRunning \ {"release"}
    /\ host.pc # "bad"

LEMMA IopGotoIs ==
  ASSUME host \in IopHost, NEW pc \in IopPcs
  PROVE  /\ Iop!Goto(pc) \in IopHost /\ Iop!Goto(pc).pc = pc
         /\ Iop!Goto(pc).n = host.n /\ Iop!Goto(pc).slipped = host.slipped
         /\ Iop!Goto(pc).slips = host.slips /\ Iop!Goto(pc).bad = host.bad
         /\ Iop!Goto(pc).answered = host.answered
  BY DEF IopHost, IopPcs, Iop!Goto

LEMMA IopMovesIs ==
  ASSUME IopTypes, IopHeld, IopRom, NEW s \in IopSys, IopLeaves(s), IopActs(s)
  PROVE  IopMoves(s)
<1>0. /\ host \in IopHost /\ host.pc \in IopPcs /\ host.n \in Nat /\ host.slipped \in SUBSET Nat
      /\ host.slips \in Nat /\ host.bad \in BOOLEAN /\ host.answered \in BOOLEAN
      /\ clk.gap \in 0 .. Gap
  BY DEF IopTypes, IopHost, IopClk, IopPcs
<1>1. /\ s.reset \in BOOLEAN /\ s.anchor \in BOOLEAN /\ s.wr \in BOOLEAN /\ s.ptr \in Nat
      /\ s.addr \in Nat /\ s.word \in Nat
      /\ sys.ready[2] \in BOOLEAN /\ sys.post[2] \in Posts
  BY DEF IopTypes, IopSys, Bits, PostPair
<1>2. /\ s.reset = sys.reset /\ s.addr = sys.addr /\ s.word = sys.word
      /\ s.anchor = sys.anchor /\ s.wr = sys.wr /\ s.ptr = sys.ptr /\ s.parm = FALSE
  BY DEF IopLeaves
<1>3. Part \in Nat \ {0} /\ Size \in Nat \ {0}
  BY IopFits
<1>4. clk.gap = Gap \/ host.pc = "word"
  BY DEF IopActs, Iop!Spaced
<1>20. host.pc = "word" => host.n \in 0 .. Size - 1
  BY <1>0, <1>3 DEF IopRom
<1>5. host.pc # "release" /\ host.pc \notin IopRunning => sys.reset = TRUE
  BY DEF IopHeld

<1>6. CASE /\ host.pc = "anchor"
           /\ sys' = [s EXCEPT !.addr = host.n, !.anchor = ~@]
           /\ host' = Iop!Goto("word")
  <2>1. PICK h : /\ h = Iop!Goto("word") /\ h \in IopHost /\ h.pc = "word"
                 /\ h.n = host.n /\ h.slipped = host.slipped /\ h.bad = host.bad
    BY <1>0, IopGotoIs DEF IopPcs, IopLoading, IopVerifying, IopRunning
  <2>2. host' = h
    BY <2>1, <1>6
  <2>3. sys' \in IopSys
    BY <1>0, <1>1, <1>6 DEF IopSys
  <2>4. /\ sys'.reset = s.reset /\ sys'.word = s.word /\ sys'.wr = s.wr /\ sys'.ptr = s.ptr
        /\ sys'.peek = s.peek /\ sys'.pgo = s.pgo /\ sys'.parm = s.parm /\ sys'.value = s.value
        /\ sys'.addr = host.n /\ sys'.anchor = ~s.anchor
    BY <1>6 DEF IopSys
  <2>9. host.pc = "anchor"
    BY <1>6
  <2> QED BY <1>0, <1>2, <1>4, <1>5, <2>1, <2>2, <2>3, <2>4, <2>9
      DEF IopMoves, IopRunning, IopVerifying, IopPcs, IopLoading
<1>7. CASE /\ host.pc = "count" /\ host.n < Size
           /\ sys' = s
           /\ host' = Iop!Goto("anchor")
  <2>1. PICK h : /\ h = Iop!Goto("anchor") /\ h \in IopHost /\ h.pc = "anchor"
                 /\ h.n = host.n /\ h.slipped = host.slipped /\ h.bad = host.bad
    BY <1>0, IopGotoIs DEF IopPcs, IopLoading, IopVerifying, IopRunning
  <2>2. host' = h
    BY <2>1, <1>7
  <2>3. sys' \in IopSys
    BY <1>0, <1>1, <1>7 DEF IopSys
  <2>4. /\ sys'.reset = s.reset /\ sys'.addr = s.addr /\ sys'.word = s.word /\ sys'.anchor = s.anchor
        /\ sys'.wr = s.wr /\ sys'.ptr = s.ptr /\ sys'.peek = s.peek /\ sys'.pgo = s.pgo
        /\ sys'.parm = s.parm /\ sys'.value = s.value
    BY <1>7 DEF IopSys
  <2>9. host.pc = "count" /\ host.n < Size
    BY <1>7
  <2> QED BY <1>0, <1>2, <1>4, <1>5, <2>1, <2>2, <2>3, <2>4, <2>9
      DEF IopMoves, IopRunning, IopVerifying, IopPcs, IopLoading
<1>8. CASE /\ host.pc = "reset"
           /\ sys' = [s EXCEPT !.reset = TRUE]
           /\ host' = Iop!Goto("anchor")
  <2>1. PICK h : /\ h = Iop!Goto("anchor") /\ h \in IopHost /\ h.pc = "anchor"
                 /\ h.n = host.n /\ h.slipped = host.slipped /\ h.bad = host.bad
    BY <1>0, IopGotoIs DEF IopPcs, IopLoading, IopVerifying, IopRunning
  <2>2. host' = h
    BY <2>1, <1>8
  <2>3. sys' \in IopSys
    BY <1>0, <1>1, <1>8 DEF IopSys
  <2>4. /\ sys'.addr = s.addr /\ sys'.word = s.word /\ sys'.anchor = s.anchor /\ sys'.wr = s.wr
        /\ sys'.ptr = s.ptr /\ sys'.peek = s.peek /\ sys'.pgo = s.pgo /\ sys'.parm = s.parm
        /\ sys'.value = s.value /\ sys'.reset = TRUE
    BY <1>8 DEF IopSys
  <2>9. host.pc = "reset"
    BY <1>8
  <2> QED BY <1>0, <1>2, <1>4, <1>5, <2>1, <2>2, <2>3, <2>4, <2>9
      DEF IopMoves, IopRunning, IopVerifying, IopPcs, IopLoading
<1>9. CASE /\ host.pc = "release"
           /\ sys' = [s EXCEPT !.reset = FALSE]
           /\ host' = Iop!Goto("smflag")
  <2>1. PICK h : /\ h = Iop!Goto("smflag") /\ h \in IopHost /\ h.pc = "smflag"
                 /\ h.n = host.n /\ h.slipped = host.slipped /\ h.bad = host.bad
    BY <1>0, IopGotoIs DEF IopPcs, IopLoading, IopVerifying, IopRunning
  <2>2. host' = h
    BY <2>1, <1>9
  <2>3. sys' \in IopSys
    BY <1>0, <1>1, <1>9 DEF IopSys
  <2>4. /\ sys'.addr = s.addr /\ sys'.word = s.word /\ sys'.anchor = s.anchor /\ sys'.wr = s.wr
        /\ sys'.ptr = s.ptr /\ sys'.peek = s.peek /\ sys'.pgo = s.pgo /\ sys'.parm = s.parm
        /\ sys'.value = s.value /\ sys'.reset = FALSE
    BY <1>9 DEF IopSys
  <2>9. host.pc = "release"
    BY <1>9
  <2> QED BY <1>0, <1>2, <1>4, <1>5, <2>1, <2>2, <2>3, <2>4, <2>9
      DEF IopMoves, IopRunning, IopVerifying, IopPcs, IopLoading
<1>10. CASE /\ host.pc = "smflag"
           /\ sys' = s
           /\ host' = Iop!Goto(IF Iop!Out(sys.ready) /\ ~host.answered THEN "d0" ELSE "status")
  <2>8. PICK pc : pc = (IF Iop!Out(sys.ready) /\ ~host.answered THEN "d0" ELSE "status")
    OBVIOUS
  <2>0. pc \in IopRunning /\ pc # "release" /\ pc \in IopPcs
    BY <1>0, <1>1, <2>8 DEF IopPcs, IopRunning, IopLoading, IopVerifying, Iop!Out, Posts
  <2>1. PICK h : /\ h = Iop!Goto(pc) /\ h \in IopHost /\ h.pc = pc
                 /\ h.n = host.n /\ h.slipped = host.slipped /\ h.bad = host.bad
    BY <1>0, <2>0, IopGotoIs
  <2>2. host' = h
    BY <2>1, <2>8, <1>10
  <2>3. sys' \in IopSys
    BY <1>0, <1>1, <1>10 DEF IopSys
  <2>4. /\ sys'.reset = s.reset /\ sys'.addr = s.addr /\ sys'.word = s.word /\ sys'.anchor = s.anchor
        /\ sys'.wr = s.wr /\ sys'.ptr = s.ptr /\ sys'.peek = s.peek /\ sys'.pgo = s.pgo
        /\ sys'.parm = s.parm /\ sys'.value = s.value
    BY <1>10 DEF IopSys
  <2>9. host.pc = "smflag"
    BY <1>10
  <2> QED BY <1>0, <1>2, <1>4, <1>5, <2>0, <2>1, <2>2, <2>3, <2>4, <2>9
      DEF IopMoves, IopRunning, IopVerifying, IopPcs, IopLoading
<1>11. CASE /\ host.pc = "d0"
           /\ sys' = [s EXCEPT !.data = Iop!Answer[1].data]
           /\ host' = Iop!Goto("g0")
  <2>1. PICK h : /\ h = Iop!Goto("g0") /\ h \in IopHost /\ h.pc = "g0"
                 /\ h.n = host.n /\ h.slipped = host.slipped /\ h.bad = host.bad
    BY <1>0, IopGotoIs DEF IopPcs, IopLoading, IopVerifying, IopRunning
  <2>2. host' = h
    BY <2>1, <1>11
  <2>5. PICK v : v \in Mails /\ v = Iop!Answer[1].data
    BY DEF Iop!Answer, Mails
  <2>6. sys' = [s EXCEPT !.data = v]
    BY <2>5, <1>11
  <2>3. sys' \in IopSys
    BY <2>5, <2>6 DEF IopSys
  <2>4. /\ sys'.reset = s.reset /\ sys'.addr = s.addr /\ sys'.word = s.word /\ sys'.anchor = s.anchor
        /\ sys'.wr = s.wr /\ sys'.ptr = s.ptr /\ sys'.peek = s.peek /\ sys'.pgo = s.pgo
        /\ sys'.parm = s.parm /\ sys'.value = s.value
    BY <2>6 DEF IopSys
  <2>9. host.pc = "d0"
    BY <1>11
  <2> QED BY <1>0, <1>2, <1>4, <1>5, <2>1, <2>2, <2>3, <2>4, <2>9
      DEF IopMoves, IopRunning, IopVerifying, IopPcs, IopLoading
<1>12. CASE /\ host.pc = "g0"
           /\ sys' = [s EXCEPT !.sel = Iop!Answer[1].sel, !.sarm = TRUE]
           /\ host' = Iop!Goto("d1")
  <2>1. PICK h : /\ h = Iop!Goto("d1") /\ h \in IopHost /\ h.pc = "d1"
                 /\ h.n = host.n /\ h.slipped = host.slipped /\ h.bad = host.bad
    BY <1>0, IopGotoIs DEF IopPcs, IopLoading, IopVerifying, IopRunning
  <2>2. host' = h
    BY <2>1, <1>12
  <2>5. PICK v : v \in Sels /\ v = Iop!Answer[1].sel
    BY DEF Iop!Answer, Sels
  <2>6. sys' = [s EXCEPT !.sel = v, !.sarm = TRUE]
    BY <2>5, <1>12
  <2>3. sys' \in IopSys
    BY <2>5, <2>6 DEF IopSys
  <2>4. /\ sys'.reset = s.reset /\ sys'.addr = s.addr /\ sys'.word = s.word /\ sys'.anchor = s.anchor
        /\ sys'.wr = s.wr /\ sys'.ptr = s.ptr /\ sys'.peek = s.peek /\ sys'.pgo = s.pgo
        /\ sys'.parm = s.parm /\ sys'.value = s.value
    BY <2>6 DEF IopSys
  <2>9. host.pc = "g0"
    BY <1>12
  <2> QED BY <1>0, <1>2, <1>4, <1>5, <2>1, <2>2, <2>3, <2>4, <2>9
      DEF IopMoves, IopRunning, IopVerifying, IopPcs, IopLoading
<1>13. CASE /\ host.pc = "d1"
           /\ sys' = [s EXCEPT !.data = Iop!Answer[2].data]
           /\ host' = Iop!Goto("g1")
  <2>1. PICK h : /\ h = Iop!Goto("g1") /\ h \in IopHost /\ h.pc = "g1"
                 /\ h.n = host.n /\ h.slipped = host.slipped /\ h.bad = host.bad
    BY <1>0, IopGotoIs DEF IopPcs, IopLoading, IopVerifying, IopRunning
  <2>2. host' = h
    BY <2>1, <1>13
  <2>5. PICK v : v \in Mails /\ v = Iop!Answer[2].data
    BY DEF Iop!Answer, Mails
  <2>6. sys' = [s EXCEPT !.data = v]
    BY <2>5, <1>13
  <2>3. sys' \in IopSys
    BY <2>5, <2>6 DEF IopSys
  <2>4. /\ sys'.reset = s.reset /\ sys'.addr = s.addr /\ sys'.word = s.word /\ sys'.anchor = s.anchor
        /\ sys'.wr = s.wr /\ sys'.ptr = s.ptr /\ sys'.peek = s.peek /\ sys'.pgo = s.pgo
        /\ sys'.parm = s.parm /\ sys'.value = s.value
    BY <2>6 DEF IopSys
  <2>9. host.pc = "d1"
    BY <1>13
  <2> QED BY <1>0, <1>2, <1>4, <1>5, <2>1, <2>2, <2>3, <2>4, <2>9
      DEF IopMoves, IopRunning, IopVerifying, IopPcs, IopLoading
<1>14. CASE /\ host.pc = "status"
           /\ sys' = s
           /\ host' = Iop!Goto(IF Iop!Out(sys.post) = None THEN "smflag" ELSE Iop!Out(sys.post))
  <2>8. PICK pc : pc = (IF Iop!Out(sys.post) = None THEN "smflag" ELSE Iop!Out(sys.post))
    OBVIOUS
  <2>0. pc \in IopRunning /\ pc # "release" /\ pc \in IopPcs
    BY <1>0, <1>1, <2>8 DEF IopPcs, IopRunning, IopLoading, IopVerifying, Iop!Out, Posts
  <2>1. PICK h : /\ h = Iop!Goto(pc) /\ h \in IopHost /\ h.pc = pc
                 /\ h.n = host.n /\ h.slipped = host.slipped /\ h.bad = host.bad
    BY <1>0, <2>0, IopGotoIs
  <2>2. host' = h
    BY <2>1, <2>8, <1>14
  <2>3. sys' \in IopSys
    BY <1>0, <1>1, <1>14 DEF IopSys
  <2>4. /\ sys'.reset = s.reset /\ sys'.addr = s.addr /\ sys'.word = s.word /\ sys'.anchor = s.anchor
        /\ sys'.wr = s.wr /\ sys'.ptr = s.ptr /\ sys'.peek = s.peek /\ sys'.pgo = s.pgo
        /\ sys'.parm = s.parm /\ sys'.value = s.value
    BY <1>14 DEF IopSys
  <2>9. host.pc = "status"
    BY <1>14
  <2> QED BY <1>0, <1>2, <1>4, <1>5, <2>0, <2>1, <2>2, <2>3, <2>4, <2>9
      DEF IopMoves, IopRunning, IopVerifying, IopPcs, IopLoading
<1>15. CASE /\ host.pc = "peek"
           /\ sys' = [s EXCEPT !.ptr = host.n, !.parm = TRUE]
           /\ host' = Iop!Goto("data")
  <2>1. PICK h : /\ h = Iop!Goto("data") /\ h \in IopHost /\ h.pc = "data"
                 /\ h.n = host.n /\ h.slipped = host.slipped /\ h.bad = host.bad
    BY <1>0, IopGotoIs DEF IopPcs, IopLoading, IopVerifying, IopRunning
  <2>2. host' = h
    BY <2>1, <1>15
  <2>3. sys' \in IopSys
    BY <1>0, <1>1, <1>15 DEF IopSys
  <2>4. /\ sys'.reset = s.reset /\ sys'.addr = s.addr /\ sys'.word = s.word /\ sys'.anchor = s.anchor
        /\ sys'.wr = s.wr /\ sys'.peek = s.peek /\ sys'.pgo = s.pgo /\ sys'.value = s.value
        /\ sys'.ptr = host.n /\ sys'.parm = TRUE
    BY <1>15 DEF IopSys
  <2>9. host.pc = "peek"
    BY <1>15
  <2> QED BY <1>0, <1>2, <1>4, <1>5, <2>1, <2>2, <2>3, <2>4, <2>9
      DEF IopMoves, IopRunning, IopVerifying, IopPcs, IopLoading
<1>16. CASE /\ host.pc = "g1" /\ sys' = [s EXCEPT !.sel = Iop!Answer[2].sel, !.sarm = TRUE]
            /\ host' = [Iop!Goto("status") EXCEPT !.answered = TRUE]
  <2>1. PICK h : /\ h = Iop!Goto("status") /\ h \in IopHost /\ h.pc = "status"
                 /\ h.n = host.n /\ h.slipped = host.slipped /\ h.bad = host.bad
    BY <1>0, IopGotoIs DEF IopPcs, IopLoading, IopVerifying, IopRunning
  <2>2. host' = [h EXCEPT !.answered = TRUE]
    BY <2>1, <1>16
  <2>7. /\ host' \in IopHost /\ host'.pc = "status" /\ host'.n = host.n
        /\ host'.slipped = host.slipped /\ host'.bad = host.bad
    BY <2>1, <2>2 DEF IopHost
  <2>5. PICK v : v \in Sels /\ v = Iop!Answer[2].sel
    BY DEF Iop!Answer, Sels
  <2>6. sys' = [s EXCEPT !.sel = v, !.sarm = TRUE]
    BY <2>5, <1>16
  <2>3. sys' \in IopSys
    BY <2>5, <2>6 DEF IopSys
  <2>4. /\ sys'.reset = s.reset /\ sys'.addr = s.addr /\ sys'.word = s.word /\ sys'.anchor = s.anchor
        /\ sys'.wr = s.wr /\ sys'.ptr = s.ptr /\ sys'.peek = s.peek /\ sys'.pgo = s.pgo
        /\ sys'.parm = s.parm /\ sys'.value = s.value
    BY <2>6 DEF IopSys
  <2>9. host.pc = "g1"
    BY <1>16
  <2> QED BY <1>0, <1>2, <1>4, <1>5, <2>3, <2>4, <2>7, <2>9
      DEF IopMoves, IopRunning, IopVerifying, IopPcs, IopLoading
<1>17. CASE /\ host.pc = "count" /\ ~(host.n < Size) /\ sys' = s
            /\ host' = [Iop!Goto("peek") EXCEPT !.n = 0]
  <2>1. PICK h : /\ h = Iop!Goto("peek") /\ h \in IopHost /\ h.pc = "peek"
                 /\ h.n = host.n /\ h.slipped = host.slipped /\ h.bad = host.bad
    BY <1>0, IopGotoIs DEF IopPcs, IopLoading, IopVerifying, IopRunning
  <2>2. host' = [h EXCEPT !.n = 0]
    BY <2>1, <1>17
  <2>7. /\ host' \in IopHost /\ host'.pc = "peek" /\ host'.n = 0
        /\ host'.slipped = host.slipped /\ host'.bad = host.bad
    BY <2>1, <2>2 DEF IopHost
  <2>9. host.pc = "count" /\ ~(host.n < Size) /\ sys' = s
    BY <1>17
  <2> QED BY <1>0, <1>2, <1>4, <1>5, <2>7, <2>9
      DEF IopMoves, IopRunning, IopVerifying, IopPcs, IopLoading
<1>18. CASE /\ host.pc = "word"
            /\ sys' = [s EXCEPT !.word = Iop!Image[host.n], !.wr = ~@]
            /\ host' = [host EXCEPT !.n = @ + 1,
                               !.pc = IF (host.n + 1) % Part = 0 THEN "count" ELSE "word",
                               !.slips = IF clk.gap < Gap THEN @ + 1 ELSE @,
                               !.slipped = IF clk.gap < Gap THEN @ \cup {host.n \div Part} ELSE @]
  <2>1. PICK n, pc, sl, st : /\ n = host.n + 1 /\ pc = (IF (host.n + 1) % Part = 0 THEN "count" ELSE "word")
                             /\ sl = (IF clk.gap < Gap THEN host.slips + 1 ELSE host.slips)
                             /\ st = (IF clk.gap < Gap THEN host.slipped \cup {host.n \div Part} ELSE host.slipped)
    OBVIOUS
  <2>2. n \in Nat /\ pc \in IopPcs /\ sl \in Nat
    BY <1>0, <2>1 DEF IopPcs, IopLoading
  <2>3. st \in SUBSET Nat
    <3>1. host.n \div Part \in Nat
      BY <1>0, <1>3
    <3> QED BY <1>0, <2>1, <3>1
  <2>4. host' = [host EXCEPT !.n = n, !.pc = pc, !.slips = sl, !.slipped = st]
    BY <1>18, <2>1
  <2>5. /\ host' \in IopHost /\ host'.n = n /\ host'.pc = pc /\ host'.slipped = st
        /\ host'.bad = host.bad
    BY <1>0, <2>2, <2>3, <2>4 DEF IopHost, IopPcs
  <2>6. Iop!Image[host.n] = host.n
    BY <1>18, <1>20 DEF Iop!Image
  <2>7. sys' = [s EXCEPT !.word = host.n, !.wr = ~s.wr]
    BY <1>18, <2>6
  <2>8. sys' \in IopSys
    BY <1>0, <1>1, <2>7 DEF IopSys
  <2>10. /\ sys'.reset = s.reset /\ sys'.addr = s.addr /\ sys'.word = host.n /\ sys'.anchor = s.anchor
         /\ sys'.wr = ~s.wr /\ sys'.ptr = s.ptr /\ sys'.peek = s.peek /\ sys'.pgo = s.pgo
         /\ sys'.parm = s.parm /\ sys'.value = s.value
    BY <2>7 DEF IopSys
  <2>9. host.pc = "word"
    BY <1>18
  <2> QED BY <1>0, <1>2, <1>5, <2>1, <2>5, <2>8, <2>9, <2>10
      DEF IopMoves, IopRunning, IopVerifying, IopPcs, IopLoading
<1>19. CASE /\ host.pc = "data"
            /\ sys' = Iop!PeekAt(s, s.ptr + 1)
            /\ LET h == [host EXCEPT !.n = @ + 1, !.bad = @ \/ Iop!Out(sys.value) # Iop!Image[host.n]]
               IN  host' = [h EXCEPT !.pc = IF h.n % Part # 0 THEN "data" ELSE IF h.n < Size THEN "peek"
                                            ELSE IF h.bad THEN "bad" ELSE "release"]
  <2>1. PICK b : b \in BOOLEAN /\ b = (host.bad \/ Iop!Out(sys.value) # Iop!Image[host.n])
    BY <1>0
  <2>13. PICK n, p : n \in Nat /\ n = host.n + 1 /\ p \in Nat /\ p = s.ptr + 1
    BY <1>0, <1>1
  <2>2. PICK h : h = [host EXCEPT !.n = n, !.bad = b]
    OBVIOUS
  <2>3. h \in IopHost /\ h.n = n /\ h.bad = b /\ h.slipped = host.slipped
    BY <1>0, <2>1, <2>2, <2>13 DEF IopHost
  <2>4. PICK pc : pc = (IF (host.n + 1) % Part # 0 THEN "data" ELSE IF host.n + 1 < Size THEN "peek"
                        ELSE IF b THEN "bad" ELSE "release")
    OBVIOUS
  <2>5. pc \in IopPcs
    BY <2>4 DEF IopPcs, IopVerifying, IopRunning
  <2>6. host' = [h EXCEPT !.pc = pc]
    BY <1>19, <2>1, <2>2, <2>3, <2>4, <2>13
  <2>7. /\ host' \in IopHost /\ host'.n = host.n + 1 /\ host'.pc = pc /\ host'.slipped = host.slipped
        /\ host'.bad = b
    BY <2>3, <2>5, <2>6, <2>13 DEF IopHost, IopPcs
  <2>8. sys' = [s EXCEPT !.ptr = p, !.parm = TRUE]
    BY <1>19, <2>13 DEF Iop!PeekAt
  <2>10. sys' \in IopSys
    BY <2>13, <2>8 DEF IopSys
  <2>11. /\ sys'.reset = s.reset /\ sys'.addr = s.addr /\ sys'.word = s.word /\ sys'.anchor = s.anchor
         /\ sys'.wr = s.wr /\ sys'.ptr = s.ptr + 1 /\ sys'.peek = s.peek /\ sys'.pgo = s.pgo
         /\ sys'.parm = TRUE /\ sys'.value = s.value
    BY <2>8, <2>13 DEF IopSys
  <2>12. b = FALSE <=> host.bad = FALSE /\ sys.value[2] = Iop!Image[host.n]
    BY <1>0, <2>1 DEF Iop!Out
  <2>9. host.pc = "data"
    BY <1>19
  <2> QED BY <1>0, <1>2, <1>4, <1>5, <2>4, <2>7, <2>9, <2>10, <2>11, <2>12
      DEF IopMoves, IopRunning, IopVerifying, IopPcs, IopLoading
<1> QED
  BY <1>6, <1>7, <1>8, <1>9, <1>10, <1>11, <1>12, <1>13, <1>14, <1>15, <1>16, <1>17, <1>18, <1>19
  DEF IopActs, Iop!Load, Iop!Verify, Iop!Run, Iop!NextChunk, Iop!PeekAt

\* An edge of the IOP's clock.
IopClocks ==
    /\ core' \in IopCore
    /\ core'.rst[1] \in {clk.sys.reset, sys.reset} /\ core'.rst[2] = core.rst[1]
    /\ core'.anchor[1] \in {clk.sys.anchor, sys.anchor}
    /\ core'.anchor[2] = core.anchor[1] /\ core'.anchor[3] = core.anchor[2]
    /\ core'.wr[1] \in {clk.sys.wr, sys.wr}
    /\ core'.wr[2] = core.wr[1] /\ core'.wr[3] = core.wr[2]
    /\ core'.peek[1] \in {clk.sys.peek, sys.peek}
    /\ core'.peek[2] = core.peek[1] /\ core'.peek[3] = core.peek[2]
    /\ core'.paddr[1] \in {clk.sys.ptr, sys.ptr} /\ core'.paddr[2] = core.paddr[1]
IopStores ==
    /\ core'.rom = IF core.rom_wr = TRUE /\ core.ptr < Size THEN [core.rom EXCEPT ![core.ptr] = core.word]
                   ELSE core.rom
    /\ core.anchor[2] # core.anchor[3] => core'.ptr \in {clk.sys.addr, sys.addr}
    /\ core.anchor[2] = core.anchor[3] => core'.ptr = IF core.rom_wr = TRUE THEN core.ptr + 1 ELSE core.ptr
    /\ core'.rom_wr = TRUE <=> core.wr[2] # core.wr[3]
    /\ core.wr[2] # core.wr[3] => core'.word \in {clk.sys.word, sys.word}
    /\ core.wr[2] = core.wr[3] => core'.word = core.word
IopPeeks ==
    \/ /\ core.peek[2] # core.peek[3] /\ core.rst[2] = TRUE
       /\ core'.left \in 0 .. PeekSlow /\ core'.value = core.value
    \/ /\ core.peek[2] = core.peek[3] \/ core.rst[2] = FALSE
       /\ \/ core.left = None /\ core'.left = None /\ core'.value = core.value
          \/ core.left # None /\ core.left > 0 /\ core'.left = core.left - 1 /\ core'.value = core.value
          \/ core.left = 0 /\ core'.left = None
             /\ core'.value = IF core.paddr[2] < Size THEN core'.rom[core.paddr[2]] ELSE None

LEMMA IopCaughtIs ==
  ASSUME IopTypes,
         NEW reset \in Iop!Caught(clk.sys.reset, sys.reset), NEW addr \in Iop!Caught(clk.sys.addr, sys.addr),
         NEW word \in Iop!Caught(clk.sys.word, sys.word), NEW anchor \in Iop!Caught(clk.sys.anchor, sys.anchor),
         NEW wr \in Iop!Caught(clk.sys.wr, sys.wr), NEW ptr \in Iop!Caught(clk.sys.ptr, sys.ptr),
         NEW peek \in Iop!Caught(clk.sys.peek, sys.peek), NEW data \in Iop!Caught(clk.sys.data, sys.data),
         NEW sel \in Iop!Caught(clk.sys.sel, sys.sel), NEW sif \in Iop!Caught(clk.sys.sif, sys.sif)
  PROVE  /\ reset \in BOOLEAN /\ addr \in Nat /\ word \in Nat /\ anchor \in BOOLEAN
         /\ wr \in BOOLEAN /\ ptr \in Nat /\ peek \in BOOLEAN /\ data \in Mails
         /\ sel \in Sels /\ sif \in BOOLEAN
         /\ reset \in {clk.sys.reset, sys.reset} /\ addr \in {clk.sys.addr, sys.addr}
         /\ word \in {clk.sys.word, sys.word} /\ anchor \in {clk.sys.anchor, sys.anchor}
         /\ wr \in {clk.sys.wr, sys.wr} /\ ptr \in {clk.sys.ptr, sys.ptr}
         /\ peek \in {clk.sys.peek, sys.peek}
<1>1. sys \in IopSys /\ clk \in IopClk
  BY DEF IopTypes
<1>2. /\ sys.reset \in BOOLEAN /\ sys.addr \in Nat /\ sys.word \in Nat /\ sys.anchor \in BOOLEAN
      /\ sys.wr \in BOOLEAN /\ sys.ptr \in Nat /\ sys.peek \in BOOLEAN /\ sys.data \in Mails
      /\ sys.sel \in Sels /\ sys.sif \in BOOLEAN
  BY <1>1 DEF IopSys
<1>3. /\ clk.sys.reset \in BOOLEAN /\ clk.sys.addr \in Nat /\ clk.sys.word \in Nat
      /\ clk.sys.anchor \in BOOLEAN /\ clk.sys.wr \in BOOLEAN /\ clk.sys.ptr \in Nat
      /\ clk.sys.peek \in BOOLEAN /\ clk.sys.data \in Mails /\ clk.sys.sel \in Sels
      /\ clk.sys.sif \in BOOLEAN
  BY <1>1 DEF IopClk
<1> QED BY <1>2, <1>3 DEF Iop!Caught

\* What the ROM port, the peek port and the mailbox leave of the registers.
RomPortDone(c, p, addr, word) ==
    /\ p \in IopCore
    /\ p.rom = IF c.rom_wr = TRUE /\ c.ptr < Size THEN [c.rom EXCEPT ![c.ptr] = c.word]
               ELSE c.rom
    /\ p.ptr = IF c.anchor[2] # c.anchor[3] THEN addr
               ELSE IF c.rom_wr = TRUE THEN c.ptr + 1 ELSE c.ptr
    /\ p.rom_wr = TRUE <=> c.wr[2] # c.wr[3]
    /\ p.word = IF c.wr[2] # c.wr[3] THEN word ELSE c.word
    /\ p.rst = c.rst /\ p.anchor = c.anchor /\ p.wr = c.wr /\ p.peek = c.peek
    /\ p.paddr = c.paddr /\ p.left = c.left /\ p.value = c.value
    /\ p.sif = c.sif /\ p.sel = c.sel /\ p.data = c.data
    /\ p.MSCOM = c.MSCOM /\ p.MSFLAG = c.MSFLAG /\ p.ready = c.ready /\ p.post = c.post
PeekPortDone(p, q) ==
    /\ q \in IopCore
    /\ \/ p.peek[2] # p.peek[3] /\ p.rst[2] = TRUE /\ q.left \in 0 .. PeekSlow /\ q.value = p.value
       \/ /\ p.peek[2] = p.peek[3] \/ p.rst[2] = FALSE
          /\ \/ p.left = None /\ q.left = None /\ q.value = p.value
             \/ p.left # None /\ p.left > 0 /\ q.left = p.left - 1 /\ q.value = p.value
             \/ p.left = 0 /\ q.left = None
                /\ q.value = IF p.paddr[2] < Size THEN p.rom[p.paddr[2]] ELSE None
    /\ q.rom = p.rom /\ q.ptr = p.ptr /\ q.rom_wr = p.rom_wr /\ q.word = p.word
    /\ q.rst = p.rst /\ q.anchor = p.anchor /\ q.wr = p.wr /\ q.peek = p.peek /\ q.paddr = p.paddr
    /\ q.sif = p.sif /\ q.sel = p.sel /\ q.data = p.data
    /\ q.MSCOM = p.MSCOM /\ q.MSFLAG = p.MSFLAG /\ q.ready = p.ready /\ q.post = p.post
MailboxDone(q, m) ==
    /\ m \in IopCore
    /\ m.left = q.left /\ m.value = q.value
    /\ m.rom = q.rom /\ m.ptr = q.ptr /\ m.rom_wr = q.rom_wr /\ m.word = q.word
    /\ m.rst = q.rst /\ m.anchor = q.anchor /\ m.wr = q.wr /\ m.peek = q.peek /\ m.paddr = q.paddr
    /\ m.sif = q.sif /\ m.sel = q.sel /\ m.data = q.data

\* The ROM port, the peek port and the mailbox in turn; each leaves the others alone.
LEMMA RomPortIs ==
  ASSUME core \in IopCore, NEW addr \in Nat, NEW word \in Nat, NEW p, p = Iop!RomPort(core, addr, word)
  PROVE  RomPortDone(core, p, addr, word)
<1>1. /\ core.rom \in [0 .. Size - 1 -> Val] /\ core.ptr \in Nat /\ core.word \in Nat
      /\ core.rom_wr \in BOOLEAN
  BY DEF IopCore
<1>2. PICK r, q, b, w :
        /\ r = (IF core.rom_wr /\ core.ptr < Size THEN [core.rom EXCEPT ![core.ptr] = core.word] ELSE core.rom)
        /\ q = (IF Iop!Pulse(core.anchor) THEN addr ELSE IF core.rom_wr THEN core.ptr + 1 ELSE core.ptr)
        /\ b = Iop!Pulse(core.wr)
        /\ w = (IF Iop!Pulse(core.wr) THEN word ELSE core.word)
  OBVIOUS
<1>3. r \in [0 .. Size - 1 -> Val]
  BY <1>1, <1>2 DEF Val
<1>4. q \in Nat /\ w \in Nat
  BY <1>1, <1>2
<1>5. b \in BOOLEAN /\ (b = TRUE <=> core.wr[2] # core.wr[3])
  BY <1>2 DEF Iop!Pulse
<1>6. p = [core EXCEPT !.rom = r, !.ptr = q, !.rom_wr = b, !.word = w]
  BY <1>2 DEF Iop!RomPort
<1>7. p \in IopCore
  <2>1. PICK t : t = [core EXCEPT !.rom = r]
    OBVIOUS
  <2>2. t \in IopCore
    BY <1>3, <2>1 DEF IopCore
  <2>3. PICK u : u = [t EXCEPT !.ptr = q]
    OBVIOUS
  <2>4. u \in IopCore
    BY <1>4, <2>2, <2>3 DEF IopCore
  <2>5. PICK v : v = [u EXCEPT !.rom_wr = b]
    OBVIOUS
  <2>6. v \in IopCore
    BY <1>5, <2>4, <2>5 DEF IopCore
  <2>7. p = [v EXCEPT !.word = w]
    BY <1>6, <2>1, <2>3, <2>5
  <2> QED BY <1>4, <2>6, <2>7 DEF IopCore
<1>8. p.rom = r /\ p.ptr = q /\ p.rom_wr = b /\ p.word = w
  BY <1>6 DEF IopCore
<1>9. /\ p.rst = core.rst /\ p.anchor = core.anchor /\ p.wr = core.wr /\ p.peek = core.peek
      /\ p.paddr = core.paddr /\ p.left = core.left /\ p.value = core.value
      /\ p.sif = core.sif /\ p.sel = core.sel /\ p.data = core.data
      /\ p.MSCOM = core.MSCOM /\ p.MSFLAG = core.MSFLAG /\ p.ready = core.ready /\ p.post = core.post
  BY <1>6 DEF IopCore
<1>10. p.rom = IF core.rom_wr = TRUE /\ core.ptr < Size THEN [core.rom EXCEPT ![core.ptr] = core.word]
               ELSE core.rom
  BY <1>1, <1>2, <1>8
<1>11. /\ p.ptr = IF core.anchor[2] # core.anchor[3] THEN addr
                  ELSE IF core.rom_wr = TRUE THEN core.ptr + 1 ELSE core.ptr
       /\ p.word = IF core.wr[2] # core.wr[3] THEN word ELSE core.word
  BY <1>1, <1>2, <1>8 DEF Iop!Pulse
<1> QED BY <1>5, <1>7, <1>8, <1>9, <1>10, <1>11 DEF RomPortDone

\* q is p but for the peek under way and its answer.
LEMMA PeekPortIs ==
  ASSUME NEW p \in IopCore, NEW k \in 0 .. PeekSlow, NEW q, q = Iop!PeekPort(p, k)
  PROVE  PeekPortDone(p, q)
<1>1. /\ p.left \in (0 .. PeekSlow) \cup {None} /\ p.value \in Val /\ p.paddr \in Nat \X Nat
      /\ p.rom \in [0 .. Size - 1 -> Val] /\ p.rst \in Bits
  BY DEF IopCore
<1>2. PeekSlow \in Nat /\ None \notin Nat /\ Size \in Nat
  BY IopFits
<1>3. p.rst[2] \in BOOLEAN /\ p.paddr[2] \in Nat
  BY <1>1 DEF Bits
<1>4. PICK v : v \in Val /\ v = IF p.paddr[2] < Size THEN p.rom[p.paddr[2]] ELSE None
  BY <1>1, <1>2, <1>3 DEF Val
<1>5. CASE p.peek[2] # p.peek[3] /\ p.rst[2] = TRUE
  <2>1. q = [p EXCEPT !.left = k]
    BY <1>5 DEF Iop!PeekPort, Iop!Pulse, Iop!Out
  <2>2. q \in IopCore /\ q.left = k /\ q.value = p.value
    BY <2>1 DEF IopCore
  <2>3. /\ q.rom = p.rom /\ q.ptr = p.ptr /\ q.rom_wr = p.rom_wr /\ q.word = p.word
        /\ q.rst = p.rst /\ q.anchor = p.anchor /\ q.wr = p.wr /\ q.peek = p.peek /\ q.paddr = p.paddr
        /\ q.sif = p.sif /\ q.sel = p.sel /\ q.data = p.data
        /\ q.MSCOM = p.MSCOM /\ q.MSFLAG = p.MSFLAG /\ q.ready = p.ready /\ q.post = p.post
    BY <2>1 DEF IopCore
  <2> QED BY <1>5, <2>2, <2>3 DEF PeekPortDone
<1>6. CASE (p.peek[2] = p.peek[3] \/ p.rst[2] = FALSE) /\ p.left = None
  <2>1. q = p
    BY <1>6 DEF Iop!PeekPort, Iop!Pulse, Iop!Out
  <2> QED BY <1>6, <2>1 DEF PeekPortDone
<1>7. CASE (p.peek[2] = p.peek[3] \/ p.rst[2] = FALSE) /\ p.left # None /\ p.left > 0
  <2>0. PICK l : l \in 0 .. PeekSlow /\ l = p.left - 1
    BY <1>1, <1>2, <1>7
  <2>1. q = [p EXCEPT !.left = l]
    BY <1>7, <2>0 DEF Iop!PeekPort, Iop!Pulse, Iop!Out
  <2>2. q \in IopCore /\ q.left = l /\ q.value = p.value
    BY <2>0, <2>1 DEF IopCore
  <2>3. /\ q.rom = p.rom /\ q.ptr = p.ptr /\ q.rom_wr = p.rom_wr /\ q.word = p.word
        /\ q.rst = p.rst /\ q.anchor = p.anchor /\ q.wr = p.wr /\ q.peek = p.peek /\ q.paddr = p.paddr
        /\ q.sif = p.sif /\ q.sel = p.sel /\ q.data = p.data
        /\ q.MSCOM = p.MSCOM /\ q.MSFLAG = p.MSFLAG /\ q.ready = p.ready /\ q.post = p.post
    BY <2>1 DEF IopCore
  <2> QED BY <1>7, <2>0, <2>2, <2>3 DEF PeekPortDone
<1>8. CASE (p.peek[2] = p.peek[3] \/ p.rst[2] = FALSE) /\ p.left # None /\ ~(p.left > 0)
  <2>0. p.left = 0
    BY <1>1, <1>2, <1>8
  <2>1. q = [p EXCEPT !.left = None, !.value = v]
    BY <1>4, <1>8 DEF Iop!PeekPort, Iop!Pulse, Iop!Out
  <2>2. q \in IopCore /\ q.left = None /\ q.value = v
    BY <1>4, <2>1, ZenonT(60) DEF IopCore
  <2>3. /\ q.rom = p.rom /\ q.ptr = p.ptr /\ q.rom_wr = p.rom_wr /\ q.word = p.word
        /\ q.rst = p.rst /\ q.anchor = p.anchor /\ q.wr = p.wr /\ q.peek = p.peek /\ q.paddr = p.paddr
        /\ q.sif = p.sif /\ q.sel = p.sel /\ q.data = p.data
        /\ q.MSCOM = p.MSCOM /\ q.MSFLAG = p.MSFLAG /\ q.ready = p.ready /\ q.post = p.post
    BY <2>1 DEF IopCore
  <2> QED BY <1>4, <1>8, <2>0, <2>2, <2>3 DEF PeekPortDone
<1> QED BY <1>3, <1>5, <1>6, <1>7, <1>8 DEF PeekPortDone

LEMMA MailboxIs ==
  ASSUME NEW q \in IopCore, NEW m, m = Iop!Mailbox(q)
  PROVE  MailboxDone(q, m)
<1>1. /\ q.MSCOM \in Mails /\ q.MSFLAG \in Mails /\ q.post \in Posts /\ q.data[2] \in Mails
  BY DEF IopCore, MailPair
<1>2. PICK a, b, p :
        /\ a = (IF Iop!Pulse(q.sif) /\ Iop!Out(q.sel) = "MSCOM" THEN Iop!Out(q.data) ELSE q.MSCOM)
        /\ b = (IF Iop!Pulse(q.sif) /\ Iop!Out(q.sel) = "MSFLAG" THEN Iop!Out(q.data) ELSE q.MSFLAG)
        /\ p = (IF q.MSFLAG = None \/ q.post # None THEN q.post
                ELSE IF q.MSFLAG = "SIFINIT" /\ q.MSCOM = "greeting" THEN "pass" ELSE "fail")
  OBVIOUS
<1>3. a \in Mails /\ b \in Mails /\ p \in Posts
  BY <1>1, <1>2 DEF Iop!Out, Posts
<1>4. None \in Mails /\ None \in Posts
  BY DEF Mails, Posts
<1>5. CASE Iop!Out(q.rst)
  <2>1. m = [q EXCEPT !.MSCOM = None, !.MSFLAG = None, !.ready = FALSE, !.post = None]
    BY <1>5 DEF Iop!Mailbox
  <2>2. m \in IopCore
    <3>1. PICK t : t = [q EXCEPT !.MSCOM = None]
      OBVIOUS
    <3>2. t \in IopCore
      BY <1>4, <3>1 DEF IopCore
    <3>3. PICK u : u = [t EXCEPT !.MSFLAG = None]
      OBVIOUS
    <3>4. u \in IopCore
      BY <1>4, <3>2, <3>3 DEF IopCore
    <3>5. PICK v : v = [u EXCEPT !.ready = FALSE]
      OBVIOUS
    <3>6. v \in IopCore
      BY <1>4, <3>4, <3>5 DEF IopCore
    <3>7. m = [v EXCEPT !.post = None]
      BY <2>1, <3>1, <3>3, <3>5
    <3> QED BY <1>4, <3>6, <3>7 DEF IopCore
  <2>3. /\ m.left = q.left /\ m.value = q.value
        /\ m.rom = q.rom /\ m.ptr = q.ptr /\ m.rom_wr = q.rom_wr /\ m.word = q.word
        /\ m.rst = q.rst /\ m.anchor = q.anchor /\ m.wr = q.wr /\ m.peek = q.peek /\ m.paddr = q.paddr
        /\ m.sif = q.sif /\ m.sel = q.sel /\ m.data = q.data
    BY <2>1 DEF IopCore
  <2> QED BY <2>2, <2>3 DEF MailboxDone
<1>6. CASE ~Iop!Out(q.rst)
  <2>1. m = [q EXCEPT !.MSCOM = a, !.MSFLAG = b, !.ready = TRUE, !.post = p]
    BY <1>2, <1>6 DEF Iop!Mailbox
  <2>2. m \in IopCore
    <3>1. PICK t : t = [q EXCEPT !.MSCOM = a]
      OBVIOUS
    <3>2. t \in IopCore
      BY <1>3, <3>1 DEF IopCore
    <3>3. PICK u : u = [t EXCEPT !.MSFLAG = b]
      OBVIOUS
    <3>4. u \in IopCore
      BY <1>3, <3>2, <3>3 DEF IopCore
    <3>5. PICK v : v = [u EXCEPT !.ready = TRUE]
      OBVIOUS
    <3>6. v \in IopCore
      BY <1>3, <3>4, <3>5 DEF IopCore
    <3>7. m = [v EXCEPT !.post = p]
      BY <2>1, <3>1, <3>3, <3>5
    <3> QED BY <1>3, <3>6, <3>7, SMTT(30) DEF IopCore
  <2>3. /\ m.left = q.left /\ m.value = q.value
        /\ m.rom = q.rom /\ m.ptr = q.ptr /\ m.rom_wr = q.rom_wr /\ m.word = q.word
        /\ m.rst = q.rst /\ m.anchor = q.anchor /\ m.wr = q.wr /\ m.peek = q.peek /\ m.paddr = q.paddr
        /\ m.sif = q.sif /\ m.sel = q.sel /\ m.data = q.data
    BY <2>1 DEF IopCore
  <2> QED BY <2>2, <2>3 DEF MailboxDone
<1> QED BY <1>5, <1>6 DEF MailboxDone

SampledFrom(m, c, reset, anchor, wr, ptr, peek) ==
    /\ c \in IopCore
    /\ c.rst[1] = reset /\ c.rst[2] = m.rst[1]
    /\ c.anchor[1] = anchor /\ c.anchor[2] = m.anchor[1] /\ c.anchor[3] = m.anchor[2]
    /\ c.wr[1] = wr /\ c.wr[2] = m.wr[1] /\ c.wr[3] = m.wr[2]
    /\ c.paddr[1] = ptr /\ c.paddr[2] = m.paddr[1]
    /\ c.peek[1] = peek /\ c.peek[2] = m.peek[1] /\ c.peek[3] = m.peek[2]
    /\ c.rom = m.rom /\ c.ptr = m.ptr /\ c.rom_wr = m.rom_wr /\ c.word = m.word
    /\ c.left = m.left /\ c.value = m.value

\* The flip-flops.
LEMMA SampledIs ==
  ASSUME NEW m \in IopCore, NEW reset \in BOOLEAN, NEW anchor \in BOOLEAN, NEW wr \in BOOLEAN,
         NEW ptr \in Nat, NEW peek \in BOOLEAN, NEW data \in Mails, NEW sel \in Sels, NEW sif \in BOOLEAN,
         NEW c, c = Iop!Sampled(m, reset, anchor, wr, ptr, peek, data, sel, sif)
  PROVE  SampledFrom(m, c, reset, anchor, wr, ptr, peek)
<1>1. PICK cr, ca, cw, cp, ck, cd, cs, cf :
         /\ cr = Iop!Clocked(m.rst, reset) /\ ca = Iop!ClockedChain(m.anchor, anchor)
         /\ cw = Iop!ClockedChain(m.wr, wr) /\ cp = Iop!Clocked(m.paddr, ptr)
         /\ ck = Iop!ClockedChain(m.peek, peek) /\ cd = Iop!Clocked(m.data, data)
         /\ cs = Iop!Clocked(m.sel, sel) /\ cf = Iop!ClockedChain(m.sif, sif)
  OBVIOUS
<1>2. /\ m.rst \in Bits /\ m.anchor \in Trio /\ m.wr \in Trio /\ m.paddr \in Nat \X Nat
       /\ m.peek \in Trio /\ m.data \in MailPair /\ m.sel \in SelPair /\ m.sif \in Trio
  BY DEF IopCore
<1>3. /\ cr \in Bits /\ cr[1] = reset /\ cr[2] = m.rst[1]
       /\ cp \in Nat \X Nat /\ cp[1] = ptr /\ cp[2] = m.paddr[1]
  BY <1>1, <1>2 DEF Bits, Iop!Clocked
<1>4. cd \in MailPair /\ cs \in SelPair
  BY <1>1, <1>2 DEF Iop!Clocked, MailPair, SelPair
<1>5. /\ ca \in Trio /\ ca[1] = anchor /\ ca[2] = m.anchor[1] /\ ca[3] = m.anchor[2]
       /\ cw \in Trio /\ cw[1] = wr /\ cw[2] = m.wr[1] /\ cw[3] = m.wr[2]
  BY <1>1, <1>2 DEF Trio, Iop!ClockedChain
<1>6. /\ ck \in Trio /\ ck[1] = peek /\ ck[2] = m.peek[1] /\ ck[3] = m.peek[2]
       /\ cf \in Trio
  BY <1>1, <1>2 DEF Trio, Iop!ClockedChain
<1>7. c = [m EXCEPT !.rst = cr, !.anchor = ca, !.wr = cw, !.paddr = cp,
                         !.peek = ck, !.data = cd, !.sel = cs, !.sif = cf]
  BY <1>1 DEF Iop!Sampled
<1>8. c \in IopCore
  <2>1. PICK t1 : t1 = [m EXCEPT !.rst = cr]
    OBVIOUS
  <2>2. t1 \in IopCore
    BY <1>3, <2>1 DEF IopCore
  <2>3. PICK t2 : t2 = [t1 EXCEPT !.anchor = ca]
    OBVIOUS
  <2>4. t2 \in IopCore
    BY <1>5, <2>2, <2>3 DEF IopCore
  <2>5. PICK t3 : t3 = [t2 EXCEPT !.wr = cw]
    OBVIOUS
  <2>6. t3 \in IopCore
    BY <1>5, <2>4, <2>5 DEF IopCore
  <2>7. PICK t4 : t4 = [t3 EXCEPT !.paddr = cp]
    OBVIOUS
  <2>8. t4 \in IopCore
    BY <1>3, <2>6, <2>7 DEF IopCore
  <2>9. PICK t5 : t5 = [t4 EXCEPT !.peek = ck]
    OBVIOUS
  <2>10. t5 \in IopCore
    BY <1>6, <2>8, <2>9 DEF IopCore
  <2>11. PICK t6 : t6 = [t5 EXCEPT !.data = cd]
    OBVIOUS
  <2>12. t6 \in IopCore
    BY <1>4, <2>10, <2>11 DEF IopCore
  <2>13. PICK t7 : t7 = [t6 EXCEPT !.sel = cs]
    OBVIOUS
  <2>14. t7 \in IopCore
    BY <1>4, <2>12, <2>13 DEF IopCore
  <2>15. c = [t7 EXCEPT !.sif = cf]
    BY <1>7, <2>1, <2>3, <2>5, <2>7, <2>9, <2>11, <2>13
  <2> QED BY <1>6, <2>14, <2>15, ZenonT(60) DEF IopCore
<1>9. /\ c.rst = cr /\ c.anchor = ca /\ c.wr = cw /\ c.paddr = cp /\ c.peek = ck
       /\ c.rom = m.rom /\ c.ptr = m.ptr /\ c.rom_wr = m.rom_wr /\ c.word = m.word
       /\ c.left = m.left /\ c.value = m.value
  BY <1>7 DEF IopCore
<1> QED BY <1>3, <1>5, <1>6, <1>8, <1>9 DEF SampledFrom

\* The three ports, then the flip-flops.
LEMMA IopCoreStep ==
  ASSUME IopTypes, Iop!CoreEdge
  PROVE  /\ IopClocks /\ IopStores /\ IopPeeks /\ IopTicks
         /\ clk.edges >= 3 /\ clk'.edges = 0
         /\ clk'.gap = IF clk.gap < Gap THEN clk.gap + 1 ELSE Gap
         /\ sys' = sys /\ host' = host
<1>1. PICK reset \in Iop!Caught(clk.sys.reset, sys.reset), addr \in Iop!Caught(clk.sys.addr, sys.addr),
           word \in Iop!Caught(clk.sys.word, sys.word), anchor \in Iop!Caught(clk.sys.anchor, sys.anchor),
           wr \in Iop!Caught(clk.sys.wr, sys.wr), ptr \in Iop!Caught(clk.sys.ptr, sys.ptr),
           peek \in Iop!Caught(clk.sys.peek, sys.peek), data \in Iop!Caught(clk.sys.data, sys.data),
           sel \in Iop!Caught(clk.sys.sel, sys.sel), sif \in Iop!Caught(clk.sys.sif, sys.sif),
           k \in 0 .. PeekSlow :
         /\ ~Iop!Pulse(core.peek) => k = 0
         /\ core' = Iop!Sampled(Iop!Mailbox(Iop!PeekPort(Iop!RomPort(core, addr, word), k)),
                                reset, anchor, wr, ptr, peek, data, sel, sif)
  BY DEF Iop!CoreEdge
<1>2. /\ reset \in BOOLEAN /\ addr \in Nat /\ word \in Nat /\ anchor \in BOOLEAN
      /\ wr \in BOOLEAN /\ ptr \in Nat /\ peek \in BOOLEAN /\ data \in Mails
      /\ sel \in Sels /\ sif \in BOOLEAN
      /\ reset \in {clk.sys.reset, sys.reset} /\ addr \in {clk.sys.addr, sys.addr}
      /\ word \in {clk.sys.word, sys.word} /\ anchor \in {clk.sys.anchor, sys.anchor}
      /\ wr \in {clk.sys.wr, sys.wr} /\ ptr \in {clk.sys.ptr, sys.ptr}
      /\ peek \in {clk.sys.peek, sys.peek}
  BY IopCaughtIs
<1>3. PICK p : p = Iop!RomPort(core, addr, word)
  OBVIOUS
<1>4. PICK q : q = Iop!PeekPort(p, k)
  OBVIOUS
<1>5. PICK m : m = Iop!Mailbox(q)
  OBVIOUS
<1>6. core \in IopCore
  BY DEF IopTypes
<1>7. RomPortDone(core, p, addr, word)
  BY <1>2, <1>3, <1>6, RomPortIs
<1>8. PeekPortDone(p, q)
  <2>1. p \in IopCore
    BY <1>7 DEF RomPortDone
  <2> QED BY <1>4, <2>1, PeekPortIs
<1>9. MailboxDone(q, m)
  <2>1. q \in IopCore
    BY <1>8 DEF PeekPortDone
  <2> QED BY <1>5, <2>1, MailboxIs
<1>10. SampledFrom(m, core', reset, anchor, wr, ptr, peek)
  <2>1. m \in IopCore
    BY <1>9 DEF MailboxDone
  <2>2. core' = Iop!Sampled(m, reset, anchor, wr, ptr, peek, data, sel, sif)
    BY <1>1, <1>3, <1>4, <1>5
  <2> QED BY <1>2, <2>1, <2>2, SampledIs
<1>11. /\ m.rst = core.rst /\ m.anchor = core.anchor /\ m.wr = core.wr /\ m.peek = core.peek
       /\ m.paddr = core.paddr /\ m.left = q.left /\ m.value = q.value
       /\ m.rom = p.rom /\ m.ptr = p.ptr /\ m.rom_wr = p.rom_wr /\ m.word = p.word
  BY <1>7, <1>8, <1>9 DEF RomPortDone, PeekPortDone, MailboxDone
<1>19. IopClocks
  BY <1>2, <1>10, <1>11 DEF IopClocks, SampledFrom
<1>20. /\ core'.rom = p.rom /\ core'.ptr = p.ptr /\ core'.rom_wr = p.rom_wr /\ core'.word = p.word
       /\ core'.left = q.left /\ core'.value = q.value
  BY <1>10, <1>11 DEF SampledFrom
<1>21. IopStores
  BY <1>2, <1>7, <1>20 DEF IopStores, RomPortDone
<1>22. IopPeeks
  <2>1. core.rst \in Bits
    BY <1>6 DEF IopCore
  <2>2. /\ p.rst = core.rst /\ p.peek = core.peek /\ p.paddr = core.paddr /\ p.left = core.left
        /\ p.value = core.value
    BY <1>7 DEF RomPortDone
  <2> QED BY <1>8, <1>20, <2>1, <2>2 DEF IopPeeks, PeekPortDone, Bits
<1>23. /\ clk.edges >= 3 /\ sys' = sys /\ host' = host
       /\ clk' = [sys |-> Iop!SysOut, core |-> Iop!CoreOut, edges |-> 0,
                  gap |-> IF clk.gap < Gap THEN clk.gap + 1 ELSE Gap]
  BY DEF Iop!CoreEdge
<1>24. (IF clk.gap < Gap THEN clk.gap + 1 ELSE Gap) \in 0 .. Gap
  BY IopFits DEF IopTypes, IopClk
<1>25. PICK g \in 0 .. Gap : g = IF clk.gap < Gap THEN clk.gap + 1 ELSE Gap
  BY <1>24
<1>26. IopTicks /\ clk'.edges = 0 /\ clk'.gap = g
  BY <1>23, <1>25, IopTicksIs
<1> QED BY <1>19, <1>21, <1>22, <1>23, <1>25, <1>26

LEMMA IopScalars ==
  ASSUME IopTypes
  PROVE  /\ sys.wr \in BOOLEAN /\ sys.anchor \in BOOLEAN /\ sys.peek \in BOOLEAN /\ sys.parm \in BOOLEAN
         /\ sys.pgo \in BOOLEAN /\ sys.addr \in Nat /\ sys.word \in Nat /\ sys.ptr \in Nat
         /\ clk.sys.wr \in BOOLEAN /\ clk.sys.anchor \in BOOLEAN /\ clk.sys.peek \in BOOLEAN
         /\ clk.edges \in 0 .. 4 /\ clk.gap \in 0 .. Gap
         /\ host.pc \in IopPcs /\ host.n \in Nat /\ host.slipped \in SUBSET Nat /\ host.bad \in BOOLEAN
         /\ core.rom_wr \in BOOLEAN /\ core.ptr \in Nat /\ core.word \in Nat
         /\ core.rom \in [0 .. Size - 1 -> Val]
         /\ core.left \in (0 .. PeekSlow) \cup {None} /\ core.value \in Val
  BY DEF IopTypes, IopSys, IopCore, IopHost, IopClk, IopPcs

LEMMA IopFlops ==
  ASSUME IopTypes
  PROVE  /\ core.wr[1] \in BOOLEAN /\ core.wr[2] \in BOOLEAN /\ core.wr[3] \in BOOLEAN
         /\ core.anchor[1] \in BOOLEAN /\ core.anchor[2] \in BOOLEAN /\ core.anchor[3] \in BOOLEAN
         /\ core.peek[1] \in BOOLEAN /\ core.peek[2] \in BOOLEAN /\ core.peek[3] \in BOOLEAN
         /\ core.paddr[1] \in Nat /\ core.paddr[2] \in Nat
         /\ core.rst[1] \in BOOLEAN /\ core.rst[2] \in BOOLEAN
         /\ core.wr = <<core.wr[1], core.wr[2], core.wr[3]>>
         /\ core.anchor = <<core.anchor[1], core.anchor[2], core.anchor[3]>>
<1>1. /\ core.wr \in Trio /\ core.anchor \in Trio /\ core.peek \in Trio
      /\ core.paddr \in Nat \X Nat /\ core.rst \in Bits
  BY DEF IopTypes, IopCore
<1> QED BY <1>1 DEF Trio, Bits

\* An edge of sys: the registers go on, and the host is quiet or moves.
IopSteps(s) ==
    /\ s \in IopSys /\ IopLeaves(s) /\ IopTicks /\ core' = core /\ clk'.edges = clk.edges + 1
    /\ IopQuiet(s) \/ (clk'.gap = 0 /\ IopMoves(s))

LEMMA IopSteppedIs ==
  ASSUME IopInv, Iop!SysEdge
  PROVE  \E s : IopSteps(s)
<1>1. IopTypes /\ IopHeld /\ IopRom
  BY DEF IopInv
<1>2. /\ IopTicks /\ core' = core /\ clk'.edges = clk.edges + 1
      /\ \E s : s \in IopSys /\ IopLeaves(s) /\ (IopQuiet(s) \/ IopActs(s))
  BY <1>1, IopSysStep
<1>3. PICK s : s \in IopSys /\ IopLeaves(s) /\ (IopQuiet(s) \/ IopActs(s))
  BY <1>2
<1>4. IopActs(s) => IopMoves(s) /\ clk'.gap = 0
  BY <1>1, <1>3, IopMovesIs DEF IopActs
<1> QED BY <1>2, <1>3, <1>4 DEF IopSteps

LEMMA IopSysTypes ==
  ASSUME IopInv, NEW s, IopSteps(s)
  PROVE  IopTypes' /\ IopHeld'
<1>1. IopTypes /\ IopHeld
  BY DEF IopInv
<1>2. clk' \in IopClk /\ core' = core /\ clk'.sys.reset = sys.reset
  BY DEF IopSteps, IopTicks
<1>3. CASE IopQuiet(s)
  <2>1. sys' = s /\ host' = host /\ s \in IopSys /\ s.reset = sys.reset
    BY <1>3 DEF IopQuiet, IopSteps, IopLeaves
  <2>2. IopTypes'
    BY <1>1, <1>2, <2>1 DEF IopTypes
  <2>3. IopHeld'
    BY <1>1, <1>2, <2>1 DEF IopHeld
  <2> QED BY <2>2, <2>3
<1>4. CASE IopMoves(s)
  <2>1. IopTypes'
    BY <1>1, <1>2, <1>4 DEF IopTypes, IopMoves
  <2>2. host'.pc \notin IopRunning \ {"release"} => host.pc \notin IopRunning
    BY <1>4 DEF IopMoves
  <2>3. host.pc # "release" => sys'.reset = sys.reset
    BY <1>4 DEF IopMoves
  <2>4. "release" \in IopRunning
    BY DEF IopRunning
  <2>5. IopHeld'
    BY <1>1, <1>2, <2>2, <2>3, <2>4 DEF IopHeld
  <2> QED BY <2>1, <2>5
<1> QED BY <1>3, <1>4 DEF IopSteps

LEMMA IopSysSettles ==
  ASSUME IopInv, NEW s, IopSteps(s)
  PROVE  IopSettles'
<1>1. IopSettles /\ core' = core /\ clk'.sys.wr = sys.wr /\ clk'.sys.anchor = sys.anchor
      /\ clk'.gap \in Nat
  BY DEF IopInv, IopSteps, IopTicks, IopClk
<1>2. CASE IopQuiet(s)
  <2>1. sys' = s /\ s.wr = sys.wr /\ s.anchor = sys.anchor /\ clk'.gap = clk.gap
    BY <1>2 DEF IopQuiet, IopSteps, IopLeaves
  <2> QED BY <1>1, <2>1 DEF IopSettles, Settles
<1>3. CASE clk'.gap = 0
  BY <1>1, <1>3 DEF IopSettles, Settles
<1> QED BY <1>2, <1>3 DEF IopSteps

LEMMA IopAtRest ==
  ASSUME IopInv, clk.gap = Gap
  PROVE  /\ Resting /\ ~Anchoring
         /\ sys.parm = FALSE /\ sys.pgo = FALSE /\ core.left = None
         /\ clk.sys.peek = sys.peek /\ core.peek[1] = sys.peek /\ core.peek[2] = sys.peek
         /\ core.peek[3] = sys.peek
<1>1. IopTypes /\ IopSettles /\ IopTimes
  BY DEF IopInv
<1>2. Gap \in Nat /\ PeekSlow \in Nat /\ PeekSlow + 7 <= Gap
  BY IopFits
<1>3. /\ clk.sys.wr = sys.wr /\ core.wr[1] = sys.wr /\ core.wr[2] = sys.wr /\ core.wr[3] = sys.wr
      /\ clk.sys.anchor = sys.anchor /\ core.anchor[1] = sys.anchor /\ core.anchor[2] = sys.anchor
      /\ core.anchor[3] = sys.anchor /\ core.rom_wr = FALSE
  BY <1>1, <1>2 DEF IopSettles, Settles
<1>4. Resting /\ ~Anchoring
  BY <1>1, <1>3, IopFlops DEF Resting, Anchoring
<1>5. sys.parm = FALSE /\ sys.pgo = FALSE
  BY <1>1, <1>2, IopScalars DEF IopTimes
<1>6. core.left = None
  BY <1>1, <1>2, IopScalars DEF IopTimes
<1>7. /\ clk.sys.peek = sys.peek /\ core.peek[1] = sys.peek /\ core.peek[2] = sys.peek
      /\ core.peek[3] = sys.peek
  BY <1>1, <1>2 DEF IopTimes
<1> QED BY <1>4, <1>5, <1>6, <1>7

LEMMA IopSysRests ==
  ASSUME IopInv, NEW s, IopSteps(s)
  PROVE  IopRests'
<1>1. IopTypes /\ IopRests /\ core' = core /\ clk'.sys.wr = sys.wr /\ clk'.sys.anchor = sys.anchor
  BY DEF IopInv, IopSteps, IopTicks
<1>2. CASE IopQuiet(s)
  <2>1. sys' = s /\ s.wr = sys.wr /\ s.anchor = sys.anchor /\ host' = host
    BY <1>2 DEF IopQuiet, IopSteps, IopLeaves
  <2> QED BY <1>1, <2>1 DEF IopRests, Resting
<1>3. CASE IopMoves(s)
  <2>1. SUFFICES ASSUME host'.pc \notin {"word", "count"} PROVE Resting'
    BY DEF IopRests
  <2>2. host.pc \notin {"word", "anchor"} \/ (host.pc = "word" /\ host'.pc \in {"word", "count"})
    BY <1>3, <2>1 DEF IopMoves
  <2>3. host.pc \notin {"word", "anchor"}
    BY <2>1, <2>2
  <2>4. sys'.wr = sys.wr /\ sys'.anchor = sys.anchor /\ clk.gap = Gap
    BY <1>3, <2>3 DEF IopMoves
  <2>5. Resting
    BY <2>4, IopAtRest
  <2> QED BY <1>1, <2>4, <2>5 DEF Resting
<1> QED BY <1>2, <1>3 DEF IopSteps

LEMMA IopSysOrder ==
  ASSUME IopInv, NEW s, IopSteps(s)
  PROVE  IopOrder'
<1>1. /\ IopTypes /\ IopOrder /\ core' = core
      /\ clk'.sys.wr = sys.wr /\ clk'.sys.anchor = sys.anchor /\ clk'.sys.addr = sys.addr
  BY DEF IopInv, IopSteps, IopTicks
<1>2. Pulsing(sys.anchor, clk.sys.anchor, core.anchor[1], core.anchor[2], core.anchor[3])
  BY <1>1 DEF IopOrder
<1>3. ASSUME sys'.anchor = sys.anchor, sys'.addr = sys.addr, host'.pc \in {"word", "count"} => host.pc \in {"word", "count"}
      PROVE  IopOrder'
  <2>1. Pulsing(sys.anchor, clk.sys.anchor, core.anchor[1], core.anchor[2], core.anchor[3])'
    BY <1>1, <1>2, <1>3 DEF Pulsing
  <2>2. Anchoring' <=> Anchoring
    BY <1>1, <1>3 DEF Anchoring
  <2>3. Anchoring' => clk'.sys.anchor # core'.anchor[3]
    BY <1>1, <1>3, <2>2 DEF Anchoring
  <2>4. Anchoring =>
         /\ core.rom_wr = FALSE
         /\ core.anchor[1] = core.anchor[3] => core.wr[1] = core.wr[2]
         /\ core.anchor[2] = core.anchor[3] => core.wr[2] = core.wr[3]
    BY <1>1 DEF IopOrder
  <2>5. ~Anchoring /\ host.pc \in {"word", "count"} => core.ptr >= sys.addr
    BY <1>1 DEF IopOrder
  <2> QED BY <1>1, <1>3, <2>1, <2>2, <2>3, <2>4, <2>5 DEF IopOrder
<1>4. CASE IopQuiet(s)
  <2>1. sys' = s /\ s.anchor = sys.anchor /\ s.addr = sys.addr /\ host' = host
    BY <1>4 DEF IopQuiet, IopSteps, IopLeaves
  <2> QED BY <1>3, <2>1
<1>5. CASE IopMoves(s) /\ host.pc # "anchor"
  <2>1. sys'.anchor = sys.anchor /\ sys'.addr = sys.addr
    BY <1>5 DEF IopMoves
  <2>2. host'.pc \in {"word", "count"} => host.pc = "word"
    BY <1>1, <1>5, IopScalars DEF IopMoves, IopPcs, IopLoading, IopVerifying, IopRunning
  <2> QED BY <1>3, <2>1, <2>2
<1>6. CASE IopMoves(s) /\ host.pc = "anchor"
  <2>1. Resting
    BY <1>6 DEF IopInv, IopRests
  <2>2. /\ core.rom_wr = FALSE /\ clk.sys.anchor = sys.anchor
        /\ core.wr[1] = sys.wr /\ core.wr[2] = sys.wr /\ core.wr[3] = sys.wr
        /\ core.anchor[1] = sys.anchor /\ core.anchor[2] = sys.anchor /\ core.anchor[3] = sys.anchor
    BY <2>1 DEF Resting
  <2>3. sys'.anchor # sys.anchor /\ sys'.wr = sys.wr
    BY <1>1, <1>6, IopScalars DEF IopMoves
  <2>4. Pulsing(sys.anchor, clk.sys.anchor, core.anchor[1], core.anchor[2], core.anchor[3])'
    BY <1>1, <2>2, <2>3 DEF Pulsing
  <2>5. Anchoring'
    BY <1>1, <2>2, <2>3 DEF Anchoring
  <2> QED BY <1>1, <2>2, <2>3, <2>4, <2>5 DEF IopOrder
<1> QED BY <1>4, <1>5, <1>6 DEF IopSteps

\* What is known of a chunk with no slip.
ChunkWhole ==
    /\ Pulsing(sys.wr, clk.sys.wr, core.wr[1], core.wr[2], core.wr[3])
    /\ Anchoring => host.n = sys.addr /\ sys.wr = core.wr[3]
    /\ sys.wr # core.wr[3] => /\ core.rom_wr = FALSE /\ core.ptr + 1 = host.n /\ sys.word = core.ptr
                              /\ clk.sys.wr # core.wr[3] => clk.sys.word = sys.word
    /\ core.rom_wr = TRUE => core.ptr + 1 = host.n /\ core.word = core.ptr
    /\ ~Anchoring /\ sys.wr = core.wr[3] /\ core.rom_wr = FALSE => core.ptr = host.n
    /\ ~Anchoring => \A i \in sys.addr .. core.ptr - 1 : core.rom[i] = i

LEMMA IopChunkIs ==
  IopChunk <=> (host.pc \in {"word", "count"} =>
                  /\ sys.addr <= host.n
                  /\ \A i \in sys.addr .. host.n - 1 : (i \div Part) = (sys.addr \div Part)
                  /\ host.pc = "word" => (host.n \div Part) = (sys.addr \div Part)
                  /\ Whole => ChunkWhole)
  BY DEF IopChunk, ChunkWhole

LEMMA IopSysChunk ==
  ASSUME IopInv, NEW s, IopSteps(s)
  PROVE  IopChunk'
<1>1. /\ IopTypes /\ core' = core
      /\ clk'.sys.wr = sys.wr /\ clk'.sys.word = sys.word
  BY DEF IopInv, IopSteps, IopTicks
<1>2. host.pc \in {"word", "count"} =>
        /\ sys.addr <= host.n
        /\ \A i \in sys.addr .. host.n - 1 : (i \div Part) = (sys.addr \div Part)
        /\ host.pc = "word" => (host.n \div Part) = (sys.addr \div Part)
        /\ Whole => ChunkWhole
  BY IopChunkIs DEF IopInv
<1>3. SUFFICES ASSUME host'.pc \in {"word", "count"}
               PROVE  /\ sys'.addr <= host'.n
                      /\ \A i \in sys'.addr .. host'.n - 1 : (i \div Part) = (sys'.addr \div Part)
                      /\ host'.pc = "word" => (host'.n \div Part) = (sys'.addr \div Part)
                      /\ Whole' => ChunkWhole'
  BY DEF IopChunk, ChunkWhole
<1>4. CASE IopQuiet(s)
  <2>1. /\ sys' = s /\ s.wr = sys.wr /\ s.anchor = sys.anchor /\ s.addr = sys.addr
        /\ s.word = sys.word /\ host' = host
    BY <1>4 DEF IopQuiet, IopSteps, IopLeaves
  <2>2. (Whole' <=> Whole) /\ (Anchoring' <=> Anchoring)
    BY <1>1, <2>1 DEF Whole, Anchoring
  <2>3. ASSUME ChunkWhole PROVE ChunkWhole'
    <3>1. Pulsing(sys.wr, clk.sys.wr, core.wr[1], core.wr[2], core.wr[3])'
      BY <1>1, <2>1, <2>3 DEF ChunkWhole, Pulsing
    <3> QED BY <1>1, <2>1, <2>2, <2>3, <3>1 DEF ChunkWhole
  <2> QED BY <1>2, <1>3, <2>1, <2>2, <2>3
<1>5. CASE IopMoves(s) /\ host.pc = "anchor"
  <2>1. Resting
    BY <1>5 DEF IopInv, IopRests
  <2>2. /\ core.rom_wr = FALSE
        /\ core.wr[1] = sys.wr /\ core.wr[2] = sys.wr /\ core.wr[3] = sys.wr
        /\ core.anchor[3] = sys.anchor
    BY <2>1 DEF Resting
  <2>3. /\ sys'.anchor # sys.anchor /\ sys'.wr = sys.wr /\ sys'.addr = host.n /\ host'.n = host.n
        /\ host.n \in Nat
    BY <1>1, <1>5, IopScalars DEF IopMoves
  <2>4. Anchoring'
    BY <1>1, <2>2, <2>3 DEF Anchoring
  <2>5. ChunkWhole'
    BY <1>1, <2>2, <2>3, <2>4 DEF ChunkWhole, Pulsing
  <2> QED BY <2>3, <2>5
<1>6. CASE IopMoves(s) /\ host.pc = "word"
  <2>1. /\ sys'.anchor = sys.anchor /\ sys'.addr = sys.addr /\ sys'.word = host.n /\ sys'.wr = ~sys.wr
        /\ host'.n = host.n + 1
        /\ host'.pc = IF (host.n + 1) % Part = 0 THEN "count" ELSE "word"
        /\ host'.slipped = IF clk.gap < Gap THEN host.slipped \cup {host.n \div Part} ELSE host.slipped
    BY <1>6 DEF IopMoves
  <2>2. host.n \in Nat /\ sys.addr \in Nat /\ sys.wr \in BOOLEAN
    BY <1>1, IopScalars
  <2>3. /\ sys.addr <= host.n
        /\ \A i \in sys.addr .. host.n - 1 : (i \div Part) = (sys.addr \div Part)
        /\ (host.n \div Part) = (sys.addr \div Part)
        /\ Whole => ChunkWhole
    BY <1>2, <1>6
  <2>4. \A i \in sys'.addr .. host'.n - 1 : (i \div Part) = (sys'.addr \div Part)
    BY <2>1, <2>2, <2>3
  <2>5. host'.pc = "word" => (host'.n \div Part) = (sys'.addr \div Part)
    <3>1. (host.n + 1) % Part # 0 => (host.n + 1) \div Part = host.n \div Part
      BY <2>2, NextInChunk
    <3> QED BY <2>1, <2>3, <3>1
  <2>6. ASSUME Whole' PROVE ChunkWhole'
    <3>1. (sys.addr \div Part) \notin host'.slipped
      BY <2>1, <2>6 DEF Whole
    <3>2. ~(clk.gap < Gap) /\ host'.slipped = host.slipped
      BY <2>1, <2>3, <3>1
    <3>3. clk.gap = Gap
      BY <1>1, <3>2, IopFits, IopScalars
    <3>4. Whole
      BY <3>1, <3>2 DEF Whole
    <3>5. ChunkWhole
      BY <2>3, <3>4
    <3>6. Resting /\ ~Anchoring
      BY <3>3, IopAtRest
    <3>7. /\ core.rom_wr = FALSE
          /\ core.wr[1] = sys.wr /\ core.wr[2] = sys.wr /\ core.wr[3] = sys.wr
      BY <3>6 DEF Resting
    <3>8. core.ptr = host.n /\ \A i \in sys.addr .. core.ptr - 1 : core.rom[i] = i
      BY <3>5, <3>6, <3>7 DEF ChunkWhole
    <3>9. ~Anchoring'
      BY <1>1, <2>1, <3>6 DEF Anchoring
    <3>10. sys'.wr # sys.wr
      BY <2>1, <2>2
    <3> QED BY <1>1, <2>1, <3>7, <3>8, <3>9, <3>10 DEF ChunkWhole, Pulsing
  <2>7. sys'.addr <= host'.n
    BY <2>1, <2>2, <2>3
  <2> QED BY <2>4, <2>5, <2>6, <2>7
<1>7. CASE IopMoves(s) /\ host.pc \notin {"anchor", "word"}
  BY <1>1, <1>3, <1>7, IopScalars DEF IopMoves, IopPcs, IopLoading, IopVerifying, IopRunning
<1> QED BY <1>4, <1>5, <1>6, <1>7 DEF IopSteps

LEMMA NotPastEnd ==
  ASSUME NEW n \in Nat, n < Size, (n + 1) % Part # 0
  PROVE  n + 1 < Size
<1>1. Size \in Nat /\ Size % Part = 0
  BY IopFits
<1>2. n + 1 # Size
  BY <1>1
<1> QED BY <1>1, <1>2

LEMMA ChunkPlaced ==
  ASSUME IopInv, host.pc = "count", clk.gap = Gap
  PROVE  Placed(host.n)
<1>1. IopTypes /\ IopRom /\ Placed(sys.addr)
  BY DEF IopInv, IopRom
<1>2. /\ sys.addr <= host.n
      /\ \A i \in sys.addr .. host.n - 1 : (i \div Part) = (sys.addr \div Part)
      /\ Whole => ChunkWhole
  BY IopChunkIs DEF IopInv
<1>3. Resting /\ ~Anchoring
  BY IopAtRest
<1>4. core.rom_wr = FALSE /\ core.wr[3] = sys.wr
  BY <1>3 DEF Resting
<1>5. Whole => \A i \in sys.addr .. host.n - 1 : core.rom[i] = i
  BY <1>2, <1>3, <1>4 DEF ChunkWhole
<1>6. sys.addr \in Nat /\ host.n \in Nat
  BY <1>1, IopScalars
<1>7. SUFFICES ASSUME NEW i \in 0 .. Size - 1, i < host.n, (i \div Part) \notin host.slipped
               PROVE  core.rom[i] = i
  BY DEF Placed
<1>8. CASE i < sys.addr
  BY <1>1, <1>7, <1>8 DEF Placed
<1>9. CASE ~(i < sys.addr)
  <2>1. i \in sys.addr .. host.n - 1
    BY <1>6, <1>7, <1>9, IopFits
  <2>2. Whole
    BY <1>2, <1>7, <2>1 DEF Whole
  <2> QED BY <1>5, <2>1, <2>2
<1> QED BY <1>8, <1>9

LEMMA PlacedStays ==
  ASSUME NEW n, Placed(n), core' = core, host.slipped \subseteq host'.slipped
  PROVE  \A i \in 0 .. Size - 1 : i < n /\ (i \div Part) \notin host'.slipped => core'.rom[i] = i
  BY DEF Placed

LEMMA IopSysRom ==
  ASSUME IopInv, NEW s, IopSteps(s)
  PROVE  IopRom'
<1>1. IopTypes /\ IopRom /\ core' = core /\ Size \in Nat \ {0}
  BY IopFits DEF IopInv, IopSteps
<1>2. CASE IopQuiet(s)
  <2>1. sys' = s /\ s.addr = sys.addr /\ host' = host
    BY <1>2 DEF IopQuiet, IopSteps, IopLeaves
  <2> QED BY <1>1, <2>1 DEF IopRom, Placed
<1>3. CASE IopMoves(s)
  <2>1. host.n \in Nat /\ host.slipped \subseteq host'.slipped
    BY <1>1, <1>3, IopScalars DEF IopMoves
  <2>2. CASE host.pc = "reset"
    <3>1. host'.pc = "anchor" /\ host'.n = 0
      BY <1>1, <1>3, <2>2 DEF IopMoves, IopRom, IopVerifying
    <3> QED BY <1>1, <3>1 DEF IopRom, IopLoading, Placed
  <2>3. CASE host.pc = "anchor"
    <3>1. host'.pc = "word" /\ host'.n = host.n /\ sys'.addr = host.n /\ host.n < Size
      BY <1>1, <1>3, <2>3 DEF IopMoves, IopRom
    <3>2. Placed(host.n)
      BY <1>1, <2>3 DEF IopRom
    <3>3. \A i \in 0 .. Size - 1 : i < host.n /\ (i \div Part) \notin host'.slipped => core'.rom[i] = i
      BY <1>1, <2>1, <3>2, PlacedStays
    <3> QED BY <1>1, <2>1, <3>1, <3>3 DEF IopRom, IopLoading, Placed
  <2>4. CASE host.pc = "word"
    <3>1. /\ host'.n = host.n + 1 /\ sys'.addr = sys.addr /\ host.n < Size
          /\ host'.pc = IF (host.n + 1) % Part = 0 THEN "count" ELSE "word"
      BY <1>1, <1>3, <2>4 DEF IopMoves, IopRom
    <3>2. Placed(sys.addr)
      BY <1>1, <2>4 DEF IopRom
    <3>3. \A i \in 0 .. Size - 1 : i < sys.addr /\ (i \div Part) \notin host'.slipped => core'.rom[i] = i
      BY <1>1, <2>1, <3>2, PlacedStays
    <3>4. host'.n <= Size /\ (host'.pc = "word" => host'.n < Size)
      BY <1>1, <2>1, <3>1, NotPastEnd
    <3> QED BY <3>1, <3>3, <3>4 DEF IopRom, IopLoading, Placed
  <2>5. CASE host.pc = "count"
    <3>1. \/ host.n < Size /\ host'.pc = "anchor" /\ host'.n = host.n
          \/ ~(host.n < Size) /\ host'.pc = "peek" /\ host'.n = 0
      BY <1>3, <2>5 DEF IopMoves
    <3>2. clk.gap = Gap /\ host.n <= Size
      BY <1>1, <1>3, <2>5 DEF IopMoves, IopRom
    <3>3. Placed(host.n)
      BY <2>5, <3>2, ChunkPlaced
    <3>4. \A i \in 0 .. Size - 1 : i < host.n /\ (i \div Part) \notin host'.slipped => core'.rom[i] = i
      BY <1>1, <2>1, <3>3, PlacedStays
    <3>5. CASE host.n < Size /\ host'.pc = "anchor" /\ host'.n = host.n
      BY <3>2, <3>4, <3>5 DEF IopRom, IopLoading, Placed
    <3>6. CASE ~(host.n < Size) /\ host'.pc = "peek" /\ host'.n = 0
      <4>1. host.n = Size
        BY <1>1, <2>1, <3>2, <3>6
      <4> QED BY <1>1, <3>4, <3>6, <4>1 DEF IopRom, IopLoading, Placed
    <3> QED BY <3>1, <3>5, <3>6
  <2>6. CASE host.pc \in IopVerifying \cup IopRunning
    <3>1. Placed(Size) /\ host.n <= Size /\ (host.pc \in {"peek", "data"} => host.n < Size)
      BY <1>1, <2>6 DEF IopRom, IopLoading, IopVerifying, IopRunning
    <3>2. \A i \in 0 .. Size - 1 : i < Size /\ (i \div Part) \notin host'.slipped => core'.rom[i] = i
      BY <1>1, <2>1, <3>1, PlacedStays
    <3>3. CASE host.pc = "peek"
      <4>1. host'.pc = "data" /\ host'.n = host.n
        BY <1>3, <3>3 DEF IopMoves
      <4> QED BY <3>1, <3>2, <3>3, <4>1 DEF IopRom, IopLoading, Placed
    <3>4. CASE host.pc = "data"
      <4>1. /\ host'.n = host.n + 1
            /\ host'.pc = IF (host.n + 1) % Part # 0 THEN "data"
                          ELSE IF host.n + 1 < Size THEN "peek"
                          ELSE IF host'.bad THEN "bad" ELSE "release"
        BY <1>3, <3>4 DEF IopMoves
      <4>2. host'.n <= Size /\ (host'.pc \in {"peek", "data"} => host'.n < Size)
        BY <1>1, <2>1, <3>1, <3>4, <4>1, NotPastEnd
      <4>3. host'.pc \notin {"reset", "anchor", "word", "count"}
        BY <4>1
      <4> QED BY <3>2, <4>2, <4>3 DEF IopRom, Placed
    <3>5. CASE host.pc \in IopRunning
      <4>1. host'.pc \in IopRunning /\ host'.n = host.n
        BY <1>3, <3>5 DEF IopMoves, IopRunning
      <4> QED BY <3>1, <3>2, <4>1 DEF IopRom, Placed, IopLoading, IopRunning
    <3> QED BY <2>6, <3>3, <3>4, <3>5 DEF IopVerifying
  <2> QED BY <1>1, <1>3, <2>2, <2>3, <2>4, <2>5, <2>6, IopScalars DEF IopMoves, IopPcs, IopLoading
<1> QED BY <1>2, <1>3 DEF IopSteps

\* A move is quiet for the peek, but for the two accesses that ask for one.
LEMMA IopPeekMoves ==
  ASSUME IopInv, NEW s, IopSteps(s)
  PROVE  /\ IopTypes /\ IopPeek /\ IopTimes /\ core' = core
         /\ clk'.sys.peek = sys.peek /\ clk'.sys.ptr = sys.ptr
         /\ sys'.pgo = sys.parm
         /\ sys'.peek = IF sys.pgo = TRUE THEN ~sys.peek ELSE sys.peek
         /\ \/ clk'.gap = clk.gap /\ sys'.parm = FALSE /\ sys'.ptr = sys.ptr
            \/ clk'.gap = 0 /\ sys'.parm = FALSE /\ sys'.ptr = sys.ptr
            \/ clk'.gap = 0 /\ clk.gap = Gap
<1>1. /\ IopTypes /\ IopPeek /\ IopTimes /\ core' = core
      /\ clk'.sys.peek = sys.peek /\ clk'.sys.ptr = sys.ptr
      /\ s.pgo = sys.parm /\ s.peek = (IF sys.pgo = TRUE THEN ~sys.peek ELSE sys.peek)
      /\ s.parm = FALSE /\ s.ptr = sys.ptr
  BY DEF IopInv, IopSteps, IopTicks, IopLeaves
<1>2. CASE IopQuiet(s)
  BY <1>1, <1>2 DEF IopQuiet
<1>3. CASE clk'.gap = 0 /\ IopMoves(s)
  <2>1. sys'.pgo = s.pgo /\ sys'.peek = s.peek
    BY <1>3 DEF IopMoves
  <2>2. host.pc \in IopVerifying => clk.gap = Gap
    BY <1>3 DEF IopMoves, IopVerifying
  <2>3. host.pc \notin IopVerifying => sys'.parm = FALSE /\ sys'.ptr = sys.ptr
    BY <1>3 DEF IopMoves
  <2> QED BY <1>1, <1>3, <2>1, <2>2, <2>3
<1> QED BY <1>2, <1>3 DEF IopSteps

LEMMA IopSysPeek ==
  ASSUME IopInv, NEW s, IopSteps(s)
  PROVE  IopPeek'
<1>1. /\ IopTypes /\ IopPeek /\ IopTimes /\ core' = core
      /\ clk'.sys.peek = sys.peek /\ clk'.sys.ptr = sys.ptr
      /\ sys'.pgo = sys.parm
      /\ sys'.peek = IF sys.pgo = TRUE THEN ~sys.peek ELSE sys.peek
      /\ \/ sys'.parm = FALSE /\ sys'.ptr = sys.ptr
         \/ clk.gap = Gap
  BY IopPeekMoves
<1>2. /\ Pulsing(sys.peek, clk.sys.peek, core.peek[1], core.peek[2], core.peek[3])
      /\ sys.parm = TRUE => sys.pgo = FALSE
      /\ sys.parm = TRUE \/ sys.pgo = TRUE => sys.peek = core.peek[3] /\ core.left = None
      /\ core.peek[1] # core.peek[3] => core.paddr[1] = sys.ptr
      /\ core.peek[2] # core.peek[3] => core.paddr[2] = sys.ptr
      /\ core.left # None => /\ core.paddr[1] = sys.ptr /\ core.paddr[2] = sys.ptr
                             /\ sys.peek = core.peek[3]
  BY <1>1 DEF IopPeek
<1>3. clk.gap = Gap => /\ sys.parm = FALSE /\ sys.pgo = FALSE /\ core.left = None
                       /\ core.peek[1] = sys.peek /\ core.peek[2] = sys.peek /\ core.peek[3] = sys.peek
  BY IopAtRest
<1>4. sys.parm \in BOOLEAN /\ sys.pgo \in BOOLEAN /\ sys.peek \in BOOLEAN
  BY <1>1, IopScalars
<1>5. sys.pgo = TRUE => /\ core.peek[1] = sys.peek /\ core.peek[2] = sys.peek /\ core.peek[3] = sys.peek
                        /\ sys'.peek # sys.peek
  BY <1>1, <1>2, <1>4 DEF Pulsing
<1>6. sys.pgo = FALSE => sys'.peek = sys.peek
  BY <1>1
<1>7. Pulsing(sys.peek, clk.sys.peek, core.peek[1], core.peek[2], core.peek[3])'
  BY <1>1, <1>2, <1>4, <1>5, <1>6 DEF Pulsing
<1>8. sys'.parm = TRUE => sys'.pgo = FALSE /\ sys'.peek = core.peek[3] /\ core.left = None
  BY <1>1, <1>3, <1>6
<1>9. sys'.pgo = TRUE => sys'.peek = core.peek[3] /\ core.left = None
  BY <1>1, <1>2, <1>6
<1>10. /\ core.peek[1] # core.peek[3] => core.paddr[1] = sys'.ptr
       /\ core.peek[2] # core.peek[3] => core.paddr[2] = sys'.ptr
       /\ core.left # None => /\ core.paddr[1] = sys'.ptr /\ core.paddr[2] = sys'.ptr
  BY <1>1, <1>2, <1>3
<1>11. core.left # None => sys'.peek = core.peek[3]
  BY <1>2, <1>4, <1>6
<1>12. sys'.parm = FALSE => clk'.sys.ptr = sys'.ptr
  <2>1. CASE sys'.ptr = sys.ptr
    BY <1>1, <2>1
  <2>2. CASE host.pc \in IopVerifying /\ IopMoves(s)
    <3>1. sys'.parm = TRUE
      BY <2>2 DEF IopMoves, IopVerifying
    <3> QED BY <3>1
  <2>3. CASE host.pc \notin IopVerifying /\ IopMoves(s)
    BY <1>1, <2>3 DEF IopMoves
  <2>4. CASE IopQuiet(s)
    <3>1. sys'.ptr = sys.ptr
      BY <2>4 DEF IopQuiet, IopSteps, IopLeaves
    <3> QED BY <2>1, <3>1
  <2> QED BY <2>2, <2>3, <2>4 DEF IopSteps
<1> QED BY <1>1, <1>7, <1>8, <1>9, <1>10, <1>11, <1>12 DEF IopPeek

LEMMA IopSysTimes ==
  ASSUME IopInv, NEW s, IopSteps(s)
  PROVE  IopTimes'
<1>1. /\ IopTypes /\ IopTimes /\ core' = core
      /\ clk'.sys.peek = sys.peek
      /\ sys'.pgo = sys.parm
      /\ sys'.peek = IF sys.pgo = TRUE THEN ~sys.peek ELSE sys.peek
      /\ \/ clk'.gap = clk.gap /\ sys'.parm = FALSE
         \/ clk'.gap = 0
      /\ clk'.edges = clk.edges + 1
  BY IopPeekMoves DEF IopSteps
<1>2. /\ sys.parm \in BOOLEAN /\ sys.pgo \in BOOLEAN /\ clk.gap \in Nat /\ clk.edges \in Nat
  BY <1>1, IopFits, IopScalars, SMTT(30)
<1>3. CASE clk'.gap = clk.gap /\ sys'.parm = FALSE
  <2>1. sys'.pgo = TRUE => clk'.gap = 0 \/ (clk'.gap = 1 /\ clk'.edges <= 1)
    BY <1>1, <1>2, <1>3 DEF IopTimes
  <2>2. clk.gap >= 2 => sys.pgo = FALSE
    BY <1>1, <1>2 DEF IopTimes
  <2>3. clk.gap >= 2 => sys'.peek = sys.peek
    BY <1>1, <2>2
  <2> QED BY <1>1, <1>2, <1>3, <2>1, <2>3 DEF IopTimes
<1>4. CASE clk'.gap = 0
  BY <1>4 DEF IopTimes
<1> QED BY <1>1, <1>3, <1>4

LEMMA IopAnswered ==
  ASSUME IopInv, host.pc = "data", clk.gap = Gap
  PROVE  /\ sys.ptr = host.n /\ host.n \in 0 .. Size - 1
         /\ sys.value[2] = core.value /\ core.value = core.rom[host.n]
<1>1. IopTypes /\ IopValue /\ IopRom
  BY DEF IopInv
<1>2. Gap \in Nat /\ PeekSlow \in Nat /\ PeekSlow + 7 <= Gap
  BY IopFits
<1>3. Answered
  BY IopAtRest DEF Answered
<1>4. host.n \in Nat /\ host.n < Size
  BY <1>1, IopScalars DEF IopRom
<1> QED BY <1>1, <1>2, <1>3, <1>4, IopFits DEF IopValue

LEMMA IopSysValue ==
  ASSUME IopInv, NEW s, IopSteps(s)
  PROVE  IopValue'
<1>1. /\ IopTypes /\ IopPeek /\ IopValue /\ core' = core /\ clk'.core.value = core.value
      /\ clk'.edges = clk.edges + 1 /\ sys'.pgo = sys.parm
      /\ sys'.peek = IF sys.pgo = TRUE THEN ~sys.peek ELSE sys.peek
  BY IopPeekMoves DEF IopInv, IopSteps, IopTicks
<1>0. IopTypes
  BY DEF IopInv
<1>2. /\ clk.gap \in Nat /\ clk.edges \in Nat /\ PeekSlow \in Nat
      /\ sys.parm \in BOOLEAN /\ sys.pgo \in BOOLEAN /\ sys.peek \in BOOLEAN
  BY <1>0, IopFits, IopScalars
<1>3. SUFFICES ASSUME host'.pc = "data" PROVE IopValue'
  BY DEF IopValue
<1>4. CASE IopQuiet(s)
  <2>1. /\ host' = host /\ clk'.gap = clk.gap /\ sys' = s /\ s.ptr = sys.ptr
        /\ s.value[1] \in {clk.core.value, core.value} /\ s.value[2] = sys.value[1]
    BY <1>4 DEF IopQuiet, IopSteps, IopLeaves
  <2>2. /\ sys.ptr = host.n
        /\ Answered => core.value = core.rom[host.n]
        /\ clk.gap >= PeekSlow + 6 =>
           /\ clk.edges >= 1 \/ clk.gap >= PeekSlow + 7 => clk.core.value = core.value
           /\ clk.edges >= 2 \/ clk.gap >= PeekSlow + 7 => sys.value[1] = core.value
    BY <1>1, <1>3, <2>1 DEF IopValue
  <2>3. Answered' => Answered
    <3>1. SUFFICES ASSUME Answered' PROVE Answered
      OBVIOUS
    <3>2. sys.parm = FALSE /\ sys'.peek = core.peek[3] /\ core.left = None
      BY <1>1, <3>1 DEF Answered
    <3>3. sys.pgo = TRUE => sys.peek = core.peek[3]
      BY <1>1 DEF IopPeek
    <3>4. sys.pgo = FALSE
      BY <1>1, <1>2, <3>2, <3>3
    <3> QED BY <1>1, <3>2, <3>4 DEF Answered
  <2>4. clk'.gap >= PeekSlow + 6 =>
          /\ clk'.edges >= 2 \/ clk'.gap >= PeekSlow + 7 => sys'.value[1] = core.value
          /\ clk'.edges >= 3 \/ clk'.gap >= PeekSlow + 7 => sys'.value[2] = core.value
    BY <1>1, <1>2, <2>1, <2>2
  <2> QED BY <1>1, <2>1, <2>2, <2>3, <2>4 DEF IopValue
<1>5. CASE clk'.gap = 0 /\ IopMoves(s)
  <2>1. host.pc \in {"peek", "data"}
    BY <1>1, <1>3, <1>5, IopScalars DEF IopMoves, IopPcs, IopLoading, IopVerifying, IopRunning
  <2>2. sys'.ptr = host'.n /\ sys'.parm = TRUE
    <3>1. CASE host.pc = "peek"
      BY <1>5, <3>1 DEF IopMoves
    <3>2. CASE host.pc = "data"
      <4>1. sys.ptr = host.n
        BY <1>1, <3>2 DEF IopValue
      <4> QED BY <1>5, <3>2, <4>1 DEF IopMoves
    <3> QED BY <2>1, <3>1, <3>2
  <2>3. ~Answered'
    BY <2>2 DEF Answered
  <2>4. ~(clk'.gap >= PeekSlow + 6)
    BY <1>2, <1>5
  <2> QED BY <2>2, <2>3, <2>4 DEF IopValue
<1> QED BY <1>4, <1>5 DEF IopSteps

LEMMA IopSysFound ==
  ASSUME IopInv, NEW s, IopSteps(s)
  PROVE  IopFound'
<1>1. IopTypes /\ IopFound /\ IopRom /\ core' = core /\ Size \in Nat \ {0}
  BY IopFits DEF IopInv, IopSteps
<1>2. /\ host.pc \in IopPcs /\ host.n \in Nat /\ host.bad \in BOOLEAN
  BY <1>1, IopScalars
<1>3. CASE IopQuiet(s)
  <2>1. host' = host
    BY <1>3 DEF IopQuiet
  <2> QED BY <1>1, <2>1 DEF IopFound
<1>4. CASE IopMoves(s) /\ host.pc \in IopLoading
  <2>1. host'.bad = host.bad /\ host.bad = FALSE
    BY <1>1, <1>4 DEF IopMoves, IopFound, IopLoading, IopVerifying
  <2>2. host'.pc \in IopLoading \/ (host'.pc = "peek" /\ host'.n = 0)
    BY <1>4 DEF IopMoves, IopLoading
  <2>3. "bad" \notin IopLoading /\ "peek" \notin IopRunning /\ IopLoading \cap IopRunning = {}
        /\ IopLoading \cap IopVerifying = {}
    BY DEF IopLoading, IopVerifying, IopRunning
  <2>4. CASE host'.pc \in IopLoading
    BY <2>1, <2>3, <2>4 DEF IopFound
  <2>5. CASE host'.pc = "peek" /\ host'.n = 0
    BY <1>1, <2>1, <2>3, <2>5 DEF IopFound, IopLoading
  <2> QED BY <2>2, <2>4, <2>5
<1>5. CASE IopMoves(s) /\ host.pc = "peek"
  <2>1. host'.pc = "data" /\ host'.bad = host.bad /\ host'.n = host.n
    BY <1>5 DEF IopMoves
  <2>2. /\ host.bad = FALSE => \A i \in 0 .. host.n - 1 : core.rom[i] = i
        /\ host.bad = TRUE => \E i \in 0 .. Size - 1 : core.rom[i] # i
    BY <1>1, <1>5 DEF IopFound, IopVerifying
  <2> QED BY <1>1, <2>1, <2>2 DEF IopFound, IopLoading, IopRunning, IopVerifying
<1>6. CASE IopMoves(s) /\ host.pc = "data"
  <2>1. /\ host'.n = host.n + 1
        /\ host'.bad = FALSE <=> host.bad = FALSE /\ sys.value[2] = Iop!Image[host.n]
        /\ host'.pc = IF (host.n + 1) % Part # 0 THEN "data"
                      ELSE IF host.n + 1 < Size THEN "peek"
                      ELSE IF host'.bad THEN "bad" ELSE "release"
        /\ clk.gap = Gap /\ host'.bad \in BOOLEAN
    BY <1>6 DEF IopMoves, IopHost
  <2>2. host.n \in 0 .. Size - 1 /\ sys.value[2] = core.rom[host.n]
    BY <1>6, <2>1, IopAnswered
  <2>3. Iop!Image[host.n] = host.n
    BY <2>2 DEF Iop!Image
  <2>4. /\ host.bad = FALSE => \A i \in 0 .. host.n - 1 : core.rom[i] = i
        /\ host.bad = TRUE => \E i \in 0 .. Size - 1 : core.rom[i] # i
    BY <1>1, <1>6 DEF IopFound, IopVerifying
  <2>5. host'.bad = FALSE => \A i \in 0 .. host'.n - 1 : core.rom[i] = i
    BY <1>2, <2>1, <2>2, <2>3, <2>4
  <2>6. host'.bad = TRUE => \E i \in 0 .. Size - 1 : core.rom[i] # i
    BY <1>2, <2>1, <2>2, <2>3, <2>4
  <2>7. host'.pc = "release" => host'.bad = FALSE /\ host'.n = Size
    BY <1>1, <1>2, <2>1, <2>2, NotPastEnd
  <2>8. host'.pc = "bad" => host'.bad = TRUE
    BY <2>1
  <2>9. host'.pc \in {"data", "peek", "bad", "release"}
    BY <2>1
  <2>10. host'.pc \in IopRunning => \A i \in 0 .. Size - 1 : core.rom[i] = i
    <3>1. host'.pc \in IopRunning => host'.pc = "release"
      BY <2>9 DEF IopRunning
    <3> QED BY <2>5, <2>7, <3>1
  <2>11. host'.pc \notin IopLoading
    BY <2>9 DEF IopLoading
  <2> QED BY <1>1, <2>5, <2>6, <2>8, <2>10, <2>11 DEF IopFound
<1>7. CASE IopMoves(s) /\ host.pc \in IopRunning
  <2>1. host'.pc \in IopRunning /\ host'.bad = host.bad
    BY <1>7 DEF IopMoves, IopRunning, IopVerifying
  <2>2. \A i \in 0 .. Size - 1 : core.rom[i] = i
    BY <1>1, <1>7 DEF IopFound
  <2>3. host.bad = TRUE => \E i \in 0 .. Size - 1 : core.rom[i] # i
    BY <1>1 DEF IopFound
  <2> QED BY <1>1, <2>1, <2>2, <2>3 DEF IopFound, IopLoading, IopRunning, IopVerifying
<1>8. CASE IopMoves(s) /\ host.pc \notin IopLoading \cup IopRunning \cup {"peek", "data"}
  BY <1>2, <1>8 DEF IopMoves, IopPcs, IopVerifying
<1> QED BY <1>3, <1>4, <1>5, <1>6, <1>7, <1>8 DEF IopSteps

LEMMA IopSysInv ==
  ASSUME IopInv, Iop!SysEdge
  PROVE  IopInv'
<1>1. PICK s : IopSteps(s)
  BY IopSteppedIs
<1>2. IopTypes' /\ IopHeld' /\ IopSettles' /\ IopRests'
  BY <1>1, IopSysTypes, IopSysSettles, IopSysRests
<1>3. IopOrder' /\ IopChunk' /\ IopRom' /\ IopPeek'
  BY <1>1, IopSysOrder, IopSysChunk, IopSysRom, IopSysPeek
<1>4. IopTimes' /\ IopValue' /\ IopFound'
  BY <1>1, IopSysTimes, IopSysValue, IopSysFound
<1> QED BY <1>2, <1>3, <1>4 DEF IopInv

\* An edge of the IOP's clock: the host and its registers stay.
IopBeats ==
    /\ IopClocks /\ IopStores /\ IopPeeks /\ IopTicks
    /\ clk.edges >= 3 /\ clk'.edges = 0
    /\ clk'.gap = IF clk.gap < Gap THEN clk.gap + 1 ELSE Gap
    /\ sys' = sys /\ host' = host

LEMMA IopBeatIs ==
  ASSUME IopInv, Iop!CoreEdge
  PROVE  IopBeats
<1>1. IopTypes
  BY DEF IopInv
<1> QED BY <1>1, IopCoreStep DEF IopBeats

LEMMA IopGapIs ==
  ASSUME IopTypes, IopBeats
  PROVE  /\ clk.gap \in Nat /\ clk'.gap \in Nat /\ PeekSlow \in Nat
         /\ clk'.gap = clk.gap + 1 \/ (clk'.gap = clk.gap /\ clk.gap >= PeekSlow + 7)
<1>1. Gap \in Nat /\ PeekSlow \in Nat /\ PeekSlow + 7 <= Gap
  BY IopFits
<1>2. clk.gap \in 0 .. Gap
  BY IopScalars
<1>3. clk'.gap = IF clk.gap < Gap THEN clk.gap + 1 ELSE Gap
  BY DEF IopBeats
<1> QED BY <1>1, <1>2, <1>3

LEMMA IopCoreTypes ==
  ASSUME IopInv, IopBeats
  PROVE  IopTypes' /\ IopHeld'
<1>1. IopTypes /\ IopHeld
  BY DEF IopInv
<1>2. /\ sys' = sys /\ host' = host /\ core' \in IopCore /\ clk' \in IopClk /\ clk'.sys.reset = sys.reset
      /\ core'.rst[1] \in {clk.sys.reset, sys.reset} /\ core'.rst[2] = core.rst[1]
  BY DEF IopBeats, IopClocks, IopTicks
<1>3. IopTypes'
  BY <1>1, <1>2 DEF IopTypes
<1>4. IopHeld'
  BY <1>1, <1>2 DEF IopHeld
<1> QED BY <1>3, <1>4

LEMMA IopCoreSettles ==
  ASSUME IopInv, IopBeats
  PROVE  IopSettles'
<1>1. /\ IopTypes /\ Settles(sys.wr, clk.sys.wr, core.wr) /\ Settles(sys.anchor, clk.sys.anchor, core.anchor)
  BY DEF IopInv, IopSettles
<1>2. /\ sys' = sys /\ clk'.sys.wr = sys.wr /\ clk'.sys.anchor = sys.anchor
      /\ core'.anchor[1] \in {clk.sys.anchor, sys.anchor}
      /\ core'.anchor[2] = core.anchor[1] /\ core'.anchor[3] = core.anchor[2]
      /\ core'.wr[1] \in {clk.sys.wr, sys.wr}
      /\ core'.wr[2] = core.wr[1] /\ core'.wr[3] = core.wr[2]
      /\ core'.rom_wr \in BOOLEAN /\ (core'.rom_wr = TRUE <=> core.wr[2] # core.wr[3])
  BY DEF IopBeats, IopClocks, IopStores, IopTicks, IopCore
<1>3. /\ clk.gap \in Nat /\ clk'.gap \in Nat /\ PeekSlow \in Nat
      /\ clk'.gap = clk.gap + 1 \/ (clk'.gap = clk.gap /\ clk.gap >= PeekSlow + 7)
  BY <1>1, IopGapIs
<1>4. Settles(sys.wr, clk.sys.wr, core.wr)'
  BY <1>1, <1>2, <1>3 DEF Settles
<1>5. Settles(sys.anchor, clk.sys.anchor, core.anchor)'
  BY <1>1, <1>2, <1>3 DEF Settles
<1>6. clk'.gap >= 5 => core'.rom_wr = FALSE
  BY <1>1, <1>2, <1>3 DEF Settles
<1> QED BY <1>4, <1>5, <1>6 DEF IopSettles

LEMMA IopCoreRests ==
  ASSUME IopInv, IopBeats
  PROVE  IopRests'
<1>1. SUFFICES ASSUME host'.pc \notin {"word", "count"} PROVE Resting'
  BY DEF IopRests
<1>2. /\ sys' = sys /\ host' = host /\ clk'.sys.wr = sys.wr /\ clk'.sys.anchor = sys.anchor
      /\ core'.anchor[1] \in {clk.sys.anchor, sys.anchor}
      /\ core'.anchor[2] = core.anchor[1] /\ core'.anchor[3] = core.anchor[2]
      /\ core'.wr[1] \in {clk.sys.wr, sys.wr}
      /\ core'.wr[2] = core.wr[1] /\ core'.wr[3] = core.wr[2]
      /\ core'.rom_wr \in BOOLEAN /\ (core'.rom_wr = TRUE <=> core.wr[2] # core.wr[3])
      /\ core' \in IopCore
  BY DEF IopBeats, IopClocks, IopStores, IopTicks, IopCore
<1>3. Resting
  BY <1>1, <1>2 DEF IopInv, IopRests
<1>4. /\ sys.wr = clk.sys.wr /\ core.wr[1] = sys.wr /\ core.wr[2] = sys.wr /\ core.wr[3] = sys.wr
      /\ sys.anchor = clk.sys.anchor
      /\ core.anchor[1] = sys.anchor /\ core.anchor[2] = sys.anchor /\ core.anchor[3] = sys.anchor
  BY <1>3 DEF Resting
<1>5. /\ core'.wr = <<core'.wr[1], core'.wr[2], core'.wr[3]>>
      /\ core'.anchor = <<core'.anchor[1], core'.anchor[2], core'.anchor[3]>>
  <2>1. core'.wr \in Trio /\ core'.anchor \in Trio
    BY <1>2 DEF IopCore
  <2> QED BY <2>1 DEF Trio
<1> QED BY <1>2, <1>4, <1>5 DEF Resting

LEMMA IopPulses ==
  ASSUME IopTypes, IopBeats
  PROVE  /\ Pulsing(sys.anchor, clk.sys.anchor, core.anchor[1], core.anchor[2], core.anchor[3])
              => Pulsing(sys.anchor, clk.sys.anchor, core.anchor[1], core.anchor[2], core.anchor[3])'
         /\ Pulsing(sys.wr, clk.sys.wr, core.wr[1], core.wr[2], core.wr[3])
              => Pulsing(sys.wr, clk.sys.wr, core.wr[1], core.wr[2], core.wr[3])'
         /\ Pulsing(sys.peek, clk.sys.peek, core.peek[1], core.peek[2], core.peek[3])
              => Pulsing(sys.peek, clk.sys.peek, core.peek[1], core.peek[2], core.peek[3])'
<1>1. /\ sys' = sys /\ clk'.sys.wr = sys.wr /\ clk'.sys.anchor = sys.anchor /\ clk'.sys.peek = sys.peek
      /\ core'.anchor[1] \in {clk.sys.anchor, sys.anchor}
      /\ core'.anchor[2] = core.anchor[1] /\ core'.anchor[3] = core.anchor[2]
      /\ core'.wr[1] \in {clk.sys.wr, sys.wr}
      /\ core'.wr[2] = core.wr[1] /\ core'.wr[3] = core.wr[2]
      /\ core'.peek[1] \in {clk.sys.peek, sys.peek}
      /\ core'.peek[2] = core.peek[1] /\ core'.peek[3] = core.peek[2]
  BY DEF IopBeats, IopClocks, IopTicks
<1>2. ASSUME Pulsing(sys.anchor, clk.sys.anchor, core.anchor[1], core.anchor[2], core.anchor[3])
      PROVE  Pulsing(sys.anchor, clk.sys.anchor, core.anchor[1], core.anchor[2], core.anchor[3])'
  <2>1. PICK a \in BOOLEAN, b \in BOOLEAN, c \in BOOLEAN, d \in BOOLEAN, z \in BOOLEAN :
          /\ a = sys.anchor /\ b = clk.sys.anchor
          /\ c = core.anchor[1] /\ d = core.anchor[2] /\ z = core.anchor[3]
    BY IopScalars, IopFlops
  <2>2. Pulsing(a, b, c, d, z)
    BY <1>2, <2>1
  <2>3. PICK c1 \in {b, a} : c1 = core'.anchor[1]
    BY <1>1, <2>1
  <2>4. Pulsing(a, a, c1, c, d)
    BY <2>2, PulseGoes
  <2> QED BY <1>1, <2>1, <2>3, <2>4 DEF Pulsing
<1>3. ASSUME Pulsing(sys.wr, clk.sys.wr, core.wr[1], core.wr[2], core.wr[3])
      PROVE  Pulsing(sys.wr, clk.sys.wr, core.wr[1], core.wr[2], core.wr[3])'
  <2>1. PICK a \in BOOLEAN, b \in BOOLEAN, c \in BOOLEAN, d \in BOOLEAN, z \in BOOLEAN :
          /\ a = sys.wr /\ b = clk.sys.wr /\ c = core.wr[1] /\ d = core.wr[2] /\ z = core.wr[3]
    BY IopScalars, IopFlops
  <2>2. Pulsing(a, b, c, d, z)
    BY <1>3, <2>1
  <2>3. PICK c1 \in {b, a} : c1 = core'.wr[1]
    BY <1>1, <2>1
  <2>4. Pulsing(a, a, c1, c, d)
    BY <2>2, PulseGoes
  <2> QED BY <1>1, <2>1, <2>3, <2>4 DEF Pulsing
<1>4. ASSUME Pulsing(sys.peek, clk.sys.peek, core.peek[1], core.peek[2], core.peek[3])
      PROVE  Pulsing(sys.peek, clk.sys.peek, core.peek[1], core.peek[2], core.peek[3])'
  <2>1. PICK a \in BOOLEAN, b \in BOOLEAN, c \in BOOLEAN, d \in BOOLEAN, z \in BOOLEAN :
          /\ a = sys.peek /\ b = clk.sys.peek /\ c = core.peek[1] /\ d = core.peek[2] /\ z = core.peek[3]
    BY IopScalars, IopFlops
  <2>2. Pulsing(a, b, c, d, z)
    BY <1>4, <2>1
  <2>3. PICK c1 \in {b, a} : c1 = core'.peek[1]
    BY <1>1, <2>1
  <2>4. Pulsing(a, a, c1, c, d)
    BY <2>2, PulseGoes
  <2> QED BY <1>1, <2>1, <2>3, <2>4 DEF Pulsing
<1> QED BY <1>2, <1>3, <1>4

\* A pulse between the last two flip-flops: the toggle is behind it, the rest is not.
LEMMA PulseAt ==
  ASSUME NEW a \in BOOLEAN, NEW b \in BOOLEAN, NEW c \in BOOLEAN, NEW d \in BOOLEAN,
         NEW z \in BOOLEAN, Pulsing(a, b, c, d, z)
  PROVE  /\ d # z => a # z /\ b # z /\ c # z /\ a = d
         /\ a = z => b = z /\ c = z /\ d = z
         /\ a # d => a # z /\ d = z
         /\ c # d => c # z /\ b # z /\ a # z /\ d = z
  BY DEF Pulsing

LEMMA AnchorPulseAt ==
  ASSUME IopTypes, Pulsing(sys.anchor, clk.sys.anchor, core.anchor[1], core.anchor[2], core.anchor[3])
  PROVE  /\ core.anchor[2] # core.anchor[3] => sys.anchor # core.anchor[3] /\ clk.sys.anchor # core.anchor[3] /\ core.anchor[1] # core.anchor[3] /\ sys.anchor = core.anchor[2]
         /\ sys.anchor = core.anchor[3] => clk.sys.anchor = core.anchor[3] /\ core.anchor[1] = core.anchor[3] /\ core.anchor[2] = core.anchor[3]
         /\ sys.anchor # core.anchor[2] => sys.anchor # core.anchor[3] /\ core.anchor[2] = core.anchor[3]
         /\ core.anchor[1] # core.anchor[2] => core.anchor[1] # core.anchor[3] /\ clk.sys.anchor # core.anchor[3] /\ sys.anchor # core.anchor[3] /\ core.anchor[2] = core.anchor[3]
<1>1. PICK a \in BOOLEAN, b \in BOOLEAN, c \in BOOLEAN, d \in BOOLEAN, z \in BOOLEAN :
        /\ a = sys.anchor /\ b = clk.sys.anchor
        /\ c = core.anchor[1] /\ d = core.anchor[2] /\ z = core.anchor[3]
  BY IopScalars, IopFlops
<1>2. Pulsing(a, b, c, d, z)
  BY <1>1
<1>3. /\ d # z => a # z /\ b # z /\ c # z /\ a = d
      /\ a = z => b = z /\ c = z /\ d = z
      /\ a # d => a # z /\ d = z
      /\ c # d => c # z /\ b # z /\ a # z /\ d = z
  BY <1>2, PulseAt
<1> QED BY <1>1, <1>3

LEMMA WritePulseAt ==
  ASSUME IopTypes, Pulsing(sys.wr, clk.sys.wr, core.wr[1], core.wr[2], core.wr[3])
  PROVE  /\ core.wr[2] # core.wr[3] => sys.wr # core.wr[3] /\ clk.sys.wr # core.wr[3] /\ core.wr[1] # core.wr[3] /\ sys.wr = core.wr[2]
         /\ sys.wr = core.wr[3] => clk.sys.wr = core.wr[3] /\ core.wr[1] = core.wr[3] /\ core.wr[2] = core.wr[3]
         /\ sys.wr # core.wr[2] => sys.wr # core.wr[3] /\ core.wr[2] = core.wr[3]
         /\ core.wr[1] # core.wr[2] => core.wr[1] # core.wr[3] /\ clk.sys.wr # core.wr[3] /\ sys.wr # core.wr[3] /\ core.wr[2] = core.wr[3]
<1>1. PICK a \in BOOLEAN, b \in BOOLEAN, c \in BOOLEAN, d \in BOOLEAN, z \in BOOLEAN :
        /\ a = sys.wr /\ b = clk.sys.wr
        /\ c = core.wr[1] /\ d = core.wr[2] /\ z = core.wr[3]
  BY IopScalars, IopFlops
<1>2. Pulsing(a, b, c, d, z)
  BY <1>1
<1>3. /\ d # z => a # z /\ b # z /\ c # z /\ a = d
      /\ a = z => b = z /\ c = z /\ d = z
      /\ a # d => a # z /\ d = z
      /\ c # d => c # z /\ b # z /\ a # z /\ d = z
  BY <1>2, PulseAt
<1> QED BY <1>1, <1>3

LEMMA PeekPulseAt ==
  ASSUME IopTypes, Pulsing(sys.peek, clk.sys.peek, core.peek[1], core.peek[2], core.peek[3])
  PROVE  /\ core.peek[2] # core.peek[3] => sys.peek # core.peek[3] /\ clk.sys.peek # core.peek[3] /\ core.peek[1] # core.peek[3] /\ sys.peek = core.peek[2]
         /\ sys.peek = core.peek[3] => clk.sys.peek = core.peek[3] /\ core.peek[1] = core.peek[3] /\ core.peek[2] = core.peek[3]
         /\ sys.peek # core.peek[2] => sys.peek # core.peek[3] /\ core.peek[2] = core.peek[3]
         /\ core.peek[1] # core.peek[2] => core.peek[1] # core.peek[3] /\ clk.sys.peek # core.peek[3] /\ sys.peek # core.peek[3] /\ core.peek[2] = core.peek[3]
<1>1. PICK a \in BOOLEAN, b \in BOOLEAN, c \in BOOLEAN, d \in BOOLEAN, z \in BOOLEAN :
        /\ a = sys.peek /\ b = clk.sys.peek
        /\ c = core.peek[1] /\ d = core.peek[2] /\ z = core.peek[3]
  BY IopScalars, IopFlops
<1>2. Pulsing(a, b, c, d, z)
  BY <1>1
<1>3. /\ d # z => a # z /\ b # z /\ c # z /\ a = d
      /\ a = z => b = z /\ c = z /\ d = z
      /\ a # d => a # z /\ d = z
      /\ c # d => c # z /\ b # z /\ a # z /\ d = z
  BY <1>2, PulseAt
<1> QED BY <1>1, <1>3

LEMMA IopAnchors ==
  ASSUME IopInv, IopBeats
  PROVE  /\ core.anchor[2] # core.anchor[3] => Anchoring /\ ~Anchoring' /\ core'.ptr = sys.addr
         /\ core.anchor[2] = core.anchor[3] => (Anchoring' <=> Anchoring)
         /\ core.anchor[2] = core.anchor[3] => core'.ptr = IF core.rom_wr = TRUE THEN core.ptr + 1 ELSE core.ptr
<1>1. /\ IopTypes
      /\ Pulsing(sys.anchor, clk.sys.anchor, core.anchor[1], core.anchor[2], core.anchor[3])
      /\ clk.sys.anchor # core.anchor[3] => clk.sys.addr = sys.addr
  BY DEF IopInv, IopOrder
<1>2. /\ sys' = sys /\ core'.anchor[3] = core.anchor[2]
      /\ core.anchor[2] # core.anchor[3] => core'.ptr \in {clk.sys.addr, sys.addr}
      /\ core.anchor[2] = core.anchor[3] => core'.ptr = IF core.rom_wr = TRUE THEN core.ptr + 1 ELSE core.ptr
  BY DEF IopBeats, IopClocks, IopStores
<1>3. core.anchor[2] # core.anchor[3] => /\ sys.anchor # core.anchor[3] /\ clk.sys.anchor # core.anchor[3]
                                         /\ sys.anchor = core.anchor[2]
  BY <1>1, AnchorPulseAt
<1> QED BY <1>1, <1>2, <1>3 DEF Anchoring

LEMMA IopCoreOrder ==
  ASSUME IopInv, IopBeats
  PROVE  IopOrder'
<1>1. /\ IopTypes
      /\ Pulsing(sys.anchor, clk.sys.anchor, core.anchor[1], core.anchor[2], core.anchor[3])
      /\ Anchoring =>
           /\ clk.sys.anchor = core.anchor[3] => sys.wr = clk.sys.wr /\ clk.sys.wr = core.wr[1]
           /\ core.anchor[1] = core.anchor[3] => core.wr[1] = core.wr[2]
           /\ core.anchor[2] = core.anchor[3] => core.wr[2] = core.wr[3]
      /\ ~Anchoring /\ host.pc \in {"word", "count"} => core.ptr >= sys.addr
  BY DEF IopInv, IopOrder
<1>2. /\ sys' = sys /\ host' = host
      /\ clk'.sys.wr = sys.wr /\ clk'.sys.anchor = sys.anchor /\ clk'.sys.addr = sys.addr
      /\ core'.anchor[1] \in {clk.sys.anchor, sys.anchor}
      /\ core'.anchor[2] = core.anchor[1] /\ core'.anchor[3] = core.anchor[2]
      /\ core'.wr[1] \in {clk.sys.wr, sys.wr}
      /\ core'.wr[2] = core.wr[1] /\ core'.wr[3] = core.wr[2]
      /\ core'.rom_wr \in BOOLEAN /\ (core'.rom_wr = TRUE <=> core.wr[2] # core.wr[3])
  BY DEF IopBeats, IopClocks, IopStores, IopTicks, IopCore
<1>3. /\ core.anchor[2] # core.anchor[3] => Anchoring /\ ~Anchoring' /\ core'.ptr = sys.addr
      /\ core.anchor[2] = core.anchor[3] => (Anchoring' <=> Anchoring)
      /\ core.anchor[2] = core.anchor[3] => core'.ptr = IF core.rom_wr = TRUE THEN core.ptr + 1 ELSE core.ptr
  BY IopAnchors
<1>4. Pulsing(sys.anchor, clk.sys.anchor, core.anchor[1], core.anchor[2], core.anchor[3])'
  BY <1>1, IopPulses
<1>5. ASSUME Anchoring'
      PROVE  /\ core'.rom_wr = FALSE /\ clk'.sys.anchor # core'.anchor[3]
             /\ core'.anchor[1] = core'.anchor[3] => core'.wr[1] = core'.wr[2]
             /\ core'.anchor[2] = core'.anchor[3] => core'.wr[2] = core'.wr[3]
  <2>1. Anchoring /\ core.anchor[2] = core.anchor[3]
    BY <1>3, <1>5
  <2>2. core'.rom_wr = FALSE
    BY <1>1, <1>2, <2>1
  <2>3. clk'.sys.anchor # core'.anchor[3]
    BY <1>2, <1>5 DEF Anchoring
  <2>4. core'.anchor[1] = core'.anchor[3] => clk.sys.anchor = core.anchor[3]
    BY <1>2, <2>1 DEF Anchoring
  <2> QED BY <1>1, <1>2, <2>1, <2>2, <2>3, <2>4
<1>6. ASSUME ~Anchoring', host.pc \in {"word", "count"} PROVE core'.ptr >= sys.addr
  <2>1. sys.addr \in Nat /\ core.ptr \in Nat
    BY <1>1, IopScalars
  <2>2. CASE core.anchor[2] # core.anchor[3]
    BY <1>3, <2>1, <2>2
  <2>3. CASE core.anchor[2] = core.anchor[3]
    BY <1>1, <1>3, <1>6, <2>1, <2>3
  <2> QED BY <2>2, <2>3
<1> QED BY <1>2, <1>4, <1>5, <1>6 DEF IopOrder

\* What a word written to the ROM changes of it.
LEMMA IopWrites ==
  ASSUME IopInv, IopBeats
  PROVE  /\ core.rom_wr \in BOOLEAN /\ core.ptr \in Nat
         /\ core.rom_wr = FALSE => core'.rom = core.rom
         /\ core.rom_wr = TRUE => /\ host.pc \in {"word", "count"} /\ ~Anchoring
                                  /\ core.ptr >= sys.addr
         /\ \A i \in 0 .. Size - 1 : i # core.ptr => core'.rom[i] = core.rom[i]
         /\ core.rom_wr = TRUE /\ core.ptr < Size => core'.rom[core.ptr] = core.word
<1>1. IopTypes
  BY DEF IopInv
<1>2. core.rom_wr \in BOOLEAN /\ core.ptr \in Nat /\ core.rom \in [0 .. Size - 1 -> Val] /\ Size \in Nat
  BY <1>1, IopScalars, IopFits
<1>3. core'.rom = IF core.rom_wr = TRUE /\ core.ptr < Size THEN [core.rom EXCEPT ![core.ptr] = core.word]
                  ELSE core.rom
  BY DEF IopBeats, IopStores
<1>4. core.rom_wr = TRUE => host.pc \in {"word", "count"}
  BY DEF IopInv, IopRests, Resting
<1>5. core.rom_wr = TRUE => ~Anchoring
  BY DEF IopInv, IopOrder
<1>6. core.rom_wr = TRUE => core.ptr >= sys.addr
  BY <1>4, <1>5 DEF IopInv, IopOrder
<1>7. \A i \in 0 .. Size - 1 : i # core.ptr => core'.rom[i] = core.rom[i]
  BY <1>2, <1>3
<1>8. core.rom_wr = TRUE /\ core.ptr < Size => core'.rom[core.ptr] = core.word
  BY <1>2, <1>3
<1> QED BY <1>2, <1>3, <1>4, <1>5, <1>6, <1>7, <1>8

LEMMA IopCoreWhole ==
  ASSUME IopInv, IopBeats, host.pc \in {"word", "count"}, ChunkWhole
  PROVE  ChunkWhole'
<1>1. /\ IopTypes
      /\ Pulsing(sys.wr, clk.sys.wr, core.wr[1], core.wr[2], core.wr[3])
      /\ Anchoring => host.n = sys.addr /\ sys.wr = core.wr[3]
      /\ sys.wr # core.wr[3] => /\ core.rom_wr = FALSE /\ core.ptr + 1 = host.n /\ sys.word = core.ptr
                                /\ clk.sys.wr # core.wr[3] => clk.sys.word = sys.word
      /\ core.rom_wr = TRUE => core.ptr + 1 = host.n /\ core.word = core.ptr
      /\ ~Anchoring /\ sys.wr = core.wr[3] /\ core.rom_wr = FALSE => core.ptr = host.n
      /\ ~Anchoring => \A i \in sys.addr .. core.ptr - 1 : core.rom[i] = i
  BY DEF IopInv, ChunkWhole
<1>2. /\ sys' = sys /\ host' = host
      /\ clk'.sys.wr = sys.wr /\ clk'.sys.word = sys.word
      /\ core'.wr[3] = core.wr[2]
      /\ core'.rom_wr \in BOOLEAN /\ (core'.rom_wr = TRUE <=> core.wr[2] # core.wr[3])
      /\ core.wr[2] # core.wr[3] => core'.word \in {clk.sys.word, sys.word}
      /\ core.wr[2] = core.wr[3] => core'.word = core.word
  BY DEF IopBeats, IopClocks, IopStores, IopTicks, IopCore
<1>3. /\ core.anchor[2] # core.anchor[3] => Anchoring /\ ~Anchoring' /\ core'.ptr = sys.addr
      /\ core.anchor[2] = core.anchor[3] => (Anchoring' <=> Anchoring)
      /\ core.anchor[2] = core.anchor[3] => core'.ptr = IF core.rom_wr = TRUE THEN core.ptr + 1 ELSE core.ptr
  BY IopAnchors
<1>4. /\ core.wr[2] # core.wr[3] => /\ sys.wr # core.wr[3] /\ clk.sys.wr # core.wr[3] /\ core.wr[1] # core.wr[3]
                                    /\ sys.wr = core.wr[2]
      /\ sys.wr = core.wr[3] => core.wr[2] = core.wr[3]
      /\ sys.wr # core.wr[2] => sys.wr # core.wr[3] /\ core.wr[2] = core.wr[3]
  BY <1>1, WritePulseAt
<1>5. Pulsing(sys.wr, clk.sys.wr, core.wr[1], core.wr[2], core.wr[3])'
  BY <1>1, IopPulses
<1>6. /\ host.n \in Nat /\ sys.addr \in Nat /\ core.ptr \in Nat /\ core.rom_wr \in BOOLEAN
      /\ host.n <= Size /\ Size \in Nat
  BY <1>1, IopScalars, IopFits DEF IopInv, IopRom
<1>7. ~Anchoring => core.anchor[2] = core.anchor[3]
  BY <1>3
<1>8. Anchoring' => host.n = sys.addr /\ sys.wr = core'.wr[3]
  BY <1>1, <1>2, <1>3, <1>4
<1>9. sys.wr # core.wr[3] => core.anchor[2] = core.anchor[3] /\ core'.ptr = core.ptr /\ ~Anchoring
  BY <1>1, <1>3, <1>6, <1>7
<1>10. sys'.wr # core'.wr[3] => core'.rom_wr = FALSE /\ core'.ptr + 1 = host.n /\ sys.word = core'.ptr
  BY <1>1, <1>2, <1>4, <1>9
<1>11. core'.rom_wr = TRUE => core'.ptr + 1 = host.n /\ core'.word = core'.ptr
  BY <1>1, <1>2, <1>4, <1>9
<1>12. ~Anchoring' /\ sys.wr = core'.wr[3] /\ core'.rom_wr = FALSE => core'.ptr = host.n
  <2>1. SUFFICES ASSUME ~Anchoring', sys.wr = core.wr[2], core.wr[2] = core.wr[3] PROVE core'.ptr = host.n
    BY <1>2
  <2>2. CASE Anchoring
    BY <1>1, <1>3, <2>1, <2>2
  <2>3. CASE ~Anchoring
    BY <1>1, <1>3, <1>6, <1>7, <2>1, <2>3
  <2> QED BY <2>2, <2>3
<1>13. ~Anchoring' => \A i \in sys.addr .. core'.ptr - 1 : core'.rom[i] = i
  <2>1. SUFFICES ASSUME ~Anchoring', NEW i \in sys.addr .. core'.ptr - 1 PROVE core'.rom[i] = i
    OBVIOUS
  <2>2. ~Anchoring
    <3>1. CASE core.anchor[2] # core.anchor[3]
      BY <1>3, <1>6, <2>1, <3>1
    <3>2. CASE core.anchor[2] = core.anchor[3]
      BY <1>3, <2>1, <3>2
    <3> QED BY <3>1, <3>2
  <2>3. \A j \in sys.addr .. core.ptr - 1 : core.rom[j] = j
    BY <1>1, <2>2
  <2>4. core.rom_wr = TRUE => core.ptr < Size
    BY <1>1, <1>6
  <2>5. CASE core.rom_wr = TRUE
    <3>1. core'.ptr = core.ptr + 1
      BY <1>3, <1>7, <2>2, <2>5
    <3>2. i \in 0 .. Size - 1
      BY <1>6, <2>4, <2>5, <3>1
    <3>3. CASE i = core.ptr
      BY <1>1, <2>4, <2>5, <3>3, IopWrites
    <3>4. CASE i # core.ptr
      <4>1. i \in sys.addr .. core.ptr - 1
        BY <1>6, <3>1, <3>4
      <4> QED BY <2>3, <3>2, <3>4, <4>1, IopWrites
    <3> QED BY <3>3, <3>4
  <2>6. CASE core.rom_wr = FALSE
    <3>1. core'.ptr = core.ptr /\ core'.rom = core.rom
      BY <1>3, <1>7, <2>2, <2>6, IopWrites
    <3> QED BY <2>3, <3>1
  <2> QED BY <1>6, <2>5, <2>6
<1> QED BY <1>2, <1>5, <1>8, <1>10, <1>11, <1>12, <1>13 DEF ChunkWhole

LEMMA IopCoreChunk ==
  ASSUME IopInv, IopBeats
  PROVE  IopChunk'
<1>1. sys' = sys /\ host' = host
  BY DEF IopBeats
<1>2. host.pc \in {"word", "count"} =>
        /\ sys.addr <= host.n
        /\ \A i \in sys.addr .. host.n - 1 : (i \div Part) = (sys.addr \div Part)
        /\ host.pc = "word" => (host.n \div Part) = (sys.addr \div Part)
        /\ Whole => ChunkWhole
  BY IopChunkIs DEF IopInv
<1>3. SUFFICES ASSUME host.pc \in {"word", "count"}, Whole PROVE ChunkWhole'
  BY <1>1, <1>2 DEF IopChunk, ChunkWhole, Whole
<1> QED BY <1>2, <1>3, IopCoreWhole

LEMMA IopCoreRom ==
  ASSUME IopInv, IopBeats
  PROVE  IopRom'
<1>1. IopTypes /\ IopRom /\ sys' = sys /\ host' = host
  BY DEF IopInv, IopBeats
<1>2. CASE core.rom_wr = FALSE
  <2>1. core'.rom = core.rom
    BY <1>2, IopWrites
  <2> QED BY <1>1, <2>1 DEF IopRom, Placed
<1>3. CASE core.rom_wr = TRUE
  <2>1. host.pc \in {"word", "count"} /\ core.ptr >= sys.addr /\ core.ptr \in Nat /\ sys.addr \in Nat
    BY <1>1, <1>3, IopWrites, IopScalars
  <2>2. Placed(sys.addr)
    BY <1>1, <2>1 DEF IopRom
  <2>3. \A i \in 0 .. Size - 1 : i < sys.addr /\ (i \div Part) \notin host.slipped => core'.rom[i] = i
    <3>1. SUFFICES ASSUME NEW i \in 0 .. Size - 1, i < sys.addr, (i \div Part) \notin host.slipped
                   PROVE  core'.rom[i] = i
      OBVIOUS
    <3>2. i # core.ptr
      BY <2>1, <3>1
    <3> QED BY <2>2, <3>1, <3>2, IopWrites DEF Placed
  <2> QED BY <1>1, <2>1, <2>3 DEF IopRom, Placed, IopLoading
<1> QED BY <1>2, <1>3, IopWrites

LEMMA IopCorePeek ==
  ASSUME IopInv, IopBeats
  PROVE  IopPeek'
<1>1. /\ IopTypes
      /\ Pulsing(sys.peek, clk.sys.peek, core.peek[1], core.peek[2], core.peek[3])
      /\ sys.parm = TRUE => sys.pgo = FALSE
      /\ sys.parm = TRUE \/ sys.pgo = TRUE => sys.peek = core.peek[3] /\ core.left = None
      /\ sys.parm = FALSE => clk.sys.ptr = sys.ptr
      /\ core.peek[1] # core.peek[3] => core.paddr[1] = sys.ptr
      /\ core.left # None => /\ core.paddr[1] = sys.ptr /\ core.paddr[2] = sys.ptr
                             /\ sys.peek = core.peek[3]
  BY DEF IopInv, IopPeek
<1>2. /\ sys' = sys /\ clk'.sys.peek = sys.peek /\ clk'.sys.ptr = sys.ptr
      /\ core'.peek[1] \in {clk.sys.peek, sys.peek}
      /\ core'.peek[2] = core.peek[1] /\ core'.peek[3] = core.peek[2]
      /\ core'.paddr[1] \in {clk.sys.ptr, sys.ptr} /\ core'.paddr[2] = core.paddr[1]
  BY DEF IopBeats, IopClocks, IopTicks
<1>4. /\ core.peek[2] # core.peek[3] => /\ sys.peek # core.peek[3] /\ core.peek[1] # core.peek[3]
                                        /\ sys.peek = core.peek[2]
      /\ sys.peek = core.peek[3] => /\ clk.sys.peek = core.peek[3] /\ core.peek[1] = core.peek[3]
                                    /\ core.peek[2] = core.peek[3]
      /\ core.peek[1] # core.peek[2] => core.peek[1] # core.peek[3]
  BY <1>1, PeekPulseAt
<1>5. sys.parm \in BOOLEAN /\ sys.pgo \in BOOLEAN
  BY <1>1, IopScalars
<1>6. Pulsing(sys.peek, clk.sys.peek, core.peek[1], core.peek[2], core.peek[3])'
  BY <1>1, IopPulses
<1>7. core.peek[2] = core.peek[3] /\ core.left = None => core'.left = None
  BY IopFits DEF IopBeats, IopPeeks
<1>8. sys.parm = TRUE \/ sys.pgo = TRUE => sys.peek = core'.peek[3] /\ core'.left = None
  BY <1>1, <1>2, <1>4, <1>7
<1>9. core'.peek[1] # core'.peek[3] => core'.paddr[1] = sys.ptr
  <2>1. CASE sys.parm = TRUE
    BY <1>1, <1>2, <1>4, <2>1
  <2>2. CASE sys.parm = FALSE
    BY <1>1, <1>2, <2>2
  <2> QED BY <1>5, <2>1, <2>2
<1>10. core'.peek[2] # core'.peek[3] => core'.paddr[2] = sys.ptr
  BY <1>1, <1>2, <1>4
<1>11. core'.left # None => /\ core'.paddr[1] = sys.ptr /\ core'.paddr[2] = sys.ptr
                            /\ sys.peek = core'.peek[3]
  <2>1. SUFFICES ASSUME core'.left # None
                 PROVE  /\ core'.paddr[1] = sys.ptr /\ core'.paddr[2] = sys.ptr
                        /\ sys.peek = core'.peek[3]
    OBVIOUS
  <2>2. core.peek[2] # core.peek[3] \/ core.left # None
    BY <1>7, <2>1
  <2>3. sys.parm = FALSE
    BY <1>1, <1>4, <1>5, <2>2
  <2>4. core.paddr[1] = sys.ptr
    BY <1>1, <1>4, <2>2
  <2>5. sys.peek = core.peek[2]
    BY <1>1, <1>4, <2>2
  <2> QED BY <1>1, <1>2, <2>3, <2>4, <2>5
<1> QED BY <1>1, <1>2, <1>6, <1>8, <1>9, <1>10, <1>11 DEF IopPeek

LEMMA IopCoreTimes ==
  ASSUME IopInv, IopBeats
  PROVE  IopTimes'
<1>1. IopTypes /\ IopTimes
  BY DEF IopInv
<1>2. /\ sys' = sys /\ clk'.sys.peek = sys.peek /\ clk'.edges = 0 /\ clk.edges >= 3
      /\ core'.peek[1] \in {clk.sys.peek, sys.peek}
      /\ core'.peek[2] = core.peek[1] /\ core'.peek[3] = core.peek[2]
  BY DEF IopBeats, IopClocks, IopTicks
<1>3. /\ clk.gap \in Nat /\ clk'.gap \in Nat /\ PeekSlow \in Nat
      /\ clk'.gap = clk.gap + 1 \/ (clk'.gap = clk.gap /\ clk.gap >= PeekSlow + 7)
      /\ clk.edges \in Nat
  BY <1>1, IopGapIs, IopScalars, SMTT(30)
<1>4. sys.parm = TRUE => clk'.gap = 1
  BY <1>1, <1>2, <1>3 DEF IopTimes
<1>5. sys.pgo = TRUE => clk'.gap = 1
  BY <1>1, <1>2, <1>3 DEF IopTimes
<1>6. /\ clk'.gap >= 3 => core'.peek[1] = sys.peek
      /\ clk'.gap >= 4 => core'.peek[2] = sys.peek
      /\ clk'.gap >= 5 => core'.peek[3] = sys.peek
  BY <1>1, <1>2, <1>3 DEF IopTimes
<1>7. clk'.gap >= 5 /\ core'.left # None => core'.left + clk'.gap <= PeekSlow + 5
  <2>1. SUFFICES ASSUME clk'.gap >= 5, core'.left # None PROVE core'.left + clk'.gap <= PeekSlow + 5
    OBVIOUS
  <2>2. clk.gap >= 4 /\ core.peek[2] = sys.peek
    BY <1>1, <1>3, <2>1 DEF IopTimes
  <2>3. None \notin Nat /\ core.left \in (0 .. PeekSlow) \cup {None}
    BY <1>1, IopFits, IopScalars
  <2>4. CASE core.peek[2] # core.peek[3]
    <3>1. core'.left \in 0 .. PeekSlow
      BY <2>1, <2>3, <2>4 DEF IopBeats, IopClocks, IopCore
    <3>2. ~(clk.gap >= 5)
      BY <1>1, <2>2, <2>4 DEF IopTimes
    <3> QED BY <1>3, <2>2, <3>1, <3>2
  <2>5. CASE core.peek[2] = core.peek[3]
    <3>1. core.left \in 0 .. PeekSlow /\ core'.left = core.left - 1
      BY <2>1, <2>3, <2>5 DEF IopBeats, IopPeeks
    <3>2. clk.gap >= 5 => core.left + clk.gap <= PeekSlow + 5
      BY <1>1, <2>3, <3>1 DEF IopTimes
    <3> QED BY <1>3, <2>2, <3>1, <3>2
  <2> QED BY <2>4, <2>5
<1> QED BY <1>2, <1>3, <1>4, <1>5, <1>6, <1>7 DEF IopTimes

LEMMA IopCoreValue ==
  ASSUME IopInv, IopBeats
  PROVE  IopValue'
<1>1. /\ IopTypes /\ IopTimes /\ IopHeld /\ IopRom /\ IopPeek
      /\ sys' = sys /\ host' = host
      /\ clk'.core.value = core.value /\ clk'.edges = 0 /\ clk.edges >= 3
      /\ core'.peek[3] = core.peek[2]
  BY DEF IopInv, IopBeats, IopTicks, IopClocks
<1>2. /\ clk.gap \in Nat /\ clk'.gap \in Nat /\ PeekSlow \in Nat
      /\ clk'.gap = clk.gap + 1 \/ (clk'.gap = clk.gap /\ clk.gap >= PeekSlow + 7)
      /\ clk.edges \in Nat /\ None \notin Nat
      /\ core.left \in (0 .. PeekSlow) \cup {None}
  BY <1>1, IopGapIs, IopScalars, IopFits, SMTT(30)
<1>3. SUFFICES ASSUME host.pc = "data" PROVE IopValue'
  BY <1>1 DEF IopValue
<1>4. /\ sys.ptr = host.n /\ (Answered => core.value = core.rom[host.n])
      /\ clk.gap >= PeekSlow + 6 =>
           /\ sys.value[1] = core.value /\ sys.value[2] = core.value
  BY <1>1, <1>2, <1>3 DEF IopInv, IopValue
<1>5. core'.rom = core.rom
  <2>1. core.rom_wr = FALSE
    BY <1>3 DEF IopInv, IopRests, Resting
  <2> QED BY <2>1, IopWrites
<1>6. core.rst[2] = TRUE
  BY <1>1, <1>3 DEF IopHeld, IopRunning
<1>7. host.n \in Nat /\ host.n < Size
  BY <1>1, <1>3, IopScalars DEF IopRom
<1>8. \/ core.peek[2] # core.peek[3] /\ core'.left \in Nat
      \/ core.peek[2] = core.peek[3] /\ core.left = None /\ core'.value = core.value
      \/ core.left # None /\ core'.left \in Nat
      \/ /\ core.left = 0 /\ core.peek[2] = core.peek[3]
         /\ core'.value = IF core.paddr[2] < Size THEN core'.rom[core.paddr[2]] ELSE None
  BY <1>2, <1>6 DEF IopBeats, IopPeeks
<1>9. Answered' => core'.value = core'.rom[host.n]
  <2>1. SUFFICES ASSUME Answered' PROVE core'.value = core'.rom[host.n]
    OBVIOUS
  <2>2. sys.parm = FALSE /\ sys.pgo = FALSE /\ sys.peek = core.peek[2] /\ core'.left = None
    BY <1>1, <2>1 DEF Answered
  <2>3. CASE core.peek[2] = core.peek[3] /\ core.left = None /\ core'.value = core.value
    <3>1. Answered
      BY <2>2, <2>3 DEF Answered
    <3> QED BY <1>4, <1>5, <2>3, <3>1
  <2>4. CASE /\ core.left = 0 /\ core.peek[2] = core.peek[3]
             /\ core'.value = IF core.paddr[2] < Size THEN core'.rom[core.paddr[2]] ELSE None
    <3>1. core.paddr[2] = sys.ptr
      BY <1>1, <1>2, <2>4 DEF IopPeek
    <3> QED BY <1>4, <1>7, <2>4, <3>1
  <2> QED BY <1>2, <1>8, <2>2, <2>3, <2>4
<1>10. clk'.gap >= PeekSlow + 7 => core'.value = core.value
  <2>1. SUFFICES ASSUME clk'.gap >= PeekSlow + 7 PROVE core'.value = core.value
    OBVIOUS
  <2>2. clk.gap >= PeekSlow + 6
    BY <1>2, <2>1
  <2>3. core.left = None
    BY <1>1, <1>2, <2>2 DEF IopTimes
  <2>4. core.peek[2] = sys.peek /\ core.peek[3] = sys.peek
    BY <1>1, <1>2, <2>2 DEF IopTimes
  <2> QED BY <1>2, <1>8, <2>3, <2>4
<1>11. clk'.gap >= PeekSlow + 7 => sys.value[1] = core.value /\ sys.value[2] = core.value
  BY <1>2, <1>4
<1> QED BY <1>1, <1>2, <1>4, <1>9, <1>10, <1>11 DEF IopValue

LEMMA IopCoreFound ==
  ASSUME IopInv, IopBeats
  PROVE  IopFound'
<1>1. IopFound /\ host' = host
  BY DEF IopInv, IopBeats
<1>2. CASE core.rom_wr = FALSE
  <2>1. core'.rom = core.rom
    BY <1>2, IopWrites
  <2> QED BY <1>1, <2>1 DEF IopFound
<1>3. CASE core.rom_wr = TRUE
  <2>1. host.pc \in {"word", "count"}
    BY <1>3, IopWrites
  <2>2. host.pc \in IopLoading /\ host.pc \notin IopVerifying /\ host.pc \notin IopRunning /\ host.pc # "bad"
    BY <2>1 DEF IopLoading, IopVerifying, IopRunning
  <2> QED BY <1>1, <2>2 DEF IopFound
<1> QED BY <1>2, <1>3, IopWrites

LEMMA IopCoreInv ==
  ASSUME IopInv, Iop!CoreEdge
  PROVE  IopInv'
<1>1. IopBeats
  BY IopBeatIs
<1>2. IopTypes' /\ IopHeld' /\ IopSettles' /\ IopRests'
  BY <1>1, IopCoreTypes, IopCoreSettles, IopCoreRests
<1>3. IopOrder' /\ IopChunk' /\ IopRom' /\ IopPeek'
  BY <1>1, IopCoreOrder, IopCoreChunk, IopCoreRom, IopCorePeek
<1>4. IopTimes' /\ IopValue' /\ IopFound'
  BY <1>1, IopCoreTimes, IopCoreValue, IopCoreFound
<1> QED BY <1>2, <1>3, <1>4 DEF IopInv

LEMMA IopStarts == Iop!Init => IopInv
<1> SUFFICES ASSUME Iop!Init PROVE IopInv
  OBVIOUS
<1>1. Size \in Nat \ {0} /\ Gap \in Nat /\ PeekSlow \in Nat
  BY IopFits
<1>2. sys  = [reset |-> TRUE, addr |-> 0, word |-> 0, anchor |-> FALSE, wr |-> FALSE,
              ptr |-> 0, peek |-> FALSE, parm |-> FALSE, pgo |-> FALSE,
              value |-> <<None, None>>, data |-> None, sel |-> None, sif |-> FALSE,
              sarm |-> FALSE, sgo |-> FALSE, ready |-> <<FALSE, FALSE>>, post |-> <<None, None>>]
  BY DEF Iop!Init, Iop!Flops
<1>3. /\ <<None, None>> \in ValPair /\ <<None, None>> \in PostPair /\ <<FALSE, FALSE>> \in Bits
      /\ <<None, None>> \in MailPair /\ <<None, None>> \in SelPair /\ None \in Mails /\ None \in Sels
      /\ <<FALSE, FALSE, FALSE>> \in Trio /\ <<TRUE, TRUE>> \in Bits /\ <<0, 0>> \in Nat \X Nat
      /\ None \in Val /\ None \in Posts
  BY DEF ValPair, Val, PostPair, Posts, Bits, MailPair, SelPair, Mails, Sels, Trio
<1>4. sys \in IopSys
  BY <1>2, <1>3 DEF IopSys
<1>5. PICK r : r = [i \in 0 .. Size - 1 |-> None]
  OBVIOUS
<1>6. r \in [0 .. Size - 1 -> Val]
  BY <1>3, <1>5
<1>7. core = [rst |-> <<TRUE, TRUE>>, anchor |-> <<FALSE, FALSE, FALSE>>, wr |-> <<FALSE, FALSE, FALSE>>,
              ptr |-> 0, rom_wr |-> FALSE, word |-> 0, rom |-> r,
              peek |-> <<FALSE, FALSE, FALSE>>, paddr |-> <<0, 0>>, left |-> None, value |-> None,
              sif |-> <<FALSE, FALSE, FALSE>>, sel |-> <<None, None>>, data |-> <<None, None>>,
              MSCOM |-> None, MSFLAG |-> None, ready |-> FALSE, post |-> None]
  <2>1. DOMAIN Iop!Image = 0 .. Size - 1
    BY DEF Iop!Image
  <2> QED BY <1>5, <2>1 DEF Iop!Init, Iop!Flops, Iop!Chain
<1>8. core \in IopCore
  BY <1>3, <1>6, <1>7 DEF IopCore
<1>9. host = [pc |-> "reset", n |-> 0, slipped |-> {}, slips |-> 0, bad |-> FALSE, answered |-> FALSE]
  BY DEF Iop!Init
<1>10. host \in IopHost
  BY <1>9 DEF IopHost, IopLoading
<1>11. clk = [sys |-> Iop!SysOut, core |-> Iop!CoreOut, edges |-> 0, gap |-> 0]
  BY DEF Iop!Init
<1>12. clk \in IopClk
  <2>1. Iop!SysOut \in [reset : BOOLEAN, addr : Nat, word : Nat, anchor : BOOLEAN, wr : BOOLEAN, ptr : Nat,
                        peek : BOOLEAN, data : Mails, sel : Sels, sif : BOOLEAN]
    BY <1>4 DEF Iop!SysOut, IopSys
  <2>2. Iop!CoreOut \in [value : Val, ready : BOOLEAN, post : Posts]
    BY <1>8 DEF Iop!CoreOut, IopCore
  <2> QED BY <1>1, <1>11, <2>1, <2>2 DEF IopClk
<1>13. /\ clk.sys.reset = TRUE /\ clk.sys.wr = FALSE /\ clk.sys.anchor = FALSE /\ clk.sys.peek = FALSE
       /\ clk.sys.ptr = 0 /\ clk.gap = 0
  BY <1>2, <1>11 DEF Iop!SysOut
<1>14. /\ sys.reset = TRUE /\ sys.wr = FALSE /\ sys.anchor = FALSE /\ sys.peek = FALSE
       /\ sys.parm = FALSE /\ sys.pgo = FALSE /\ sys.ptr = 0
       /\ core.rst[1] = TRUE /\ core.rst[2] = TRUE
       /\ core.wr = <<FALSE, FALSE, FALSE>> /\ core.anchor = <<FALSE, FALSE, FALSE>>
       /\ core.peek = <<FALSE, FALSE, FALSE>>
       /\ core.rom_wr = FALSE /\ core.left = None
       /\ host.pc = "reset" /\ host.n = 0 /\ host.bad = FALSE
  BY <1>2, <1>7, <1>9
<1>15. IopTypes /\ IopHeld /\ IopRests
  BY <1>4, <1>8, <1>10, <1>12, <1>13, <1>14 DEF IopTypes, IopHeld, IopRests, Resting
<1>16. IopSettles /\ IopTimes
  BY <1>13, <1>14 DEF IopSettles, Settles, IopTimes
<1>17. /\ core.anchor[1] = FALSE /\ core.anchor[2] = FALSE /\ core.anchor[3] = FALSE
      /\ core.peek[1] = FALSE /\ core.peek[2] = FALSE /\ core.peek[3] = FALSE
      /\ clk.sys.addr = sys.addr
  <2>1. core.anchor = <<FALSE, FALSE, FALSE>> /\ core.peek = <<FALSE, FALSE, FALSE>>
    BY <1>14
  <2>2. clk.sys.addr = sys.addr
    BY <1>11 DEF Iop!SysOut
  <2> QED BY <2>1, <2>2
<1>18. IopOrder
  <2>1. clk.sys.anchor = FALSE /\ sys.anchor = FALSE /\ host.pc = "reset"
    BY <1>13, <1>14
  <2> QED BY <2>1, <1>17 DEF IopOrder, Pulsing, Anchoring
<1>19. IopChunk /\ IopValue
  BY <1>14 DEF IopChunk, IopValue
<1>20. IopRom
  BY <1>1, <1>14 DEF IopRom, Placed, IopLoading
<1>21. IopPeek
  <2>1. clk.sys.peek = FALSE /\ sys.peek = FALSE /\ sys.parm = FALSE /\ sys.pgo = FALSE
        /\ clk.sys.ptr = sys.ptr /\ core.left = None
    BY <1>13, <1>14
  <2> QED BY <2>1, <1>17 DEF IopPeek, Pulsing
<1>22. IopFound
  BY <1>14 DEF IopFound, IopLoading, IopVerifying, IopRunning
<1> QED BY <1>15, <1>16, <1>18, <1>19, <1>20, <1>21, <1>22 DEF IopInv

LEMMA IopSame == IopInv /\ UNCHANGED otherVars => IopInv'
<1> SUFFICES ASSUME IopInv, UNCHANGED otherVars PROVE IopInv'
  OBVIOUS
<1>1. sys' = sys /\ core' = core /\ host' = host /\ clk' = clk
  BY DEF otherVars
<1>2. IopTypes' /\ IopHeld' /\ IopSettles' /\ IopRests'
  BY <1>1 DEF IopInv, IopTypes, IopHeld, IopSettles, Settles, IopRests, Resting
<1>3. IopOrder' /\ IopRom' /\ IopPeek'
  BY <1>1 DEF IopInv, IopOrder, Anchoring, IopRom, Placed, IopPeek
<1>4. IopChunk'
  BY <1>1 DEF IopInv, IopChunk, Anchoring, Whole
<1>5. IopTimes' /\ IopValue' /\ IopFound'
  BY <1>1 DEF IopInv, IopTimes, IopValue, Answered, IopFound
<1> QED BY <1>2, <1>3, <1>4, <1>5 DEF IopInv

-----------------------------------------------------------------------------
(* The ROM. *)

RomKept == board = "iop" => IopInv

\* A slip while the ROM is loaded stays in the chunk it happened in, every other
\* chunk is in place; the read back through the peek port says whether the image
\* is (load and verify of iop_post.py, the ROM and peek ports of IOPBringup).
THEOREM RomLoaded == BoardsSpec => []RomInPlace
<1>1. RomKept => RomInPlace
  <2>1. SUFFICES ASSUME IopInv, board = "iop" PROVE RomInPlace
    BY DEF RomKept, RomInPlace, On
  <2>2. IopTypes /\ IopRom /\ IopFound
    BY <2>1 DEF IopInv
  <2>3. core.rom \in [0 .. Size - 1 -> Val] /\ host.n \in Nat /\ Size \in Nat
    BY <2>2, IopScalars, IopFits
  <2>4. host.pc \notin {"reset", "anchor", "word", "count"} =>
          \A i \in DOMAIN core.rom : (i \div Part) \notin host.slipped => core.rom[i] = i
    <3>1. SUFFICES ASSUME host.pc \notin IopLoading, NEW i \in 0 .. Size - 1,
                          (i \div Part) \notin host.slipped
                   PROVE  core.rom[i] = i
      BY <2>3 DEF IopLoading
    <3>2. Placed(Size)
      BY <2>2, <3>1 DEF IopRom
    <3>3. i < Size
      BY <2>3, <3>1
    <3> QED BY <3>1, <3>2, <3>3 DEF Placed
  <2>5. host.pc = "bad" => core.rom # Iop!Image
    BY <2>2 DEF IopFound, Iop!Image
  <2>6. host.pc \in {"release", "pass"} => core.rom = Iop!Image
    <3>1. host.pc \in {"release", "pass"} => \A i \in 0 .. Size - 1 : core.rom[i] = i
      BY <2>2 DEF IopFound, IopRunning
    <3> QED BY <2>3, <3>1 DEF Iop!Image
  <2> QED BY <2>4, <2>5, <2>6 DEF RomInPlace
<1>2. BoardsInit => RomKept
  <2> SUFFICES ASSUME BoardsInit, board = "iop" PROVE IopInv
    BY DEF RomKept
  <2>1. Iop!Init
    BY DEF BoardsInit, On
  <2> QED BY <2>1, IopStarts
<1>3. RomKept /\ [BoardsNext]_boardVars => RomKept'
  BY BoardsMove, IopSysInv, IopCoreInv, IopSame DEF RomKept
<1> QED BY <1>1, <1>2, <1>3, PTL DEF BoardsSpec
=============================================================================
