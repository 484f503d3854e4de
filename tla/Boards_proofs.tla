---------------------------- MODULE Boards_proofs ----------------------------
(***************************************************************************)
(* What is proved of the boards as a run has them, one plugged in at a     *)
(* time (MC_Boards).  The ports of the GS, the EE and the HBM probe are    *)
(* proved to be the abstract port, and their status to be of one moment,   *)
(* for any memories, programs and snapshots; the memory of the EE comes    *)
(* from the proofs of EeMemory at the run's constants.                     *)
(***************************************************************************)
EXTENDS MC_Boards, Integers, SequenceTheorems, TLAPS

-----------------------------------------------------------------------------
(* A signal on its way from one clock to the other. *)

Bits == BOOLEAN \X BOOLEAN
Pair == Nat \X Nat

\* A toggle and its acknowledge: the register, what its clock drove before, the two
\* flops of the other side, the answer, what was driven before it, and the two flops
\* back.  The last change of the toggle is at one place of this path at most.
Passing(a, b, c, d, e, f, g, z) ==
    /\ a = z => b = z
    /\ b = z => c = z
    /\ c = z => d = z
    /\ d = z => e = z
    /\ e = z => f = z
    /\ f = z => g = z

\* The edges since the toggle of the snapshot moved, and since the copy was made.
Turn(c) == IF c.cnt >= 2 THEN c.cnt - 2 ELSE c.cnt + Period - 2
Since(c) == IF c.cnt >= 1 THEN c.cnt - 1 ELSE Period - 1

\* A copy that was announced stands until the other side has it.
Announced(s, c, k) ==
    /\ c.tog = s.tog_d => k.core.tog = s.tog_d
    /\ k.core.tog = s.tog_d => s.tog[1] = s.tog_d
    /\ s.tog[1] = s.tog_d => s.tog[2] = s.tog_d
    /\ c.tog # s.tog_d => k.core.snap = c.snap
    /\ c.tog # k.core.tog => Turn(c) = 0
    /\ c.tog # s.tog[1] => Turn(c) <= k.ahead
    /\ c.tog # s.tog[2] => Turn(c) <= Lead + k.ahead
    /\ c.tog # s.tog_d => Turn(c) <= (2 * Lead) + k.ahead
    /\ c.tog = s.tog_d /\ c.cnt # 1 => s.hold = c.snap

-----------------------------------------------------------------------------
(* The EE board. *)

EeSys == [reset : BOOLEAN, addr : EeLines, we : BOOLEAN, w : Pair, req : BOOLEAN, ack : Bits,
          sel : Nat, tog : Bits, tog_d : BOOLEAN, hold : Pair \X Nat]
EeCore == [rst : Bits, req : Bits, ack : BOOLEAN, pend : BOOLEAN, h_we : BOOLEAN, h_hold : Pair,
           rdata : Pair, mem : [EeLines -> Pair], sel : Pair, cnt : 0 .. Period - 1,
           tog : BOOLEAN, snap : Pair \X Nat, retires : 0 .. Park]
EeLoading == {"reset", "access", "we", "w0", "w1", "busy", "go", "wait", "r0", "r1"}
EeRunning == {"sleep", "sel", "settle", "g1", "end"}
EeHost == [pc : EeLoading \cup EeRunning, n : Nat, call : Port!Operation \cup {None}, told : Port!Reply \cup {None},
           got : Pair, reg : Nat, regs : Seq(Pair), slept : 0 .. Ee!Slept]
EeClk == [sys : [reset : BOOLEAN, req : BOOLEAN, we : BOOLEAN, addr : EeLines, w : Pair, sel : Nat],
          core : [ack : BOOLEAN, hold : Pair, tog : BOOLEAN, snap : Pair \X Nat],
          ahead : 0 .. Lead, fresh : BOOLEAN]
EeTypes == sys \in EeSys /\ core \in EeCore /\ host \in EeHost /\ clk \in EeClk

\* The memory is the host's as long as the program loads.
EeHeld == host.pc \in EeLoading => /\ sys.reset = TRUE /\ clk.sys.reset = TRUE
                                   /\ core.rst[1] = TRUE /\ core.rst[2] = TRUE

\* One access at a time, under way only while the program waits for it.
EeHands ==
    /\ Passing(sys.req, clk.sys.req, core.req[1], core.req[2],
               core.ack, clk.core.ack, sys.ack[1], sys.ack[2])
    /\ host.pc # "wait" => sys.req = sys.ack[2]

\* What is asked for stands in the registers until it is answered.
EeAsked ==
    /\ host.pc \in {"w0", "w1"} => sys.we = TRUE
    /\ host.pc = "w1" => sys.w[1] = host.n + 1
    /\ host.pc \in {"busy", "go", "wait", "r0", "r1"} /\ sys.we = TRUE =>
         sys.w = <<host.n + 1, host.n + 1>>
    /\ host.pc \in {"go", "wait", "r0", "r1"} =>
         clk.sys.addr = sys.addr /\ clk.sys.we = sys.we /\ clk.sys.w = sys.w
    /\ host.pc \notin {"wait", "r0", "r1"} => host.call = None
    /\ host.pc \in {"wait", "r0", "r1"} =>
         host.call = [op |-> IF sys.we = TRUE THEN "write" ELSE "read", addr |-> <<"line", sys.addr>>,
                      data |-> IF sys.we = TRUE THEN <<host.n + 1, host.n + 1>> ELSE <<>>]

\* A request that was taken is performed on the next edge; its answer stands.
EePort ==
    /\ core.pend = TRUE => /\ core.req[2] # core.ack /\ core.h_we = sys.we
                           /\ core.rdata = core.mem[sys.addr]
    /\ core.pend = FALSE => core.h_we = FALSE
    /\ clk.core.ack = core.ack => clk.core.hold = core.h_hold
    /\ host.pc = "r1" => host.got[1] = core.h_hold[1]

\* The status is of one moment, on either side.
EeWhole ==
    /\ Announced(sys, core, clk)
    /\ core.snap[1][2] = core.snap[2] /\ clk.core.snap[1][2] = clk.core.snap[2]
    /\ sys.hold[1][2] = sys.hold[2]

\* The core has parked when the first sleep is over.
EeParks ==
    /\ host.pc \in {"sleep", "sel", "settle", "g1"} => sys.reset = FALSE
    /\ host.pc = "sleep" =>
         /\ host.slept >= 1 => clk.sys.reset = FALSE
         /\ host.slept >= 2 => core.rst[1] = FALSE
         /\ host.slept >= 3 => core.rst[2] = FALSE
         /\ core.retires = Park \/ host.slept <= 3 + core.retires
    /\ host.pc \in {"sel", "settle", "g1"} =>
         /\ clk.sys.reset = FALSE /\ core.rst[1] = FALSE /\ core.rst[2] = FALSE
         /\ core.retires = Park

\* A register selected is on the board's side when the sleep after it is over.
EeGood == <<<<host.reg + 1, Park>>, Park>>
EeSelects ==
    /\ host.pc \in {"settle", "g1"} => sys.sel = host.reg + 1 /\ host.reg < Regs
    /\ host.pc = "settle" =>
         /\ host.slept >= 1 => clk.sys.sel = sys.sel
         /\ host.slept >= 2 => core.sel[1] = sys.sel
         /\ host.slept >= 3 => core.sel[2] = sys.sel
         /\ core.snap # EeGood => host.slept <= 3 + Since(core)
         /\ sys.hold # EeGood => host.slept <= 3 + Period + Since(core)
    /\ host.pc = "g1" =>
         /\ clk.sys.sel = sys.sel /\ core.sel[1] = sys.sel /\ core.sel[2] = sys.sel
         /\ core.snap = EeGood /\ clk.core.snap = EeGood /\ sys.hold = EeGood
         /\ host.got[1] = host.reg + 1
    /\ host.pc \in EeLoading \cup {"sleep"} => host.reg = 0
    /\ host.pc = "end" => host.reg = Regs
    /\ host.reg <= Regs
    /\ host.regs = [i \in 1 .. host.reg |-> <<i, Park>>]

EeInv == EeTypes /\ EeHeld /\ EeHands /\ EeAsked /\ EePort /\ EeWhole /\ EeParks /\ EeSelects

-----------------------------------------------------------------------------
(* The GS board. *)

MaybePair == Pair \cup {None}
Quadwords == Seq(Pair)
GsSys == [reset : BOOLEAN, w : Pair, req : BOOLEAN, ack : Bits, ready : Bits, addr : Nat,
          rreq : BOOLEAN, rack : Bits, rd_done : BOOLEAN, tog : Bits, tog_d : BOOLEAN, hold : Pair]
GsCore == [rst : Bits, req : Bits, ack : BOOLEAN, rreq : Bits, rack : BOOLEAN, rd_en : BOOLEAN,
           pend : BOOLEAN, rhold : Pair, own : MaybePair \X MaybePair, cnt : 0 .. Period - 1,
           snap : Pair, tog : BOOLEAN, gif : Quadwords, work : Nat, drawn : Nat]
GsWriting == {"reset", "start", "busy", "w0", "w1", "push"}
GsReading == {"pixels", "read", "done", "d0", "d1"}
GsHost == [pc : GsWriting \cup GsReading, sent : Nat, reads : Nat, call : Port!Operation \cup {None},
           got : Pair, pixels : Nat, told : Port!Reply \cup {None}]
GsClk == [sys : [reset : BOOLEAN, w : Pair, req : BOOLEAN, addr : Nat, rreq : BOOLEAN],
          core : [ready : BOOLEAN, ack : BOOLEAN, rack : BOOLEAN, rhold : Pair, tog : BOOLEAN,
                  snap : Pair],
          ahead : 0 .. Lead, fresh : BOOLEAN]
GsTypes == sys \in GsSys /\ core \in GsCore /\ host \in GsHost /\ clk \in GsClk

\* The reset is let go once, and the GS has been ready before anything is read.
GsRuns ==
    /\ sys.reset = FALSE => host.pc \notin {"reset", "start"}
    /\ clk.sys.reset = FALSE => sys.reset = FALSE
    /\ core.rst[1] = FALSE => clk.sys.reset = FALSE
    /\ core.rst[2] = FALSE => core.rst[1] = FALSE
    /\ clk.core.ready = TRUE \/ sys.ready[1] = TRUE \/ sys.ready[2] = TRUE => core.rst[2] = FALSE
    /\ host.pc \in GsReading => core.rst[2] = FALSE

GsHands ==
    /\ Passing(sys.req, clk.sys.req, core.req[1], core.req[2],
               core.ack, clk.core.ack, sys.ack[1], sys.ack[2])
    /\ host.pc # "busy" \/ host.call = None => sys.req = sys.ack[2]
    /\ Passing(sys.rreq, clk.sys.rreq, core.rreq[1], core.rreq[2],
               core.rack, clk.core.rack, sys.rack[1], sys.rack[2])
    /\ host.pc # "done" \/ sys.rd_done = TRUE => sys.rreq = sys.rack[2]

GsAsked ==
    /\ host.pc = "w1" => sys.w[1] = host.sent + 1
    /\ host.pc = "push" => /\ sys.w = <<host.sent + 1, host.sent + 1>>
                           /\ clk.fresh = TRUE => clk.sys.w = sys.w
    /\ host.pc \notin {"busy", "done", "d0", "d1"} => host.call = None
    /\ host.pc = "busy" /\ host.call # None =>
         /\ host.call = [op |-> "write", addr |-> Gs!Gif, data |-> <<host.sent, host.sent>>]
         /\ sys.w = <<host.sent, host.sent>> /\ clk.sys.w = sys.w
    /\ host.pc \in {"done", "d0", "d1"} =>
         /\ host.call = [op |-> "read", addr |-> Gs!Word(host.reads), data |-> <<>>]
         /\ host.reads < Reads /\ sys.addr = host.reads
         /\ clk.sys.rreq = sys.rreq => clk.sys.addr = sys.addr

\* A read is in one place of the port, and its answer stands.
GsPort ==
    /\ core.rd_en = TRUE \/ core.own[1] # None \/ core.own[2] # None => core.pend = TRUE
    /\ core.pend = TRUE => core.rreq[2] # core.rack
    /\ core.rd_en = TRUE => core.own[1] = None /\ core.own[2] = None
    /\ core.own[1] # None => core.own[2] = None
    /\ clk.core.rack = core.rack => clk.core.rhold = core.rhold
    /\ host.pc = "d1" => host.got[1] = core.rhold[1]

GsWhole ==
    /\ Announced(sys, core, clk)
    /\ core.snap[1] = core.snap[2] /\ clk.core.snap[1] = clk.core.snap[2]
    /\ sys.hold[1] = sys.hold[2]

GsInv == GsTypes /\ GsRuns /\ GsHands /\ GsAsked /\ GsPort /\ GsWhole
-----------------------------------------------------------------------------
(* The HBM probe. *)

Trio == BOOLEAN \X BOOLEAN \X BOOLEAN
Resp == {"okay", "error"}
PrSys == [addr : Nat, w : Pair, lane : 0..1, wr : BOOLEAN, rd : BOOLEAN, fin : Trio,
          rbuf : Pair \X Pair, resp : Resp \X Resp, done : BOOLEAN, rlane : 0..1]
PrState == {"IDLE", "AW", "W", "B", "AR", "R", "FIN"}
PrCore == [st : PrState, wr : Trio, rd : Trio, addr : Pair, w : Pair \X Pair, rbuf : Pair,
           resp : Resp, fin : BOOLEAN, wait : Nat, mem : [0 .. HbmBeats - 1 -> Pair], held : Nat,
           answer : Resp]
PrPc == {"beat", "clear", "lane", "read", "wait", "rlane", "rdata", "fail"}
PrHost == [pc : PrPc, n : Nat, read : BOOLEAN, lane : 0..2, call : Port!Operation \cup {None},
           told : Port!Reply \cup {None}, got : Pair]
PrClk == [sys : [addr : Nat, w : Pair, wr : BOOLEAN, rd : BOOLEAN],
          core : [fin : BOOLEAN, rbuf : Pair, resp : Resp], ahead : 0 .. ProbeLead, fresh : BOOLEAN]
PrTypes == sys \in PrSys /\ core \in PrCore /\ host \in PrHost /\ clk \in PrClk

\* A pulse: the toggle, what its clock drove before, and the three flops.
Pulsing(a, b, c, d, z) ==
    /\ a = z => b = z
    /\ b = z => c = z
    /\ c = z => d = z

\* A beat is on its way to the engine, in it, or on its way back, while the host waits.
PrStarting == sys.wr # core.wr[3] \/ sys.rd # core.rd[3]
PrEnding == core.fin # sys.fin[3]
PrPlaces ==
    /\ Pulsing(sys.wr, clk.sys.wr, core.wr[1], core.wr[2], core.wr[3])
    /\ Pulsing(sys.rd, clk.sys.rd, core.rd[1], core.rd[2], core.rd[3])
    /\ Pulsing(core.fin, clk.core.fin, sys.fin[1], sys.fin[2], sys.fin[3])
    /\ PrStarting \/ PrEnding \/ core.st # "IDLE" => host.pc = "wait" /\ sys.done = FALSE
    /\ PrStarting => core.st = "IDLE" /\ ~PrEnding
    /\ PrEnding => core.st = "IDLE"
    /\ core.st \in {"IDLE", "FIN"} => core.wait = 0

\* What is asked for stands in the registers, and arrives before its strobe does.
PrAsked ==
    /\ host.pc \in {"clear", "lane", "read", "wait", "rlane", "rdata"} =>
         sys.addr = host.n /\ host.n < HbmBeats
    /\ host.pc \in {"clear", "lane"} => host.read = FALSE
    /\ host.pc \in {"read", "rlane", "rdata"} => host.read = TRUE
    /\ host.pc = "lane" => /\ sys.lane = host.lane % 2
                           /\ host.lane >= 1 => sys.w[1] = host.n + 1
                           /\ host.lane = 2 => sys.w[2] = host.n + 1
    /\ host.pc = "wait" =>
         /\ clk.sys.addr = sys.addr
         /\ host.read = FALSE => /\ sys.w = <<host.n + 1, host.n + 1>> /\ clk.sys.w = sys.w
                                 /\ sys.rd = core.rd[3] /\ core.st \notin {"AR", "R"}
         /\ host.read = TRUE  => sys.wr = core.wr[3] /\ core.st \notin {"AW", "W", "B"}
         /\ sys.wr # core.wr[3] =>
              /\ core.wr[1] = sys.wr => core.addr[1] = sys.addr /\ core.w[1] = sys.w
              /\ core.wr[2] = sys.wr => core.addr[2] = sys.addr /\ core.w[2] = sys.w
         /\ sys.rd # core.rd[3] =>
              /\ core.rd[1] = sys.rd => core.addr[1] = sys.addr
              /\ core.rd[2] = sys.rd => core.addr[2] = sys.addr
         /\ core.st # "IDLE" => /\ core.addr[1] = sys.addr /\ core.addr[2] = sys.addr
                                /\ host.read = FALSE => core.w[1] = sys.w /\ core.w[2] = sys.w
         /\ core.st \in {"W", "B", "R"} => core.held = sys.addr
    /\ host.pc \in {"beat", "clear", "lane", "read"} => host.call = None
    /\ host.pc \in {"wait", "rlane", "rdata", "fail"} =>
         host.call = [op |-> IF host.read = TRUE THEN "read" ELSE "write",
                      addr |-> <<"beat", host.n>>,
                      data |-> IF host.read = TRUE THEN <<>> ELSE <<host.n + 1, host.n + 1>>]

\* The answer stands by the time the end of the beat arrives.
PrAnswered ==
    /\ host.pc \notin {"wait", "fail"} => core.resp = "okay" /\ core.answer = "okay"
    /\ host.pc = "wait" /\ (PrStarting \/ core.st \in {"AW", "W", "AR", "R"}) =>
         core.resp = "okay" /\ core.answer = "okay"
    /\ host.pc = "wait" /\ core.st = "B" => core.resp = "okay"
    /\ host.pc \in {"wait", "fail"} /\ host.read = TRUE => core.answer = "okay"
    /\ host.pc \in {"wait", "fail"} /\ host.read = FALSE /\ ~PrStarting /\ core.st \in {"FIN", "IDLE"} =>
         core.resp = core.answer
    /\ PrEnding =>
         /\ clk.core.resp = core.resp /\ clk.core.rbuf = core.rbuf
         /\ sys.fin[1] = core.fin => sys.resp[1] = core.resp /\ sys.rbuf[1] = core.rbuf
         /\ sys.fin[2] = core.fin => sys.resp[2] = core.resp /\ sys.rbuf[2] = core.rbuf
    /\ (host.pc = "wait" /\ sys.done = TRUE) \/ host.pc \in {"rlane", "rdata", "fail"} =>
         /\ clk.core.resp = core.resp /\ clk.core.rbuf = core.rbuf
         /\ sys.resp[1] = core.resp /\ sys.rbuf[1] = core.rbuf
         /\ sys.resp[2] = core.resp /\ sys.rbuf[2] = core.rbuf
    /\ host.pc = "fail" => core.resp # "okay"
    /\ host.pc \in {"rlane", "rdata"} => /\ host.lane \in 0..1
                                         /\ host.lane = 1 => host.got[1] = core.rbuf[1]
    /\ host.pc = "rdata" => sys.rlane = host.lane

PrInv == PrTypes /\ PrPlaces /\ PrAsked /\ PrAnswered
(* Snapshots. *)

LEMMA Periods ==
  /\ Period \in Nat /\ Lead \in Nat \ {0} /\ (3 * Lead) + 2 <= Period
  /\ Ee!SnapshotFits(Period, Lead) /\ Park \in Nat /\ Park <= Period
  BY PortsFit DEF Gs!BoardGsAssumption, Gs!SnapshotFits, Ee!BoardEeAssumption, Ee!SnapshotFits

LEMMA AnnouncedOver ==
  ASSUME NEW s, NEW c, NEW k, NEW c1, NEW k1, NEW now,
         c.cnt \in 0 .. Period - 1, k.ahead \in 0 .. Lead, k.ahead < Lead,
         c.tog \in BOOLEAN, k.core.tog \in BOOLEAN, s.tog_d \in BOOLEAN,
         s.tog[1] \in BOOLEAN, s.tog[2] \in BOOLEAN,
         Announced(s, c, k),
         c1.cnt = (c.cnt + 1) % Period,
         c1.snap = IF c.cnt = 0 THEN now ELSE c.snap,
         c1.tog = IF c.cnt = 1 THEN ~c.tog ELSE c.tog,
         k1.core.tog = c.tog, k1.core.snap = c.snap, k1.ahead = k.ahead + 1
  PROVE  Announced(s, c1, k1)
<1>1. c1.cnt = IF c.cnt = Period - 1 THEN 0 ELSE c.cnt + 1
  BY Periods
<1>2. c.cnt # 1 => c1.tog = c.tog
  OBVIOUS
<1>3. Turn(c) \in Nat /\ Turn(c) < Period
  BY Periods DEF Turn
<1>4. c.cnt # 1 => Turn(c1) = Turn(c) + 1
  BY <1>1, Periods DEF Turn
<1>5. CASE c.cnt = 1
  <2>1. Turn(c) = Period - 1 /\ Turn(c1) = 0 /\ c1.cnt = 2
    BY <1>1, <1>5, Periods DEF Turn
  <2>2. c.tog = s.tog_d
    BY <2>1, Periods DEF Announced
  <2>3. c.tog = s.tog[1] /\ c.tog = s.tog[2] /\ c1.tog # c.tog /\ c1.snap = c.snap
    BY <1>5, <2>2 DEF Announced
  <2> QED BY <2>1, <2>2, <2>3, Periods DEF Announced
<1>6. CASE c.cnt = 0
  <2>1. Turn(c) = Period - 2 /\ c1.cnt = 1
    BY <1>1, <1>6, Periods DEF Turn
  <2>2. c.tog = s.tog_d /\ c1.tog = c.tog
    BY <1>6, <2>1, Periods DEF Announced
  <2> QED BY <2>1, <2>2, Periods DEF Announced
<1>7. CASE c.cnt # 0 /\ c.cnt # 1
  <2>1. c1.snap = c.snap /\ c1.tog = c.tog /\ Turn(c1) = Turn(c) + 1
    BY <1>2, <1>4, <1>7
  <2>2. c1.cnt # 1
    BY <1>1, <1>7, Periods
  <2> QED BY <1>3, <1>7, <2>1, <2>2, Periods DEF Announced
<1> QED BY <1>5, <1>6, <1>7

LEMMA AnnouncedBack ==
  ASSUME NEW s, NEW c, NEW k, NEW s1, NEW k1,
         c.cnt \in 0 .. Period - 1, k.ahead \in 0 .. Lead,
         c.tog \in BOOLEAN, k.core.tog \in BOOLEAN, s.tog_d \in BOOLEAN,
         s.tog[1] \in BOOLEAN, s.tog[2] \in BOOLEAN,
         Announced(s, c, k),
         s1.tog[1] \in {k.core.tog, c.tog}, s1.tog[2] = s.tog[1], s1.tog_d = s.tog[2],
         s.tog[2] = s.tog_d => s1.hold = s.hold,
         s.tog[2] # s.tog_d /\ k.core.snap = c.snap => s1.hold = c.snap,
         k1.core.tog = c.tog, k1.core.snap = c.snap, k1.ahead = 0
  PROVE  Announced(s1, c, k1)
<1>1. Turn(c) \in Nat
  BY Periods DEF Turn
<1>2. s1.tog[1] \in BOOLEAN
  OBVIOUS
<1>3. /\ c.tog = s1.tog_d => k1.core.tog = s1.tog_d
      /\ k1.core.tog = s1.tog_d => s1.tog[1] = s1.tog_d
      /\ s1.tog[1] = s1.tog_d => s1.tog[2] = s1.tog_d
  BY DEF Announced
<1>4. c.tog # s1.tog[1] => Turn(c) <= k1.ahead
  BY <1>1 DEF Announced
<1>5. c.tog # s1.tog[2] => Turn(c) <= Lead + k1.ahead
  BY <1>1, Periods DEF Announced
<1>6. c.tog # s1.tog_d => Turn(c) <= (2 * Lead) + k1.ahead
  BY <1>1, Periods DEF Announced
<1>7. c.tog = s1.tog_d /\ c.cnt # 1 => s1.hold = c.snap
  BY DEF Announced
<1> QED BY <1>3, <1>4, <1>5, <1>6, <1>7 DEF Announced
-----------------------------------------------------------------------------
(* What an edge of the EE board does, field by field. *)

LEMMA WordsAre ==
  ASSUME NEW was, NEW now, NEW v \in Ee!Words(was, now)
  PROVE  v = <<v[1], v[2]>> /\ v[1] \in {was[1], now[1]} /\ v[2] \in {was[2], now[2]}
  BY DEF Ee!Words, Ee!Caught

\* The registers s that an edge of sys leaves before the host's access, and the wires c.
EeLeaves(s, c) ==
    /\ s.reset = sys.reset /\ s.addr = sys.addr /\ s.we = sys.we /\ s.w = sys.w
    /\ s.req = sys.req /\ s.sel = sys.sel
    /\ s.ack[1] \in {clk.core.ack, core.ack} /\ s.ack[2] = sys.ack[1]
    /\ s.tog[1] \in {clk.core.tog, core.tog} /\ s.tog[2] = sys.tog[1] /\ s.tog_d = sys.tog[2]
    /\ sys.tog[2] = sys.tog_d => s.hold = sys.hold
    /\ sys.tog[2] # sys.tog_d => /\ s.hold[1] \in {clk.core.snap[1], core.snap[1]}
                                 /\ s.hold[2] \in {clk.core.snap[2], core.snap[2]}
    /\ c.hold[1] \in {clk.core.hold[1], core.h_hold[1]}
    /\ c.hold[2] \in {clk.core.hold[2], core.h_hold[2]}

EeTicks ==
    /\ clk' \in EeClk
    /\ clk'.sys.reset = sys.reset /\ clk'.sys.req = sys.req /\ clk'.sys.we = sys.we
    /\ clk'.sys.addr = sys.addr /\ clk'.sys.w = sys.w /\ clk'.sys.sel = sys.sel
    /\ clk'.core.ack = core.ack /\ clk'.core.hold = core.h_hold
    /\ clk'.core.tog = core.tog /\ clk'.core.snap = core.snap

LEMMA EeTicksIs ==
  ASSUME EeTypes, NEW n \in 0 .. Lead, NEW b \in BOOLEAN,
         clk' = [sys |-> Ee!SysOut, core |-> Ee!CoreOut, ahead |-> n, fresh |-> b]
  PROVE  EeTicks /\ clk'.ahead = n /\ clk'.fresh = b
  BY DEF EeTypes, EeSys, EeCore, EeClk, EeTicks, Ee!SysOut, Ee!CoreOut

LEMMA EeSettledIs ==
  ASSUME EeTypes,
         NEW ack \in Ee!Caught(clk.core.ack, core.ack), NEW tog \in Ee!Caught(clk.core.tog, core.tog),
         NEW hold \in Ee!Words(clk.core.hold, core.h_hold),
         NEW snap \in Ee!Words(clk.core.snap, core.snap),
         NEW c, c = [ack |-> ack, tog |-> tog, hold |-> hold, snap |-> snap],
         NEW s, s = Ee!Settled(sys, c)
  PROVE  s \in EeSys /\ EeLeaves(s, c)
<1>1. /\ sys \in EeSys /\ core \in EeCore
      /\ ack \in BOOLEAN /\ ack \in {clk.core.ack, core.ack}
      /\ tog \in BOOLEAN /\ tog \in {clk.core.tog, core.tog}
  BY DEF EeTypes, EeCore, EeClk, Ee!Caught
<1>2. /\ snap = <<snap[1], snap[2]>> /\ snap[1] \in {clk.core.snap[1], core.snap[1]}
      /\ snap[2] \in {clk.core.snap[2], core.snap[2]}
      /\ hold[1] \in {clk.core.hold[1], core.h_hold[1]}
      /\ hold[2] \in {clk.core.hold[2], core.h_hold[2]}
  BY WordsAre
<1>3. clk.core.snap \in Pair \X Nat /\ core.snap \in Pair \X Nat
  BY DEF EeTypes, EeCore, EeClk
<1>4. snap \in Pair \X Nat
  BY <1>2, <1>3
<1>5. /\ sys.ack \in Bits /\ sys.tog \in Bits /\ sys.hold \in Pair \X Nat
      /\ Ee!Clocked(sys.ack, ack) \in Bits /\ Ee!Clocked(sys.tog, tog) \in Bits
      /\ Ee!Out(sys.tog) \in BOOLEAN
  BY <1>1 DEF EeSys, Bits, Ee!Clocked, Ee!Out
<1>6. Ee!Held(sys, snap) \in Pair \X Nat
  BY <1>4, <1>5 DEF Ee!Held
<1>7. s = [sys EXCEPT !.ack = Ee!Clocked(sys.ack, ack), !.tog = Ee!Clocked(sys.tog, tog),
                      !.tog_d = Ee!Out(sys.tog), !.hold = Ee!Held(sys, snap)]
  BY DEF Ee!Settled
<1>8. s \in EeSys
  BY <1>1, <1>5, <1>6, <1>7 DEF EeSys
<1>9. /\ s.ack = Ee!Clocked(sys.ack, ack) /\ s.tog = Ee!Clocked(sys.tog, tog)
      /\ s.tog_d = Ee!Out(sys.tog) /\ s.hold = Ee!Held(sys, snap)
      /\ s.reset = sys.reset /\ s.addr = sys.addr /\ s.we = sys.we /\ s.w = sys.w
      /\ s.req = sys.req /\ s.sel = sys.sel
  BY <1>1, <1>7 DEF EeSys
<1> QED BY <1>1, <1>2, <1>8, <1>9 DEF EeLeaves, Ee!Clocked, Ee!Out, Ee!Held

\* An edge of sys is the registers' own step, and at most one access.
EeQuiet(s) == sys' = s /\ host' = host /\ clk'.fresh = clk.fresh
EeActs(s, c) == clk.fresh = TRUE /\ clk'.fresh = FALSE /\ (Ee!MemAccess(s, c) \/ Ee!Main(s, c))

LEMMA EeSysStep ==
  ASSUME EeTypes, Ee!SysEdge
  PROVE  /\ EeTicks /\ clk'.ahead = 0 /\ core' = core
         /\ \E s, c : s \in EeSys /\ EeLeaves(s, c) /\ (EeQuiet(s) \/ EeActs(s, c))
<1>1. PICK ack \in Ee!Caught(clk.core.ack, core.ack), tog \in Ee!Caught(clk.core.tog, core.tog),
           hold \in Ee!Words(clk.core.hold, core.h_hold),
           snap \in Ee!Words(clk.core.snap, core.snap) :
         LET c == [ack |-> ack, tog |-> tog, hold |-> hold, snap |-> snap]
         IN  \/ /\ clk.fresh
                /\ Ee!MemAccess(Ee!Settled(sys, c), c) \/ Ee!Main(Ee!Settled(sys, c), c)
                /\ Ee!Tick(FALSE)
             \/ sys' = Ee!Settled(sys, c) /\ UNCHANGED host /\ Ee!Tick(clk.fresh)
  BY ZenonT(60) DEF Ee!SysEdge
<1>2. PICK c : c = [ack |-> ack, tog |-> tog, hold |-> hold, snap |-> snap]
  OBVIOUS
<1>3. PICK s : s = Ee!Settled(sys, c)
  OBVIOUS
<1>4. s \in EeSys /\ EeLeaves(s, c)
  BY <1>2, <1>3, EeSettledIs
<1>5. core' = core
  BY DEF Ee!SysEdge
<1>6. clk.fresh \in BOOLEAN /\ 0 \in 0 .. Lead
  BY Periods DEF EeTypes, EeClk
<1>7. CASE clk.fresh /\ (Ee!MemAccess(s, c) \/ Ee!Main(s, c)) /\ Ee!Tick(FALSE)
  <2>1. EeTicks /\ clk'.ahead = 0 /\ clk'.fresh = FALSE
    BY <1>6, <1>7, EeTicksIs DEF Ee!Tick
  <2>2. EeActs(s, c)
    BY <1>6, <1>7, <2>1 DEF EeActs
  <2> QED BY <1>4, <1>5, <2>1, <2>2
<1>8. CASE sys' = s /\ UNCHANGED host /\ Ee!Tick(clk.fresh)
  <2>1. EeTicks /\ clk'.ahead = 0 /\ clk'.fresh = clk.fresh
    BY <1>6, <1>8, EeTicksIs DEF Ee!Tick
  <2>2. EeQuiet(s)
    BY <1>8, <2>1 DEF EeQuiet
  <2> QED BY <1>4, <1>5, <2>1, <2>2
<1> QED BY <1>1, <1>2, <1>3, <1>7, <1>8

\* The registers read, with one more.
WithReg(regs, lo, hi) == Append(regs, <<lo, hi>>)

\* What an access changes, and what it leaves alone.
EeMoves(s, c) ==
    /\ sys' \in EeSys /\ host' \in EeHost
    /\ sys'.ack = s.ack /\ sys'.tog = s.tog /\ sys'.tog_d = s.tog_d /\ sys'.hold = s.hold
    /\ host.pc \notin {"reset", "access", "sel"} => sys'.reset = sys.reset
    /\ host.pc # "access" => sys'.addr = sys.addr
    /\ host.pc # "we" => sys'.we = sys.we
    /\ host.pc \notin {"w0", "w1"} => sys'.w = sys.w
    /\ host.pc # "go" => sys'.req = sys.req
    /\ host.pc # "sel" => sys'.sel = sys.sel
    /\ host.pc # "r1" => host'.n = host.n /\ host'.told = host.told
    /\ host.pc \notin {"go", "r1"} => host'.call = host.call
    /\ host.pc # "g1" => host'.reg = host.reg /\ host'.regs = host.regs
    /\ host.pc = "reset" => host'.pc = "access" /\ sys'.reset = TRUE
    /\ host.pc = "access" =>
         \/ host'.pc = "we" /\ sys'.reset = sys.reset
         \/ host'.pc = "sleep" /\ host'.slept = 0 /\ sys'.reset = FALSE
    /\ host.pc = "we" => host'.pc = IF sys'.we = TRUE THEN "w0" ELSE "busy"
    /\ host.pc = "w0" => host'.pc = "w1" /\ sys'.w[1] = host.n + 1
    /\ host.pc = "w1" => host'.pc = "busy" /\ sys'.w = <<sys.w[1], host.n + 1>>
    /\ host.pc = "busy" => host'.pc = "go" /\ sys.req = sys.ack[2]
    /\ host.pc = "go" =>
         /\ host'.pc = "wait" /\ (sys.req = sys.ack[2] => sys'.req # sys.req)
         /\ host'.call = [op |-> IF sys.we = TRUE THEN "write" ELSE "read",
                          addr |-> <<"line", sys.addr>>,
                          data |-> IF sys.we = TRUE THEN <<host.n + 1, host.n + 1>> ELSE <<>>]
    /\ host.pc = "wait" => host'.pc = "r0" /\ sys.req = sys.ack[2]
    /\ host.pc = "r0" => host'.pc = "r1" /\ host'.got[1] = c.hold[1]
    /\ host.pc = "r1" => /\ host'.pc = "access" /\ host'.call = None
                         /\ host'.told = IF host.call.op = "write" THEN <<>>
                                         ELSE <<host.got[1], c.hold[2]>>
    /\ host.pc = "sleep" => host.slept = Ee!Slept /\ host'.pc = "sel"
    /\ host.pc = "sel" =>
         \/ /\ host.reg < Regs /\ host'.pc = "settle" /\ host'.slept = 0
            /\ sys'.sel = host.reg + 1 /\ sys'.reset = sys.reset
         \/ host.reg = Regs /\ host'.pc = "end"
    /\ host.pc = "settle" => /\ host.slept = Ee!Slept /\ host'.pc = "g1"
                             /\ host'.got[1] = s.hold[1][1]
    /\ host.pc = "g1" => /\ host'.pc = "sel" /\ host'.reg = host.reg + 1
                         /\ host'.regs = WithReg(host.regs, host.got[1], s.hold[1][2])
    /\ host.pc # "end"

LEMMA EeGotoIs ==
  ASSUME host \in EeHost, NEW pc \in EeLoading \cup EeRunning
  PROVE  /\ Ee!Goto(pc) \in EeHost /\ Ee!Goto(pc).pc = pc
         /\ Ee!Goto(pc).n = host.n /\ Ee!Goto(pc).call = host.call /\ Ee!Goto(pc).told = host.told
         /\ Ee!Goto(pc).got = host.got /\ Ee!Goto(pc).reg = host.reg /\ Ee!Goto(pc).regs = host.regs
         /\ Ee!Goto(pc).slept = host.slept
  BY DEF Ee!Goto, EeHost

LEMMA EeMovesIs ==
  ASSUME EeTypes, EeAsked, EeSelects, NEW s \in EeSys, NEW c, EeLeaves(s, c), EeActs(s, c)
  PROVE  EeMoves(s, c)
<1>0. /\ sys \in EeSys /\ core \in EeCore /\ clk \in EeClk
      /\ host \in EeHost /\ host.pc \in EeLoading \cup EeRunning /\ host.n \in Nat /\ host.got \in Pair
      /\ host.reg \in Nat
  BY DEF EeTypes, EeHost
<1>1. /\ c.hold[1] \in Nat /\ c.hold[2] \in Nat /\ s.hold[1] \in Pair /\ s.hold[1][1] \in Nat
      /\ s.hold[1][2] \in Nat /\ s.w \in Pair /\ s.addr \in EeLines /\ s.we \in BOOLEAN /\ s.req \in BOOLEAN
  BY <1>0 DEF EeLeaves, EeCore, EeClk, EeSys, Pair
<1>2. /\ s.reset = sys.reset /\ s.addr = sys.addr /\ s.we = sys.we /\ s.w = sys.w
      /\ s.req = sys.req /\ s.sel = sys.sel
  BY DEF EeLeaves
<1>3. Ee!Slept \in Nat /\ EeLines \subseteq Nat
  BY Periods, PortsFit DEF Ee!Slept, Ee!BoardEeAssumption
<1>4. CASE /\ host.pc = "access" /\ host.n < Accesses
           /\ \E a \in EeLines : sys' = [s EXCEPT !.addr = a]
           /\ host' = Ee!Goto("we")
  <2>1. PICK h \in EeHost : /\ h = Ee!Goto("we") /\ h.pc = "we"
                              /\ h.n = host.n /\ h.call = host.call /\ h.told = host.told /\ h.got = host.got
                              /\ h.reg = host.reg /\ h.regs = host.regs /\ h.slept = host.slept
    BY <1>0, EeGotoIs DEF EeLoading, EeRunning
  <2>2. PICK a \in EeLines : sys' = [s EXCEPT !.addr = a]
    BY <1>4
  <2>3. host' = h
    BY <2>1, <1>4
  <2>6. sys' \in EeSys
    BY <2>2 DEF EeSys
  <2> QED
    BY <1>0, <1>1, <1>2, <1>4, <2>1, <2>2, <2>3, <2>6 DEF EeMoves, EeSys, EeHost, Ee!mem_busy, Ee!Out
<1>5. CASE /\ host.pc = "we"
           /\ \E we \in BOOLEAN : /\ sys' = [s EXCEPT !.we = we]
                                  /\ host' = Ee!Goto(IF we THEN "w0" ELSE "busy")
  <2>0. PICK we \in BOOLEAN : sys' = [s EXCEPT !.we = we] /\ host' = Ee!Goto(IF we THEN "w0" ELSE "busy")
    BY <1>5
  <2>1. PICK h \in EeHost : /\ h = Ee!Goto((IF we THEN "w0" ELSE "busy"))
                              /\ h.pc = (IF we THEN "w0" ELSE "busy")
                              /\ h.n = host.n /\ h.call = host.call /\ h.told = host.told /\ h.got = host.got
                              /\ h.reg = host.reg /\ h.regs = host.regs /\ h.slept = host.slept
    BY <1>0, EeGotoIs DEF EeLoading, EeRunning
  <2>2. sys' = [s EXCEPT !.we = we]
    BY <2>0
  <2>3. host' = h
    BY <2>0, <2>1
  <2>6. sys' \in EeSys
    BY <2>2 DEF EeSys
  <2> QED
    BY <1>0, <1>1, <1>2, <1>5, <2>1, <2>2, <2>3, <2>6 DEF EeMoves, EeSys, EeHost, Ee!mem_busy, Ee!Out
<1>6. CASE /\ host.pc = "w0"
           /\ sys' = [s EXCEPT !.w[1] = host.n + 1] /\ host' = Ee!Goto("w1")
  <2>1. PICK h \in EeHost : /\ h = Ee!Goto("w1") /\ h.pc = "w1"
                              /\ h.n = host.n /\ h.call = host.call /\ h.told = host.told /\ h.got = host.got
                              /\ h.reg = host.reg /\ h.regs = host.regs /\ h.slept = host.slept
    BY <1>0, EeGotoIs DEF EeLoading, EeRunning
  <2>2. PICK v \in Pair : v = <<host.n + 1, s.w[2]>> /\ sys' = [s EXCEPT !.w = v]
    <3>1. [s.w EXCEPT ![1] = host.n + 1] = <<host.n + 1, s.w[2]>> /\ <<host.n + 1, s.w[2]>> \in Pair
      BY <1>0, <1>1 DEF Pair
    <3> QED BY <3>1, <1>6
  <2>3. host' = h
    BY <2>1, <1>6
  <2>6. sys' \in EeSys
    BY <2>2 DEF EeSys
  <2> QED
    BY <1>0, <1>1, <1>2, <1>6, <2>1, <2>2, <2>3, <2>6 DEF EeMoves, EeSys, EeHost, Ee!mem_busy, Ee!Out
<1>7. CASE /\ host.pc = "w1"
           /\ sys' = [s EXCEPT !.w[2] = host.n + 1] /\ host' = Ee!Goto("busy")
  <2>1. PICK h \in EeHost : /\ h = Ee!Goto("busy") /\ h.pc = "busy"
                              /\ h.n = host.n /\ h.call = host.call /\ h.told = host.told /\ h.got = host.got
                              /\ h.reg = host.reg /\ h.regs = host.regs /\ h.slept = host.slept
    BY <1>0, EeGotoIs DEF EeLoading, EeRunning
  <2>2. PICK v \in Pair : v = <<s.w[1], host.n + 1>> /\ sys' = [s EXCEPT !.w = v]
    <3>1. [s.w EXCEPT ![2] = host.n + 1] = <<s.w[1], host.n + 1>> /\ <<s.w[1], host.n + 1>> \in Pair
      BY <1>0, <1>1 DEF Pair
    <3> QED BY <3>1, <1>7
  <2>3. host' = h
    BY <2>1, <1>7
  <2>6. sys' \in EeSys
    BY <2>2 DEF EeSys
  <2> QED
    BY <1>0, <1>1, <1>2, <1>7, <2>1, <2>2, <2>3, <2>6, SMTT(60) DEF EeMoves, EeSys, EeHost, Ee!mem_busy, Ee!Out
<1>8. CASE /\ host.pc = "busy" /\ ~Ee!mem_busy
           /\ sys' = s /\ host' = Ee!Goto("go")
  <2>1. PICK h \in EeHost : /\ h = Ee!Goto("go") /\ h.pc = "go"
                              /\ h.n = host.n /\ h.call = host.call /\ h.told = host.told /\ h.got = host.got
                              /\ h.reg = host.reg /\ h.regs = host.regs /\ h.slept = host.slept
    BY <1>0, EeGotoIs DEF EeLoading, EeRunning
  <2>2. sys' = s
    BY <1>8
  <2>3. host' = h
    BY <2>1, <1>8
  <2>6. sys' \in EeSys
    BY <2>2 DEF EeSys
  <2> QED
    BY <1>0, <1>1, <1>2, <1>8, <2>1, <2>2, <2>3, <2>6 DEF EeMoves, EeSys, EeHost, Ee!mem_busy, Ee!Out
<1>9. CASE /\ host.pc = "go"
           /\ sys' = [s EXCEPT !.req = IF Ee!mem_busy THEN @ ELSE ~@]
           /\ host' = [Ee!Goto("wait") EXCEPT !.call =
                         [op |-> IF s.we THEN "write" ELSE "read", addr |-> <<"line", s.addr>>,
                          data |-> IF s.we THEN Ee!Line(host.n + 1) ELSE <<>>]]
  <2>1. PICK h \in EeHost : /\ h = Ee!Goto("wait") /\ h.pc = "wait"
                              /\ h.n = host.n /\ h.call = host.call /\ h.told = host.told /\ h.got = host.got
                              /\ h.reg = host.reg /\ h.regs = host.regs /\ h.slept = host.slept
    BY <1>0, EeGotoIs DEF EeLoading, EeRunning
  <2>2. PICK r \in BOOLEAN : sys' = [s EXCEPT !.req = r] /\ (sys.req = sys.ack[2] => r # sys.req)
    BY <1>1, <1>2, <1>9 DEF Ee!mem_busy, Ee!Out
  <2>3. PICK o : /\ o = [op |-> IF sys.we = TRUE THEN "write" ELSE "read", addr |-> <<"line", sys.addr>>,
                          data |-> IF sys.we = TRUE THEN <<host.n + 1, host.n + 1>> ELSE <<>>]
                 /\ host' = [h EXCEPT !.call = o]
    BY <1>1, <1>2, <2>1, <1>9 DEF Ee!Line
  <2>4. o \in Port!Operation
    <3>1. <<"line", sys.addr>> \in {"gif", "word", "line", "beat"} \X Nat
      BY <1>1, <1>2, <1>3
    <3>2. <<host.n + 1, host.n + 1>> \in Nat \X Nat
      BY <1>0
    <3>3. CASE sys.we = TRUE
      BY <2>3, <3>1, <3>2, <3>3 DEF Port!Operation, Port!Reply
    <3>4. CASE sys.we # TRUE
      BY <2>3, <3>1, <3>4 DEF Port!Operation, Port!Reply
    <3> QED BY <3>3, <3>4
  <2>5. host' \in EeHost /\ host'.call = o
    BY <2>1, <2>3, <2>4 DEF EeHost
  <2>6. sys' \in EeSys
    BY <2>2 DEF EeSys
  <2> QED
    BY <1>0, <1>1, <1>2, <1>9, <2>1, <2>2, <2>3, <2>5, <2>6, SMTT(60) DEF EeMoves, EeSys, EeHost, Ee!mem_busy, Ee!Out
<1>10. CASE /\ host.pc = "wait" /\ ~Ee!mem_busy
            /\ sys' = s /\ host' = Ee!Goto("r0")
  <2>1. PICK h \in EeHost : /\ h = Ee!Goto("r0") /\ h.pc = "r0"
                              /\ h.n = host.n /\ h.call = host.call /\ h.told = host.told /\ h.got = host.got
                              /\ h.reg = host.reg /\ h.regs = host.regs /\ h.slept = host.slept
    BY <1>0, EeGotoIs DEF EeLoading, EeRunning
  <2>2. sys' = s
    BY <1>10
  <2>3. host' = h
    BY <2>1, <1>10
  <2>6. sys' \in EeSys
    BY <2>2 DEF EeSys
  <2> QED
    BY <1>0, <1>1, <1>2, <1>10, <2>1, <2>2, <2>3, <2>6 DEF EeMoves, EeSys, EeHost, Ee!mem_busy, Ee!Out
<1>11. CASE /\ host.pc = "r0"
            /\ sys' = s /\ host' = [Ee!Goto("r1") EXCEPT !.got[1] = c.hold[1]]
  <2>1. PICK h \in EeHost : /\ h = Ee!Goto("r1") /\ h.pc = "r1"
                              /\ h.n = host.n /\ h.call = host.call /\ h.told = host.told /\ h.got = host.got
                              /\ h.reg = host.reg /\ h.regs = host.regs /\ h.slept = host.slept
    BY <1>0, EeGotoIs DEF EeLoading, EeRunning
  <2>2. sys' = s
    BY <1>11
  <2>3. PICK g \in Pair : g[1] = c.hold[1] /\ host' = [h EXCEPT !.got = g]
    <3>1. [host.got EXCEPT ![1] = c.hold[1]] \in Pair /\ [host.got EXCEPT ![1] = c.hold[1]][1] = c.hold[1]
      BY <1>0, <1>1 DEF Pair
    <3> QED BY <2>1, <3>1, <1>11
  <2>5. host' \in EeHost /\ host'.got = g
    BY <2>1, <2>3 DEF EeHost
  <2>6. sys' \in EeSys
    BY <2>2 DEF EeSys
  <2> QED
    BY <1>0, <1>1, <1>2, <1>11, <2>1, <2>2, <2>3, <2>5, <2>6, ZenonT(60) DEF EeMoves, EeSys, EeHost, Ee!mem_busy, Ee!Out
<1>12. CASE /\ host.pc = "r1"
            /\ sys' = s
            /\ host' = [Ee!Goto("access") EXCEPT
                          !.n = @ + 1, !.got[2] = c.hold[2], !.call = None,
                          !.told = IF host.call.op = "write" THEN <<>>
                                   ELSE <<host.got[1], c.hold[2]>>]
  <2>1. PICK h \in EeHost : /\ h = Ee!Goto("access") /\ h.pc = "access"
                              /\ h.n = host.n /\ h.call = host.call /\ h.told = host.told /\ h.got = host.got
                              /\ h.reg = host.reg /\ h.regs = host.regs /\ h.slept = host.slept
    BY <1>0, EeGotoIs DEF EeLoading, EeRunning
  <2>2. sys' = s
    BY <1>12
  <2>3. PICK g \in Pair, m \in Nat, t \in Port!Reply :
          /\ host' = [h EXCEPT !.n = m, !.got = g, !.call = None, !.told = t]
          /\ t = IF host.call.op = "write" THEN <<>> ELSE <<host.got[1], c.hold[2]>>
    <3>1. host.n + 1 \in Nat /\ [host.got EXCEPT ![2] = c.hold[2]] \in Pair
      BY <1>0, <1>1 DEF Pair
    <3>2. (IF host.call.op = "write" THEN <<>> ELSE <<host.got[1], c.hold[2]>>) \in Port!Reply
      BY <1>0, <1>1 DEF Pair, Port!Reply
    <3> QED BY <2>1, <3>1, <3>2, <1>12, ZenonT(60)
  <2>5. host' \in EeHost /\ host'.call = None /\ host'.told = t
    BY <2>1, <2>3 DEF EeHost
  <2>6. sys' \in EeSys
    BY <2>2 DEF EeSys
  <2> QED
    BY <1>0, <1>1, <1>2, <1>12, <2>1, <2>2, <2>3, <2>5, <2>6 DEF EeMoves, EeSys, EeHost, Ee!mem_busy, Ee!Out
<1>13. CASE /\ host.pc = "reset"
            /\ sys' = [s EXCEPT !.reset = TRUE] /\ host' = Ee!Goto("access")
  <2>1. PICK h \in EeHost : /\ h = Ee!Goto("access") /\ h.pc = "access"
                              /\ h.n = host.n /\ h.call = host.call /\ h.told = host.told /\ h.got = host.got
                              /\ h.reg = host.reg /\ h.regs = host.regs /\ h.slept = host.slept
    BY <1>0, EeGotoIs DEF EeLoading, EeRunning
  <2>2. sys' = [s EXCEPT !.reset = TRUE]
    BY <1>13
  <2>3. host' = h
    BY <2>1, <1>13
  <2>6. sys' \in EeSys
    BY <2>2 DEF EeSys
  <2> QED
    BY <1>0, <1>1, <1>2, <1>13, <2>1, <2>2, <2>3, <2>6 DEF EeMoves, EeSys, EeHost, Ee!mem_busy, Ee!Out
<1>14. CASE /\ host.pc = "access" /\ host.n = Accesses
            /\ sys' = [s EXCEPT !.reset = FALSE] /\ host' = [Ee!Goto("sleep") EXCEPT !.slept = 0]
  <2>1. PICK h \in EeHost : /\ h = Ee!Goto("sleep") /\ h.pc = "sleep"
                              /\ h.n = host.n /\ h.call = host.call /\ h.told = host.told /\ h.got = host.got
                              /\ h.reg = host.reg /\ h.regs = host.regs /\ h.slept = host.slept
    BY <1>0, EeGotoIs DEF EeLoading, EeRunning
  <2>2. sys' = [s EXCEPT !.reset = FALSE]
    BY <1>14
  <2>3. host' = [h EXCEPT !.slept = 0] /\ 0 \in 0 .. Ee!Slept
    BY <1>3, <2>1, <1>14
  <2>5. host' \in EeHost /\ host'.slept = 0
    BY <2>1, <2>3 DEF EeHost
  <2>6. sys' \in EeSys
    BY <2>2 DEF EeSys
  <2> QED
    BY <1>0, <1>1, <1>2, <1>14, <2>1, <2>2, <2>3, <2>5, <2>6, ZenonT(60) DEF EeMoves, EeSys, EeHost, Ee!mem_busy, Ee!Out
<1>15. CASE /\ host.pc = "sleep" /\ host.slept = Ee!Slept
            /\ sys' = s /\ host' = Ee!Goto("sel")
  <2>1. PICK h \in EeHost : /\ h = Ee!Goto("sel") /\ h.pc = "sel"
                              /\ h.n = host.n /\ h.call = host.call /\ h.told = host.told /\ h.got = host.got
                              /\ h.reg = host.reg /\ h.regs = host.regs /\ h.slept = host.slept
    BY <1>0, EeGotoIs DEF EeLoading, EeRunning
  <2>2. sys' = s
    BY <1>15
  <2>3. host' = h
    BY <2>1, <1>15
  <2>6. sys' \in EeSys
    BY <2>2 DEF EeSys
  <2> QED
    BY <1>0, <1>1, <1>2, <1>15, <2>1, <2>2, <2>3, <2>6 DEF EeMoves, EeSys, EeHost, Ee!mem_busy, Ee!Out
<1>16. CASE /\ host.pc = "sel" /\ host.reg < Regs
            /\ sys' = [s EXCEPT !.sel = host.reg + 1]
            /\ host' = [Ee!Goto("settle") EXCEPT !.slept = 0]
  <2>1. PICK h \in EeHost : /\ h = Ee!Goto("settle") /\ h.pc = "settle"
                              /\ h.n = host.n /\ h.call = host.call /\ h.told = host.told /\ h.got = host.got
                              /\ h.reg = host.reg /\ h.regs = host.regs /\ h.slept = host.slept
    BY <1>0, EeGotoIs DEF EeLoading, EeRunning
  <2>2. PICK r \in Nat : r = host.reg + 1 /\ sys' = [s EXCEPT !.sel = r]
    BY <1>0, <1>16
  <2>3. host' = [h EXCEPT !.slept = 0] /\ 0 \in 0 .. Ee!Slept
    BY <1>3, <2>1, <1>16
  <2>5. host' \in EeHost /\ host'.slept = 0
    BY <2>1, <2>3 DEF EeHost
  <2>6. sys' \in EeSys
    BY <2>2 DEF EeSys
  <2> QED
    BY <1>0, <1>1, <1>2, <1>16, <2>1, <2>2, <2>3, <2>5, <2>6 DEF EeMoves, EeSys, EeHost, Ee!mem_busy, Ee!Out
<1>17. CASE /\ host.pc = "settle" /\ host.slept = Ee!Slept
            /\ sys' = s /\ host' = [Ee!Goto("g1") EXCEPT !.got[1] = s.hold[1][1]]
  <2>1. PICK h \in EeHost : /\ h = Ee!Goto("g1") /\ h.pc = "g1"
                              /\ h.n = host.n /\ h.call = host.call /\ h.told = host.told /\ h.got = host.got
                              /\ h.reg = host.reg /\ h.regs = host.regs /\ h.slept = host.slept
    BY <1>0, EeGotoIs DEF EeLoading, EeRunning
  <2>2. sys' = s
    BY <1>17
  <2>3. PICK g \in Pair : g[1] = s.hold[1][1] /\ host' = [h EXCEPT !.got = g]
    <3>1. [host.got EXCEPT ![1] = s.hold[1][1]] \in Pair /\ [host.got EXCEPT ![1] = s.hold[1][1]][1] = s.hold[1][1]
      BY <1>0, <1>1 DEF Pair
    <3> QED BY <2>1, <3>1, <1>17
  <2>5. host' \in EeHost /\ host'.got = g
    BY <2>1, <2>3 DEF EeHost
  <2>6. sys' \in EeSys
    BY <2>2 DEF EeSys
  <2> QED
    BY <1>0, <1>1, <1>2, <1>17, <2>1, <2>2, <2>3, <2>5, <2>6, ZenonT(60) DEF EeMoves, EeSys, EeHost, Ee!mem_busy, Ee!Out
<1>18. CASE /\ host.pc = "g1"
            /\ sys' = s /\ host' = [Ee!Goto("sel") EXCEPT
                                        !.reg = @ + 1, !.regs = Append(@, <<host.got[1], s.hold[1][2]>>)]
  <2>1. PICK h \in EeHost : /\ h = Ee!Goto("sel") /\ h.pc = "sel"
                              /\ h.n = host.n /\ h.call = host.call /\ h.told = host.told /\ h.got = host.got
                              /\ h.reg = host.reg /\ h.regs = host.regs /\ h.slept = host.slept
    BY <1>0, EeGotoIs DEF EeLoading, EeRunning
  <2>2. sys' = s
    BY <1>18
  <2>3. PICK g : g = WithReg(host.regs, host.got[1], s.hold[1][2])
    OBVIOUS
  <2>4. g \in Seq(Pair)
    <3>1. <<host.got[1], s.hold[1][2]>> \in Pair
      BY <1>0, <1>1 DEF Pair
    <3>2. host.regs \in Seq(Pair)
      BY <1>0 DEF EeHost
    <3> QED BY <2>3, <3>1, <3>2 DEF WithReg
  <2>7. PICK r \in Nat : r = host.reg + 1
    BY <1>0
  <2>8. host' = [h EXCEPT !.reg = r, !.regs = g]
    BY <2>1, <2>3, <2>7, <1>18 DEF WithReg
  <2>5. /\ host' \in EeHost /\ host'.reg = host.reg + 1 /\ host'.regs = g /\ host'.pc = "sel"
        /\ host'.n = host.n /\ host'.told = host.told /\ host'.call = host.call
    BY <2>1, <2>4, <2>7, <2>8 DEF EeHost
  <2>6. sys' \in EeSys
    BY <2>2 DEF EeSys
  <2>9. /\ sys'.reset = sys.reset /\ sys'.addr = sys.addr /\ sys'.we = sys.we /\ sys'.w = sys.w
        /\ sys'.req = sys.req /\ sys'.sel = sys.sel /\ sys'.ack = s.ack /\ sys'.tog = s.tog
        /\ sys'.tog_d = s.tog_d /\ sys'.hold = s.hold
    BY <1>2, <2>2
  <2>10. host.pc = "g1"
    BY <1>18
  <2> QED
    BY <2>3, <2>5, <2>6, <2>9, <2>10 DEF EeMoves
<1>19. CASE /\ host.pc = "sel" /\ host.reg = Regs
            /\ sys' = [s EXCEPT !.reset = TRUE] /\ host' = Ee!Goto("end")
  <2>1. PICK h \in EeHost : /\ h = Ee!Goto("end") /\ h.pc = "end"
                              /\ h.n = host.n /\ h.call = host.call /\ h.told = host.told /\ h.got = host.got
                              /\ h.reg = host.reg /\ h.regs = host.regs /\ h.slept = host.slept
    BY <1>0, EeGotoIs DEF EeLoading, EeRunning
  <2>2. sys' = [s EXCEPT !.reset = TRUE]
    BY <1>19
  <2>3. host' = h
    BY <2>1, <1>19
  <2>6. sys' \in EeSys
    BY <2>2 DEF EeSys
  <2>9. /\ sys'.addr = sys.addr /\ sys'.we = sys.we /\ sys'.w = sys.w
        /\ sys'.req = sys.req /\ sys'.sel = sys.sel /\ sys'.ack = s.ack /\ sys'.tog = s.tog
        /\ sys'.tog_d = s.tog_d /\ sys'.hold = s.hold
    BY <1>2, <2>2 DEF EeSys
  <2>10. host.pc = "sel" /\ host.reg = Regs
    BY <1>19
  <2> QED
    BY <2>1, <2>3, <2>6, <2>9, <2>10 DEF EeMoves
<1> QED
  BY <1>4, <1>5, <1>6, <1>7, <1>8, <1>9, <1>10, <1>11, <1>12, <1>13, <1>14, <1>15, <1>16, <1>17, <1>18, <1>19 DEF EeActs, Ee!MemAccess, Ee!Main

-----------------------------------------------------------------------------
(* An edge of the core of the EE board. *)

\* The three things the port does with a request.
EeTakes == /\ core.pend = FALSE /\ core.req[2] # core.ack
           /\ core'.pend = TRUE /\ core'.h_we \in {clk.sys.we, sys.we}
           /\ core'.h_hold = core.h_hold /\ core'.ack = core.ack
EeGives == /\ core.pend = TRUE
           /\ core'.pend = FALSE /\ core'.h_we = FALSE
           /\ core'.h_hold = core.rdata /\ core'.ack = core.req[2]
EeRests == /\ core.pend = FALSE /\ core.req[2] = core.ack
           /\ core'.pend = FALSE /\ core'.h_we = FALSE
           /\ core'.h_hold = core.h_hold /\ core'.ack = core.ack

EeWrote(addr, w) == IF core.h_we = TRUE THEN [core.mem EXCEPT ![addr] = w] ELSE core.mem

EeMemory(addr, w) ==
    /\ addr \in {clk.sys.addr, sys.addr} /\ w \in Pair
    /\ w[1] \in {clk.sys.w[1], sys.w[1]} /\ w[2] \in {clk.sys.w[2], sys.w[2]}
    /\ core.rst[2] = TRUE =>
         /\ core'.rdata = core.mem[addr] /\ core'.retires = 0
         /\ core'.mem = EeWrote(addr, w)
    /\ core.rst[2] = FALSE =>
         /\ core'.rdata = core.rdata /\ core'.mem = core.mem
         /\ core'.retires = IF core.retires < Park THEN core.retires + 1 ELSE core.retires

EeClocks ==
    /\ core' \in EeCore
    /\ core'.rst[1] \in {clk.sys.reset, sys.reset} /\ core'.rst[2] = core.rst[1]
    /\ core'.req[1] \in {clk.sys.req, sys.req} /\ core'.req[2] = core.req[1]
    /\ core'.sel[1] \in {clk.sys.sel, sys.sel} /\ core'.sel[2] = core.sel[1]
    /\ core'.cnt = (core.cnt + 1) % Period
    /\ core'.snap = IF core.cnt = 0 THEN <<<<core.sel[2], core.retires>>, core.retires>> ELSE core.snap
    /\ core'.tog = IF core.cnt = 1 THEN ~core.tog ELSE core.tog
    /\ EeTakes \/ EeGives \/ EeRests
    /\ \E addr, w : EeMemory(addr, w)

\* The program's clock goes on, while it sleeps.
EeDozes ==
    /\ host' \in EeHost
    /\ host'.pc = host.pc /\ host'.n = host.n /\ host'.call = host.call /\ host'.told = host.told
    /\ host'.got = host.got /\ host'.reg = host.reg /\ host'.regs = host.regs
    /\ host'.slept = IF host.slept < Ee!Slept /\ host.pc \in {"sleep", "settle"}
                     THEN host.slept + 1 ELSE host.slept

LEMMA EePortIs ==
  ASSUME core \in EeCore, NEW we \in BOOLEAN, NEW p, p = Ee!MemoryPort(core, we)
  PROVE  /\ p \in EeCore /\ p.mem = core.mem /\ p.rdata = core.rdata /\ p.retires = core.retires
         /\ \/ /\ core.pend = FALSE /\ core.req[2] # core.ack
               /\ p.pend = TRUE /\ p.h_we = we /\ p.h_hold = core.h_hold /\ p.ack = core.ack
            \/ /\ core.pend = TRUE
               /\ p.pend = FALSE /\ p.h_we = FALSE /\ p.h_hold = core.rdata /\ p.ack = core.req[2]
            \/ /\ core.pend = FALSE /\ core.req[2] = core.ack
               /\ p.pend = FALSE /\ p.h_we = FALSE /\ p.h_hold = core.h_hold /\ p.ack = core.ack
<1>1. core.pend \in BOOLEAN /\ core.ack \in BOOLEAN /\ core.req[2] \in BOOLEAN /\ core.rdata \in Pair
  BY DEF EeCore, Bits
<1>2. CASE core.req[2] # core.ack /\ core.pend = FALSE
  <2>1. p = [core EXCEPT !.h_we = we, !.pend = TRUE]
    BY <1>2 DEF Ee!MemoryPort, Ee!Out
  <2> QED BY <1>2, <2>1 DEF EeCore
<1>3. CASE core.pend = TRUE
  <2>1. p = [core EXCEPT !.h_we = FALSE, !.h_hold = core.rdata, !.pend = FALSE, !.ack = core.req[2]]
    BY <1>3 DEF Ee!MemoryPort, Ee!Out
  <2> QED BY <1>1, <1>3, <2>1 DEF EeCore
<1>4. CASE core.req[2] = core.ack /\ core.pend = FALSE
  <2>1. p = [core EXCEPT !.h_we = FALSE]
    BY <1>4 DEF Ee!MemoryPort, Ee!Out
  <2> QED BY <1>4, <2>1 DEF EeCore
<1> QED BY <1>1, <1>2, <1>3, <1>4

EeBroughtUp(p, q, addr, w) ==
    /\ q \in EeCore
    /\ q.pend = p.pend /\ q.h_we = p.h_we /\ q.h_hold = p.h_hold /\ q.ack = p.ack
    /\ q.rst = p.rst /\ q.req = p.req /\ q.sel = p.sel
    /\ core.rst[2] = TRUE =>
         /\ q.rdata = core.mem[addr] /\ q.retires = 0
         /\ q.mem = EeWrote(addr, w)
    /\ core.rst[2] = FALSE =>
         /\ q.rdata = core.rdata /\ q.mem = core.mem
         /\ q.retires = IF core.retires < Park THEN core.retires + 1 ELSE core.retires

LEMMA EeBringupIs ==
  ASSUME core \in EeCore, NEW p \in EeCore,
         p.mem = core.mem, p.rdata = core.rdata, p.retires = core.retires,
         NEW addr \in EeLines, NEW w \in Pair, NEW q, q = Ee!Bringup(core, p, addr, w)
  PROVE  EeBroughtUp(p, q, addr, w)
<1>1. /\ core.rst[2] \in BOOLEAN /\ core.h_we \in BOOLEAN /\ core.mem \in [EeLines -> Pair]
      /\ core.retires \in 0 .. Park
  BY DEF EeCore, Bits
<1>2. CASE core.rst[2] = TRUE
  <2>1. PICK m \in [EeLines -> Pair] :
           /\ m = EeWrote(addr, w)
           /\ m = [core.mem EXCEPT ![addr] = IF core.h_we = TRUE THEN w ELSE core.mem[addr]]
    BY <1>1 DEF EeWrote
  <2>2. core.mem[addr] \in Pair /\ 0 \in 0 .. Park
    BY <1>1, Periods
  <2>3. q = [p EXCEPT !.rdata = core.mem[addr], !.retires = 0, !.mem = m]
    BY <1>1, <1>2, <2>1 DEF Ee!Bringup, Ee!Out
  <2> QED BY <1>2, <2>1, <2>2, <2>3, ZenonT(60) DEF EeCore, EeBroughtUp
<1>3. CASE core.rst[2] = FALSE
  <2>1. PICK r \in 0 .. Park : r = IF core.retires < Park THEN core.retires + 1 ELSE core.retires
    BY <1>1, Periods
  <2>2. q = [p EXCEPT !.retires = r]
    BY <1>1, <1>3, <2>1 DEF Ee!Bringup, Ee!Out
  <2> QED BY <1>3, <2>1, <2>2 DEF EeCore, EeBroughtUp
<1> QED BY <1>1, <1>2, <1>3

LEMMA EeCaughtIs ==
  ASSUME EeTypes,
         NEW reset \in Ee!Caught(clk.sys.reset, sys.reset), NEW req \in Ee!Caught(clk.sys.req, sys.req),
         NEW we \in Ee!Caught(clk.sys.we, sys.we), NEW addr \in Ee!Caught(clk.sys.addr, sys.addr),
         NEW w \in Ee!Words(clk.sys.w, sys.w), NEW sel \in Ee!Caught(clk.sys.sel, sys.sel)
  PROVE  /\ reset \in BOOLEAN /\ req \in BOOLEAN /\ we \in BOOLEAN /\ addr \in EeLines
         /\ w \in Pair /\ sel \in Nat
         /\ reset \in {clk.sys.reset, sys.reset} /\ req \in {clk.sys.req, sys.req}
         /\ we \in {clk.sys.we, sys.we} /\ addr \in {clk.sys.addr, sys.addr}
         /\ w[1] \in {clk.sys.w[1], sys.w[1]} /\ w[2] \in {clk.sys.w[2], sys.w[2]}
         /\ sel \in {clk.sys.sel, sys.sel}
<1>1. /\ clk.sys.reset \in BOOLEAN /\ sys.reset \in BOOLEAN /\ clk.sys.req \in BOOLEAN
      /\ sys.req \in BOOLEAN /\ clk.sys.we \in BOOLEAN /\ sys.we \in BOOLEAN
      /\ clk.sys.addr \in EeLines /\ sys.addr \in EeLines /\ clk.sys.w \in Pair /\ sys.w \in Pair
      /\ clk.sys.sel \in Nat /\ sys.sel \in Nat
  BY DEF EeTypes, EeSys, EeClk
<1>2. w = <<w[1], w[2]>> /\ w[1] \in {clk.sys.w[1], sys.w[1]} /\ w[2] \in {clk.sys.w[2], sys.w[2]}
  BY WordsAre
<1>3. w \in Pair
  BY <1>1, <1>2 DEF Pair
<1> QED BY <1>1, <1>2, <1>3 DEF Ee!Caught

LEMMA EeDozesIs ==
  ASSUME EeTypes,
         host' = [host EXCEPT !.slept = IF @ < Ee!Slept /\ host.pc \in {"sleep", "settle"}
                                        THEN @ + 1 ELSE @]
  PROVE  EeDozes
<1>1. host \in EeHost /\ host.slept \in 0 .. Ee!Slept
  BY DEF EeTypes, EeHost
<1>2. Ee!Slept \in Nat
  BY Periods DEF Ee!Slept
<1>3. PICK m \in 0 .. Ee!Slept :
        /\ m = IF host.slept < Ee!Slept /\ host.pc \in {"sleep", "settle"}
               THEN host.slept + 1 ELSE host.slept
        /\ host' = [host EXCEPT !.slept = m]
  BY <1>1, <1>2
<1> QED BY <1>1, <1>3 DEF EeDozes, EeHost

LEMMA EeSnapIs ==
  ASSUME core \in EeCore, NEW p, p = Ee!Snap(core, Ee!Status, Period)
  PROVE  /\ p.cnt \in 0 .. Period - 1 /\ p.snap \in Pair \X Nat /\ p.tog \in BOOLEAN
         /\ p.cnt = (core.cnt + 1) % Period
         /\ p.snap = IF core.cnt = 0 THEN <<<<core.sel[2], core.retires>>, core.retires>> ELSE core.snap
         /\ p.tog = IF core.cnt = 1 THEN ~core.tog ELSE core.tog
<1>1. /\ core.cnt \in 0 .. Period - 1 /\ core.sel[2] \in Nat /\ core.retires \in Nat
      /\ core.snap \in Pair \X Nat /\ core.tog \in BOOLEAN
  BY Periods DEF EeCore, Pair
<1>2. (core.cnt + 1) % Period \in 0 .. Period - 1
  BY <1>1, Periods
<1>3. <<<<core.sel[2], core.retires>>, core.retires>> \in Pair \X Nat
  BY <1>1 DEF Pair
<1>4. /\ p.cnt = (core.cnt + 1) % Period
      /\ p.snap = IF core.cnt = 0 THEN <<<<core.sel[2], core.retires>>, core.retires>> ELSE core.snap
      /\ p.tog = IF core.cnt = 1 THEN ~core.tog ELSE core.tog
  BY DEF Ee!Snap, Ee!Status, Ee!Out
<1> QED BY <1>1, <1>2, <1>3, <1>4

LEMMA EeCoreStep ==
  ASSUME EeTypes, Ee!CoreEdge
  PROVE  /\ EeClocks /\ EeDozes /\ EeTicks /\ sys' = sys
         /\ clk.ahead < Lead /\ clk'.ahead = clk.ahead + 1 /\ clk'.fresh = TRUE
<1>1. PICK reset \in Ee!Caught(clk.sys.reset, sys.reset), req \in Ee!Caught(clk.sys.req, sys.req),
           we \in Ee!Caught(clk.sys.we, sys.we), addr \in Ee!Caught(clk.sys.addr, sys.addr),
           w \in Ee!Words(clk.sys.w, sys.w), sel \in Ee!Caught(clk.sys.sel, sys.sel) :
         LET snap == Ee!Snap(core, Ee!Status, Period)
         IN  core' = [Ee!Bringup(core, Ee!MemoryPort(core, we), addr, w)
                      EXCEPT !.rst = Ee!Clocked(@, reset), !.req = Ee!Clocked(@, req),
                             !.sel = Ee!Clocked(@, sel),
                             !.cnt = snap.cnt, !.snap = snap.snap, !.tog = snap.tog]
  BY DEF Ee!CoreEdge
<1>2. /\ reset \in BOOLEAN /\ req \in BOOLEAN /\ we \in BOOLEAN /\ addr \in EeLines
      /\ w \in Pair /\ sel \in Nat
      /\ reset \in {clk.sys.reset, sys.reset} /\ req \in {clk.sys.req, sys.req}
      /\ we \in {clk.sys.we, sys.we} /\ addr \in {clk.sys.addr, sys.addr}
      /\ w[1] \in {clk.sys.w[1], sys.w[1]} /\ w[2] \in {clk.sys.w[2], sys.w[2]}
      /\ sel \in {clk.sys.sel, sys.sel}
  BY EeCaughtIs
<1>3. core \in EeCore /\ clk.ahead \in 0 .. Lead
  BY DEF EeTypes, EeClk
<1>4. PICK p : p = Ee!MemoryPort(core, we)
  OBVIOUS
<1>5. /\ p \in EeCore /\ p.mem = core.mem /\ p.rdata = core.rdata /\ p.retires = core.retires
      /\ \/ /\ core.pend = FALSE /\ core.req[2] # core.ack
            /\ p.pend = TRUE /\ p.h_we = we /\ p.h_hold = core.h_hold /\ p.ack = core.ack
         \/ /\ core.pend = TRUE
            /\ p.pend = FALSE /\ p.h_we = FALSE /\ p.h_hold = core.rdata /\ p.ack = core.req[2]
         \/ /\ core.pend = FALSE /\ core.req[2] = core.ack
            /\ p.pend = FALSE /\ p.h_we = FALSE /\ p.h_hold = core.h_hold /\ p.ack = core.ack
  BY <1>2, <1>3, <1>4, EePortIs, ZenonT(60)
<1>21. p \in EeCore /\ p.mem = core.mem /\ p.rdata = core.rdata /\ p.retires = core.retires
  BY <1>5
<1>22. core \in EeCore /\ addr \in EeLines /\ w \in Pair
  BY <1>2, <1>3
<1>6. PICK q : q = Ee!Bringup(core, p, addr, w)
  OBVIOUS
<1>7. EeBroughtUp(p, q, addr, w)
  BY <1>21, <1>22, <1>6, EeBringupIs
<1>8. PICK n : n = Ee!Snap(core, Ee!Status, Period)
  OBVIOUS
<1>9. /\ n.cnt \in 0 .. Period - 1 /\ n.snap \in Pair \X Nat /\ n.tog \in BOOLEAN
      /\ n.cnt = (core.cnt + 1) % Period
      /\ n.snap = IF core.cnt = 0 THEN <<<<core.sel[2], core.retires>>, core.retires>> ELSE core.snap
      /\ n.tog = IF core.cnt = 1 THEN ~core.tog ELSE core.tog
  BY <1>3, <1>8, EeSnapIs
<1>10. PICK f, g, h : f = Ee!Clocked(q.rst, reset) /\ g = Ee!Clocked(q.req, req) /\ h = Ee!Clocked(q.sel, sel)
  OBVIOUS
<1>11. core' = [q EXCEPT !.rst = f, !.req = g, !.sel = h,
                         !.cnt = n.cnt, !.snap = n.snap, !.tog = n.tog]
  BY <1>1, <1>4, <1>6, <1>8, <1>10
<1>20. q.rst = core.rst /\ q.req = core.req /\ q.sel = core.sel
  <2>1. p.rst = core.rst /\ p.req = core.req /\ p.sel = core.sel
    BY <1>3, <1>4 DEF Ee!MemoryPort, EeCore
  <2> QED BY <1>7, <2>1 DEF EeBroughtUp
<1>12. /\ f \in Bits /\ f[1] = reset /\ f[2] = core.rst[1]
       /\ g \in Bits /\ g[1] = req /\ g[2] = core.req[1]
       /\ h \in Nat \X Nat /\ h[1] = sel /\ h[2] = core.sel[1]
  BY <1>2, <1>3, <1>10, <1>20 DEF Ee!Clocked, EeCore, Bits, Pair
<1>13. core' \in EeCore
  BY <1>7, <1>9, <1>11, <1>12 DEF EeBroughtUp, EeCore, Pair
<1>14. /\ core'.rst = f /\ core'.req = g /\ core'.sel = h /\ core'.cnt = n.cnt
       /\ core'.snap = n.snap /\ core'.tog = n.tog
       /\ core'.pend = q.pend /\ core'.h_we = q.h_we /\ core'.h_hold = q.h_hold
       /\ core'.ack = q.ack /\ core'.rdata = q.rdata /\ core'.mem = q.mem /\ core'.retires = q.retires
  BY <1>7, <1>11 DEF EeBroughtUp, EeCore
<1>15. EeTakes \/ EeGives \/ EeRests
  BY <1>2, <1>5, <1>7, <1>14 DEF EeBroughtUp, EeTakes, EeGives, EeRests
<1>16. EeMemory(addr, w)
  BY <1>2, <1>7, <1>14 DEF EeBroughtUp, EeMemory
<1>17. EeClocks
  BY <1>2, <1>9, <1>12, <1>13, <1>14, <1>15, <1>16 DEF EeClocks
<1>18. EeDozes /\ sys' = sys /\ clk.ahead < Lead
  BY EeDozesIs DEF Ee!CoreEdge
<1>19. EeTicks /\ clk'.ahead = clk.ahead + 1 /\ clk'.fresh = TRUE
  <2>1. clk.ahead + 1 \in 0 .. Lead /\ TRUE \in BOOLEAN
    BY <1>3, <1>18, Periods
  <2>2. clk' = [sys |-> Ee!SysOut, core |-> Ee!CoreOut, ahead |-> clk.ahead + 1, fresh |-> TRUE]
    BY DEF Ee!CoreEdge
  <2> QED BY <2>1, <2>2, EeTicksIs
<1> QED BY <1>17, <1>18, <1>19

-----------------------------------------------------------------------------
(* The invariant over an edge of sys. *)

EeMoved(s, c) == clk.fresh = TRUE /\ clk'.fresh = FALSE /\ EeMoves(s, c)

EeSteps(s, c) ==
    /\ s \in EeSys /\ EeLeaves(s, c) /\ EeTicks /\ clk'.ahead = 0 /\ core' = core
    /\ EeQuiet(s) \/ EeMoved(s, c)

LEMMA EeSysDoes ==
  ASSUME EeInv, Ee!SysEdge
  PROVE  EeTypes' /\ \E s, c : EeSteps(s, c)
<1>1. EeTypes /\ EeAsked /\ EeSelects
  BY DEF EeInv
<1>2. /\ EeTicks /\ clk'.ahead = 0 /\ core' = core
      /\ \E s, c : s \in EeSys /\ EeLeaves(s, c) /\ (EeQuiet(s) \/ EeActs(s, c))
  BY <1>1, EeSysStep
<1>3. PICK s, c : s \in EeSys /\ EeLeaves(s, c) /\ (EeQuiet(s) \/ EeActs(s, c))
  BY <1>2
<1>4. EeActs(s, c) => EeMoves(s, c)
  BY <1>1, <1>3, EeMovesIs
<1>5. EeSteps(s, c)
  BY <1>2, <1>3, <1>4 DEF EeSteps, EeActs, EeMoved
<1>6. sys' \in EeSys /\ host' \in EeHost
  <2>1. CASE EeQuiet(s)
    BY <1>1, <1>3, <2>1 DEF EeQuiet, EeTypes
  <2>2. CASE EeActs(s, c)
    BY <1>4, <2>2 DEF EeMoves
  <2> QED BY <1>3, <2>1, <2>2
<1>7. EeTypes'
  BY <1>1, <1>2, <1>6 DEF EeTypes, EeTicks
<1> QED BY <1>5, <1>7

\* The wires of the toggles, typed.
LEMMA EeBits ==
  ASSUME EeTypes
  PROVE  /\ sys.req \in BOOLEAN /\ clk.sys.req \in BOOLEAN /\ core.req[1] \in BOOLEAN
         /\ core.req[2] \in BOOLEAN /\ core.ack \in BOOLEAN /\ clk.core.ack \in BOOLEAN
         /\ sys.ack[1] \in BOOLEAN /\ sys.ack[2] \in BOOLEAN
         /\ sys.tog[1] \in BOOLEAN /\ sys.tog[2] \in BOOLEAN /\ sys.tog_d \in BOOLEAN
         /\ core.tog \in BOOLEAN /\ clk.core.tog \in BOOLEAN
         /\ sys.reset \in BOOLEAN /\ sys.we \in BOOLEAN /\ core.h_we \in BOOLEAN
         /\ core.pend \in BOOLEAN /\ core.rst[2] \in BOOLEAN
  BY DEF EeTypes, EeSys, EeCore, EeClk, Bits

LEMMA EeValues ==
  ASSUME EeTypes
  PROVE  /\ core.snap = <<core.snap[1], core.snap[2]>> /\ sys.hold = <<sys.hold[1], sys.hold[2]>>
         /\ clk.core.snap = <<clk.core.snap[1], clk.core.snap[2]>>
         /\ core.cnt \in 0 .. Period - 1 /\ clk.ahead \in 0 .. Lead
         /\ core.retires \in 0 .. Park /\ host.slept \in 0 .. Ee!Slept /\ host.reg \in Nat
         /\ host.n \in Nat /\ host.pc \in EeLoading \cup EeRunning
  BY DEF EeTypes, EeSys, EeCore, EeClk, EeHost

LEMMA EeSysHeld ==
  ASSUME EeInv, NEW s, NEW c, EeSteps(s, c)
  PROVE  EeHeld'
<1>1. CASE EeQuiet(s)
  BY <1>1 DEF EeInv, EeHeld, EeSteps, EeLeaves, EeTicks, EeQuiet
<1>2. CASE EeMoved(s, c)
  <2>1. host'.pc \in EeLoading => host.pc \in EeLoading /\ sys'.reset = TRUE
    <3>1. EeHeld /\ host.pc \in EeLoading \cup EeRunning
      BY EeValues DEF EeInv
    <3> QED BY <1>2, <3>1 DEF EeHeld, EeMoved, EeMoves, EeLoading, EeRunning
  <2> QED BY <1>2, <2>1 DEF EeInv, EeHeld, EeSteps, EeTicks
<1> QED BY <1>1, <1>2 DEF EeSteps

\* What became of the request's toggle.
LEMMA EeSysReq ==
  ASSUME EeInv, NEW s, NEW c, EeSteps(s, c)
  PROVE  /\ sys'.ack[1] \in {clk.core.ack, core.ack} /\ sys'.ack[2] = sys.ack[1]
         /\ sys'.tog[1] \in {clk.core.tog, core.tog} /\ sys'.tog[2] = sys.tog[1]
         /\ sys'.tog_d = sys.tog[2] /\ sys'.hold = s.hold
         /\ host.pc # "go" => sys'.req = sys.req
         /\ sys'.req # sys.req => host.pc = "go" /\ host'.pc = "wait"
         /\ host.pc # "wait" /\ host'.pc # "wait" => sys'.req = sys.req
         /\ host.pc = "wait" /\ host'.pc # "wait" => sys.req = sys.ack[2]
         /\ host'.pc = "wait" => host.pc \in {"go", "wait"}
<1>1. CASE EeQuiet(s)
  BY <1>1 DEF EeSteps, EeLeaves, EeQuiet
<1>2. CASE EeMoved(s, c)
  <2>1. host.pc \in EeLoading \cup EeRunning
    BY EeValues DEF EeInv
  <2> QED BY <1>2, <2>1 DEF EeSteps, EeLeaves, EeMoved, EeMoves, EeLoading, EeRunning
<1> QED BY <1>1, <1>2 DEF EeSteps

LEMMA EeSysHands ==
  ASSUME EeInv, NEW s, NEW c, EeSteps(s, c), EeTypes'
  PROVE  EeHands'
<1>1. /\ sys.req \in BOOLEAN /\ clk.sys.req \in BOOLEAN /\ core.req[1] \in BOOLEAN
      /\ core.req[2] \in BOOLEAN /\ core.ack \in BOOLEAN /\ clk.core.ack \in BOOLEAN
      /\ sys.ack[1] \in BOOLEAN /\ sys.ack[2] \in BOOLEAN /\ sys'.req \in BOOLEAN
  BY EeBits DEF EeInv, EeTypes, EeSys
<1>2. EeHands
  BY DEF EeInv
<1>3. PICK g1 : g1 = sys'.ack[1] /\ g1 \in {clk.core.ack, core.ack}
  BY EeSysReq
<1>4. Passing(sys.req, clk.sys.req, core.req[1], core.req[2],
              core.ack, clk.core.ack, sys.ack[1], sys.ack[2])
  BY <1>2 DEF EeHands
<1>5. /\ clk'.sys.req = sys.req /\ clk'.core.ack = core.ack /\ core' = core
      /\ sys'.ack[2] = sys.ack[1]
  BY EeSysReq DEF EeSteps, EeTicks
<1>6. /\ Passing(sys.req, sys.req, core.req[1], core.req[2], core.ack, core.ack, g1, sys.ack[1])
      /\ sys.req = sys.ack[2] => sys.req = sys.ack[1]
  BY <1>1, <1>3, <1>4 DEF Passing
<1>7. CASE sys'.req = sys.req
  <2>1. host'.pc # "wait" => sys.req = sys.ack[2]
    BY <1>2, EeSysReq DEF EeHands
  <2> QED BY <1>3, <1>5, <1>6, <1>7, <2>1 DEF EeHands
<1>8. CASE sys'.req # sys.req
  <2>1. host'.pc = "wait" /\ sys.req = sys.ack[2]
    BY <1>2, <1>8, EeSysReq DEF EeHands
  <2>2. Passing(sys'.req, sys.req, core.req[1], core.req[2], core.ack, core.ack, g1, sys.ack[1])
    BY <1>1, <1>3, <1>4, <2>1 DEF Passing
  <2> QED BY <1>3, <1>5, <2>1, <2>2 DEF EeHands
<1> QED BY <1>7, <1>8

LEMMA EeSysAsked ==
  ASSUME EeInv, NEW s, NEW c, EeSteps(s, c)
  PROVE  EeAsked'
<1>1. EeAsked /\ host.pc \in EeLoading \cup EeRunning
  BY EeValues DEF EeInv
<1>2. /\ clk'.sys.addr = sys.addr /\ clk'.sys.we = sys.we /\ clk'.sys.w = sys.w
  BY DEF EeSteps, EeTicks
<1>3. CASE EeQuiet(s)
  BY <1>1, <1>2, <1>3 DEF EeAsked, EeSteps, EeLeaves, EeQuiet
<1>4. CASE EeMoved(s, c)
  <2>1. EeMoves(s, c)
    BY <1>4 DEF EeMoved
  <2>2. CASE host.pc \in {"reset", "access", "we", "w0", "w1"}
    BY <1>1, <1>2, <2>1, <2>2 DEF EeAsked, EeMoves
  <2>3. CASE host.pc \in {"busy", "go"}
    BY <1>1, <1>2, <2>1, <2>3 DEF EeAsked, EeMoves
  <2>4. CASE host.pc \in {"wait", "r0", "r1"}
    BY <1>1, <1>2, <2>1, <2>4 DEF EeAsked, EeMoves
  <2>5. CASE host.pc \in EeRunning
    BY <1>1, <1>2, <2>1, <2>5 DEF EeAsked, EeMoves, EeRunning
  <2> QED BY <1>1, <2>2, <2>3, <2>4, <2>5 DEF EeLoading
<1> QED BY <1>3, <1>4 DEF EeSteps

\* Where the request is, while the port has it.
LEMMA EePlace ==
  ASSUME EeTypes, EeHands
  PROVE  /\ core.req[2] # core.ack => /\ host.pc = "wait" /\ sys.req = core.req[2]
                                      /\ clk.sys.req = sys.req /\ core.req[1] = sys.req
                                      /\ core.ack = sys.ack[2]
         /\ sys.req = sys.ack[2] => /\ core.req[2] = core.ack /\ core.ack = sys.req
                                    /\ clk.core.ack = core.ack
<1>1. Passing(sys.req, clk.sys.req, core.req[1], core.req[2],
              core.ack, clk.core.ack, sys.ack[1], sys.ack[2])
  BY DEF EeHands
<1>2. core.req[2] # core.ack => /\ sys.req = core.req[2] /\ clk.sys.req = sys.req
                                /\ core.req[1] = sys.req /\ core.ack = sys.ack[2] /\ sys.req # sys.ack[2]
  BY <1>1, EeBits DEF Passing
<1>3. sys.req = sys.ack[2] => /\ core.req[2] = core.ack /\ core.ack = sys.req
                              /\ clk.core.ack = core.ack
  BY <1>1, EeBits DEF Passing
<1> QED BY <1>2, <1>3 DEF EeHands

LEMMA EeSysPort ==
  ASSUME EeInv, NEW s, NEW c, EeSteps(s, c)
  PROVE  EePort'
<1>1. EeTypes /\ EeHands /\ EePort /\ host.pc \in EeLoading \cup EeRunning
  BY EeValues DEF EeInv
<1>2. core' = core /\ clk'.core.ack = core.ack /\ clk'.core.hold = core.h_hold
  BY DEF EeSteps, EeTicks
<1>3. core.pend = TRUE => sys'.we = sys.we /\ sys'.addr = sys.addr
  <2>1. core.pend = TRUE => host.pc = "wait"
    BY <1>1, EePlace DEF EePort
  <2> QED BY <2>1 DEF EeSteps, EeQuiet, EeMoved, EeMoves, EeLeaves
<1>4. host'.pc = "r1" => host'.got[1] = core.h_hold[1]
  <2>1. CASE EeQuiet(s)
    BY <1>1, <2>1 DEF EeQuiet, EePort
  <2>2. CASE EeMoved(s, c)
    <3>1. host'.pc = "r1" => host.pc = "r0" /\ host'.got[1] = c.hold[1]
      BY <1>1, <2>2 DEF EeMoved, EeMoves, EeLoading, EeRunning
    <3>2. host.pc = "r0" => clk.core.hold = core.h_hold
      BY <1>1, EePlace DEF EeHands, EePort
    <3> QED BY <3>1, <3>2 DEF EeSteps, EeLeaves
  <2> QED BY <2>1, <2>2 DEF EeSteps
<1> QED BY <1>1, <1>2, <1>3, <1>4 DEF EePort

\* What the board's side of the status is after an edge of sys.
LEMMA EeSysHold ==
  ASSUME EeInv, NEW s, NEW c, EeSteps(s, c)
  PROVE  /\ sys.tog[2] = sys.tog_d => s.hold = sys.hold
         /\ sys.tog[2] # sys.tog_d => s.hold = core.snap /\ clk.core.snap = core.snap
<1>1. EeTypes /\ Announced(sys, core, clk)
  BY DEF EeInv, EeWhole
<1>2. sys.tog[2] # sys.tog_d => clk.core.snap = core.snap
  BY <1>1, EeBits DEF Announced
<1>3. s.hold = <<s.hold[1], s.hold[2]>> /\ core.snap = <<core.snap[1], core.snap[2]>>
  BY <1>1 DEF EeSteps, EeTypes, EeSys, EeCore
<1> QED BY <1>2, <1>3 DEF EeSteps, EeLeaves

LEMMA EeSysWhole ==
  ASSUME EeInv, NEW s, NEW c, EeSteps(s, c)
  PROVE  EeWhole'
<1>1. EeTypes /\ EeWhole /\ Announced(sys, core, clk)
  BY DEF EeInv, EeWhole
<1>2. core' = core /\ clk'.core.tog = core.tog /\ clk'.core.snap = core.snap /\ clk'.ahead = 0
  BY DEF EeSteps, EeTicks
<1>3. /\ sys'.tog[1] \in {clk.core.tog, core.tog} /\ sys'.tog[2] = sys.tog[1]
      /\ sys'.tog_d = sys.tog[2] /\ sys'.hold = s.hold
  BY EeSysReq
<1>4. /\ sys.tog[2] = sys.tog_d => s.hold = sys.hold
      /\ sys.tog[2] # sys.tog_d => s.hold = core.snap /\ clk.core.snap = core.snap
  BY EeSysHold
<1>5. Announced(sys', core, clk')
  <2>1. /\ core.cnt \in 0 .. Period - 1 /\ clk.ahead \in 0 .. Lead
        /\ core.tog \in BOOLEAN /\ clk.core.tog \in BOOLEAN /\ sys.tog_d \in BOOLEAN
        /\ sys.tog[1] \in BOOLEAN /\ sys.tog[2] \in BOOLEAN
    BY <1>1, EeValues, EeBits
  <2>2. /\ sys.tog[2] = sys.tog_d => sys'.hold = sys.hold
        /\ sys.tog[2] # sys.tog_d /\ clk.core.snap = core.snap => sys'.hold = core.snap
    BY <1>3, <1>4
  <2>3. PICK s1, k1 : s1 = sys' /\ k1 = clk'
    OBVIOUS
  <2>4. Announced(s1, core, k1)
    BY <1>1, <1>2, <1>3, <2>1, <2>2, <2>3, AnnouncedBack
  <2> QED BY <2>3, <2>4
<1>6. sys'.hold[1][2] = sys'.hold[2]
  BY <1>1, <1>3, <1>4 DEF EeWhole
<1>7. Announced(sys, core, clk)'
  BY <1>2, <1>5 DEF Announced, Turn
<1> QED BY <1>1, <1>2, <1>6, <1>7 DEF EeWhole

LEMMA EeSysParks ==
  ASSUME EeInv, NEW s, NEW c, EeSteps(s, c)
  PROVE  EeParks'
<1>1. EeParks /\ host.pc \in EeLoading \cup EeRunning /\ core.retires \in 0 .. Park
  BY EeValues DEF EeInv
<1>2. core' = core /\ clk'.sys.reset = sys.reset
  BY DEF EeSteps, EeTicks
<1>3. CASE EeQuiet(s)
  BY <1>1, <1>2, <1>3 DEF EeParks, EeSteps, EeLeaves, EeQuiet
<1>4. CASE EeMoved(s, c)
  <2>1. EeMoves(s, c)
    BY <1>4 DEF EeMoved
  <2>2. CASE host.pc = "access"
    BY <1>1, <1>2, <2>1, <2>2, Periods DEF EeParks, EeMoves
  <2>3. CASE host.pc \in EeLoading \ {"access"}
    BY <1>1, <1>2, <2>1, <2>3 DEF EeParks, EeMoves, EeLoading
  <2>4. CASE host.pc = "sleep"
    <3>1. host.slept = Ee!Slept /\ host'.pc = "sel" /\ sys'.reset = sys.reset
      BY <2>1, <2>4 DEF EeMoves
    <3>4. host.slept >= 1 /\ host.slept >= 2 /\ host.slept >= 3
      BY <3>1, Periods DEF Ee!Slept
    <3>2. host.slept > 3 /\ (core.retires = Park \/ host.slept > 3 + core.retires)
      BY <1>1, <3>1, Periods DEF Ee!Slept
    <3>3. core.retires = Park
      BY <1>1, <2>4, <3>2, Periods, EeValues DEF EeParks, EeInv
    <3> QED BY <1>1, <1>2, <2>4, <3>1, <3>3, <3>4 DEF EeParks
  <2>5. CASE host.pc \in EeRunning \ {"sleep"}
    BY <1>1, <1>2, <2>1, <2>5 DEF EeParks, EeMoves, EeRunning
  <2> QED BY <1>1, <2>2, <2>3, <2>4, <2>5
<1> QED BY <1>3, <1>4 DEF EeSteps

\* The registers read, and one more.
LEMMA EeReadOn ==
  ASSUME NEW regs, NEW n \in Nat, regs = [i \in 1 .. n |-> <<i, Park>>]
  PROVE  WithReg(regs, n + 1, Park) = [i \in 1 .. n + 1 |-> <<i, Park>>]
<1>1. regs \in Seq(Nat \X Nat) /\ Len(regs) = n
  <2>1. regs \in [1 .. n -> Nat \X Nat]
    BY Periods
  <2>2. regs \in Seq(Nat \X Nat)
    BY <2>1, SeqDef
  <2> QED BY <2>1, <2>2, LenProperties
<1>2. PICK e \in Nat \X Nat : e = <<n + 1, Park>>
  <2>1. <<n + 1, Park>> \in Nat \X Nat
    BY Periods
  <2> QED BY <2>1
<1>3. /\ Append(regs, e) \in Seq(Nat \X Nat) /\ Len(Append(regs, e)) = n + 1
      /\ \A i \in 1 .. n : Append(regs, e)[i] = regs[i]
      /\ Append(regs, e)[n + 1] = e
  BY <1>1, <1>2, AppendProperties
<1>4. PICK f : f = Append(regs, e)
  OBVIOUS
<1>5. DOMAIN f = 1 .. n + 1 /\ f = [i \in DOMAIN f |-> f[i]]
  BY <1>3, <1>4, LenProperties
<1>6. \A i \in 1 .. n + 1 : f[i] = <<i, Park>>
  BY <1>2, <1>3, <1>4
<1> QED BY <1>2, <1>4, <1>5, <1>6 DEF WithReg

LEMMA EeSysSelects ==
  ASSUME EeInv, NEW s, NEW c, EeSteps(s, c)
  PROVE  EeSelects'
<1>1. /\ EeSelects /\ EeTypes /\ host.pc \in EeLoading \cup EeRunning /\ host.reg \in Nat
      /\ core.cnt \in 0 .. Period - 1
  BY EeValues DEF EeInv
<1>2. core' = core /\ clk'.core.snap = core.snap /\ clk'.sys.sel = sys.sel
  BY DEF EeSteps, EeTicks
<1>3. s.hold = sys.hold \/ s.hold = core.snap
  BY EeSysHold
<1>4. sys'.hold = s.hold
  BY EeSysReq
<1>5. (Since(core))' = Since(core)
  BY <1>2 DEF Since
<1>6. CASE EeQuiet(s)
  <2>1. host' = host /\ sys'.sel = sys.sel /\ EeGood' = EeGood
    BY <1>6 DEF EeQuiet, EeSteps, EeLeaves, EeGood
  <2>2. Since(core) \in Nat /\ host.slept \in Nat /\ Period \in Nat
    BY <1>1, Periods DEF Since, EeTypes, EeHost
  <2>3. host.pc = "settle" /\ sys'.hold # EeGood => host.slept <= 3 + Period + Since(core)
    BY <1>1, <1>3, <1>4, <2>2 DEF EeSelects
  <2>4. host.pc = "g1" => sys'.hold = EeGood
    BY <1>1, <1>3, <1>4 DEF EeSelects
  <2> QED BY <1>1, <1>2, <1>5, <2>1, <2>3, <2>4 DEF EeSelects
<1>7. CASE EeMoved(s, c)
  <2>1. EeMoves(s, c)
    BY <1>7 DEF EeMoved
  <2>2. CASE host.pc \in EeLoading \cup {"sleep"}
    <3>1. /\ host'.pc \in EeLoading \cup {"sleep", "sel"}
          /\ host'.reg = host.reg /\ host'.regs = host.regs
      BY <2>1, <2>2 DEF EeMoves, EeLoading
    <3>2. host'.pc \notin {"settle", "g1", "end"}
      BY <3>1 DEF EeLoading
    <3>3. host.reg = 0 /\ host.reg <= Regs /\ host.regs = [i \in 1 .. host.reg |-> <<i, Park>>]
      BY <1>1, <2>2 DEF EeSelects
    <3> QED BY <3>1, <3>2, <3>3 DEF EeSelects
  <2>3. CASE host.pc = "sel"
    <3>1. /\ host'.reg = host.reg /\ host'.regs = host.regs
          /\ \/ /\ host.reg < Regs /\ host'.pc = "settle" /\ host'.slept = 0
                /\ sys'.sel = host.reg + 1
             \/ host.reg = Regs /\ host'.pc = "end"
      BY <2>1, <2>3 DEF EeMoves
    <3>2. Since(core) \in Nat
      BY <1>1, Periods DEF Since
    <3>3. host'.pc \notin EeLoading \cup {"sleep", "g1"}
      BY <3>1 DEF EeLoading
    <3>4. 0 <= 3 + Since(core) /\ 0 <= 3 + Period + Since(core)
      BY <3>2, Periods
    <3> QED BY <1>1, <1>5, <2>3, <3>1, <3>3, <3>4 DEF EeSelects
  <2>4. CASE host.pc = "settle"
    <3>1. /\ host.slept = Ee!Slept /\ host'.pc = "g1" /\ host'.got[1] = s.hold[1][1]
          /\ host'.reg = host.reg /\ host'.regs = host.regs /\ sys'.sel = sys.sel
      BY <2>1, <2>4 DEF EeMoves
    <3>2. host.slept > 3 + Since(core) /\ host.slept > 3 + Period + Since(core) /\ host.slept >= 3
      BY <1>1, <3>1, Periods DEF Since, Ee!Slept
    <3>3. core.snap = EeGood /\ sys.hold = EeGood
      <4>1. Since(core) \in Nat /\ host.slept \in Nat /\ Period \in Nat
        BY <1>1, <3>1, Periods DEF Since, Ee!Slept
      <4>2. core.snap # EeGood => host.slept <= 3 + Since(core)
        BY <1>1, <2>4 DEF EeSelects
      <4>3. sys.hold # EeGood => host.slept <= 3 + Period + Since(core)
        BY <1>1, <2>4 DEF EeSelects
      <4> QED BY <3>2, <4>1, <4>2, <4>3
    <3>4. clk.sys.sel = sys.sel /\ core.sel[1] = sys.sel /\ core.sel[2] = sys.sel
          /\ sys.sel = host.reg + 1 /\ host.reg < Regs
      <4>1. host.slept >= 1 /\ host.slept >= 2 /\ host.slept >= 3
        BY <1>1, <3>1, Periods DEF Ee!Slept
      <4> QED BY <1>1, <2>4, <4>1 DEF EeSelects
    <3>5. EeGood' = EeGood /\ s.hold = EeGood /\ s.hold[1][1] = host.reg + 1
      BY <1>1, <1>3, <3>1, <3>3 DEF EeGood
    <3>6. host'.pc \notin EeLoading \cup {"sleep", "settle", "end"}
      BY <3>1 DEF EeLoading
    <3> QED BY <1>1, <1>2, <1>4, <3>1, <3>3, <3>4, <3>5, <3>6 DEF EeSelects
  <2>5. CASE host.pc = "g1"
    <3>1. /\ host'.pc = "sel" /\ host'.reg = host.reg + 1
          /\ host'.regs = WithReg(host.regs, host.got[1], s.hold[1][2])
      BY <2>1, <2>5 DEF EeMoves
    <3>2. host.got[1] = host.reg + 1 /\ sys.hold = EeGood /\ core.snap = EeGood /\ host.reg < Regs
          /\ host.regs = [i \in 1 .. host.reg |-> <<i, Park>>]
      BY <1>1, <2>5 DEF EeSelects
    <3>3. s.hold[1][2] = Park
      BY <1>1, <1>3, <3>2 DEF EeGood
    <3>4. host'.regs = [i \in 1 .. host'.reg |-> <<i, Park>>]
      BY <1>1, <3>1, <3>2, <3>3, EeReadOn
    <3>5. host'.reg <= Regs
      BY <1>1, <3>1, <3>2, PortsFit DEF Ee!BoardEeAssumption
    <3>6. host'.pc \notin EeLoading \cup {"sleep", "settle", "g1", "end"}
      BY <3>1 DEF EeLoading
    <3> QED BY <3>4, <3>5, <3>6 DEF EeSelects
  <2>6. CASE host.pc = "end"
    BY <2>1, <2>6 DEF EeMoves
  <2> QED BY <1>1, <2>2, <2>3, <2>4, <2>5, <2>6 DEF EeRunning
<1> QED BY <1>6, <1>7 DEF EeSteps

LEMMA EeSysInv == EeInv /\ Ee!SysEdge => EeInv'
<1> SUFFICES ASSUME EeInv, Ee!SysEdge PROVE EeInv'
  OBVIOUS
<1>1. EeTypes'
  BY EeSysDoes
<1>2. PICK s, c : EeSteps(s, c)
  BY EeSysDoes
<1>3. EeHeld' /\ EeHands'
  BY <1>1, <1>2, EeSysHeld, EeSysHands
<1>4. EeAsked' /\ EePort'
  BY <1>2, EeSysAsked, EeSysPort
<1>5. EeWhole' /\ EeParks' /\ EeSelects'
  BY <1>2, EeSysWhole, EeSysParks, EeSysSelects
<1> QED BY <1>1, <1>3, <1>4, <1>5 DEF EeInv

-----------------------------------------------------------------------------
(* The invariant over an edge of the core. *)

EeCounts ==
    /\ EeClocks /\ EeDozes /\ EeTicks /\ sys' = sys
    /\ clk.ahead < Lead /\ clk'.ahead = clk.ahead + 1 /\ clk'.fresh = TRUE

LEMMA EeCoreTypes == EeTypes /\ EeCounts => EeTypes'
  BY DEF EeTypes, EeCounts, EeClocks, EeDozes, EeTicks

LEMMA EeCoreHands ==
  ASSUME EeTypes, EeHands, EeCounts
  PROVE  EeHands'
<1>1. /\ sys.req \in BOOLEAN /\ clk.sys.req \in BOOLEAN /\ core.req[1] \in BOOLEAN
      /\ core.req[2] \in BOOLEAN /\ core.ack \in BOOLEAN /\ clk.core.ack \in BOOLEAN
      /\ sys.ack[1] \in BOOLEAN /\ sys.ack[2] \in BOOLEAN
  BY EeBits
<1>2. PICK c1, e1 : /\ c1 = core'.req[1] /\ c1 \in {clk.sys.req, sys.req}
                    /\ e1 = core'.ack /\ e1 \in {core.ack, core.req[2]}
  BY DEF EeCounts, EeClocks, EeTakes, EeGives, EeRests
<1>3. Passing(sys.req, clk.sys.req, core.req[1], core.req[2],
              core.ack, clk.core.ack, sys.ack[1], sys.ack[2])
  BY DEF EeHands
<1>4. Passing(sys.req, sys.req, c1, core.req[1], e1, core.ack, sys.ack[1], sys.ack[2])
  BY <1>1, <1>2, <1>3 DEF Passing
<1>5. /\ sys' = sys /\ clk'.sys.req = sys.req /\ clk'.core.ack = core.ack
      /\ core'.req[2] = core.req[1] /\ host'.pc = host.pc
  BY DEF EeCounts, EeTicks, EeClocks, EeDozes
<1> QED BY <1>2, <1>4, <1>5 DEF EeHands

LEMMA EeCoreAsked ==
  ASSUME EeHeld, EeAsked, EeCounts
  PROVE  EeHeld' /\ EeAsked'
<1>1. /\ sys' = sys /\ clk'.sys.addr = sys.addr /\ clk'.sys.we = sys.we /\ clk'.sys.w = sys.w
      /\ clk'.sys.reset = sys.reset
      /\ host'.pc = host.pc /\ host'.n = host.n /\ host'.call = host.call
  BY DEF EeCounts, EeTicks, EeDozes
<1>2. core'.rst[1] \in {clk.sys.reset, sys.reset} /\ core'.rst[2] = core.rst[1]
  BY DEF EeCounts, EeClocks
<1>3. EeHeld'
  BY <1>1, <1>2 DEF EeHeld
<1>4. EeAsked'
  BY <1>1 DEF EeAsked
<1> QED BY <1>3, <1>4

\* What the memory does with the line asked for.
LEMMA EeAnswers ==
  ASSUME EeInv, EeCounts, host.pc = "wait"
  PROVE  /\ core.h_we = FALSE => core'.mem = core.mem
         /\ core.h_we = TRUE => core'.mem = [core.mem EXCEPT ![sys.addr] = sys.w]
         /\ core'.rdata = core.mem[sys.addr]
<1>1. /\ EeTypes /\ core.rst[2] = TRUE /\ clk.sys.addr = sys.addr /\ clk.sys.w = sys.w
  BY DEF EeInv, EeHeld, EeAsked, EeLoading
<1>2. PICK addr, w : EeMemory(addr, w)
  BY DEF EeCounts, EeClocks
<1>3. addr = sys.addr /\ w[1] = sys.w[1] /\ w[2] = sys.w[2] /\ w \in Pair /\ sys.w \in Pair
  BY <1>1, <1>2 DEF EeMemory, EeTypes, EeSys
<1>4. w = sys.w
  BY <1>3 DEF Pair
<1>5. core'.rdata = core.mem[sys.addr] /\ core'.mem = EeWrote(sys.addr, sys.w)
  BY <1>1, <1>2, <1>3, <1>4 DEF EeMemory
<1> QED BY <1>5 DEF EeWrote

LEMMA EeCorePort ==
  ASSUME EeInv, EeCounts
  PROVE  EePort'
<1>1. EeTypes /\ EeHands /\ EePort /\ EeAsked
  BY DEF EeInv
<1>2. /\ sys' = sys /\ clk'.core.ack = core.ack /\ clk'.core.hold = core.h_hold
      /\ core'.req[2] = core.req[1] /\ host'.pc = host.pc /\ host'.got = host.got
  BY DEF EeCounts, EeTicks, EeClocks, EeDozes
<1>3. CASE EeTakes
  <2>1. /\ host.pc = "wait" /\ core.req[1] = core.req[2]
    BY <1>1, <1>3, EePlace DEF EeTakes
  <2>2. core'.h_we = sys.we
    BY <1>1, <1>3, <2>1 DEF EeTakes, EeAsked
  <2>3. core.h_we = FALSE
    BY <1>1, <1>3 DEF EeTakes, EePort
  <2>4. core'.rdata = core.mem[sys.addr] /\ core'.mem = core.mem
    BY <2>1, <2>3, EeAnswers
  <2> QED BY <1>1, <1>2, <1>3, <2>1, <2>2, <2>4 DEF EePort, EeTakes
<1>4. CASE EeGives
  <2>1. core.req[2] # core.ack
    BY <1>1, <1>4 DEF EeGives, EePort
  <2>2. host.pc # "r1"
    BY <1>1, <2>1, EePlace
  <2> QED BY <1>2, <1>4, <2>1, <2>2 DEF EePort, EeGives
<1>5. CASE EeRests
  BY <1>1, <1>2, <1>5 DEF EePort, EeRests
<1> QED BY <1>3, <1>4, <1>5 DEF EeCounts, EeClocks

LEMMA EeCoreWhole ==
  ASSUME EeTypes, EeWhole, EeCounts
  PROVE  EeWhole'
<1>1. Announced(sys, core, clk) /\ sys' = sys
  BY DEF EeWhole, EeCounts
<1>2. /\ clk'.core.tog = core.tog /\ clk'.core.snap = core.snap /\ clk'.ahead = clk.ahead + 1
      /\ clk.ahead < Lead
  BY DEF EeCounts, EeTicks
<1>3. /\ core'.cnt = (core.cnt + 1) % Period
      /\ core'.snap = IF core.cnt = 0 THEN <<<<core.sel[2], core.retires>>, core.retires>> ELSE core.snap
      /\ core'.tog = IF core.cnt = 1 THEN ~core.tog ELSE core.tog
  BY DEF EeCounts, EeClocks
<1>4. /\ core.cnt \in 0 .. Period - 1 /\ clk.ahead \in 0 .. Lead
      /\ core.tog \in BOOLEAN /\ clk.core.tog \in BOOLEAN /\ sys.tog_d \in BOOLEAN
      /\ sys.tog[1] \in BOOLEAN /\ sys.tog[2] \in BOOLEAN
  BY EeValues, EeBits
<1>5. PICK c1, k1, now : /\ c1 = core' /\ k1 = clk'
                         /\ now = <<<<core.sel[2], core.retires>>, core.retires>>
  OBVIOUS
<1>6. /\ c1.cnt = (core.cnt + 1) % Period /\ c1.snap = IF core.cnt = 0 THEN now ELSE core.snap
      /\ c1.tog = IF core.cnt = 1 THEN ~core.tog ELSE core.tog
      /\ k1.core.tog = core.tog /\ k1.core.snap = core.snap /\ k1.ahead = clk.ahead + 1
  BY <1>2, <1>3, <1>5
<1>7. Announced(sys, c1, k1)
  BY <1>1, <1>2, <1>4, <1>6, AnnouncedOver
<1>8. Announced(sys, core, clk)'
  BY <1>1, <1>5, <1>7 DEF Announced, Turn
<1>9. core'.snap[1][2] = core'.snap[2] /\ clk'.core.snap[1][2] = clk'.core.snap[2]
  BY <1>2, <1>3 DEF EeWhole
<1> QED BY <1>1, <1>8, <1>9 DEF EeWhole

LEMMA EeCoreParks ==
  ASSUME EeTypes, EeHeld, EeParks, EeCounts
  PROVE  EeParks'
<1>1. /\ sys' = sys /\ clk'.sys.reset = sys.reset /\ host'.pc = host.pc
      /\ core'.rst[1] \in {clk.sys.reset, sys.reset} /\ core'.rst[2] = core.rst[1]
      /\ host'.slept = IF host.slept < Ee!Slept /\ host.pc \in {"sleep", "settle"}
                       THEN host.slept + 1 ELSE host.slept
  BY DEF EeCounts, EeTicks, EeDozes, EeClocks
<1>2. /\ core.retires \in 0 .. Park /\ core'.retires \in 0 .. Park /\ host.slept \in 0 .. Ee!Slept
      /\ Ee!Slept \in Nat
  <2>1. core'.retires \in 0 .. Park
    BY DEF EeCounts, EeClocks, EeCore
  <2> QED BY <2>1, EeValues, Periods DEF Ee!Slept
<1>3. core.rst[2] = FALSE =>
         core'.retires = IF core.retires < Park THEN core.retires + 1 ELSE core.retires
  BY DEF EeCounts, EeClocks, EeMemory
<1>4. CASE host.pc = "sleep"
  <2>1. /\ sys.reset = FALSE
        /\ host.slept >= 1 => clk.sys.reset = FALSE
        /\ host.slept >= 2 => core.rst[1] = FALSE
        /\ host.slept >= 3 => core.rst[2] = FALSE
        /\ core.retires = Park \/ host.slept <= 3 + core.retires
    BY <1>4 DEF EeParks
  <2>2. /\ host'.slept >= 2 => core'.rst[1] = FALSE
        /\ host'.slept >= 3 => core'.rst[2] = FALSE
    <3>1. Ee!Slept >= 3
      BY Periods DEF Ee!Slept
    <3>2. /\ host'.slept >= 2 => host.slept >= 1
          /\ host'.slept >= 3 => host.slept >= 2
      BY <1>1, <1>2, <3>1
    <3> QED BY <1>1, <2>1, <3>2
  <2>3. core'.retires = Park \/ host'.slept <= 3 + core'.retires
    <3>1. CASE host.slept < 3
      BY <1>1, <1>2, <3>1, Periods
    <3>2. CASE host.slept >= 3
      <4>1. core'.retires = IF core.retires < Park THEN core.retires + 1 ELSE core.retires
        BY <1>3, <2>1, <3>2
      <4> QED BY <1>1, <1>2, <2>1, <4>1, Periods
    <3> QED BY <1>2, <3>1, <3>2
  <2> QED BY <1>1, <1>4, <2>1, <2>2, <2>3 DEF EeParks
<1>5. CASE host.pc \in {"sel", "settle", "g1"}
  <2>1. /\ sys.reset = FALSE /\ clk.sys.reset = FALSE /\ core.rst[1] = FALSE /\ core.rst[2] = FALSE
        /\ core.retires = Park
    BY <1>5 DEF EeParks
  <2>2. core'.retires = Park
    BY <1>3, <2>1, Periods
  <2> QED BY <1>1, <1>5, <2>1, <2>2 DEF EeParks
<1>6. CASE host.pc \notin {"sleep", "sel", "settle", "g1"}
  BY <1>1, <1>6 DEF EeParks
<1> QED BY <1>4, <1>5, <1>6

LEMMA EeCoreSelects ==
  ASSUME EeInv, EeCounts
  PROVE  EeSelects'
<1>1. /\ EeTypes /\ EeSelects /\ EeParks /\ EeWhole
  BY DEF EeInv
<1>2. /\ sys' = sys /\ clk'.sys.sel = sys.sel /\ clk'.core.snap = core.snap
      /\ host'.pc = host.pc /\ host'.reg = host.reg /\ host'.regs = host.regs /\ host'.got = host.got
      /\ core'.sel[1] \in {clk.sys.sel, sys.sel} /\ core'.sel[2] = core.sel[1]
      /\ host'.slept = IF host.slept < Ee!Slept /\ host.pc \in {"sleep", "settle"}
                       THEN host.slept + 1 ELSE host.slept
      /\ core'.cnt = (core.cnt + 1) % Period
      /\ core'.snap = IF core.cnt = 0 THEN <<<<core.sel[2], core.retires>>, core.retires>> ELSE core.snap
  BY DEF EeCounts, EeTicks, EeDozes, EeClocks
<1>3. /\ core.cnt \in 0 .. Period - 1 /\ host.slept \in 0 .. Ee!Slept /\ Ee!Slept \in Nat
      /\ host.reg \in Nat
  BY <1>1, EeValues, Periods DEF Ee!Slept
<1>4. EeGood' = EeGood
  BY <1>2 DEF EeGood
<1>5. CASE host.pc = "settle"
  <2>1. /\ sys.sel = host.reg + 1 /\ host.reg < Regs
        /\ host.slept >= 1 => clk.sys.sel = sys.sel
        /\ host.slept >= 2 => core.sel[1] = sys.sel
        /\ host.slept >= 3 => core.sel[2] = sys.sel
        /\ core.snap # EeGood => host.slept <= 3 + Since(core)
        /\ sys.hold # EeGood => host.slept <= 3 + Period + Since(core)
        /\ host.regs = [i \in 1 .. host.reg |-> <<i, Park>>] /\ host.reg <= Regs
    BY <1>1, <1>5 DEF EeSelects
  <2>2. core.retires = Park
    BY <1>1, <1>5 DEF EeParks
  <2>3. /\ host'.slept >= 2 => core'.sel[1] = sys.sel
        /\ host'.slept >= 3 => core'.sel[2] = sys.sel
    <3>1. Ee!Slept >= 3
      BY Periods DEF Ee!Slept
    <3>2. /\ host'.slept >= 2 => host.slept >= 1
          /\ host'.slept >= 3 => host.slept >= 2
      BY <1>2, <1>3, <3>1
    <3> QED BY <1>2, <2>1, <3>2
  <2>4. host'.slept >= 1 => clk'.sys.sel = sys.sel
    BY <1>2
  <2>5. host'.slept \in Nat /\ host'.slept <= host.slept + 1
    BY <1>2, <1>3
  <2>6. core'.cnt = IF core.cnt = Period - 1 THEN 0 ELSE core.cnt + 1
    BY <1>2, <1>3, Periods
  <2>7. CASE core.cnt = 0
    <3>1. Since(core) = Period - 1 /\ Since(core') = 0
      BY <2>6, <2>7, Periods DEF Since
    <3>2. core'.snap # EeGood => host'.slept <= 3 + Since(core')
      <4>1. core'.snap # EeGood => core.sel[2] # sys.sel
        BY <1>2, <2>1, <2>2, <2>7 DEF EeGood
      <4>2. core.sel[2] # sys.sel => host.slept < 3
        BY <1>3, <2>1
      <4> QED BY <1>3, <2>5, <3>1, <4>1, <4>2
    <3>3. sys.hold # EeGood => host'.slept <= 3 + Period + Since(core')
      <4>1. Turn(core) = Period - 2
        BY <2>7, Periods DEF Turn
      <4>2. core.tog = sys.tog_d
        <5>1. core.tog # sys.tog_d => Turn(core) <= (2 * Lead) + clk.ahead
          BY <1>1 DEF EeWhole, Announced
        <5>2. clk.ahead < Lead /\ clk.ahead \in 0 .. Lead
          BY <1>1, EeValues DEF EeCounts
        <5> QED BY <4>1, <5>1, <5>2, Periods
      <4>3. sys.hold = core.snap
        BY <1>1, <2>7, <4>2 DEF EeWhole, Announced
      <4>4. sys.hold # EeGood => host.slept <= 3 + Since(core)
        BY <2>1, <4>3
      <4> QED BY <1>3, <2>5, <3>1, <4>4, Periods
    <3>4. (Since(core))' = Since(core')
      BY DEF Since
    <3> QED BY <1>2, <1>4, <1>5, <2>1, <2>3, <2>4, <3>2, <3>3, <3>4 DEF EeSelects, EeLoading
  <2>8. CASE core.cnt # 0
    <3>1. Since(core) \in Nat /\ Since(core') = Since(core) + 1
      BY <1>3, <2>6, <2>8, Periods DEF Since
    <3>2. core'.snap # EeGood => host'.slept <= 3 + Since(core')
      BY <1>2, <1>3, <2>1, <2>5, <2>8, <3>1
    <3>3. sys.hold # EeGood => host'.slept <= 3 + Period + Since(core')
      BY <1>3, <2>1, <2>5, <3>1, Periods
    <3>4. (Since(core))' = Since(core')
      BY DEF Since
    <3> QED BY <1>2, <1>4, <1>5, <2>1, <2>3, <2>4, <3>2, <3>3, <3>4 DEF EeSelects, EeLoading
  <2> QED BY <2>7, <2>8
<1>6. CASE host.pc = "g1"
  <2>1. /\ clk.sys.sel = sys.sel /\ core.sel[1] = sys.sel /\ core.sel[2] = sys.sel
        /\ sys.sel = host.reg + 1 /\ core.snap = EeGood
    BY <1>1, <1>6 DEF EeSelects
  <2>2. core'.snap = EeGood
    BY <1>1, <1>2, <1>6, <2>1 DEF EeParks, EeGood
  <2>3. core'.sel[1] = sys.sel /\ core'.sel[2] = sys.sel
    BY <1>2, <2>1
  <2> QED BY <1>1, <1>2, <1>4, <1>6, <2>1, <2>2, <2>3 DEF EeSelects, EeLoading
<1>7. CASE host.pc \notin {"settle", "g1"}
  BY <1>1, <1>2, <1>7 DEF EeSelects
<1> QED BY <1>5, <1>6, <1>7

LEMMA EeCoreInv == EeInv /\ Ee!CoreEdge => EeInv'
<1> SUFFICES ASSUME EeInv, Ee!CoreEdge PROVE EeInv'
  OBVIOUS
<1>1. EeTypes /\ EeHeld /\ EeHands /\ EeAsked /\ EeWhole /\ EeParks
  BY DEF EeInv
<1>2. EeCounts
  BY <1>1, EeCoreStep DEF EeCounts
<1>3. EeTypes' /\ EeHands'
  BY <1>1, <1>2, EeCoreTypes, EeCoreHands
<1>4. EeHeld' /\ EeAsked' /\ EePort'
  BY <1>1, <1>2, EeCoreAsked, EeCorePort
<1>5. EeWhole' /\ EeParks' /\ EeSelects'
  BY <1>1, <1>2, EeCoreWhole, EeCoreParks, EeCoreSelects
<1> QED BY <1>3, <1>4, <1>5 DEF EeInv

LEMMA EeStarts == Ee!Init => EeInv
<1> SUFFICES ASSUME Ee!Init PROVE EeInv
  OBVIOUS
<1>1. /\ Ee!Slept \in Nat /\ 0 \in EeLines /\ Regs \in Nat
  BY Periods, PortsFit DEF Ee!Slept, Ee!BoardEeAssumption
<1>2. /\ sys  = [reset |-> TRUE, addr |-> 0, we |-> FALSE, w |-> <<0, 0>>,
                 req |-> FALSE, ack |-> <<FALSE, FALSE>>, sel |-> 0, tog |-> <<FALSE, FALSE>>,
                 tog_d |-> FALSE, hold |-> <<<<0, 0>>, 0>>]
      /\ core = [rst |-> <<TRUE, TRUE>>, req |-> <<FALSE, FALSE>>, ack |-> FALSE,
                 pend |-> FALSE, h_we |-> FALSE, h_hold |-> <<0, 0>>,
                 rdata |-> <<0, 0>>, mem |-> [a \in EeLines |-> <<0, 0>>],
                 sel |-> <<0, 0>>, cnt |-> 0, tog |-> FALSE,
                 snap |-> <<<<0, 0>>, 0>>, retires |-> 0]
      /\ host = [pc |-> "reset", n |-> 0, call |-> None, told |-> None,
                 got |-> <<0, 0>>, reg |-> 0, regs |-> <<>>, slept |-> 0]
  BY DEF Ee!Init, Ee!Line, Ee!Flops
<1>3. PICK a, b : /\ a = [reset |-> TRUE, req |-> FALSE, we |-> FALSE, addr |-> 0, w |-> <<0, 0>>, sel |-> 0]
                  /\ b = [ack |-> FALSE, hold |-> <<0, 0>>, tog |-> FALSE, snap |-> <<<<0, 0>>, 0>>]
                  /\ clk = [sys |-> a, core |-> b, ahead |-> 0, fresh |-> FALSE]
  <2>1. Ee!SysOut = [reset |-> TRUE, req |-> FALSE, we |-> FALSE, addr |-> 0, w |-> <<0, 0>>, sel |-> 0]
    BY <1>2 DEF Ee!SysOut
  <2>2. Ee!CoreOut = [ack |-> FALSE, hold |-> <<0, 0>>, tog |-> FALSE, snap |-> <<<<0, 0>>, 0>>]
    BY <1>2 DEF Ee!CoreOut
  <2>3. clk = [sys |-> Ee!SysOut, core |-> Ee!CoreOut, ahead |-> 0, fresh |-> FALSE]
    BY DEF Ee!Init
  <2> QED BY <2>1, <2>2, <2>3
<1>4. EeTypes
  <2>1. sys \in EeSys
    BY <1>1, <1>2 DEF EeSys, Pair, Bits
  <2>2. core \in EeCore
    <3>1. /\ <<TRUE, TRUE>> \in Bits /\ <<FALSE, FALSE>> \in Bits /\ <<0, 0>> \in Pair
          /\ <<<<0, 0>>, 0>> \in Pair \X Nat /\ 0 \in 0 .. Park /\ 0 \in 0 .. Period - 1
      <4>1. <<TRUE, TRUE>> \in Bits /\ <<FALSE, FALSE>> \in Bits
        BY DEF Bits
      <4>2. <<0, 0>> \in Pair /\ <<<<0, 0>>, 0>> \in Pair \X Nat
        BY DEF Pair
      <4>3. 0 \in 0 .. Park /\ 0 \in 0 .. Period - 1
        BY Periods
      <4> QED BY <4>1, <4>2, <4>3
    <3>2. PICK m \in [EeLines -> Pair] : m = [l \in EeLines |-> <<0, 0>>]
      BY <3>1
    <3> QED BY <1>2, <3>1, <3>2 DEF EeCore
  <2>3. host \in EeHost
    <3>1. <<>> \in Seq(Pair) /\ <<0, 0>> \in Pair
      BY DEF Pair
    <3> QED BY <1>1, <1>2, <3>1 DEF EeHost, EeLoading, EeRunning
  <2>4. b \in [ack : BOOLEAN, hold : Pair, tog : BOOLEAN, snap : Pair \X Nat]
    BY <1>3 DEF Pair
  <2>5. a \in [reset : BOOLEAN, req : BOOLEAN, we : BOOLEAN, addr : EeLines, w : Pair, sel : Nat]
    BY <1>1, <1>3 DEF Pair
  <2>6. clk \in EeClk
    BY <1>3, <2>4, <2>5, Periods DEF EeClk
  <2> QED BY <2>1, <2>2, <2>3, <2>6 DEF EeTypes
<1>5. EeHeld /\ EeHands
  BY <1>2, <1>3 DEF EeHeld, EeHands, Passing
<1>6. EeAsked /\ EePort
  BY <1>2, <1>3 DEF EeAsked, EePort
<1>7. EeWhole
  BY <1>2, <1>3, Periods DEF EeWhole, Announced, Turn
<1>8. EeParks
  BY <1>2 DEF EeParks
<1>9. EeSelects
  <2>1. host.pc = "reset" /\ host.reg = 0 /\ host.regs = <<>>
    BY <1>2
  <2>2. <<>> = [i \in 1 .. 0 |-> <<i, Park>>]
    OBVIOUS
  <2> QED BY <1>1, <2>1, <2>2 DEF EeSelects
<1> QED BY <1>4, <1>5, <1>6, <1>7, <1>8, <1>9 DEF EeInv

-----------------------------------------------------------------------------
(* An edge of the EE board is a step of the port, or none. *)

LEMMA Apart ==
  /\ None \notin Port!Operation /\ None \notin Port!Reply
  BY NoneApart

LEMMA EeCallIs ==
  ASSUME NEW we \in BOOLEAN, NEW a \in EeLines, NEW n \in Nat, NEW o,
         o = [op |-> IF we = TRUE THEN "write" ELSE "read", addr |-> <<"line", a>>,
              data |-> IF we = TRUE THEN <<n + 1, n + 1>> ELSE <<>>]
  PROVE  o \in Port!Operation /\ o # None
<1>1. <<"line", a>> \in {"gif", "word", "line", "beat"} \X Nat
  BY PortsFit DEF Ee!BoardEeAssumption
<1>2. <<n + 1, n + 1>> \in Port!Reply /\ <<>> \in Port!Reply
  BY DEF Port!Reply
<1>3. o \in Port!Operation
  BY <1>1, <1>2 DEF Port!Operation
<1> QED BY <1>3, Apart

LEMMA EeCalls ==
  ASSUME EeTypes, EeAsked
  PROVE  /\ host.call # None <=> host.pc \in {"wait", "r0", "r1"}
         /\ host.call # None =>
              /\ host.call.op = IF sys.we = TRUE THEN "write" ELSE "read"
              /\ host.call.addr = <<"line", sys.addr>> /\ sys.addr \in EeLines
              /\ sys.we = TRUE => host.call.data = <<host.n + 1, host.n + 1>>
<1>1. host.n \in Nat /\ sys.addr \in EeLines /\ sys.we \in BOOLEAN
  BY DEF EeTypes, EeHost, EeSys
<1>2. CASE host.pc \in {"wait", "r0", "r1"}
  <2>1. PICK o : /\ o = [op |-> IF sys.we = TRUE THEN "write" ELSE "read", addr |-> <<"line", sys.addr>>,
                         data |-> IF sys.we = TRUE THEN <<host.n + 1, host.n + 1>> ELSE <<>>]
                 /\ host.call = o
    BY <1>2 DEF EeAsked
  <2>4. o # None
    BY <1>1, <2>1, EeCallIs
  <2> QED BY <1>1, <1>2, <2>1, <2>4
<1>3. CASE host.pc \notin {"wait", "r0", "r1"}
  BY <1>3 DEF EeAsked
<1> QED BY <1>2, <1>3

EeReply == IF host.call = None \/ core.ack # sys.req THEN None
           ELSE IF sys.we = TRUE THEN <<>> ELSE core.h_hold

LEMMA EeReplyIs == EeTypes /\ EeAsked => Ee!reply = EeReply
<1> SUFFICES ASSUME EeTypes, EeAsked PROVE Ee!reply = EeReply
  OBVIOUS
<1>1. CASE host.call = None
  BY <1>1 DEF Ee!reply, EeReply
<1>2. CASE host.call # None /\ core.ack # sys.req
  BY <1>2 DEF Ee!reply, EeReply
<1>3. CASE host.call # None /\ core.ack = sys.req
  <2>1. host.call.op = IF sys.we = TRUE THEN "write" ELSE "read"
    BY <1>3, EeCalls
  <2> QED BY <1>3, <2>1 DEF Ee!reply, EeReply
<1> QED BY <1>1, <1>2, <1>3

\* A line written is one address of the port's memory.
With(f, a, d) == [f EXCEPT ![a] = d]
EeLinesOf(m) == [a \in {<<"line", l>> : l \in EeLines} |-> m[a[2]]]

LEMMA EePlaced ==
  ASSUME NEW m \in [EeLines -> Pair], NEW k \in EeLines, NEW d, NEW m1, m1 = [m EXCEPT ![k] = d]
  PROVE  EeLinesOf(m1) = With(EeLinesOf(m), <<"line", k>>, d)
<1>1. PICK S : S = {<<"line", l>> : l \in EeLines}
  OBVIOUS
<1>2. PICK f, g : f = [a \in S |-> m[a[2]]] /\ g = [a \in S |-> m1[a[2]]]
  OBVIOUS
<1>3. \A a \in S : a = <<"line", a[2]>> /\ a[2] \in EeLines
  BY <1>1
<1>4. \A a \in S : g[a] = IF a = <<"line", k>> THEN d ELSE f[a]
  <2> TAKE a \in S
  <2>1. a = <<"line", k>> <=> a[2] = k
    BY <1>3
  <2> QED BY <1>2, <1>3, <2>1
<1>5. g = [f EXCEPT ![<<"line", k>>] = d]
  BY <1>2, <1>4
<1> QED BY <1>1, <1>2, <1>5 DEF EeLinesOf, With

\* What a step of a port looks like from its call, its reply, its memory and the last answer.
Asks(c, c1, r1, m, m1, t, t1) == c = None /\ c1 # None /\ r1 = None /\ m1 = m /\ t1 = t
Rests(c, c1, r, r1, m, m1, t, t1) == c1 = c /\ r1 = r /\ m1 = m /\ t1 = t
Tells(c1, r, r1, m, m1, t1) == r # None /\ t1 = r /\ c1 = None /\ r1 = None /\ m1 = m
Writes(c, c1, r, r1, m, m1, t, t1) ==
    /\ c # None /\ c.op = "write" /\ r = None /\ c1 = c /\ t1 = t /\ r1 = <<>>
    /\ m1 = Port!Put(m, c.addr, c.data)
Gets(c, c1, r, r1, m, m1, t, t1) ==
    c # None /\ c.op = "read" /\ r = None /\ c1 = c /\ t1 = t /\ r1 = m[c.addr] /\ m1 = m

EePorts ==
    \/ Asks(host.call, host'.call, EeReply', Ee!memory, Ee!memory', host.told, host'.told)
    \/ Rests(host.call, host'.call, EeReply, EeReply', Ee!memory, Ee!memory', host.told, host'.told)
    \/ Tells(host'.call, EeReply, EeReply', Ee!memory, Ee!memory', host'.told)
    \/ Writes(host.call, host'.call, EeReply, EeReply', Ee!memory, Ee!memory', host.told, host'.told)
    \/ Gets(host.call, host'.call, EeReply, EeReply', Ee!memory, Ee!memory', host.told, host'.told)

LEMMA EeSysPorts ==
  ASSUME EeInv, Ee!SysEdge
  PROVE  EePorts
<1>1. EeTypes /\ EeAsked /\ EeHands /\ EePort /\ host.pc \in EeLoading \cup EeRunning
  BY EeValues DEF EeInv
<1>2. PICK s, c : EeSteps(s, c)
  BY EeSysDoes
<1>3. EeInv'
  BY EeSysInv
<1>4. core' = core /\ Ee!memory' = Ee!memory
  BY <1>2 DEF EeSteps, Ee!memory
<1>5. CASE EeQuiet(s)
  <2>1. host' = host /\ sys'.req = sys.req /\ sys'.we = sys.we
    BY <1>2, <1>5 DEF EeSteps, EeQuiet, EeLeaves
  <2>2. EeReply' = EeReply
    BY <1>4, <2>1 DEF EeReply
  <2> QED BY <1>4, <2>1, <2>2 DEF EePorts, Rests
<1>6. CASE EeMoved(s, c)
  <2>1. EeMoves(s, c)
    BY <1>6 DEF EeMoved
  <2>2. CASE host.pc = "go"
    <3>1. host.call = None /\ sys.req = sys.ack[2] /\ core.ack = sys.req
      BY <1>1, <2>2, EePlace DEF EeAsked, EeHands
    <3>2. host'.pc = "wait" /\ sys'.req # sys.req /\ host'.told = host.told
      BY <2>1, <2>2, <3>1 DEF EeMoves
    <3>3. host'.call # None
      <4>1. host.n \in Nat /\ sys.addr \in EeLines /\ sys.we \in BOOLEAN
        BY <1>1 DEF EeTypes, EeHost, EeSys
      <4>2. host'.call = [op |-> IF sys.we = TRUE THEN "write" ELSE "read", addr |-> <<"line", sys.addr>>,
                          data |-> IF sys.we = TRUE THEN <<host.n + 1, host.n + 1>> ELSE <<>>]
        BY <2>1, <2>2 DEF EeMoves
      <4> QED BY <4>1, <4>2, EeCallIs
    <3>4. EeReply' = None
      BY <1>4, <3>1, <3>2 DEF EeReply
    <3> QED BY <1>4, <3>1, <3>2, <3>3, <3>4 DEF EePorts, Asks
  <2>3. CASE host.pc = "r1"
    <3>1. host.call # None /\ sys.req = sys.ack[2] /\ core.ack = sys.req /\ clk.core.hold = core.h_hold
      BY <1>1, <2>3, EePlace, EeCalls DEF EeHands, EePort
    <3>2. /\ host'.call = None
          /\ host'.told = IF host.call.op = "write" THEN <<>> ELSE <<host.got[1], c.hold[2]>>
      BY <2>1, <2>3 DEF EeMoves
    <3>3. <<host.got[1], c.hold[2]>> = core.h_hold /\ core.h_hold \in Pair
      <4>1. host.got[1] = core.h_hold[1] /\ c.hold[2] = core.h_hold[2]
        BY <1>1, <1>2, <2>3, <3>1 DEF EePort, EeSteps, EeLeaves
      <4> QED BY <1>1, <4>1 DEF EeTypes, EeCore, Pair
    <3>4. host'.told = EeReply
      <4>1. host.call.op = IF sys.we = TRUE THEN "write" ELSE "read"
        BY <1>1, <3>1, EeCalls
      <4> QED BY <3>1, <3>2, <3>3, <4>1 DEF EeReply
    <3>5. EeReply \in Port!Reply
      BY <3>1, <3>3 DEF EeReply, Port!Reply, Pair
    <3>6. EeReply' = None
      BY <3>2 DEF EeReply
    <3> QED BY <1>4, <3>2, <3>4, <3>5, <3>6, Apart DEF EePorts, Tells
  <2>4. CASE host.pc \notin {"go", "r1"}
    <3>1. host'.call = host.call /\ host'.told = host.told /\ sys'.req = sys.req
      BY <2>1, <2>4 DEF EeMoves
    <3>2. host.call # None => sys'.we = sys.we
      <4>1. host.call # None => host.pc # "we"
        BY <1>1, EeCalls
      <4> QED BY <2>1, <4>1 DEF EeMoves
    <3>3. EeReply' = EeReply
      BY <1>4, <3>1, <3>2 DEF EeReply
    <3> QED BY <1>4, <3>1, <3>3 DEF EePorts, Rests
  <2> QED BY <2>2, <2>3, <2>4
<1> QED BY <1>2, <1>5, <1>6 DEF EeSteps

LEMMA EeCorePorts ==
  ASSUME EeInv, Ee!CoreEdge
  PROVE  EePorts
<1>1. EeTypes /\ EeAsked /\ EeHands /\ EePort /\ core.rst[2] \in BOOLEAN /\ core.h_we \in BOOLEAN
  BY EeBits DEF EeInv
<1>2. EeCounts
  BY <1>1, EeCoreStep DEF EeCounts
<1>3. sys' = sys /\ host'.call = host.call /\ host'.told = host.told
  BY <1>2 DEF EeCounts, EeDozes
<1>4. CASE EeTakes
  <2>1. host.pc = "wait"
    BY <1>1, <1>4, EePlace DEF EeTakes
  <2>2. core.h_we = FALSE
    BY <1>1, <1>4 DEF EeTakes, EePort
  <2>3. core'.mem = core.mem
    BY <1>2, <2>1, <2>2, EeAnswers
  <2>4. EeReply' = EeReply /\ Ee!memory' = Ee!memory
    BY <1>3, <1>4, <2>3 DEF EeReply, EeTakes, Ee!memory
  <2> QED BY <1>3, <2>4 DEF EePorts, Rests
<1>5. CASE EeRests
  <2>1. core.h_we = FALSE
    BY <1>1, <1>5 DEF EeRests, EePort
  <2>2. PICK addr, w : EeMemory(addr, w)
    BY <1>2 DEF EeCounts, EeClocks
  <2>3. core'.mem = core.mem
    BY <1>1, <2>1, <2>2 DEF EeMemory, EeWrote
  <2>4. EeReply' = EeReply /\ Ee!memory' = Ee!memory
    BY <1>3, <1>5, <2>3 DEF EeReply, EeRests, Ee!memory
  <2> QED BY <1>3, <2>4 DEF EePorts, Rests
<1>6. CASE EeGives
  <2>1. core.req[2] # core.ack /\ core.h_we = sys.we /\ core.rdata = core.mem[sys.addr]
    BY <1>1, <1>6 DEF EeGives, EePort
  <2>2. host.pc = "wait" /\ sys.req = core.req[2]
    BY <1>1, <2>1, EePlace
  <2>3. /\ host.call # None /\ host.call.op = IF sys.we = TRUE THEN "write" ELSE "read"
        /\ host.call.addr = <<"line", sys.addr>> /\ sys.addr \in EeLines
        /\ sys.we = TRUE => host.call.data = <<host.n + 1, host.n + 1>>
    BY <1>1, <2>2, EeCalls
  <2>4. EeReply = None /\ EeReply' = IF sys.we = TRUE THEN <<>> ELSE core.mem[sys.addr]
    BY <1>3, <1>6, <2>1, <2>2, <2>3 DEF EeReply, EeGives
  <2>5. CASE sys.we = TRUE
    <3>1. core'.mem = [core.mem EXCEPT ![sys.addr] = host.call.data]
      BY <1>1, <1>2, <2>1, <2>2, <2>3, <2>5, EeAnswers DEF EeAsked
    <3>2. Ee!memory' = [Ee!memory EXCEPT ![<<"line", sys.addr>>] = host.call.data]
      <4>1. core.mem \in [EeLines -> Pair]
        BY <1>1 DEF EeTypes, EeCore
      <4>2. PICK d, m1 : d = host.call.data /\ m1 = core'.mem
        OBVIOUS
      <4>3. m1 = [core.mem EXCEPT ![sys.addr] = d]
        BY <3>1, <4>2
      <4>4. Ee!memory' = EeLinesOf(m1) /\ Ee!memory = EeLinesOf(core.mem)
        BY <4>2 DEF Ee!memory, EeLinesOf
      <4>5. EeLinesOf(m1) = With(EeLinesOf(core.mem), <<"line", sys.addr>>, d)
        BY <2>3, <4>1, <4>3, EePlaced
      <4> QED BY <4>2, <4>4, <4>5 DEF With
    <3>3. Port!Put(Ee!memory, host.call.addr, host.call.data)
             = [Ee!memory EXCEPT ![<<"line", sys.addr>>] = host.call.data]
      <4>1. <<"line", sys.addr>> # Gs!Gif
        BY DEF Gs!Gif
      <4> QED BY <2>3, <4>1 DEF Port!Put
    <3> QED BY <1>3, <2>3, <2>4, <2>5, <3>2, <3>3 DEF EePorts, Writes
  <2>6. CASE sys.we # TRUE
    <3>1. core'.mem = core.mem /\ Ee!memory' = Ee!memory
      <4>1. core'.mem = core.mem
        BY <1>1, <1>2, <2>1, <2>2, <2>6, EeAnswers
      <4> QED BY <4>1 DEF Ee!memory
    <3>2. Ee!memory[<<"line", sys.addr>>] = core.mem[sys.addr]
      BY <2>3 DEF Ee!memory
    <3> QED BY <1>3, <2>3, <2>4, <2>6, <3>1, <3>2 DEF EePorts, Gets
  <2> QED BY <2>5, <2>6
<1> QED BY <1>2, <1>4, <1>5, <1>6 DEF EeCounts, EeClocks
-----------------------------------------------------------------------------
(* What an edge of the GS board does, field by field. *)

LEMMA GsWordsAre ==
  ASSUME NEW was, NEW now, NEW v \in Gs!Words(was, now)
  PROVE  v = <<v[1], v[2]>> /\ v[1] \in {was[1], now[1]} /\ v[2] \in {was[2], now[2]}
  BY DEF Gs!Words, Gs!Caught

GsReady == core.rst[2] = FALSE /\ core.work = 0

GsLeaves(s, c) ==
    /\ s.reset = sys.reset /\ s.w = sys.w /\ s.req = sys.req /\ s.addr = sys.addr
    /\ s.rreq = sys.rreq
    /\ s.ack[1] \in {clk.core.ack, core.ack} /\ s.ack[2] = sys.ack[1]
    /\ s.ready[1] \in {clk.core.ready, GsReady} /\ s.ready[2] = sys.ready[1]
    /\ s.rack[1] \in {clk.core.rack, core.rack} /\ s.rack[2] = sys.rack[1]
    /\ s.tog[1] \in {clk.core.tog, core.tog} /\ s.tog[2] = sys.tog[1] /\ s.tog_d = sys.tog[2]
    /\ s.rd_done = (sys.rd_done = TRUE \/ sys.rreq = sys.rack[2])
    /\ sys.tog[2] = sys.tog_d => s.hold = sys.hold
    /\ sys.tog[2] # sys.tog_d => /\ s.hold[1] \in {clk.core.snap[1], core.snap[1]}
                                 /\ s.hold[2] \in {clk.core.snap[2], core.snap[2]}
    /\ c.rhold[1] \in {clk.core.rhold[1], core.rhold[1]}
    /\ c.rhold[2] \in {clk.core.rhold[2], core.rhold[2]}

GsTicks ==
    /\ clk' \in GsClk
    /\ clk'.sys.reset = sys.reset /\ clk'.sys.w = sys.w /\ clk'.sys.req = sys.req
    /\ clk'.sys.addr = sys.addr /\ clk'.sys.rreq = sys.rreq
    /\ clk'.core.ready = GsReady /\ clk'.core.ack = core.ack /\ clk'.core.rack = core.rack
    /\ clk'.core.rhold = core.rhold /\ clk'.core.tog = core.tog /\ clk'.core.snap = core.snap

LEMMA GsTicksIs ==
  ASSUME GsTypes, NEW n \in 0 .. Lead, NEW b \in BOOLEAN,
         clk' = [sys |-> Gs!SysOut, core |-> Gs!CoreOut, ahead |-> n, fresh |-> b]
  PROVE  GsTicks /\ clk'.ahead = n /\ clk'.fresh = b
<1>1. core.rst[2] \in BOOLEAN
  BY DEF GsTypes, GsCore, Bits
<1>2. PICK r \in BOOLEAN : r = GsReady
  BY DEF GsReady
<1>3. Gs!CoreOut = [ready |-> r, ack |-> core.ack, rack |-> core.rack, rhold |-> core.rhold,
                    tog |-> core.tog, snap |-> core.snap]
  <2>1. (~Gs!Out(core.rst) /\ core.work = 0) = r
    BY <1>1, <1>2 DEF Gs!Out, GsReady
  <2> QED BY <2>1 DEF Gs!CoreOut
<1>4. PICK a, k : a = Gs!SysOut /\ k = Gs!CoreOut
  OBVIOUS
<1>5. /\ a \in [reset : BOOLEAN, w : Pair, req : BOOLEAN, addr : Nat, rreq : BOOLEAN]
      /\ a.reset = sys.reset /\ a.w = sys.w /\ a.req = sys.req /\ a.addr = sys.addr /\ a.rreq = sys.rreq
  BY <1>4 DEF Gs!SysOut, GsTypes, GsSys
<1>6. /\ k \in [ready : BOOLEAN, ack : BOOLEAN, rack : BOOLEAN, rhold : Pair, tog : BOOLEAN, snap : Pair]
      /\ k.ready = r /\ k.ack = core.ack /\ k.rack = core.rack /\ k.rhold = core.rhold
      /\ k.tog = core.tog /\ k.snap = core.snap
  BY <1>3, <1>4 DEF GsTypes, GsCore
<1>7. clk' = [sys |-> a, core |-> k, ahead |-> n, fresh |-> b]
  BY <1>4
<1>8. clk' \in GsClk
  BY <1>5, <1>6, <1>7 DEF GsClk
<1> QED BY <1>2, <1>5, <1>6, <1>7, <1>8 DEF GsTicks

LEMMA GsSettledIs ==
  ASSUME GsTypes,
         NEW ready \in Gs!Caught(clk.core.ready, Gs!CoreOut.ready),
         NEW ack \in Gs!Caught(clk.core.ack, core.ack), NEW rack \in Gs!Caught(clk.core.rack, core.rack),
         NEW tog \in Gs!Caught(clk.core.tog, core.tog),
         NEW rhold \in Gs!Words(clk.core.rhold, core.rhold),
         NEW snap \in Gs!Words(clk.core.snap, core.snap),
         NEW c, c = [ready |-> ready, ack |-> ack, rack |-> rack, tog |-> tog,
                     rhold |-> rhold, snap |-> snap],
         NEW s, s = Gs!Settled(sys, c)
  PROVE  s \in GsSys /\ GsLeaves(s, c)
<1>1. /\ sys \in GsSys /\ core \in GsCore
      /\ ack \in BOOLEAN /\ ack \in {clk.core.ack, core.ack}
      /\ rack \in BOOLEAN /\ rack \in {clk.core.rack, core.rack}
      /\ tog \in BOOLEAN /\ tog \in {clk.core.tog, core.tog}
  BY DEF GsTypes, GsCore, GsClk, Gs!Caught
<1>2. ready \in {clk.core.ready, GsReady} /\ ready \in BOOLEAN
  <2>1. core.rst[2] \in BOOLEAN /\ clk.core.ready \in BOOLEAN /\ GsReady \in BOOLEAN
    BY DEF GsTypes, GsCore, GsClk, Bits, GsReady
  <2>2. Gs!CoreOut.ready = (~Gs!Out(core.rst) /\ core.work = 0)
    BY DEF Gs!CoreOut
  <2>3. (~Gs!Out(core.rst) /\ core.work = 0) = GsReady
    BY <2>1 DEF Gs!Out, GsReady
  <2> QED BY <2>1, <2>2, <2>3 DEF Gs!Caught
<1>3. /\ snap = <<snap[1], snap[2]>> /\ snap[1] \in {clk.core.snap[1], core.snap[1]}
      /\ snap[2] \in {clk.core.snap[2], core.snap[2]}
      /\ rhold[1] \in {clk.core.rhold[1], core.rhold[1]}
      /\ rhold[2] \in {clk.core.rhold[2], core.rhold[2]}
  BY GsWordsAre
<1>4. clk.core.snap \in Pair /\ core.snap \in Pair
  BY DEF GsTypes, GsCore, GsClk
<1>5. snap \in Pair
  BY <1>3, <1>4 DEF Pair
<1>6. /\ sys.ack \in Bits /\ sys.tog \in Bits /\ sys.ready \in Bits /\ sys.rack \in Bits
      /\ Gs!Clocked(sys.ack, ack) \in Bits /\ Gs!Clocked(sys.tog, tog) \in Bits
      /\ Gs!Clocked(sys.ready, ready) \in Bits /\ Gs!Clocked(sys.rack, rack) \in Bits
      /\ Gs!Out(sys.tog) \in BOOLEAN /\ sys.hold \in Pair
  BY <1>1, <1>2 DEF GsSys, Bits, Gs!Clocked, Gs!Out
<1>7. Gs!Held(sys, snap) \in Pair
  BY <1>5, <1>6 DEF Gs!Held
<1>8. PICK d \in BOOLEAN : /\ d = (sys.rd_done \/ sys.rreq = Gs!Out(sys.rack))
                           /\ d = (sys.rd_done = TRUE \/ sys.rreq = sys.rack[2])
  BY <1>1 DEF GsSys, Gs!Out
<1>9. s = [sys EXCEPT !.ack = Gs!Clocked(sys.ack, ack), !.ready = Gs!Clocked(sys.ready, ready),
                      !.rack = Gs!Clocked(sys.rack, rack), !.tog = Gs!Clocked(sys.tog, tog),
                      !.tog_d = Gs!Out(sys.tog), !.hold = Gs!Held(sys, snap), !.rd_done = d]
  BY <1>8 DEF Gs!Settled
<1>10. s \in GsSys
  BY <1>1, <1>6, <1>7, <1>9, ZenonT(60) DEF GsSys
<1>11. /\ s.ack = Gs!Clocked(sys.ack, ack) /\ s.tog = Gs!Clocked(sys.tog, tog)
       /\ s.ready = Gs!Clocked(sys.ready, ready) /\ s.rack = Gs!Clocked(sys.rack, rack)
       /\ s.tog_d = Gs!Out(sys.tog) /\ s.hold = Gs!Held(sys, snap) /\ s.rd_done = d
       /\ s.reset = sys.reset /\ s.w = sys.w /\ s.req = sys.req /\ s.addr = sys.addr
       /\ s.rreq = sys.rreq
  BY <1>1, <1>9, ZenonT(60) DEF GsSys
<1> QED BY <1>1, <1>2, <1>3, <1>8, <1>10, <1>11 DEF GsLeaves, Gs!Clocked, Gs!Out, Gs!Held

GsQuiet(s) == sys' = s /\ host' = host /\ clk'.fresh = clk.fresh
GsActs(s, c) == clk.fresh = TRUE /\ clk'.fresh = FALSE /\ Gs!Access(s, c)

LEMMA GsSysStep ==
  ASSUME GsTypes, Gs!SysEdge
  PROVE  /\ GsTicks /\ clk'.ahead = 0 /\ core' = core
         /\ \E s, c : s \in GsSys /\ GsLeaves(s, c) /\ (GsQuiet(s) \/ GsActs(s, c))
<1>1. PICK ready \in Gs!Caught(clk.core.ready, Gs!CoreOut.ready),
           ack \in Gs!Caught(clk.core.ack, core.ack), rack \in Gs!Caught(clk.core.rack, core.rack),
           tog \in Gs!Caught(clk.core.tog, core.tog),
           rhold \in Gs!Words(clk.core.rhold, core.rhold),
           snap \in Gs!Words(clk.core.snap, core.snap) :
         LET c == [ready |-> ready, ack |-> ack, rack |-> rack, tog |-> tog,
                   rhold |-> rhold, snap |-> snap]
         IN  \/ /\ clk.fresh
                /\ Gs!Access(Gs!Settled(sys, c), c)
                /\ Gs!Tick(FALSE)
             \/ /\ sys' = Gs!Settled(sys, c)
                /\ UNCHANGED host
                /\ Gs!Tick(clk.fresh)
  BY DEF Gs!SysEdge
<1>2. PICK c : c = [ready |-> ready, ack |-> ack, rack |-> rack, tog |-> tog,
                    rhold |-> rhold, snap |-> snap]
  OBVIOUS
<1>3. PICK s : s = Gs!Settled(sys, c)
  OBVIOUS
<1>4. s \in GsSys /\ GsLeaves(s, c)
  BY <1>2, <1>3, GsSettledIs
<1>5. core' = core
  BY DEF Gs!SysEdge
<1>6. clk.fresh \in BOOLEAN /\ 0 \in 0 .. Lead
  BY Periods DEF GsTypes, GsClk
<1>7. CASE clk.fresh /\ Gs!Access(s, c) /\ Gs!Tick(FALSE)
  <2>1. GsTicks /\ clk'.ahead = 0 /\ clk'.fresh = FALSE
    BY <1>6, <1>7, GsTicksIs DEF Gs!Tick
  <2>2. GsActs(s, c)
    BY <1>6, <1>7, <2>1 DEF GsActs
  <2> QED BY <1>4, <1>5, <2>1, <2>2
<1>8. CASE sys' = s /\ UNCHANGED host /\ Gs!Tick(clk.fresh)
  <2>1. GsTicks /\ clk'.ahead = 0 /\ clk'.fresh = clk.fresh
    BY <1>6, <1>8, GsTicksIs DEF Gs!Tick
  <2>2. GsQuiet(s)
    BY <1>8, <2>1 DEF GsQuiet
  <2> QED BY <1>4, <1>5, <2>1, <2>2
<1> QED BY <1>1, <1>2, <1>3, <1>7, <1>8

\* What an access changes, and what it leaves alone.
GsMoves(s, c) ==
    /\ sys' \in GsSys /\ host' \in GsHost
    /\ sys'.ack = s.ack /\ sys'.ready = s.ready /\ sys'.rack = s.rack
    /\ sys'.tog = s.tog /\ sys'.tog_d = s.tog_d /\ sys'.hold = s.hold
    /\ host.pc \notin {"reset", "start"} => sys'.reset = sys.reset
    /\ host.pc \notin {"w0", "w1"} => sys'.w = sys.w
    /\ host.pc # "push" => sys'.req = sys.req /\ host'.sent = host.sent
    /\ host.pc # "read" => sys'.addr = sys.addr /\ sys'.rreq = sys.rreq /\ sys'.rd_done = s.rd_done
    /\ host.pc # "d1" => host'.reads = host.reads
    /\ host.pc \notin {"busy", "push", "read", "d1"} => host'.call = host.call
    /\ host.pc \notin {"busy", "d1"} => host'.told = host.told
    /\ host.pc = "reset" => host'.pc = "start" /\ sys'.reset = TRUE
    /\ host.pc = "start" => host'.pc = "busy" /\ sys'.reset = FALSE
    /\ host.pc = "busy" =>
         \/ sys.req # sys.ack[2] /\ host'.pc = "busy" /\ host'.call = host.call /\ host'.told = host.told
         \/ /\ sys.req = sys.ack[2] /\ host'.call = None
            /\ host'.told = IF host.call = None THEN host.told ELSE <<>>
            /\ host'.pc \in {"w0", "busy"} \/ (host'.pc = "pixels" /\ sys.ready[2] = TRUE)
    /\ host.pc = "w0" => host'.pc = "w1" /\ sys'.w[1] = host.sent + 1
    /\ host.pc = "w1" => host'.pc = "push" /\ sys'.w = <<sys.w[1], host.sent + 1>>
    /\ host.pc = "push" =>
         /\ host'.pc = "busy" /\ host'.sent = host.sent + 1
         /\ sys.req = sys.ack[2] => sys'.req # sys.req
         /\ host'.call = [op |-> "write", addr |-> Gs!Gif, data |-> <<host.sent + 1, host.sent + 1>>]
    /\ host.pc = "pixels" => host'.pc = "read"
    /\ host.pc = "read" =>
         /\ host'.pc = "done" /\ host.reads < Reads /\ sys'.addr = host.reads
         /\ sys'.rreq # sys.rreq /\ sys'.rd_done = FALSE
         /\ host'.call = [op |-> "read", addr |-> Gs!Word(host.reads), data |-> <<>>]
    /\ host.pc = "done" => \/ sys.rd_done = TRUE /\ host'.pc = "d0"
                           \/ sys.rd_done = FALSE /\ host'.pc = "done"
    /\ host.pc = "d0" => host'.pc = "d1" /\ host'.got[1] = c.rhold[1]
    /\ host.pc = "d1" => /\ host'.pc = "read" /\ host'.reads = host.reads + 1 /\ host'.call = None
                         /\ host'.told = <<host.got[1], c.rhold[2]>>

\* The calls are operations of the port.
LEMMA GsCallIs ==
  ASSUME NEW n \in Nat, NEW o,
         \/ o = [op |-> "write", addr |-> Gs!Gif, data |-> <<n, n>>]
         \/ o = [op |-> "read", addr |-> Gs!Word(n), data |-> <<>>]
  PROVE  o \in Port!Operation /\ o # None
<1>1. /\ Gs!Gif \in {"gif", "word", "line", "beat"} \X Nat
      /\ Gs!Word(n) \in {"gif", "word", "line", "beat"} \X Nat
  BY DEF Gs!Gif, Gs!Word
<1>2. <<n, n>> \in Port!Reply /\ <<>> \in Port!Reply
  BY DEF Port!Reply
<1>3. o \in Port!Operation
  BY <1>1, <1>2 DEF Port!Operation
<1> QED BY <1>3, Apart

LEMMA GsMovesIs ==
  ASSUME GsTypes, NEW s \in GsSys, NEW c, GsLeaves(s, c), GsActs(s, c)
  PROVE  GsMoves(s, c)
<1>0. /\ sys \in GsSys /\ core \in GsCore /\ clk \in GsClk /\ host \in GsHost
      /\ host.pc \in GsWriting \cup GsReading /\ host.sent \in Nat /\ host.reads \in Nat
      /\ host.got \in Pair
  BY DEF GsTypes, GsHost
<1>1. /\ c.rhold[1] \in Nat /\ c.rhold[2] \in Nat /\ s.w \in Pair /\ s.req \in BOOLEAN
      /\ s.rreq \in BOOLEAN /\ sys.hold[1] \in Nat
  <2>1. /\ clk.core.rhold \in Pair /\ core.rhold \in Pair
    BY <1>0 DEF GsCore, GsClk
  <2>2. c.rhold[1] \in Nat /\ c.rhold[2] \in Nat
    BY <2>1 DEF GsLeaves, Pair
  <2> QED BY <1>0, <2>2 DEF GsSys, Pair
<1>2. /\ s.reset = sys.reset /\ s.w = sys.w /\ s.req = sys.req /\ s.addr = sys.addr
      /\ s.rreq = sys.rreq
  BY DEF GsLeaves
<1>3. Gs!Access(s, c)
  BY DEF GsActs
<1>4. CASE host.pc = "reset"
  <2>1. /\ sys' = [s EXCEPT !.reset = TRUE]
        /\ host' = [host EXCEPT !.pc = "start"]
    BY <1>3, <1>4 DEF Gs!Access
  <2>8. /\ sys' \in GsSys /\ sys'.ack = s.ack /\ sys'.ready = s.ready /\ sys'.rack = s.rack /\ sys'.tog = s.tog
        /\ sys'.tog_d = s.tog_d /\ sys'.hold = s.hold
        /\ sys'.w = s.w /\ sys'.req = s.req /\ sys'.addr = s.addr /\ sys'.rreq = s.rreq /\ sys'.rd_done = s.rd_done /\ sys'.reset = TRUE
    BY <1>0, <1>1, <1>2, <2>1 DEF GsSys
  <2>9. /\ host' \in GsHost /\ host'.sent = host.sent /\ host'.reads = host.reads /\ host'.call = host.call /\ host'.told = host.told /\ host'.pc = "start"
    BY <1>0, <1>1, <2>1 DEF GsHost, GsWriting, GsReading
  <2> QED
    BY <1>0, <1>2, <1>4, <2>1, <2>8, <2>9 DEF GsMoves
<1>5. CASE host.pc = "start"
  <2>1. /\ sys' = [s EXCEPT !.reset = FALSE]
        /\ host' = [host EXCEPT !.pc = "busy"]
    BY <1>3, <1>5 DEF Gs!Access
  <2>8. /\ sys' \in GsSys /\ sys'.ack = s.ack /\ sys'.ready = s.ready /\ sys'.rack = s.rack /\ sys'.tog = s.tog
        /\ sys'.tog_d = s.tog_d /\ sys'.hold = s.hold
        /\ sys'.w = s.w /\ sys'.req = s.req /\ sys'.addr = s.addr /\ sys'.rreq = s.rreq /\ sys'.rd_done = s.rd_done /\ sys'.reset = FALSE
    BY <1>0, <1>1, <1>2, <2>1 DEF GsSys
  <2>9. /\ host' \in GsHost /\ host'.sent = host.sent /\ host'.reads = host.reads /\ host'.call = host.call /\ host'.told = host.told /\ host'.pc = "busy"
    BY <1>0, <1>1, <2>1 DEF GsHost, GsWriting, GsReading
  <2> QED
    BY <1>0, <1>2, <1>5, <2>1, <2>8, <2>9 DEF GsMoves
<1>6. CASE host.pc = "busy"
  <2>1. /\ sys' = s
        /\ host' = IF Gs!busy THEN host
                   ELSE LET h == [host EXCEPT !.call = None,
                                              !.told = IF host.call = None THEN host.told ELSE <<>>]
                        IN  IF host.sent < Quads THEN [h EXCEPT !.pc = "w0"]
                            ELSE IF Gs!Out(sys.ready) THEN [h EXCEPT !.pc = "pixels"] ELSE h
    BY <1>3, <1>6 DEF Gs!Access
  <2>2. sys' \in GsSys /\ sys'.ack = s.ack /\ sys'.ready = s.ready /\ sys'.rack = s.rack /\ sys'.tog = s.tog
        /\ sys'.tog_d = s.tog_d /\ sys'.hold = s.hold
        /\ sys'.reset = s.reset /\ sys'.w = s.w /\ sys'.req = s.req /\ sys'.addr = s.addr /\ sys'.rreq = s.rreq /\ sys'.rd_done = s.rd_done
    BY <1>0, <1>2, <2>1 DEF GsSys
  <2>3. Gs!busy <=> sys.req # sys.ack[2]
    BY DEF Gs!busy, Gs!Out
  <2>4. CASE sys.req # sys.ack[2]
    <3>1. host' = host
      BY <2>1, <2>3, <2>4
    <3> QED BY <1>0, <1>2, <1>6, <2>2, <2>4, <3>1 DEF GsMoves
  <2>5. CASE sys.req = sys.ack[2]
    <3>1. PICK h : h = [host EXCEPT !.call = None,
                                    !.told = IF host.call = None THEN host.told ELSE <<>>]
      OBVIOUS
    <3>2. /\ h \in GsHost /\ h.pc = "busy" /\ h.sent = host.sent /\ h.reads = host.reads
          /\ h.call = None /\ h.told = IF host.call = None THEN host.told ELSE <<>>
      <4>1. PICK t \in Port!Reply \cup {None} : t = IF host.call = None THEN host.told ELSE <<>>
        BY <1>0 DEF GsHost, Port!Reply
      <4> QED BY <1>0, <1>6, <3>1, <4>1 DEF GsHost
    <3>3. PICK p : /\ p = "w0" \/ p = "busy" \/ (p = "pixels" /\ sys.ready[2] = TRUE)
                   /\ host' = [h EXCEPT !.pc = p]
      <4>1. host' = IF host.sent < Quads THEN [h EXCEPT !.pc = "w0"]
                    ELSE IF Gs!Out(sys.ready) THEN [h EXCEPT !.pc = "pixels"] ELSE h
        BY <2>1, <2>3, <2>5, <3>1
      <4>2. h = [h EXCEPT !.pc = "busy"]
        BY <3>2 DEF GsHost
      <4>3. sys.ready[2] \in BOOLEAN
        BY <1>0 DEF GsSys, Bits
      <4> QED BY <4>1, <4>2, <4>3 DEF Gs!Out
    <3>4. /\ host' \in GsHost /\ host'.pc = p /\ host'.sent = host.sent /\ host'.reads = host.reads
          /\ host'.call = None /\ host'.told = IF host.call = None THEN host.told ELSE <<>>
      BY <3>2, <3>3 DEF GsHost, GsWriting, GsReading
    <3> QED BY <1>0, <1>2, <1>6, <2>2, <2>5, <3>3, <3>4 DEF GsMoves
  <2> QED BY <2>4, <2>5
<1>7. CASE host.pc = "w0"
  <2>1. sys' = [s EXCEPT !.w[1] = host.sent + 1] /\ host' = [host EXCEPT !.pc = "w1"]
    BY <1>3, <1>7 DEF Gs!Access
  <2>2. PICK v \in Pair : v = <<host.sent + 1, s.w[2]>> /\ sys' = [s EXCEPT !.w = v]
    <3>1. [s.w EXCEPT ![1] = host.sent + 1] = <<host.sent + 1, s.w[2]>> /\ <<host.sent + 1, s.w[2]>> \in Pair
      BY <1>0, <1>1 DEF Pair
    <3> QED BY <2>1, <3>1
  <2>8. /\ sys' \in GsSys /\ sys'.ack = s.ack /\ sys'.ready = s.ready /\ sys'.rack = s.rack /\ sys'.tog = s.tog
        /\ sys'.tog_d = s.tog_d /\ sys'.hold = s.hold
        /\ sys'.reset = s.reset /\ sys'.req = s.req /\ sys'.addr = s.addr /\ sys'.rreq = s.rreq /\ sys'.rd_done = s.rd_done /\ sys'.w = v
    BY <1>0, <1>1, <1>2, <2>2 DEF GsSys
  <2>9. /\ host' \in GsHost /\ host'.sent = host.sent /\ host'.reads = host.reads /\ host'.call = host.call /\ host'.told = host.told /\ host'.pc = "w1"
    BY <1>0, <2>1 DEF GsHost, GsWriting, GsReading
  <2> QED
    BY <1>0, <1>2, <1>7, <2>2, <2>8, <2>9 DEF GsMoves
<1>8. CASE host.pc = "w1"
  <2>1. sys' = [s EXCEPT !.w[2] = host.sent + 1] /\ host' = [host EXCEPT !.pc = "push"]
    BY <1>3, <1>8 DEF Gs!Access
  <2>2. PICK v \in Pair : v = <<s.w[1], host.sent + 1>> /\ sys' = [s EXCEPT !.w = v]
    <3>1. [s.w EXCEPT ![2] = host.sent + 1] = <<s.w[1], host.sent + 1>> /\ <<s.w[1], host.sent + 1>> \in Pair
      BY <1>0, <1>1 DEF Pair
    <3> QED BY <2>1, <3>1
  <2>8. /\ sys' \in GsSys /\ sys'.ack = s.ack /\ sys'.ready = s.ready /\ sys'.rack = s.rack /\ sys'.tog = s.tog
        /\ sys'.tog_d = s.tog_d /\ sys'.hold = s.hold
        /\ sys'.reset = s.reset /\ sys'.req = s.req /\ sys'.addr = s.addr /\ sys'.rreq = s.rreq /\ sys'.rd_done = s.rd_done /\ sys'.w = v
    BY <1>0, <1>1, <1>2, <2>2 DEF GsSys
  <2>9. /\ host' \in GsHost /\ host'.sent = host.sent /\ host'.reads = host.reads /\ host'.call = host.call /\ host'.told = host.told /\ host'.pc = "push"
    BY <1>0, <2>1 DEF GsHost, GsWriting, GsReading
  <2> QED
    BY <1>0, <1>2, <1>8, <2>2, <2>8, <2>9 DEF GsMoves
<1>9. CASE host.pc = "push"
  <2>1. /\ sys' = [s EXCEPT !.req = IF Gs!busy THEN @ ELSE ~@]
        /\ host' = [host EXCEPT !.pc = "busy", !.sent = @ + 1,
                      !.call = [op |-> "write", addr |-> Gs!Gif, data |-> Gs!Quad(host.sent + 1)]]
    BY <1>3, <1>9 DEF Gs!Access
  <2>2. PICK r \in BOOLEAN : sys' = [s EXCEPT !.req = r] /\ (sys.req = sys.ack[2] => r # sys.req)
    BY <1>1, <1>2, <2>1 DEF Gs!busy, Gs!Out
  <2>5. PICK n \in Nat : n = host.sent + 1
    BY <1>0
  <2>6. PICK o : o = [op |-> "write", addr |-> Gs!Gif, data |-> <<n, n>>]
    OBVIOUS
  <2>3. /\ n = host.sent + 1 /\ host' = [host EXCEPT !.pc = "busy", !.sent = n, !.call = o]
        /\ o = [op |-> "write", addr |-> Gs!Gif, data |-> <<n, n>>]
    BY <2>1, <2>5, <2>6 DEF Gs!Quad
  <2>4. o \in Port!Operation
    BY <2>3, GsCallIs
  <2>8. /\ sys' \in GsSys /\ sys'.ack = s.ack /\ sys'.ready = s.ready /\ sys'.rack = s.rack /\ sys'.tog = s.tog
        /\ sys'.tog_d = s.tog_d /\ sys'.hold = s.hold
        /\ sys'.reset = s.reset /\ sys'.w = s.w /\ sys'.addr = s.addr /\ sys'.rreq = s.rreq /\ sys'.rd_done = s.rd_done /\ sys'.req = r
    BY <1>0, <2>2 DEF GsSys
  <2>9. /\ host' \in GsHost /\ host'.reads = host.reads /\ host'.told = host.told /\ host'.pc = "busy" /\ host'.sent = n /\ host'.call = o
    BY <1>0, <2>3, <2>4 DEF GsHost, GsWriting, GsReading
  <2> QED
    BY <1>0, <1>2, <1>9, <2>2, <2>3, <2>8, <2>9 DEF GsMoves
<1>10. CASE host.pc = "pixels"
  <2>1. /\ sys' = s
        /\ host' = [host EXCEPT !.pc = "read", !.pixels = sys.hold[1]]
    BY <1>3, <1>10 DEF Gs!Access
  <2>8. /\ sys' \in GsSys /\ sys'.ack = s.ack /\ sys'.ready = s.ready /\ sys'.rack = s.rack /\ sys'.tog = s.tog
        /\ sys'.tog_d = s.tog_d /\ sys'.hold = s.hold
        /\ sys'.reset = s.reset /\ sys'.w = s.w /\ sys'.req = s.req /\ sys'.addr = s.addr /\ sys'.rreq = s.rreq /\ sys'.rd_done = s.rd_done
    BY <1>0, <1>1, <1>2, <2>1 DEF GsSys
  <2>9. /\ host' \in GsHost /\ host'.sent = host.sent /\ host'.reads = host.reads /\ host'.call = host.call /\ host'.told = host.told /\ host'.pc = "read"
    BY <1>0, <1>1, <2>1 DEF GsHost, GsWriting, GsReading
  <2> QED
    BY <1>0, <1>2, <1>10, <2>1, <2>8, <2>9 DEF GsMoves
<1>11. CASE host.pc = "read"
  <2>1. /\ host.reads < Reads /\ sys' = [s EXCEPT !.addr = host.reads, !.rreq = ~@, !.rd_done = FALSE]
        /\ host' = [host EXCEPT !.pc = "done",
                      !.call = [op |-> "read", addr |-> Gs!Word(host.reads), data |-> <<>>]]
    BY <1>3, <1>11 DEF Gs!Access
  <2>2. PICK r \in BOOLEAN : /\ sys' = [s EXCEPT !.addr = host.reads, !.rreq = r, !.rd_done = FALSE]
                             /\ r # sys.rreq
    BY <1>1, <1>2, <2>1
  <2>3. PICK o : /\ host' = [host EXCEPT !.pc = "done", !.call = o]
                 /\ o = [op |-> "read", addr |-> Gs!Word(host.reads), data |-> <<>>]
    BY <2>1
  <2>4. o \in Port!Operation
    BY <1>0, <2>3, GsCallIs
  <2>8. /\ sys' \in GsSys /\ sys'.ack = s.ack /\ sys'.ready = s.ready /\ sys'.rack = s.rack /\ sys'.tog = s.tog
        /\ sys'.tog_d = s.tog_d /\ sys'.hold = s.hold
        /\ sys'.reset = s.reset /\ sys'.w = s.w /\ sys'.req = s.req /\ sys'.addr = host.reads /\ sys'.rreq = r /\ sys'.rd_done = FALSE
    BY <1>0, <2>2 DEF GsSys
  <2>9. /\ host' \in GsHost /\ host'.sent = host.sent /\ host'.reads = host.reads /\ host'.told = host.told /\ host'.pc = "done" /\ host'.call = o
    BY <1>0, <2>3, <2>4 DEF GsHost, GsWriting, GsReading
  <2> QED
    BY <1>0, <1>2, <1>11, <2>1, <2>2, <2>3, <2>8, <2>9 DEF GsMoves
<1>12. CASE host.pc = "done"
  <2>1. sys' = s /\ host' = IF sys.rd_done THEN [host EXCEPT !.pc = "d0"] ELSE host
    BY <1>3, <1>12 DEF Gs!Access
  <2>2. sys.rd_done \in BOOLEAN
    BY <1>0 DEF GsSys
  <2>8. sys' \in GsSys /\ sys'.ack = s.ack /\ sys'.ready = s.ready /\ sys'.rack = s.rack /\ sys'.tog = s.tog
        /\ sys'.tog_d = s.tog_d /\ sys'.hold = s.hold
        /\ sys'.reset = s.reset /\ sys'.w = s.w /\ sys'.req = s.req /\ sys'.addr = s.addr /\ sys'.rreq = s.rreq /\ sys'.rd_done = s.rd_done
    BY <2>1
  <2>3. CASE sys.rd_done = TRUE
    <3>1. /\ host' \in GsHost /\ host'.sent = host.sent /\ host'.reads = host.reads /\ host'.call = host.call /\ host'.told = host.told /\ host'.pc = "d0"
      BY <1>0, <2>1, <2>3 DEF GsHost, GsWriting, GsReading
    <3> QED BY <1>0, <1>2, <1>12, <2>3, <2>8, <3>1 DEF GsMoves
  <2>4. CASE sys.rd_done = FALSE
    <3>1. host' = host
      BY <2>1, <2>4
    <3> QED BY <1>0, <1>2, <1>12, <2>4, <2>8, <3>1 DEF GsMoves
  <2> QED BY <2>2, <2>3, <2>4
<1>13. CASE host.pc = "d0"
  <2>1. sys' = s /\ host' = [host EXCEPT !.pc = "d1", !.got[1] = c.rhold[1]]
    BY <1>3, <1>13 DEF Gs!Access
  <2>2. PICK g \in Pair : g[1] = c.rhold[1] /\ host' = [host EXCEPT !.pc = "d1", !.got = g]
    <3>1. [host.got EXCEPT ![1] = c.rhold[1]] \in Pair /\ [host.got EXCEPT ![1] = c.rhold[1]][1] = c.rhold[1]
      BY <1>0, <1>1 DEF Pair
    <3> QED BY <2>1, <3>1
  <2>8. sys' \in GsSys /\ sys'.ack = s.ack /\ sys'.ready = s.ready /\ sys'.rack = s.rack /\ sys'.tog = s.tog
        /\ sys'.tog_d = s.tog_d /\ sys'.hold = s.hold
        /\ sys'.reset = s.reset /\ sys'.w = s.w /\ sys'.req = s.req /\ sys'.addr = s.addr /\ sys'.rreq = s.rreq /\ sys'.rd_done = s.rd_done
    BY <2>1
  <2>9. /\ host' \in GsHost /\ host'.sent = host.sent /\ host'.reads = host.reads /\ host'.call = host.call /\ host'.told = host.told /\ host'.pc = "d1" /\ host'.got = g
    BY <1>0, <2>2 DEF GsHost, GsWriting, GsReading
  <2> QED BY <1>0, <1>2, <1>13, <2>2, <2>8, <2>9 DEF GsMoves
<1>14. CASE host.pc = "d1"
  <2>1. /\ sys' = s
        /\ host' = [host EXCEPT !.pc = "read", !.reads = @ + 1, !.call = None,
                                !.got[2] = c.rhold[2], !.told = <<host.got[1], c.rhold[2]>>]
    BY <1>3, <1>14 DEF Gs!Access
  <2>3. PICK g \in Pair : g = [host.got EXCEPT ![2] = c.rhold[2]]
    <3>1. [host.got EXCEPT ![2] = c.rhold[2]] \in Pair
      BY <1>0, <1>1 DEF Pair
    <3> QED BY <3>1
  <2>4. PICK n \in Nat : n = host.reads + 1
    BY <1>0
  <2>5. PICK t \in Port!Reply : t = <<host.got[1], c.rhold[2]>>
    BY <1>0, <1>1 DEF Pair, Port!Reply
  <2>2. /\ n = host.reads + 1 /\ t = <<host.got[1], c.rhold[2]>>
        /\ host' = [host EXCEPT !.pc = "read", !.reads = n, !.call = None, !.got = g, !.told = t]
    BY <2>1, <2>3, <2>4, <2>5
  <2>8. sys' \in GsSys /\ sys'.ack = s.ack /\ sys'.ready = s.ready /\ sys'.rack = s.rack /\ sys'.tog = s.tog
        /\ sys'.tog_d = s.tog_d /\ sys'.hold = s.hold
        /\ sys'.reset = s.reset /\ sys'.w = s.w /\ sys'.req = s.req /\ sys'.addr = s.addr /\ sys'.rreq = s.rreq /\ sys'.rd_done = s.rd_done
    BY <2>1
  <2>9. /\ host' \in GsHost /\ host'.sent = host.sent /\ host'.pc = "read" /\ host'.reads = n
        /\ host'.call = None /\ host'.told = t
    BY <1>0, <2>2 DEF GsHost, GsWriting, GsReading
  <2> QED BY <1>0, <1>2, <1>14, <2>2, <2>8, <2>9 DEF GsMoves
<1> QED
  BY <1>0, <1>4, <1>5, <1>6, <1>7, <1>8, <1>9, <1>10, <1>11, <1>12, <1>13, <1>14 DEF GsWriting, GsReading

-----------------------------------------------------------------------------
(* An edge of the core of the GS board. *)

GsTake == core.req[2] # core.ack /\ GsReady
GsValid == core.pend = TRUE /\ core.own[2] # None /\ core.rst[2] = FALSE

\* The read port at p, after an edge at which the address is addr.
GsReadAt(p, addr) ==
    /\ p.rd_en \in BOOLEAN /\ p.pend \in BOOLEAN /\ p.rack \in BOOLEAN /\ p.rhold \in Pair
    /\ p.own \in MaybePair \X MaybePair
    /\ p.rd_en = (core.rreq[2] # core.rack /\ core.pend = FALSE)
    /\ p.pend = ((core.pend = TRUE \/ p.rd_en = TRUE) /\ ~GsValid)
    /\ p.rhold = IF GsValid THEN core.own[2] ELSE core.rhold
    /\ p.rack = IF GsValid THEN core.rreq[2] ELSE core.rack
    /\ core.rst[2] = TRUE => p.own[1] = None /\ p.own[2] = None
    /\ core.rst[2] = FALSE =>
         /\ p.own[2] = core.own[1]
         /\ p.own[1] = None \/ (core.rd_en = TRUE /\ p.own[1] = <<addr, core.drawn>>)

\* What the rasteriser leaves of the quadword w.
Pushed(g, w) == Append(g, w)
GsDrawsAt(q, w) ==
    /\ q.gif \in Quadwords /\ q.work \in Nat /\ q.drawn \in Nat
    /\ q.gif = IF GsTake THEN Pushed(core.gif, w) ELSE core.gif
    /\ GsTake => q.drawn = core.drawn

GsClocks ==
    /\ core' \in GsCore
    /\ core'.rst[1] \in {clk.sys.reset, sys.reset} /\ core'.rst[2] = core.rst[1]
    /\ core'.req[1] \in {clk.sys.req, sys.req} /\ core'.req[2] = core.req[1]
    /\ core'.rreq[1] \in {clk.sys.rreq, sys.rreq} /\ core'.rreq[2] = core.rreq[1]
    /\ core'.ack = IF GsTake THEN core.req[2] ELSE core.ack
    /\ core'.cnt = (core.cnt + 1) % Period
    /\ core'.snap = IF core.cnt = 0 THEN <<core.drawn, core.drawn>> ELSE core.snap
    /\ core'.tog = IF core.cnt = 1 THEN ~core.tog ELSE core.tog
    /\ \E addr \in {clk.sys.addr, sys.addr} : GsReadAt(core', addr)
    /\ \E w \in Pair : /\ GsDrawsAt(core', w)
                       /\ w[1] \in {clk.sys.w[1], sys.w[1]} /\ w[2] \in {clk.sys.w[2], sys.w[2]}

LEMMA GsReadIs ==
  ASSUME core \in GsCore, NEW addr \in Nat, NEW granted \in BOOLEAN,
         NEW p, p = Gs!ReadPort(core, core.rreq[2], addr, granted)
  PROVE  /\ p \in GsCore /\ GsReadAt(p, addr)
         /\ p.rst = core.rst /\ p.req = core.req /\ p.rreq = core.rreq /\ p.ack = core.ack
         /\ p.cnt = core.cnt /\ p.snap = core.snap /\ p.tog = core.tog
         /\ p.gif = core.gif /\ p.work = core.work /\ p.drawn = core.drawn
<1>1. /\ core.rreq[2] \in BOOLEAN /\ core.rack \in BOOLEAN /\ core.pend \in BOOLEAN
      /\ core.rd_en \in BOOLEAN /\ core.rst[2] \in BOOLEAN /\ core.rhold \in Pair
      /\ core.own \in MaybePair \X MaybePair /\ core.drawn \in Nat
  BY DEF GsCore, Bits
<1>2. PICK a \in BOOLEAN : a = (core.rreq[2] # core.rack /\ ~core.pend)
  OBVIOUS
<1>3. PICK v \in BOOLEAN : /\ v = (core.pend /\ (core.own[2] # None /\ ~Gs!Out(core.rst)))
                           /\ v = GsValid
  BY <1>1 DEF Gs!Out, GsValid
<1>4. PICK o \in MaybePair \X MaybePair :
        /\ o = IF Gs!Out(core.rst) THEN <<None, None>>
               ELSE <<IF core.rd_en /\ granted THEN <<addr, core.drawn>> ELSE None, core.own[1]>>
        /\ core.rst[2] = TRUE => o[1] = None /\ o[2] = None
        /\ core.rst[2] = FALSE =>
             /\ o[2] = core.own[1]
             /\ o[1] = None \/ (core.rd_en = TRUE /\ o[1] = <<addr, core.drawn>>)
  <2>1. PICK x \in MaybePair : /\ x = IF core.rd_en /\ granted THEN <<addr, core.drawn>> ELSE None
                               /\ x = None \/ (core.rd_en = TRUE /\ x = <<addr, core.drawn>>)
    <3>1. <<addr, core.drawn>> \in MaybePair /\ None \in MaybePair
      BY <1>1 DEF MaybePair, Pair
    <3> QED BY <1>1, <3>1
  <2>2. core.own[1] \in MaybePair /\ None \in MaybePair
    BY <1>1 DEF MaybePair
  <2>3. PICK y \in MaybePair \X MaybePair : y = <<x, core.own[1]>> /\ y[1] = x /\ y[2] = core.own[1]
    <3>1. <<x, core.own[1]>> \in MaybePair \X MaybePair
      BY <2>1, <2>2
    <3> QED BY <3>1
  <2>4. PICK z \in MaybePair \X MaybePair : z = <<None, None>> /\ z[1] = None /\ z[2] = None
    <3>1. <<None, None>> \in MaybePair \X MaybePair
      BY <2>2
    <3> QED BY <3>1
  <2>5. CASE core.rst[2] = TRUE
    BY <2>4, <2>5 DEF Gs!Out
  <2>6. CASE core.rst[2] = FALSE
    BY <2>1, <2>3, <2>6 DEF Gs!Out
  <2> QED BY <1>1, <2>5, <2>6
<1>5. PICK h \in Pair, r \in BOOLEAN, d \in BOOLEAN :
        /\ h = IF v THEN core.own[2] ELSE core.rhold
        /\ r = IF v THEN core.rreq[2] ELSE core.rack
        /\ d = ((core.pend \/ a) /\ ~v)
  <2>1. v = TRUE => core.own[2] \in Pair
    BY <1>1, <1>3 DEF GsValid, MaybePair
  <2> QED BY <1>1, <2>1
<1>6. p = [core EXCEPT !.rd_en = a, !.pend = d, !.rhold = h, !.rack = r, !.own = o]
  <2>1. PICK v1 : v1 = (core.own[2] # None /\ ~Gs!Out(core.rst)) /\ v = (core.pend /\ v1)
    BY <1>3
  <2>2. p = [core EXCEPT
              !.rd_en = a,
              !.pend  = (core.pend \/ a) /\ ~(core.pend /\ v1),
              !.rhold = IF core.pend /\ v1 THEN core.own[2] ELSE core.rhold,
              !.rack  = IF core.pend /\ v1 THEN core.rreq[2] ELSE core.rack,
              !.own   = IF Gs!Out(core.rst) THEN <<None, None>>
                        ELSE <<IF core.rd_en /\ granted THEN <<addr, core.drawn>> ELSE None, core.own[1]>>]
    BY <1>2, <2>1 DEF Gs!ReadPort
  <2> QED BY <1>4, <1>5, <2>1, <2>2
<1>7. /\ p \in GsCore /\ p.rd_en = a /\ p.pend = d /\ p.rhold = h /\ p.rack = r /\ p.own = o
      /\ p.rst = core.rst /\ p.req = core.req /\ p.rreq = core.rreq /\ p.ack = core.ack
      /\ p.cnt = core.cnt /\ p.snap = core.snap /\ p.tog = core.tog
      /\ p.gif = core.gif /\ p.work = core.work /\ p.drawn = core.drawn
  BY <1>6, ZenonT(60) DEF GsCore
<1>8. /\ a = (core.rreq[2] # core.rack /\ core.pend = FALSE)
      /\ d = ((core.pend = TRUE \/ a = TRUE) /\ ~GsValid)
      /\ h = IF GsValid THEN core.own[2] ELSE core.rhold
      /\ r = IF GsValid THEN core.rreq[2] ELSE core.rack
  BY <1>1, <1>2, <1>3, <1>5
<1>9. GsReadAt(p, addr)
  BY <1>4, <1>5, <1>7, <1>8 DEF GsReadAt
<1> QED BY <1>7, <1>9

LEMMA GsDrawsIs ==
  ASSUME core \in GsCore, NEW p \in GsCore, p.rst = core.rst, p.gif = core.gif,
         p.work = core.work, p.drawn = core.drawn,
         NEW take, take = GsTake, NEW w \in Pair, NEW k \in Nat, NEW q, q = Gs!Rasterise(p, take, w, k)
  PROVE  /\ q \in GsCore /\ GsDrawsAt(q, w)
         /\ q.rd_en = p.rd_en /\ q.pend = p.pend /\ q.rhold = p.rhold /\ q.rack = p.rack /\ q.own = p.own
         /\ q.rst = p.rst /\ q.req = p.req /\ q.rreq = p.rreq /\ q.ack = p.ack
<1>7. PICK n \in Nat : n = IF Gs!Out(p.rst) THEN 0 ELSE p.work
  BY DEF GsCore
<1>8. PICK i : i = [p EXCEPT !.work = n]
  OBVIOUS
<1>1. /\ i = [p EXCEPT !.work = n]
      /\ q = IF take THEN [i EXCEPT !.gif = Append(i.gif, w), !.work = k]
             ELSE IF i.work = 0 THEN i
             ELSE [i EXCEPT !.work = i.work - 1,
                            !.drawn = IF i.work = 1 THEN i.drawn + 1 ELSE i.drawn]
  BY <1>7, <1>8 DEF Gs!Rasterise
<1>2. /\ i \in GsCore /\ i.work = n /\ i.gif = core.gif /\ i.drawn = core.drawn
      /\ i.rd_en = p.rd_en /\ i.pend = p.pend /\ i.rhold = p.rhold /\ i.rack = p.rack /\ i.own = p.own
      /\ i.rst = p.rst /\ i.req = p.req /\ i.rreq = p.rreq /\ i.ack = p.ack
  BY <1>1 DEF GsCore
<1>3. core.gif \in Quadwords /\ core.drawn \in Nat /\ Pushed(core.gif, w) \in Quadwords
  <2>1. core.gif \in Quadwords /\ core.drawn \in Nat
    BY DEF GsCore
  <2> QED BY <2>1 DEF Quadwords, Pushed
<1>4. CASE GsTake
  <2>1. PICK g \in Quadwords : g = Pushed(core.gif, w)
    BY <1>3
  <2>2. q = [i EXCEPT !.gif = g, !.work = k]
    <3>1. q = [i EXCEPT !.gif = Append(i.gif, w), !.work = k]
      BY <1>1, <1>4
    <3>2. g = Append(i.gif, w)
      BY <1>2, <2>1 DEF Pushed
    <3> QED BY <3>1, <3>2
  <2>3. /\ q \in GsCore /\ q.gif = g /\ q.work = k /\ q.drawn = i.drawn
        /\ q.rd_en = i.rd_en /\ q.pend = i.pend /\ q.rhold = i.rhold /\ q.rack = i.rack /\ q.own = i.own
        /\ q.rst = i.rst /\ q.req = i.req /\ q.rreq = i.rreq /\ q.ack = i.ack
    BY <1>2, <2>2 DEF GsCore
  <2>4. GsDrawsAt(q, w)
    BY <1>2, <1>3, <1>4, <2>1, <2>3 DEF GsDrawsAt
  <2> QED BY <1>2, <2>3, <2>4
<1>5. CASE ~GsTake /\ i.work = 0
  <2>1. q = i
    BY <1>1, <1>5
  <2>2. GsDrawsAt(q, w)
    BY <1>2, <1>3, <1>5, <2>1 DEF GsDrawsAt
  <2> QED BY <1>2, <2>1, <2>2
<1>6. CASE ~GsTake /\ i.work # 0
  <2>5. PICK m \in Nat : m = i.work - 1
    BY <1>2, <1>6
  <2>6. PICK d \in Nat : d = IF i.work = 1 THEN i.drawn + 1 ELSE i.drawn
    BY <1>2, <1>3
  <2>1. m = i.work - 1 /\ d = IF i.work = 1 THEN i.drawn + 1 ELSE i.drawn
    BY <2>5, <2>6
  <2>2. q = [i EXCEPT !.work = m, !.drawn = d]
    BY <1>1, <1>6, <2>1
  <2>3. /\ q \in GsCore /\ q.gif = i.gif /\ q.work = m /\ q.drawn = d
        /\ q.rd_en = i.rd_en /\ q.pend = i.pend /\ q.rhold = i.rhold /\ q.rack = i.rack /\ q.own = i.own
        /\ q.rst = i.rst /\ q.req = i.req /\ q.rreq = i.rreq /\ q.ack = i.ack
    BY <1>2, <2>1, <2>2 DEF GsCore
  <2>4. GsDrawsAt(q, w)
    BY <1>2, <1>3, <1>6, <2>1, <2>3 DEF GsDrawsAt
  <2> QED BY <1>2, <2>3, <2>4
<1> QED BY <1>4, <1>5, <1>6

LEMMA GsCaughtIs ==
  ASSUME GsTypes,
         NEW reset \in Gs!Caught(clk.sys.reset, sys.reset), NEW req \in Gs!Caught(clk.sys.req, sys.req),
         NEW rreq \in Gs!Caught(clk.sys.rreq, sys.rreq), NEW w \in Gs!Words(clk.sys.w, sys.w),
         NEW addr \in Gs!Caught(clk.sys.addr, sys.addr)
  PROVE  /\ reset \in BOOLEAN /\ req \in BOOLEAN /\ rreq \in BOOLEAN /\ addr \in Nat /\ w \in Pair
         /\ reset \in {clk.sys.reset, sys.reset} /\ req \in {clk.sys.req, sys.req}
         /\ rreq \in {clk.sys.rreq, sys.rreq} /\ addr \in {clk.sys.addr, sys.addr}
         /\ w[1] \in {clk.sys.w[1], sys.w[1]} /\ w[2] \in {clk.sys.w[2], sys.w[2]}
<1>1. /\ clk.sys.reset \in BOOLEAN /\ sys.reset \in BOOLEAN /\ clk.sys.req \in BOOLEAN
      /\ sys.req \in BOOLEAN /\ clk.sys.rreq \in BOOLEAN /\ sys.rreq \in BOOLEAN
      /\ clk.sys.addr \in Nat /\ sys.addr \in Nat /\ clk.sys.w \in Pair /\ sys.w \in Pair
  BY DEF GsTypes, GsSys, GsClk
<1>2. w = <<w[1], w[2]>> /\ w[1] \in {clk.sys.w[1], sys.w[1]} /\ w[2] \in {clk.sys.w[2], sys.w[2]}
  BY GsWordsAre
<1>3. w \in Pair
  BY <1>1, <1>2 DEF Pair
<1> QED BY <1>1, <1>2, <1>3 DEF Gs!Caught

LEMMA GsSnapIs ==
  ASSUME core \in GsCore, NEW p, p = Gs!Snap(core, <<core.drawn, core.drawn>>, Period)
  PROVE  /\ p.cnt \in 0 .. Period - 1 /\ p.snap \in Pair /\ p.tog \in BOOLEAN
         /\ p.cnt = (core.cnt + 1) % Period
         /\ p.snap = IF core.cnt = 0 THEN <<core.drawn, core.drawn>> ELSE core.snap
         /\ p.tog = IF core.cnt = 1 THEN ~core.tog ELSE core.tog
<1>1. /\ core.cnt \in 0 .. Period - 1 /\ core.drawn \in Nat /\ core.snap \in Pair /\ core.tog \in BOOLEAN
  BY DEF GsCore
<1>2. (core.cnt + 1) % Period \in 0 .. Period - 1
  BY <1>1, Periods
<1>3. <<core.drawn, core.drawn>> \in Pair
  BY <1>1 DEF Pair
<1>4. /\ p.cnt = (core.cnt + 1) % Period
      /\ p.snap = IF core.cnt = 0 THEN <<core.drawn, core.drawn>> ELSE core.snap
      /\ p.tog = IF core.cnt = 1 THEN ~core.tog ELSE core.tog
  BY DEF Gs!Snap
<1> QED BY <1>1, <1>2, <1>3, <1>4

LEMMA GsCoreStep ==
  ASSUME GsTypes, Gs!CoreEdge
  PROVE  /\ GsClocks /\ GsTicks /\ sys' = sys /\ host' = host
         /\ clk.ahead < Lead /\ clk'.ahead = clk.ahead + 1 /\ clk'.fresh = TRUE
<1>1. PICK reset \in Gs!Caught(clk.sys.reset, sys.reset), req \in Gs!Caught(clk.sys.req, sys.req),
           rreq \in Gs!Caught(clk.sys.rreq, sys.rreq), w \in Gs!Words(clk.sys.w, sys.w),
           addr \in Gs!Caught(clk.sys.addr, sys.addr), k \in 0 .. Work, granted \in Gs!Grants :
         LET take == Gs!Out(core.req) # core.ack /\ Gs!CoreOut.ready
             snap == Gs!Snap(core, <<core.drawn, core.drawn>>, Period)
         IN  /\ ~take => k = 0
             /\ core' = [Gs!Rasterise(Gs!ReadPort(core, Gs!Out(core.rreq), addr, granted), take, w, k)
                         EXCEPT !.rst  = Gs!Clocked(@, reset),
                                !.req  = Gs!Clocked(@, req),
                                !.rreq = Gs!Clocked(@, rreq),
                                !.ack  = IF take THEN Gs!Out(core.req) ELSE @,
                                !.cnt  = snap.cnt, !.snap = snap.snap, !.tog = snap.tog]
  BY DEF Gs!CoreEdge
<1>2. /\ reset \in BOOLEAN /\ req \in BOOLEAN /\ rreq \in BOOLEAN /\ addr \in Nat /\ w \in Pair
      /\ reset \in {clk.sys.reset, sys.reset} /\ req \in {clk.sys.req, sys.req}
      /\ rreq \in {clk.sys.rreq, sys.rreq} /\ addr \in {clk.sys.addr, sys.addr}
      /\ w[1] \in {clk.sys.w[1], sys.w[1]} /\ w[2] \in {clk.sys.w[2], sys.w[2]}
  BY GsCaughtIs
<1>3. core \in GsCore /\ clk.ahead \in 0 .. Lead /\ granted \in BOOLEAN /\ k \in Nat
  <2>1. granted \in BOOLEAN
    BY DEF Gs!Grants
  <2>2. k \in Nat
    BY PortsFit DEF Gs!BoardGsAssumption
  <2> QED BY <2>1, <2>2 DEF GsTypes, GsClk
<1>4. PICK p : p = Gs!ReadPort(core, core.rreq[2], addr, granted)
  OBVIOUS
<1>5. /\ p \in GsCore /\ GsReadAt(p, addr)
      /\ p.rst = core.rst /\ p.req = core.req /\ p.rreq = core.rreq /\ p.ack = core.ack
      /\ p.cnt = core.cnt /\ p.snap = core.snap /\ p.tog = core.tog
      /\ p.gif = core.gif /\ p.work = core.work /\ p.drawn = core.drawn
  BY <1>2, <1>3, <1>4, GsReadIs
<1>6. PICK take \in BOOLEAN : take = GsTake /\ take = (Gs!Out(core.req) # core.ack /\ Gs!CoreOut.ready)
  <2>1. core.rst[2] \in BOOLEAN
    BY <1>3 DEF GsCore, Bits
  <2>2. Gs!CoreOut.ready = (~Gs!Out(core.rst) /\ core.work = 0)
    BY DEF Gs!CoreOut
  <2>3. (Gs!Out(core.req) # core.ack /\ Gs!CoreOut.ready) = GsTake
    BY <2>1, <2>2 DEF Gs!Out, GsTake, GsReady
  <2>4. GsTake \in BOOLEAN
    BY DEF GsTake
  <2> QED BY <2>3, <2>4
<1>7. PICK q : q = Gs!Rasterise(p, take, w, k)
  OBVIOUS
<1>8. /\ q \in GsCore /\ GsDrawsAt(q, w)
      /\ q.rd_en = p.rd_en /\ q.pend = p.pend /\ q.rhold = p.rhold /\ q.rack = p.rack /\ q.own = p.own
      /\ q.rst = p.rst /\ q.req = p.req /\ q.rreq = p.rreq /\ q.ack = p.ack
  BY <1>2, <1>3, <1>5, <1>6, <1>7, GsDrawsIs
<1>9. PICK n : n = Gs!Snap(core, <<core.drawn, core.drawn>>, Period)
  OBVIOUS
<1>10. /\ n.cnt \in 0 .. Period - 1 /\ n.snap \in Pair /\ n.tog \in BOOLEAN
       /\ n.cnt = (core.cnt + 1) % Period
       /\ n.snap = IF core.cnt = 0 THEN <<core.drawn, core.drawn>> ELSE core.snap
       /\ n.tog = IF core.cnt = 1 THEN ~core.tog ELSE core.tog
  BY <1>3, <1>9, GsSnapIs
<1>11. PICK f, g, h : f = Gs!Clocked(q.rst, reset) /\ g = Gs!Clocked(q.req, req) /\ h = Gs!Clocked(q.rreq, rreq)
  OBVIOUS
<1>12. PICK a \in BOOLEAN : a = IF GsTake THEN core.req[2] ELSE core.ack
  BY <1>3 DEF GsCore, Bits
<1>13. core' = [q EXCEPT !.rst = f, !.req = g, !.rreq = h, !.ack = a,
                         !.cnt = n.cnt, !.snap = n.snap, !.tog = n.tog]
  <2>1. core' = [q EXCEPT !.rst = Gs!Clocked(q.rst, reset), !.req = Gs!Clocked(q.req, req),
                          !.rreq = Gs!Clocked(q.rreq, rreq),
                          !.ack = IF take THEN Gs!Out(core.req) ELSE q.ack,
                          !.cnt = n.cnt, !.snap = n.snap, !.tog = n.tog]
    BY <1>1, <1>4, <1>6, <1>7, <1>9 DEF Gs!Out
  <2>2. (IF take THEN Gs!Out(core.req) ELSE q.ack) = a
    <3>1. q.ack = core.ack
      BY <1>5, <1>8
    <3>2. CASE GsTake
      <4>1. take = TRUE
        BY <1>6, <3>2
      <4> QED BY <1>12, <3>2, <4>1 DEF Gs!Out
    <3>3. CASE ~GsTake
      <4>1. take = FALSE
        BY <1>6, <3>3
      <4> QED BY <1>12, <3>1, <3>3, <4>1
    <3> QED BY <3>2, <3>3
  <2> QED BY <1>11, <2>1, <2>2
<1>14. /\ f \in Bits /\ f[1] = reset /\ f[2] = core.rst[1]
       /\ g \in Bits /\ g[1] = req /\ g[2] = core.req[1]
       /\ h \in Bits /\ h[1] = rreq /\ h[2] = core.rreq[1]
  BY <1>2, <1>3, <1>5, <1>8, <1>11 DEF Gs!Clocked, GsCore, Bits
<1>15. core' \in GsCore
  BY <1>8, <1>10, <1>12, <1>13, <1>14, ZenonT(60) DEF GsCore
<1>16. /\ core'.rst = f /\ core'.req = g /\ core'.rreq = h /\ core'.ack = a /\ core'.cnt = n.cnt
       /\ core'.snap = n.snap /\ core'.tog = n.tog
       /\ core'.rd_en = q.rd_en /\ core'.pend = q.pend /\ core'.rhold = q.rhold
       /\ core'.rack = q.rack /\ core'.own = q.own
       /\ core'.gif = q.gif /\ core'.work = q.work /\ core'.drawn = q.drawn
  BY <1>8, <1>13 DEF GsCore
<1>17. GsReadAt(core', addr)
  BY <1>5, <1>8, <1>16 DEF GsReadAt
<1>18. GsDrawsAt(core', w)
  BY <1>8, <1>16 DEF GsDrawsAt
<1>19. GsClocks
  BY <1>2, <1>10, <1>12, <1>14, <1>15, <1>16, <1>17, <1>18 DEF GsClocks
<1>20. sys' = sys /\ host' = host /\ clk.ahead < Lead
  BY DEF Gs!CoreEdge
<1>21. GsTicks /\ clk'.ahead = clk.ahead + 1 /\ clk'.fresh = TRUE
  <2>1. clk.ahead + 1 \in 0 .. Lead /\ TRUE \in BOOLEAN
    BY <1>3, <1>20, Periods
  <2>2. clk' = [sys |-> Gs!SysOut, core |-> Gs!CoreOut, ahead |-> clk.ahead + 1, fresh |-> TRUE]
    BY DEF Gs!CoreEdge
  <2> QED BY <2>1, <2>2, GsTicksIs
<1> QED BY <1>19, <1>20, <1>21

-----------------------------------------------------------------------------
(* The invariant over an edge of sys. *)

GsMoved(s, c) == clk.fresh = TRUE /\ clk'.fresh = FALSE /\ GsMoves(s, c)

GsSteps(s, c) ==
    /\ s \in GsSys /\ GsLeaves(s, c) /\ GsTicks /\ clk'.ahead = 0 /\ core' = core
    /\ GsQuiet(s) \/ GsMoved(s, c)

LEMMA GsSysDoes ==
  ASSUME GsTypes, Gs!SysEdge
  PROVE  GsTypes' /\ \E s, c : GsSteps(s, c)
<1>1. /\ GsTicks /\ clk'.ahead = 0 /\ core' = core
      /\ \E s, c : s \in GsSys /\ GsLeaves(s, c) /\ (GsQuiet(s) \/ GsActs(s, c))
  BY GsSysStep
<1>2. PICK s, c : s \in GsSys /\ GsLeaves(s, c) /\ (GsQuiet(s) \/ GsActs(s, c))
  BY <1>1
<1>3. GsActs(s, c) => GsMoves(s, c)
  BY <1>2, GsMovesIs
<1>4. GsSteps(s, c)
  BY <1>1, <1>2, <1>3 DEF GsSteps, GsActs, GsMoved
<1>5. sys' \in GsSys /\ host' \in GsHost
  <2>1. CASE GsQuiet(s)
    BY <1>2, <2>1 DEF GsQuiet, GsTypes
  <2>2. CASE GsActs(s, c)
    BY <1>3, <2>2 DEF GsMoves
  <2> QED BY <1>2, <2>1, <2>2
<1>6. GsTypes'
  BY <1>1, <1>5 DEF GsTypes, GsTicks
<1> QED BY <1>4, <1>6

LEMMA GsBits ==
  ASSUME GsTypes
  PROVE  /\ sys.req \in BOOLEAN /\ clk.sys.req \in BOOLEAN /\ core.req[1] \in BOOLEAN
         /\ core.req[2] \in BOOLEAN /\ core.ack \in BOOLEAN /\ clk.core.ack \in BOOLEAN
         /\ sys.ack[1] \in BOOLEAN /\ sys.ack[2] \in BOOLEAN
         /\ sys.rreq \in BOOLEAN /\ clk.sys.rreq \in BOOLEAN /\ core.rreq[1] \in BOOLEAN
         /\ core.rreq[2] \in BOOLEAN /\ core.rack \in BOOLEAN /\ clk.core.rack \in BOOLEAN
         /\ sys.rack[1] \in BOOLEAN /\ sys.rack[2] \in BOOLEAN
         /\ sys.tog[1] \in BOOLEAN /\ sys.tog[2] \in BOOLEAN /\ sys.tog_d \in BOOLEAN
         /\ core.tog \in BOOLEAN /\ clk.core.tog \in BOOLEAN
  BY DEF GsTypes, GsSys, GsCore, GsClk, Bits

LEMMA GsFlags ==
  ASSUME GsTypes
  PROVE  /\ sys.reset \in BOOLEAN /\ clk.sys.reset \in BOOLEAN /\ core.rst[1] \in BOOLEAN
         /\ core.rst[2] \in BOOLEAN /\ sys.rd_done \in BOOLEAN /\ core.rd_en \in BOOLEAN
         /\ core.pend \in BOOLEAN /\ sys.ready[1] \in BOOLEAN /\ sys.ready[2] \in BOOLEAN
         /\ clk.core.ready \in BOOLEAN /\ clk.fresh \in BOOLEAN
         /\ host.pc \in GsWriting \cup GsReading
         /\ host.sent \in Nat /\ host.reads \in Nat
  BY DEF GsTypes, GsSys, GsCore, GsClk, GsHost, Bits

LEMMA GsValues ==
  ASSUME GsTypes
  PROVE  /\ core.snap = <<core.snap[1], core.snap[2]>> /\ sys.hold = <<sys.hold[1], sys.hold[2]>>
         /\ clk.core.snap = <<clk.core.snap[1], clk.core.snap[2]>>
         /\ core.cnt \in 0 .. Period - 1 /\ clk.ahead \in 0 .. Lead
         /\ core.rhold \in Pair /\ core.rhold = <<core.rhold[1], core.rhold[2]>>
         /\ core.drawn \in Nat /\ core.own[1] \in MaybePair /\ core.own[2] \in MaybePair
  BY DEF GsTypes, GsSys, GsCore, GsClk, Pair

LEMMA GsSysRuns ==
  ASSUME GsInv, NEW s, NEW c, GsSteps(s, c)
  PROVE  GsRuns'
<1>1. GsTypes /\ GsRuns
  BY DEF GsInv
<1>2. core' = core /\ clk'.sys.reset = sys.reset /\ clk'.core.ready = GsReady
  BY DEF GsSteps, GsTicks
<1>3. /\ s.ready[1] \in {clk.core.ready, GsReady} /\ s.ready[2] = sys.ready[1] /\ s.reset = sys.reset
  BY DEF GsSteps, GsLeaves
<1>4. GsReady = TRUE => core.rst[2] = FALSE
  BY DEF GsReady
<1>5. CASE GsQuiet(s)
  BY <1>1, <1>2, <1>3, <1>4, <1>5 DEF GsRuns, GsQuiet
<1>6. CASE GsMoved(s, c)
  <2>1. GsMoves(s, c)
    BY <1>6 DEF GsMoved
  <2>2. sys'.ready = s.ready
    BY <2>1 DEF GsMoves
  <2>3. CASE host.pc \in {"reset", "start"}
    BY <1>1, <1>2, <1>3, <1>4, <2>1, <2>2, <2>3, GsFlags DEF GsRuns, GsMoves, GsReading
  <2>4. CASE host.pc = "busy"
    BY <1>1, <1>2, <1>3, <1>4, <2>1, <2>2, <2>4, GsFlags DEF GsRuns, GsMoves, GsReading
  <2>5. CASE host.pc \in {"w0", "w1", "push"}
    BY <1>1, <1>2, <1>3, <1>4, <2>1, <2>2, <2>5, GsFlags DEF GsRuns, GsMoves, GsReading
  <2>6. CASE host.pc \in GsReading
    BY <1>1, <1>2, <1>3, <1>4, <2>1, <2>2, <2>6, GsFlags DEF GsRuns, GsMoves, GsReading
  <2> QED BY <1>1, <2>3, <2>4, <2>5, <2>6, GsFlags DEF GsWriting
<1> QED BY <1>5, <1>6 DEF GsSteps

\* What became of the two toggles.
LEMMA GsSysReq ==
  ASSUME GsInv, NEW s, NEW c, GsSteps(s, c)
  PROVE  /\ sys'.ack[1] \in {clk.core.ack, core.ack} /\ sys'.ack[2] = sys.ack[1]
         /\ sys'.rack[1] \in {clk.core.rack, core.rack} /\ sys'.rack[2] = sys.rack[1]
         /\ sys'.tog[1] \in {clk.core.tog, core.tog} /\ sys'.tog[2] = sys.tog[1]
         /\ sys'.tog_d = sys.tog[2] /\ sys'.hold = s.hold
         /\ \/ sys'.req = sys.req
            \/ host.pc = "push" /\ host'.pc = "busy" /\ host'.call # None
         /\ host'.pc # "busy" \/ host'.call = None =>
              host.pc # "busy" \/ host.call = None \/ sys.req = sys.ack[2]
         /\ \/ sys'.rreq = sys.rreq
            \/ host.pc = "read" /\ host'.pc = "done" /\ sys'.rd_done = FALSE
         /\ host'.pc # "done" \/ sys'.rd_done = TRUE =>
              host.pc # "done" \/ sys.rd_done = TRUE \/ sys.rreq = sys.rack[2]
<1>1. GsTypes /\ host.pc \in GsWriting \cup GsReading
  BY GsFlags DEF GsInv
<1>2. CASE GsQuiet(s)
  BY <1>1, <1>2, GsFlags DEF GsSteps, GsLeaves, GsQuiet
<1>3. CASE GsMoved(s, c)
  <2>1. GsMoves(s, c) /\ GsLeaves(s, c)
    BY <1>3 DEF GsMoved, GsSteps
  <2>2. /\ sys'.ack[1] \in {clk.core.ack, core.ack} /\ sys'.ack[2] = sys.ack[1]
        /\ sys'.rack[1] \in {clk.core.rack, core.rack} /\ sys'.rack[2] = sys.rack[1]
        /\ sys'.tog[1] \in {clk.core.tog, core.tog} /\ sys'.tog[2] = sys.tog[1]
        /\ sys'.tog_d = sys.tog[2] /\ sys'.hold = s.hold
    BY <2>1 DEF GsMoves, GsLeaves
  <2>3. \/ sys'.req = sys.req
        \/ host.pc = "push" /\ host'.pc = "busy" /\ host'.call # None
    <3>1. host.pc = "push" => host'.call # None
      <4>1. host.pc = "push" =>
              host'.call = [op |-> "write", addr |-> Gs!Gif, data |-> <<host.sent + 1, host.sent + 1>>]
        BY <2>1 DEF GsMoves
      <4>2. host.sent + 1 \in Nat
        BY <1>1, GsFlags
      <4> QED BY <4>1, <4>2, GsCallIs
    <3> QED BY <2>1, <3>1 DEF GsMoves
  <2>4. host'.pc # "busy" \/ host'.call = None =>
          host.pc # "busy" \/ host.call = None \/ sys.req = sys.ack[2]
    BY <2>1 DEF GsMoves
  <2>5. \/ sys'.rreq = sys.rreq
        \/ host.pc = "read" /\ host'.pc = "done" /\ sys'.rd_done = FALSE
    BY <2>1 DEF GsMoves
  <2>6. host'.pc # "done" \/ sys'.rd_done = TRUE =>
          host.pc # "done" \/ sys.rd_done = TRUE \/ sys.rreq = sys.rack[2]
    BY <1>1, <2>1, GsFlags DEF GsMoves, GsLeaves
  <2> QED BY <2>2, <2>3, <2>4, <2>5, <2>6
<1> QED BY <1>2, <1>3 DEF GsSteps

LEMMA GsSysHands ==
  ASSUME GsInv, NEW s, NEW c, GsSteps(s, c), GsTypes'
  PROVE  GsHands'
<1>1. GsTypes /\ GsHands
  BY DEF GsInv
<1>2. sys'.req \in BOOLEAN /\ sys'.rreq \in BOOLEAN
  BY DEF GsTypes, GsSys
<1>3. /\ core' = core /\ clk'.sys.req = sys.req /\ clk'.core.ack = core.ack
      /\ clk'.sys.rreq = sys.rreq /\ clk'.core.rack = core.rack
      /\ sys'.ack[2] = sys.ack[1] /\ sys'.rack[2] = sys.rack[1]
  BY GsSysReq DEF GsSteps, GsTicks
<1>4. PICK g1 : g1 = sys'.ack[1] /\ g1 \in {clk.core.ack, core.ack}
  BY GsSysReq
<1>5. PICK g2 : g2 = sys'.rack[1] /\ g2 \in {clk.core.rack, core.rack}
  BY GsSysReq
<1>6. /\ Passing(sys.req, clk.sys.req, core.req[1], core.req[2],
                 core.ack, clk.core.ack, sys.ack[1], sys.ack[2])
      /\ Passing(sys.rreq, clk.sys.rreq, core.rreq[1], core.rreq[2],
                 core.rack, clk.core.rack, sys.rack[1], sys.rack[2])
  BY <1>1 DEF GsHands
<1>7. /\ Passing(sys'.req, sys.req, core.req[1], core.req[2], core.ack, core.ack, g1, sys.ack[1])
      /\ host'.pc # "busy" \/ host'.call = None => sys'.req = sys.ack[1]
  <2>1. CASE sys'.req = sys.req
    <3>1. host'.pc # "busy" \/ host'.call = None => sys.req = sys.ack[2]
      BY <1>1, GsSysReq DEF GsHands
    <3> QED BY <1>1, <1>4, <1>6, <2>1, <3>1, GsBits DEF Passing
  <2>2. CASE sys'.req # sys.req
    <3>1. host'.pc = "busy" /\ host'.call # None /\ host.pc = "push"
      BY <2>2, GsSysReq
    <3>2. sys.req = sys.ack[2]
      BY <1>1, <3>1 DEF GsHands
    <3> QED BY <1>1, <1>2, <1>4, <1>6, <3>1, <3>2, GsBits DEF Passing
  <2> QED BY <2>1, <2>2
<1>8. /\ Passing(sys'.rreq, sys.rreq, core.rreq[1], core.rreq[2], core.rack, core.rack, g2, sys.rack[1])
      /\ host'.pc # "done" \/ sys'.rd_done = TRUE => sys'.rreq = sys.rack[1]
  <2>1. CASE sys'.rreq = sys.rreq
    <3>1. host'.pc # "done" \/ sys'.rd_done = TRUE => sys.rreq = sys.rack[2]
      BY <1>1, GsSysReq DEF GsHands
    <3> QED BY <1>1, <1>5, <1>6, <2>1, <3>1, GsBits DEF Passing
  <2>2. CASE sys'.rreq # sys.rreq
    <3>1. host'.pc = "done" /\ sys'.rd_done = FALSE /\ host.pc = "read"
      BY <2>2, GsSysReq
    <3>2. sys.rreq = sys.rack[2]
      BY <1>1, <3>1 DEF GsHands
    <3> QED BY <1>1, <1>2, <1>5, <1>6, <3>1, <3>2, GsBits DEF Passing
  <2> QED BY <2>1, <2>2
<1> QED BY <1>3, <1>4, <1>5, <1>7, <1>8 DEF GsHands

LEMMA GsSysAsked ==
  ASSUME GsInv, NEW s, NEW c, GsSteps(s, c)
  PROVE  GsAsked'
<1>1. GsTypes /\ GsAsked /\ host.pc \in GsWriting \cup GsReading /\ host.sent \in Nat /\ host.reads \in Nat
  BY GsFlags DEF GsInv
<1>2. clk'.sys.addr = sys.addr /\ clk'.sys.rreq = sys.rreq /\ clk'.sys.w = sys.w
  BY DEF GsSteps, GsTicks
<1>3. CASE GsQuiet(s)
  BY <1>1, <1>2, <1>3 DEF GsAsked, GsSteps, GsLeaves, GsQuiet
<1>4. CASE GsMoved(s, c)
  <2>1. GsMoves(s, c) /\ clk'.fresh = FALSE
    BY <1>4 DEF GsMoved
  <2>2. CASE host.pc \in {"reset", "start", "w0", "w1"}
    BY <1>1, <1>2, <2>1, <2>2 DEF GsAsked, GsMoves
  <2>3. CASE host.pc = "busy"
    <3>1. /\ sys'.w = sys.w /\ host'.sent = host.sent /\ host'.pc \in {"busy", "w0", "pixels"}
          /\ host'.call = None \/ (host'.pc = "busy" /\ host'.call = host.call)
      BY <2>1, <2>3 DEF GsMoves
    <3> QED BY <1>1, <1>2, <2>3, <3>1 DEF GsAsked
  <2>4. CASE host.pc = "push"
    BY <1>1, <1>2, <2>1, <2>4 DEF GsAsked, GsMoves
  <2>5. CASE host.pc \in {"pixels", "d1"}
    BY <1>1, <1>2, <2>1, <2>5 DEF GsAsked, GsMoves
  <2>6. CASE host.pc = "read"
    <3>1. /\ host'.pc = "done" /\ host.reads < Reads /\ sys'.addr = host.reads
          /\ sys'.rreq # sys.rreq /\ host'.reads = host.reads
          /\ host'.call = [op |-> "read", addr |-> Gs!Word(host.reads), data |-> <<>>]
      BY <2>1, <2>6 DEF GsMoves
    <3> QED BY <1>2, <3>1 DEF GsAsked
  <2>7. CASE host.pc \in {"done", "d0"}
    <3>1. /\ host'.pc \in {"done", "d0", "d1"} /\ sys'.addr = sys.addr /\ sys'.rreq = sys.rreq
          /\ host'.reads = host.reads /\ host'.call = host.call
      BY <2>1, <2>7 DEF GsMoves
    <3> QED BY <1>1, <1>2, <2>7, <3>1 DEF GsAsked
  <2> QED BY <1>1, <2>2, <2>3, <2>4, <2>5, <2>6, <2>7 DEF GsWriting, GsReading
<1> QED BY <1>3, <1>4 DEF GsSteps

\* Where a quadword and a read are, while the port has them.
LEMMA GsPlace ==
  ASSUME GsTypes, GsHands
  PROVE  /\ core.req[2] # core.ack => /\ host.pc = "busy" /\ host.call # None
                                      /\ sys.req = core.req[2] /\ clk.sys.req = sys.req
                                      /\ core.req[1] = sys.req /\ sys.req # sys.ack[2]
         /\ sys.req = sys.ack[2] => core.req[2] = core.ack /\ core.ack = sys.req
         /\ core.rreq[2] # core.rack => /\ host.pc = "done" /\ sys.rd_done = FALSE
                                        /\ sys.rreq = core.rreq[2] /\ clk.sys.rreq = sys.rreq
                                        /\ core.rreq[1] = sys.rreq /\ sys.rreq # sys.rack[2]
         /\ sys.rreq = sys.rack[2] => /\ core.rreq[2] = core.rack /\ core.rack = sys.rreq
                                      /\ clk.core.rack = core.rack
<1>1. /\ Passing(sys.req, clk.sys.req, core.req[1], core.req[2],
                 core.ack, clk.core.ack, sys.ack[1], sys.ack[2])
      /\ Passing(sys.rreq, clk.sys.rreq, core.rreq[1], core.rreq[2],
                 core.rack, clk.core.rack, sys.rack[1], sys.rack[2])
  BY DEF GsHands
<1>2. core.req[2] # core.ack => /\ sys.req = core.req[2] /\ clk.sys.req = sys.req
                                /\ core.req[1] = sys.req /\ sys.req # sys.ack[2]
  BY <1>1, GsBits DEF Passing
<1>3. sys.req = sys.ack[2] => core.req[2] = core.ack /\ core.ack = sys.req
  BY <1>1, GsBits DEF Passing
<1>4. core.rreq[2] # core.rack => /\ sys.rreq = core.rreq[2] /\ clk.sys.rreq = sys.rreq
                                  /\ core.rreq[1] = sys.rreq /\ sys.rreq # sys.rack[2]
  BY <1>1, GsBits DEF Passing
<1>5. sys.rreq = sys.rack[2] => /\ core.rreq[2] = core.rack /\ core.rack = sys.rreq
                                /\ clk.core.rack = core.rack
  BY <1>1, GsBits DEF Passing
<1>6. sys.rd_done \in BOOLEAN
  BY GsFlags
<1> QED BY <1>2, <1>3, <1>4, <1>5, <1>6 DEF GsHands

LEMMA GsSysPort ==
  ASSUME GsInv, NEW s, NEW c, GsSteps(s, c)
  PROVE  GsPort'
<1>1. GsTypes /\ GsHands /\ GsPort /\ host.pc \in GsWriting \cup GsReading
  BY GsFlags DEF GsInv
<1>2. core' = core /\ clk'.core.rack = core.rack /\ clk'.core.rhold = core.rhold
  BY DEF GsSteps, GsTicks
<1>3. host'.pc = "d1" => host'.got[1] = core.rhold[1]
  <2>1. CASE GsQuiet(s)
    BY <1>1, <2>1 DEF GsQuiet, GsPort
  <2>2. CASE GsMoved(s, c)
    <3>1. host'.pc = "d1" => host.pc = "d0" /\ host'.got[1] = c.rhold[1]
      BY <1>1, <2>2 DEF GsMoved, GsMoves, GsWriting, GsReading
    <3>2. host.pc = "d0" => clk.core.rhold = core.rhold
      BY <1>1, GsPlace DEF GsHands, GsPort
    <3> QED BY <3>1, <3>2 DEF GsSteps, GsLeaves
  <2> QED BY <2>1, <2>2 DEF GsSteps
<1> QED BY <1>1, <1>2, <1>3 DEF GsPort

LEMMA GsSysHold ==
  ASSUME GsInv, NEW s, NEW c, GsSteps(s, c)
  PROVE  /\ sys.tog[2] = sys.tog_d => s.hold = sys.hold
         /\ sys.tog[2] # sys.tog_d => s.hold = core.snap /\ clk.core.snap = core.snap
<1>1. GsTypes /\ Announced(sys, core, clk)
  BY DEF GsInv, GsWhole
<1>2. sys.tog[2] # sys.tog_d => clk.core.snap = core.snap
  BY <1>1, GsBits DEF Announced
<1>3. s.hold = <<s.hold[1], s.hold[2]>> /\ core.snap = <<core.snap[1], core.snap[2]>>
  <2>1. s.hold \in Pair
    BY DEF GsSteps, GsSys
  <2> QED BY <1>1, <2>1, GsValues DEF Pair
<1> QED BY <1>2, <1>3 DEF GsSteps, GsLeaves

LEMMA GsSysWhole ==
  ASSUME GsInv, NEW s, NEW c, GsSteps(s, c)
  PROVE  GsWhole'
<1>1. GsTypes /\ GsWhole /\ Announced(sys, core, clk)
  BY DEF GsInv, GsWhole
<1>2. core' = core /\ clk'.core.tog = core.tog /\ clk'.core.snap = core.snap /\ clk'.ahead = 0
  BY DEF GsSteps, GsTicks
<1>3. /\ sys'.tog[1] \in {clk.core.tog, core.tog} /\ sys'.tog[2] = sys.tog[1]
      /\ sys'.tog_d = sys.tog[2] /\ sys'.hold = s.hold
  BY GsSysReq
<1>4. /\ sys.tog[2] = sys.tog_d => s.hold = sys.hold
      /\ sys.tog[2] # sys.tog_d => s.hold = core.snap /\ clk.core.snap = core.snap
  BY GsSysHold
<1>5. Announced(sys', core, clk')
  <2>1. /\ core.cnt \in 0 .. Period - 1 /\ clk.ahead \in 0 .. Lead
        /\ core.tog \in BOOLEAN /\ clk.core.tog \in BOOLEAN /\ sys.tog_d \in BOOLEAN
        /\ sys.tog[1] \in BOOLEAN /\ sys.tog[2] \in BOOLEAN
    BY <1>1, GsValues, GsBits
  <2>2. /\ sys.tog[2] = sys.tog_d => sys'.hold = sys.hold
        /\ sys.tog[2] # sys.tog_d /\ clk.core.snap = core.snap => sys'.hold = core.snap
    BY <1>3, <1>4
  <2>3. PICK s1, k1 : s1 = sys' /\ k1 = clk'
    OBVIOUS
  <2>4. Announced(s1, core, k1)
    BY <1>1, <1>2, <1>3, <2>1, <2>2, <2>3, AnnouncedBack
  <2> QED BY <2>3, <2>4
<1>6. sys'.hold[1] = sys'.hold[2]
  BY <1>1, <1>3, <1>4 DEF GsWhole
<1>7. Announced(sys, core, clk)'
  BY <1>2, <1>5 DEF Announced, Turn
<1> QED BY <1>1, <1>2, <1>6, <1>7 DEF GsWhole

LEMMA GsSysInv == GsInv /\ Gs!SysEdge => GsInv'
<1> SUFFICES ASSUME GsInv, Gs!SysEdge PROVE GsInv'
  OBVIOUS
<1>1. GsTypes
  BY DEF GsInv
<1>2. GsTypes'
  BY <1>1, GsSysDoes
<1>3. PICK s, c : GsSteps(s, c)
  BY <1>1, GsSysDoes
<1>4. GsRuns' /\ GsHands'
  BY <1>2, <1>3, GsSysRuns, GsSysHands
<1>5. GsAsked' /\ GsPort'
  BY <1>3, GsSysAsked, GsSysPort
<1>6. GsWhole'
  BY <1>3, GsSysWhole
<1> QED BY <1>2, <1>4, <1>5, <1>6 DEF GsInv

-----------------------------------------------------------------------------
(* The invariant over an edge of the core. *)

GsCounts ==
    /\ GsClocks /\ GsTicks /\ sys' = sys /\ host' = host
    /\ clk.ahead < Lead /\ clk'.ahead = clk.ahead + 1 /\ clk'.fresh = TRUE

LEMMA GsCoreTypes == GsTypes /\ GsCounts => GsTypes'
  BY DEF GsTypes, GsCounts, GsClocks, GsTicks

LEMMA GsCoreRuns ==
  ASSUME GsTypes, GsRuns, GsCounts
  PROVE  GsRuns'
<1>1. /\ sys' = sys /\ host' = host /\ clk'.sys.reset = sys.reset /\ clk'.core.ready = GsReady
      /\ core'.rst[1] \in {clk.sys.reset, sys.reset} /\ core'.rst[2] = core.rst[1]
  BY DEF GsCounts, GsClocks, GsTicks
<1>2. GsReady = TRUE => core.rst[2] = FALSE
  BY DEF GsReady
<1>3. /\ sys.reset = FALSE => host.pc \notin {"reset", "start"}
      /\ clk.sys.reset = FALSE => sys.reset = FALSE
      /\ core.rst[1] = FALSE => clk.sys.reset = FALSE
      /\ core.rst[2] = FALSE => core.rst[1] = FALSE
      /\ clk.core.ready = TRUE \/ sys.ready[1] = TRUE \/ sys.ready[2] = TRUE => core.rst[2] = FALSE
      /\ host.pc \in GsReading => core.rst[2] = FALSE
  BY DEF GsRuns
<1>4. core.rst[1] = FALSE => core'.rst[1] = FALSE
  BY <1>1, <1>3, GsFlags
<1> QED BY <1>1, <1>2, <1>3, <1>4 DEF GsRuns

LEMMA GsCoreHands ==
  ASSUME GsTypes, GsHands, GsCounts
  PROVE  GsHands'
<1>1. PICK c1, e1 : /\ c1 = core'.req[1] /\ c1 \in {clk.sys.req, sys.req}
                    /\ e1 = core'.ack /\ e1 \in {core.ack, core.req[2]}
  BY DEF GsCounts, GsClocks
<1>2. PICK c2, e2 : /\ c2 = core'.rreq[1] /\ c2 \in {clk.sys.rreq, sys.rreq}
                    /\ e2 = core'.rack /\ e2 \in {core.rack, core.rreq[2]}
  <2>1. core'.rreq[1] \in {clk.sys.rreq, sys.rreq}
    BY DEF GsCounts, GsClocks
  <2>2. core'.rack \in {core.rack, core.rreq[2]}
    BY DEF GsCounts, GsClocks, GsReadAt
  <2> QED BY <2>1, <2>2
<1>3. /\ Passing(sys.req, clk.sys.req, core.req[1], core.req[2],
                 core.ack, clk.core.ack, sys.ack[1], sys.ack[2])
      /\ Passing(sys.rreq, clk.sys.rreq, core.rreq[1], core.rreq[2],
                 core.rack, clk.core.rack, sys.rack[1], sys.rack[2])
  BY DEF GsHands
<1>4. Passing(sys.req, sys.req, c1, core.req[1], e1, core.ack, sys.ack[1], sys.ack[2])
  BY <1>1, <1>3, GsBits DEF Passing
<1>5. Passing(sys.rreq, sys.rreq, c2, core.rreq[1], e2, core.rack, sys.rack[1], sys.rack[2])
  BY <1>2, <1>3, GsBits DEF Passing
<1>6. /\ sys' = sys /\ clk'.sys.req = sys.req /\ clk'.core.ack = core.ack
      /\ clk'.sys.rreq = sys.rreq /\ clk'.core.rack = core.rack
      /\ core'.req[2] = core.req[1] /\ core'.rreq[2] = core.rreq[1] /\ host' = host
  BY DEF GsCounts, GsTicks, GsClocks
<1> QED BY <1>1, <1>2, <1>4, <1>5, <1>6 DEF GsHands

LEMMA GsCoreAsked ==
  ASSUME GsAsked, GsCounts
  PROVE  GsAsked'
<1>1. /\ sys' = sys /\ clk'.sys.addr = sys.addr /\ clk'.sys.rreq = sys.rreq /\ clk'.sys.w = sys.w
      /\ host' = host
  BY DEF GsCounts, GsTicks
<1> QED BY <1>1 DEF GsAsked

\* What an edge of the core makes of a read.
LEMMA GsReads ==
  ASSUME GsInv, GsCounts
  PROVE  /\ core'.rd_en \in BOOLEAN /\ core'.pend \in BOOLEAN
         /\ GsValid \in BOOLEAN /\ core.own[1] \in MaybePair /\ core.own[2] \in MaybePair
         /\ core'.rd_en = TRUE => core.pend = FALSE /\ core.rreq[2] # core.rack
         /\ core.pend = FALSE /\ core.rreq[2] # core.rack => core'.rd_en = TRUE
         /\ core'.pend = TRUE <=> (core.pend = TRUE \/ core'.rd_en = TRUE) /\ ~GsValid
         /\ GsValid => core'.rhold = core.own[2] /\ core'.rack = core.rreq[2]
         /\ ~GsValid => core'.rhold = core.rhold /\ core'.rack = core.rack
         /\ core'.own[2] # None => core.rst[2] = FALSE /\ core'.own[2] = core.own[1]
         /\ core.rst[2] = FALSE => core'.own[2] = core.own[1]
         /\ core'.own[1] # None => core.rd_en = TRUE /\ core.rst[2] = FALSE
<1>1. GsTypes
  BY DEF GsInv
<1>2. PICK addr : GsReadAt(core', addr)
  BY DEF GsCounts, GsClocks
<1>3. GsValid \in BOOLEAN
  BY DEF GsValid
<1>4. /\ core'.rd_en \in BOOLEAN /\ core'.pend \in BOOLEAN
      /\ core'.rd_en = (core.rreq[2] # core.rack /\ core.pend = FALSE)
      /\ core'.pend = ((core.pend = TRUE \/ core'.rd_en = TRUE) /\ ~GsValid)
      /\ core'.rhold = IF GsValid THEN core.own[2] ELSE core.rhold
      /\ core'.rack = IF GsValid THEN core.rreq[2] ELSE core.rack
  BY <1>2 DEF GsReadAt
<1>5. /\ core.rst[2] = TRUE => core'.own[1] = None /\ core'.own[2] = None
      /\ core.rst[2] = FALSE =>
           /\ core'.own[2] = core.own[1]
           /\ core'.own[1] = None \/ core.rd_en = TRUE
  BY <1>2 DEF GsReadAt
<1>6. /\ core'.rd_en = TRUE => core.pend = FALSE /\ core.rreq[2] # core.rack
      /\ core.pend = FALSE /\ core.rreq[2] # core.rack => core'.rd_en = TRUE
      /\ core'.pend = TRUE <=> (core.pend = TRUE \/ core'.rd_en = TRUE) /\ ~GsValid
  BY <1>4
<1>7. /\ GsValid => core'.rhold = core.own[2] /\ core'.rack = core.rreq[2]
      /\ ~GsValid => core'.rhold = core.rhold /\ core'.rack = core.rack
  BY <1>3, <1>4
<1>8. core.rst[2] \in BOOLEAN /\ core.own[1] \in MaybePair /\ core.own[2] \in MaybePair
  BY <1>1, GsFlags, GsValues
<1> QED BY <1>3, <1>4, <1>5, <1>6, <1>7, <1>8

LEMMA GsCorePort ==
  ASSUME GsInv, GsCounts
  PROVE  GsPort'
<1>1. GsTypes /\ GsHands /\ GsPort
  BY DEF GsInv
<1>2. /\ sys' = sys /\ host' = host /\ clk'.core.rack = core.rack /\ clk'.core.rhold = core.rhold
      /\ core'.rreq[2] = core.rreq[1]
  BY DEF GsCounts, GsTicks, GsClocks
<1>3. /\ core.rd_en = TRUE \/ core.own[1] # None \/ core.own[2] # None => core.pend = TRUE
      /\ core.pend = TRUE => core.rreq[2] # core.rack
      /\ core.rd_en = TRUE => core.own[1] = None /\ core.own[2] = None
      /\ core.own[1] # None => core.own[2] = None
  BY <1>1 DEF GsPort
<1>4. core.pend \in BOOLEAN /\ core.rd_en \in BOOLEAN /\ core.rst[2] \in BOOLEAN
  BY <1>1, GsFlags
<1>5. GsValid <=> core.pend = TRUE /\ core.own[2] # None /\ core.rst[2] = FALSE
  BY DEF GsValid
<1>6. /\ core'.rd_en = TRUE => core'.pend = TRUE
      /\ core'.own[1] # None => core'.pend = TRUE
      /\ core'.own[2] # None => core'.pend = TRUE
  BY <1>3, <1>4, <1>5, GsReads
<1>7. core'.pend = TRUE => core'.rreq[2] # core'.rack
  <2>1. core'.pend = TRUE => ~GsValid /\ core.rreq[2] # core.rack
    BY <1>3, GsReads
  <2>2. core.rreq[2] # core.rack => core.rreq[1] = core.rreq[2]
    BY <1>1, GsPlace
  <2> QED BY <1>2, <2>1, <2>2, GsReads
<1>8. core'.rd_en = TRUE => core'.own[1] = None /\ core'.own[2] = None
  BY <1>3, <1>4, GsReads
<1>9. core'.own[1] # None => core'.own[2] = None
  BY <1>3, <1>4, GsReads
<1>10. clk'.core.rack = core'.rack => clk'.core.rhold = core'.rhold
  BY <1>2, <1>3, <1>5, GsReads
<1>11. host'.pc = "d1" => host'.got[1] = core'.rhold[1]
  <2>1. host.pc = "d1" => ~GsValid /\ host.got[1] = core.rhold[1]
    BY <1>1, <1>3, <1>5, GsPlace DEF GsHands, GsPort
  <2> QED BY <1>2, <2>1, GsReads
<1> QED BY <1>6, <1>7, <1>8, <1>9, <1>10, <1>11 DEF GsPort

LEMMA GsCoreWhole ==
  ASSUME GsTypes, GsWhole, GsCounts
  PROVE  GsWhole'
<1>1. Announced(sys, core, clk) /\ sys' = sys
  BY DEF GsWhole, GsCounts
<1>2. /\ clk'.core.tog = core.tog /\ clk'.core.snap = core.snap /\ clk'.ahead = clk.ahead + 1
      /\ clk.ahead < Lead
  BY DEF GsCounts, GsTicks
<1>3. /\ core'.cnt = (core.cnt + 1) % Period
      /\ core'.snap = IF core.cnt = 0 THEN <<core.drawn, core.drawn>> ELSE core.snap
      /\ core'.tog = IF core.cnt = 1 THEN ~core.tog ELSE core.tog
  BY DEF GsCounts, GsClocks
<1>4. /\ core.cnt \in 0 .. Period - 1 /\ clk.ahead \in 0 .. Lead
      /\ core.tog \in BOOLEAN /\ clk.core.tog \in BOOLEAN /\ sys.tog_d \in BOOLEAN
      /\ sys.tog[1] \in BOOLEAN /\ sys.tog[2] \in BOOLEAN
  BY GsValues, GsBits
<1>5. PICK c1, k1, now : /\ c1 = core' /\ k1 = clk' /\ now = <<core.drawn, core.drawn>>
  OBVIOUS
<1>6. /\ c1.cnt = (core.cnt + 1) % Period /\ c1.snap = IF core.cnt = 0 THEN now ELSE core.snap
      /\ c1.tog = IF core.cnt = 1 THEN ~core.tog ELSE core.tog
      /\ k1.core.tog = core.tog /\ k1.core.snap = core.snap /\ k1.ahead = clk.ahead + 1
  BY <1>2, <1>3, <1>5
<1>7. Announced(sys, c1, k1)
  BY <1>1, <1>2, <1>4, <1>6, AnnouncedOver
<1>8. Announced(sys, core, clk)'
  BY <1>1, <1>5, <1>7 DEF Announced, Turn
<1>9. core'.snap[1] = core'.snap[2] /\ clk'.core.snap[1] = clk'.core.snap[2]
  BY <1>2, <1>3 DEF GsWhole
<1> QED BY <1>1, <1>8, <1>9 DEF GsWhole

LEMMA GsCoreInv == GsInv /\ Gs!CoreEdge => GsInv'
<1> SUFFICES ASSUME GsInv, Gs!CoreEdge PROVE GsInv'
  OBVIOUS
<1>1. GsTypes /\ GsRuns /\ GsHands /\ GsAsked /\ GsWhole
  BY DEF GsInv
<1>2. GsCounts
  BY <1>1, GsCoreStep DEF GsCounts
<1>3. GsTypes' /\ GsRuns' /\ GsHands'
  BY <1>1, <1>2, GsCoreTypes, GsCoreRuns, GsCoreHands
<1>4. GsAsked' /\ GsPort' /\ GsWhole'
  BY <1>1, <1>2, GsCoreAsked, GsCorePort, GsCoreWhole
<1> QED BY <1>3, <1>4 DEF GsInv

LEMMA GsStarts == Gs!Init => GsInv
<1> SUFFICES ASSUME Gs!Init PROVE GsInv
  OBVIOUS
<1>1. /\ sys  = [reset |-> TRUE, w |-> <<0, 0>>, req |-> FALSE, ack |-> <<FALSE, FALSE>>,
                 ready |-> <<FALSE, FALSE>>, addr |-> 0, rreq |-> FALSE,
                 rack |-> <<FALSE, FALSE>>, rd_done |-> FALSE, tog |-> <<FALSE, FALSE>>,
                 tog_d |-> FALSE, hold |-> <<0, 0>>]
      /\ core = [rst |-> <<TRUE, TRUE>>, req |-> <<FALSE, FALSE>>, ack |-> FALSE,
                 rreq |-> <<FALSE, FALSE>>, rack |-> FALSE, rd_en |-> FALSE,
                 pend |-> FALSE, rhold |-> <<0, 0>>, own |-> <<None, None>>,
                 cnt |-> 0, snap |-> <<0, 0>>, tog |-> FALSE,
                 gif |-> <<>>, work |-> 0, drawn |-> 0]
      /\ host = [pc |-> "reset", sent |-> 0, reads |-> 0, call |-> None,
                 got |-> <<0, 0>>, pixels |-> 0, told |-> None]
  BY DEF Gs!Init, Gs!Flops
<1>2. PICK a, b : /\ a = [reset |-> TRUE, w |-> <<0, 0>>, req |-> FALSE, addr |-> 0, rreq |-> FALSE]
                  /\ b = [ready |-> FALSE, ack |-> FALSE, rack |-> FALSE, rhold |-> <<0, 0>>,
                          tog |-> FALSE, snap |-> <<0, 0>>]
                  /\ clk = [sys |-> a, core |-> b, ahead |-> 0, fresh |-> FALSE]
  <2>1. Gs!SysOut = [reset |-> TRUE, w |-> <<0, 0>>, req |-> FALSE, addr |-> 0, rreq |-> FALSE]
    BY <1>1 DEF Gs!SysOut
  <2>2. Gs!CoreOut = [ready |-> FALSE, ack |-> FALSE, rack |-> FALSE, rhold |-> <<0, 0>>,
                      tog |-> FALSE, snap |-> <<0, 0>>]
    BY <1>1 DEF Gs!CoreOut, Gs!Out
  <2>3. clk = [sys |-> Gs!SysOut, core |-> Gs!CoreOut, ahead |-> 0, fresh |-> FALSE]
    BY DEF Gs!Init
  <2> QED BY <2>1, <2>2, <2>3
<1>3. GsTypes
  <2>1. sys \in GsSys
    BY <1>1 DEF GsSys, Pair, Bits
  <2>2. core \in GsCore
    <3>1. <<TRUE, TRUE>> \in Bits /\ <<FALSE, FALSE>> \in Bits
      BY DEF Bits
    <3>2. <<0, 0>> \in Pair /\ <<None, None>> \in MaybePair \X MaybePair
      BY DEF Pair, MaybePair
    <3>3. <<>> \in Quadwords
      BY DEF Quadwords
    <3>4. 0 \in 0 .. Period - 1
      BY Periods
    <3> QED BY <1>1, <3>1, <3>2, <3>3, <3>4 DEF GsCore
  <2>3. host \in GsHost
    BY <1>1 DEF GsHost, GsWriting, GsReading, Pair
  <2>4. b \in [ready : BOOLEAN, ack : BOOLEAN, rack : BOOLEAN, rhold : Pair, tog : BOOLEAN, snap : Pair]
    BY <1>2 DEF Pair
  <2>5. a \in [reset : BOOLEAN, w : Pair, req : BOOLEAN, addr : Nat, rreq : BOOLEAN]
    BY <1>2 DEF Pair
  <2>6. clk \in GsClk
    BY <1>2, <2>4, <2>5, Periods DEF GsClk
  <2> QED BY <2>1, <2>2, <2>3, <2>6 DEF GsTypes
<1>4. GsRuns
  BY <1>1, <1>2 DEF GsRuns, GsReading
<1>5. GsHands
  BY <1>1, <1>2 DEF GsHands, Passing
<1>6. GsAsked
  BY <1>1, <1>2 DEF GsAsked
<1>7. GsPort
  BY <1>1, <1>2 DEF GsPort
<1>8. GsWhole
  BY <1>1, <1>2, Periods DEF GsWhole, Announced, Turn
<1> QED BY <1>3, <1>4, <1>5, <1>6, <1>7, <1>8 DEF GsInv

-----------------------------------------------------------------------------
(* An edge of the GS board is a step of the port, or one of the rasteriser's. *)

LEMMA GsCalls ==
  ASSUME GsTypes, GsAsked
  PROVE  /\ host.pc \notin {"busy", "done", "d0", "d1"} => host.call = None
         /\ host.pc = "busy" /\ host.call # None =>
              /\ host.call.op = "write" /\ host.call.addr = Gs!Gif
              /\ host.call.data = <<host.sent, host.sent>>
              /\ sys.w = <<host.sent, host.sent>> /\ clk.sys.w = sys.w
         /\ host.pc \in {"done", "d0", "d1"} =>
              /\ host.call # None /\ host.call.op = "read" /\ host.call.addr = Gs!Word(host.reads)
              /\ host.reads < Reads /\ sys.addr = host.reads
              /\ clk.sys.rreq = sys.rreq => clk.sys.addr = sys.addr
<1>1. host.sent \in Nat /\ host.reads \in Nat
  BY GsFlags
<1>2. CASE host.pc = "busy" /\ host.call # None
  <2>1. PICK o : /\ o = [op |-> "write", addr |-> Gs!Gif, data |-> <<host.sent, host.sent>>]
                 /\ host.call = o
    BY <1>2 DEF GsAsked
  <2> QED BY <1>2, <2>1 DEF GsAsked
<1>3. CASE host.pc \in {"done", "d0", "d1"}
  <2>1. PICK o : /\ o = [op |-> "read", addr |-> Gs!Word(host.reads), data |-> <<>>]
                 /\ host.call = o
    BY <1>3 DEF GsAsked
  <2>2. o # None
    BY <1>1, <2>1, GsCallIs
  <2>3. o.op = "read" /\ o.addr = Gs!Word(host.reads)
    BY <2>1
  <2> QED BY <1>3, <2>1, <2>2, <2>3 DEF GsAsked
<1>4. host.pc \notin {"busy", "done", "d0", "d1"} => host.call = None
  BY DEF GsAsked
<1> QED BY <1>2, <1>3, <1>4

GsReply == IF host.call = None THEN None
           ELSE IF host.pc = "busy" THEN IF core.ack = sys.req THEN <<>> ELSE None
           ELSE IF core.rack = sys.rreq THEN core.rhold
           ELSE IF core.own[2] # None THEN core.own[2] ELSE core.own[1]

LEMMA GsReplyIs == GsTypes /\ GsAsked => Gs!reply = GsReply
<1> SUFFICES ASSUME GsTypes, GsAsked PROVE Gs!reply = GsReply
  OBVIOUS
<1>1. CASE host.call = None
  BY <1>1 DEF Gs!reply, GsReply
<1>2. CASE host.call # None /\ host.pc = "busy"
  BY <1>2, GsCalls DEF Gs!reply, GsReply
<1>3. CASE host.call # None /\ host.pc # "busy"
  <2>1. host.call.op = "read"
    BY <1>3, GsCalls
  <2>2. host.call.op # "write"
    BY <2>1
  <2> QED BY <1>3, <2>2 DEF Gs!reply, GsReply
<1> QED BY <1>1, <1>2, <1>3

GsDraws(m, m1) == \A a \in DOMAIN m \ {Gs!Word(n) : n \in 0 .. Reads - 1} : m1[a] = m[a]
Owns(c, c1, r, r1, m, m1, t, t1) == c1 = c /\ r1 = r /\ t1 = t /\ GsDraws(m, m1)
Finds(c, c1, r, r1, m, m1, t, t1) ==
    c # None /\ c.op = "read" /\ r = None /\ c1 = c /\ t1 = t /\ r1 = m[c.addr] /\ GsDraws(m, m1)

GsPorts ==
    \/ Asks(host.call, host'.call, GsReply', Gs!memory, Gs!memory', host.told, host'.told)
    \/ Rests(host.call, host'.call, GsReply, GsReply', Gs!memory, Gs!memory', host.told, host'.told)
    \/ Owns(host.call, host'.call, GsReply, GsReply', Gs!memory, Gs!memory', host.told, host'.told)
    \/ Tells(host'.call, GsReply, GsReply', Gs!memory, Gs!memory', host'.told)
    \/ Writes(host.call, host'.call, GsReply, GsReply', Gs!memory, Gs!memory', host.told, host'.told)
    \/ Finds(host.call, host'.call, GsReply, GsReply', Gs!memory, Gs!memory', host.told, host'.told)

LEMMA GsSysPorts ==
  ASSUME GsInv, Gs!SysEdge
  PROVE  GsPorts
<1>1. /\ GsTypes /\ GsAsked /\ GsHands /\ GsPort /\ host.pc \in GsWriting \cup GsReading
      /\ host.sent \in Nat /\ host.reads \in Nat
  BY GsFlags DEF GsInv
<1>2. PICK s, c : GsSteps(s, c)
  BY <1>1, GsSysDoes
<1>3. core' = core /\ Gs!memory' = Gs!memory
  BY <1>2 DEF GsSteps, Gs!memory
<1>4. CASE GsQuiet(s)
  <2>1. host' = host /\ sys'.req = sys.req /\ sys'.rreq = sys.rreq
    BY <1>2, <1>4 DEF GsSteps, GsQuiet, GsLeaves
  <2>2. GsReply' = GsReply
    BY <1>3, <2>1 DEF GsReply
  <2> QED BY <1>3, <2>1, <2>2 DEF GsPorts, Rests
<1>5. CASE GsMoved(s, c)
  <2>1. GsMoves(s, c)
    BY <1>5 DEF GsMoved
  <2>2. CASE host.pc = "push"
    <3>1. host.call = None /\ sys.req = sys.ack[2] /\ core.ack = sys.req
      BY <1>1, <2>2, GsPlace DEF GsAsked, GsHands
    <3>2. host'.pc = "busy" /\ sys'.req # sys.req /\ host'.told = host.told
      BY <2>1, <2>2, <3>1 DEF GsMoves
    <3>3. host'.call # None
      <4>1. host.sent + 1 \in Nat
        BY <1>1
      <4>2. host'.call = [op |-> "write", addr |-> Gs!Gif, data |-> <<host.sent + 1, host.sent + 1>>]
        BY <2>1, <2>2 DEF GsMoves
      <4> QED BY <4>1, <4>2, GsCallIs
    <3>4. GsReply' = None
      BY <1>3, <3>1, <3>2 DEF GsReply
    <3> QED BY <1>3, <3>1, <3>2, <3>3, <3>4 DEF GsPorts, Asks
  <2>3. CASE host.pc = "read"
    <3>1. /\ host.call = None /\ sys.rreq = sys.rack[2] /\ core.rack = sys.rreq
          /\ core.own[1] = None /\ core.own[2] = None
      BY <1>1, <2>3, GsPlace DEF GsAsked, GsHands, GsPort
    <3>2. host'.pc = "done" /\ sys'.rreq # sys.rreq /\ host'.told = host.told
      BY <2>1, <2>3 DEF GsMoves
    <3>3. host'.call # None
      <4>1. host'.call = [op |-> "read", addr |-> Gs!Word(host.reads), data |-> <<>>]
        BY <2>1, <2>3 DEF GsMoves
      <4> QED BY <1>1, <4>1, GsCallIs
    <3>4. GsReply' = None
      BY <1>3, <3>1, <3>2 DEF GsReply
    <3> QED BY <1>3, <3>1, <3>2, <3>3, <3>4 DEF GsPorts, Asks
  <2>4. CASE host.pc = "busy" /\ sys.req = sys.ack[2] /\ host.call # None
    <3>1. core.ack = sys.req /\ host'.call = None /\ host'.told = <<>>
      BY <1>1, <2>1, <2>4, GsPlace DEF GsMoves
    <3>2. GsReply = <<>> /\ GsReply' = None
      BY <2>4, <3>1 DEF GsReply
    <3>3. <<>> # None
      BY Apart DEF Port!Reply
    <3> QED BY <1>3, <3>1, <3>2, <3>3 DEF GsPorts, Tells
  <2>5. CASE host.pc = "busy" /\ (sys.req # sys.ack[2] \/ host.call = None)
    <3>1. host'.call = host.call /\ host'.told = host.told /\ sys'.req = sys.req /\ sys'.rreq = sys.rreq
      BY <2>1, <2>5 DEF GsMoves
    <3>2. host.call # None => host'.pc = "busy"
      BY <2>1, <2>5 DEF GsMoves
    <3>3. GsReply' = GsReply
      BY <1>3, <2>5, <3>1, <3>2 DEF GsReply
    <3> QED BY <1>3, <3>1, <3>3 DEF GsPorts, Rests
  <2>6. CASE host.pc = "d1"
    <3>1. /\ host.call # None /\ sys.rreq = sys.rack[2] /\ core.rack = sys.rreq
          /\ clk.core.rhold = core.rhold /\ host.got[1] = core.rhold[1]
      BY <1>1, <2>6, GsPlace, GsCalls DEF GsHands, GsPort
    <3>2. host'.call = None /\ host'.told = <<host.got[1], c.rhold[2]>>
      BY <2>1, <2>6 DEF GsMoves
    <3>3. <<host.got[1], c.rhold[2]>> = core.rhold /\ core.rhold \in Pair
      <4>1. c.rhold[2] = core.rhold[2]
        BY <1>2, <3>1 DEF GsSteps, GsLeaves
      <4> QED BY <1>1, <3>1, <4>1, GsValues
    <3>4. GsReply = core.rhold /\ GsReply' = None
      BY <2>6, <3>1, <3>2 DEF GsReply
    <3>5. core.rhold # None
      BY <3>3, Apart DEF Port!Reply, Pair
    <3> QED BY <1>3, <3>2, <3>3, <3>4, <3>5 DEF GsPorts, Tells
  <2>7. CASE host.pc \notin {"push", "read", "busy", "d1"}
    <3>1. /\ host'.call = host.call /\ host'.told = host.told /\ sys'.req = sys.req
          /\ sys'.rreq = sys.rreq
      BY <2>1, <2>7 DEF GsMoves
    <3>2. host.call # None => host.pc \in {"done", "d0"}
      BY <1>1, <2>7 DEF GsAsked
    <3>3. host.call # None => host'.pc # "busy"
      BY <2>1, <3>2 DEF GsMoves
    <3>4. GsReply' = GsReply
      BY <1>3, <2>7, <3>1, <3>3 DEF GsReply
    <3> QED BY <1>3, <3>1, <3>4 DEF GsPorts, Rests
  <2> QED BY <2>2, <2>3, <2>4, <2>5, <2>6, <2>7
<1> QED BY <1>2, <1>4, <1>5 DEF GsSteps

\* The memory of the port, and what an edge of the core does to it.
LEMMA GsMemoryIs ==
  /\ DOMAIN Gs!memory = {Gs!Gif} \cup {Gs!Word(n) : n \in 0 .. Reads - 1}
  /\ Gs!memory[Gs!Gif] = core.gif
  /\ \A n \in 0 .. Reads - 1 : Gs!Word(n) # Gs!Gif /\ Gs!memory[Gs!Word(n)] = <<n, core.drawn>>
<1>1. \A n \in 0 .. Reads - 1 : Gs!Word(n) # Gs!Gif /\ Gs!Word(n)[2] = n
  BY DEF Gs!Word, Gs!Gif
<1> QED BY <1>1 DEF Gs!memory

LEMMA GsMemoryThen ==
  /\ DOMAIN Gs!memory' = {Gs!Gif} \cup {Gs!Word(n) : n \in 0 .. Reads - 1}
  /\ Gs!memory'[Gs!Gif] = core'.gif
  /\ \A n \in 0 .. Reads - 1 : Gs!memory'[Gs!Word(n)] = <<n, core'.drawn>>
<1>1. \A n \in 0 .. Reads - 1 : Gs!Word(n) # Gs!Gif /\ Gs!Word(n)[2] = n
  BY DEF Gs!Word, Gs!Gif
<1> QED BY <1>1 DEF Gs!memory

LEMMA GsOnlyDrawn ==
  ASSUME core'.gif = core.gif
  PROVE  GsDraws(Gs!memory, Gs!memory')
<1>1. \A a \in DOMAIN Gs!memory \ {Gs!Word(n) : n \in 0 .. Reads - 1} : a = Gs!Gif
  BY GsMemoryIs
<1> QED BY <1>1, GsMemoryIs, GsMemoryThen DEF GsDraws

LEMMA GsGrows ==
  ASSUME NEW w, core'.gif = Pushed(core.gif, w), core'.drawn = core.drawn
  PROVE  Gs!memory' = Port!Put(Gs!memory, Gs!Gif, w)
<1>1. PICK S : S = {Gs!Gif} \cup {Gs!Word(n) : n \in 0 .. Reads - 1}
  OBVIOUS
<1>2. PICK f, g : f = Gs!memory /\ g = Gs!memory'
  OBVIOUS
<1>3. f = [a \in S |-> f[a]] /\ g = [a \in S |-> g[a]]
  BY <1>1, <1>2 DEF Gs!memory
<1>4. g[Gs!Gif] = Append(f[Gs!Gif], w)
  BY <1>2, GsMemoryIs, GsMemoryThen DEF Pushed
<1>5. \A a \in S : a # Gs!Gif => g[a] = f[a]
  <2> SUFFICES ASSUME NEW n \in 0 .. Reads - 1 PROVE g[Gs!Word(n)] = f[Gs!Word(n)]
    BY <1>1
  <2> QED BY <1>2, GsMemoryIs, GsMemoryThen
<1>6. g = [f EXCEPT ![Gs!Gif] = Append(f[Gs!Gif], w)]
  BY <1>1, <1>3, <1>4, <1>5
<1> QED BY <1>2, <1>6 DEF Port!Put

LEMMA GsCorePorts ==
  ASSUME GsInv, Gs!CoreEdge
  PROVE  GsPorts
<1>1. GsTypes /\ GsAsked /\ GsHands /\ GsPort /\ GsRuns
  BY DEF GsInv
<1>2. GsCounts
  BY <1>1, GsCoreStep DEF GsCounts
<1>3. sys' = sys /\ host' = host
  BY <1>2 DEF GsCounts
<1>4. core'.ack = IF GsTake THEN core.req[2] ELSE core.ack
  BY <1>2 DEF GsCounts, GsClocks
<1>5. PICK w \in Pair : /\ GsDrawsAt(core', w)
                        /\ w[1] \in {clk.sys.w[1], sys.w[1]} /\ w[2] \in {clk.sys.w[2], sys.w[2]}
  BY <1>2 DEF GsCounts, GsClocks
<1>6. CASE GsTake
  <2>1. /\ host.pc = "busy" /\ host.call # None /\ sys.req = core.req[2] /\ core.ack # sys.req
    BY <1>1, <1>6, GsPlace DEF GsTake
  <2>2. /\ host.call.op = "write" /\ host.call.addr = Gs!Gif
        /\ host.call.data = <<host.sent, host.sent>>
        /\ sys.w = <<host.sent, host.sent>> /\ clk.sys.w = sys.w
    BY <1>1, <2>1, GsCalls
  <2>3. w = host.call.data
    <3>1. w = <<w[1], w[2]>>
      BY <1>5 DEF Pair
    <3>2. w[1] = host.sent /\ w[2] = host.sent
      BY <1>5, <2>2
    <3> QED BY <2>2, <3>1, <3>2
  <2>4. core'.gif = Pushed(core.gif, w) /\ core'.drawn = core.drawn
    BY <1>5, <1>6 DEF GsDrawsAt
  <2>5. Gs!memory' = Port!Put(Gs!memory, host.call.addr, host.call.data)
    BY <2>2, <2>3, <2>4, GsGrows
  <2>6. GsReply = None /\ GsReply' = <<>>
    BY <1>3, <1>4, <1>6, <2>1 DEF GsReply
  <2> QED BY <1>3, <2>1, <2>2, <2>5, <2>6 DEF GsPorts, Writes
<1>7. CASE ~GsTake /\ core'.own[1] # None
  <2>1. core'.gif = core.gif /\ core'.ack = core.ack
    BY <1>4, <1>5, <1>7 DEF GsDrawsAt
  <2>2. core.rd_en = TRUE /\ core.rst[2] = FALSE
    BY <1>2, <1>7, GsReads
  <2>3. /\ core.pend = TRUE /\ core.own[1] = None /\ core.own[2] = None /\ core.rreq[2] # core.rack
    BY <1>1, <2>2 DEF GsPort
  <2>4. /\ host.pc = "done" /\ sys.rreq # core.rack /\ clk.sys.rreq = sys.rreq
    BY <1>1, <2>3, GsPlace
  <2>5. /\ host.call # None /\ host.call.op = "read" /\ host.call.addr = Gs!Word(host.reads)
        /\ host.reads < Reads /\ sys.addr = host.reads /\ clk.sys.addr = sys.addr
        /\ host.reads \in Nat
    BY <1>1, <2>4, GsCalls, GsFlags
  <2>6. PICK addr \in {clk.sys.addr, sys.addr} : GsReadAt(core', addr)
    BY <1>2 DEF GsCounts, GsClocks
  <2>7. core'.own[1] = <<host.reads, core.drawn>> /\ core'.own[2] = None
    BY <1>7, <2>2, <2>3, <2>5, <2>6 DEF GsReadAt
  <2>8. core'.rack = core.rack
    <3>1. ~GsValid
      BY <2>3 DEF GsValid
    <3> QED BY <1>2, <3>1, GsReads
  <2>9. GsReply = None /\ GsReply' = <<host.reads, core.drawn>>
    BY <1>3, <2>3, <2>4, <2>5, <2>7, <2>8 DEF GsReply
  <2>10. Gs!memory[host.call.addr] = <<host.reads, core.drawn>>
    <3>1. host.reads \in 0 .. Reads - 1
      BY <2>5, PortsFit DEF Gs!BoardGsAssumption
    <3> QED BY <2>5, <3>1, GsMemoryIs
  <2>11. GsDraws(Gs!memory, Gs!memory')
    BY <2>1, GsOnlyDrawn
  <2> QED BY <1>3, <2>5, <2>9, <2>10, <2>11 DEF GsPorts, Finds
<1>8. CASE ~GsTake /\ core'.own[1] = None
  <2>1. core'.gif = core.gif /\ core'.ack = core.ack
    BY <1>4, <1>5, <1>8 DEF GsDrawsAt
  <2>2. GsDraws(Gs!memory, Gs!memory')
    BY <2>1, GsOnlyDrawn
  <2>3. GsReply' = GsReply
    <3>1. CASE host.call = None \/ host.pc = "busy"
      BY <1>3, <2>1, <3>1 DEF GsReply
    <3>2. CASE host.call # None /\ host.pc # "busy" /\ core.rack = sys.rreq
      <4>1. core.rreq[2] = core.rack
        BY <1>1, <3>2, GsPlace
      <4>2. ~GsValid
        BY <1>1, <4>1 DEF GsValid, GsPort
      <4>3. core'.rack = core.rack /\ core'.rhold = core.rhold
        BY <1>2, <4>2, GsReads
      <4> QED BY <1>3, <3>2, <4>3 DEF GsReply
    <3>3. CASE host.call # None /\ host.pc # "busy" /\ core.rack # sys.rreq
      <4>1. host.pc \in GsReading
        BY <1>1, <3>3 DEF GsAsked, GsReading
      <4>2. core.rst[2] = FALSE
        BY <1>1, <4>1 DEF GsRuns
      <4>3. CASE GsValid
        <5>1. core.rreq[2] # core.rack /\ core.own[2] # None
          BY <1>1, <4>3 DEF GsValid, GsPort
        <5>2. core'.rack = sys.rreq /\ core'.rhold = core.own[2]
          BY <1>1, <1>2, <4>3, <5>1, GsPlace, GsReads
        <5> QED BY <1>3, <3>3, <5>1, <5>2 DEF GsReply
      <4>4. CASE ~GsValid
        <5>1. core.own[2] = None
          BY <1>1, <4>2, <4>4 DEF GsValid, GsPort
        <5>2. core'.rack = core.rack /\ core'.own[2] = core.own[1]
          BY <1>2, <4>2, <4>4, GsReads
        <5> QED BY <1>3, <1>8, <3>3, <5>1, <5>2 DEF GsReply
      <4> QED BY <4>3, <4>4
    <3> QED BY <3>1, <3>2, <3>3
  <2> QED BY <1>3, <2>2, <2>3 DEF GsPorts, Owns
<1> QED BY <1>6, <1>7, <1>8

-----------------------------------------------------------------------------
(* What an edge of sys does to the probe, field by field. *)

LEMMA PrWordsAre ==
  ASSUME NEW was, NEW now, NEW v \in Probe!Words(was, now)
  PROVE  v = <<v[1], v[2]>> /\ v[1] \in {was[1], now[1]} /\ v[2] \in {was[2], now[2]}
  BY DEF Probe!Words, Probe!Caught

PrLeaves(s) ==
    /\ s.addr = sys.addr /\ s.w = sys.w /\ s.lane = sys.lane /\ s.wr = sys.wr /\ s.rd = sys.rd
    /\ s.rlane = sys.rlane
    /\ s.fin[1] \in {clk.core.fin, core.fin} /\ s.fin[2] = sys.fin[1] /\ s.fin[3] = sys.fin[2]
    /\ s.rbuf[1][1] \in {clk.core.rbuf[1], core.rbuf[1]}
    /\ s.rbuf[1][2] \in {clk.core.rbuf[2], core.rbuf[2]} /\ s.rbuf[2] = sys.rbuf[1]
    /\ s.resp[1] \in {clk.core.resp, core.resp} /\ s.resp[2] = sys.resp[1]
    /\ s.done = (sys.done = TRUE \/ sys.fin[2] # sys.fin[3])

PrTicks ==
    /\ clk' \in PrClk
    /\ clk'.sys.addr = sys.addr /\ clk'.sys.w = sys.w /\ clk'.sys.wr = sys.wr /\ clk'.sys.rd = sys.rd
    /\ clk'.core.fin = core.fin /\ clk'.core.rbuf = core.rbuf /\ clk'.core.resp = core.resp

LEMMA PrTicksIs ==
  ASSUME PrTypes, NEW n \in 0 .. ProbeLead, NEW b \in BOOLEAN,
         clk' = [sys |-> Probe!SysOut, core |-> Probe!CoreOut, ahead |-> n, fresh |-> b]
  PROVE  PrTicks /\ clk'.ahead = n /\ clk'.fresh = b
  BY DEF PrTypes, PrSys, PrCore, PrClk, PrTicks, Probe!SysOut, Probe!CoreOut

LEMMA PrSettledIs ==
  ASSUME PrTypes,
         NEW fin \in Probe!Caught(clk.core.fin, core.fin),
         NEW resp \in Probe!Caught(clk.core.resp, core.resp),
         NEW rbuf \in Probe!Words(clk.core.rbuf, core.rbuf),
         NEW s, s = Probe!Settled(sys, [fin |-> fin, resp |-> resp, rbuf |-> rbuf])
  PROVE  s \in PrSys /\ PrLeaves(s)
<1>1. /\ sys \in PrSys /\ core \in PrCore
      /\ fin \in BOOLEAN /\ fin \in {clk.core.fin, core.fin}
      /\ resp \in Resp /\ resp \in {clk.core.resp, core.resp}
  BY DEF PrTypes, PrCore, PrClk, Probe!Caught
<1>2. /\ rbuf = <<rbuf[1], rbuf[2]>> /\ rbuf[1] \in {clk.core.rbuf[1], core.rbuf[1]}
      /\ rbuf[2] \in {clk.core.rbuf[2], core.rbuf[2]}
  BY PrWordsAre
<1>3. clk.core.rbuf \in Pair /\ core.rbuf \in Pair
  BY DEF PrTypes, PrCore, PrClk
<1>4. rbuf \in Pair
  BY <1>2, <1>3 DEF Pair
<1>5. PICK d \in BOOLEAN : /\ d = (sys.done \/ Probe!Pulse(sys.fin))
                           /\ d = (sys.done = TRUE \/ sys.fin[2] # sys.fin[3])
  BY <1>1 DEF PrSys, Probe!Pulse
<1>6. PICK f, b, r : /\ f = Probe!ClockedChain(sys.fin, fin) /\ b = Probe!Clocked(sys.rbuf, rbuf)
                     /\ r = Probe!Clocked(sys.resp, resp)
  OBVIOUS
<1>7. /\ f \in Trio /\ f[1] = fin /\ f[2] = sys.fin[1] /\ f[3] = sys.fin[2]
      /\ r \in Resp \X Resp /\ r[1] = resp /\ r[2] = sys.resp[1]
  BY <1>1, <1>6 DEF PrSys, Trio, Probe!ClockedChain, Probe!Clocked
<1>8. b \in Pair \X Pair /\ b[1] = rbuf /\ b[2] = sys.rbuf[1]
  BY <1>1, <1>4, <1>6 DEF PrSys, Probe!Clocked
<1>9. s = [sys EXCEPT !.fin = f, !.rbuf = b, !.resp = r, !.done = d]
  BY <1>5, <1>6 DEF Probe!Settled
<1>10. /\ s \in PrSys /\ s.fin = f /\ s.rbuf = b /\ s.resp = r /\ s.done = d
       /\ s.addr = sys.addr /\ s.w = sys.w /\ s.lane = sys.lane /\ s.wr = sys.wr /\ s.rd = sys.rd
       /\ s.rlane = sys.rlane
  BY <1>1, <1>5, <1>7, <1>8, <1>9 DEF PrSys
<1> QED BY <1>1, <1>2, <1>5, <1>7, <1>8, <1>10 DEF PrLeaves

PrQuiet(s) == sys' = s /\ host' = host /\ clk'.fresh = clk.fresh
PrActs(s) == clk.fresh = TRUE /\ clk'.fresh = FALSE /\ Probe!Access(s)

LEMMA PrSysStep ==
  ASSUME PrTypes, Probe!SysEdge
  PROVE  /\ PrTicks /\ clk'.ahead = 0 /\ core' = core
         /\ \E s \in PrSys : PrLeaves(s) /\ (PrQuiet(s) \/ PrActs(s))
<1>1. PICK fin \in Probe!Caught(clk.core.fin, core.fin),
           resp \in Probe!Caught(clk.core.resp, core.resp),
           rbuf \in Probe!Words(clk.core.rbuf, core.rbuf) :
         LET c == [fin |-> fin, resp |-> resp, rbuf |-> rbuf]
         IN  \/ clk.fresh /\ Probe!Access(Probe!Settled(sys, c)) /\ Probe!Tick(FALSE)
             \/ sys' = Probe!Settled(sys, c) /\ UNCHANGED host /\ Probe!Tick(clk.fresh)
  BY DEF Probe!SysEdge
<1>2. PICK s : s = Probe!Settled(sys, [fin |-> fin, resp |-> resp, rbuf |-> rbuf])
  OBVIOUS
<1>3. s \in PrSys /\ PrLeaves(s)
  BY <1>2, PrSettledIs
<1>4. core' = core
  BY DEF Probe!SysEdge
<1>5. clk.fresh \in BOOLEAN /\ 0 \in 0 .. ProbeLead
  BY PortsFit DEF PrTypes, PrClk, Probe!HbmProbeAssumption
<1>6. CASE clk.fresh /\ Probe!Access(s) /\ Probe!Tick(FALSE)
  <2>1. PrTicks /\ clk'.ahead = 0 /\ clk'.fresh = FALSE
    BY <1>5, <1>6, PrTicksIs DEF Probe!Tick
  <2>2. PrActs(s)
    BY <1>5, <1>6, <2>1 DEF PrActs
  <2> QED BY <1>3, <1>4, <2>1, <2>2
<1>7. CASE sys' = s /\ UNCHANGED host /\ Probe!Tick(clk.fresh)
  <2>1. PrTicks /\ clk'.ahead = 0 /\ clk'.fresh = clk.fresh
    BY <1>5, <1>7, PrTicksIs DEF Probe!Tick
  <2>2. PrQuiet(s)
    BY <1>7, <2>1 DEF PrQuiet
  <2> QED BY <1>3, <1>4, <2>1, <2>2
<1> QED BY <1>1, <1>2, <1>6, <1>7

\* What an access changes, and what it leaves alone.
PrMoves(s) ==
    /\ sys' \in PrSys /\ host' \in PrHost
    /\ sys'.fin = s.fin /\ sys'.rbuf = s.rbuf /\ sys'.resp = s.resp
    /\ host.pc # "beat" => sys'.addr = sys.addr /\ host'.read = host.read
    /\ host.pc # "lane" => sys'.w = sys.w /\ sys'.wr = sys.wr
    /\ host.pc # "read" => sys'.rd = sys.rd
    /\ host.pc \notin {"lane", "read"} => sys'.done = s.done
    /\ host.pc \notin {"beat", "wait", "rdata"} => host'.n = host.n
    /\ host.pc \notin {"lane", "read", "wait", "rdata"} => host'.call = host.call
    /\ host.pc \notin {"wait", "rdata"} => host'.told = host.told
    /\ host.pc = "beat" =>
         \/ /\ host.n < HbmBeats /\ sys'.addr = host.n /\ host'.n = host.n /\ host'.read = host.read
            /\ host'.pc = IF host.read = TRUE THEN "read" ELSE "clear"
         \/ /\ host.n = HbmBeats /\ sys'.addr = sys.addr /\ host'.n = 0 /\ host'.read = TRUE
            /\ host'.pc = "beat"
    /\ host.pc = "clear" => host'.pc = "lane" /\ sys'.lane = 0 /\ host'.lane = 0
    /\ host.pc = "lane" =>
         \/ /\ host'.pc = "lane" /\ sys'.wr = sys.wr /\ sys'.done = s.done /\ host'.call = host.call
            /\ \/ host.lane = 0 /\ host'.lane = 1 /\ sys'.lane = 1 /\ sys'.w[1] = host.n + 1
               \/ host.lane = 1 /\ host'.lane = 2 /\ sys'.lane = 0 /\ sys'.w = <<sys.w[1], host.n + 1>>
         \/ /\ host'.pc = "wait" /\ host.lane = 2 /\ sys'.w = sys.w /\ sys'.wr # sys.wr
            /\ sys'.done = (sys.fin[2] # sys.fin[3])
            /\ host'.call = [op |-> "write", addr |-> <<"beat", host.n>>, data |-> <<host.n + 1, host.n + 1>>]
    /\ host.pc = "read" =>
         /\ host'.pc = "wait" /\ sys'.rd # sys.rd /\ sys'.done = (sys.fin[2] # sys.fin[3])
         /\ host'.call = [op |-> "read", addr |-> <<"beat", host.n>>, data |-> <<>>]
    /\ host.pc = "wait" =>
         /\ sys.done = TRUE
         /\ \/ /\ host'.pc = "fail" /\ sys.resp[2] # "okay"
               /\ host'.n = host.n /\ host'.call = host.call /\ host'.told = host.told
            \/ /\ host'.pc = "rlane" /\ sys.resp[2] = "okay" /\ host.read = TRUE /\ host'.lane = 0
               /\ host'.n = host.n /\ host'.call = host.call /\ host'.told = host.told
            \/ /\ host'.pc = "beat" /\ sys.resp[2] = "okay" /\ host.read = FALSE
               /\ host'.n = host.n + 1 /\ host'.call = None /\ host'.told = <<>>
    /\ host.pc = "rlane" => host'.pc = "rdata" /\ host'.lane = host.lane /\ host'.got = host.got
                            /\ sys'.rlane = host.lane
    /\ host.pc = "rdata" =>
         \/ /\ host.lane = 0 /\ host'.pc = "rlane" /\ host'.lane = 1 /\ host'.got[1] = sys.rbuf[2][1]
            /\ host'.n = host.n /\ host'.call = host.call /\ host'.told = host.told
         \/ /\ host.lane = 1 /\ host'.pc = "beat" /\ host'.n = host.n + 1 /\ host'.call = None
            /\ host'.told = <<host.got[1], sys.rbuf[2][2]>>
    /\ host.pc # "fail"

\* The calls are operations of the port.
LEMMA PrCallIs ==
  ASSUME NEW n \in Nat, NEW o,
         \/ o = [op |-> "write", addr |-> <<"beat", n>>, data |-> <<n + 1, n + 1>>]
         \/ o = [op |-> "read", addr |-> <<"beat", n>>, data |-> <<>>]
  PROVE  o \in Port!Operation /\ o # None
<1>1. <<"beat", n>> \in {"gif", "word", "line", "beat"} \X Nat
  OBVIOUS
<1>2. <<n + 1, n + 1>> \in Port!Reply /\ <<>> \in Port!Reply
  BY DEF Port!Reply
<1>3. o \in Port!Operation
  BY <1>1, <1>2 DEF Port!Operation
<1> QED BY <1>3, Apart

LEMMA PrMovesIs ==
  ASSUME PrTypes, PrAsked, PrAnswered, NEW s \in PrSys, PrLeaves(s), PrActs(s)
  PROVE  PrMoves(s)
<1>0. /\ sys \in PrSys /\ host \in PrHost /\ host.pc \in PrPc /\ host.n \in Nat
      /\ host.read \in BOOLEAN /\ host.lane \in 0..2 /\ host.got \in Pair
      /\ s.w \in Pair /\ s.wr \in BOOLEAN /\ s.rd \in BOOLEAN /\ sys.done \in BOOLEAN
  BY DEF PrTypes, PrHost, PrSys
<1>1. /\ 0 \in 0..2 /\ 1 \in 0..2 /\ host.n + 1 \in Nat
      /\ "beat" \in PrPc /\ "clear" \in PrPc /\ "lane" \in PrPc /\ "read" \in PrPc
      /\ "wait" \in PrPc /\ "rlane" \in PrPc /\ "rdata" \in PrPc /\ "fail" \in PrPc
  BY <1>0 DEF PrPc
<1>2. /\ s.addr = sys.addr /\ s.w = sys.w /\ s.lane = sys.lane /\ s.wr = sys.wr /\ s.rd = sys.rd
      /\ s.rlane = sys.rlane
  BY DEF PrLeaves
<1>3. Probe!Access(s)
  BY DEF PrActs
<1>4. CASE host.pc = "beat" /\ host.n < HbmBeats
  <2>4. HbmBeats \in Nat
    BY PortsFit DEF Probe!HbmProbeAssumption
  <2>1. /\ sys' = [s EXCEPT !.addr = host.n]
        /\ host' = [host EXCEPT !.pc = IF host.read THEN "read" ELSE "clear"]
    BY <1>0, <1>3, <1>4, <2>4 DEF Probe!Access, Probe!Goto
  <2>2. /\ sys' \in PrSys /\ sys'.w = s.w /\ sys'.lane = s.lane /\ sys'.wr = s.wr /\ sys'.rd = s.rd
        /\ sys'.fin = s.fin /\ sys'.rbuf = s.rbuf /\ sys'.resp = s.resp /\ sys'.done = s.done
        /\ sys'.rlane = s.rlane /\ sys'.addr = host.n
    BY <1>0, <1>2, <2>1 DEF PrSys
  <2>5. PICK p \in PrPc : p = IF host.read = TRUE THEN "read" ELSE "clear"
    BY DEF PrPc
  <2>6. host' = [host EXCEPT !.pc = p]
    BY <1>0, <2>1, <2>5
  <2>3. /\ host' \in PrHost /\ host'.n = host.n /\ host'.read = host.read /\ host'.lane = host.lane
        /\ host'.call = host.call /\ host'.told = host.told /\ host'.got = host.got /\ host'.pc = p
    BY <1>0, <1>1, <2>5, <2>6 DEF PrHost
  <2> QED BY <1>0, <1>2, <1>4, <2>2, <2>3, <2>5 DEF PrMoves
<1>5. CASE host.pc = "beat" /\ ~(host.n < HbmBeats)
  <2>1. host.n = HbmBeats /\ sys' = s /\ host' = [host EXCEPT !.n = 0, !.read = TRUE]
    BY <1>3, <1>5 DEF Probe!Access
  <2>2. /\ sys' \in PrSys /\ sys'.addr = s.addr /\ sys'.w = s.w /\ sys'.lane = s.lane /\ sys'.wr = s.wr
        /\ sys'.rd = s.rd /\ sys'.fin = s.fin /\ sys'.rbuf = s.rbuf /\ sys'.resp = s.resp
        /\ sys'.done = s.done /\ sys'.rlane = s.rlane
    BY <2>1
  <2>3. /\ host' \in PrHost /\ host'.lane = host.lane /\ host'.call = host.call
        /\ host'.told = host.told /\ host'.got = host.got /\ host'.pc = host.pc /\ host'.n = 0
        /\ host'.read = TRUE
    BY <1>0, <1>1, <2>1 DEF PrHost
  <2> QED BY <1>0, <1>2, <1>5, <2>1, <2>2, <2>3 DEF PrMoves
<1>6. CASE host.pc = "clear"
  <2>1. sys' = [s EXCEPT !.lane = 0] /\ host' = [host EXCEPT !.pc = "lane", !.lane = 0]
    BY <1>3, <1>6 DEF Probe!Access, Probe!Goto, Probe!Start, Probe!Out
  <2>2. /\ sys' \in PrSys /\ sys'.addr = s.addr /\ sys'.w = s.w /\ sys'.wr = s.wr /\ sys'.rd = s.rd
        /\ sys'.fin = s.fin /\ sys'.rbuf = s.rbuf /\ sys'.resp = s.resp /\ sys'.done = s.done
        /\ sys'.rlane = s.rlane /\ sys'.lane = 0
    BY <1>0, <1>2, <2>1 DEF PrSys
  <2>3. /\ host' \in PrHost /\ host'.n = host.n /\ host'.read = host.read /\ host'.call = host.call
        /\ host'.told = host.told /\ host'.got = host.got /\ host'.lane = 0 /\ host'.pc = "lane"
    BY <1>0, <1>1, <2>1 DEF PrHost
  <2> QED BY <1>0, <1>2, <1>6, <2>1, <2>2, <2>3 DEF PrMoves
<1>7. CASE host.pc = "lane" /\ host.lane # 2
  <2>4. (host.lane = 0 \/ host.lane = 1) /\ sys.lane = host.lane
    BY <1>0, <1>7 DEF PrAsked
  <2>1. /\ sys' = [s EXCEPT !.w[s.lane + 1] = host.n + 1, !.lane = (@ + 1) % 2]
        /\ host' = [host EXCEPT !.lane = @ + 1]
    BY <1>3, <1>7 DEF Probe!Access
  <2>5. PICK l \in 0..1, h \in 0..2 : l = (sys.lane + 1) % 2 /\ h = host.lane + 1
    BY <2>4
  <2>6. PICK v \in Pair : /\ v = [s.w EXCEPT ![s.lane + 1] = host.n + 1]
                          /\ sys.lane = 0 => v[1] = host.n + 1
                          /\ sys.lane = 1 => v = <<sys.w[1], host.n + 1>>
    <3>1. CASE sys.lane = 0
      <4>1. [s.w EXCEPT ![s.lane + 1] = host.n + 1] = <<host.n + 1, s.w[2]>>
        BY <1>0, <1>2, <3>1 DEF Pair
      <4>2. <<host.n + 1, s.w[2]>> \in Pair
        BY <1>0 DEF Pair
      <4> QED BY <3>1, <4>1, <4>2
    <3>2. CASE sys.lane = 1
      <4>1. [s.w EXCEPT ![s.lane + 1] = host.n + 1] = <<s.w[1], host.n + 1>>
        BY <1>0, <1>2, <3>2 DEF Pair
      <4>2. <<s.w[1], host.n + 1>> \in Pair
        BY <1>0 DEF Pair
      <4> QED BY <1>2, <3>2, <4>1, <4>2
    <3> QED BY <2>4, <3>1, <3>2
  <2>7. sys' = [s EXCEPT !.w = v, !.lane = l] /\ host' = [host EXCEPT !.lane = h]
    BY <1>2, <2>1, <2>5, <2>6
  <2>2. /\ sys' \in PrSys /\ sys'.addr = s.addr /\ sys'.wr = s.wr /\ sys'.rd = s.rd /\ sys'.fin = s.fin
        /\ sys'.rbuf = s.rbuf /\ sys'.resp = s.resp /\ sys'.done = s.done /\ sys'.rlane = s.rlane
        /\ sys'.w = v /\ sys'.lane = l
    BY <1>0, <1>2, <2>7 DEF PrSys
  <2>3. /\ host' \in PrHost /\ host'.n = host.n /\ host'.read = host.read /\ host'.call = host.call
        /\ host'.told = host.told /\ host'.got = host.got /\ host'.pc = host.pc /\ host'.lane = h
    BY <1>0, <1>1, <2>7 DEF PrHost
  <2>8. \/ host.lane = 0 /\ host'.lane = 1 /\ sys'.lane = 1 /\ sys'.w[1] = host.n + 1
        \/ host.lane = 1 /\ host'.lane = 2 /\ sys'.lane = 0 /\ sys'.w = <<sys.w[1], host.n + 1>>
    BY <2>2, <2>3, <2>4, <2>5, <2>6
  <2> QED BY <1>0, <1>2, <1>7, <2>2, <2>3, <2>8 DEF PrMoves
<1>8. CASE host.pc = "lane" /\ host.lane = 2
  <2>1. /\ sys' = [s EXCEPT !.wr = ~s.wr, !.done = Probe!Pulse(sys.fin)]
        /\ host' = [host EXCEPT !.pc = "wait", !.call =
                     [op |-> "write", addr |-> <<"beat", host.n>>, data |-> <<host.n + 1, host.n + 1>>]]
    <3>1. sys' = [Probe!Start(s) EXCEPT !.wr = ~Probe!Start(s).wr]
      BY <1>3, <1>8 DEF Probe!Access
    <3>2. Probe!Start(s) = [s EXCEPT !.done = Probe!Pulse(sys.fin)]
      BY DEF Probe!Start
    <3>4. [Probe!Start(s) EXCEPT !.wr = ~Probe!Start(s).wr] = [s EXCEPT !.wr = ~s.wr, !.done = Probe!Pulse(sys.fin)]
      BY <1>0, <3>2 DEF PrSys
    <3>3. host' = [Probe!Goto("wait") EXCEPT !.call =
                     [op |-> "write", addr |-> <<"beat", host.n>>, data |-> <<host.n + 1, host.n + 1>>]]
      BY <1>3, <1>8 DEF Probe!Access
    <3> QED BY <3>1, <3>3, <3>4 DEF Probe!Goto
  <2>4. PICK d \in BOOLEAN : d = Probe!Pulse(sys.fin) /\ d = (sys.fin[2] # sys.fin[3])
    BY DEF Probe!Pulse
  <2>5. PICK o \in Port!Operation :
          o = [op |-> "write", addr |-> <<"beat", host.n>>, data |-> <<host.n + 1, host.n + 1>>]
    BY <1>0, PrCallIs
  <2>6. sys' = [s EXCEPT !.wr = ~s.wr, !.done = d] /\ host' = [host EXCEPT !.pc = "wait", !.call = o]
    BY <2>1, <2>4, <2>5
  <2>2. /\ sys' \in PrSys /\ sys'.addr = s.addr /\ sys'.w = s.w /\ sys'.lane = s.lane /\ sys'.rd = s.rd
        /\ sys'.fin = s.fin /\ sys'.rbuf = s.rbuf /\ sys'.resp = s.resp /\ sys'.rlane = s.rlane
        /\ sys'.wr # sys.wr /\ sys'.done = d
    BY <1>0, <1>2, <2>6 DEF PrSys
  <2>3. /\ host' \in PrHost /\ host'.n = host.n /\ host'.read = host.read /\ host'.lane = host.lane
        /\ host'.told = host.told /\ host'.got = host.got /\ host'.pc = "wait" /\ host'.call = o
    BY <1>0, <1>1, <2>6 DEF PrHost
  <2> QED BY <1>0, <1>2, <1>8, <2>2, <2>3, <2>4, <2>5 DEF PrMoves
<1>9. CASE host.pc = "read"
  <2>1. /\ sys' = [s EXCEPT !.rd = ~s.rd, !.done = Probe!Pulse(sys.fin)]
        /\ host' = [host EXCEPT !.pc = "wait", !.call =
                     [op |-> "read", addr |-> <<"beat", host.n>>, data |-> <<>>]]
    <3>1. sys' = [Probe!Start(s) EXCEPT !.rd = ~Probe!Start(s).rd]
      BY <1>3, <1>9 DEF Probe!Access
    <3>2. Probe!Start(s) = [s EXCEPT !.done = Probe!Pulse(sys.fin)]
      BY DEF Probe!Start
    <3>4. [Probe!Start(s) EXCEPT !.rd = ~Probe!Start(s).rd] = [s EXCEPT !.rd = ~s.rd, !.done = Probe!Pulse(sys.fin)]
      BY <1>0, <3>2 DEF PrSys
    <3>3. host' = [Probe!Goto("wait") EXCEPT !.call =
                     [op |-> "read", addr |-> <<"beat", host.n>>, data |-> <<>>]]
      BY <1>3, <1>9 DEF Probe!Access
    <3> QED BY <3>1, <3>3, <3>4 DEF Probe!Goto
  <2>4. PICK d \in BOOLEAN : d = Probe!Pulse(sys.fin) /\ d = (sys.fin[2] # sys.fin[3])
    BY DEF Probe!Pulse
  <2>5. PICK o \in Port!Operation :
          o = [op |-> "read", addr |-> <<"beat", host.n>>, data |-> <<>>]
    BY <1>0, PrCallIs
  <2>6. sys' = [s EXCEPT !.rd = ~s.rd, !.done = d] /\ host' = [host EXCEPT !.pc = "wait", !.call = o]
    BY <2>1, <2>4, <2>5
  <2>2. /\ sys' \in PrSys /\ sys'.addr = s.addr /\ sys'.w = s.w /\ sys'.lane = s.lane /\ sys'.wr = s.wr
        /\ sys'.fin = s.fin /\ sys'.rbuf = s.rbuf /\ sys'.resp = s.resp /\ sys'.rlane = s.rlane
        /\ sys'.rd # sys.rd /\ sys'.done = d
    BY <1>0, <1>2, <2>6 DEF PrSys
  <2>3. /\ host' \in PrHost /\ host'.n = host.n /\ host'.read = host.read /\ host'.lane = host.lane
        /\ host'.told = host.told /\ host'.got = host.got /\ host'.pc = "wait" /\ host'.call = o
    BY <1>0, <1>1, <2>6 DEF PrHost
  <2> QED BY <1>0, <1>2, <1>9, <2>2, <2>3, <2>4, <2>5 DEF PrMoves
<1>10. CASE host.pc = "wait"
  <2>1. /\ sys.done = TRUE /\ sys' = s
        /\ host' = IF sys.resp[2] # "okay" THEN [host EXCEPT !.pc = "fail"]
                   ELSE IF host.read THEN [host EXCEPT !.pc = "rlane", !.lane = 0]
                   ELSE [host EXCEPT !.pc = "beat", !.n = host.n + 1, !.call = None, !.told = <<>>]
    BY <1>0, <1>3, <1>10 DEF Probe!Access, Probe!Goto, Probe!Out
  <2>2. /\ sys' \in PrSys /\ sys'.addr = s.addr /\ sys'.w = s.w /\ sys'.lane = s.lane /\ sys'.wr = s.wr
        /\ sys'.rd = s.rd /\ sys'.fin = s.fin /\ sys'.rbuf = s.rbuf /\ sys'.resp = s.resp
        /\ sys'.done = s.done /\ sys'.rlane = s.rlane
    BY <2>1
  <2>4. CASE sys.resp[2] # "okay"
    <3>1. /\ host' \in PrHost /\ host'.n = host.n /\ host'.read = host.read /\ host'.lane = host.lane
          /\ host'.call = host.call /\ host'.told = host.told /\ host'.got = host.got
          /\ host'.pc = "fail"
      BY <1>0, <1>1, <2>1, <2>4 DEF PrHost
    <3> QED BY <1>0, <1>2, <1>10, <2>1, <2>2, <2>4, <3>1 DEF PrMoves
  <2>5. CASE sys.resp[2] = "okay" /\ host.read = TRUE
    <3>1. /\ host' \in PrHost /\ host'.n = host.n /\ host'.read = host.read /\ host'.call = host.call
          /\ host'.told = host.told /\ host'.got = host.got /\ host'.pc = "rlane" /\ host'.lane = 0
      BY <1>0, <1>1, <2>1, <2>5 DEF PrHost
    <3> QED BY <1>0, <1>2, <1>10, <2>1, <2>2, <2>5, <3>1 DEF PrMoves
  <2>6. CASE sys.resp[2] = "okay" /\ host.read = FALSE
    <3>2. <<>> \in Port!Reply
      BY DEF Port!Reply
    <3>3. PICK m \in Nat, t \in Port!Reply : m = host.n + 1 /\ t = <<>>
      BY <1>1, <3>2
    <3>4. host' = [host EXCEPT !.pc = "beat", !.n = m, !.call = None, !.told = t]
      BY <2>1, <2>6, <3>3
    <3>1. /\ host' \in PrHost /\ host'.read = host.read /\ host'.lane = host.lane
          /\ host'.got = host.got /\ host'.pc = "beat" /\ host'.n = m
          /\ host'.call = None /\ host'.told = t
      BY <1>0, <1>1, <3>4 DEF PrHost
    <3> QED BY <1>0, <1>2, <1>10, <2>1, <2>2, <2>6, <3>1, <3>3 DEF PrMoves
  <2> QED BY <1>0, <2>4, <2>5, <2>6
<1>11. CASE host.pc = "rlane"
  <2>1. sys' = [s EXCEPT !.rlane = host.lane] /\ host' = [host EXCEPT !.pc = "rdata"]
    BY <1>3, <1>11 DEF Probe!Access, Probe!Goto
  <2>4. host.lane \in 0..1
    BY <1>11 DEF PrAnswered
  <2>2. /\ sys' \in PrSys /\ sys'.addr = s.addr /\ sys'.w = s.w /\ sys'.lane = s.lane /\ sys'.wr = s.wr
        /\ sys'.rd = s.rd /\ sys'.fin = s.fin /\ sys'.rbuf = s.rbuf /\ sys'.resp = s.resp
        /\ sys'.done = s.done /\ sys'.rlane = host.lane
    BY <1>0, <2>1, <2>4 DEF PrSys
  <2>3. /\ host' \in PrHost /\ host'.n = host.n /\ host'.read = host.read /\ host'.lane = host.lane
        /\ host'.call = host.call /\ host'.told = host.told /\ host'.got = host.got
        /\ host'.pc = "rdata"
    BY <1>0, <1>1, <2>1 DEF PrHost
  <2> QED BY <1>0, <1>2, <1>11, <2>2, <2>3 DEF PrMoves
<1>12. CASE host.pc = "rdata"
  <2>4. host.lane \in 0..1 /\ sys.rlane = host.lane /\ sys.rbuf[2] \in Pair
    BY <1>0, <1>12 DEF PrAnswered, PrSys
  <2>1. /\ sys' = s
        /\ LET got == [host.got EXCEPT ![sys.rlane + 1] = sys.rbuf[2][sys.rlane + 1]]
           IN  host' = IF host.lane = 0 THEN [host EXCEPT !.pc = "rlane", !.lane = 1, !.got = got]
                       ELSE [host EXCEPT !.pc = "beat", !.n = host.n + 1, !.call = None,
                                         !.told = got, !.got = got]
    BY <1>0, <1>3, <1>12 DEF Probe!Access, Probe!Goto, Probe!Out
  <2>2. /\ sys' \in PrSys /\ sys'.addr = s.addr /\ sys'.w = s.w /\ sys'.lane = s.lane /\ sys'.wr = s.wr
        /\ sys'.rd = s.rd /\ sys'.fin = s.fin /\ sys'.rbuf = s.rbuf /\ sys'.resp = s.resp
        /\ sys'.done = s.done /\ sys'.rlane = s.rlane
    BY <2>1
  <2>5. CASE host.lane = 0
    <3>1. PICK g \in Pair : /\ g = [host.got EXCEPT ![sys.rlane + 1] = sys.rbuf[2][sys.rlane + 1]]
                            /\ g[1] = sys.rbuf[2][1]
      <4>1. [host.got EXCEPT ![sys.rlane + 1] = sys.rbuf[2][sys.rlane + 1]]
              = <<sys.rbuf[2][1], host.got[2]>>
        BY <1>0, <2>4, <2>5 DEF Pair
      <4>2. <<sys.rbuf[2][1], host.got[2]>> \in Pair
        BY <1>0, <2>4 DEF Pair
      <4> QED BY <4>1, <4>2
    <3>2. host' = [host EXCEPT !.pc = "rlane", !.lane = 1, !.got = g]
      BY <2>1, <2>5, <3>1
    <3>3. /\ host' \in PrHost /\ host'.n = host.n /\ host'.read = host.read /\ host'.call = host.call
          /\ host'.told = host.told /\ host'.pc = "rlane" /\ host'.lane = 1 /\ host'.got = g
      BY <1>0, <1>1, <3>2 DEF PrHost
    <3> QED BY <1>0, <1>2, <1>12, <2>2, <2>5, <3>1, <3>3 DEF PrMoves
  <2>6. CASE host.lane = 1
    <3>1. PICK g \in Pair : /\ g = [host.got EXCEPT ![sys.rlane + 1] = sys.rbuf[2][sys.rlane + 1]]
                            /\ g = <<host.got[1], sys.rbuf[2][2]>>
      <4>1. [host.got EXCEPT ![sys.rlane + 1] = sys.rbuf[2][sys.rlane + 1]]
              = <<host.got[1], sys.rbuf[2][2]>>
        BY <1>0, <2>4, <2>6 DEF Pair
      <4>2. <<host.got[1], sys.rbuf[2][2]>> \in Pair
        BY <1>0, <2>4 DEF Pair
      <4> QED BY <4>1, <4>2
    <3>5. PICK m \in Nat : m = host.n + 1
      BY <1>1
    <3>2. host' = [host EXCEPT !.pc = "beat", !.n = m, !.call = None, !.told = g, !.got = g]
      BY <2>1, <2>6, <3>1, <3>5
    <3>4. g \in Port!Reply
      BY <3>1 DEF Pair, Port!Reply
    <3>3. /\ host' \in PrHost /\ host'.read = host.read /\ host'.lane = host.lane /\ host'.pc = "beat"
          /\ host'.n = m /\ host'.call = None /\ host'.told = g
      BY <1>0, <1>1, <3>1, <3>2, <3>4 DEF PrHost
    <3> QED BY <1>0, <1>2, <1>12, <2>2, <2>6, <3>1, <3>3, <3>5 DEF PrMoves
  <2> QED BY <2>4, <2>5, <2>6
<1>13. host.pc # "fail"
  BY <1>3 DEF Probe!Access
<1> QED BY <1>0, <1>4, <1>5, <1>6, <1>7, <1>8, <1>9, <1>10, <1>11, <1>12, <1>13 DEF PrPc

PrMoved(s) == clk.fresh = TRUE /\ clk'.fresh = FALSE /\ PrMoves(s)
PrSteps(s) ==
    /\ s \in PrSys /\ PrLeaves(s) /\ PrTicks /\ clk'.ahead = 0 /\ core' = core
    /\ PrQuiet(s) \/ PrMoved(s)

LEMMA PrSysDoes ==
  ASSUME PrInv, Probe!SysEdge
  PROVE  PrTypes' /\ \E s : PrSteps(s)
<1>0. PrTypes /\ PrAsked /\ PrAnswered
  BY DEF PrInv
<1>1. /\ PrTicks /\ clk'.ahead = 0 /\ core' = core
      /\ \E s \in PrSys : PrLeaves(s) /\ (PrQuiet(s) \/ PrActs(s))
  BY <1>0, PrSysStep
<1>2. PICK s \in PrSys : PrLeaves(s) /\ (PrQuiet(s) \/ PrActs(s))
  BY <1>1
<1>3. PrActs(s) => PrMoves(s)
  BY <1>0, <1>2, PrMovesIs
<1>4. PrSteps(s)
  BY <1>1, <1>2, <1>3 DEF PrSteps, PrActs, PrMoved
<1>5. sys' \in PrSys /\ host' \in PrHost
  <2>1. CASE PrQuiet(s)
    BY <1>0, <1>2, <2>1 DEF PrQuiet, PrTypes
  <2>2. CASE PrActs(s)
    BY <1>3, <2>2 DEF PrMoves
  <2> QED BY <1>2, <2>1, <2>2
<1>6. PrTypes'
  BY <1>0, <1>1, <1>5 DEF PrTypes, PrTicks
<1> QED BY <1>4, <1>6

-----------------------------------------------------------------------------
(* What the parts of the probe's state range over, and where a pulse can be. *)

LEMMA PrBits ==
  ASSUME PrTypes
  PROVE  /\ sys.wr \in BOOLEAN /\ clk.sys.wr \in BOOLEAN /\ core.wr[1] \in BOOLEAN
         /\ core.wr[2] \in BOOLEAN /\ core.wr[3] \in BOOLEAN
         /\ sys.rd \in BOOLEAN /\ clk.sys.rd \in BOOLEAN /\ core.rd[1] \in BOOLEAN
         /\ core.rd[2] \in BOOLEAN /\ core.rd[3] \in BOOLEAN
         /\ core.fin \in BOOLEAN /\ clk.core.fin \in BOOLEAN /\ sys.fin[1] \in BOOLEAN
         /\ sys.fin[2] \in BOOLEAN /\ sys.fin[3] \in BOOLEAN
<1>1. core.wr \in Trio /\ core.rd \in Trio /\ sys.fin \in Trio
  BY DEF PrTypes, PrCore, PrSys
<1>2. /\ sys.wr \in BOOLEAN /\ sys.rd \in BOOLEAN /\ core.fin \in BOOLEAN
      /\ clk.sys.wr \in BOOLEAN /\ clk.sys.rd \in BOOLEAN /\ clk.core.fin \in BOOLEAN
  BY DEF PrTypes, PrCore, PrSys, PrClk
<1> QED BY <1>1, <1>2 DEF Trio

LEMMA PrFlags ==
  ASSUME PrTypes
  PROVE  /\ host.pc \in PrPc /\ host.n \in Nat /\ host.read \in BOOLEAN /\ host.lane \in 0..2
         /\ sys.done \in BOOLEAN /\ clk.fresh \in BOOLEAN /\ core.st \in PrState /\ core.wait \in Nat
         /\ sys.addr \in Nat /\ core.held \in Nat /\ core.resp \in Resp /\ core.answer \in Resp
         /\ clk.ahead \in 0 .. ProbeLead
<1>1. host.pc \in PrPc /\ host.n \in Nat /\ host.read \in BOOLEAN /\ host.lane \in 0..2
  BY DEF PrTypes, PrHost
<1>2. sys.done \in BOOLEAN /\ sys.addr \in Nat /\ clk.fresh \in BOOLEAN /\ clk.ahead \in 0 .. ProbeLead
  BY DEF PrTypes, PrSys, PrClk
<1>3. /\ core.st \in PrState /\ core.wait \in Nat /\ core.held \in Nat
      /\ core.resp \in Resp /\ core.answer \in Resp
  BY DEF PrTypes, PrCore
<1> QED BY <1>1, <1>2, <1>3

LEMMA PrPairs ==
  ASSUME PrTypes
  PROVE  /\ sys.w \in Pair /\ sys.rbuf[1] \in Pair /\ sys.rbuf[2] \in Pair
         /\ core.w[1] \in Pair /\ core.w[2] \in Pair /\ core.rbuf \in Pair /\ host.got \in Pair
         /\ core.mem \in [0 .. HbmBeats - 1 -> Pair]
<1>1. /\ sys.w \in Pair /\ sys.rbuf \in Pair \X Pair /\ core.w \in Pair \X Pair /\ core.rbuf \in Pair
      /\ host.got \in Pair /\ core.mem \in [0 .. HbmBeats - 1 -> Pair]
  BY DEF PrTypes, PrSys, PrCore, PrHost
<1> QED BY <1>1

LEMMA PulseGoes ==
  ASSUME NEW a \in BOOLEAN, NEW b \in BOOLEAN, NEW c \in BOOLEAN, NEW d \in BOOLEAN,
         NEW z \in BOOLEAN, NEW c1 \in {b, a}, Pulsing(a, b, c, d, z)
  PROVE  Pulsing(a, a, c1, c, d)
  BY DEF Pulsing

\* Before an access is asked for and after its end, nothing of it is under way.
PrAtRest ==
    /\ core.st = "IDLE" /\ core.wait = 0
    /\ clk.sys.wr = sys.wr /\ core.wr[1] = sys.wr /\ core.wr[2] = sys.wr /\ core.wr[3] = sys.wr
    /\ clk.sys.rd = sys.rd /\ core.rd[1] = sys.rd /\ core.rd[2] = sys.rd /\ core.rd[3] = sys.rd
    /\ clk.core.fin = core.fin /\ sys.fin[1] = core.fin /\ sys.fin[2] = core.fin
    /\ sys.fin[3] = core.fin

LEMMA PrRests ==
  ASSUME PrTypes, PrPlaces, host.pc # "wait" \/ sys.done = TRUE
  PROVE  PrAtRest
<1>1. ~PrStarting /\ ~PrEnding /\ core.st = "IDLE"
  BY DEF PrPlaces
<1>2. core.wait = 0
  BY <1>1 DEF PrPlaces
<1>3. sys.wr = core.wr[3] /\ sys.rd = core.rd[3] /\ core.fin = sys.fin[3]
  BY <1>1 DEF PrStarting, PrEnding
<1>4. /\ Pulsing(sys.wr, clk.sys.wr, core.wr[1], core.wr[2], core.wr[3])
      /\ Pulsing(sys.rd, clk.sys.rd, core.rd[1], core.rd[2], core.rd[3])
      /\ Pulsing(core.fin, clk.core.fin, sys.fin[1], sys.fin[2], sys.fin[3])
  BY DEF PrPlaces
<1> QED BY <1>1, <1>2, <1>3, <1>4 DEF PrAtRest, Pulsing

\* The end of a beat is somewhere on its way back.
LEMMA PrEnds ==
  ASSUME PrTypes, PrPlaces
  PROVE  /\ ~PrEnding => sys.fin[1] = core.fin /\ sys.fin[2] = core.fin /\ sys.fin[3] = core.fin
         /\ sys.fin[2] # sys.fin[3] => PrEnding /\ sys.fin[1] = core.fin /\ sys.fin[2] = core.fin
         /\ core.fin # sys.fin[2] => PrEnding /\ sys.fin[2] = sys.fin[3]
<1>1. Pulsing(core.fin, clk.core.fin, sys.fin[1], sys.fin[2], sys.fin[3])
  BY DEF PrPlaces
<1> QED BY <1>1, PrBits DEF PrEnding, Pulsing

-----------------------------------------------------------------------------
(* The invariant over an edge of sys. *)

\* What an access does to the strobes.
LEMMA PrStrobes ==
  ASSUME PrTypes, NEW s, PrMoves(s)
  PROVE  /\ host'.pc = "wait" => host.pc \in {"lane", "read"}
         /\ sys'.wr = sys.wr \/ (sys'.rd = sys.rd /\ host'.pc = "wait" /\ host.pc = "lane"
                                  /\ sys'.done = (sys.fin[2] # sys.fin[3]))
         /\ sys'.rd = sys.rd \/ (sys'.wr = sys.wr /\ host'.pc = "wait" /\ host.pc = "read"
                                  /\ sys'.done = (sys.fin[2] # sys.fin[3]))
<1>1. host.pc \in PrPc
  BY PrFlags
<1> QED BY <1>1 DEF PrMoves, PrPc

LEMMA PrSysPlaces ==
  ASSUME PrInv, NEW s, PrSteps(s)
  PROVE  PrPlaces'
<1>1. PrTypes /\ PrPlaces
  BY DEF PrInv
<1>2. /\ core' = core /\ clk'.sys.wr = sys.wr /\ clk'.sys.rd = sys.rd /\ clk'.core.fin = core.fin
  BY DEF PrSteps, PrTicks
<1>3. /\ s.fin[1] \in {clk.core.fin, core.fin} /\ s.fin[2] = sys.fin[1] /\ s.fin[3] = sys.fin[2]
      /\ s.done = (sys.done = TRUE \/ sys.fin[2] # sys.fin[3]) /\ s.wr = sys.wr /\ s.rd = sys.rd
  BY DEF PrSteps, PrLeaves
<1>4. /\ Pulsing(sys.wr, clk.sys.wr, core.wr[1], core.wr[2], core.wr[3])
      /\ Pulsing(sys.rd, clk.sys.rd, core.rd[1], core.rd[2], core.rd[3])
      /\ Pulsing(core.fin, clk.core.fin, sys.fin[1], sys.fin[2], sys.fin[3])
  BY <1>1 DEF PrPlaces
<1>5. Pulsing(core.fin, core.fin, s.fin[1], sys.fin[1], sys.fin[2])
  <2>1. PICK a \in BOOLEAN, b \in BOOLEAN, c \in BOOLEAN, d \in BOOLEAN, z \in BOOLEAN :
          /\ a = core.fin /\ b = clk.core.fin /\ c = sys.fin[1] /\ d = sys.fin[2] /\ z = sys.fin[3]
    BY <1>1, <1>3, PrBits
  <2>2. Pulsing(a, b, c, d, z)
    BY <1>4, <2>1
  <2>3. PICK c1 \in {b, a} : c1 = s.fin[1]
    BY <1>3, <2>1
  <2>4. Pulsing(a, a, c1, c, d)
    BY <2>2, PulseGoes
  <2> QED BY <1>3, <2>1, <2>3, <2>4
<1>6. sys'.fin = s.fin
  BY DEF PrSteps, PrQuiet, PrMoved, PrMoves
<1>7. Pulsing(core.fin, clk.core.fin, sys.fin[1], sys.fin[2], sys.fin[3])'
  BY <1>2, <1>3, <1>5, <1>6 DEF Pulsing
<1>8. core.st \in {"IDLE", "FIN"} => core.wait = 0
  BY <1>1 DEF PrPlaces
<1>9. PrEnding' <=> core.fin # sys.fin[2]
  BY <1>2, <1>3, <1>6 DEF PrEnding
<1>10. CASE PrQuiet(s)
  <2>1. sys' = s /\ host' = host
    BY <1>10 DEF PrQuiet
  <2>2. /\ Pulsing(sys.wr, clk.sys.wr, core.wr[1], core.wr[2], core.wr[3])'
        /\ Pulsing(sys.rd, clk.sys.rd, core.rd[1], core.rd[2], core.rd[3])'
    BY <1>2, <1>3, <1>4, <2>1 DEF Pulsing
  <2>3. PrStarting' <=> PrStarting
    BY <1>2, <1>3, <2>1 DEF PrStarting
  <2>4. PrEnding' => PrEnding /\ sys.fin[2] = sys.fin[3]
    BY <1>1, <1>9, PrEnds
  <2>5. PrStarting \/ PrEnding \/ core.st # "IDLE" => host.pc = "wait" /\ sys.done = FALSE
    BY <1>1 DEF PrPlaces
  <2>6. PrStarting \/ core.st # "IDLE" => ~PrEnding
    BY <1>1 DEF PrPlaces
  <2>7. PrStarting \/ core.st # "IDLE" => sys.fin[2] = sys.fin[3]
    BY <1>1, <2>6, PrEnds
  <2>8. PrStarting' \/ PrEnding' \/ core'.st # "IDLE" => host'.pc = "wait" /\ sys'.done = FALSE
    BY <1>2, <1>3, <2>1, <2>3, <2>4, <2>5, <2>7
  <2>9. PrStarting' => core'.st = "IDLE" /\ ~PrEnding'
    BY <1>1, <1>2, <2>3, <2>4 DEF PrPlaces
  <2>10. PrEnding' => core'.st = "IDLE"
    BY <1>2, <2>4, <2>6
  <2> QED BY <1>2, <1>7, <1>8, <2>2, <2>8, <2>9, <2>10 DEF PrPlaces
<1>11. CASE PrMoved(s)
  <2>1. PrMoves(s)
    BY <1>11 DEF PrMoved
  <2>2. PrAtRest
    <3>1. host.pc # "wait" \/ sys.done = TRUE
      BY <2>1 DEF PrMoves
    <3> QED BY <1>1, <3>1, PrRests
  <2>3. /\ core.wr[1] = sys.wr /\ core.wr[2] = sys.wr /\ core.wr[3] = sys.wr
        /\ core.rd[1] = sys.rd /\ core.rd[2] = sys.rd /\ core.rd[3] = sys.rd
        /\ core.st = "IDLE" /\ core.fin = sys.fin[2] /\ sys.fin[2] = sys.fin[3]
    BY <2>2 DEF PrAtRest
  <2>4. /\ Pulsing(sys.wr, clk.sys.wr, core.wr[1], core.wr[2], core.wr[3])'
        /\ Pulsing(sys.rd, clk.sys.rd, core.rd[1], core.rd[2], core.rd[3])'
    BY <1>2, <2>3 DEF Pulsing
  <2>5. ~PrEnding'
    BY <1>9, <2>3
  <2>6. PrStarting' => host'.pc = "wait" /\ sys'.done = FALSE
    <3>1. PrStarting' => sys'.wr # sys.wr \/ sys'.rd # sys.rd
      BY <1>2, <2>3 DEF PrStarting
    <3> QED BY <1>1, <2>1, <2>3, <3>1, PrStrobes
  <2> QED BY <1>2, <1>7, <1>8, <2>3, <2>4, <2>5, <2>6 DEF PrPlaces
<1> QED BY <1>10, <1>11 DEF PrSteps

LEMMA PrSysAsked ==
  ASSUME PrInv, NEW s, PrSteps(s)
  PROVE  PrAsked'
<1>1. PrTypes /\ PrPlaces /\ PrAsked
  BY DEF PrInv
<1>2. core' = core /\ clk'.sys.addr = sys.addr /\ clk'.sys.w = sys.w
  BY DEF PrSteps, PrTicks
<1>3. /\ s.addr = sys.addr /\ s.w = sys.w /\ s.lane = sys.lane /\ s.wr = sys.wr /\ s.rd = sys.rd
  BY DEF PrSteps, PrLeaves
<1>4. CASE PrQuiet(s)
  <2>1. /\ host' = host /\ sys'.addr = sys.addr /\ sys'.w = sys.w /\ sys'.lane = sys.lane
        /\ sys'.wr = sys.wr /\ sys'.rd = sys.rd
    BY <1>3, <1>4 DEF PrQuiet
  <2> QED BY <1>1, <1>2, <2>1 DEF PrAsked
<1>5. CASE PrMoved(s)
  <2>1. PrMoves(s)
    BY <1>5 DEF PrMoved
  <2>2. PrAtRest
    <3>1. host.pc # "wait" \/ sys.done = TRUE
      BY <2>1 DEF PrMoves
    <3> QED BY <1>1, <3>1, PrRests
  <2>3. /\ core.wr[1] = sys.wr /\ core.wr[2] = sys.wr /\ core.wr[3] = sys.wr
        /\ core.rd[1] = sys.rd /\ core.rd[2] = sys.rd /\ core.rd[3] = sys.rd /\ core.st = "IDLE"
    BY <2>2 DEF PrAtRest
  <2>4. host.pc \in PrPc /\ host.n \in Nat /\ host.read \in BOOLEAN /\ host.lane \in 0..2 /\ sys.w \in Pair
    BY <1>1, PrFlags, PrPairs
  <2>5. host'.read \in BOOLEAN
    BY <2>1 DEF PrMoves, PrHost
  <2>6. CASE host.pc = "beat"
    BY <1>1, <1>2, <2>1, <2>4, <2>6 DEF PrMoves, PrAsked
  <2>7. CASE host.pc = "clear"
    BY <1>1, <1>2, <2>1, <2>4, <2>7 DEF PrMoves, PrAsked
  <2>8. CASE host.pc = "lane"
    <3>1. /\ sys.addr = host.n /\ host.n < HbmBeats /\ host.read = FALSE
          /\ sys.lane = host.lane % 2
          /\ host.lane >= 1 => sys.w[1] = host.n + 1
          /\ host.lane = 2 => sys.w[2] = host.n + 1
          /\ host.call = None
      BY <1>1, <2>8 DEF PrAsked
    <3>2. /\ sys'.addr = sys.addr /\ host'.read = FALSE /\ host'.n = host.n /\ sys'.rd = sys.rd
      BY <2>1, <2>8, <3>1 DEF PrMoves
    <3>3. CASE host'.pc = "lane"
      <4>1. /\ host'.call = host.call
            /\ \/ host.lane = 0 /\ host'.lane = 1 /\ sys'.lane = 1 /\ sys'.w[1] = host.n + 1
               \/ host.lane = 1 /\ host'.lane = 2 /\ sys'.lane = 0 /\ sys'.w = <<sys.w[1], host.n + 1>>
        BY <2>1, <2>8, <3>3 DEF PrMoves
      <4>2. /\ sys'.lane = host'.lane % 2
            /\ host'.lane >= 1 => sys'.w[1] = host.n + 1
            /\ host'.lane = 2 => sys'.w[2] = host.n + 1
        BY <3>1, <4>1
      <4> QED BY <3>1, <3>2, <3>3, <4>1, <4>2 DEF PrAsked
    <3>4. CASE host'.pc # "lane"
      <4>1. /\ host'.pc = "wait" /\ host.lane = 2 /\ sys'.w = sys.w /\ sys'.wr # sys.wr
            /\ host'.call = [op |-> "write", addr |-> <<"beat", host.n>>, data |-> <<host.n + 1, host.n + 1>>]
        BY <2>1, <2>8, <3>4 DEF PrMoves
      <4>2. sys'.w = <<host.n + 1, host.n + 1>>
        BY <2>4, <3>1, <4>1 DEF Pair
      <4>3. host'.call = [op |-> IF host'.read = TRUE THEN "read" ELSE "write",
                          addr |-> <<"beat", host'.n>>,
                          data |-> IF host'.read = TRUE THEN <<>> ELSE <<host'.n + 1, host'.n + 1>>]
        BY <3>2, <4>1
      <4> QED BY <1>2, <2>3, <3>1, <3>2, <4>1, <4>2, <4>3 DEF PrAsked
    <3> QED BY <3>3, <3>4
  <2>9. CASE host.pc = "read"
    <3>1. sys.addr = host.n /\ host.n < HbmBeats /\ host.read = TRUE
      BY <1>1, <2>9 DEF PrAsked
    <3>2. /\ sys'.addr = sys.addr /\ host'.read = TRUE /\ host'.n = host.n /\ sys'.wr = sys.wr
          /\ host'.pc = "wait" /\ sys'.rd # sys.rd
          /\ host'.call = [op |-> "read", addr |-> <<"beat", host.n>>, data |-> <<>>]
      BY <2>1, <2>9, <3>1 DEF PrMoves
    <3>3. host'.call = [op |-> IF host'.read = TRUE THEN "read" ELSE "write",
                        addr |-> <<"beat", host'.n>>,
                        data |-> IF host'.read = TRUE THEN <<>> ELSE <<host'.n + 1, host'.n + 1>>]
      BY <3>2
    <3> QED BY <1>2, <2>3, <3>1, <3>2, <3>3 DEF PrAsked
  <2>10. CASE host.pc \in {"wait", "rlane", "rdata"}
    <3>1. sys'.addr = sys.addr /\ host'.read = host.read
      BY <2>1, <2>10 DEF PrMoves
    <3>2. \/ host'.pc \in {"fail", "rlane", "rdata"} /\ host'.n = host.n /\ host'.call = host.call
          \/ host'.pc = "beat" /\ host'.call = None
      BY <2>1, <2>10 DEF PrMoves
    <3>3. host'.pc \in {"rlane", "rdata"} => host.read = TRUE
      BY <1>1, <2>1, <2>10 DEF PrMoves, PrAsked
    <3>4. CASE host'.pc = "beat"
      BY <3>2, <3>4 DEF PrAsked
    <3>5. CASE host'.pc # "beat"
      <4>1. /\ host'.pc \in {"fail", "rlane", "rdata"} /\ host'.n = host.n /\ host'.call = host.call
            /\ sys.addr = host.n /\ host.n < HbmBeats
        BY <1>1, <2>10, <3>2, <3>5 DEF PrAsked
      <4>2. host'.call = [op |-> IF host'.read = TRUE THEN "read" ELSE "write",
                          addr |-> <<"beat", host'.n>>,
                          data |-> IF host'.read = TRUE THEN <<>> ELSE <<host'.n + 1, host'.n + 1>>]
        BY <1>1, <2>10, <3>1, <4>1 DEF PrAsked
      <4> QED BY <3>1, <3>3, <4>1, <4>2 DEF PrAsked
    <3> QED BY <3>4, <3>5
  <2>11. host.pc # "fail"
    BY <2>1 DEF PrMoves
  <2> QED BY <2>4, <2>6, <2>7, <2>8, <2>9, <2>10, <2>11 DEF PrPc
<1> QED BY <1>4, <1>5 DEF PrSteps

LEMMA PrSame ==
  ASSUME PrTypes, NEW s, PrLeaves(s), clk.core.rbuf = core.rbuf
  PROVE  s.rbuf[1][1] = core.rbuf[1] /\ s.rbuf[1][2] = core.rbuf[2]
  BY DEF PrLeaves

LEMMA PrSysAnswered ==
  ASSUME PrInv, NEW s, PrSteps(s)
  PROVE  PrAnswered'
<1>1. PrTypes /\ PrPlaces /\ PrAsked /\ PrAnswered /\ s \in PrSys
  BY DEF PrInv, PrSteps
<1>2. core' = core /\ clk'.core.resp = core.resp /\ clk'.core.rbuf = core.rbuf
  BY DEF PrSteps, PrTicks
<1>3. /\ s.fin[1] \in {clk.core.fin, core.fin} /\ s.fin[2] = sys.fin[1]
      /\ s.resp[1] \in {clk.core.resp, core.resp} /\ s.resp[2] = sys.resp[1]
      /\ s.rbuf[2] = sys.rbuf[1] /\ s.wr = sys.wr /\ s.rd = sys.rd /\ s.rlane = sys.rlane
      /\ s.done = (sys.done = TRUE \/ sys.fin[2] # sys.fin[3])
  BY DEF PrSteps, PrLeaves
<1>4. /\ sys'.fin = s.fin /\ sys'.rbuf = s.rbuf /\ sys'.resp = s.resp
  BY DEF PrSteps, PrQuiet, PrMoved, PrMoves
<1>5. clk.core.rbuf = core.rbuf => s.rbuf[1] = core.rbuf
  <2>1. s.rbuf[1] \in Pair /\ core.rbuf \in Pair
    BY <1>1, PrPairs DEF PrSys
  <2>2. clk.core.rbuf = core.rbuf => s.rbuf[1][1] = core.rbuf[1] /\ s.rbuf[1][2] = core.rbuf[2]
    BY <1>1, PrSame DEF PrSteps
  <2> QED BY <2>1, <2>2 DEF Pair
<1>6. PrEnding =>
         /\ clk.core.resp = core.resp /\ clk.core.rbuf = core.rbuf
         /\ sys.fin[1] = core.fin => sys.resp[1] = core.resp /\ sys.rbuf[1] = core.rbuf
         /\ sys.fin[2] = core.fin => sys.resp[2] = core.resp /\ sys.rbuf[2] = core.rbuf
  BY <1>1 DEF PrAnswered
<1>7. (host.pc = "wait" /\ sys.done = TRUE) \/ host.pc \in {"rlane", "rdata", "fail"} =>
         /\ clk.core.resp = core.resp /\ clk.core.rbuf = core.rbuf
         /\ sys.resp[1] = core.resp /\ sys.rbuf[1] = core.rbuf
         /\ sys.resp[2] = core.resp /\ sys.rbuf[2] = core.rbuf
  BY <1>1 DEF PrAnswered
<1>8. PrEnding' <=> core.fin # sys.fin[2]
  BY <1>2, <1>4 DEF PrEnding, PrSteps, PrLeaves
<1>9. PrEnding' =>
         /\ clk'.core.resp = core'.resp /\ clk'.core.rbuf = core'.rbuf
         /\ sys'.fin[1] = core'.fin => sys'.resp[1] = core'.resp /\ sys'.rbuf[1] = core'.rbuf
         /\ sys'.fin[2] = core'.fin => sys'.resp[2] = core'.resp /\ sys'.rbuf[2] = core'.rbuf
  <2>1. PrEnding' => PrEnding
    BY <1>1, <1>8, PrEnds
  <2> QED BY <1>2, <1>3, <1>4, <1>5, <1>6, <2>1
<1>10. CASE PrQuiet(s)
  <2>1. sys' = s /\ host' = host
    BY <1>10 DEF PrQuiet
  <2>2. PrStarting' <=> PrStarting
    BY <1>2, <1>3, <2>1 DEF PrStarting
  <2>3. (host.pc = "wait" /\ s.done = TRUE) \/ host.pc \in {"rlane", "rdata", "fail"} =>
         /\ s.resp[1] = core.resp /\ s.rbuf[1] = core.rbuf
         /\ s.resp[2] = core.resp /\ s.rbuf[2] = core.rbuf
    <3>1. sys.fin[2] # sys.fin[3] => PrEnding /\ sys.fin[1] = core.fin
      BY <1>1, PrEnds
    <3> QED BY <1>3, <1>5, <1>6, <1>7, <3>1
  <2>4. /\ host.pc \notin {"wait", "fail"} => core.resp = "okay" /\ core.answer = "okay"
        /\ host.pc = "wait" /\ (PrStarting \/ core.st \in {"AW", "W", "AR", "R"}) =>
             core.resp = "okay" /\ core.answer = "okay"
        /\ host.pc = "wait" /\ core.st = "B" => core.resp = "okay"
        /\ host.pc \in {"wait", "fail"} /\ host.read = TRUE => core.answer = "okay"
        /\ host.pc \in {"wait", "fail"} /\ host.read = FALSE /\ ~PrStarting /\ core.st \in {"FIN", "IDLE"} =>
             core.resp = core.answer
        /\ host.pc = "fail" => core.resp # "okay"
        /\ host.pc \in {"rlane", "rdata"} => /\ host.lane \in 0..1
                                             /\ host.lane = 1 => host.got[1] = core.rbuf[1]
        /\ host.pc = "rdata" => sys.rlane = host.lane
    BY <1>1 DEF PrAnswered
  <2> QED BY <1>2, <1>3, <1>9, <2>1, <2>2, <2>3, <2>4 DEF PrAnswered
<1>11. CASE PrMoved(s)
  <2>1. PrMoves(s)
    BY <1>11 DEF PrMoved
  <2>2. PrAtRest
    <3>1. host.pc # "wait" \/ sys.done = TRUE
      BY <2>1 DEF PrMoves
    <3> QED BY <1>1, <3>1, PrRests
  <2>3. core.st = "IDLE" /\ ~PrEnding' /\ sys.fin[2] = sys.fin[3] /\ ~PrStarting
    BY <1>8, <2>2 DEF PrAtRest, PrStarting
  <2>4. host.pc \in PrPc /\ host.read \in BOOLEAN
    BY <1>1, PrFlags
  <2>5. CASE host.pc \in {"beat", "clear", "lane", "read"}
    <3>1. core.resp = "okay" /\ core.answer = "okay"
      BY <1>1, <2>5 DEF PrAnswered
    <3>2. host'.pc \in {"beat", "clear", "lane", "read", "wait"}
      BY <2>1, <2>5 DEF PrMoves
    <3>3. host'.pc = "wait" => sys'.done = FALSE
      BY <2>1, <2>3, <2>5 DEF PrMoves
    <3> QED BY <1>2, <2>3, <3>1, <3>2, <3>3 DEF PrAnswered
  <2>6. CASE host.pc \in {"wait", "rlane", "rdata"}
    <3>1. /\ s.resp[1] = core.resp /\ s.rbuf[1] = core.rbuf
          /\ s.resp[2] = core.resp /\ s.rbuf[2] = core.rbuf
          /\ sys.resp[2] = core.resp /\ sys.rbuf[2] = core.rbuf
      BY <1>3, <1>5, <1>7, <2>1, <2>6 DEF PrMoves
    <3>2. host.pc = "wait" /\ core.resp = "okay" => core.answer = "okay"
      BY <1>1, <2>3, <2>4 DEF PrAnswered
    <3>3. host'.pc # "fail" => core.resp = "okay" /\ core.answer = "okay"
      <4>1. host.pc = "wait" /\ host'.pc # "fail" => core.resp = "okay"
        BY <2>1, <3>1 DEF PrMoves
      <4> QED BY <1>1, <2>6, <3>2, <4>1 DEF PrAnswered
    <3>4. host'.pc \in {"fail", "rlane", "rdata", "beat"} /\ host'.read = host.read
      BY <2>1, <2>6 DEF PrMoves
    <3>5. host'.pc = "fail" => /\ core.resp # "okay"
                               /\ host.read = TRUE => core.answer = "okay"
                               /\ host.read = FALSE => core.resp = core.answer
      <4>1. host'.pc = "fail" => host.pc = "wait" /\ core.resp # "okay"
        BY <2>1, <2>6, <3>1 DEF PrMoves
      <4> QED BY <1>1, <2>3, <4>1 DEF PrAnswered
    <3>6. host'.pc \in {"rlane", "rdata"} => /\ host'.lane \in 0..1
                                             /\ host'.lane = 1 => host'.got[1] = core.rbuf[1]
      <4>1. CASE host.pc = "rlane"
        BY <1>1, <2>1, <4>1 DEF PrMoves, PrAnswered
      <4>2. CASE host.pc # "rlane"
        BY <2>1, <2>6, <3>1, <4>2 DEF PrMoves
      <4> QED BY <4>1, <4>2
    <3>7. host'.pc = "rdata" => sys'.rlane = host'.lane
      BY <2>1, <2>6 DEF PrMoves
    <3> QED BY <1>2, <1>4, <2>3, <3>1, <3>3, <3>4, <3>5, <3>6, <3>7 DEF PrAnswered
  <2>7. host.pc # "fail"
    BY <2>1 DEF PrMoves
  <2> QED BY <2>4, <2>5, <2>6, <2>7 DEF PrPc
<1> QED BY <1>10, <1>11 DEF PrSteps

LEMMA PrSysInv == PrInv /\ Probe!SysEdge => PrInv'
<1> SUFFICES ASSUME PrInv, Probe!SysEdge PROVE PrInv'
  OBVIOUS
<1>1. PrTypes' /\ \E s : PrSteps(s)
  BY PrSysDoes
<1>2. PICK s : PrSteps(s)
  BY <1>1
<1>3. PrPlaces' /\ PrAsked' /\ PrAnswered'
  BY <1>2, PrSysPlaces, PrSysAsked, PrSysAnswered
<1> QED BY <1>1, <1>3 DEF PrInv

-----------------------------------------------------------------------------
(* What an edge of the core does to the probe. *)

PrKeeps(e) == e.addr = core.addr /\ e.w = core.w /\ e.wr = core.wr /\ e.rd = core.rd
PrSettles(e) == e.st \in PrState /\ e.wait \in Nat /\ (e.st \in {"IDLE", "FIN"} => e.wait = 0)

PrHolds(e) == /\ e.rbuf = core.rbuf /\ e.resp = core.resp /\ e.fin = core.fin /\ e.mem = core.mem
              /\ e.held = core.held /\ e.answer = core.answer

\* The moves of the engine.
PrWaits(e) == core.wait > 0 /\ e.st = core.st /\ PrHolds(e)
PrIdles(e) == /\ core.st = "IDLE" /\ core.wr[2] = core.wr[3] /\ core.rd[2] = core.rd[3]
              /\ e.st = "IDLE" /\ PrHolds(e)
PrTakes(e) == /\ core.st = "IDLE" /\ PrHolds(e)
              /\ \/ core.wr[2] # core.wr[3] /\ e.st = "AW"
                 \/ core.rd[2] # core.rd[3] /\ e.st = "AR"
PrSends(e) == /\ \/ core.st = "AW" /\ e.st = "W"
                 \/ core.st = "AR" /\ e.st = "R"
              /\ e.rbuf = core.rbuf /\ e.resp = core.resp /\ e.fin = core.fin /\ e.mem = core.mem
              /\ e.held = core.addr[2] /\ e.answer = core.answer
PrWrites(e) == /\ core.st = "W" /\ e.st = "B"
               /\ e.rbuf = core.rbuf /\ e.resp = core.resp /\ e.fin = core.fin /\ e.held = core.held
               /\ e.mem = [core.mem EXCEPT ![core.held] =
                             IF e.answer = "okay" THEN core.w[2] ELSE core.mem[core.held]]
PrHears(e) == /\ core.st = "B" /\ e.st = "FIN"
              /\ e.rbuf = core.rbuf /\ e.fin = core.fin /\ e.mem = core.mem
              /\ e.held = core.held /\ e.answer = core.answer /\ e.resp = core.answer
PrReads(e) == /\ core.st = "R" /\ e.st = "FIN"
              /\ e.fin = core.fin /\ e.mem = core.mem /\ e.held = core.held /\ e.answer = core.answer
              /\ e.rbuf = IF e.resp = "okay" THEN core.mem[core.held] ELSE Probe!Blank
PrFinishes(e) == /\ core.st = "FIN" /\ e.st = "IDLE" /\ e.fin # core.fin
                 /\ e.rbuf = core.rbuf /\ e.resp = core.resp /\ e.mem = core.mem
                 /\ e.held = core.held /\ e.answer = core.answer
PrTurns(e) == \/ PrWaits(e) \/ PrIdles(e) \/ PrTakes(e) \/ PrSends(e) \/ PrWrites(e)
              \/ PrHears(e) \/ PrReads(e) \/ PrFinishes(e)

LEMMA PrEngineIs ==
  ASSUME PrTypes, PrPlaces, PrAsked, NEW k \in 0 .. HbmSlow, NEW resp \in Resp,
         core.wait > 0 \/ core.st \in {"B", "R", "FIN"}
           \/ (core.st = "IDLE" /\ core.wr[2] = core.wr[3] /\ core.rd[2] = core.rd[3]) => k = 0,
         NEW e, e = Probe!Engine(core, k, resp)
  PROVE  e \in PrCore /\ PrKeeps(e) /\ PrSettles(e) /\ PrTurns(e)
<1>0. HbmSlow \in Nat
  BY PortsFit DEF Probe!HbmProbeAssumption
<1>1. /\ core \in PrCore /\ core.st \in PrState /\ core.wait \in Nat /\ k \in Nat
      /\ core.addr[2] \in Nat /\ core.w[2] \in Pair /\ core.fin \in BOOLEAN
  BY <1>0 DEF PrTypes, PrCore, Pair
<1>2. /\ "IDLE" \in PrState /\ "AW" \in PrState /\ "W" \in PrState /\ "B" \in PrState
      /\ "AR" \in PrState /\ "R" \in PrState /\ "FIN" \in PrState
  BY DEF PrState
<1>3. core.st \in {"IDLE", "FIN"} => core.wait = 0
  BY DEF PrPlaces
<1>4. CASE core.wait > 0
  <2>1. PICK n \in Nat : n = core.wait - 1
    BY <1>1, <1>4
  <2>2. e = [core EXCEPT !.wait = n]
    BY <1>4, <2>1 DEF Probe!Engine
  <2>3. e \in PrCore /\ PrKeeps(e) /\ PrHolds(e) /\ e.st = core.st /\ e.wait = n
    BY <1>1, <2>2 DEF PrCore, PrKeeps, PrHolds
  <2> QED BY <1>1, <1>3, <1>4, <2>3 DEF PrTurns, PrWaits, PrSettles
<1>5. CASE core.wait = 0 /\ core.st = "IDLE"
  <2>0. ~(core.wait > 0)
    BY <1>5
  <2>1. CASE core.wr[2] # core.wr[3]
    <3>1. e = [core EXCEPT !.st = "AW", !.wait = k]
      BY <1>5, <2>0, <2>1 DEF Probe!Engine, Probe!Pulse
    <3>2. e \in PrCore /\ PrKeeps(e) /\ PrHolds(e) /\ e.st = "AW" /\ e.wait = k
      BY <1>1, <1>2, <3>1 DEF PrCore, PrKeeps, PrHolds
    <3> QED BY <1>1, <1>2, <1>5, <2>1, <3>2 DEF PrTurns, PrTakes, PrSettles
  <2>2. CASE core.wr[2] = core.wr[3] /\ core.rd[2] # core.rd[3]
    <3>1. e = [core EXCEPT !.st = "AR", !.wait = k]
      BY <1>5, <2>0, <2>2 DEF Probe!Engine, Probe!Pulse
    <3>2. e \in PrCore /\ PrKeeps(e) /\ PrHolds(e) /\ e.st = "AR" /\ e.wait = k
      BY <1>1, <1>2, <3>1 DEF PrCore, PrKeeps, PrHolds
    <3> QED BY <1>1, <1>2, <1>5, <2>2, <3>2 DEF PrTurns, PrTakes, PrSettles
  <2>3. CASE core.wr[2] = core.wr[3] /\ core.rd[2] = core.rd[3]
    <3>1. e = core
      BY <1>5, <2>0, <2>3 DEF Probe!Engine, Probe!Pulse
    <3> QED BY <1>1, <1>2, <1>5, <2>3, <3>1 DEF PrTurns, PrIdles, PrHolds, PrKeeps, PrSettles
  <2> QED BY <2>1, <2>2, <2>3
<1>6. CASE core.wait = 0 /\ core.st \in {"AW", "AR"}
  <2>0. ~(core.wait > 0)
    BY <1>6
  <2>1. PICK t \in PrState : (core.st = "AW" /\ t = "W") \/ (core.st = "AR" /\ t = "R")
    BY <1>2, <1>6
  <2>2. PICK h \in Nat : h = core.addr[2]
    BY <1>1
  <2>3. e = [core EXCEPT !.st = t, !.wait = k, !.held = h]
    <3>1. CASE core.st = "AW"
      BY <2>0, <2>1, <2>2, <3>1 DEF Probe!Engine, Probe!Out
    <3>2. CASE core.st = "AR"
      BY <2>0, <2>1, <2>2, <3>2 DEF Probe!Engine, Probe!Out
    <3> QED BY <1>6, <3>1, <3>2
  <2>4. /\ e \in PrCore /\ PrKeeps(e) /\ e.st = t /\ e.wait = k /\ e.held = h
        /\ e.rbuf = core.rbuf /\ e.resp = core.resp /\ e.fin = core.fin /\ e.mem = core.mem
        /\ e.answer = core.answer
    BY <1>1, <1>2, <2>3 DEF PrCore, PrKeeps
  <2> QED BY <1>1, <1>2, <2>1, <2>2, <2>4 DEF PrTurns, PrSends, PrSettles
<1>7. CASE core.wait = 0 /\ core.st = "W"
  <2>0. ~(core.wait > 0)
    BY <1>7
  <2>1. PICK m \in [0 .. HbmBeats - 1 -> Pair] :
          m = [core.mem EXCEPT ![core.held] =
                 IF resp = "okay" THEN core.w[2] ELSE core.mem[core.held]]
    <3>1. core.mem \in [0 .. HbmBeats - 1 -> Pair]
      BY PrPairs
    <3> QED BY <1>1, <3>1
  <2>2. e = [core EXCEPT !.st = "B", !.wait = k, !.mem = m, !.answer = resp]
    BY <1>7, <2>0, <2>1 DEF Probe!Engine, Probe!Out
  <2>3. /\ e \in PrCore /\ PrKeeps(e) /\ e.st = "B" /\ e.wait = k /\ e.held = core.held
        /\ e.rbuf = core.rbuf /\ e.resp = core.resp /\ e.fin = core.fin /\ e.mem = m
        /\ e.answer = resp
    BY <1>1, <1>2, <2>2, ZenonT(60) DEF PrCore, PrKeeps
  <2> QED BY <1>1, <1>2, <1>7, <2>1, <2>3 DEF PrTurns, PrWrites, PrSettles
<1>8. CASE core.wait = 0 /\ core.st = "B"
  <2>0. ~(core.wait > 0) /\ core.answer \in Resp
    BY <1>8, PrFlags
  <2>2. e = [core EXCEPT !.st = "FIN", !.resp = core.answer]
    BY <1>8, <2>0 DEF Probe!Engine
  <2>3. /\ e \in PrCore /\ PrKeeps(e) /\ e.st = "FIN" /\ e.wait = core.wait /\ e.held = core.held
        /\ e.rbuf = core.rbuf /\ e.resp = core.answer /\ e.fin = core.fin /\ e.mem = core.mem
        /\ e.answer = core.answer
    BY <1>1, <1>2, <2>0, <2>2 DEF PrCore, PrKeeps
  <2> QED BY <1>1, <1>2, <1>8, <2>3 DEF PrTurns, PrHears, PrSettles
<1>9. CASE core.wait = 0 /\ core.st = "R"
  <2>0. ~(core.wait > 0)
    BY <1>9
  <2>1. core.held \in 0 .. HbmBeats - 1
    <3>1. host.pc = "wait"
      BY <1>9 DEF PrPlaces
    <3>2. core.held = sys.addr /\ sys.addr = host.n /\ host.n < HbmBeats /\ host.n \in Nat
      BY <1>9, <3>1, PrFlags DEF PrAsked
    <3>3. HbmBeats \in Nat
      BY PortsFit DEF Probe!HbmProbeAssumption
    <3> QED BY <3>2, <3>3
  <2>2. PICK b \in Pair : b = IF resp = "okay" THEN core.mem[core.held] ELSE Probe!Blank
    <3>1. core.mem[core.held] \in Pair /\ Probe!Blank \in Pair
      BY <2>1, PrPairs DEF Pair, Probe!Blank
    <3> QED BY <3>1
  <2>3. e = [core EXCEPT !.st = "FIN", !.resp = resp, !.rbuf = b]
    BY <1>9, <2>0, <2>2 DEF Probe!Engine
  <2>4. /\ e \in PrCore /\ PrKeeps(e) /\ e.st = "FIN" /\ e.wait = core.wait /\ e.held = core.held
        /\ e.rbuf = b /\ e.resp = resp /\ e.fin = core.fin /\ e.mem = core.mem
        /\ e.answer = core.answer
    BY <1>1, <1>2, <2>3 DEF PrCore, PrKeeps
  <2> QED BY <1>1, <1>2, <1>9, <2>2, <2>4 DEF PrTurns, PrReads, PrSettles
<1>10. CASE core.wait = 0 /\ core.st = "FIN"
  <2>0. ~(core.wait > 0)
    BY <1>10
  <2>1. PICK f \in BOOLEAN : f = ~core.fin /\ f # core.fin
    BY <1>1
  <2>2. e = [core EXCEPT !.st = "IDLE", !.fin = f]
    BY <1>10, <2>0, <2>1 DEF Probe!Engine
  <2>3. /\ e \in PrCore /\ PrKeeps(e) /\ e.st = "IDLE" /\ e.wait = core.wait /\ e.held = core.held
        /\ e.rbuf = core.rbuf /\ e.resp = core.resp /\ e.fin = f /\ e.mem = core.mem
        /\ e.answer = core.answer
    BY <1>1, <1>2, <2>2 DEF PrCore, PrKeeps
  <2> QED BY <1>1, <1>2, <1>10, <2>1, <2>3 DEF PrTurns, PrFinishes, PrSettles
<1> QED BY <1>1, <1>4, <1>5, <1>6, <1>7, <1>8, <1>9, <1>10 DEF PrState

\* What arrives at the flops of the core.
PrLatches ==
    /\ core'.addr[1] \in {clk.sys.addr, sys.addr} /\ core'.addr[2] = core.addr[1]
    /\ core'.w[1][1] \in {clk.sys.w[1], sys.w[1]} /\ core'.w[1][2] \in {clk.sys.w[2], sys.w[2]}
    /\ core'.w[2] = core.w[1]
    /\ core'.wr[1] \in {clk.sys.wr, sys.wr} /\ core'.wr[2] = core.wr[1] /\ core'.wr[3] = core.wr[2]
    /\ core'.rd[1] \in {clk.sys.rd, sys.rd} /\ core'.rd[2] = core.rd[1] /\ core'.rd[3] = core.rd[2]

PrCounts ==
    /\ PrTicks /\ sys' = sys /\ host' = host /\ core' \in PrCore /\ PrLatches
    /\ PrSettles(core') /\ PrTurns(core')

LEMMA PrTurnsAs ==
  ASSUME NEW e, NEW c, PrSettles(e), PrTurns(e), c.st = e.st, c.wait = e.wait, c.rbuf = e.rbuf,
         c.resp = e.resp, c.fin = e.fin, c.mem = e.mem, c.held = e.held, c.answer = e.answer
  PROVE  PrSettles(c) /\ PrTurns(c)
<1>1. PrSettles(c)
  BY DEF PrSettles
<1>2. PrHolds(e) => PrHolds(c)
  BY DEF PrHolds
<1>3. /\ PrWaits(e) => PrWaits(c)
      /\ PrIdles(e) => PrIdles(c)
      /\ PrTakes(e) => PrTakes(c)
  BY <1>2 DEF PrWaits, PrIdles, PrTakes
<1>4. /\ PrSends(e) => PrSends(c)
      /\ PrWrites(e) => PrWrites(c)
  BY DEF PrSends, PrWrites
<1>5. /\ PrHears(e) => PrHears(c)
      /\ PrReads(e) => PrReads(c)
      /\ PrFinishes(e) => PrFinishes(c)
  BY DEF PrHears, PrReads, PrFinishes
<1> QED BY <1>1, <1>3, <1>4, <1>5 DEF PrTurns

LEMMA PrCoreStep ==
  ASSUME PrInv, Probe!CoreEdge
  PROVE  PrCounts
<1>0. PrTypes /\ PrPlaces /\ PrAsked
  BY DEF PrInv
<1>1. PICK addr \in Probe!Caught(clk.sys.addr, sys.addr), w \in Probe!Words(clk.sys.w, sys.w),
           wr \in Probe!Caught(clk.sys.wr, sys.wr), rd \in Probe!Caught(clk.sys.rd, sys.rd),
           k \in 0 .. HbmSlow, resp \in {"okay", "error"} :
         /\ (core.wait > 0 \/ core.st \in {"B", "R", "FIN"}
             \/ (core.st = "IDLE" /\ ~Probe!Pulse(core.wr) /\ ~Probe!Pulse(core.rd))) => k = 0
         /\ (core.wait > 0 \/ core.st \notin {"W", "R"}) => resp = "okay"
         /\ core' = Probe!Latched(Probe!Engine(core, k, resp), addr, w, wr, rd)
  BY DEF Probe!CoreEdge
<1>2. PICK e : e = Probe!Engine(core, k, resp)
  OBVIOUS
<1>3. e \in PrCore /\ PrKeeps(e) /\ PrSettles(e) /\ PrTurns(e)
  <2>1. core.wait > 0 \/ core.st \in {"B", "R", "FIN"}
           \/ (core.st = "IDLE" /\ core.wr[2] = core.wr[3] /\ core.rd[2] = core.rd[3]) => k = 0
    BY <1>1 DEF Probe!Pulse
  <2>2. resp \in Resp
    BY DEF Resp
  <2> QED BY <1>0, <1>2, <2>1, <2>2, PrEngineIs
<1>4. /\ core.addr \in Pair /\ core.w \in Pair \X Pair /\ core.wr \in Trio /\ core.rd \in Trio
      /\ clk.sys.addr \in Nat /\ sys.addr \in Nat /\ clk.sys.w \in Pair /\ sys.w \in Pair
      /\ clk.sys.wr \in BOOLEAN /\ sys.wr \in BOOLEAN /\ clk.sys.rd \in BOOLEAN /\ sys.rd \in BOOLEAN
  BY <1>0 DEF PrTypes, PrCore, PrClk, PrSys
<1>5. PICK a, v, x, y : /\ a = Probe!Clocked(core.addr, addr) /\ v = Probe!Clocked(core.w, w)
                        /\ x = Probe!ClockedChain(core.wr, wr) /\ y = Probe!ClockedChain(core.rd, rd)
  OBVIOUS
<1>6. a \in Pair /\ a[1] \in {clk.sys.addr, sys.addr} /\ a[2] = core.addr[1]
  <2>1. addr \in Nat /\ addr \in {clk.sys.addr, sys.addr} /\ core.addr[1] \in Nat
    BY <1>4 DEF Pair, Probe!Caught
  <2> QED BY <1>5, <2>1 DEF Pair, Probe!Clocked
<1>7. /\ v \in Pair \X Pair /\ v[2] = core.w[1]
      /\ v[1][1] \in {clk.sys.w[1], sys.w[1]} /\ v[1][2] \in {clk.sys.w[2], sys.w[2]}
  <2>1. w = <<w[1], w[2]>> /\ w[1] \in {clk.sys.w[1], sys.w[1]} /\ w[2] \in {clk.sys.w[2], sys.w[2]}
    BY PrWordsAre
  <2>2. w \in Pair
    <3>1. clk.sys.w[1] \in Nat /\ clk.sys.w[2] \in Nat /\ sys.w[1] \in Nat /\ sys.w[2] \in Nat
      BY <1>4 DEF Pair
    <3> QED BY <2>1, <3>1 DEF Pair
  <2>3. v[1] = w /\ v[2] = core.w[1] /\ v = <<w, core.w[1]>> /\ core.w[1] \in Pair
    BY <1>4, <1>5 DEF Probe!Clocked
  <2> QED BY <2>1, <2>2, <2>3
<1>8. /\ x \in Trio /\ x[1] \in {clk.sys.wr, sys.wr} /\ x[2] = core.wr[1] /\ x[3] = core.wr[2]
      /\ y \in Trio /\ y[1] \in {clk.sys.rd, sys.rd} /\ y[2] = core.rd[1] /\ y[3] = core.rd[2]
  <2>1. /\ wr \in BOOLEAN /\ wr \in {clk.sys.wr, sys.wr}
        /\ rd \in BOOLEAN /\ rd \in {clk.sys.rd, sys.rd}
    BY <1>4 DEF Probe!Caught
  <2> QED BY <1>4, <1>5, <2>1 DEF Trio, Probe!ClockedChain
<1>9. core' = [e EXCEPT !.addr = a, !.w = v, !.wr = x, !.rd = y]
  <2>1. core' = Probe!Latched(e, addr, w, wr, rd)
    BY <1>1, <1>2
  <2> QED BY <1>3, <1>5, <2>1 DEF PrKeeps, Probe!Latched
<1>10. /\ core' \in PrCore /\ core'.addr = a /\ core'.w = v /\ core'.wr = x /\ core'.rd = y
       /\ core'.st = e.st /\ core'.wait = e.wait /\ core'.rbuf = e.rbuf /\ core'.resp = e.resp
       /\ core'.fin = e.fin /\ core'.mem = e.mem /\ core'.held = e.held /\ core'.answer = e.answer
  BY <1>3, <1>6, <1>7, <1>8, <1>9 DEF PrCore
<1>11. PrSettles(core') /\ PrTurns(core')
  BY <1>3, <1>10, PrTurnsAs
<1>12. PrLatches
  BY <1>6, <1>7, <1>8, <1>10 DEF PrLatches
<1>13. PrTicks
  <2>1. clk.ahead < ProbeLead /\ clk.ahead \in 0 .. ProbeLead /\ ProbeLead \in Nat
    BY <1>0, PrFlags, PortsFit DEF Probe!CoreEdge, Probe!HbmProbeAssumption
  <2>2. PICK n \in 0 .. ProbeLead : n = clk.ahead + 1
    BY <2>1
  <2>3. clk' = [sys |-> Probe!SysOut, core |-> Probe!CoreOut, ahead |-> n, fresh |-> TRUE]
    BY <2>2 DEF Probe!CoreEdge
  <2> QED BY <1>0, <2>3, PrTicksIs
<1>14. sys' = sys /\ host' = host
  BY DEF Probe!CoreEdge
<1> QED BY <1>10, <1>11, <1>12, <1>13, <1>14 DEF PrCounts

-----------------------------------------------------------------------------
(* The invariant over an edge of the core. *)

\* What the invariant says of an access under way, whichever it is.
LEMMA PrUnderWay ==
  ASSUME PrInv
  PROVE  /\ PrStarting \/ PrEnding \/ core.st # "IDLE" => host.pc = "wait" /\ sys.done = FALSE
         /\ PrStarting => core.st = "IDLE" /\ ~PrEnding /\ core.wait = 0
         /\ PrEnding => core.st = "IDLE"
         /\ host.pc = "wait" /\ host.read = FALSE => sys.rd = core.rd[3] /\ core.st \notin {"AR", "R"}
         /\ host.pc = "wait" /\ host.read = TRUE => sys.wr = core.wr[3] /\ core.st \notin {"AW", "W", "B"}
<1>1. PrPlaces /\ PrAsked
  BY DEF PrInv
<1>2. PrStarting => core.wait = 0
  BY <1>1 DEF PrPlaces
<1> QED BY <1>1, <1>2 DEF PrPlaces, PrAsked

\* Where a strobe is, and what its next edge makes of it.
LEMMA PrStrobed ==
  ASSUME PrInv, PrCounts
  PROVE  /\ core.wr[2] # core.wr[3] => /\ PrStarting /\ sys.wr # core.wr[3]
                                       /\ core.wr[1] = sys.wr /\ core.wr[2] = sys.wr
         /\ core.rd[2] # core.rd[3] => /\ PrStarting /\ sys.rd # core.rd[3]
                                       /\ core.rd[1] = sys.rd /\ core.rd[2] = sys.rd
         /\ sys'.wr # core'.wr[3] => sys.wr # core.wr[3] /\ core.wr[2] = core.wr[3]
         /\ sys'.rd # core'.rd[3] => sys.rd # core.rd[3] /\ core.rd[2] = core.rd[3]
         /\ PrStarting' => PrStarting
         /\ PrStarting /\ core.wr[2] = core.wr[3] /\ core.rd[2] = core.rd[3] => PrStarting'
<1>1. PrTypes /\ PrPlaces
  BY DEF PrInv
<1>2. /\ Pulsing(sys.wr, clk.sys.wr, core.wr[1], core.wr[2], core.wr[3])
      /\ Pulsing(sys.rd, clk.sys.rd, core.rd[1], core.rd[2], core.rd[3])
  BY <1>1 DEF PrPlaces
<1>3. sys' = sys /\ core'.wr[3] = core.wr[2] /\ core'.rd[3] = core.rd[2]
  BY DEF PrCounts, PrLatches
<1>4. /\ core.wr[2] # core.wr[3] => /\ sys.wr # core.wr[3]
                                    /\ core.wr[1] = sys.wr /\ core.wr[2] = sys.wr
      /\ core.rd[2] # core.rd[3] => /\ sys.rd # core.rd[3]
                                    /\ core.rd[1] = sys.rd /\ core.rd[2] = sys.rd
  BY <1>1, <1>2, PrBits DEF Pulsing
<1>5. /\ sys.wr # core.wr[2] => sys.wr # core.wr[3] /\ core.wr[2] = core.wr[3]
      /\ sys.rd # core.rd[2] => sys.rd # core.rd[3] /\ core.rd[2] = core.rd[3]
  BY <1>1, <1>2, PrBits DEF Pulsing
<1> QED BY <1>3, <1>4, <1>5 DEF PrStarting

\* The engine takes a beat only when one is starting, and rests otherwise.
LEMMA PrTurned ==
  ASSUME PrInv, PrCounts
  PROVE  /\ core.st = "IDLE" /\ core.wr[2] = core.wr[3] /\ core.rd[2] = core.rd[3] => PrIdles(core')
         /\ core.st = "IDLE" /\ (core.wr[2] # core.wr[3] \/ core.rd[2] # core.rd[3]) => PrTakes(core')
         /\ ~PrStarting /\ core.st = "IDLE" => PrIdles(core')
<1>1. PrTurns(core')
  BY DEF PrCounts
<1>2. core.st = "IDLE" => core.wait = 0
  BY DEF PrInv, PrPlaces
<1>3. core.st = "IDLE" => PrIdles(core') \/ PrTakes(core')
  BY <1>1, <1>2 DEF PrTurns, PrWaits, PrSends, PrWrites, PrHears, PrReads, PrFinishes
<1>4. core.st = "IDLE" /\ core.wr[2] = core.wr[3] /\ core.rd[2] = core.rd[3] => PrIdles(core')
  BY <1>3 DEF PrTakes
<1>5. core.st = "IDLE" /\ (core.wr[2] # core.wr[3] \/ core.rd[2] # core.rd[3]) => PrTakes(core')
  BY <1>3 DEF PrIdles
<1> QED BY <1>4, <1>5, PrStrobed

LEMMA PrGoes ==
  ASSUME PrTypes, PrPlaces, PrTicks, PrLatches, sys' = sys
  PROVE  /\ Pulsing(sys.wr, clk.sys.wr, core.wr[1], core.wr[2], core.wr[3])'
         /\ Pulsing(sys.rd, clk.sys.rd, core.rd[1], core.rd[2], core.rd[3])'
<1>1. /\ Pulsing(sys.wr, clk.sys.wr, core.wr[1], core.wr[2], core.wr[3])
      /\ Pulsing(sys.rd, clk.sys.rd, core.rd[1], core.rd[2], core.rd[3])
  BY DEF PrPlaces
<1>2. /\ sys' = sys /\ clk'.sys.wr = sys.wr /\ clk'.sys.rd = sys.rd
      /\ core'.wr[2] = core.wr[1] /\ core'.wr[3] = core.wr[2]
      /\ core'.rd[2] = core.rd[1] /\ core'.rd[3] = core.rd[2]
  BY DEF PrTicks, PrLatches
<1>3. PICK c1 \in {clk.sys.wr, sys.wr}, c2 \in {clk.sys.rd, sys.rd} :
        c1 = core'.wr[1] /\ c2 = core'.rd[1]
  BY DEF PrLatches
<1>4. Pulsing(sys.wr, sys.wr, c1, core.wr[1], core.wr[2])
  BY <1>1, PrBits DEF Pulsing
<1>5. Pulsing(sys.rd, sys.rd, c2, core.rd[1], core.rd[2])
  BY <1>1, PrBits DEF Pulsing
<1> QED BY <1>2, <1>3, <1>4, <1>5 DEF Pulsing

LEMMA PrCorePlaces ==
  ASSUME PrInv, PrCounts
  PROVE  PrPlaces'
<1>1. PrTypes /\ PrPlaces
  BY DEF PrInv
<1>2. sys' = sys /\ host' = host /\ clk'.core.fin = core.fin
  BY DEF PrCounts, PrTicks
<1>3. /\ Pulsing(sys.wr, clk.sys.wr, core.wr[1], core.wr[2], core.wr[3])'
      /\ Pulsing(sys.rd, clk.sys.rd, core.rd[1], core.rd[2], core.rd[3])'
  BY <1>1, PrGoes DEF PrCounts
<1>4. core'.st \in {"IDLE", "FIN"} => core'.wait = 0
  BY DEF PrCounts, PrSettles
<1>5. core'.fin = core.fin \/ (core.st = "FIN" /\ core'.st = "IDLE")
  BY DEF PrCounts, PrTurns, PrWaits, PrIdles, PrTakes, PrHolds, PrSends, PrWrites, PrHears,
     PrReads, PrFinishes
<1>6. Pulsing(core.fin, clk.core.fin, sys.fin[1], sys.fin[2], sys.fin[3])'
  <2>1. Pulsing(core.fin, clk.core.fin, sys.fin[1], sys.fin[2], sys.fin[3])
    BY <1>1 DEF PrPlaces
  <2>2. core.st = "FIN" => sys.fin[1] = core.fin /\ sys.fin[2] = core.fin /\ sys.fin[3] = core.fin
    BY <1>1, PrUnderWay, PrEnds
  <2> QED BY <1>2, <1>5, <2>1, <2>2 DEF Pulsing
<1>7. core.st = "IDLE" => core'.fin = core.fin
  BY <1>5
<1>8. PrEnding' => PrEnding \/ (core.st = "FIN" /\ core'.st = "IDLE")
  BY <1>2, <1>5 DEF PrEnding
<1>9. PrEnding => core'.st = "IDLE"
  BY PrUnderWay, PrTurned DEF PrIdles
<1>10. core'.st # "IDLE" => core.st # "IDLE" \/ PrStarting
  BY PrTurned DEF PrIdles
<1>11. PrStarting' => PrStarting
  BY PrStrobed
<1>12. PrStarting' \/ PrEnding' \/ core'.st # "IDLE" => host.pc = "wait" /\ sys.done = FALSE
  BY <1>8, <1>10, <1>11, PrUnderWay
<1>13. PrStarting' => core'.st = "IDLE" /\ ~PrEnding'
  <2>1. SUFFICES ASSUME PrStarting' PROVE core'.st = "IDLE" /\ ~PrEnding'
    OBVIOUS
  <2>2. PrStarting /\ core.st = "IDLE" /\ ~PrEnding /\ host.pc = "wait"
    BY <1>11, <2>1, PrUnderWay
  <2>3. core.wr[2] = core.wr[3] /\ core.rd[2] = core.rd[3]
    <3>1. host.read \in BOOLEAN
      BY <1>1, PrFlags
    <3>2. sys.wr = core.wr[3] \/ sys.rd = core.rd[3]
      BY <2>2, <3>1, PrUnderWay
    <3>3. \/ sys.wr # core.wr[3] /\ core.wr[2] = core.wr[3]
          \/ sys.rd # core.rd[3] /\ core.rd[2] = core.rd[3]
      BY <1>2, <2>1, PrStrobed DEF PrStarting
    <3> QED BY <3>2, <3>3, PrStrobed
  <2>4. PrIdles(core')
    BY <2>2, <2>3, PrTurned
  <2> QED BY <1>8, <2>2, <2>4 DEF PrIdles
<1>14. PrEnding' => core'.st = "IDLE"
  BY <1>8, <1>9
<1> QED BY <1>2, <1>3, <1>4, <1>6, <1>12, <1>13, <1>14 DEF PrPlaces

\* The words a beat is asked with are where its strobe finds them.
LEMMA PrArrives ==
  ASSUME PrInv, PrCounts, host.pc = "wait"
  PROVE  /\ core'.addr[1] = sys.addr
         /\ host.read = FALSE => core'.w[1] = sys.w
<1>1. PrTypes /\ PrAsked /\ core' \in PrCore
  BY DEF PrInv, PrCounts
<1>2. clk.sys.addr = sys.addr /\ (host.read = FALSE => clk.sys.w = sys.w)
  BY <1>1 DEF PrAsked
<1>3. /\ core'.addr[1] \in {clk.sys.addr, sys.addr}
      /\ core'.w[1][1] \in {clk.sys.w[1], sys.w[1]} /\ core'.w[1][2] \in {clk.sys.w[2], sys.w[2]}
  BY DEF PrCounts, PrLatches
<1>4. core'.w[1] \in Pair /\ sys.w \in Pair
  <2>1. core'.w \in Pair \X Pair
    BY <1>1 DEF PrCore
  <2> QED BY <1>1, <2>1, PrPairs
<1> QED BY <1>2, <1>3, <1>4 DEF Pair

LEMMA PrCoreAsked ==
  ASSUME PrInv, PrCounts
  PROVE  PrAsked'
<1>1. PrTypes /\ PrPlaces /\ PrAsked
  BY DEF PrInv
<1>2. /\ sys' = sys /\ host' = host /\ clk'.sys.addr = sys.addr /\ clk'.sys.w = sys.w
      /\ core'.addr[2] = core.addr[1] /\ core'.w[2] = core.w[1]
      /\ core'.wr[2] = core.wr[1] /\ core'.rd[2] = core.rd[1]
      /\ core'.wr[3] = core.wr[2] /\ core'.rd[3] = core.rd[2]
  BY DEF PrCounts, PrTicks, PrLatches
<1>3. CASE host.pc # "wait"
  BY <1>1, <1>2, <1>3 DEF PrAsked
<1>4. CASE host.pc = "wait"
  <2>1. core'.addr[1] = sys.addr /\ (host.read = FALSE => core'.w[1] = sys.w)
    BY <1>4, PrArrives
  <2>2. host.read \in BOOLEAN
    BY <1>1, PrFlags
  <2>3. /\ sys.addr = host.n /\ host.n < HbmBeats
        /\ host.read = FALSE => sys.w = <<host.n + 1, host.n + 1>>
        /\ sys.wr # core.wr[3] =>
             /\ core.wr[1] = sys.wr => core.addr[1] = sys.addr /\ core.w[1] = sys.w
             /\ core.wr[2] = sys.wr => core.addr[2] = sys.addr /\ core.w[2] = sys.w
        /\ sys.rd # core.rd[3] =>
             /\ core.rd[1] = sys.rd => core.addr[1] = sys.addr
             /\ core.rd[2] = sys.rd => core.addr[2] = sys.addr
        /\ core.st # "IDLE" => /\ core.addr[1] = sys.addr /\ core.addr[2] = sys.addr
                               /\ host.read = FALSE => core.w[1] = sys.w /\ core.w[2] = sys.w
        /\ core.st \in {"W", "B", "R"} => core.held = sys.addr
    BY <1>1, <1>4 DEF PrAsked
  <2>4. /\ host.read = FALSE => sys.rd = core.rd[3] /\ core.rd[2] = core.rd[3]
        /\ host.read = TRUE => sys.wr = core.wr[3] /\ core.wr[2] = core.wr[3]
    BY <1>4, PrUnderWay, PrStrobed
  <2>5. /\ host.read = FALSE => core'.st \notin {"AR", "R"}
        /\ host.read = TRUE => core'.st \notin {"AW", "W", "B"}
    <3>1. /\ host.read = FALSE => core.st \notin {"AR", "R"}
          /\ host.read = TRUE => core.st \notin {"AW", "W", "B"}
      BY <1>4, PrUnderWay
    <3> QED BY <2>4, <3>1 DEF PrCounts, PrTurns, PrWaits, PrIdles, PrTakes, PrSends, PrWrites, PrHears,
         PrReads, PrFinishes
  <2>6. core'.st # "IDLE" => core.addr[1] = sys.addr /\ (host.read = FALSE => core.w[1] = sys.w)
    <3>1. CASE core.st # "IDLE"
      BY <2>3, <3>1
    <3>2. CASE core.st = "IDLE"
      <4>1. core'.st # "IDLE" => core.wr[2] # core.wr[3] \/ core.rd[2] # core.rd[3]
        BY <3>2, PrTurned DEF PrIdles
      <4> QED BY <2>3, <2>4, <4>1, PrStrobed
    <3> QED BY <3>1, <3>2
  <2>7. core'.st \in {"W", "B", "R"} => core'.held = sys.addr
    <3>1. core'.st \in {"W", "B", "R"} =>
            \/ core.st \in {"W", "B", "R"} /\ core'.held = core.held
            \/ core.st # "IDLE" /\ core'.held = core.addr[2]
      BY DEF PrCounts, PrTurns, PrWaits, PrHolds, PrIdles, PrTakes, PrSends, PrWrites, PrHears,
         PrReads, PrFinishes
    <3> QED BY <2>3, <3>1
  <2>8. sys.wr # core'.wr[3] =>
             /\ core'.wr[1] = sys.wr => core'.addr[1] = sys.addr /\ core'.w[1] = sys.w
             /\ core'.wr[2] = sys.wr => core'.addr[2] = sys.addr /\ core'.w[2] = sys.w
    BY <1>2, <2>1, <2>2, <2>3, <2>4, PrStrobed
  <2>9. sys.rd # core'.rd[3] =>
             /\ core'.rd[1] = sys.rd => core'.addr[1] = sys.addr
             /\ core'.rd[2] = sys.rd => core'.addr[2] = sys.addr
    BY <1>2, <2>1, <2>3, PrStrobed
  <2>10. host.call = [op |-> IF host.read = TRUE THEN "read" ELSE "write",
                      addr |-> <<"beat", host.n>>,
                      data |-> IF host.read = TRUE THEN <<>> ELSE <<host.n + 1, host.n + 1>>]
    BY <1>1, <1>4 DEF PrAsked
  <2>11. /\ host.read = FALSE => sys.rd = core'.rd[3]
         /\ host.read = TRUE => sys.wr = core'.wr[3]
    BY <1>2, <2>4
  <2> QED BY <1>2, <1>4, <2>1, <2>3, <2>5, <2>6, <2>7, <2>8, <2>9, <2>10, <2>11 DEF PrAsked
<1> QED BY <1>3, <1>4

LEMMA PrCoreAnswered ==
  ASSUME PrInv, PrCounts
  PROVE  PrAnswered'
<1>1. PrTypes /\ PrPlaces /\ PrAnswered
  BY DEF PrInv
<1>2. /\ sys' = sys /\ host' = host /\ clk'.core.resp = core.resp /\ clk'.core.rbuf = core.rbuf
  BY DEF PrCounts, PrTicks
<1>3. CASE host.pc # "wait" \/ sys.done = TRUE
  <2>1. PrAtRest
    BY <1>1, <1>3, PrRests
  <2>2. ~PrStarting /\ core.st = "IDLE" /\ sys.fin[3] = core.fin
    BY <2>1 DEF PrAtRest, PrStarting
  <2>3. PrIdles(core')
    BY <2>2, PrTurned
  <2>4. /\ core'.resp = core.resp /\ core'.answer = core.answer /\ core'.rbuf = core.rbuf
        /\ core'.fin = core.fin /\ core'.st = "IDLE"
    BY <2>3 DEF PrIdles, PrHolds
  <2>5. ~PrEnding' /\ ~PrStarting'
    BY <1>2, <2>2, <2>4, PrStrobed DEF PrEnding
  <2> QED BY <1>1, <1>2, <2>2, <2>4, <2>5 DEF PrAnswered
<1>4. CASE host.pc = "wait" /\ sys.done # TRUE
  <2>1. /\ PrStarting \/ core.st \in {"AW", "W", "AR", "R"} => core.resp = "okay" /\ core.answer = "okay"
        /\ core.st = "B" => core.resp = "okay"
        /\ host.read = TRUE => core.answer = "okay"
        /\ host.read = FALSE /\ ~PrStarting /\ core.st \in {"FIN", "IDLE"} => core.resp = core.answer
        /\ PrEnding =>
             /\ clk.core.resp = core.resp /\ clk.core.rbuf = core.rbuf
             /\ sys.fin[1] = core.fin => sys.resp[1] = core.resp /\ sys.rbuf[1] = core.rbuf
             /\ sys.fin[2] = core.fin => sys.resp[2] = core.resp /\ sys.rbuf[2] = core.rbuf
    BY <1>1, <1>4 DEF PrAnswered
  <2>2. PrTurns(core') /\ host.read \in BOOLEAN
    BY <1>1, PrFlags DEF PrCounts
  <2>3. PrStarting' \/ core'.st \in {"AW", "W", "AR", "R"} => core'.resp = "okay" /\ core'.answer = "okay"
    <3>1. PrStarting' => core'.st = "IDLE" /\ PrStarting
      BY PrCorePlaces, PrStrobed DEF PrPlaces
    <3>2. PrStarting' => core'.resp = core.resp /\ core'.answer = core.answer
      BY <3>1, PrUnderWay, PrTurned DEF PrIdles, PrTakes, PrHolds
    <3>3. core'.st \in {"AW", "W", "AR", "R"} =>
            /\ core.st \in {"AW", "W", "AR", "R"} \/ PrTakes(core')
            /\ core'.resp = core.resp /\ core'.answer = core.answer
      BY <2>2 DEF PrTurns, PrWaits, PrHolds, PrIdles, PrTakes, PrSends, PrWrites, PrHears, PrReads,
         PrFinishes
    <3>4. PrTakes(core') => PrStarting
      BY PrStrobed DEF PrTakes
    <3> QED BY <2>1, <3>1, <3>2, <3>3, <3>4
  <2>4. core'.st = "B" => core'.resp = "okay"
    <3>1. core'.st = "B" => core'.resp = core.resp /\ core.st \in {"W", "B"}
      BY <2>2 DEF PrTurns, PrWaits, PrHolds, PrIdles, PrTakes, PrSends, PrWrites, PrHears, PrReads,
         PrFinishes
    <3> QED BY <2>1, <3>1
  <2>5. host.read = TRUE => core'.answer = "okay"
    <3>1. core'.answer = core.answer \/ core.st = "W"
      BY <2>2 DEF PrTurns, PrWaits, PrHolds, PrIdles, PrTakes, PrSends, PrWrites, PrHears, PrReads,
         PrFinishes
    <3> QED BY <1>4, <2>1, <3>1, PrUnderWay
  <2>6. host.read = FALSE /\ ~PrStarting' /\ core'.st \in {"FIN", "IDLE"} => core'.resp = core'.answer
    <3>1. core'.st \in {"FIN", "IDLE"} =>
            \/ core'.resp = core'.answer
            \/ core'.resp = core.resp /\ core'.answer = core.answer /\ core.st = "FIN"
            \/ core'.resp = core.resp /\ core'.answer = core.answer /\ PrIdles(core')
            \/ core.st = "R"
      <4>1. ~(core.wait > 0) \/ core.st \notin {"IDLE", "FIN"}
        BY <1>1 DEF PrPlaces
      <4> QED BY <2>2, <4>1 DEF PrTurns, PrWaits, PrHolds, PrIdles, PrTakes, PrSends, PrWrites, PrHears, PrReads,
         PrFinishes
    <3>2. core.st = "FIN" => ~PrStarting
      BY PrUnderWay
    <3>3. PrIdles(core') /\ PrStarting => PrStarting'
      BY PrStrobed DEF PrIdles
    <3>4. host.read = FALSE => core.st # "R"
      BY <1>4, PrUnderWay
    <3>5. PrIdles(core') => core.st = "IDLE"
      BY DEF PrIdles
    <3> QED BY <2>1, <3>1, <3>2, <3>3, <3>4, <3>5
  <2>7. PrEnding' =>
          /\ core.resp = core'.resp /\ core.rbuf = core'.rbuf
          /\ sys.fin[1] = core'.fin => sys.resp[1] = core'.resp /\ sys.rbuf[1] = core'.rbuf
          /\ sys.fin[2] = core'.fin => sys.resp[2] = core'.resp /\ sys.rbuf[2] = core'.rbuf
    <3>1. CASE PrEnding
      <4>1. PrIdles(core')
        BY <3>1, PrUnderWay, PrTurned
      <4> QED BY <2>1, <3>1, <4>1 DEF PrIdles, PrHolds
    <3>2. CASE ~PrEnding
      <4>1. sys.fin[1] = core.fin /\ sys.fin[2] = core.fin /\ sys.fin[3] = core.fin
        BY <1>1, <3>2, PrEnds
      <4>2. PrEnding' => core'.fin # core.fin
        BY <1>2, <4>1 DEF PrEnding
      <4>3. core'.fin # core.fin => core'.resp = core.resp /\ core'.rbuf = core.rbuf
        BY <2>2 DEF PrTurns, PrWaits, PrHolds, PrIdles, PrTakes, PrSends, PrWrites, PrHears, PrReads,
           PrFinishes
      <4> QED BY <4>1, <4>2, <4>3
    <3> QED BY <3>1, <3>2
  <2> QED BY <1>2, <1>4, <2>3, <2>4, <2>5, <2>6, <2>7 DEF PrAnswered
<1> QED BY <1>3, <1>4

LEMMA PrCoreInv == PrInv /\ Probe!CoreEdge => PrInv'
<1> SUFFICES ASSUME PrInv, Probe!CoreEdge PROVE PrInv'
  OBVIOUS
<1>1. PrCounts
  BY PrCoreStep
<1>2. PrTypes'
  BY <1>1 DEF PrInv, PrTypes, PrCounts, PrTicks
<1>3. PrPlaces' /\ PrAsked' /\ PrAnswered'
  BY <1>1, PrCorePlaces, PrCoreAsked, PrCoreAnswered
<1> QED BY <1>2, <1>3 DEF PrInv

LEMMA PrStarts == Probe!Init => PrInv
<1> SUFFICES ASSUME Probe!Init PROVE PrInv
  OBVIOUS
<1>1. /\ sys  = [addr |-> 0, w |-> <<0, 0>>, lane |-> 0, wr |-> FALSE, rd |-> FALSE,
                 fin |-> <<FALSE, FALSE, FALSE>>, rbuf |-> <<<<0, 0>>, <<0, 0>>>>,
                 resp |-> <<"okay", "okay">>, done |-> FALSE, rlane |-> 0]
      /\ core = [st |-> "IDLE", wr |-> <<FALSE, FALSE, FALSE>>, rd |-> <<FALSE, FALSE, FALSE>>,
                 addr |-> <<0, 0>>, w |-> <<<<0, 0>>, <<0, 0>>>>, rbuf |-> <<0, 0>>,
                 resp |-> "okay", fin |-> FALSE, wait |-> 0,
                 mem |-> [a \in 0 .. HbmBeats - 1 |-> <<0, 0>>], held |-> 0,
                 answer |-> "okay"]
      /\ host = [pc |-> "beat", n |-> 0, read |-> FALSE, lane |-> 0,
                 call |-> None, told |-> None, got |-> <<0, 0>>]
  BY DEF Probe!Init, Probe!Flops, Probe!Chain, Probe!Blank
<1>2. PICK a, b : /\ a = [addr |-> 0, w |-> <<0, 0>>, wr |-> FALSE, rd |-> FALSE]
                  /\ b = [fin |-> FALSE, rbuf |-> <<0, 0>>, resp |-> "okay"]
                  /\ clk = [sys |-> a, core |-> b, ahead |-> 0, fresh |-> FALSE]
  <2>1. Probe!SysOut = [addr |-> 0, w |-> <<0, 0>>, wr |-> FALSE, rd |-> FALSE]
    BY <1>1 DEF Probe!SysOut
  <2>2. Probe!CoreOut = [fin |-> FALSE, rbuf |-> <<0, 0>>, resp |-> "okay"]
    BY <1>1 DEF Probe!CoreOut
  <2>3. clk = [sys |-> Probe!SysOut, core |-> Probe!CoreOut, ahead |-> 0, fresh |-> FALSE]
    BY DEF Probe!Init
  <2> QED BY <2>1, <2>2, <2>3
<1>3. PrTypes
  <2>1. <<FALSE, FALSE, FALSE>> \in Trio /\ <<0, 0>> \in Pair /\ "okay" \in Resp
    BY DEF Trio, Pair, Resp
  <2>2. sys \in PrSys
    <3>1. <<<<0, 0>>, <<0, 0>>>> \in Pair \X Pair /\ <<"okay", "okay">> \in Resp \X Resp
      BY <2>1
    <3> QED BY <1>1, <2>1, <3>1 DEF PrSys
  <2>3. core \in PrCore
    <3>1. PICK m \in [0 .. HbmBeats - 1 -> Pair] : m = [i \in 0 .. HbmBeats - 1 |-> <<0, 0>>]
      BY <2>1
    <3>2. "IDLE" \in PrState /\ <<0, 0>> \in Pair
      BY <2>1 DEF PrState
    <3> QED BY <1>1, <2>1, <3>1, <3>2 DEF PrCore
  <2>4. host \in PrHost
    <3>1. "beat" \in PrPc /\ 0 \in 0..2
      BY DEF PrPc
    <3> QED BY <1>1, <2>1, <3>1 DEF PrHost
  <2>5. clk \in PrClk
    <3>1. 0 \in 0 .. ProbeLead
      BY PortsFit DEF Probe!HbmProbeAssumption
    <3>2. a \in [addr : Nat, w : Pair, wr : BOOLEAN, rd : BOOLEAN]
      BY <1>2, <2>1
    <3>3. b \in [fin : BOOLEAN, rbuf : Pair, resp : Resp]
      BY <1>2, <2>1
    <3> QED BY <1>2, <3>1, <3>2, <3>3 DEF PrClk
  <2> QED BY <2>2, <2>3, <2>4, <2>5 DEF PrTypes
<1>4. PrPlaces
  BY <1>1, <1>2 DEF PrPlaces, PrStarting, PrEnding, Pulsing
<1>5. PrAsked
  BY <1>1 DEF PrAsked
<1>6. PrAnswered
  BY <1>1 DEF PrAnswered, PrEnding
<1> QED BY <1>3, <1>4, <1>5, <1>6 DEF PrInv

LEMMA PrUnmoved == PrInv /\ UNCHANGED otherVars => PrInv'
<1> SUFFICES ASSUME PrInv, UNCHANGED otherVars PROVE PrInv'
  OBVIOUS
<1>1. sys' = sys /\ core' = core /\ host' = host /\ clk' = clk
  BY DEF otherVars
<1>2. PrTypes' /\ PrPlaces'
  BY <1>1 DEF PrInv, PrTypes, PrPlaces, PrStarting, PrEnding
<1>3. PrAsked' /\ PrAnswered'
  BY <1>1 DEF PrInv, PrAsked, PrAnswered, PrStarting, PrEnding
<1> QED BY <1>2, <1>3 DEF PrInv

-----------------------------------------------------------------------------
(* An edge of the probe is a step of the port, or none. *)

LEMMA PrCalls ==
  ASSUME PrTypes, PrAsked
  PROVE  /\ host.pc \in {"beat", "clear", "lane", "read"} => host.call = None
         /\ host.pc \notin {"beat", "clear", "lane", "read"} =>
              /\ host.call # None /\ host.call.addr = <<"beat", host.n>>
              /\ host.call.op = IF host.read = TRUE THEN "read" ELSE "write"
              /\ host.read = FALSE => host.call.data = <<host.n + 1, host.n + 1>>
<1>1. host.pc \in PrPc /\ host.n \in Nat /\ host.read \in BOOLEAN
  BY PrFlags
<1>2. CASE host.pc \in {"beat", "clear", "lane", "read"}
  BY <1>2 DEF PrAsked
<1>3. CASE host.pc \notin {"beat", "clear", "lane", "read"}
  <2>1. PICK o : /\ o = [op |-> IF host.read = TRUE THEN "read" ELSE "write",
                         addr |-> <<"beat", host.n>>,
                         data |-> IF host.read = TRUE THEN <<>> ELSE <<host.n + 1, host.n + 1>>]
                 /\ host.call = o
    BY <1>1, <1>3 DEF PrAsked, PrPc
  <2>2. o # None
    BY <1>1, <2>1, PrCallIs
  <2> QED BY <1>1, <1>3, <2>1, <2>2
<1> QED BY <1>2, <1>3

PrBusy == PrStarting \/ core.st \in {"AW", "W", "AR", "R"}
PrFailed == core.answer # "okay" \/ core.resp # "okay"
PrReply == IF host.call = None \/ PrBusy \/ PrFailed THEN None
           ELSE IF host.read = TRUE THEN core.rbuf ELSE <<>>

LEMMA PrReplyIs == PrTypes /\ PrAsked => Probe!reply = PrReply
<1> SUFFICES ASSUME PrTypes, PrAsked PROVE Probe!reply = PrReply
  OBVIOUS
<1>1. Probe!Busy = PrBusy /\ Probe!Failed = PrFailed
  BY DEF Probe!Busy, Probe!Strobed, Probe!Failed, PrBusy, PrFailed, PrStarting
<1>2. CASE host.call = None
  BY <1>2 DEF Probe!reply, PrReply
<1>3. CASE host.call # None
  <2>1. host.call.op = IF host.read = TRUE THEN "read" ELSE "write"
    BY <1>3, PrCalls
  <2>2. host.call.op = "write" <=> host.read # TRUE
    BY <2>1
  <2> QED BY <1>1, <1>3, <2>2 DEF Probe!reply, PrReply
<1> QED BY <1>2, <1>3

\* A beat written is one address of the port's memory.
PrBeatsOf(m) == [a \in {<<"beat", n>> : n \in 0 .. HbmBeats - 1} |-> m[a[2]]]

LEMMA PrPlaced ==
  ASSUME NEW m \in [0 .. HbmBeats - 1 -> Pair], NEW k \in 0 .. HbmBeats - 1, NEW d,
         NEW m1, m1 = [m EXCEPT ![k] = d]
  PROVE  PrBeatsOf(m1) = With(PrBeatsOf(m), <<"beat", k>>, d)
<1>1. PICK S : S = {<<"beat", n>> : n \in 0 .. HbmBeats - 1}
  OBVIOUS
<1>2. PICK f, g : f = [a \in S |-> m[a[2]]] /\ g = [a \in S |-> m1[a[2]]]
  OBVIOUS
<1>3. \A a \in S : a = <<"beat", a[2]>> /\ a[2] \in 0 .. HbmBeats - 1
  BY <1>1
<1>4. \A a \in S : g[a] = IF a = <<"beat", k>> THEN d ELSE f[a]
  <2> TAKE a \in S
  <2>1. a = <<"beat", k>> <=> a[2] = k
    BY <1>3
  <2> QED BY <1>2, <1>3, <2>1
<1>5. g = [f EXCEPT ![<<"beat", k>>] = d]
  BY <1>2, <1>4
<1> QED BY <1>1, <1>2, <1>5 DEF PrBeatsOf, With

PrPorts ==
    \/ Asks(host.call, host'.call, PrReply', Probe!memory, Probe!memory', host.told, host'.told)
    \/ Rests(host.call, host'.call, PrReply, PrReply', Probe!memory, Probe!memory', host.told, host'.told)
    \/ Tells(host'.call, PrReply, PrReply', Probe!memory, Probe!memory', host'.told)
    \/ Writes(host.call, host'.call, PrReply, PrReply', Probe!memory, Probe!memory', host.told, host'.told)
    \/ Gets(host.call, host'.call, PrReply, PrReply', Probe!memory, Probe!memory', host.told, host'.told)

LEMMA PrSysPorts ==
  ASSUME PrInv, Probe!SysEdge
  PROVE  PrPorts
<1>1. PrTypes /\ PrPlaces /\ PrAsked /\ PrAnswered /\ host.pc \in PrPc /\ host.read \in BOOLEAN
      /\ host.n \in Nat
  BY PrFlags DEF PrInv
<1>2. PICK s : PrSteps(s)
  BY PrSysDoes
<1>3. core' = core /\ Probe!memory' = Probe!memory
  <2>1. core' = core
    BY <1>2 DEF PrSteps
  <2> QED BY <2>1 DEF Probe!memory
<1>4. CASE PrQuiet(s)
  <2>1. host' = host /\ sys'.wr = sys.wr /\ sys'.rd = sys.rd
    BY <1>2, <1>4 DEF PrSteps, PrQuiet, PrLeaves
  <2>2. PrReply' = PrReply
    BY <1>3, <2>1 DEF PrReply, PrBusy, PrFailed, PrStarting
  <2> QED BY <1>3, <2>1, <2>2 DEF PrPorts, Rests
<1>5. CASE PrMoved(s)
  <2>1. PrMoves(s)
    BY <1>5 DEF PrMoved
  <2>2. PrAtRest
    <3>1. host.pc # "wait" \/ sys.done = TRUE
      BY <2>1 DEF PrMoves
    <3> QED BY <1>1, <3>1, PrRests
  <2>3. ~PrStarting /\ ~PrBusy /\ core.wr[3] = sys.wr /\ core.rd[3] = sys.rd
    BY <2>2 DEF PrAtRest, PrStarting, PrBusy
  <2>4. CASE host.call = None /\ host'.pc = "wait"
    <3>1. /\ host.pc \in {"lane", "read"} /\ host'.told = host.told
          /\ sys'.wr # sys.wr \/ sys'.rd # sys.rd
      BY <1>1, <2>1, <2>4 DEF PrMoves, PrPc
    <3>2. PICK o : /\ o = host'.call
                   /\ \/ o = [op |-> "write", addr |-> <<"beat", host.n>>, data |-> <<host.n + 1, host.n + 1>>]
                      \/ o = [op |-> "read", addr |-> <<"beat", host.n>>, data |-> <<>>]
      BY <2>1, <2>4, <3>1 DEF PrMoves
    <3>3. o # None
      BY <1>1, <3>2, PrCallIs
    <3>4. PrReply' = None
      BY <1>3, <2>3, <3>1 DEF PrReply, PrBusy, PrStarting
    <3> QED BY <1>3, <2>4, <3>1, <3>2, <3>3, <3>4 DEF PrPorts, Asks
  <2>5. CASE host.call = None /\ host'.pc # "wait"
    <3>1. host.pc \in {"beat", "clear", "lane", "read"}
      BY <1>1, <2>5, PrCalls
    <3>2. host'.call = host.call /\ host'.told = host.told
      BY <2>1, <2>5, <3>1 DEF PrMoves
    <3>3. PrReply' = None /\ PrReply = None
      BY <2>5, <3>2 DEF PrReply
    <3> QED BY <1>3, <3>2, <3>3 DEF PrPorts, Rests
  <2>6. CASE host.call # None
    <3>1. host.pc \in {"wait", "rlane", "rdata"}
      BY <1>1, <2>1, <2>6, PrCalls DEF PrMoves, PrPc
    <3>2. sys'.wr = sys.wr /\ sys'.rd = sys.rd /\ host'.read = host.read
      BY <2>1, <3>1 DEF PrMoves
    <3>3. CASE host'.pc # "beat"
      <4>1. host'.call = host.call /\ host'.told = host.told
        BY <2>1, <3>1, <3>3 DEF PrMoves
      <4>2. PrReply' = PrReply
        BY <1>3, <3>2, <4>1 DEF PrReply, PrBusy, PrFailed, PrStarting
      <4> QED BY <1>3, <4>1, <4>2 DEF PrPorts, Rests
    <3>4. CASE host'.pc = "beat"
      <4>1. host'.call = None /\ PrReply' = None
        <5>1. host'.call = None
          BY <2>1, <3>1, <3>4 DEF PrMoves
        <5> QED BY <5>1 DEF PrReply
      <4>2. CASE host.pc = "wait"
        <5>1. host.read = FALSE /\ host'.told = <<>> /\ sys.resp[2] = "okay" /\ sys.done = TRUE
          BY <2>1, <3>4, <4>2 DEF PrMoves
        <5>2. core.resp = "okay" /\ core.answer = "okay"
          BY <1>1, <2>2, <2>3, <4>2, <5>1 DEF PrAnswered, PrAtRest
        <5>3. PrReply = <<>>
          BY <2>3, <2>6, <5>1, <5>2 DEF PrReply, PrFailed
        <5>4. <<>> # None
          <6>1. <<>> \in Port!Reply
            BY DEF Port!Reply
          <6> QED BY <6>1, Apart
        <5> QED BY <1>3, <4>1, <5>1, <5>3, <5>4 DEF PrPorts, Tells
      <4>3. CASE host.pc # "wait"
        <5>1. host.pc = "rdata" /\ host.lane = 1 /\ host'.told = <<host.got[1], sys.rbuf[2][2]>>
          BY <2>1, <3>1, <3>4, <4>3 DEF PrMoves
        <5>2. /\ host.read = TRUE /\ core.resp = "okay" /\ core.answer = "okay"
              /\ sys.rbuf[2] = core.rbuf /\ host.got[1] = core.rbuf[1] /\ core.rbuf \in Pair
          BY <1>1, <5>1, PrPairs DEF PrAsked, PrAnswered
        <5>3. host'.told = core.rbuf
          BY <5>1, <5>2 DEF Pair
        <5>4. PrReply = core.rbuf
          BY <2>3, <2>6, <5>2 DEF PrReply, PrFailed
        <5>5. core.rbuf # None
          <6>1. core.rbuf \in Port!Reply
            BY <5>2 DEF Pair, Port!Reply
          <6> QED BY <6>1, Apart
        <5> QED BY <1>3, <4>1, <5>3, <5>4, <5>5 DEF PrPorts, Tells
      <4> QED BY <4>2, <4>3
    <3> QED BY <3>3, <3>4
  <2> QED BY <2>4, <2>5, <2>6
<1> QED BY <1>2, <1>4, <1>5 DEF PrSteps

LEMMA PrCorePorts ==
  ASSUME PrInv, Probe!CoreEdge
  PROVE  PrPorts
<1>1. /\ PrTypes /\ PrPlaces /\ PrAsked /\ PrAnswered /\ host.read \in BOOLEAN /\ host.n \in Nat
      /\ core.mem \in [0 .. HbmBeats - 1 -> Pair]
  BY PrFlags, PrPairs DEF PrInv
<1>2. PrCounts
  BY PrCoreStep
<1>3. /\ sys' = sys /\ host' = host /\ PrTurns(core')
  BY <1>2 DEF PrCounts
<1>4. PrPlaces' /\ PrAnswered'
  BY <1>2, PrCorePlaces, PrCoreAnswered
<1>5. core'.mem = core.mem => Probe!memory' = Probe!memory
  BY DEF Probe!memory
<1>6. core'.mem = core.mem /\ PrReply' = PrReply => PrPorts
  BY <1>3, <1>5 DEF PrPorts, Rests
<1>7. core.st # "IDLE" => ~PrStarting /\ ~PrStarting' /\ host.pc = "wait" /\ host.call # None
  <2>1. core.st # "IDLE" => ~PrStarting /\ host.pc = "wait"
    BY PrUnderWay
  <2> QED BY <1>1, <1>2, <2>1, PrStrobed, PrCalls
<1>8. core'.st \in {"AW", "AR", "W", "R", "B", "FIN"} => ~PrStarting'
  BY <1>4 DEF PrPlaces
<1>9. CASE PrWaits(core')
  <2>1. core.st # "IDLE"
    BY <1>1, <1>9, PrFlags DEF PrPlaces, PrWaits
  <2>2. PrReply' = PrReply /\ core'.mem = core.mem
    BY <1>3, <1>7, <1>9, <2>1 DEF PrReply, PrBusy, PrFailed, PrWaits, PrHolds
  <2> QED BY <1>6, <2>2
<1>10. CASE PrIdles(core')
  <2>1. PrStarting' <=> PrStarting
    BY <1>2, <1>10, PrStrobed DEF PrIdles
  <2>2. PrReply' = PrReply /\ core'.mem = core.mem
    BY <1>3, <1>10, <2>1 DEF PrReply, PrBusy, PrFailed, PrIdles, PrHolds
  <2> QED BY <1>6, <2>2
<1>11. CASE PrTakes(core')
  <2>1. PrStarting
    BY <1>2, <1>11, PrStrobed DEF PrTakes
  <2>2. PrReply' = None /\ PrReply = None /\ core'.mem = core.mem
    BY <1>11, <2>1 DEF PrReply, PrBusy, PrTakes, PrHolds
  <2> QED BY <1>6, <2>2
<1>12. CASE PrSends(core')
  <2>1. PrReply' = None /\ PrReply = None /\ core'.mem = core.mem
    BY <1>12 DEF PrReply, PrBusy, PrSends
  <2> QED BY <1>6, <2>1
<1>13. CASE PrWrites(core')
  <2>1. core.st = "W" /\ core'.st = "B" /\ PrReply = None
    BY <1>13 DEF PrWrites, PrReply, PrBusy
  <2>2. /\ host.pc = "wait" /\ host.call # None /\ host.read = FALSE /\ ~PrStarting'
        /\ host.call.addr = <<"beat", host.n>> /\ host.call.op = "write"
        /\ host.call.data = <<host.n + 1, host.n + 1>>
    BY <1>1, <1>7, <2>1, PrUnderWay, PrCalls
  <2>3. /\ core.held = host.n /\ host.n \in 0 .. HbmBeats - 1
        /\ core.w[2] = <<host.n + 1, host.n + 1>>
    <3>1. HbmBeats \in Nat
      BY PortsFit DEF Probe!HbmProbeAssumption
    <3> QED BY <1>1, <2>1, <2>2, <3>1 DEF PrAsked
  <2>4. core'.resp = "okay"
    BY <1>3, <1>4, <2>1, <2>2 DEF PrAnswered
  <2>5. CASE core'.answer = "okay"
    <3>1. PrReply' = <<>>
      BY <1>3, <2>1, <2>2, <2>4, <2>5 DEF PrReply, PrBusy, PrFailed
    <3>2. PICK d, m1 : d = host.call.data /\ m1 = core'.mem
      OBVIOUS
    <3>3. m1 = [core.mem EXCEPT ![host.n] = d]
      BY <1>13, <2>2, <2>3, <2>5, <3>2 DEF PrWrites
    <3>4. Probe!memory' = PrBeatsOf(m1) /\ Probe!memory = PrBeatsOf(core.mem)
      BY <3>2 DEF Probe!memory, PrBeatsOf
    <3>5. PrBeatsOf(m1) = With(PrBeatsOf(core.mem), <<"beat", host.n>>, d)
      BY <1>1, <2>3, <3>3, PrPlaced
    <3>6. Probe!memory' = [Probe!memory EXCEPT ![<<"beat", host.n>>] = d]
      BY <3>4, <3>5 DEF With
    <3>7. Port!Put(Probe!memory, host.call.addr, host.call.data)
            = [Probe!memory EXCEPT ![<<"beat", host.n>>] = d]
      <4>1. <<"beat", host.n>> # Gs!Gif
        BY DEF Gs!Gif
      <4> QED BY <2>2, <3>2, <4>1 DEF Port!Put
    <3> QED BY <1>3, <2>1, <2>2, <3>1, <3>6, <3>7 DEF PrPorts, Writes
  <2>6. CASE core'.answer # "okay"
    <3>1. PrReply' = None
      BY <2>6 DEF PrReply, PrFailed
    <3>2. core'.mem = core.mem
      BY <1>1, <1>13, <2>6 DEF PrWrites
    <3> QED BY <1>6, <2>1, <3>1, <3>2
  <2> QED BY <2>5, <2>6
<1>14. CASE PrHears(core')
  <2>1. core.st = "B" /\ core'.st = "FIN" /\ core'.mem = core.mem /\ core'.rbuf = core.rbuf
        /\ core'.answer = core.answer /\ core'.resp = core.answer
    BY <1>14 DEF PrHears
  <2>2. core.resp = "okay" /\ ~PrStarting /\ ~PrStarting'
    BY <1>1, <1>7, <2>1 DEF PrAnswered
  <2>3. PrReply' = PrReply
    BY <1>3, <2>1, <2>2 DEF PrReply, PrBusy, PrFailed
  <2> QED BY <1>6, <2>1, <2>3
<1>15. CASE PrReads(core')
  <2>1. /\ core.st = "R" /\ core'.st = "FIN" /\ PrReply = None /\ core'.mem = core.mem
        /\ core'.answer = core.answer
        /\ core'.rbuf = IF core'.resp = "okay" THEN core.mem[core.held] ELSE Probe!Blank
    BY <1>15 DEF PrReads, PrReply, PrBusy
  <2>2. /\ host.pc = "wait" /\ host.call # None /\ host.read = TRUE /\ ~PrStarting'
        /\ host.call.addr = <<"beat", host.n>> /\ host.call.op = "read"
    BY <1>1, <1>7, <2>1, PrUnderWay, PrCalls
  <2>3. core.held = host.n /\ host.n \in 0 .. HbmBeats - 1
    <3>1. HbmBeats \in Nat
      BY PortsFit DEF Probe!HbmProbeAssumption
    <3> QED BY <1>1, <2>1, <2>2, <3>1 DEF PrAsked
  <2>4. core'.answer = "okay"
    BY <1>3, <1>4, <2>2 DEF PrAnswered
  <2>5. CASE core'.resp = "okay"
    <3>1. PrReply' = core.mem[host.n]
      BY <1>3, <2>1, <2>2, <2>3, <2>4, <2>5 DEF PrReply, PrBusy, PrFailed
    <3>2. Probe!memory[<<"beat", host.n>>] = core.mem[host.n]
      BY <2>3 DEF Probe!memory
    <3> QED BY <1>3, <1>5, <2>1, <2>2, <3>1, <3>2 DEF PrPorts, Gets
  <2>6. CASE core'.resp # "okay"
    <3>1. PrReply' = None
      BY <2>6 DEF PrReply, PrFailed
    <3> QED BY <1>6, <2>1, <3>1
  <2> QED BY <2>5, <2>6
<1>16. CASE PrFinishes(core')
  <2>1. /\ core.st = "FIN" /\ core'.st = "IDLE" /\ core'.rbuf = core.rbuf /\ core'.mem = core.mem
        /\ core'.answer = core.answer /\ core'.resp = core.resp
    BY <1>16 DEF PrFinishes
  <2>2. PrReply' = PrReply
    BY <1>3, <1>7, <2>1 DEF PrReply, PrBusy, PrFailed
  <2> QED BY <1>6, <2>1, <2>2
<1> QED BY <1>3, <1>9, <1>10, <1>11, <1>12, <1>13, <1>14, <1>15, <1>16 DEF PrTurns

-----------------------------------------------------------------------------
(* The boards of a run: each keeps its invariant while it is the one plugged in. *)

LEMMA EeSame == EeInv /\ UNCHANGED otherVars => EeInv'
<1> SUFFICES ASSUME EeInv, UNCHANGED otherVars PROVE EeInv'
  OBVIOUS
<1>1. sys' = sys /\ core' = core /\ host' = host /\ clk' = clk
  BY DEF otherVars
<1>2. EeTypes' /\ EeHeld' /\ EeHands'
  BY <1>1 DEF EeInv, EeTypes, EeHeld, EeHands
<1>3. EeAsked' /\ EePort'
  BY <1>1 DEF EeInv, EeAsked, EePort
<1>4. EeWhole'
  BY <1>1 DEF EeInv, EeWhole, Announced, Turn
<1>5. EeParks' /\ EeSelects'
  BY <1>1 DEF EeInv, EeParks, EeSelects, EeGood, Since
<1> QED BY <1>2, <1>3, <1>4, <1>5 DEF EeInv

LEMMA GsSame == GsInv /\ UNCHANGED otherVars => GsInv'
<1> SUFFICES ASSUME GsInv, UNCHANGED otherVars PROVE GsInv'
  OBVIOUS
<1>1. sys' = sys /\ core' = core /\ host' = host /\ clk' = clk
  BY DEF otherVars
<1>2. GsTypes' /\ GsRuns' /\ GsHands'
  BY <1>1 DEF GsInv, GsTypes, GsRuns, GsHands
<1>3. GsAsked' /\ GsPort'
  BY <1>1 DEF GsInv, GsAsked, GsPort
<1>4. GsWhole'
  BY <1>1 DEF GsInv, GsWhole, Announced, Turn
<1> QED BY <1>2, <1>3, <1>4 DEF GsInv

\* An edge of the board plugged in, or nothing of it moves.
LEMMA BoardsMove ==
  ASSUME [BoardsNext]_boardVars
  PROVE  /\ board' = board
         /\ board = "ee" => Ee!SysEdge \/ Ee!CoreEdge \/ UNCHANGED otherVars
         /\ board = "gs" => Gs!SysEdge \/ Gs!CoreEdge \/ UNCHANGED otherVars
         /\ board = "probe" => Probe!SysEdge \/ Probe!CoreEdge \/ UNCHANGED otherVars
         /\ board = "iop" => Iop!SysEdge \/ Iop!CoreEdge \/ UNCHANGED otherVars
<1>1. CASE UNCHANGED boardVars
  BY <1>1 DEF boardVars
<1>2. CASE SysEdge
  BY <1>2 DEF SysEdge, Ports, On
<1>3. CASE CoreEdge
  BY <1>3 DEF CoreEdge, Ports, On
<1>4. CASE Stage
  BY <1>4 DEF Stage, On
<1>5. CASE Exchange
  BY <1>5 DEF Exchange, Ports, On
<1>6. CASE Fetch
  BY <1>6 DEF Fetch, Ports, On
<1> QED BY <1>1, <1>2, <1>3, <1>4, <1>5, <1>6 DEF BoardsNext

StatusKept == (board = "ee" => EeInv) /\ (board = "gs" => GsInv)

LEMMA StatusStarts == BoardsInit => StatusKept
<1> SUFFICES ASSUME BoardsInit PROVE StatusKept
  OBVIOUS
<1>1. board = "ee" => Ee!Init
  BY DEF BoardsInit, On
<1>2. board = "gs" => Gs!Init
  BY DEF BoardsInit, On
<1> QED BY <1>1, <1>2, EeStarts, GsStarts DEF StatusKept

LEMMA StatusGoesOn == StatusKept /\ [BoardsNext]_boardVars => StatusKept'
<1> SUFFICES ASSUME StatusKept, [BoardsNext]_boardVars PROVE StatusKept'
  OBVIOUS
<1>1. board = "ee" => EeInv'
  BY BoardsMove, EeSysInv, EeCoreInv, EeSame DEF StatusKept
<1>2. board = "gs" => GsInv'
  BY BoardsMove, GsSysInv, GsCoreInv, GsSame DEF StatusKept
<1> QED BY <1>1, <1>2, BoardsMove DEF StatusKept

\* The status the host reads is of one moment, for any snapshot period that outlasts
\* its crossing and whatever the phase of the clocks; and each register the loader of
\* the EE reads half by half after its sleep is the one it selected, as the program
\* left it (the snapshot toggle of GSBringup and EEBringup, gpr of eerun.py).
THEOREM StatusOfOneMoment == BoardsSpec => []StatusWhole
<1>1. StatusKept => StatusWhole
  <2>1. board = "gs" /\ GsInv => sys.hold[1] = sys.hold[2]
    BY DEF GsInv, GsWhole
  <2>2. board = "ee" /\ EeInv =>
          /\ sys.hold[1][2] = sys.hold[2]
          /\ host.pc = "end" => host.regs = [i \in 1 .. Regs |-> <<i, Park>>]
    BY DEF EeInv, EeWhole, EeSelects
  <2> QED BY <2>1, <2>2 DEF StatusKept, StatusWhole, On
<1>2. BoardsInit => StatusKept
  BY StatusStarts
<1>3. StatusKept /\ [BoardsNext]_boardVars => StatusKept'
  BY StatusGoesOn
<1> QED BY <1>1, <1>2, <1>3, PTL DEF BoardsSpec

-----------------------------------------------------------------------------
(* The ports implement the abstract port. *)

PortsKept == StatusKept /\ (board = "probe" => PrInv)

LEMMA PortsStart == BoardsInit => PortsKept
<1> SUFFICES ASSUME BoardsInit PROVE PortsKept
  OBVIOUS
<1>1. board = "probe" => Probe!Init
  BY DEF BoardsInit, On
<1> QED BY <1>1, StatusStarts, PrStarts DEF PortsKept

LEMMA PortsGoOn == PortsKept /\ [BoardsNext]_boardVars => PortsKept'
<1> SUFFICES ASSUME PortsKept, [BoardsNext]_boardVars PROVE PortsKept'
  OBVIOUS
<1>1. StatusKept'
  BY StatusGoesOn DEF PortsKept
<1>2. board = "probe" => PrInv'
  BY BoardsMove, PrSysInv, PrCoreInv, PrUnmoved DEF PortsKept
<1> QED BY <1>1, <1>2, BoardsMove DEF PortsKept

\* What the abstract port sees of the board plugged in.
Called == IF Ported THEN host.call ELSE None
Told == IF Ported THEN host.told ELSE None
Replied == CASE On("gs") -> Gs!reply [] On("ee") -> Ee!reply [] On("probe") -> Probe!reply
             [] OTHER -> None
Holds == CASE On("gs") -> Gs!memory [] On("ee") -> Ee!memory [] On("probe") -> Probe!memory
           [] OTHER -> <<>>

Seen ==
  /\ board = "gs" => Called = host.call /\ Told = host.told /\ Replied = Gs!reply /\ Holds = Gs!memory
  /\ board = "ee" => Called = host.call /\ Told = host.told /\ Replied = Ee!reply /\ Holds = Ee!memory
  /\ board = "probe" =>
       Called = host.call /\ Told = host.told /\ Replied = Probe!reply /\ Holds = Probe!memory
  /\ board \notin {"gs", "ee", "probe"} =>
       Called = None /\ Told = None /\ Replied = None /\ Holds = <<>>

LEMMA SeenOf == Seen
<1>1. Called = (IF board \in {"gs", "ee", "probe"} THEN host.call ELSE None)
  BY DEF Called, Ported
<1>2. Told = (IF board \in {"gs", "ee", "probe"} THEN host.told ELSE None)
  BY DEF Told, Ported
<1>3. /\ board = "gs" => Replied = Gs!reply
      /\ board = "ee" => Replied = Ee!reply
      /\ board = "probe" => Replied = Probe!reply
      /\ board \notin {"gs", "ee", "probe"} => Replied = None
  BY DEF Replied, On
<1>4. /\ board = "gs" => Holds = Gs!memory
      /\ board = "ee" => Holds = Ee!memory
      /\ board = "probe" => Holds = Probe!memory
      /\ board \notin {"gs", "ee", "probe"} => Holds = <<>>
  BY DEF Holds, On
<1> QED BY <1>1, <1>2, <1>3, <1>4 DEF Seen

\* The same in the state that a step leads to.
LEMMA SeenThen == Seen'
  BY SeenOf, PTL
LEMMA GsReplyThen == (GsTypes /\ GsAsked => Gs!reply = GsReply)'
  BY GsReplyIs, PTL
LEMMA EeReplyThen == (EeTypes /\ EeAsked => Ee!reply = EeReply)'
  BY EeReplyIs, PTL
LEMMA PrReplyThen == (PrTypes /\ PrAsked => Probe!reply = PrReply)'
  BY PrReplyIs, PTL

\* The steps of a port, in the terms of the abstract one.
PortStep ==
    \/ Asks(Called, Called', Replied', Holds, Holds', Told, Told')
    \/ Rests(Called, Called', Replied, Replied', Holds, Holds', Told, Told')
    \/ Owns(Called, Called', Replied, Replied', Holds, Holds', Told, Told')
    \/ Tells(Called', Replied, Replied', Holds, Holds', Told')
    \/ Writes(Called, Called', Replied, Replied', Holds, Holds', Told, Told')
    \/ Gets(Called, Called', Replied, Replied', Holds, Holds', Told, Told')
    \/ Finds(Called, Called', Replied, Replied', Holds, Holds', Told, Told')

LEMMA PortStepIs == PortStep => [Port!Next]_Port!vars
<1> SUFFICES ASSUME PortStep PROVE [Port!Next]_Port!vars
  OBVIOUS
<1>1. CASE Asks(Called, Called', Replied', Holds, Holds', Told, Told')
  <2>1. Port!Ask
    BY <1>1 DEF Asks, Port!Ask, Called, Told, Replied, Holds
  <2> QED BY <2>1 DEF Port!Next
<1>2. CASE Rests(Called, Called', Replied, Replied', Holds, Holds', Told, Told')
  <2>1. UNCHANGED Port!vars
    BY <1>2 DEF Rests, Port!vars, Called, Told, Replied, Holds
  <2> QED BY <2>1
<1>3. CASE Owns(Called, Called', Replied, Replied', Holds, Holds', Told, Told')
  <2>1. Port!Own
    BY <1>3 DEF Owns, GsDraws, Port!Own, Called, Told, Replied, Holds
  <2> QED BY <2>1 DEF Port!Next
<1>4. CASE Tells(Called', Replied, Replied', Holds, Holds', Told')
  <2>1. Port!Answer
    BY <1>4 DEF Tells, Port!Answer, Called, Told, Replied, Holds
  <2> QED BY <2>1 DEF Port!Next
<1>5. CASE Writes(Called, Called', Replied, Replied', Holds, Holds', Told, Told')
  <2>1. Port!Perform
    BY <1>5 DEF Writes, Port!Perform, Called, Told, Replied, Holds
  <2> QED BY <2>1 DEF Port!Next
<1>6. CASE Gets(Called, Called', Replied, Replied', Holds, Holds', Told, Told')
  <2>1. Port!Perform
    BY <1>6 DEF Gets, Port!Perform, Called, Told, Replied, Holds
  <2> QED BY <2>1 DEF Port!Next
<1>7. CASE Finds(Called, Called', Replied, Replied', Holds, Holds', Told, Told')
  <2>1. Port!Perform
    BY <1>7 DEF Finds, GsDraws, Port!Perform, Called, Told, Replied, Holds
  <2> QED BY <2>1 DEF Port!Next
<1> QED BY <1>1, <1>2, <1>3, <1>4, <1>5, <1>6, <1>7 DEF PortStep

LEMMA PortsMove ==
  ASSUME PortsKept, [BoardsNext]_boardVars
  PROVE  PortStep
<1>1. PortsKept' /\ board' = board
  BY PortsGoOn, BoardsMove
<1>2. CASE board = "gs"
  <2>1. GsInv /\ GsInv'
    BY <1>1, <1>2 DEF PortsKept, StatusKept
  <2>2. Gs!reply = GsReply /\ (Gs!reply)' = GsReply'
    <3>1. (GsTypes /\ GsAsked) /\ (GsTypes /\ GsAsked)'
      BY <2>1 DEF GsInv
    <3> QED BY <3>1, GsReplyIs, GsReplyThen
  <2>3. /\ Called = host.call /\ Told = host.told /\ Replied = GsReply /\ Holds = Gs!memory
        /\ Called' = host'.call /\ Told' = host'.told /\ Replied' = GsReply' /\ Holds' = Gs!memory'
    BY <1>1, <1>2, <2>2, SeenOf, SeenThen DEF Seen
  <2>4. GsPorts \/ UNCHANGED otherVars
    BY <1>2, <2>1, BoardsMove, GsSysPorts, GsCorePorts
  <2>5. CASE GsPorts
    BY <2>3, <2>5 DEF GsPorts, PortStep
  <2>6. CASE UNCHANGED otherVars
    <3>1. host' = host /\ GsReply' = GsReply /\ Gs!memory' = Gs!memory
      BY <2>6 DEF otherVars, GsReply, Gs!memory
    <3> QED BY <2>3, <3>1 DEF Rests, PortStep
  <2> QED BY <2>4, <2>5, <2>6
<1>3. CASE board = "ee"
  <2>1. EeInv /\ EeInv'
    BY <1>1, <1>3 DEF PortsKept, StatusKept
  <2>2. Ee!reply = EeReply /\ (Ee!reply)' = EeReply'
    <3>1. (EeTypes /\ EeAsked) /\ (EeTypes /\ EeAsked)'
      BY <2>1 DEF EeInv
    <3> QED BY <3>1, EeReplyIs, EeReplyThen
  <2>3. /\ Called = host.call /\ Told = host.told /\ Replied = EeReply /\ Holds = Ee!memory
        /\ Called' = host'.call /\ Told' = host'.told /\ Replied' = EeReply' /\ Holds' = Ee!memory'
    BY <1>1, <1>3, <2>2, SeenOf, SeenThen DEF Seen
  <2>4. EePorts \/ UNCHANGED otherVars
    BY <1>3, <2>1, BoardsMove, EeSysPorts, EeCorePorts
  <2>5. CASE EePorts
    BY <2>3, <2>5 DEF EePorts, PortStep
  <2>6. CASE UNCHANGED otherVars
    <3>1. host' = host /\ EeReply' = EeReply /\ Ee!memory' = Ee!memory
      BY <2>6 DEF otherVars, EeReply, Ee!memory
    <3> QED BY <2>3, <3>1 DEF Rests, PortStep
  <2> QED BY <2>4, <2>5, <2>6
<1>4. CASE board = "probe"
  <2>1. PrInv /\ PrInv'
    BY <1>1, <1>4 DEF PortsKept
  <2>2. Probe!reply = PrReply /\ (Probe!reply)' = PrReply'
    <3>1. (PrTypes /\ PrAsked) /\ (PrTypes /\ PrAsked)'
      BY <2>1 DEF PrInv
    <3> QED BY <3>1, PrReplyIs, PrReplyThen
  <2>3. /\ Called = host.call /\ Told = host.told /\ Replied = PrReply /\ Holds = Probe!memory
        /\ Called' = host'.call /\ Told' = host'.told /\ Replied' = PrReply' /\ Holds' = Probe!memory'
    BY <1>1, <1>4, <2>2, SeenOf, SeenThen DEF Seen
  <2>4. PrPorts \/ UNCHANGED otherVars
    BY <1>4, <2>1, BoardsMove, PrSysPorts, PrCorePorts
  <2>5. CASE PrPorts
    BY <2>3, <2>5 DEF PrPorts, PortStep
  <2>6. CASE UNCHANGED otherVars
    <3>1. host' = host /\ PrReply' = PrReply /\ Probe!memory' = Probe!memory
      BY <2>6 DEF otherVars, PrReply, PrBusy, PrFailed, PrStarting, Probe!memory
    <3> QED BY <2>3, <3>1 DEF Rests, PortStep
  <2> QED BY <2>4, <2>5, <2>6
<1>5. CASE board \notin {"gs", "ee", "probe"}
  <2>1. /\ Called = None /\ Told = None /\ Replied = None /\ Holds = <<>>
        /\ Called' = None /\ Told' = None /\ Replied' = None /\ Holds' = <<>>
    BY <1>1, <1>5, SeenOf, SeenThen DEF Seen
  <2> QED BY <2>1 DEF Rests, PortStep
<1> QED BY <1>2, <1>3, <1>4, <1>5

LEMMA PortsInit == BoardsInit => Port!Init
<1> SUFFICES ASSUME BoardsInit PROVE Port!Init
  OBVIOUS
<1>1. /\ board = "gs" => Gs!Init
      /\ board = "ee" => Ee!Init
      /\ board = "probe" => Probe!Init
  BY DEF BoardsInit, On
<1>2. board \in {"gs", "ee", "probe"} => host.call = None /\ host.told = None
  <2>1. board = "gs" => host.call = None /\ host.told = None
    BY <1>1 DEF Gs!Init
  <2>2. board = "ee" => host.call = None /\ host.told = None
    BY <1>1 DEF Ee!Init
  <2>3. board = "probe" => host.call = None /\ host.told = None
    BY <1>1 DEF Probe!Init
  <2> QED BY <2>1, <2>2, <2>3
<1>3. board \in {"gs", "ee", "probe"} => Replied = None
  BY <1>2, SeenOf DEF Seen, Gs!reply, Ee!reply, Probe!reply
<1>4. Called = None /\ Told = None /\ Replied = None
  BY <1>2, <1>3, SeenOf DEF Seen
<1> QED BY <1>4 DEF Port!Init, Called, Told, Replied

\* Each word pushed into the GIF, each line of memory and each beat of HBM read or
\* written through a board's port is performed once, with the address and the data it
\* was asked with, and a read is told what the memory held then: for any number of
\* words, lines and beats, any phase of the clocks and any delay of HBM, the request
\* toggles of GSBringup and EEBringup and the pulses of HBMProbe implement the port.
THEOREM PortsImplemented == BoardsSpec => PortRefined
<1>1. BoardsInit => Port!Init /\ PortsKept
  BY PortsInit, PortsStart
<1>2. PortsKept /\ [BoardsNext]_boardVars => PortsKept' /\ [Port!Next]_Port!vars
  BY PortsGoOn, PortsMove, PortStepIs
<1> QED BY <1>1, <1>2, PTL DEF BoardsSpec, PortRefined, Port!Spec
\* The memory of the EE with its invariant, over the variables of the boards.
RamP == INSTANCE EeMemory_proofs WITH
    Line <- 0..2, Indices <- 2, Accesses <- 1, Fetches <- 2, Runs <- 2, Room <- 2,
    Where <- {[line |-> 0, beat |-> 0, half |-> 1], [line |-> 2, beat |-> 1, half |-> 0]},
    cpu <- sys, axi <- clk

-----------------------------------------------------------------------------
(* The two instances are one system. *)

LEMMA RamFits == RamP!EeMemoryAssumption
  BY MemoryFits
     DEF Ram!EeMemoryAssumption, RamP!EeMemoryAssumption, Ram!Address, RamP!Address, Ram!Datum,
         RamP!Datum, Ram!Request, RamP!Request, Ram!Half, RamP!Half

LEMMA RamInit == Ram!Init => RamP!Init
  BY SMTT(60) DEF Ram!Init, RamP!Init, Ram!Cold, RamP!Cold, Ram!NoLine, RamP!NoLine, Ram!Image,
         RamP!Image, Ram!Half, RamP!Half

LEMMA RamNext == Ram!Next => RamP!Next
  BY ZenonT(60) DEF Ram!Next, RamP!Next, Ram!Edge, RamP!Edge, Ram!ServeRead, RamP!ServeRead,
         Ram!ServeWrite, RamP!ServeWrite, Ram!Take, RamP!Take, Ram!Load, RamP!Load,
         Ram!Handshakes, RamP!Handshakes, Ram!Reset, RamP!Reset, Ram!Cold, RamP!Cold,
         Ram!NoLine, RamP!NoLine, Ram!Half, RamP!Half, Ram!Cache, RamP!Cache, Ram!Queued,
         RamP!Queued, Ram!Arbiter, RamP!Arbiter, Ram!CpuEdge, RamP!CpuEdge, Ram!Asks, RamP!Asks,
         Ram!Free, RamP!Free, Ram!Lookup, RamP!Lookup, Ram!Master, RamP!Master, Ram!Hit,
         RamP!Hit, Ram!WithBeat, RamP!WithBeat, Ram!index, RamP!index, Ram!Answered,
         RamP!Answered, Ram!Filled, RamP!Filled, Ram!Beat, RamP!Beat, Ram!Image, RamP!Image,
         Ram!Quiet, RamP!Quiet, Ram!Open, RamP!Open

LEMMA RamSafe ==
  /\ RamP!MemoryCurrent => Ram!MemoryCurrent
  /\ RamP!Coherent => Ram!Coherent
  BY DEF Ram!MemoryCurrent, RamP!MemoryCurrent, Ram!Current, RamP!Current, Ram!Beat, RamP!Beat,
         Ram!Coherent, RamP!Coherent, Ram!Half, RamP!Half, Ram!index, RamP!index

-----------------------------------------------------------------------------
(* The EE plugged in: its steps are those of its memory, and nothing else moves it. *)

RamKept == board = "ram" => RamP!IInv

LEMMA RamKeptInit == BoardsInit => RamKept
<1> SUFFICES ASSUME BoardsInit, board = "ram" PROVE RamP!IInv
  BY DEF RamKept
<1>1. Ram!Init
  BY DEF BoardsInit, On
<1> QED BY <1>1, RamInit, RamFits, RamP!InitKept

LEMMA RamKeptNext == RamKept /\ [BoardsNext]_boardVars => RamKept'
<1> SUFFICES ASSUME RamKept, [BoardsNext]_boardVars, board' = "ram" PROVE RamP!IInv'
  BY DEF RamKept
<1>1. board' = board
  BY DEF BoardsNext, SysEdge, CoreEdge, Stage, Exchange, Fetch, Ports, boardVars
<1>2. board = "ram" /\ RamP!IInv
  BY <1>1 DEF RamKept
<1>3. [RamP!Next]_(RamP!vars)
  <2>1. CASE UNCHANGED boardVars
    BY <2>1 DEF boardVars, otherVars, RamP!vars
  <2>2. CASE BoardsNext
    <3>1. Fetch
      BY <1>2, <2>2 DEF BoardsNext, SysEdge, CoreEdge, Stage, Exchange, On
    <3> QED BY <3>1, RamNext DEF Fetch
  <2> QED BY <2>1, <2>2
<1> QED BY <1>2, <1>3, RamFits, RamP!NextKept

\* The EE reads what was loaded and stored, through its cache, over resets that cut
\* no transfer off, and the cache is coherent (ee_top.vhd, ee_ram.vhd).
THEOREM BoardsMemoryCurrent == BoardsSpec => []MemoryCurrent
<1>1. RamKept => MemoryCurrent
  <2>1. RamP!IInv => RamP!MemoryCurrent /\ RamP!Coherent
    BY RamFits, RamP!KeptIsCurrent, RamP!KeptIsCoherent
  <2> QED BY <2>1, RamSafe DEF RamKept, MemoryCurrent, On
<1>2. BoardsInit => RamKept
  BY RamKeptInit
<1>3. RamKept /\ [BoardsNext]_boardVars => RamKept'
  BY RamKeptNext
<1> QED BY <1>1, <1>2, <1>3, PTL DEF BoardsSpec
=============================================================================
