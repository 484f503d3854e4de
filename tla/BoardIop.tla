------------------------------- MODULE BoardIop -------------------------------
(***************************************************************************)
(* The host's ports into the memory and the mailbox of the IOP: IOPBringup *)
(* (src/boards/c1100_ps2_iop.py) and src/tools/ps2iop/iop_post.py, which   *)
(* loads the ROM in chunks, verifies it through the peek port, lets the    *)
(* IOP go and answers its SIF handshake as the EE until POST says pass.    *)
(* Here sys is the faster clock: three or four of its edges for one of     *)
(* iop.  Word i of the image is i; the IOP, which is external, publishes   *)
(* its ready bit, waits for the EE's and posts whether MSCOM was there     *)
(* first; the memory answers a peek within Slow edges.                     *)
(***************************************************************************)
EXTENDS Crossing

CONSTANTS Size, Chunk,  \* words of the image, and of a chunk of it
          Gap,          \* iop edges an access of the host takes, at least
          Slips,        \* how many writes of a word may take less
          Slow, None

\* Whole chunks; and an access of the host takes long enough for a peek to be back.
BoardIopAssumption ==
    /\ Size \in Nat \ {0} /\ Chunk \in Nat \ {0} /\ Size % Chunk = 0
    /\ Gap \in Nat /\ Slow \in Nat /\ Slow + 7 <= Gap
    /\ Slips \in Nat /\ None \notin Nat

VARIABLES sys, core, host, clk
vars == <<sys, core, host, clk>>

SysOut == [reset |-> sys.reset, addr |-> sys.addr, word |-> sys.word, anchor |-> sys.anchor,
           wr |-> sys.wr, ptr |-> sys.ptr, peek |-> sys.peek, data |-> sys.data,
           sel |-> sys.sel, sif |-> sys.sif]
CoreOut == [value |-> core.value, ready |-> core.ready, post |-> core.post]

Image == [i \in 0 .. Size - 1 |-> i]

Init ==
    /\ sys  = [reset |-> TRUE, addr |-> 0, word |-> 0, anchor |-> FALSE, wr |-> FALSE,
               ptr |-> 0, peek |-> FALSE, parm |-> FALSE, pgo |-> FALSE,
               value |-> Flops(None), data |-> None, sel |-> None, sif |-> FALSE,
               sarm |-> FALSE, sgo |-> FALSE, ready |-> Flops(FALSE), post |-> Flops(None)]
    /\ core = [rst |-> Flops(TRUE), anchor |-> Chain(FALSE), wr |-> Chain(FALSE),
               ptr |-> 0, rom_wr |-> FALSE, word |-> 0, rom |-> [i \in DOMAIN Image |-> None],
               peek |-> Chain(FALSE), paddr |-> Flops(0), left |-> None, value |-> None,
               sif |-> Chain(FALSE), sel |-> Flops(None), data |-> Flops(None),
               MSCOM |-> None, MSFLAG |-> None, ready |-> FALSE, post |-> None]
    /\ host = [pc |-> "reset", n |-> 0, slipped |-> {}, slips |-> 0, bad |-> FALSE,
               answered |-> FALSE]
    /\ clk  = [sys |-> SysOut, core |-> CoreOut, edges |-> 0, gap |-> 0]

-----------------------------------------------------------------------------
(* One edge of the iop clock *)

\* The ROM port: a pulse of rom_addr moves the pointer, one of rom_data stores
\* a word, after which the pointer steps on.
RomPort(c, addr, word) ==
    [c EXCEPT !.rom    = IF c.rom_wr /\ c.ptr < Size THEN [@ EXCEPT ![c.ptr] = c.word] ELSE @,
              !.ptr    = IF Pulse(c.anchor) THEN addr ELSE IF c.rom_wr THEN @ + 1 ELSE @,
              !.rom_wr = Pulse(c.wr),
              !.word   = IF Pulse(c.wr) THEN word ELSE @]

\* The peek: it is taken while the IOP is held, and answered k edges later.
PeekPort(c, k) ==
    IF Pulse(c.peek) /\ Out(c.rst) THEN [c EXCEPT !.left = k]
    ELSE IF c.left = None THEN c
    ELSE IF c.left > 0 THEN [c EXCEPT !.left = @ - 1]
    ELSE [c EXCEPT !.left = None,
                   !.value = IF Out(c.paddr) < Size THEN c.rom[Out(c.paddr)] ELSE None]

\* The mailbox and the IOP: it publishes its bit, and when the EE's is there it
\* posts whether MSCOM is.
Mailbox(c) ==
    IF Out(c.rst) THEN [c EXCEPT !.MSCOM = None, !.MSFLAG = None, !.ready = FALSE, !.post = None]
    ELSE LET put(sel, was) == IF Pulse(c.sif) /\ Out(c.sel) = sel THEN Out(c.data) ELSE was
         IN  [c EXCEPT !.MSCOM = put("MSCOM", @), !.MSFLAG = put("MSFLAG", @), !.ready = TRUE,
                       !.post = IF c.MSFLAG = None \/ @ # None THEN @
                                ELSE IF c.MSFLAG = "SIFINIT" /\ c.MSCOM = "greeting" THEN "pass" ELSE "fail"]

\* What the host's lines show is caught, and goes on by one flip-flop.
Sampled(c, reset, anchor, wr, ptr, peek, data, sel, sif) ==
    [c EXCEPT !.rst = Clocked(@, reset), !.anchor = ClockedChain(@, anchor),
              !.wr = ClockedChain(@, wr), !.paddr = Clocked(@, ptr),
              !.peek = ClockedChain(@, peek), !.data = Clocked(@, data),
              !.sel = Clocked(@, sel), !.sif = ClockedChain(@, sif)]

CoreEdge ==
    /\ clk.edges >= 3
    /\ \E reset \in Caught(clk.sys.reset, sys.reset), addr \in Caught(clk.sys.addr, sys.addr),
          word \in Caught(clk.sys.word, sys.word), anchor \in Caught(clk.sys.anchor, sys.anchor),
          wr \in Caught(clk.sys.wr, sys.wr), ptr \in Caught(clk.sys.ptr, sys.ptr),
          peek \in Caught(clk.sys.peek, sys.peek), data \in Caught(clk.sys.data, sys.data),
          sel \in Caught(clk.sys.sel, sys.sel), sif \in Caught(clk.sys.sif, sys.sif),
          k \in 0 .. Slow :
         /\ ~Pulse(core.peek) => k = 0
         /\ core' = Sampled(Mailbox(PeekPort(RomPort(core, addr, word), k)),
                           reset, anchor, wr, ptr, peek, data, sel, sif)
    /\ clk' = [sys |-> SysOut, core |-> CoreOut, edges |-> 0,
               gap |-> IF clk.gap < Gap THEN clk.gap + 1 ELSE Gap]
    /\ UNCHANGED <<sys, host>>

-----------------------------------------------------------------------------
(* One edge of the sys clock, with at most one access of the host *)

\* The strobe of the peek, and of the mailbox, leaves two edges after its cause.
Settled(s, c) ==
    [s EXCEPT !.parm = FALSE, !.pgo = s.parm, !.peek = IF s.pgo THEN ~@ ELSE @,
              !.sarm = FALSE, !.sgo = s.sarm, !.sif = IF s.sgo THEN ~@ ELSE @,
              !.value = Clocked(@, c.value), !.ready = Clocked(@, c.ready),
              !.post = Clocked(@, c.post)]

Goto(pc) == [host EXCEPT !.pc = pc]
PeekAt(s, ptr) == [s EXCEPT !.ptr = ptr, !.parm = TRUE]

\* A mutant: the address is sent once for the whole image.
NextChunk_onward == "word"

NextChunk == "anchor"
\* load: at the start of each chunk the address, then its words, then a read.
Load(s) ==
    \/ /\ host.pc = "anchor"
       /\ sys' = [s EXCEPT !.addr = host.n, !.anchor = ~@]
       /\ host' = Goto("word")
    \/ /\ host.pc = "word"
       /\ sys' = [s EXCEPT !.word = Image[host.n], !.wr = ~@]
       /\ host' = [host EXCEPT !.n = @ + 1,
                               !.pc = IF (host.n + 1) % Chunk = 0 THEN "count" ELSE "word",
                               !.slips = IF clk.gap < Gap THEN @ + 1 ELSE @,
                               !.slipped = IF clk.gap < Gap THEN @ \cup {host.n \div Chunk} ELSE @]
    \/ /\ host.pc = "count"
       /\ sys' = s
       /\ host' = IF host.n < Size THEN Goto(NextChunk) ELSE [Goto("peek") EXCEPT !.n = 0]

\* verify: peek each chunk, its address and then a read for each word, which
\* also moves the pointer and fetches the next.
Verify(s) ==
    \/ /\ host.pc = "peek"
       /\ sys' = PeekAt(s, host.n) /\ host' = Goto("data")
    \/ /\ host.pc = "data"
       /\ sys' = PeekAt(s, s.ptr + 1)
       /\ LET h == [host EXCEPT !.n = @ + 1, !.bad = @ \/ Out(sys.value) # Image[host.n]]
          IN  host' = [h EXCEPT !.pc = IF h.n % Chunk # 0 THEN "data" ELSE IF h.n < Size THEN "peek"
                                       ELSE IF h.bad THEN "bad" ELSE "release"]

Answer == <<[sel |-> "MSCOM", data |-> "greeting"], [sel |-> "MSFLAG", data |-> "SIFINIT"]>>
\* run: the reset let go, then a poll of SMFLAG and of POST until it says pass;
\* the first time the ready bit is there MSCOM and MSFLAG are written.
Run(s) ==
    \/ /\ host.pc = "reset"   /\ sys' = [s EXCEPT !.reset = TRUE]  /\ host' = Goto("anchor")
    \/ /\ host.pc = "release" /\ sys' = [s EXCEPT !.reset = FALSE] /\ host' = Goto("smflag")
    \/ /\ host.pc = "smflag"  /\ sys' = s
       /\ host' = Goto(IF Out(sys.ready) /\ ~host.answered THEN "d0" ELSE "status")
    \/ /\ host.pc = "d0" /\ sys' = [s EXCEPT !.data = Answer[1].data] /\ host' = Goto("g0")
    \/ /\ host.pc = "g0" /\ sys' = [s EXCEPT !.sel = Answer[1].sel, !.sarm = TRUE] /\ host' = Goto("d1")
    \/ /\ host.pc = "d1" /\ sys' = [s EXCEPT !.data = Answer[2].data] /\ host' = Goto("g1")
    \/ /\ host.pc = "g1" /\ sys' = [s EXCEPT !.sel = Answer[2].sel, !.sarm = TRUE]
       /\ host' = [Goto("status") EXCEPT !.answered = TRUE]
    \/ /\ host.pc = "status"  /\ sys' = s
       /\ host' = Goto(IF Out(sys.post) = None THEN "smflag" ELSE Out(sys.post))

\* A write of a word of the image may follow the last access at once.
Spaced == clk.gap = Gap \/ (host.pc = "word" /\ host.slips < Slips)

Tick(gap) == clk' = [sys |-> SysOut, core |-> CoreOut, edges |-> clk.edges + 1, gap |-> gap]

SysEdge ==
    /\ clk.edges < 4
    /\ \E value \in Caught(clk.core.value, core.value), ready \in Caught(clk.core.ready, core.ready),
          post \in Caught(clk.core.post, core.post) :
         LET s == Settled(sys, [value |-> value, ready |-> ready, post |-> post])
         IN  \/ Spaced /\ (Load(s) \/ Verify(s) \/ Run(s)) /\ Tick(0)
             \/ sys' = s /\ UNCHANGED host /\ Tick(clk.gap)
    /\ UNCHANGED core

Next == SysEdge \/ CoreEdge
=============================================================================
