------------------------------- MODULE IopDma -------------------------------
(***************************************************************************)
(* rtl/iop/iop_dma.vhd: the DMA controller of the IOP.                     *)
(*                                                                         *)
(* One engine serves every channel, one transfer at a time.  Channel 6     *)
(* (OTC) and channel 3 (CDVD) hold it from start to finish; SIF0 (channel  *)
(* 9, IOP to EE) and SIF1 (channel 10, EE to IOP) keep a state of their    *)
(* own and give the engine back whenever they cannot proceed; any other    *)
(* channel completes at once.  One clk1x edge is one step.                 *)
(*                                                                         *)
(* Abstracted: addresses are word addresses; a word of the SIF1 stream or  *)
(* of the disc is named by its position in the stream, a word of RAM by    *)
(* its address, and their contents matter only where the engine reads them *)
(* as a tag (SifWord, RamWord).  Bus writes are whole words, and of CHCR   *)
(* the bits 1, 9 and 24 are kept.  The flags of DICR and DICR2 form one    *)
(* set over the channels of both banks, the enables of DPCR and DPCR2      *)
(* another.  The force bit of DICR, the dbg_* taps, DMACEN, DMACINTEN and  *)
(* the counters of tags are left out.                                      *)
(*                                                                         *)
(* An assignment of the engine overrides a bus write to the same register  *)
(* in the same cycle, as the last assignment of a VHDL process does: the   *)
(* engine's actions build on the register values with suffix W, those the  *)
(* bus leaves.                                                             *)
(***************************************************************************)
EXTENDS Naturals

CONSTANTS
  Channels,       \* the channels the driver uses
  AddrSpace,      \* words of the address space (2^22)
  CountSpace,     \* range of the word counter (2^24)
  HalfSpace,      \* range of each half of BCR (2^16)
  LenSpace,       \* range of the length in a SIF tag (2^20)
  SifWord(_),     \* the value of a word of the SIF1 stream
  RamWord(_)      \* the value of a word of RAM

ASSUME DmaAssumption ==
  /\ Channels \subseteq 0..12
  /\ AddrSpace \in Nat \ {0} /\ CountSpace \in Nat \ {0}
  /\ HalfSpace \in Nat \ {0} /\ LenSpace \in Nat \ {0} /\ LenSpace <= CountSpace
  /\ \A a \in 0..(AddrSpace - 1) : RamWord(a) \in Nat

VARIABLES
  madr, bcr, chcr, tadr,          \* registers of each channel
  dpcr,                           \* channels DPCR and DPCR2 enable
  dicr_master, dicr_en, dicr_fl,  \* master enable; channels enabled, channels flagged
  state,                          \* the transfer engine
  xfer,                           \* its registers ch, cur_addr, words and decr
  s0, s1,                         \* the registers s0_* of SIF0 and s1_* of SIF1
  ram_req, ram_rnw, ram_addr, ram_wdata,
  sif0_we, sif0_data

regVars == <<madr, bcr, chcr, tadr, dpcr, dicr_master, dicr_en, dicr_fl>>
ramPortVars == <<ram_req, ram_rnw, ram_addr, ram_wdata>>
sif0OutVars == <<sif0_we, sif0_data>>
dmaVars == <<regVars, state, xfer, s0, s1, ramPortVars, sif0OutVars>>

Addr == 0..(AddrSpace - 1)
Count == 0..(CountSpace - 1)

Sif0Reg == [armed : BOOLEAN, phase : BOOLEAN, issued : BOOLEAN, tw : 0..5,
            addr : Addr, words : Count, tadr : Addr]
Sif1Reg == [armed : BOOLEAN, phase : BOOLEAN, tagw : 0..3, addr : Addr, words : Count]

\* BCR holds two halves, CHCR the bits start (24), block (9) and decr (1).
Bcr == [bs : 0..(HalfSpace - 1), ba : 0..(HalfSpace - 1)]
Chcr == [start : BOOLEAN, block : BOOLEAN, decr : BOOLEAN]
NoBcr == [bs |-> 0, ba |-> 0]
NoChcr == [start |-> FALSE, block |-> FALSE, decr |-> FALSE]

DmaInit ==
  /\ madr = [c \in Channels |-> 0] /\ bcr = [c \in Channels |-> NoBcr]
  /\ chcr = [c \in Channels |-> NoChcr] /\ tadr = [c \in Channels |-> 0]
  /\ dpcr = {} /\ dicr_master = FALSE /\ dicr_en = {} /\ dicr_fl = {}
  /\ state = "IDLE" /\ xfer = [ch |-> 0, addr |-> 0, words |-> 0, decr |-> FALSE]
  /\ s0 = [armed |-> FALSE, phase |-> FALSE, issued |-> FALSE, tw |-> 0,
           addr |-> 0, words |-> 0, tadr |-> 0]
  /\ s1 = [armed |-> FALSE, phase |-> FALSE, tagw |-> 0, addr |-> 0, words |-> 0]
  /\ ram_req = FALSE /\ ram_rnw = FALSE /\ ram_addr = 0 /\ ram_wdata = 0
  /\ sif0_we = FALSE /\ sif0_data = 0

-----------------------------------------------------------------------------
(* Combinational signals. *)

irq == dicr_master /\ dicr_en \cap dicr_fl # {}

\* The device of channel 3 loses a word when its write is granted.
dev_ready(gnt) == state = "RUN" /\ xfer.ch = 3 /\ gnt

\* The word at the head of the SIF1 stream is taken.
sif1_ready(gnt, sif1_valid) ==
  /\ state = "SIF1RUN" /\ sif1_valid
  /\ ~(s1.phase /\ s1.words = 0)
  /\ ~s1.phase \/ gnt

\* A mutant: the high half of BCR is not read.
transfer_words_low(b, c) == (IF b.bs = 0 THEN HalfSpace ELSE b.bs) % CountSpace

\* The words a transfer moves: BCR's low half, or words per block times blocks.
transfer_words(b, c) ==
  LET bs == IF b.bs = 0 THEN HalfSpace ELSE b.bs
      ba == IF b.ba = 0 THEN 1 ELSE b.ba
  IN  IF c.block THEN (bs * ba) % CountSpace ELSE bs % CountSpace

Up(a) == (a + 1) % AddrSpace
Down(a) == (a + AddrSpace - 1) % AddrSpace

-----------------------------------------------------------------------------
(* The bus.  A write w is [to |-> register, ch |-> channel, val |-> value];  *)
(* NoWrite stands for a cycle without one.                                   *)

NoWrite == [to |-> "none", ch |-> 0, val |-> 0]

Written(reg, w, name) == IF w.to = name THEN [reg EXCEPT ![w.ch] = w.val] ELSE reg
madrW(w) == Written(madr, w, "madr")
chcrW(w) == Written(chcr, w, "chcr")
tadrW(w) == Written(tadr, w, "tadr")

\* Writing a one to a flag clears it.
dicr_flW(w) == IF w.to = "ack" THEN dicr_fl \ w.val ELSE dicr_fl

\* CHCR is written with start set and the channel is enabled.
Starts(w) == w.to = "chcr" /\ w.val.start /\ w.ch \in dpcr

EngineStart(w) == Starts(w) /\ w.ch \notin {9, 10}

s0W(w) ==
  IF Starts(w) /\ w.ch = 9
  THEN [s0 EXCEPT !.armed = TRUE, !.phase = FALSE, !.issued = FALSE, !.tw = 0,
                  !.tadr = tadr[9]]
  ELSE s0

Armed1 == [s1 EXCEPT !.armed = TRUE, !.phase = FALSE, !.tagw = 0]
s1W(w) == IF Starts(w) /\ w.ch = 10 THEN Armed1 ELSE s1

\* The registers only the bus writes.
BusRegisters(w) ==
  /\ bcr' = Written(bcr, w, "bcr")
  /\ dpcr' = IF w.to = "dpcr" THEN w.val ELSE dpcr
  /\ dicr_master' = IF w.to = "dicr" THEN w.val.master ELSE dicr_master
  /\ dicr_en' = IF w.to = "dicr" THEN w.val.en ELSE dicr_en

NoneCompletes(w) ==
  /\ madr' = madrW(w) /\ chcr' = chcrW(w) /\ tadr' = tadrW(w)
  /\ dicr_fl' = dicr_flW(w)

\* A mutant: an acknowledgement beats a completion.
Completes_ack(w, c, a) ==
  /\ madr' = [madrW(w) EXCEPT ![c] = a]
  /\ chcr' = [chcrW(w) EXCEPT ![c] = [chcr[c] EXCEPT !.start = FALSE]]
  /\ dicr_fl' = (dicr_fl \cup {c}) \ (IF w.to = "ack" THEN w.val ELSE {})

\* Channel c ends with its address at a: start is cleared in the old CHCR.
Completes(w, c, a) ==
  /\ madr' = [madrW(w) EXCEPT ![c] = a]
  /\ chcr' = [chcrW(w) EXCEPT ![c] = [chcr[c] EXCEPT !.start = FALSE]]
  /\ dicr_fl' = dicr_flW(w) \cup {c}

-----------------------------------------------------------------------------
(* The RAM and EE side of a cycle.  A request lasts one cycle unless it is   *)
(* made again.                                                               *)

NoRequest == ram_req' = FALSE /\ ram_rnw' = FALSE /\ UNCHANGED <<ram_addr, ram_wdata>>
WriteRequest(a, d) == ram_req' = TRUE /\ ram_rnw' = FALSE /\ ram_addr' = a /\ ram_wdata' = d
ReadRequest(a) == ram_req' = TRUE /\ ram_rnw' = TRUE /\ ram_addr' = a /\ UNCHANGED ram_wdata

NoPush == sif0_we' = FALSE /\ UNCHANGED sif0_data
Push(d) == sif0_we' = TRUE /\ sif0_data' = d

-----------------------------------------------------------------------------
(* The engine, IDLE. *)

EngineTakesStart(w) ==
  /\ state = "IDLE" /\ EngineStart(w)
  /\ xfer' = [ch |-> w.ch, addr |-> madr[w.ch],
              words |-> transfer_words(bcr[w.ch], w.val), decr |-> w.val.decr]
  /\ state' = IF w.ch \in {3, 6} THEN "RUN" ELSE "FINISH"
  /\ s0' = s0W(w) /\ s1' = s1W(w)
  /\ NoneCompletes(w) /\ NoRequest /\ NoPush

\* The host starts SIF1 without a CHCR write; only an idle engine notices.
EngineKicked(w, kick) ==
  /\ state = "IDLE" /\ ~EngineStart(w) /\ kick
  /\ s1' = Armed1 /\ s0' = s0W(w)
  /\ UNCHANGED <<state, xfer>>
  /\ NoneCompletes(w) /\ NoRequest /\ NoPush

\* A mutant: SIF1 takes the engine while it has no word.
EngineTurns_armed(w, kick, sif1_valid, sif0_full) ==
  /\ state = "IDLE" /\ ~EngineStart(w) /\ ~kick
  /\ state' = IF s1.armed THEN "SIF1RUN"
              ELSE IF s0.armed /\ ~sif0_full THEN "SIF0RUN" ELSE "IDLE"
  /\ s0' = s0W(w) /\ s1' = s1W(w)
  /\ UNCHANGED xfer
  /\ NoneCompletes(w) /\ NoRequest /\ NoPush

\* A mutant: SIF1 does not come back to a frame it has begun.
EngineTurns_tag(w, kick, sif1_valid, sif0_full) ==
  /\ state = "IDLE" /\ ~EngineStart(w) /\ ~kick
  /\ state' = IF s1.armed /\ ~s1.phase /\ sif1_valid THEN "SIF1RUN"
              ELSE IF s0.armed /\ ~sif0_full THEN "SIF0RUN" ELSE "IDLE"
  /\ s0' = s0W(w) /\ s1' = s1W(w)
  /\ UNCHANGED xfer
  /\ NoneCompletes(w) /\ NoRequest /\ NoPush

\* SIF1 before SIF0, each only when it can move a word.
EngineTurns(w, kick, sif1_valid, sif0_full) ==
  /\ state = "IDLE" /\ ~EngineStart(w) /\ ~kick
  /\ state' = IF s1.armed /\ sif1_valid THEN "SIF1RUN"
              ELSE IF s0.armed /\ ~sif0_full THEN "SIF0RUN" ELSE "IDLE"
  /\ s0' = s0W(w) /\ s1' = s1W(w)
  /\ UNCHANGED xfer
  /\ NoneCompletes(w) /\ NoRequest /\ NoPush

-----------------------------------------------------------------------------
(* SIF0: six words of tag from tadr, the last four of them for the EE, then  *)
(* the data.  A read is granted, and its word arrives later.                 *)

\* A mutant: the last word is left out.
Sif0Over_early == s0.phase /\ s0.words <= 1 /\ ~s0.issued

Sif0Over == s0.phase /\ s0.words = 0 /\ ~s0.issued

Sif0Completes(w) ==
  /\ state = "SIF0RUN" /\ Sif0Over
  /\ tadr' = [tadrW(w) EXCEPT ![9] = (s0.tadr + 4) % AddrSpace]
  /\ Completes(w, 9, s0.addr)
  /\ s0' = [s0W(w) EXCEPT !.armed = FALSE, !.phase = FALSE, !.tw = 0]
  /\ state' = "IDLE"
  /\ s1' = s1W(w) /\ UNCHANGED xfer
  /\ NoRequest /\ NoPush

Sif0Waits(w, rvalid) ==
  /\ state = "SIF0RUN" /\ s0.issued /\ ~rvalid
  /\ s0' = s0W(w) /\ s1' = s1W(w) /\ UNCHANGED <<state, xfer>>
  /\ NoneCompletes(w) /\ NoRequest /\ NoPush

Sif0Word(w, rvalid, rdata) ==
  /\ state = "SIF0RUN" /\ s0.issued /\ rvalid
  /\ IF ~s0.phase
     THEN /\ s0' = [s0W(w) EXCEPT
               !.issued = FALSE,
               !.addr = IF s0.tw = 0 THEN RamWord(rdata) % AddrSpace ELSE @,
               !.words = IF s0.tw = 1 THEN RamWord(rdata) % LenSpace ELSE @,
               !.phase = (s0.tw = 5 \/ @),
               !.tw = IF s0.tw = 5 THEN @ ELSE s0.tw + 1]
          /\ IF s0.tw \in {0, 1} THEN NoPush ELSE Push(rdata)
     ELSE /\ s0' = [s0W(w) EXCEPT !.issued = FALSE,
                                  !.words = s0.words - 1,
                                  !.addr = Up(s0.addr)]
          /\ Push(rdata)
  /\ s1' = s1W(w) /\ UNCHANGED <<state, xfer>>
  /\ NoneCompletes(w) /\ NoRequest

Sif0Yields(w, sif0_full) ==
  /\ state = "SIF0RUN" /\ ~Sif0Over /\ ~s0.issued /\ sif0_full
  /\ state' = "IDLE"
  /\ s0' = s0W(w) /\ s1' = s1W(w) /\ UNCHANGED xfer
  /\ NoneCompletes(w) /\ NoRequest /\ NoPush

\* A mutant: a full FIFO does not stop it.
Sif0Asks_full(w, gnt, sif0_full) ==
  /\ state = "SIF0RUN" /\ ~Sif0Over /\ ~s0.issued
  /\ ReadRequest(IF s0.phase THEN s0.addr ELSE (s0.tadr + s0.tw) % AddrSpace)
  /\ s0' = [s0W(w) EXCEPT !.issued = @ \/ gnt]
  /\ s1' = s1W(w) /\ UNCHANGED <<state, xfer>>
  /\ NoneCompletes(w) /\ NoPush

Sif0Asks(w, gnt, sif0_full) ==
  /\ state = "SIF0RUN" /\ ~Sif0Over /\ ~s0.issued /\ ~sif0_full
  /\ ReadRequest(IF s0.phase THEN s0.addr ELSE (s0.tadr + s0.tw) % AddrSpace)
  /\ s0' = [s0W(w) EXCEPT !.issued = @ \/ gnt]
  /\ s1' = s1W(w) /\ UNCHANGED <<state, xfer>>
  /\ NoneCompletes(w) /\ NoPush

-----------------------------------------------------------------------------
(* SIF1: four words of tag from the stream, then the data.  The low two bits *)
(* of the length are dropped.                                                *)

Sif1Over == s1.phase /\ s1.words = 0

Sif1Completes(w) ==
  /\ state = "SIF1RUN" /\ Sif1Over
  /\ Completes(w, 10, s1.addr)
  /\ s1' = [s1W(w) EXCEPT !.armed = FALSE, !.phase = FALSE, !.tagw = 0]
  /\ state' = "IDLE"
  /\ tadr' = tadrW(w) /\ s0' = s0W(w) /\ UNCHANGED xfer
  /\ NoRequest /\ NoPush

Sif1Yields(w, sif1_valid) ==
  /\ state = "SIF1RUN" /\ ~Sif1Over /\ ~sif1_valid
  /\ state' = "IDLE"
  /\ s0' = s0W(w) /\ s1' = s1W(w) /\ UNCHANGED xfer
  /\ NoneCompletes(w) /\ NoRequest /\ NoPush

Sif1Tag(w, sif1_valid, sif1_data) ==
  /\ state = "SIF1RUN" /\ sif1_valid /\ ~s1.phase
  /\ s1' = [s1W(w) EXCEPT
        !.addr = IF s1.tagw = 0 THEN SifWord(sif1_data) % AddrSpace ELSE @,
        !.words = IF s1.tagw = 1 THEN 4 * ((SifWord(sif1_data) % LenSpace) \div 4) ELSE @,
        !.phase = (s1.tagw = 3 \/ @),
        !.tagw = IF s1.tagw = 3 THEN @ ELSE s1.tagw + 1]
  /\ s0' = s0W(w) /\ UNCHANGED <<state, xfer>>
  /\ NoneCompletes(w) /\ NoRequest /\ NoPush

Sif1Data(w, gnt, sif1_valid, sif1_data) ==
  /\ state = "SIF1RUN" /\ sif1_valid /\ s1.phase /\ ~Sif1Over
  /\ WriteRequest(s1.addr, sif1_data)
  /\ s1' = IF gnt THEN [s1W(w) EXCEPT !.words = s1.words - 1, !.addr = Up(s1.addr)]
                  ELSE s1W(w)
  /\ s0' = s0W(w) /\ UNCHANGED <<state, xfer>>
  /\ NoneCompletes(w) /\ NoPush

-----------------------------------------------------------------------------
(* RUN and FINISH. *)

EndMarker == AddrSpace    \* 0x00FFFFFF: no word address

\* Channel 3 writes a word when its device offers one.
HasWord(dev_valid) == xfer.ch = 6 \/ (xfer.ch = 3 /\ dev_valid)

\* OTC links each entry to the one below it.
RunWord(dev_data) ==
  IF xfer.ch = 3 THEN dev_data
  ELSE IF xfer.words = 1 THEN EndMarker ELSE Down(xfer.addr)

RunMoves(w, gnt, dev_valid, dev_data) ==
  /\ state = "RUN" /\ xfer.words # 0 /\ HasWord(dev_valid)
  /\ WriteRequest(xfer.addr, RunWord(dev_data))
  /\ xfer' = IF gnt THEN [xfer EXCEPT !.words = @ - 1,
                                      !.addr = IF xfer.decr THEN Down(@) ELSE Up(@)]
                    ELSE xfer
  /\ s0' = s0W(w) /\ s1' = s1W(w) /\ UNCHANGED state
  /\ NoneCompletes(w) /\ NoPush

\* Channel 3 waits for its device and keeps the engine.
RunWaits(w, dev_valid) ==
  /\ state = "RUN" /\ xfer.words # 0 /\ ~HasWord(dev_valid)
  /\ s0' = s0W(w) /\ s1' = s1W(w) /\ UNCHANGED <<state, xfer>>
  /\ NoneCompletes(w) /\ NoRequest /\ NoPush

RunOver(w) ==
  /\ state = "RUN" /\ xfer.words = 0
  /\ state' = "FINISH"
  /\ s0' = s0W(w) /\ s1' = s1W(w) /\ UNCHANGED xfer
  /\ NoneCompletes(w) /\ NoRequest /\ NoPush

Finish(w) ==
  /\ state = "FINISH"
  /\ Completes(w, xfer.ch, xfer.addr)
  /\ state' = "IDLE"
  /\ tadr' = tadrW(w) /\ s0' = s0W(w) /\ s1' = s1W(w) /\ UNCHANGED xfer
  /\ NoRequest /\ NoPush

-----------------------------------------------------------------------------
DmaReset ==
  /\ madr' = [c \in Channels |-> 0] /\ bcr' = [c \in Channels |-> NoBcr]
  /\ chcr' = [c \in Channels |-> NoChcr] /\ tadr' = [c \in Channels |-> 0]
  /\ dpcr' = {} /\ dicr_master' = FALSE /\ dicr_en' = {} /\ dicr_fl' = {}
  /\ state' = "IDLE"
  /\ s0' = [s0 EXCEPT !.armed = FALSE, !.phase = FALSE, !.issued = FALSE, !.tw = 0,
                      !.addr = 0, !.words = 0]
  /\ s1' = [armed |-> FALSE, phase |-> FALSE, tagw |-> 0, addr |-> 0, words |-> 0]
  /\ UNCHANGED xfer
  /\ NoRequest /\ NoPush

DmaRun(w, kick, gnt, rvalid, rdata, sif0_full, sif1_valid, sif1_data, dev_valid, dev_data) ==
  /\ BusRegisters(w)
  /\ \/ EngineTakesStart(w)
     \/ EngineKicked(w, kick)
     \/ EngineTurns(w, kick, sif1_valid, sif0_full)
     \/ Sif0Completes(w)
     \/ Sif0Waits(w, rvalid)
     \/ Sif0Word(w, rvalid, rdata)
     \/ Sif0Yields(w, sif0_full)
     \/ Sif0Asks(w, gnt, sif0_full)
     \/ Sif1Completes(w)
     \/ Sif1Yields(w, sif1_valid)
     \/ Sif1Tag(w, sif1_valid, sif1_data)
     \/ Sif1Data(w, gnt, sif1_valid, sif1_data)
     \/ RunMoves(w, gnt, dev_valid, dev_data)
     \/ RunWaits(w, dev_valid)
     \/ RunOver(w)
     \/ Finish(w)
=============================================================================
