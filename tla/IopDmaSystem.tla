---------------------------- MODULE IopDmaSystem ----------------------------
(***************************************************************************)
(* The DMA controller in its surroundings: the RAM port as IopPort         *)
(* promises it (IopMemSystem implements that), the two SIF FIFOs of        *)
(* boards/c1100_ps2_iop.py with the host at their other ends, the device   *)
(* of channel 3, and a driver on the IOP that programs a channel only      *)
(* while its CHCR says it is idle.                                         *)
(***************************************************************************)
EXTENDS IopDma, IopPort, Sequences, SequencesExt

CONSTANTS
  Scenarios,      \* what the surroundings may be up to: see Scenario
  MaxStarts,      \* bound: starts and kicks
  AddrVals, CountVals,  \* what the driver writes to MADR and BCR
  Sif0Depth       \* entries of the SIF0 FIFO (512)

Scenario ==
  [start : SUBSET Channels, \* channels the driver starts
   kick  : BOOLEAN,         \* the host starts channel 10 with the bring-up kick
   reset : BOOLEAN,         \* the host may reset the IOP while it runs (once)
   tadr  : SUBSET Addr,     \* what the driver writes to TADR
   total : Nat]             \* words the host sends on SIF1

ASSUME DmaSystemAssumption ==
  /\ Scenarios \subseteq Scenario /\ {9, 10} \subseteq Channels
  /\ MaxStarts \in Nat
  /\ AddrVals \subseteq Addr
  /\ CountVals \subseteq [bs : 0..(HalfSpace - 1), ba : 0..(HalfSpace - 1), block : BOOLEAN]
  /\ Sif0Depth \in Nat \ {0}
  /\ \A s \in Scenarios : \A p \in 1..s.total : SifWord(p) \in Nat

VARIABLES
  scenario,             \* which of the scenarios this is
  reset, reset_int,     \* the IOP's reset, and the one the controller sees
  rd_addr,              \* address of the read the port serves
  sif1_sent, sif1_pos,  \* words of the stream the host has sent, the engine taken
  sif0_fifo, ee_got,    \* words on their way to the EE, and received by it
  dev_valid, dev_pos,   \* device of channel 3: word on offer, words taken
  \* History: starts so far; writes granted for SIF1 and for the transfer of the
  \* engine; the EE's words of the SIF0 transfers started, and the writes the
  \* engine's transfer is to make; the words taken since the reset, as frames.
  starts, sif1_log, run_log, sif0_due, run_due, frame

envVars == <<scenario, reset, reset_int, port, rd_addr, sif1_sent, sif1_pos, sif0_fifo, ee_got,
             dev_valid, dev_pos>>
historyVars == <<starts, sif1_log, run_log, sif0_due, run_due, frame>>
vars == <<dmaVars, envVars, historyVars>>

StartChannels == scenario.start
Kick == scenario.kick
Sif1Total == scenario.total

Write == [addr : Addr, data : Nat]

\* A stream in frames of a tag of four words and its data: how many words of the
\* tag have come, where the next word of data goes, how many more come, and the
\* writes the words so far stand for.
Frame == [tag : 0..4, addr : Addr, left : Nat, log : Seq(Write)]
NoFrame == [tag |-> 0, addr |-> 0, left |-> 0, log |-> <<>>]

Init ==
  /\ DmaInit /\ PortInit
  /\ scenario \in Scenarios
  /\ reset = TRUE /\ reset_int = TRUE /\ rd_addr = 0
  /\ sif1_sent = 0 /\ sif1_pos = 0 /\ sif0_fifo = <<>> /\ ee_got = <<>>
  /\ dev_valid = FALSE /\ dev_pos = 0
  /\ starts = 0 /\ sif1_log = <<>> /\ run_log = <<>> /\ sif0_due = <<>> /\ run_due = <<>>
  /\ frame = NoFrame

-----------------------------------------------------------------------------
(* The wires between the controller and its surroundings. *)

sif1_valid == sif1_pos < sif1_sent
sif1_data == sif1_pos + 1
sif0_full == Len(sif0_fifo) >= Sif0Depth
dev_data == dev_pos + 1

-----------------------------------------------------------------------------
(* The driver.  It enables what it uses, programs a channel while its start  *)
(* bit is clear, and acknowledges the flags it finds.                        *)

Setup ==
  IF dpcr # StartChannels THEN {[to |-> "dpcr", ch |-> 0, val |-> StartChannels]}
  ELSE IF ~dicr_master
  THEN {[to |-> "dicr", ch |-> 0, val |-> [master |-> TRUE, en |-> StartChannels]]}
  ELSE {}

Idle(c) == ~chcr[c].start
Programs ==
  {[to |-> "madr", ch |-> c, val |-> a] : c \in StartChannels \cap {3, 6}, a \in AddrVals}
  \cup {[to |-> "bcr", ch |-> c, val |-> [bs |-> n.bs, ba |-> n.ba]] :
          c \in StartChannels \cap {3, 6}, n \in CountVals}
  \cup {[to |-> "tadr", ch |-> c, val |-> a] : c \in StartChannels \cap {9}, a \in scenario.tadr}

\* OTC counts down, in words; the block mode goes with a count of blocks.
StartWrites ==
  {[to |-> "chcr", ch |-> c,
    val |-> [start |-> TRUE, block |-> bcr[c].ba # 0, decr |-> c = 6]] : c \in StartChannels}

Acks == {[to |-> "ack", ch |-> 0, val |-> {c}] : c \in dicr_fl}

BusWrites ==
  {NoWrite} \cup
  IF reset_int THEN {}
  ELSE Setup \cup Acks
       \cup {w \in Programs \cup (IF starts < MaxStarts THEN StartWrites ELSE {}) :
               dicr_master /\ Idle(w.ch)}

Kicks == IF Kick /\ starts < MaxStarts /\ ~s1.armed /\ ~reset_int THEN BOOLEAN ELSE {FALSE}

-----------------------------------------------------------------------------
(* One cycle of the surroundings. *)

Resets ==
  /\ reset' \in IF reset THEN {FALSE} ELSE {FALSE, scenario.reset /\ starts = 1}
  /\ reset_int' = reset
  /\ UNCHANGED scenario

\* The port; the word of a read comes back by its address.
Serve(gnt, rvalid) ==
  /\ PortClk(reset, ram_req, ram_rnw, gnt, rvalid)
  /\ rd_addr' = IF gnt THEN ram_addr ELSE rd_addr

\* The host sends words and the engine takes them from the head.
Stream(gnt) ==
  /\ sif1_sent' \in {sif1_sent, IF sif1_sent < Sif1Total THEN sif1_sent + 1 ELSE sif1_sent}
  /\ sif1_pos' = IF sif1_ready(gnt, sif1_valid) THEN sif1_pos + 1 ELSE sif1_pos

\* A word pushed into a full FIFO is lost.  `drain': the freed entry of a word the
\* host took shows on the write side.
Sif0Fifo(drain) ==
  LET left == IF drain THEN Tail(sif0_fifo) ELSE sif0_fifo
  IN  /\ drain => sif0_fifo # <<>>
      /\ ee_got' = IF drain THEN Append(ee_got, Head(sif0_fifo)) ELSE ee_got
      /\ sif0_fifo' = IF sif0_we /\ ~sif0_full THEN Append(left, sif0_data) ELSE left

\* The device of channel 3 offers a word until it is taken, then pauses.
Device(gnt) ==
  IF dev_valid /\ dev_ready(gnt)
  THEN dev_valid' = FALSE /\ dev_pos' = dev_pos + 1
  ELSE dev_valid' \in {dev_valid, 3 \in StartChannels} /\ UNCHANGED dev_pos

-----------------------------------------------------------------------------
(* History. *)

Sif0Words(t) ==    \* what a transfer whose tag is at t sends
  [i \in 1..4 |-> (t + 1 + i) % AddrSpace] \o
  [i \in 1..(RamWord((t + 1) % AddrSpace) % LenSpace) |->
     ((RamWord(t) % AddrSpace) + i - 1) % AddrSpace]

\* The frame f with the word at position n of the stream.
Parsed(f, n) ==
  LET v == SifWord(n)
      over == f.tag = 4 /\ f.left = 0
  IN  IF f.tag = 0 \/ over THEN [f EXCEPT !.tag = 1, !.addr = v % AddrSpace]
      ELSE IF f.tag = 1
      THEN [f EXCEPT !.tag = 2, !.left = (v % LenSpace) - ((v % LenSpace) % 4)]
      ELSE IF f.tag < 4 THEN [f EXCEPT !.tag = @ + 1]
      ELSE [f EXCEPT !.log = Append(@, [addr |-> f.addr, data |-> n]),
                     !.addr = Up(@), !.left = @ - 1]

\* What a transfer of the engine writes: OTC a list that links each entry to the
\* next lower one, CDVD the words of the device.
Below(a, i) == ((a + AddrSpace) - (i % AddrSpace)) % AddrSpace
RunWrites(c, a, n) ==
  [i \in 1..n |->
     IF c = 6 THEN [addr |-> Below(a, i - 1), data |-> IF i = n THEN EndMarker ELSE Below(a, i)]
     ELSE [addr |-> (a + i - 1) % AddrSpace, data |-> dev_pos + i]]

\* A count of zero in the low half stands for the largest.
DueCount(b, block) ==
  LET bs == IF b.bs = 0 THEN HalfSpace ELSE b.bs
  IN  IF block THEN bs * b.ba ELSE bs

History(w, kick, gnt) ==
  LET starting == EngineStart(w) /\ state = "IDLE"
      granted == IF gnt /\ ~ram_rnw THEN <<[addr |-> ram_addr, data |-> ram_wdata]>> ELSE <<>>
  IN  IF reset_int
      THEN /\ sif1_log' = <<>> /\ run_log' = <<>> /\ run_due' = <<>>
           /\ sif0_due' = ee_got' \o sif0_fifo'
           /\ frame' = NoFrame
           /\ UNCHANGED starts
      ELSE /\ starts' = IF Starts(w) \/ kick THEN starts + 1 ELSE starts
           /\ sif1_log' = IF state = "SIF1RUN" THEN sif1_log \o granted ELSE sif1_log
           /\ run_log' = IF starting THEN <<>> ELSE IF state = "RUN" THEN run_log \o granted ELSE run_log
           /\ run_due' = IF starting
                         THEN RunWrites(w.ch, madr[w.ch],
                                        IF w.ch \in {3, 6} THEN DueCount(bcr[w.ch], w.val.block) ELSE 0)
                         ELSE run_due
           /\ sif0_due' = IF Starts(w) /\ w.ch = 9 THEN sif0_due \o Sif0Words(tadr[9]) ELSE sif0_due
           /\ frame' = IF sif1_ready(gnt, sif1_valid) THEN Parsed(frame, sif1_data) ELSE frame

-----------------------------------------------------------------------------
Surroundings(gnt, rvalid, drain) ==
  Serve(gnt, rvalid) /\ Sif0Fifo(drain) /\ Resets /\ Stream(gnt) /\ Device(gnt)

Controller(w, kick, gnt, rvalid) ==
  \/ reset_int /\ DmaReset
  \/ /\ ~reset_int
     /\ DmaRun(w, kick, gnt, rvalid, rd_addr, sif0_full, sif1_valid, sif1_data,
               dev_valid, dev_data)

Next ==
  \E gnt, rvalid, drain \in BOOLEAN :
    /\ Surroundings(gnt, rvalid, drain)
    /\ \E w \in BusWrites, kick \in Kicks :
         Controller(w, kick, gnt, rvalid) /\ History(w, kick, gnt)

Spec == Init /\ [][Next]_vars

\* The clock runs.  The rest is what the surroundings owe the controller: the CPU
\* leaves the port to a request that finds it free again and again, and an access
\* ends; the EE empties its FIFO; the host sends its words; the device offers words.
PortFair ==
  /\ []<>(~ram_req \/ port \in {"dmard", "dmawr"})
  /\ []<>(port = "free")
Fairness ==
  /\ WF_vars(Next)
  /\ PortFair
  /\ []<>(Len(sif0_fifo) < Sif0Depth)
  /\ <>(sif1_sent = Sif1Total)
  /\ []<>(dev_valid \/ 3 \notin StartChannels)
FairSpec == Spec /\ Fairness

-----------------------------------------------------------------------------
(* Properties. *)

\* SIF1: every data word the engine takes from the stream is written to RAM once,
\* in order, where its tag says; no word is taken without being written.  SIF0: the
\* EE gets the words of the transfers started, in order, none lost in a full FIFO
\* and none twice, though a read may be abandoned half-way.
SifDelivered == /\ ~reset_int => sif1_log = frame.log
                /\ IsPrefix(ee_got \o sif0_fifo, sif0_due)

\* A SIF0 transfer that has ended has handed over all its words, and left TADR at
\* the tag that follows.
Sif0Complete ==
  [][~reset_int /\ s0.armed /\ ~s0'.armed =>
       /\ ee_got' \o sif0_fifo' = sif0_due
       /\ tadr'[9] = (s0.tadr + 4) % AddrSpace]_vars

\* The engine's own transfers write what they were programmed to, all of it before
\* the completion is flagged.
RunComplete == ~reset_int /\ state = "FINISH" => run_log = run_due

\* No completion is lost: a start bit the controller clears leaves a flag, though
\* the driver may be acknowledging others, or the same, in that cycle.
CompletionFlagged ==
  [][\A c \in Channels :
       ~reset_int /\ chcr[c].start /\ ~chcr'[c].start => c \in dicr_fl']_vars

\* A started SIF0 transfer ends (or is reset), whatever SIF1 and the engine do.
Sif0Ends == s0.armed ~> ~s0.armed

\* The words the host sends do not stay in the stream while channel 10 is armed.
Sif1Moves == s1.armed /\ sif1_valid ~> ~(s1.armed /\ sif1_valid)

\* iop_dma.vhd:387: "a channel starts when start/busy is set and DPCR enables it".
\* A channel whose start bit the driver has set is served sooner or later.
StartHonoured ==
  \A c \in Channels \ {9, 10} :
    chcr[c].start ~> state \in {"RUN", "FINISH"} /\ xfer.ch = c
=============================================================================
