---------------------------- MODULE IopMemoryMux ----------------------------
(***************************************************************************)
(* rtl/iop/iop_memorymux.vhd: the CPU side of the IOP memory system.       *)
(*                                                                         *)
(* The CPU's requests are dispatched one at a time to RAM, ROM, the        *)
(* internal bus or the external bus.  A write that cannot be dispatched at *)
(* once is posted in the write FIFO, a read waits in the save register.    *)
(* One clk1x edge is one step.                                             *)
(*                                                                         *)
(* Abstracted: addresses are reduced to the kind of target, data to the    *)
(* identity `id' of the operation (its position in program order), the     *)
(* wait-state tables to a choice from 0..MaxWait, the page-hit conditions  *)
(* that skip a wait to a Boolean choice.  iop_top ties ce to 1 and         *)
(* loadExe, pauseNext, fastboot and TURBO to 0, so the branches they guard *)
(* are absent.                                                             *)
(***************************************************************************)
EXTENDS Naturals, Sequences

CONSTANTS
  Kinds,          \* the kinds of target the CPU addresses
  MaxWait,        \* largest wait count (the code's are up to 63)
  FifoSize,       \* entries of the write FIFO (8)
  FifoReserve,    \* NearFull is raised this many entries before full (4)
  FallThrough2    \* TRUE: a FIFO entry is visible two edges after its write

AllKinds == {"fetch", "ram", "bios", "bus", "ext"}

ASSUME MuxAssumption ==
  /\ Kinds \subseteq AllKinds
  /\ MaxWait \in Nat
  /\ FifoSize \in Nat /\ FifoReserve \in 0..FifoSize
  /\ FallThrough2 \in BOOLEAN

VARIABLES
  mem_in_request, mem_in,         \* the CPU's request wires
  mux_state,                      \* the dispatch FSM
  waitcnt,
  readram, writeram,              \* a RAM access is outstanding
  ram_ena, ram_rq,                \* the RAM request registers
  mem_save_request, mem_save,     \* the read waiting to be dispatched
  fifo, fifo_in,                  \* write FIFO: visible entries, entry in its input stage
  writeFifo_busy, writeFifo_Wr_1,
  cur,                            \* addressData_buf & co: the operation on a bus
  mem_done_buf,
  mem_tagvalids,                  \* words of the line the CPU may mark valid
  ext_state, ext_waitcnt, ext_byteStep, ext_finished, ext_reccount,
  ext_cur                         \* ext_dataWrite_buf & co: the external operation

muxDispatchVars == <<mux_state, waitcnt, readram, writeram, ram_ena, ram_rq,
                     cur, mem_done_buf, mem_tagvalids>>
muxQueueVars == <<mem_save_request, mem_save, fifo, fifo_in, writeFifo_busy,
                  writeFifo_Wr_1>>
extVars == <<ext_state, ext_waitcnt, ext_byteStep, ext_finished, ext_reccount, ext_cur>>
muxVars == <<mem_in_request, mem_in, muxDispatchVars, muxQueueVars, extVars>>

Op == [id : Nat, kind : AllKinds, rnw : BOOLEAN, cache : BOOLEAN, idx : 0..3]
\* What an unread register holds.
NullOp == [id |-> 0, kind |-> "ram", rnw |-> TRUE, cache |-> FALSE, idx |-> 0]

MuxState == {"IDLE", "WAITFORRAMREAD", "WAITFORRAMWRITE", "READBIOS", "BUSWRITE",
             "BUSWRITEEXTERNAL", "BUSREADEXTERNAL", "BUSREADREQUEST", "BUSREAD", "WAITING"}
ExtState == {"EXT_IDLE", "EXE_WRITE_PREWAIT", "EXT_WRITE", "EXT_WRITE_WAIT",
             "EXT_READ_NEXT", "EXT_READ", "EXT_READ_WAIT"}

MuxTypeOK ==
  /\ mem_in_request \in BOOLEAN /\ mem_in \in Op
  /\ mux_state \in MuxState /\ waitcnt \in 0..MaxWait
  /\ readram \in BOOLEAN /\ writeram \in BOOLEAN
  /\ ram_ena \in BOOLEAN /\ ram_rq \in Op
  /\ mem_save_request \in BOOLEAN /\ mem_save \in Op
  /\ fifo \in Seq(Op) /\ fifo_in \in Seq(Op)
  /\ writeFifo_busy \in BOOLEAN /\ writeFifo_Wr_1 \in BOOLEAN
  /\ cur \in Op /\ mem_done_buf \in BOOLEAN /\ mem_tagvalids \in SUBSET (0..3)
  /\ ext_state \in ExtState /\ ext_waitcnt \in 0..MaxWait /\ ext_byteStep \in 0..3
  /\ ext_finished \in BOOLEAN /\ ext_reccount \in 0..MaxWait /\ ext_cur \in Op

MuxInit ==
  /\ mem_in_request = FALSE /\ mem_in = NullOp
  /\ mux_state = "IDLE" /\ waitcnt = 0
  /\ readram = FALSE /\ writeram = FALSE
  /\ ram_ena = FALSE /\ ram_rq = NullOp
  /\ mem_save_request = FALSE /\ mem_save = NullOp
  /\ fifo = <<>> /\ fifo_in = <<>>
  /\ writeFifo_busy = FALSE /\ writeFifo_Wr_1 = FALSE
  /\ cur = NullOp /\ mem_done_buf = FALSE /\ mem_tagvalids = {}
  /\ ext_state = "EXT_IDLE" /\ ext_waitcnt = 0 /\ ext_byteStep = 0
  /\ ext_finished = FALSE /\ ext_reccount = 0 /\ ext_cur = NullOp

-----------------------------------------------------------------------------
(* Combinational signals.  `done' is the completion the port shows the mux. *)

RamFree(done) == (~readram /\ ~writeram) \/ done

ext_done == ext_state = "EXT_READ" /\ ext_finished
mem_done(done) == (readram /\ done) \/ ext_done \/ mem_done_buf
mem_fifofull == Len(fifo) + Len(fifo_in) >= FifoSize - FifoReserve

mem_request == mem_in_request \/ mem_save_request

writeFifo_Wr(done) ==
  /\ mem_in_request /\ ~mem_in.rnw
  /\ mux_state # "IDLE" \/ writeFifo_busy \/ ~RamFree(done)

writeFifo_Rd(done) == mux_state = "IDLE" /\ fifo # <<>> /\ RamFree(done)

\* Mutant: the waiting read overtakes the posted writes.
NextOpReadFirst == IF mem_save_request THEN mem_save
                   ELSE IF fifo # <<>> THEN Head(fifo) ELSE mem_in

\* The posted writes go before a waiting read, a waiting read before the wires.
NextOp == IF fifo # <<>> THEN Head(fifo)
          ELSE IF mem_save_request THEN mem_save ELSE mem_in

\* Mutant: a read does not wait for writes still on their way into the FIFO.
DispatchingUnordered(done) ==
  /\ mux_state = "IDLE"
  /\ RamFree(done)
  /\ mem_request \/ fifo # <<>>

Dispatching(done) ==
  /\ mux_state = "IDLE"
  /\ RamFree(done)
  /\ (mem_request /\ ~writeFifo_busy) \/ fifo # <<>>

-----------------------------------------------------------------------------
(* The save register of a read and the write FIFO. *)

SaveRead(done) ==
  IF Dispatching(done) /\ ~writeFifo_busy /\ mem_request
  THEN mem_save_request' = FALSE /\ mem_save' = NullOp
  ELSE IF mem_in_request /\ mem_in.rnw
  THEN mem_save_request' = TRUE /\ mem_save' = mem_in
  ELSE UNCHANGED <<mem_save_request, mem_save>>

\* Mutant: writeFifo_busy falls as soon as the FIFO shows no entry.
PostWriteHasty(done) ==
  LET posted == IF writeFifo_Wr(done) THEN <<mem_in>> ELSE <<>>
      rest   == IF writeFifo_Rd(done) THEN Tail(fifo) ELSE fifo
  IN  /\ fifo' = rest \o (IF FallThrough2 THEN fifo_in ELSE posted)
      /\ fifo_in' = IF FallThrough2 THEN posted ELSE <<>>
      /\ writeFifo_Wr_1' = writeFifo_Wr(done)
      /\ writeFifo_busy' = (writeFifo_Wr(done) \/ (writeFifo_busy /\ fifo # <<>>))

PostWrite(done) ==
  LET posted == IF writeFifo_Wr(done) THEN <<mem_in>> ELSE <<>>
      rest   == IF writeFifo_Rd(done) THEN Tail(fifo) ELSE fifo
  IN  /\ fifo' = rest \o (IF FallThrough2 THEN fifo_in ELSE posted)
      /\ fifo_in' = IF FallThrough2 THEN posted ELSE <<>>
      /\ writeFifo_Wr_1' = writeFifo_Wr(done)
      /\ writeFifo_busy' = \/ writeFifo_Wr(done)
                           \/ writeFifo_busy /\ ~(~writeFifo_Wr_1 /\ fifo = <<>>)

-----------------------------------------------------------------------------
(* The dispatch FSM.  ram_done clears readram and writeram in every state. *)

RamAccess(op) == /\ ram_ena' = TRUE
                 /\ ram_rq' = op
NoRamAccess == ram_ena' = FALSE /\ UNCHANGED ram_rq
Outstanding(r, w) == readram' = r /\ writeram' = w
RamAnswer(done) == Outstanding(readram /\ ~done, writeram /\ ~done)

DispatchIdle(done) ==
  /\ mux_state = "IDLE" /\ ~Dispatching(done)
  /\ NoRamAccess /\ RamAnswer(done)
  /\ mem_done_buf' = FALSE
  /\ UNCHANGED <<mux_state, waitcnt, cur, mem_tagvalids>>

\* A cached instruction fetch: the line is filled from word idx to its end.
DispatchFetch ==
  /\ NextOp.kind = "fetch"
  /\ RamAccess(NextOp) /\ Outstanding(TRUE, FALSE)
  /\ mem_tagvalids' = NextOp.idx..3
  /\ UNCHANGED <<mux_state, waitcnt>>

\* A RAM access without wait states (open page, recent load).  An uncached
\* instruction fetch is a read like any other.
DispatchRamNow ==
  /\ NextOp.kind = "ram"
  /\ RamAccess(NextOp) /\ Outstanding(NextOp.rnw, ~NextOp.rnw)
  /\ UNCHANGED <<mux_state, waitcnt, mem_tagvalids>>

\* A RAM access with wait states: the request registers are loaded, ram_ena waits.
DispatchRamWait ==
  /\ NextOp.kind = "ram"
  /\ mux_state' = IF NextOp.rnw THEN "WAITFORRAMREAD" ELSE "WAITFORRAMWRITE"
  /\ waitcnt' \in IF NextOp.rnw THEN {0} ELSE 0..MaxWait
  /\ ram_ena' = FALSE /\ ram_rq' = NextOp
  /\ Outstanding(FALSE, FALSE)
  /\ UNCHANGED mem_tagvalids

DispatchBios ==
  /\ NextOp.kind = "bios"
  /\ RamAccess(NextOp) /\ Outstanding(FALSE, FALSE)
  /\ mux_state' = "READBIOS"
  /\ waitcnt' \in 0..MaxWait
  /\ UNCHANGED mem_tagvalids

DispatchBus ==
  /\ \/ /\ NextOp.kind = "bus"
        /\ mux_state' = IF NextOp.rnw THEN "BUSREADREQUEST" ELSE "BUSWRITE"
     \/ /\ NextOp.kind = "ext"
        /\ mux_state' = IF NextOp.rnw THEN "BUSREADEXTERNAL" ELSE "BUSWRITEEXTERNAL"
  /\ NoRamAccess /\ Outstanding(FALSE, FALSE)
  /\ UNCHANGED <<waitcnt, mem_tagvalids>>

Dispatch(done) ==
  /\ Dispatching(done)
  /\ cur' = NextOp
  /\ mem_done_buf' = FALSE
  /\ \/ DispatchFetch
     \/ DispatchRamNow
     \/ DispatchRamWait
     \/ DispatchBios
     \/ DispatchBus

\* WAITFORRAMREAD, WAITFORRAMWRITE and WAITING count their wait states down.
MuxWait(done) ==
  /\ mux_state \in {"WAITFORRAMREAD", "WAITFORRAMWRITE", "WAITING"}
  /\ waitcnt > 0
  /\ waitcnt' = waitcnt - 1
  /\ NoRamAccess /\ RamAnswer(done)
  /\ mem_done_buf' = FALSE
  /\ UNCHANGED <<mux_state, cur, mem_tagvalids>>

MuxRamIssue(done) ==
  /\ mux_state \in {"WAITFORRAMREAD", "WAITFORRAMWRITE"}
  /\ waitcnt = 0
  /\ mux_state' = "IDLE"
  /\ RamAccess(ram_rq)
  /\ Outstanding(mux_state = "WAITFORRAMREAD" \/ (readram /\ ~done),
                 mux_state = "WAITFORRAMWRITE" \/ (writeram /\ ~done))
  /\ mem_done_buf' = FALSE
  /\ UNCHANGED <<waitcnt, cur, mem_tagvalids>>

MuxBios(done) ==
  /\ mux_state = "READBIOS"
  /\ mux_state' = IF done THEN "WAITING" ELSE "READBIOS"
  /\ NoRamAccess /\ RamAnswer(done)
  /\ mem_done_buf' = FALSE
  /\ UNCHANGED <<waitcnt, cur, mem_tagvalids>>

\* The last cycle of a ROM read, and of an internal bus read.
MuxReadEnd(done) ==
  /\ \/ mux_state = "WAITING" /\ waitcnt = 0
     \/ mux_state = "BUSREAD"
  /\ mux_state' = "IDLE"
  /\ mem_done_buf' = TRUE
  /\ NoRamAccess /\ RamAnswer(done)
  /\ UNCHANGED <<waitcnt, cur, mem_tagvalids>>

MuxBus(done) ==
  /\ \/ mux_state = "BUSWRITE" /\ mux_state' = "IDLE"
     \/ mux_state = "BUSREADREQUEST" /\ mux_state' = "BUSREAD"
  /\ mem_done_buf' = FALSE
  /\ NoRamAccess /\ RamAnswer(done)
  /\ UNCHANGED <<waitcnt, cur, mem_tagvalids>>

\* An external write is posted: the mux leaves as soon as the external FSM is
\* idle to take it.  A read waits for its data.
MuxExternal(done) ==
  /\ \/ /\ mux_state = "BUSWRITEEXTERNAL"
        /\ mux_state' = IF ext_state = "EXT_IDLE" THEN "IDLE" ELSE mux_state
     \/ /\ mux_state = "BUSREADEXTERNAL"
        /\ mux_state' = IF ext_done THEN "IDLE" ELSE mux_state
  /\ mem_done_buf' = FALSE
  /\ NoRamAccess /\ RamAnswer(done)
  /\ UNCHANGED <<waitcnt, cur, mem_tagvalids>>

-----------------------------------------------------------------------------
(* The external bus FSM.  The delay and recovery times programmed in the    *)
(* memory controller are choices, and so is the byte step that ends an      *)
(* access (step 3 always does).                                             *)

ExtTakesWrite == ext_state = "EXT_IDLE" /\ mux_state = "BUSWRITEEXTERNAL"
ExtTakesRead == ext_state = "EXT_IDLE" /\ mux_state = "BUSREADEXTERNAL" /\ ext_reccount = 0

ExtRecover == ext_reccount' = IF ext_reccount > 0 THEN ext_reccount - 1 ELSE 0

ExtIdle ==
  /\ ext_state = "EXT_IDLE" /\ ~ExtTakesWrite /\ ~ExtTakesRead
  /\ ext_finished' = FALSE /\ ext_byteStep' = 0 /\ ext_cur' = NullOp
  /\ ExtRecover
  /\ UNCHANGED <<ext_state, ext_waitcnt>>

ExtTakeWrite ==
  /\ ExtTakesWrite
  /\ ext_finished' = FALSE /\ ext_byteStep' \in 0..3 /\ ext_cur' = cur
  /\ IF ext_reccount > 1
     THEN ext_state' = "EXE_WRITE_PREWAIT" /\ ext_waitcnt' = ext_reccount - 1
     ELSE ext_state' = "EXT_WRITE" /\ UNCHANGED ext_waitcnt
  /\ ExtRecover

ExtTakeRead ==
  /\ ExtTakesRead
  /\ ext_finished' = FALSE /\ ext_byteStep' = 0 /\ ext_cur' = cur
  /\ ext_waitcnt' \in 0..MaxWait
  /\ ext_state' = IF ext_waitcnt' > 0 THEN "EXT_READ_WAIT" ELSE "EXT_READ_NEXT"
  /\ ExtRecover

ExtWaiting == ext_waitcnt > IF ext_state = "EXT_READ_WAIT" THEN 1 ELSE 0

ExtWait ==
  /\ \/ /\ ext_state = "EXE_WRITE_PREWAIT"
        /\ ext_state' = IF ExtWaiting THEN ext_state ELSE "EXT_WRITE"
     \/ /\ ext_state = "EXT_READ_WAIT"
        /\ ext_state' = IF ExtWaiting THEN ext_state ELSE "EXT_READ_NEXT"
     \/ /\ ext_state = "EXT_WRITE_WAIT" /\ ExtWaiting
        /\ ext_state' = ext_state
  /\ ext_waitcnt' = IF ExtWaiting THEN ext_waitcnt - 1 ELSE ext_waitcnt
  /\ ExtRecover
  /\ UNCHANGED <<ext_byteStep, ext_finished, ext_cur>>

\* A byte (or half word) goes out; the recovery time is loaded.
ExtStrobe ==
  /\ \/ ext_state = "EXT_WRITE" /\ ext_state' = "EXT_WRITE_WAIT"
        /\ ext_waitcnt' \in 0..MaxWait
     \/ ext_state = "EXT_READ_NEXT" /\ ext_state' = "EXT_READ"
        /\ UNCHANGED ext_waitcnt
  /\ ext_finished' \in IF ext_byteStep = 3 THEN {TRUE} ELSE BOOLEAN
  /\ ext_reccount' \in 0..MaxWait
  /\ UNCHANGED <<ext_byteStep, ext_cur>>

ExtFinish ==
  /\ ext_finished
  /\ \/ ext_state = "EXT_WRITE_WAIT" /\ ext_waitcnt = 0
     \/ ext_state = "EXT_READ"
  /\ ext_state' = "EXT_IDLE"
  /\ ExtRecover
  /\ UNCHANGED <<ext_waitcnt, ext_byteStep, ext_finished, ext_cur>>

ExtNextByte ==
  /\ ~ext_finished
  /\ ext_waitcnt' \in 0..MaxWait
  /\ \/ /\ ext_state = "EXT_WRITE_WAIT" /\ ext_waitcnt = 0
        /\ \/ ext_state' = "EXE_WRITE_PREWAIT"
           \/ ext_state' = "EXT_WRITE" /\ ext_waitcnt' = 0
     \/ /\ ext_state = "EXT_READ"
        /\ ext_state' = IF ext_waitcnt' > 0 THEN "EXT_READ_WAIT" ELSE "EXT_READ_NEXT"
  /\ ext_byteStep' \in {ext_byteStep + 1, ext_byteStep + 2} \cap 0..3
  /\ ExtRecover
  /\ UNCHANGED <<ext_finished, ext_cur>>

ExtClk ==
  \/ ExtIdle \/ ExtTakeWrite \/ ExtTakeRead \/ ExtWait
  \/ ExtStrobe \/ ExtFinish \/ ExtNextByte

-----------------------------------------------------------------------------
\* The reset branch leaves readram and writeram to ram_done.
MuxReset(done) ==
  /\ mux_state' = "IDLE"
  /\ mem_save_request' = FALSE /\ mem_save' = NullOp
  /\ fifo' = <<>> /\ fifo_in' = <<>>
  /\ writeFifo_busy' = FALSE
  /\ ram_ena' = FALSE /\ mem_done_buf' = FALSE
  /\ RamAnswer(done)
  /\ ext_state' = "EXT_IDLE" /\ ext_reccount' = 0
  /\ UNCHANGED <<waitcnt, ram_rq, cur, mem_tagvalids, writeFifo_Wr_1,
                 ext_waitcnt, ext_byteStep, ext_finished, ext_cur>>

MuxRun(done) ==
  /\ SaveRead(done)
  /\ PostWrite(done)
  /\ ExtClk
  /\ \/ DispatchIdle(done) \/ Dispatch(done)
     \/ MuxWait(done) \/ MuxRamIssue(done) \/ MuxBios(done) \/ MuxReadEnd(done)
     \/ MuxBus(done) \/ MuxExternal(done)

\* One clock edge of the mux.
MuxClk(rst, done) == \/ rst /\ MuxReset(done)
                     \/ ~rst /\ MuxRun(done)
=============================================================================
