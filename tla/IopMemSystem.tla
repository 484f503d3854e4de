---------------------------- MODULE IopMemSystem ----------------------------
(***************************************************************************)
(* The IOP memory system of rtl/iop/iop_top.vhd: the CPU's memory mux, the *)
(* DMA controller and the host's peek port share the one port of iop_ram   *)
(* through the arbiter of iop_top, under the stretched reset iop_top       *)
(* derives from the host's.                                                *)
(*                                                                         *)
(* Every process of the design steps at each clk1x edge, so Next is the    *)
(* conjunction of one relation per process.  The CPU, the DMA engine and   *)
(* the host are environments: their wires take any value their protocol    *)
(* allows.                                                                 *)
(***************************************************************************)
EXTENDS IopRam, IopMemoryMux

CONSTANTS
  ResetHold,      \* cycles the internal reset outlasts the external one (64)
  MaxOps,         \* bound: CPU operations after a reset
  ResetAgain,     \* the host may reset the IOP again while it runs
  PeekAnyTime     \* the host may peek whenever it likes, or only waits its turn

ASSUME MemAssumption ==
  /\ ResetHold \in Nat \ {0}
  /\ MaxOps \in Nat
  /\ ResetAgain \in BOOLEAN
  /\ PeekAnyTime \in BOOLEAN

VARIABLES
  reset, reset_cnt, reset_int,                 \* reset from the host, and stretched
  dma_ram_req, dma_ram_rnw,                    \* request registers of iop_dma
  peek_req, peek_busy, peek_valid,             \* the host's peek port
  ramarb_busy, ramarb_dma, ramarb_dmard,       \* who holds the RAM port
  cpu_pend, pend,                              \* the CPU access held back
  cpu_wait,                                    \* CPU stalled on a read
  \* History: whose access the RAM serves, the operations issued and performed
  \* since the reset, the words of the current line written to the cache.
  ram_owner, issued, performed, filled

resetVars == <<reset, reset_cnt, reset_int>>
arbVars == <<ramarb_busy, ramarb_dma, ramarb_dmard, cpu_pend, pend>>
peekVars == <<peek_req, peek_busy, peek_valid>>
historyVars == <<ram_owner, issued, performed, filled>>
vars == <<ramVars, muxVars, resetVars, dma_ram_req, dma_ram_rnw, peekVars,
          arbVars, cpu_wait, historyVars>>

Owner == {"none", "cpu", "dmawr", "dmard", "peek"}

ArbTypeOK ==
  /\ reset \in BOOLEAN /\ reset_cnt \in 0..ResetHold /\ reset_int \in BOOLEAN
  /\ dma_ram_req \in BOOLEAN /\ dma_ram_rnw \in BOOLEAN
  /\ peek_req \in BOOLEAN /\ peek_busy \in BOOLEAN /\ peek_valid \in BOOLEAN
  /\ ramarb_busy \in BOOLEAN /\ ramarb_dma \in BOOLEAN /\ ramarb_dmard \in BOOLEAN
  /\ cpu_pend \in BOOLEAN /\ pend \in Op
  /\ cpu_wait \in BOOLEAN
  /\ ram_owner \in Owner /\ issued \in Nat /\ performed \in Nat
  /\ filled \in SUBSET (0..3)

TypeOK == RamTypeOK /\ MuxTypeOK /\ ArbTypeOK

Init ==
  /\ RamInit /\ MuxInit
  /\ reset = TRUE /\ reset_cnt = 0 /\ reset_int = TRUE
  /\ dma_ram_req = FALSE /\ dma_ram_rnw = FALSE
  /\ peek_req = FALSE /\ peek_busy = FALSE /\ peek_valid = FALSE
  /\ ramarb_busy = FALSE /\ ramarb_dma = FALSE /\ ramarb_dmard = FALSE
  /\ cpu_pend = FALSE /\ pend = NullOp
  /\ cpu_wait = FALSE
  /\ ram_owner = "none" /\ issued = 0 /\ performed = 0 /\ filled = {}

-----------------------------------------------------------------------------
(* Combinational signals of iop_top.  peek_mode is reset_int. *)

peek_mode == reset_int

\* Mutant: the grant does not look at a CPU access held back.
dma_grant_pend == /\ dma_ram_req
                  /\ ~ramarb_busy /\ ~ram_ena
                  /\ ~peek_mode /\ ~reset_int

dma_grant == /\ dma_ram_req
             /\ ~ramarb_busy /\ ~ram_ena /\ ~cpu_pend
             /\ ~peek_mode /\ ~reset_int

\* Mutant: the CPU's request goes to the RAM though the port is busy.
cpu_issue_busy == ram_ena \/ cpu_pend

cpu_issue == ~ramarb_busy /\ (ram_ena \/ cpu_pend)
cpu_rq == IF cpu_pend THEN pend ELSE ram_rq

ram_ena_m == IF peek_mode THEN peek_req ELSE cpu_issue \/ dma_grant

UncachedRead == [rnw |-> TRUE, cache |-> FALSE, idx |-> 0]
DmaRequest == [rnw |-> dma_ram_rnw, cache |-> FALSE, idx |-> 0]
ram_rq_m == IF peek_mode THEN UncachedRead
            ELSE IF dma_grant THEN DmaRequest
            ELSE [rnw |-> cpu_rq.rnw, cache |-> cpu_rq.cache, idx |-> cpu_rq.idx]

\* Mutant: the mux sees every completion.
ram_done_unmasked == ram_done

ram_done_mux == ram_done /\ ~(ramarb_dma \/ dma_grant)
dma_ram_rvalid == ram_done /\ ramarb_dmard

\* Mutant: the stretched reset holds the RAM even under a peek.
ram_reset_hard == reset_int

ram_reset == reset_int /\ ~(peek_busy \/ peek_req)

MemDone == mem_done(ram_done_mux)

-----------------------------------------------------------------------------
(* The processes of iop_top. *)

\* The internal reset outlasts the external one by ResetHold cycles.
ResetClk ==
  \/ reset /\ reset_cnt' = 1 /\ reset_int' = TRUE
  \/ ~reset /\ reset_cnt = 0 /\ UNCHANGED <<reset_cnt, reset_int>>
  \/ /\ ~reset /\ reset_cnt # 0
     /\ reset_cnt' = IF reset_cnt = ResetHold THEN 0 ELSE reset_cnt + 1
     /\ reset_int' = (reset_int /\ reset_cnt # ResetHold)

\* Mutant: a CPU access that meets a busy port is forgotten.
PendClkForgets ==
  IF reset \/ ~ramarb_busy
  THEN cpu_pend' = FALSE /\ pend' = NullOp
  ELSE UNCHANGED <<cpu_pend, pend>>

\* A CPU access that meets a busy port is kept and replayed.
PendClk ==
  IF reset
  THEN cpu_pend' = FALSE /\ pend' = NullOp
  ELSE IF ram_ena /\ ramarb_busy /\ ~peek_mode
  THEN cpu_pend' = TRUE /\ pend' = ram_rq
  ELSE IF cpu_pend /\ ~ramarb_busy
  THEN cpu_pend' = FALSE /\ pend' = NullOp
  ELSE UNCHANGED <<cpu_pend, pend>>

\* Mutant: whose read it was is remembered past its completion.
ArbClkSticky ==
  IF reset \/ ram_done
  THEN ramarb_busy' = FALSE /\ ramarb_dma' = FALSE /\ UNCHANGED ramarb_dmard
  ELSE IF ram_ena_m /\ ~peek_mode
  THEN /\ ramarb_busy' = TRUE
       /\ ramarb_dma' = dma_grant
       /\ ramarb_dmard' = (ramarb_dmard \/ (dma_grant /\ dma_ram_rnw))
  ELSE UNCHANGED <<ramarb_busy, ramarb_dma, ramarb_dmard>>

ArbClk ==
  IF reset \/ ram_done
  THEN ramarb_busy' = FALSE /\ ramarb_dma' = FALSE /\ ramarb_dmard' = FALSE
  ELSE IF ram_ena_m /\ ~peek_mode
  THEN /\ ramarb_busy' = TRUE
       /\ ramarb_dma' = dma_grant
       /\ ramarb_dmard' = (dma_grant /\ dma_ram_rnw)
  ELSE UNCHANGED <<ramarb_busy, ramarb_dma, ramarb_dmard>>

PeekClk ==
  IF peek_req /\ peek_mode
  THEN peek_busy' = TRUE /\ peek_valid' = FALSE
  ELSE IF peek_busy /\ ram_done
  THEN peek_busy' = FALSE /\ peek_valid' = TRUE
  ELSE peek_valid' = FALSE /\ UNCHANGED peek_busy

-----------------------------------------------------------------------------
(* The environments. *)

\* The host: it resets the IOP at power up, and again if ResetAgain.  Unless
\* PeekAnyTime it peeks one word at a time, deep in reset, and keeps the reset
\* until the word is back (tools/ps2iop/iop_post.py, bios_run.py).
PeekPending == peek_req \/ peek_busy \/ peek_valid
Host ==
  /\ reset' \in IF reset THEN BOOLEAN ELSE {FALSE, ResetAgain}
  /\ peek_req' \in BOOLEAN
  /\ ~PeekAnyTime =>
       /\ peek_req' => reset' /\ reset /\ reset_int /\ reset_cnt = 1 /\ ~PeekPending
       /\ reset /\ ~reset' => ~PeekPending /\ ~peek_req'

\* The DMA engine: its request registers change at will.
DmaEngine == dma_ram_req' \in BOOLEAN /\ dma_ram_rnw' \in BOOLEAN

\* The CPU: held in reset it asks for nothing; else it may present any request
\* the mux can take, one cycle at a time, except while it waits for a read.
\* A read may follow in the very cycle that answers the last one.
Cpu ==
  /\ cpu_wait' = /\ ~reset_int
                 /\ (cpu_wait /\ ~MemDone) \/ (mem_in_request /\ mem_in.rnw)
  /\ \/ mem_in_request' = FALSE /\ mem_in' = NullOp
     \/ /\ ~reset_int /\ ~reset
        /\ issued' < MaxOps
        /\ ~cpu_wait' \/ MemDone'
        /\ mem_in_request' = TRUE
        /\ \E kind \in Kinds, rnw \in BOOLEAN, idx \in FirstWords :
             /\ kind \in {"fetch", "bios"} => rnw
             /\ kind # "fetch" => \A j \in FirstWords : idx <= j
             /\ ~rnw => ~mem_fifofull'
             /\ mem_in' = [id |-> issued' + 1, kind |-> kind, rnw |-> rnw,
                           cache |-> (kind = "fetch"), idx |-> idx]

-----------------------------------------------------------------------------
(* History. *)

\* The RAM samples a request.
RamTakes == ram_ena_m /\ ram_state = "IDLE" /\ ~ram_reset

CurrentOwner ==
  IF peek_mode THEN "peek"
  ELSE IF dma_grant THEN IF dma_ram_rnw THEN "dmard" ELSE "dmawr"
  ELSE "cpu"

\* The CPU operations that take effect in this cycle.
Performing ==
  (IF RamTakes /\ CurrentOwner = "cpu" THEN {cpu_rq.id} ELSE {})
  \cup (IF mux_state \in {"BUSWRITE", "BUSREADREQUEST"} THEN {cur.id} ELSE {})
  \cup (IF ExtTakesWrite \/ ExtTakesRead THEN {cur.id} ELSE {})

History ==
  /\ ram_owner' = IF RamTakes THEN CurrentOwner
                  ELSE IF ~ram_reset /\ ram_state # "IDLE" THEN ram_owner ELSE "none"
  /\ issued' = IF reset_int THEN 0 ELSE IF mem_in_request THEN mem_in.id ELSE issued
  /\ performed' = IF reset_int THEN 0
                  ELSE IF Performing = {} THEN performed ELSE CHOOSE i \in Performing : TRUE
  /\ filled' = (IF Dispatching(ram_done_mux) /\ NextOp.kind = "fetch" THEN {} ELSE filled)
               \cup cache_wr'

-----------------------------------------------------------------------------
Hardware ==
  /\ ResetClk
  /\ PendClk
  /\ ArbClk
  /\ PeekClk
  /\ RamClk(ram_reset, ram_ena_m, ram_rq_m)
  /\ MuxClk(reset_int, ram_done_mux)

Next ==
  /\ Hardware
  /\ History
  /\ Host
  /\ DmaEngine
  /\ Cpu

Spec == Init /\ [][Next]_vars
FairSpec == Spec /\ WF_vars(Next)
-----------------------------------------------------------------------------
(* Properties. *)

Running == ~reset_int /\ ~reset

\* A request put on the RAM port while the IOP runs finds the RAM ready for it:
\* iop_ram samples one only in IDLE and drops any other, though its write
\* enables act on every one.
NoRequestDropped == Running /\ ram_ena_m => ram_state = "IDLE" /\ ~ram_done

\* ram_done reaches the mux exactly when the CPU's own access ends, and the DMA
\* engine gets read data exactly when its own read ends.
OwnCompletions ==
  Running => /\ ram_done_mux <=> ram_done /\ ram_owner = "cpu"
             /\ dma_ram_rvalid <=> ram_done /\ ram_owner = "dmard"

\* The mux believes an access outstanding (readram, writeram or READBIOS) exactly
\* while there is one, and it is in one place: on the request wires, held back,
\* or in the RAM.  None is lost between dispatch and completion, none is served
\* twice, and the single hold register is enough.
OneCpuAccess ==
  Running =>
    /\ readram \/ writeram \/ mux_state = "READBIOS"
         <=> ram_ena \/ cpu_pend \/ ram_owner = "cpu"
    /\ ~(ram_ena /\ cpu_pend)
    /\ ~(ram_ena /\ ram_owner = "cpu")
    /\ ~(cpu_pend /\ ram_owner = "cpu")

\* CPU operations take effect one at a time in program order, each exactly once,
\* however the write FIFO, the save register, the hold register, the posted
\* external writes and the DMA traffic delay them.
ProgramOrder == Running => \A i \in Performing : Performing = {i} /\ i = performed + 1

\* The CPU is answered only while it waits, and only after its read and every
\* write before it took effect.
ReadsAfterWrites == Running /\ MemDone => cpu_wait /\ performed = issued

\* A cached fetch is answered when every word of the line the mux lets the CPU
\* mark valid has been written to the instruction cache.
LineComplete ==
  Running /\ readram /\ ram_done_mux /\ ram_rq.cache => filled = mem_tagvalids

\* The write FIFO, whose Full flag nobody looks at, never overflows, and
\* writeFifo_busy, which keeps a read behind the posted writes, covers it.
FifoGuarded ==
  Running => /\ Len(fifo) + Len(fifo_in) <= FifoSize
             /\ fifo # <<>> \/ fifo_in # <<>> => writeFifo_busy

\* The contract of IopPort, which the DMA engine relies on: every clock edge is
\* one of its steps, with these wires.
PortOf == IF ~ramarb_busy THEN "free"
          ELSE IF ramarb_dmard THEN "dmard"
          ELSE IF ramarb_dma THEN "dmawr" ELSE "cpu"
DmaPort == INSTANCE IopPort WITH port <- PortOf
PortContract ==
  /\ DmaPort!PortInit
  /\ [][DmaPort!PortClk(reset, dma_ram_req, dma_ram_rnw, dma_grant, dma_ram_rvalid)]_vars

\* A CPU that waits for a read is answered (or reset); a peek the port accepted
\* is answered, though the IOP stays in reset.
ReadsAnswered == /\ cpu_wait ~> (~cpu_wait \/ MemDone)
                 /\ peek_busy ~> peek_valid

\* iop_top.vhd:353 of the RAM port in reset: "the mux never has a request in
\* flight".  When the CPU is let go, nothing from before the reset is left.
MuxIdleAtRelease == [][reset_int /\ ~reset_int' => ~(readram' \/ writeram')]_vars

\* iop_top.vhd:50 of the peek port: "Ignored unless the CPU is in reset, so it
\* can never race the CPU".
PeekNeverRaces == ~reset_int => ram_owner # "peek"

\* Every operation the CPU issued, posted writes included, takes effect in the
\* end (or the IOP is reset), whatever the DMA engine asks for.
OperationsPerformed ==
  \A k \in 1..MaxOps : issued = k ~> (performed >= k \/ reset_int)

-----------------------------------------------------------------------------
(* The inductive strengthening of the port properties, for a host that peeks *)
(* in turn (PeekAnyTime = FALSE).                                            *)

\* A peek lives entirely inside the host's reset.
PeekInReset == peek_req \/ peek_busy \/ peek_valid => reset /\ reset_int

\* The arbiter's registers tell exactly what the RAM does while the IOP runs, and
\* are clear in reset.
ArbiterTracksRam ==
  /\ reset_int => ~ramarb_busy /\ ~cpu_pend
  /\ ~ramarb_busy => ~ramarb_dma /\ ~ramarb_dmard
  /\ ~reset_int /\ ~ramarb_busy => ram_state = "IDLE" /\ ~ram_done /\ ram_owner = "none"
  /\ ~reset_int /\ ramarb_busy =>
       /\ ram_done <=> ram_state = "IDLE"
       /\ ram_owner \in {"cpu", "dmawr", "dmard"}
       /\ ramarb_dma <=> ram_owner \in {"dmawr", "dmard"}
       /\ ramarb_dmard <=> ram_owner = "dmard"

PortInv == PeekInReset /\ ArbiterTracksRam

\* With one reset only: the mux is clean in reset, and waits in IDLE for the RAM.
MuxInv ==
  /\ reset => reset_int
  /\ reset_int => ~readram /\ ~writeram /\ ~ram_ena /\ mux_state = "IDLE"
  /\ readram \/ writeram => mux_state = "IDLE"
  /\ OneCpuAccess
=============================================================================
