------------------------ MODULE IopMemSystem_proofs ------------------------
(***************************************************************************)
(* Proofs about IopMemSystem, for every value of its constants: any wait   *)
(* counts, any FIFO depth and latency, any length of the reset and any     *)
(* number of CPU operations.  First types and the port; then, for a host   *)
(* that peeks in turn and resets the IOP once, the write FIFO, the CPU's   *)
(* reads, the order of its operations and the lines of the instruction     *)
(* cache, where FlowInv is inductive beside TypeOK, PortInv and MuxInv.    *)
(***************************************************************************)
EXTENDS IopMemSystem, SequenceTheorems, TLAPS

-----------------------------------------------------------------------------
(* Type correctness. *)

LEMMA WordZero == 0 \in 0..3
  OBVIOUS

LEMMA NextNat == ASSUME NEW n \in Nat PROVE n + 1 \in Nat
  OBVIOUS

\* Counting down stays in range, and so does stopping at 0.
LEMMA CountDown ==
  ASSUME NEW m \in Nat, NEW n \in 0..m
  PROVE  /\ 0 \in 0..m
         /\ n > 0 => n - 1 \in 0..m
         /\ n > 1 => n - 1 \in 0..m
  OBVIOUS

LEMMA NullOpType == NullOp \in Op
  BY DEF NullOp, Op, AllKinds

LEMMA NextOpType == MuxTypeOK /\ (fifo # <<>> \/ mem_request) => NextOp \in Op
<1> SUFFICES ASSUME MuxTypeOK PROVE NextOp \in Op
  OBVIOUS
<1>1. CASE fifo # <<>>
  <2>1. fifo \in Seq(Op)
    BY DEF MuxTypeOK
  <2>2. Head(fifo) \in Op
    BY <2>1, <1>1, HeadTailProperties
  <2> QED BY <2>2, <1>1 DEF NextOp
<1>2. CASE fifo = <<>>
  BY <1>2 DEF MuxTypeOK, NextOp
<1> QED BY <1>1, <1>2

\* A clock edge of the RAM keeps its registers in their types.
LEMMA RamTypeStep ==
  ASSUME RamTypeOK, NEW rst, NEW ena, NEW rq,
         rq.cache \in BOOLEAN, rq.idx \in 0..3,
         RamClk(rst, ena, rq)
  PROVE  RamTypeOK'
<1> USE DEF RamTypeOK, RamState
<1>1. CASE RamReset
  BY <1>1 DEF RamReset
<1>2. CASE RamIdle
  BY <1>2 DEF RamIdle
<1>3. CASE RamTakeWrite(rq)
  BY <1>3 DEF RamTakeWrite
<1>4. CASE RamTakeRead(rq)
  BY <1>4 DEF RamTakeRead
<1>5. CASE RamWriteAck
  BY <1>5 DEF RamWriteAck
<1>6. CASE RamRowRead
  BY <1>6 DEF RamRowRead
<1>7. CASE RamEmit
  <2>1. word_idx' \in 0..3 /\ cache_wr' \in SUBSET (0..3)
    BY <1>7 DEF RamEmit
  <2>2. ram_state' \in RamState /\ is_cache' \in BOOLEAN /\ ram_done' \in BOOLEAN
    BY <1>7 DEF RamEmit
  <2> QED BY <2>1, <2>2
<1> QED BY <1>1, <1>2, <1>3, <1>4, <1>5, <1>6, <1>7 DEF RamClk

\* The part of MuxTypeOK that the mux itself drives.
MuxOwnTypeOK ==
  /\ mux_state \in MuxState /\ waitcnt \in 0..MaxWait
  /\ readram \in BOOLEAN /\ writeram \in BOOLEAN
  /\ ram_ena \in BOOLEAN /\ ram_rq \in Op
  /\ mem_save_request \in BOOLEAN /\ mem_save \in Op
  /\ fifo \in Seq(Op) /\ fifo_in \in Seq(Op)
  /\ writeFifo_busy \in BOOLEAN /\ writeFifo_Wr_1 \in BOOLEAN
  /\ cur \in Op /\ mem_done_buf \in BOOLEAN /\ mem_tagvalids \in SUBSET (0..3)
  /\ ext_state \in ExtState /\ ext_waitcnt \in 0..MaxWait /\ ext_byteStep \in 0..3
  /\ ext_finished \in BOOLEAN /\ ext_reccount \in 0..MaxWait /\ ext_cur \in Op

LEMMA QueueTypeStep ==
  ASSUME MuxTypeOK, NEW done \in BOOLEAN, SaveRead(done), PostWrite(done)
  PROVE  /\ mem_save_request' \in BOOLEAN /\ mem_save' \in Op
         /\ fifo' \in Seq(Op) /\ fifo_in' \in Seq(Op)
         /\ writeFifo_busy' \in BOOLEAN /\ writeFifo_Wr_1' \in BOOLEAN
<1> DEFINE posted == IF writeFifo_Wr(done) THEN <<mem_in>> ELSE <<>>
           rest   == IF writeFifo_Rd(done) THEN Tail(fifo) ELSE fifo
<1>1. mem_save_request' \in BOOLEAN /\ mem_save' \in Op
  BY NullOpType DEF SaveRead, MuxTypeOK
<1>2. posted \in Seq(Op)
  BY DEF MuxTypeOK
<1>3. rest \in Seq(Op)
  <2>1. fifo \in Seq(Op)
    BY DEF MuxTypeOK
  <2>2. CASE writeFifo_Rd(done)
    BY <2>1, <2>2, HeadTailProperties DEF writeFifo_Rd
  <2>3. CASE ~writeFifo_Rd(done)
    BY <2>1, <2>3
  <2> QED BY <2>2, <2>3
<1>4. fifo' \in Seq(Op)
  <2>1. fifo_in \in Seq(Op)
    BY DEF MuxTypeOK
  <2>2. fifo' = rest \o (IF FallThrough2 THEN fifo_in ELSE posted)
    BY DEF PostWrite
  <2> HIDE DEF posted, rest
  <2> QED BY <1>2, <1>3, <2>1, <2>2, ConcatProperties
<1>5. fifo_in' \in Seq(Op)
  BY <1>2 DEF PostWrite
<1>6. writeFifo_busy' \in BOOLEAN /\ writeFifo_Wr_1' \in BOOLEAN
  BY DEF PostWrite, writeFifo_Wr
<1> QED BY <1>1, <1>4, <1>5, <1>6

LEMMA ExtTypeStep ==
  ASSUME MuxTypeOK, ExtClk
  PROVE  /\ ext_state' \in ExtState /\ ext_waitcnt' \in 0..MaxWait /\ ext_byteStep' \in 0..3
         /\ ext_finished' \in BOOLEAN /\ ext_reccount' \in 0..MaxWait /\ ext_cur' \in Op
<1> USE DEF ExtState
<1>a. /\ ext_state \in ExtState /\ ext_waitcnt \in 0..MaxWait /\ ext_byteStep \in 0..3
      /\ ext_finished \in BOOLEAN /\ ext_reccount \in 0..MaxWait /\ ext_cur \in Op /\ cur \in Op
  BY DEF MuxTypeOK
<1>b. MaxWait \in Nat
  BY MuxAssumption
<1>c. ExtRecover => ext_reccount' \in 0..MaxWait
  BY <1>a, <1>b, CountDown DEF ExtRecover
<1>1. CASE ExtIdle
  <2>1. ext_byteStep' \in 0..3 /\ ext_finished' \in BOOLEAN
    BY <1>1, WordZero DEF ExtIdle
  <2>2. ext_state' \in ExtState /\ ext_waitcnt' \in 0..MaxWait
    BY <1>1, <1>a DEF ExtIdle
  <2>3. ext_reccount' \in 0..MaxWait
    BY <1>1, <1>c DEF ExtIdle
  <2>4. ext_cur' \in Op
    BY <1>1, NullOpType DEF ExtIdle
  <2> QED BY <2>1, <2>2, <2>3, <2>4
<1>2. CASE ExtTakeWrite
  <2>1. ext_waitcnt' \in 0..MaxWait
    BY <1>2, <1>a, <1>b, CountDown DEF ExtTakeWrite
  <2>2. ext_state' \in ExtState
    BY <1>2 DEF ExtTakeWrite
  <2> QED BY <1>2, <1>a, <1>c, <2>1, <2>2 DEF ExtTakeWrite
<1>3. CASE ExtTakeRead
  <2>1. ext_waitcnt' \in 0..MaxWait
    BY <1>3 DEF ExtTakeRead
  <2>2. ext_state' \in ExtState
    BY <1>3 DEF ExtTakeRead
  <2>3. ext_reccount' \in 0..MaxWait
    BY <1>3, <1>c DEF ExtTakeRead
  <2>4. ext_byteStep' \in 0..3 /\ ext_finished' \in BOOLEAN /\ ext_cur' \in Op
    BY <1>3, <1>a, WordZero DEF ExtTakeRead
  <2> QED BY <2>1, <2>2, <2>3, <2>4
<1>4. CASE ExtWait
  <2>1. ext_waitcnt' \in 0..MaxWait
    <3>1. ext_waitcnt' = IF ExtWaiting THEN ext_waitcnt - 1 ELSE ext_waitcnt
      BY <1>4 DEF ExtWait
    <3>2. ExtWaiting => ext_waitcnt > 0
      BY <1>a DEF ExtWaiting
    <3> QED BY <3>1, <3>2, <1>a, <1>b, CountDown
  <2>2. ext_state' \in ExtState
    BY <1>4, <1>a DEF ExtWait
  <2> QED BY <1>4, <1>a, <1>c, <2>1, <2>2 DEF ExtWait
<1>5. CASE ExtStrobe
  BY <1>5, <1>a DEF ExtStrobe
<1>6. CASE ExtFinish
  BY <1>6, <1>a, <1>c DEF ExtFinish
<1>7. CASE ExtNextByte
  <2>1. ext_byteStep' \in 0..3
    BY <1>7, <1>a DEF ExtNextByte
  <2>2. ext_state' \in ExtState
    BY <1>7 DEF ExtNextByte
  <2> QED BY <1>7, <1>a, <1>c, <2>1, <2>2 DEF ExtNextByte
<1> QED BY <1>1, <1>2, <1>3, <1>4, <1>5, <1>6, <1>7 DEF ExtClk

LEMMA DispatchTypeStep ==
  ASSUME MuxTypeOK, NEW done \in BOOLEAN,
         \/ DispatchIdle(done) \/ Dispatch(done)
         \/ MuxWait(done) \/ MuxRamIssue(done) \/ MuxBios(done) \/ MuxReadEnd(done)
         \/ MuxBus(done) \/ MuxExternal(done)
  PROVE  /\ mux_state' \in MuxState /\ waitcnt' \in 0..MaxWait
         /\ readram' \in BOOLEAN /\ writeram' \in BOOLEAN
         /\ ram_ena' \in BOOLEAN /\ ram_rq' \in Op
         /\ cur' \in Op /\ mem_done_buf' \in BOOLEAN /\ mem_tagvalids' \in SUBSET (0..3)
<1> USE DEF MuxTypeOK, MuxState, RamAccess, NoRamAccess, Outstanding, RamAnswer
<1>1. CASE DispatchIdle(done)
  BY <1>1 DEF DispatchIdle
<1>2. CASE Dispatch(done)
  <2>1. NextOp \in Op
    BY <1>2, NextOpType DEF Dispatch, Dispatching
  <2>2. NextOp.rnw \in BOOLEAN /\ NextOp.idx \in 0..3
    BY <2>1 DEF Op
  <2>3. cur' \in Op /\ mem_done_buf' \in BOOLEAN
    BY <1>2, <2>1 DEF Dispatch
  <2>4. CASE DispatchFetch
    <3>1. mem_tagvalids' \in SUBSET (0..3)
      BY <2>2, <2>4 DEF DispatchFetch
    <3> QED BY <2>1, <2>3, <2>4, <3>1 DEF DispatchFetch
  <2>5. CASE DispatchRamNow
    BY <2>1, <2>2, <2>3, <2>5 DEF DispatchRamNow
  <2>6. CASE DispatchRamWait
    <3>1. waitcnt' \in 0..MaxWait
      BY <2>6, CountDown, MuxAssumption DEF DispatchRamWait
    <3> QED BY <2>1, <2>2, <2>3, <2>6, <3>1 DEF DispatchRamWait
  <2>7. CASE DispatchBios
    BY <2>1, <2>3, <2>7 DEF DispatchBios
  <2>8. CASE DispatchBus
    BY <2>2, <2>3, <2>8 DEF DispatchBus
  <2> QED BY <1>2, <2>4, <2>5, <2>6, <2>7, <2>8 DEF Dispatch
<1>3. CASE MuxWait(done)
  <2>1. waitcnt' \in 0..MaxWait
    <3>1. waitcnt \in 0..MaxWait /\ waitcnt > 0 /\ waitcnt' = waitcnt - 1
      BY <1>3 DEF MuxWait
    <3> QED BY <3>1, CountDown, MuxAssumption
  <2> QED BY <1>3, <2>1 DEF MuxWait
<1>4. CASE MuxRamIssue(done)
  BY <1>4 DEF MuxRamIssue
<1>5. CASE MuxBios(done)
  BY <1>5 DEF MuxBios
<1>6. CASE MuxReadEnd(done)
  BY <1>6 DEF MuxReadEnd
<1>7. CASE MuxBus(done)
  BY <1>7 DEF MuxBus
<1>8. CASE MuxExternal(done)
  BY <1>8 DEF MuxExternal
<1> QED BY <1>1, <1>2, <1>3, <1>4, <1>5, <1>6, <1>7, <1>8

LEMMA MuxTypeStep ==
  ASSUME MuxTypeOK, NEW rst \in BOOLEAN, NEW done \in BOOLEAN, MuxClk(rst, done)
  PROVE  MuxOwnTypeOK'
<1>1. CASE MuxReset(done)
  <2>1. fifo' \in Seq(Op) /\ fifo_in' \in Seq(Op)
    BY <1>1 DEF MuxReset
  <2>2. ext_reccount' \in 0..MaxWait
    BY <1>1, MuxAssumption, CountDown DEF MuxReset
  <2>3. mux_state' \in MuxState /\ ext_state' \in ExtState
    BY <1>1 DEF MuxReset, MuxState, ExtState
  <2>4. /\ readram' \in BOOLEAN /\ writeram' \in BOOLEAN /\ ram_ena' \in BOOLEAN
        /\ mem_done_buf' \in BOOLEAN /\ writeFifo_busy' \in BOOLEAN
        /\ mem_save_request' \in BOOLEAN /\ mem_save' \in Op
    BY <1>1, NullOpType DEF MuxReset, RamAnswer, Outstanding
  <2>5. /\ waitcnt' \in 0..MaxWait /\ ram_rq' \in Op /\ cur' \in Op
        /\ mem_tagvalids' \in SUBSET (0..3) /\ writeFifo_Wr_1' \in BOOLEAN
        /\ ext_waitcnt' \in 0..MaxWait /\ ext_byteStep' \in 0..3
        /\ ext_finished' \in BOOLEAN /\ ext_cur' \in Op
    BY <1>1 DEF MuxReset, MuxTypeOK
  <2> QED BY <2>1, <2>2, <2>3, <2>4, <2>5 DEF MuxOwnTypeOK
<1>2. CASE MuxRun(done)
  BY <1>2, QueueTypeStep, ExtTypeStep, DispatchTypeStep DEF MuxRun, MuxOwnTypeOK
<1> QED BY <1>1, <1>2 DEF MuxClk

\* The wires of the RAM port carry requests.
LEMMA RamRequestType ==
  TypeOK => ram_rq_m.cache \in BOOLEAN /\ ram_rq_m.idx \in 0..3 /\ ram_rq_m.rnw \in BOOLEAN
<1> SUFFICES ASSUME TypeOK
             PROVE  ram_rq_m.cache \in BOOLEAN /\ ram_rq_m.idx \in 0..3 /\ ram_rq_m.rnw \in BOOLEAN
  OBVIOUS
<1>1. cpu_rq \in Op
  BY DEF TypeOK, MuxTypeOK, ArbTypeOK, cpu_rq
<1>2. cpu_rq.cache \in BOOLEAN /\ cpu_rq.idx \in 0..3 /\ cpu_rq.rnw \in BOOLEAN
  BY <1>1 DEF Op
<1>3. dma_ram_rnw \in BOOLEAN
  BY DEF TypeOK, ArbTypeOK
<1>4. CASE peek_mode
  BY <1>4 DEF ram_rq_m, UncachedRead
<1>5. CASE ~peek_mode /\ dma_grant
  BY <1>3, <1>5 DEF ram_rq_m, DmaRequest
<1>6. CASE ~peek_mode /\ ~dma_grant
  BY <1>2, <1>6 DEF ram_rq_m
<1> QED BY <1>4, <1>5, <1>6

LEMMA TypeStep ==
  ASSUME TypeOK, Next
  PROVE  TypeOK'
<1>1. RamTypeOK'
  BY RamTypeStep, RamRequestType DEF Next, Hardware, TypeOK
<1>2. MuxOwnTypeOK'
  <2>1. reset_int \in BOOLEAN /\ ram_done_mux \in BOOLEAN /\ MuxTypeOK
    BY DEF TypeOK, ArbTypeOK, RamTypeOK, ram_done_mux
  <2> QED BY <2>1, MuxTypeStep DEF Next, Hardware
<1>3. issued' \in Nat /\ ram_owner' \in Owner /\ filled' \in SUBSET (0..3)
  <2>1. issued' \in Nat
    BY DEF Next, History, TypeOK, ArbTypeOK, MuxTypeOK, Op
  <2>2. ram_owner' \in Owner
    BY DEF Next, History, TypeOK, ArbTypeOK, CurrentOwner, Owner
  <2>3. filled' \in SUBSET (0..3)
    BY <1>1 DEF Next, History, TypeOK, ArbTypeOK, RamTypeOK
  <2> QED BY <2>1, <2>2, <2>3
<1>4. performed' \in Nat
  <2>1. Performing \subseteq Nat
    BY DEF Performing, TypeOK, MuxTypeOK, ArbTypeOK, cpu_rq, Op
  <2> QED BY <2>1 DEF Next, History, TypeOK, ArbTypeOK
<1>5. mem_in_request' \in BOOLEAN /\ mem_in' \in Op /\ cpu_wait' \in BOOLEAN
  <2>1. mem_in_request' \in BOOLEAN /\ cpu_wait' \in BOOLEAN
    BY DEF Next, Cpu, TypeOK, ArbTypeOK
  <2>2. mem_in' \in Op
    <3>1. CASE mem_in' = NullOp
      BY <3>1, NullOpType
    <3>2. CASE mem_in' # NullOp
      <4>1. PICK kind \in Kinds, rnw \in BOOLEAN, idx \in FirstWords :
              mem_in' = [id |-> issued' + 1, kind |-> kind, rnw |-> rnw,
                         cache |-> (kind = "fetch"), idx |-> idx]
        BY <3>2 DEF Next, Cpu
      <4>2. kind \in AllKinds
        BY MuxAssumption
      <4>3. idx \in 0..3
        BY FirstWordsAssumption
      <4>4. issued' + 1 \in Nat
        BY <1>3, NextNat
      <4> QED BY <4>1, <4>2, <4>3, <4>4 DEF Op
    <3> QED BY <3>1, <3>2
  <2> QED BY <2>1, <2>2
<1>6. /\ reset' \in BOOLEAN /\ reset_cnt' \in 0..ResetHold /\ reset_int' \in BOOLEAN
      /\ dma_ram_req' \in BOOLEAN /\ dma_ram_rnw' \in BOOLEAN
      /\ peek_req' \in BOOLEAN /\ peek_busy' \in BOOLEAN /\ peek_valid' \in BOOLEAN
  <2>1. reset_cnt' \in 0..ResetHold /\ reset_int' \in BOOLEAN
    <3>1. reset_cnt \in 0..ResetHold /\ reset_int \in BOOLEAN /\ ResetHold \in Nat \ {0}
      BY MemAssumption DEF TypeOK, ArbTypeOK
    <3>2. ResetClk
      BY DEF Next, Hardware
    <3>3. CASE reset
      BY <3>1, <3>2, <3>3 DEF ResetClk
    <3>4. CASE ~reset /\ reset_cnt = 0
      BY <3>1, <3>2, <3>4 DEF ResetClk
    <3>5. CASE ~reset /\ reset_cnt # 0
      <4>1. /\ reset_cnt' = IF reset_cnt = ResetHold THEN 0 ELSE reset_cnt + 1
            /\ reset_int' \in BOOLEAN
        BY <3>2, <3>5 DEF ResetClk
      <4> QED BY <3>1, <4>1
    <3> QED BY <3>3, <3>4, <3>5
  <2>2. /\ reset' \in BOOLEAN /\ peek_req' \in BOOLEAN
        /\ dma_ram_req' \in BOOLEAN /\ dma_ram_rnw' \in BOOLEAN
    BY MemAssumption DEF Next, Host, DmaEngine
  <2>3. peek_busy' \in BOOLEAN /\ peek_valid' \in BOOLEAN
    BY DEF Next, Hardware, PeekClk, TypeOK, ArbTypeOK
  <2> QED BY <2>1, <2>2, <2>3
<1>7. /\ ramarb_busy' \in BOOLEAN /\ ramarb_dma' \in BOOLEAN /\ ramarb_dmard' \in BOOLEAN
      /\ cpu_pend' \in BOOLEAN /\ pend' \in Op
  BY NullOpType DEF Next, Hardware, ArbClk, PendClk, TypeOK, ArbTypeOK, MuxTypeOK, dma_grant
<1> QED BY <1>1, <1>2, <1>3, <1>4, <1>5, <1>6, <1>7 DEF TypeOK, ArbTypeOK, MuxTypeOK, MuxOwnTypeOK

\* The IOP memory system keeps its state in its types.
THEOREM TypeCorrect == Spec => []TypeOK
<1>1. Init => TypeOK
  <2> SUFFICES ASSUME Init PROVE TypeOK
    OBVIOUS
  <2>1. RamTypeOK
    BY WordZero DEF Init, RamInit, RamTypeOK, RamState
  <2>2. MuxTypeOK
    <3>1. /\ fifo \in Seq(Op) /\ fifo_in \in Seq(Op)
          /\ mux_state \in MuxState /\ ext_state \in ExtState
      BY DEF Init, MuxInit, MuxState, ExtState
    <3>2. waitcnt \in 0..MaxWait /\ ext_waitcnt \in 0..MaxWait /\ ext_reccount \in 0..MaxWait
      BY CountDown, MuxAssumption DEF Init, MuxInit
    <3> QED BY <3>1, <3>2, NullOpType, WordZero DEF Init, MuxInit, MuxTypeOK
  <2>3. ArbTypeOK
    <3>1. reset_cnt \in 0..ResetHold
      BY CountDown, MemAssumption DEF Init
    <3> QED BY <3>1, NullOpType DEF Init, ArbTypeOK, Owner
  <2> QED BY <2>1, <2>2, <2>3 DEF TypeOK
<1>2. TypeOK /\ UNCHANGED vars => TypeOK'
  BY DEF vars, ramVars, muxVars, muxDispatchVars, muxQueueVars, extVars, resetVars,
         arbVars, peekVars, historyVars, TypeOK, RamTypeOK, MuxTypeOK, ArbTypeOK
<1> QED BY <1>1, <1>2, TypeStep, PTL DEF Spec

-----------------------------------------------------------------------------
(* The RAM port, for a host that peeks in turn.  Inductive: PortInv.          *)

\* A peek starts and ends within the host's reset.
LEMMA PeekInResetStep ==
  ASSUME TypeOK, PortInv, Next, ~PeekAnyTime
  PROVE  PeekInReset'
<1>1. /\ peek_req' => reset' /\ reset
      /\ reset /\ ~reset' => ~(peek_req \/ peek_busy \/ peek_valid)
  BY DEF Next, Host, PeekPending
<1>2. peek_busy' \/ peek_valid' => peek_req \/ peek_busy
  BY DEF Next, Hardware, PeekClk, TypeOK, ArbTypeOK
<1>3. peek_req \/ peek_busy => reset
  BY DEF PortInv, PeekInReset
<1>4. reset => reset_int'
  BY DEF Next, Hardware, ResetClk
<1> QED BY <1>1, <1>2, <1>3, <1>4 DEF PeekInReset

\* In the cycle of the host's reset the arbiter is cleared.
LEMMA ArbiterReset ==
  ASSUME Next, reset
  PROVE  ~ramarb_busy' /\ ~ramarb_dma' /\ ~ramarb_dmard' /\ ~cpu_pend' /\ reset_int'
  BY DEF Next, Hardware, ArbClk, PendClk, ResetClk

\* While the stretched reset lasts and no peek is pending, the RAM is held idle.
LEMMA ArbiterHeld ==
  ASSUME TypeOK, PortInv, Next, ~reset, reset_int
  PROVE  /\ ~ramarb_busy' /\ ~ramarb_dma' /\ ~ramarb_dmard' /\ ~cpu_pend'
         /\ ram_state' = "IDLE" /\ ~ram_done' /\ ram_owner' = "none"
<1>1. ram_reset /\ ~RamTakes
  BY DEF ram_reset, RamTakes, PortInv, PeekInReset
<1>2. ram_state' = "IDLE" /\ ~ram_done'
  BY <1>1 DEF Next, Hardware, RamClk, RamReset
<1>3. ram_owner' = "none"
  BY <1>1 DEF Next, History
<1>4. ~ramarb_busy /\ ~cpu_pend /\ ~ramarb_dma /\ ~ramarb_dmard
  BY DEF PortInv, ArbiterTracksRam
<1>5. ~ramarb_busy' /\ ~ramarb_dma' /\ ~ramarb_dmard'
  BY <1>4 DEF Next, Hardware, ArbClk, peek_mode
<1>6. ~cpu_pend'
  BY <1>4 DEF Next, Hardware, PendClk, peek_mode
<1> QED BY <1>2, <1>3, <1>5, <1>6

\* A busy port: no request is put on it, and the RAM works or has just ended.
LEMMA ArbiterBusy ==
  ASSUME TypeOK, PortInv, Next, ~reset, ~reset_int, ramarb_busy
  PROVE  /\ ~ram_ena_m /\ ~dma_grant /\ ~cpu_issue /\ ~RamTakes
         /\ ram_done => /\ ~ramarb_busy' /\ ~ramarb_dma' /\ ~ramarb_dmard'
                        /\ ram_state' = "IDLE" /\ ~ram_done' /\ ram_owner' = "none"
         /\ ~ram_done => /\ UNCHANGED <<ramarb_busy, ramarb_dma, ramarb_dmard, ram_owner>>
                         /\ ram_done' <=> ram_state' = "IDLE"
<1>1. ~ram_ena_m /\ ~dma_grant /\ ~cpu_issue /\ ~RamTakes
  BY DEF ram_ena_m, cpu_issue, dma_grant, peek_mode, RamTakes
<1>2. ram_done <=> ram_state = "IDLE"
  BY DEF PortInv, ArbiterTracksRam
<1>3. ~ram_reset
  BY DEF ram_reset
<1>4. CASE ram_done
  <2>1. ~ramarb_busy' /\ ~ramarb_dma' /\ ~ramarb_dmard'
    BY <1>4 DEF Next, Hardware, ArbClk
  <2>2. ram_state' = "IDLE" /\ ~ram_done'
    BY <1>1, <1>2, <1>3, <1>4
    DEF Next, Hardware, RamClk, RamIdle, RamWriteAck, RamRowRead, RamEmit
  <2>3. ram_owner' = "none"
    BY <1>1, <1>2, <1>4 DEF Next, History
  <2> QED BY <1>1, <1>4, <2>1, <2>2, <2>3
<1>5. CASE ~ram_done
  <2>1. UNCHANGED <<ramarb_busy, ramarb_dma, ramarb_dmard>>
    BY <1>1, <1>5 DEF Next, Hardware, ArbClk
  <2>2. ram_done' <=> ram_state' = "IDLE"
    BY <1>1, <1>2, <1>3, <1>5
    DEF Next, Hardware, RamClk, RamIdle, RamTakeWrite, RamTakeRead, RamWriteAck, RamRowRead, RamEmit
  <2>3. ram_owner' = ram_owner
    BY <1>1, <1>2, <1>3, <1>5 DEF Next, History
  <2> QED BY <1>1, <1>5, <2>1, <2>2, <2>3
<1> QED BY <1>4, <1>5

\* A free port: a request on it is taken by the RAM in the same cycle.
LEMMA ArbiterFree ==
  ASSUME TypeOK, PortInv, Next, ~reset, ~reset_int, ~ramarb_busy
  PROVE  /\ RamTakes <=> ram_ena_m
         /\ ram_ena_m <=> dma_grant \/ ram_ena \/ cpu_pend
         /\ ram_ena_m => /\ ramarb_busy'
                         /\ ramarb_dma' = dma_grant
                         /\ ramarb_dmard' = (dma_grant /\ dma_ram_rnw)
                         /\ ram_owner' = CurrentOwner
                         /\ ram_state' # "IDLE" /\ ~ram_done'
         /\ ~ram_ena_m => /\ UNCHANGED <<ramarb_busy, ramarb_dma, ramarb_dmard>>
                          /\ ram_state' = "IDLE" /\ ~ram_done' /\ ram_owner' = "none"
<1>1. ram_state = "IDLE" /\ ~ram_done /\ ram_owner = "none"
  BY DEF PortInv, ArbiterTracksRam
<1>2. ~ram_reset
  BY DEF ram_reset
<1>3. RamTakes <=> ram_ena_m
  BY <1>1, <1>2 DEF RamTakes
<1>4. ram_ena_m <=> dma_grant \/ ram_ena \/ cpu_pend
  BY DEF ram_ena_m, cpu_issue, peek_mode
<1>5. CASE ram_ena_m
  <2>1. /\ ramarb_busy' /\ ramarb_dma' = dma_grant
        /\ ramarb_dmard' = (dma_grant /\ dma_ram_rnw)
    BY <1>1, <1>5 DEF Next, Hardware, ArbClk, peek_mode
  <2>2. ram_owner' = CurrentOwner
    BY <1>3, <1>5 DEF Next, History
  <2>3. ram_state' # "IDLE" /\ ~ram_done'
    BY <1>1, <1>2, <1>5
    DEF Next, Hardware, RamClk, RamTakeWrite, RamTakeRead, RamWriteAck, RamRowRead, RamEmit
  <2> QED BY <1>3, <1>4, <1>5, <2>1, <2>2, <2>3
<1>6. CASE ~ram_ena_m
  <2>1. UNCHANGED <<ramarb_busy, ramarb_dma, ramarb_dmard>>
    BY <1>1, <1>6 DEF Next, Hardware, ArbClk
  <2>2. ram_owner' = "none"
    BY <1>1, <1>3, <1>6 DEF Next, History
  <2>3. ram_state' = "IDLE" /\ ~ram_done'
    BY <1>1, <1>2, <1>6
    DEF Next, Hardware, RamClk, RamIdle, RamWriteAck, RamRowRead, RamEmit
  <2> QED BY <1>3, <1>4, <1>6, <2>1, <2>2, <2>3
<1> QED BY <1>5, <1>6

LEMMA ArbiterStep ==
  ASSUME TypeOK, PortInv, Next
  PROVE  ArbiterTracksRam'
<1>1. CASE reset
  BY <1>1, ArbiterReset DEF ArbiterTracksRam
<1>2. CASE ~reset /\ reset_int
  BY <1>2, ArbiterHeld DEF ArbiterTracksRam
<1>3. CASE ~reset /\ ~reset_int
  <2>1. ~reset_int'
    BY <1>3 DEF Next, Hardware, ResetClk
  <2>2. CASE ramarb_busy
    <3>1. CASE ram_done
      BY <1>3, <2>1, <2>2, <3>1, ArbiterBusy DEF ArbiterTracksRam
    <3>2. CASE ~ram_done
      <4>1. /\ ramarb_busy' /\ ramarb_dma' = ramarb_dma /\ ramarb_dmard' = ramarb_dmard
            /\ ram_owner' = ram_owner /\ (ram_done' <=> ram_state' = "IDLE")
        BY <1>3, <2>2, <3>2, ArbiterBusy
      <4>2. /\ ram_owner \in {"cpu", "dmawr", "dmard"}
            /\ ramarb_dma <=> ram_owner \in {"dmawr", "dmard"}
            /\ ramarb_dmard <=> ram_owner = "dmard"
        BY <1>3, <2>2 DEF PortInv, ArbiterTracksRam
      <4> QED BY <2>1, <4>1, <4>2 DEF ArbiterTracksRam
    <3> QED BY <3>1, <3>2
  <2>3. CASE ~ramarb_busy
    <3>1. CASE ram_ena_m
      <4>1. CurrentOwner = IF dma_grant THEN IF dma_ram_rnw THEN "dmard" ELSE "dmawr" ELSE "cpu"
        BY <1>3 DEF CurrentOwner, peek_mode
      <4>2. dma_grant \in BOOLEAN /\ dma_ram_rnw \in BOOLEAN
        BY DEF dma_grant, TypeOK, ArbTypeOK
      <4> QED BY <1>3, <2>1, <2>3, <3>1, <4>1, <4>2, ArbiterFree DEF ArbiterTracksRam
    <3>2. CASE ~ram_ena_m
      BY <1>3, <2>1, <2>3, <3>2, ArbiterFree DEF PortInv, ArbiterTracksRam
    <3> QED BY <3>1, <3>2
  <2> QED BY <2>2, <2>3
<1> QED BY <1>1, <1>2, <1>3

\* The arbiter's registers track the RAM, whatever the CPU and the DMA engine ask
\* for and however often the host resets the IOP.
THEOREM PortInvariant ==
  ASSUME ~PeekAnyTime
  PROVE  Spec => []PortInv
<1>1. Init => PortInv
  BY DEF Init, RamInit, PortInv, PeekInReset, ArbiterTracksRam
<1>2. TypeOK /\ PortInv /\ [Next]_vars => PortInv'
  <2>1. TypeOK /\ PortInv /\ Next => PortInv'
    BY PeekInResetStep, ArbiterStep DEF PortInv
  <2>2. PortInv /\ UNCHANGED vars => PortInv'
    BY DEF PortInv, PeekInReset, ArbiterTracksRam, vars, ramVars, resetVars, arbVars,
           peekVars, historyVars
  <2> QED BY <2>1, <2>2
<1> QED BY <1>1, <1>2, TypeCorrect, PTL DEF Spec

\* Hence iop_ram samples every request put on its port while the IOP runs.
THEOREM EveryRequestServed ==
  ASSUME ~PeekAnyTime
  PROVE  Spec => []NoRequestDropped
<1>1. PortInv => NoRequestDropped
  BY DEF PortInv, ArbiterTracksRam, NoRequestDropped, Running, ram_ena_m, cpu_issue,
         dma_grant, peek_mode
<1> QED BY <1>1, PortInvariant, PTL

\* Hence a completion reaches the unit whose access it ends, and no other.
THEOREM CompletionsRouted ==
  ASSUME ~PeekAnyTime
  PROVE  Spec => []OwnCompletions
<1>1. PortInv => OwnCompletions
  <2> SUFFICES ASSUME PortInv, Running
               PROVE  /\ ram_done_mux <=> ram_done /\ ram_owner = "cpu"
                      /\ dma_ram_rvalid <=> ram_done /\ ram_owner = "dmard"
    BY DEF OwnCompletions
  <2>1. CASE ramarb_busy
    <3>1. ~dma_grant
      BY <2>1 DEF dma_grant
    <3>2. /\ ram_owner \in {"cpu", "dmawr", "dmard"}
          /\ ramarb_dma <=> ram_owner \in {"dmawr", "dmard"}
          /\ ramarb_dmard <=> ram_owner = "dmard"
      BY <2>1 DEF PortInv, ArbiterTracksRam, Running
    <3> QED BY <3>1, <3>2 DEF ram_done_mux, dma_ram_rvalid
  <2>2. CASE ~ramarb_busy
    BY <2>2 DEF PortInv, ArbiterTracksRam, Running, ram_done_mux, dma_ram_rvalid
  <2> QED BY <2>1, <2>2
<1> QED BY <1>1, PortInvariant, PTL

\* The contract the DMA engine's model relies on: every clock edge of the arbiter
\* is a step of IopPort.
THEOREM PortImplemented ==
  ASSUME ~PeekAnyTime
  PROVE  Spec => PortContract
<1> DEFINE Step == DmaPort!PortClk(reset, dma_ram_req, dma_ram_rnw, dma_grant, dma_ram_rvalid)
<1>1. Init => DmaPort!PortInit
  BY DEF Init, DmaPort!PortInit, PortOf
<1>2. TypeOK /\ PortInv /\ Next => Step
  <2> SUFFICES ASSUME TypeOK, PortInv, Next PROVE Step
    OBVIOUS
  <2> USE DEF DmaPort!PortClk
  <2>1. CASE reset
    <3>1. PortOf' = "free"
      BY <2>1, ArbiterReset DEF PortOf
    <3>2. dma_ram_rvalid => PortOf = "dmard"
      BY DEF PortInv, ArbiterTracksRam, PortOf, dma_ram_rvalid
    <3> QED BY <2>1, <3>1, <3>2 DEF DmaPort!PortReset
  <2>2. CASE ~reset /\ reset_int
    <3>1. ~ramarb_busy /\ ~ramarb_dmard /\ ~dma_grant /\ ~ramarb_busy'
      BY <2>2, ArbiterHeld DEF PortInv, ArbiterTracksRam, dma_grant
    <3> QED BY <2>2, <3>1 DEF DmaPort!PortOther, PortOf, dma_ram_rvalid
  <2>3. CASE ~reset /\ ~reset_int /\ ramarb_busy
    <3>1. PortOf # "free" /\ ~dma_grant
      BY <2>3, ArbiterBusy DEF PortOf
    <3>2. ramarb_dmard <=> PortOf = "dmard"
      BY <2>3 DEF PortOf
    <3>3. CASE ram_done
      <4>1. PortOf' = "free"
        BY <2>3, <3>3, ArbiterBusy DEF PortOf
      <4> QED BY <2>3, <3>1, <3>2, <3>3, <4>1 DEF DmaPort!PortFinish, dma_ram_rvalid
    <3>4. CASE ~ram_done
      <4>1. PortOf' = PortOf
        BY <2>3, <3>4, ArbiterBusy DEF PortOf
      <4> QED BY <2>3, <3>1, <3>4, <4>1 DEF DmaPort!PortServe, dma_ram_rvalid
    <3> QED BY <3>3, <3>4
  <2>4. CASE ~reset /\ ~reset_int /\ ~ramarb_busy
    <3>1. PortOf = "free" /\ ~dma_ram_rvalid
      BY <2>4 DEF PortOf, PortInv, ArbiterTracksRam, dma_ram_rvalid
    <3>2. CASE dma_grant
      <4>1. PortOf' = IF dma_ram_rnw THEN "dmard" ELSE "dmawr"
        BY <2>4, <3>2, ArbiterFree DEF PortOf, TypeOK, ArbTypeOK
      <4>2. dma_ram_req
        BY <3>2 DEF dma_grant
      <4> QED BY <2>4, <3>1, <3>2, <4>1, <4>2 DEF DmaPort!PortGrant
    <3>3. CASE ~dma_grant
      <4>1. PortOf' \in {"free", "cpu"}
        <5>1. ~ramarb_dma /\ ~ramarb_dmard
          BY <2>4 DEF PortInv, ArbiterTracksRam
        <5>2. ~ramarb_dma' /\ ~ramarb_dmard'
          <6>1. dma_grant = FALSE
            BY <3>3 DEF dma_grant
          <6>2. CASE ram_ena_m
            BY <2>4, <6>1, <6>2, ArbiterFree
          <6>3. CASE ~ram_ena_m
            BY <2>4, <5>1, <6>3, ArbiterFree
          <6> QED BY <6>2, <6>3
        <5> QED BY <5>2 DEF PortOf
      <4> QED BY <2>4, <3>1, <3>3, <4>1 DEF DmaPort!PortOther
    <3> QED BY <3>2, <3>3
  <2> QED BY <2>1, <2>2, <2>3, <2>4
<1>3. TypeOK /\ PortInv /\ [Next]_vars => [Step]_vars
  BY <1>2
<1> HIDE DEF Step
<1>4. Spec => DmaPort!PortInit /\ [][Step]_vars
  BY <1>1, <1>3, TypeCorrect, PortInvariant, PTL DEF Spec
<1> QED BY <1>4 DEF PortContract, Step

-----------------------------------------------------------------------------
(* The CPU's access, when the host resets the IOP once.  Inductive: MuxInv.   *)

\* An access of the CPU is on the request wires, held back, or in the RAM.
InFlight == ram_ena \/ cpu_pend \/ ram_owner = "cpu"

\* The mux believes an access outstanding.
Expecting == readram \/ writeram \/ mux_state = "READBIOS"

\* An access moves from the wires to the hold register or the RAM, and leaves the
\* RAM with its completion.
LEMMA AccessMoves ==
  ASSUME TypeOK, PortInv, MuxInv, Next, Running
  PROVE  /\ cpu_pend' \/ ram_owner' = "cpu" <=> InFlight /\ ~ram_done_mux
         /\ ~(cpu_pend' /\ ram_owner' = "cpu")
<1>1. ~reset /\ ~reset_int
  BY DEF Running
<1>2. /\ ~(ram_ena /\ cpu_pend) /\ ~(ram_ena /\ ram_owner = "cpu")
      /\ ~(cpu_pend /\ ram_owner = "cpu")
  BY DEF MuxInv, OneCpuAccess
<1>3. CASE ramarb_busy
  <2>1. cpu_pend' <=> ram_ena \/ cpu_pend
    BY <1>1, <1>3 DEF Next, Hardware, PendClk, peek_mode
  <2>2. /\ ram_owner \in {"cpu", "dmawr", "dmard"}
        /\ ramarb_dma <=> ram_owner \in {"dmawr", "dmard"}
    BY <1>1, <1>3 DEF PortInv, ArbiterTracksRam
  <2>3. ram_done_mux <=> ram_done /\ ram_owner = "cpu"
    BY <1>1, <1>3, <2>2, ArbiterBusy DEF ram_done_mux
  <2>4. ram_owner' = "cpu" <=> ram_owner = "cpu" /\ ~ram_done
    BY <1>1, <1>3, ArbiterBusy
  <2> QED BY <1>2, <2>1, <2>3, <2>4 DEF InFlight
<1>4. CASE ~ramarb_busy
  <2>1. ~cpu_pend'
    BY <1>1, <1>4 DEF Next, Hardware, PendClk, peek_mode
  <2>2. ram_owner = "none" /\ ~ram_done /\ ~ram_done_mux
    BY <1>1, <1>4 DEF PortInv, ArbiterTracksRam, ram_done_mux
  <2>3. ram_owner' = "cpu" <=> ram_ena \/ cpu_pend
    <3>1. dma_grant => ~ram_ena /\ ~cpu_pend
      BY DEF dma_grant
    <3>2. CurrentOwner = "cpu" <=> ~dma_grant
      BY <1>1 DEF CurrentOwner, peek_mode
    <3>3. CASE ram_ena_m
      <4>1. ram_owner' = CurrentOwner /\ (dma_grant \/ ram_ena \/ cpu_pend)
        BY <1>1, <1>4, <3>3, ArbiterFree
      <4> QED BY <3>1, <3>2, <4>1
    <3>4. CASE ~ram_ena_m
      BY <1>1, <1>4, <3>4, ArbiterFree
    <3> QED BY <3>3, <3>4
  <2> QED BY <2>1, <2>2, <2>3 DEF InFlight
<1> QED BY <1>3, <1>4

\* The mux puts an access on the wires only when none is outstanding, and keeps
\* its record of the outstanding one exact.
LEMMA MuxKeepsRecord ==
  ASSUME TypeOK, PortInv, MuxInv, Next, Running
  PROVE  /\ ram_ena' => ~InFlight \/ ram_done_mux
         /\ Expecting' <=> ram_ena' \/ (InFlight /\ ~ram_done_mux)
         /\ readram' \/ writeram' => mux_state' = "IDLE"
<1> DEFINE done == ram_done_mux
<1>1. Expecting <=> InFlight
  BY DEF MuxInv, OneCpuAccess, Expecting, InFlight
<1>2. readram \/ writeram => mux_state = "IDLE"
  BY DEF MuxInv
<1>3. \/ DispatchIdle(done) \/ Dispatch(done)
      \/ MuxWait(done) \/ MuxRamIssue(done) \/ MuxBios(done) \/ MuxReadEnd(done)
      \/ MuxBus(done) \/ MuxExternal(done)
  BY DEF Next, Hardware, MuxClk, MuxRun, Running
<1> USE DEF Outstanding, RamAnswer, RamAccess, NoRamAccess, Expecting
<1> HIDE DEF done
<1> SUFFICES /\ ram_ena' => ~InFlight \/ done
             /\ Expecting' <=> ram_ena' \/ (InFlight /\ ~done)
             /\ readram' \/ writeram' => mux_state' = "IDLE"
  BY DEF done
<1>4. CASE DispatchIdle(done)
  BY <1>1, <1>4 DEF DispatchIdle
<1>5. CASE Dispatch(done)
  <2>1. mux_state = "IDLE" /\ (~InFlight \/ done)
    BY <1>1, <1>5 DEF Dispatch, Dispatching, RamFree
  <2>2. CASE DispatchFetch
    BY <2>1, <2>2 DEF DispatchFetch
  <2>3. CASE DispatchRamNow
    <3>1. NextOp.rnw \/ ~NextOp.rnw
      OBVIOUS
    <3> QED BY <2>1, <2>3, <3>1 DEF DispatchRamNow
  <2>4. CASE DispatchRamWait
    BY <2>1, <2>4 DEF DispatchRamWait
  <2>5. CASE DispatchBios
    BY <2>1, <2>5 DEF DispatchBios
  <2>6. CASE DispatchBus
    BY <2>1, <2>6 DEF DispatchBus
  <2> QED BY <1>5, <2>2, <2>3, <2>4, <2>5, <2>6 DEF Dispatch
<1>6. CASE MuxWait(done)
  BY <1>1, <1>2, <1>6 DEF MuxWait
<1>7. CASE MuxRamIssue(done)
  BY <1>1, <1>2, <1>7 DEF MuxRamIssue
<1>8. CASE MuxBios(done)
  BY <1>1, <1>2, <1>8 DEF MuxBios
<1>9. CASE MuxReadEnd(done)
  BY <1>1, <1>2, <1>9 DEF MuxReadEnd
<1>10. CASE MuxBus(done)
  BY <1>1, <1>2, <1>10 DEF MuxBus
<1>11. CASE MuxExternal(done)
  BY <1>1, <1>2, <1>11 DEF MuxExternal
<1> QED BY <1>3, <1>4, <1>5, <1>6, <1>7, <1>8, <1>9, <1>10, <1>11

LEMMA MuxInvStep ==
  ASSUME TypeOK, PortInv, MuxInv, Next, ~ResetAgain
  PROVE  MuxInv'
<1>1. reset' => reset
  BY DEF Next, Host
<1>2. CASE reset_int
  <2>1. /\ mux_state' = "IDLE" /\ ~ram_ena' /\ ~readram' /\ ~writeram'
    BY <1>2 DEF Next, Hardware, MuxClk, MuxReset, RamAnswer, Outstanding, MuxInv
  <2>2. CASE reset
    BY <2>1, <2>2, ArbiterReset DEF MuxInv, OneCpuAccess, Running
  <2>3. CASE ~reset
    BY <1>1, <1>2, <2>1, <2>3, ArbiterHeld DEF MuxInv, OneCpuAccess, Running
  <2> QED BY <2>2, <2>3
<1>3. CASE ~reset_int
  <2>1. Running /\ ~reset'
    BY <1>1, <1>3 DEF MuxInv, Running
  <2>2. ~reset_int'
    BY <1>3, <2>1 DEF Next, Hardware, ResetClk, Running
  <2>3. /\ ram_ena' => ~InFlight \/ ram_done_mux
        /\ Expecting' <=> ram_ena' \/ (InFlight /\ ~ram_done_mux)
        /\ readram' \/ writeram' => mux_state' = "IDLE"
    BY <2>1, MuxKeepsRecord
  <2>4. /\ cpu_pend' \/ ram_owner' = "cpu" <=> InFlight /\ ~ram_done_mux
        /\ ~(cpu_pend' /\ ram_owner' = "cpu")
    BY <2>1, AccessMoves
  <2>5. OneCpuAccess'
    <3>1. /\ Expecting' <=> ram_ena' \/ cpu_pend' \/ ram_owner' = "cpu"
          /\ ~(ram_ena' /\ cpu_pend') /\ ~(ram_ena' /\ ram_owner' = "cpu")
      BY <2>3, <2>4
    <3> QED BY <2>4, <3>1 DEF OneCpuAccess, Expecting
  <2> QED BY <2>1, <2>2, <2>3, <2>5 DEF MuxInv
<1> QED BY <1>2, <1>3

\* The mux's record of its access is exact, and its state clean in reset.
LEMMA MuxInvariant ==
  ASSUME ~PeekAnyTime, ~ResetAgain
  PROVE  Spec => []MuxInv
<1>1. Init => MuxInv
  BY DEF Init, MuxInit, RamInit, MuxInv, OneCpuAccess, Running
<1>2. TypeOK /\ PortInv /\ MuxInv /\ [Next]_vars => MuxInv'
  <2>1. TypeOK /\ PortInv /\ MuxInv /\ Next => MuxInv'
    BY MuxInvStep
  <2>2. MuxInv /\ UNCHANGED vars => MuxInv'
    BY DEF MuxInv, OneCpuAccess, Running, vars, muxVars, muxDispatchVars, resetVars,
           arbVars, historyVars
  <2> QED BY <2>1, <2>2
<1> QED BY <1>1, <1>2, TypeCorrect, PortInvariant, PTL DEF Spec

\* Between dispatch and completion an access of the CPU is in exactly one place,
\* and the mux knows of it, whatever the DMA engine does.
THEOREM CpuAccessUnique ==
  ASSUME ~PeekAnyTime, ~ResetAgain
  PROVE  Spec => []OneCpuAccess
<1>1. MuxInv => OneCpuAccess
  BY DEF MuxInv
<1> QED BY <1>1, MuxInvariant, PTL

-----------------------------------------------------------------------------
(* The invariant. *)

\* What the CPU may present: no cached access but a fetch, no fetch and no ROM
\* access but a read.
GoodOp(op) == /\ op \in Op
              /\ op.cache <=> op.kind = "fetch"
              /\ op.kind \in {"fetch", "bios"} => op.rnw

\* The write FIFO holds writes only; writeFifo_busy covers what is in it, and
\* writeFifo_Wr_1 what is on its way into it.
FifoInv ==
  /\ Len(fifo) + Len(fifo_in) <= FifoSize
  /\ fifo # <<>> \/ fifo_in # <<>> => writeFifo_busy
  /\ fifo_in # <<>> => writeFifo_Wr_1 /\ Len(fifo_in) = 1 /\ FallThrough2
  /\ mem_in_request /\ ~mem_in.rnw => ~mem_fifofull

WritesQueued ==
  /\ \A i \in 1..Len(fifo) : GoodOp(fifo[i]) /\ ~fifo[i].rnw
  /\ \A i \in 1..Len(fifo_in) : GoodOp(fifo_in[i]) /\ ~fifo_in[i].rnw
  /\ mem_save_request => GoodOp(mem_save) /\ mem_save.rnw
  /\ mem_in_request => GoodOp(mem_in)

\* The CPU's read is in one place: kept, in the dispatch FSM, in the RAM, or in
\* mem_done_buf; and the CPU waits exactly while there is one.
ReadMux == {"WAITFORRAMREAD", "READBIOS", "WAITING", "BUSREADEXTERNAL", "BUSREADREQUEST", "BUSREAD"}
ReadInMux == mux_state \in ReadMux
ReadOnce ==
  /\ cpu_wait <=> mem_save_request \/ readram \/ mem_done_buf \/ ReadInMux
  /\ mem_save_request => ~readram /\ ~mem_done_buf /\ ~ReadInMux
  /\ mem_done_buf => mux_state = "IDLE" /\ ~readram /\ ~writeram
  /\ mem_in_request => ~cpu_wait \/ MemDone
  /\ cpu_wait /\ ~mem_save_request => fifo = <<>> /\ fifo_in = <<>>

\* The external FSM reads only for a mux that waits for it.
ExtReading == ext_state \in {"EXT_READ_NEXT", "EXT_READ", "EXT_READ_WAIT"}
ExtInv == ExtReading => mux_state = "BUSREADEXTERNAL"

\* The operation dispatched and yet to take effect, if there is one.
OnRam == ram_ena \/ cpu_pend
InWait == mux_state \in {"WAITFORRAMREAD", "WAITFORRAMWRITE"}
OnBus == \/ mux_state \in {"BUSWRITE", "BUSREADREQUEST", "BUSWRITEEXTERNAL"}
         \/ mux_state = "BUSREADEXTERNAL" /\ ~ExtReading
Pending == OnRam \/ InWait \/ OnBus
PendingId == IF cpu_pend THEN pend.id ELSE IF ram_ena \/ InWait THEN ram_rq.id ELSE cur.id
Dispatched == IF Pending THEN performed + 1 ELSE performed

\* Operations are numbered in the order they wait in.
Queued == Len(fifo) + Len(fifo_in)
InOrder ==
  /\ Pending => PendingId = performed + 1
  /\ \A i \in 1..Len(fifo) : fifo[i].id = Dispatched + i
  /\ \A i \in 1..Len(fifo_in) : fifo_in[i].id = Dispatched + Len(fifo) + i
  /\ mem_save_request => mem_save.id = Dispatched + Queued + 1
  /\ mem_in_request => mem_in.id = issued + 1
  /\ issued = Dispatched + Queued + (IF mem_save_request THEN 1 ELSE 0)

\* Nothing of this is left in reset.
Clean ==
  reset_int => /\ fifo = <<>> /\ fifo_in = <<>> /\ ~mem_save_request /\ ~mem_in_request
               /\ ~mem_done_buf /\ ~cpu_wait /\ ext_state = "EXT_IDLE"
               /\ issued = 0 /\ performed = 0

\* A line fill: the words written so far are those from the first to word_idx.
Filling == readram /\ ram_rq.cache
RamReading == ram_state \in {"RD1", "RD2", "EMIT"}
LineInv ==
  /\ cpu_pend => pend = ram_rq
  /\ ram_rq.cache /\ (OnRam \/ InWait) => readram
  /\ Filling => GoodOp(ram_rq) /\ mem_tagvalids = ram_rq.idx..3
  /\ ~reset_int /\ RamReading => (is_cache <=> Filling /\ ram_owner = "cpu")
  /\ Filling /\ OnRam => filled = {}
  /\ Filling /\ ram_owner = "cpu" =>
       \/ ram_state \in {"RD1", "RD2"} /\ word_idx = ram_rq.idx /\ filled = {}
       \/ /\ ram_state = "EMIT" /\ word_idx >= ram_rq.idx
          /\ filled = {i \in 0..3 : ram_rq.idx <= i /\ i < word_idx}
       \/ ram_state = "IDLE" /\ filled = ram_rq.idx..3

FlowInv == Clean /\ FifoInv /\ WritesQueued /\ ReadOnce /\ ExtInv /\ InOrder /\ LineInv

-----------------------------------------------------------------------------
(* The queues.  What a clock edge of a running mux makes of them: an entry *)
(* moves up when the FIFO is read, and a posted write comes last.          *)

Posting == writeFifo_Wr(ram_done_mux)
Reading == writeFifo_Rd(ram_done_mux)
Gone == IF Reading THEN 1 ELSE 0
Come == IF Posting THEN 1 ELSE 0

LEMMA QueueMoves ==
  ASSUME TypeOK, FifoInv, PostWrite(ram_done_mux)
  PROVE  /\ Queued \in Nat /\ Gone \in 0..1 /\ Len(fifo) \in Nat /\ Len(fifo_in) \in 0..1
         /\ Len(fifo') \in Nat /\ Len(fifo_in') \in 0..1
         /\ Gone <= Len(fifo)
         /\ Queued' = (Queued - Gone) + Come
         /\ \A i \in 1..Len(fifo') :
              \/ i + Gone <= Len(fifo) /\ fifo'[i] = fifo[i + Gone]
              \/ /\ i + Gone = Len(fifo) + 1 /\ Len(fifo_in) = 1 /\ fifo'[i] = fifo_in[1]
              \/ Posting /\ i = Queued'  /\ fifo'[i] = mem_in
         /\ Len(fifo_in') = 1 => Posting /\ fifo_in'[1] = mem_in
         /\ Len(fifo_in') = 1 => FallThrough2
<1> DEFINE posted == IF Posting THEN <<mem_in>> ELSE <<>>
           rest   == IF Reading THEN Tail(fifo) ELSE fifo
<1>1. /\ fifo \in Seq(Op) /\ fifo_in \in Seq(Op) /\ mem_in \in Op /\ FallThrough2 \in BOOLEAN
  BY MuxAssumption DEF TypeOK, MuxTypeOK
<1>2. /\ Len(fifo) \in Nat /\ Len(fifo_in) \in Nat
      /\ Len(fifo) = 0 <=> fifo = <<>>
      /\ Len(fifo_in) = 0 <=> fifo_in = <<>>
  BY <1>1, EmptySeq, LenProperties
<1>3. Len(fifo_in) \in 0..1 /\ (fifo_in # <<>> => FallThrough2)
  BY <1>2 DEF FifoInv
<1>4. /\ posted \in Seq(Op) /\ Len(posted) = Come /\ Come \in 0..1
      /\ Posting => Len(posted) = 1 /\ posted[1] = mem_in
  BY <1>1 DEF Come
<1>5. /\ rest \in Seq(Op) /\ Len(rest) = Len(fifo) - Gone /\ Gone \in 0..1 /\ Gone <= Len(fifo)
      /\ \A i \in 1..Len(rest) : rest[i] = fifo[i + Gone]
  <2>0. Reading => fifo # <<>>
    BY DEF Reading, writeFifo_Rd
  <2>1. Gone \in 0..1 /\ Gone <= Len(fifo) /\ (Reading => Gone = 1) /\ (~Reading => Gone = 0)
    BY <1>2, <2>0 DEF Gone
  <2>2. CASE Reading
    <3>1. rest = Tail(fifo)
      BY <2>2
    <3> HIDE DEF rest
    <3>2. /\ Tail(fifo) \in Seq(Op) /\ Len(Tail(fifo)) = Len(fifo) - 1
          /\ \A i \in 1 .. Len(Tail(fifo)) : Tail(fifo)[i] = fifo[i + 1]
      BY <1>1, <2>0, <2>2, HeadTailProperties
    <3>3. rest \in Seq(Op) /\ Len(rest) = Len(fifo) - Gone
      BY <2>1, <2>2, <3>1, <3>2
    <3>4. \A i \in 1..Len(rest) : rest[i] = fifo[i + Gone]
      BY <2>1, <2>2, <3>1, <3>2
    <3> QED BY <2>1, <3>3, <3>4
  <2>3. CASE ~Reading
    <3>1. rest = fifo
      BY <2>3
    <3> HIDE DEF rest
    <3>2. rest \in Seq(Op) /\ Len(rest) = Len(fifo) - Gone
      BY <1>1, <1>2, <2>1, <2>3, <3>1
    <3>3. \A i \in 1..Len(rest) : rest[i] = fifo[i + Gone]
      <4>1. \A i \in 1..Len(fifo) : i + 0 = i
        BY <1>2
      <4> QED BY <2>1, <2>3, <3>1, <4>1
    <3> QED BY <2>1, <3>2, <3>3
  <2> QED BY <2>2, <2>3
<1>6. /\ fifo' = rest \o (IF FallThrough2 THEN fifo_in ELSE posted)
      /\ fifo_in' = IF FallThrough2 THEN posted ELSE <<>>
  BY DEF PostWrite, Posting, Reading
<1> HIDE DEF posted, rest
<1>7. CASE FallThrough2
  <2>1. fifo' = rest \o fifo_in /\ fifo_in' = posted
    BY <1>6, <1>7
  <2>2. /\ Len(fifo') = Len(rest) + Len(fifo_in)
        /\ \A i \in 1 .. Len(rest) + Len(fifo_in) :
             fifo'[i] = IF i <= Len(rest) THEN rest[i] ELSE fifo_in[i - Len(rest)]
    BY <1>1, <1>5, <2>1, ConcatProperties
  <2>3. Queued' = (Queued - Gone) + Come
    BY <1>2, <1>3, <1>4, <1>5, <2>1, <2>2 DEF Queued
  <2>4. ASSUME NEW i \in 1..Len(fifo')
        PROVE  \/ i + Gone <= Len(fifo) /\ fifo'[i] = fifo[i + Gone]
               \/ i + Gone = Len(fifo) + 1 /\ Len(fifo_in) = 1 /\ fifo'[i] = fifo_in[1]
    <3>1. CASE i <= Len(rest)
      BY <1>2, <1>3, <1>5, <2>2, <3>1
    <3>2. CASE ~(i <= Len(rest))
      <4>1. i \in Nat /\ i > Len(rest) /\ i <= Len(rest) + Len(fifo_in) /\ Len(rest) \in Nat
        BY <1>2, <1>3, <1>5, <2>2, <3>2
      <4>2. Len(fifo_in) = 1 /\ i - Len(rest) = 1
        <5>1. \A r \in Nat, n \in 0..1 : i \in Nat /\ i > r /\ i <= r + n => n = 1 /\ i - r = 1
          OBVIOUS
        <5> QED BY <1>3, <4>1, <5>1
      <4>3. i + Gone = Len(fifo) + 1
        BY <1>2, <1>5, <4>1, <4>2
      <4>4. fifo'[i] = fifo_in[i - Len(rest)]
        BY <2>2, <3>2
      <4> QED BY <4>2, <4>3, <4>4
    <3> QED BY <3>1, <3>2
  <2>5. Len(fifo_in') = 1 => Posting /\ fifo_in'[1] = mem_in
    BY <1>4, <2>1 DEF Come
  <2>6. Queued \in Nat /\ Len(fifo') \in Nat /\ Len(fifo_in') \in 0..1
    BY <1>2, <1>3, <1>4, <1>5, <2>1, <2>2 DEF Queued
  <2> QED BY <1>2, <1>3, <1>5, <1>7, <2>3, <2>4, <2>5, <2>6
<1>8. CASE ~FallThrough2
  <2>1. fifo' = rest \o posted /\ fifo_in' = <<>> /\ Len(fifo_in') = 0 /\ Len(fifo_in) = 0
    BY <1>2, <1>3, <1>6, <1>8
  <2>2. /\ Len(fifo') = Len(rest) + Len(posted)
        /\ \A i \in 1 .. Len(rest) + Len(posted) :
             fifo'[i] = IF i <= Len(rest) THEN rest[i] ELSE posted[i - Len(rest)]
    BY <1>4, <1>5, <2>1, ConcatProperties
  <2>3. Queued' = (Queued - Gone) + Come /\ Queued' = Len(fifo')
    BY <1>2, <1>3, <1>4, <1>5, <2>1, <2>2 DEF Queued
  <2>4. ASSUME NEW i \in 1..Len(fifo')
        PROVE  \/ i + Gone <= Len(fifo) /\ fifo'[i] = fifo[i + Gone]
               \/ Posting /\ i = Queued' /\ fifo'[i] = mem_in
    <3>1. CASE i <= Len(rest)
      BY <1>2, <1>3, <1>5, <2>2, <3>1
    <3>2. CASE ~(i <= Len(rest))
      <4>1. Posting /\ i - Len(rest) = 1 /\ i = Len(fifo')
        BY <1>2, <1>4, <1>5, <2>2, <3>2 DEF Come
      <4> QED BY <1>4, <2>2, <2>3, <3>2, <4>1
    <3> QED BY <3>1, <3>2
  <2>5. Queued \in Nat /\ Len(fifo') \in Nat /\ Len(fifo_in') \in 0..1
    BY <1>2, <1>3, <1>4, <1>5, <2>1, <2>2 DEF Queued
  <2> QED BY <1>2, <1>3, <1>5, <2>1, <2>3, <2>4, <2>5
<1> QED BY <1>1, <1>7, <1>8

LEMMA FifoStep ==
  ASSUME TypeOK, FifoInv, Next
  PROVE  FifoInv'
<1>1. mem_in_request' /\ ~mem_in'.rnw => ~mem_fifofull'
  BY DEF Next, Cpu
<1>2. FifoSize \in Nat /\ FifoReserve \in 0..FifoSize
  BY MuxAssumption
<1>3. CASE reset_int
  <2>1. fifo' = <<>> /\ fifo_in' = <<>>
    BY <1>3 DEF Next, Hardware, MuxClk, MuxReset
  <2> QED BY <1>1, <1>2, <2>1 DEF FifoInv
<1>4. CASE ~reset_int
  <2>1. PostWrite(ram_done_mux)
    BY <1>4 DEF Next, Hardware, MuxClk, MuxRun
  <2>2. TypeOK'
    BY TypeStep
  <2>3. /\ Len(fifo) = 0 <=> fifo = <<>>
        /\ Len(fifo_in) = 0 <=> fifo_in = <<>>
        /\ Len(fifo') = 0 <=> fifo' = <<>>
        /\ Len(fifo_in') = 0 <=> fifo_in' = <<>>
    <3>1. fifo \in Seq(Op) /\ fifo_in \in Seq(Op) /\ fifo' \in Seq(Op) /\ fifo_in' \in Seq(Op)
      BY <2>2 DEF TypeOK, MuxTypeOK
    <3> QED BY <3>1, EmptySeq
  <2>4. /\ Queued \in Nat /\ Gone \in 0..1 /\ Len(fifo) \in Nat /\ Len(fifo_in) \in 0..1
        /\ Len(fifo') \in Nat /\ Len(fifo_in') \in 0..1
        /\ Queued' = (Queued - Gone) + Come
        /\ Len(fifo_in') = 1 => Posting /\ FallThrough2
        /\ Gone <= Len(fifo)
    BY <2>1, QueueMoves
  <2>5. Len(fifo') + Len(fifo_in') <= FifoSize
    <3>1. CASE Posting
      <4>1. Queued < FifoSize - FifoReserve
        BY <1>2, <2>4, <3>1 DEF FifoInv, Posting, writeFifo_Wr, mem_fifofull, Queued
      <4> QED BY <1>2, <2>4, <3>1, <4>1 DEF Come, Queued
    <3>2. CASE ~Posting
      BY <1>2, <2>4, <3>2 DEF Come, Queued, FifoInv
    <3> QED BY <3>1, <3>2
  <2>6. fifo' # <<>> \/ fifo_in' # <<>> => writeFifo_busy'
    <3>1. /\ writeFifo_busy' <=> Posting \/ (writeFifo_busy /\ ~(~writeFifo_Wr_1 /\ fifo = <<>>))
      BY <2>1 DEF PostWrite, Posting
    <3>2. SUFFICES ASSUME ~Posting, fifo' # <<>> \/ fifo_in' # <<>>
                   PROVE  writeFifo_busy /\ (writeFifo_Wr_1 \/ fifo # <<>>)
      BY <3>1
    <3>3. Queued' # 0
      BY <2>3, <2>4, <3>2 DEF Queued
    <3>4. Queued # 0
      <4>1. Queued' = Queued - Gone
        BY <2>4, <3>2 DEF Come
      <4>2. Len(fifo) \in Nat /\ Len(fifo_in) \in Nat /\ Gone \in Nat /\ Queued = Len(fifo) + Len(fifo_in)
        BY <2>4 DEF Queued
      <4> QED BY <2>4, <3>3, <4>1, <4>2
    <3> QED BY <2>3, <2>4, <3>4 DEF Queued, FifoInv
  <2>7. fifo_in' # <<>> => writeFifo_Wr_1' /\ Len(fifo_in') = 1 /\ FallThrough2
    BY <2>1, <2>3, <2>4 DEF PostWrite, Posting
  <2> QED BY <1>1, <2>5, <2>6, <2>7 DEF FifoInv
<1> QED BY <1>3, <1>4

\* The write FIFO never overflows, and writeFifo_busy covers all that is in it or
\* on its way in, however deep it is, whenever the entries show, and whatever the
\* host does: NearFull is raised early enough for a CPU that looks at it only as it
\* presents a write (iop_memorymux.vhd, the unread Full flag).
THEOREM FifoNeverOverflows == Spec => []FifoGuarded
<1>1. Init => FifoInv
  <2> SUFFICES ASSUME Init PROVE FifoInv
    OBVIOUS
  <2>1. fifo = <<>> /\ fifo_in = <<>> /\ ~mem_in_request
    BY DEF Init, MuxInit
  <2> QED BY <2>1, MuxAssumption DEF FifoInv
<1>2. TypeOK /\ FifoInv /\ [Next]_vars => FifoInv'
  <2>1. FifoInv /\ UNCHANGED vars => FifoInv'
    BY DEF FifoInv, vars, muxVars, muxQueueVars, mem_fifofull
  <2> QED BY <2>1, FifoStep
<1>3. FifoInv => FifoGuarded
  BY DEF FifoInv, FifoGuarded
<1> QED BY <1>1, <1>2, <1>3, TypeCorrect, PTL DEF Spec

-----------------------------------------------------------------------------
(* Where the operation that was dispatched is, until it takes effect. *)

LEMMA ExtMoves ==
  ASSUME ExtClk
  PROVE  /\ ExtTakesRead => ExtReading'
         /\ ExtReading' => ExtTakesRead \/ (ExtReading /\ ~ext_done)
         /\ ExtReading /\ ~ext_done => ExtReading'
<1> USE DEF ExtReading, ExtTakesRead, ExtTakesWrite, ext_done
<1>1. CASE ExtIdle
  BY <1>1 DEF ExtIdle
<1>2. CASE ExtTakeWrite
  BY <1>2 DEF ExtTakeWrite
<1>3. CASE ExtTakeRead
  BY <1>3 DEF ExtTakeRead
<1>4. CASE ExtWait
  BY <1>4 DEF ExtWait
<1>5. CASE ExtStrobe
  BY <1>5 DEF ExtStrobe
<1>6. CASE ExtFinish
  BY <1>6 DEF ExtFinish
<1>7. CASE ExtNextByte
  BY <1>7 DEF ExtNextByte
<1> QED BY <1>1, <1>2, <1>3, <1>4, <1>5, <1>6, <1>7 DEF ExtClk

\* The running mux does one thing at an edge.
Fsm(done) == \/ DispatchIdle(done) \/ Dispatch(done)
             \/ MuxWait(done) \/ MuxRamIssue(done) \/ MuxBios(done) \/ MuxReadEnd(done)
             \/ MuxBus(done) \/ MuxExternal(done)

LEMMA RunningStep ==
  ASSUME Next, Running
  PROVE  /\ Fsm(ram_done_mux) /\ ExtClk /\ SaveRead(ram_done_mux) /\ PostWrite(ram_done_mux)
         /\ ~reset_int'
<1>1. ~reset /\ ~reset_int
  BY DEF Running
<1>2. ~reset_int'
  BY <1>1 DEF Next, Hardware, ResetClk
<1>3. MuxRun(ram_done_mux)
  BY <1>1 DEF Next, Hardware, MuxClk
<1> QED BY <1>2, <1>3 DEF MuxRun, Fsm

LEMMA ExtStep ==
  ASSUME Next, Running, ExtInv
  PROVE  ExtInv'
<1>1. Fsm(ram_done_mux) /\ ExtClk
  BY RunningStep
<1>2. SUFFICES ASSUME ExtReading' PROVE mux_state' = "BUSREADEXTERNAL"
  BY DEF ExtInv
<1>3. ExtTakesRead \/ (ExtReading /\ ~ext_done)
  BY <1>1, <1>2, ExtMoves
<1>4. mux_state = "BUSREADEXTERNAL" /\ ~ext_done
  BY <1>3 DEF ExtInv, ExtTakesRead, ext_done
<1> QED BY <1>1, <1>4 DEF Fsm, DispatchIdle, Dispatch, Dispatching, MuxWait, MuxRamIssue, MuxBios,
                          MuxReadEnd, MuxBus, MuxExternal

\* What the RAM takes from the CPU in this cycle.
RamPart == RamTakes /\ CurrentOwner = "cpu"

LEMMA RamMoves ==
  ASSUME TypeOK, PortInv, MuxInv, Next, Running
  PROVE  /\ RamPart => OnRam /\ ~cpu_pend'
         /\ OnRam /\ ~RamPart => cpu_pend' /\ pend' = cpu_rq
         /\ ~OnRam => ~cpu_pend'
         /\ OnRam => cpu_rq.id = PendingId
         /\ ram_ena => cpu_rq = ram_rq
         /\ cpu_pend => cpu_rq = pend
<1>1. ~reset /\ ~reset_int /\ ~peek_mode
  BY DEF Running, peek_mode
<1>2. ~(ram_ena /\ cpu_pend)
  BY DEF MuxInv, OneCpuAccess
<1>3. /\ OnRam => cpu_rq.id = PendingId
      /\ ram_ena => cpu_rq = ram_rq
      /\ cpu_pend => cpu_rq = pend
  BY <1>2 DEF cpu_rq, PendingId, OnRam
<1>4. PendClk
  BY DEF Next, Hardware
<1>5. CASE ramarb_busy
  <2>1. ~RamTakes
    BY <1>1, <1>5, ArbiterBusy
  <2>2. (OnRam => cpu_pend' /\ pend' = cpu_rq) /\ (~OnRam => ~cpu_pend')
    BY <1>1, <1>2, <1>3, <1>4, <1>5 DEF PendClk, OnRam
  <2> QED BY <1>3, <2>1, <2>2 DEF RamPart
<1>6. CASE ~ramarb_busy
  <2>1. ~cpu_pend'
    BY <1>1, <1>4, <1>6 DEF PendClk
  <2>2. /\ RamTakes <=> dma_grant \/ ram_ena \/ cpu_pend
        /\ dma_grant => ~OnRam
    BY <1>1, <1>6, ArbiterFree DEF dma_grant, OnRam
  <2>3. CurrentOwner = "cpu" <=> ~dma_grant
    BY <1>1 DEF CurrentOwner
  <2> QED BY <1>3, <2>1, <2>2, <2>3 DEF RamPart, OnRam
<1> QED BY <1>5, <1>6

\* While the access is on its way to the RAM the mux waits, in IDLE or READBIOS.
LEMMA MuxWaitsForRam ==
  ASSUME TypeOK, PortInv, MuxInv, Next, Running
  PROVE  /\ ram_done_mux => ~OnRam
         /\ OnRam \/ ram_owner = "cpu" <=> Expecting
         /\ OnRam => (mux_state \in {"IDLE", "READBIOS"} /\ ~RamFree(ram_done_mux)) \/ mux_state = "READBIOS"
<1>1. ram_done_mux => ram_owner = "cpu"
  <2>1. ram_done_mux => ~dma_grant /\ ~ramarb_dma /\ ram_done
    BY DEF ram_done_mux
  <2>2. ram_done => ramarb_busy
    BY DEF PortInv, ArbiterTracksRam, Running
  <2>3. ramarb_busy => ram_owner \in {"cpu", "dmawr", "dmard"} /\ (ramarb_dma <=> ram_owner \in {"dmawr", "dmard"})
    BY DEF PortInv, ArbiterTracksRam, Running
  <2> QED BY <2>1, <2>2, <2>3
<1>2. /\ readram \/ writeram \/ mux_state = "READBIOS" <=> ram_ena \/ cpu_pend \/ ram_owner = "cpu"
      /\ ~(ram_ena /\ ram_owner = "cpu") /\ ~(cpu_pend /\ ram_owner = "cpu")
      /\ readram \/ writeram => mux_state = "IDLE"
  BY DEF MuxInv, OneCpuAccess
<1> QED BY <1>1, <1>2 DEF OnRam, Expecting, RamFree

BusPart == mux_state \in {"BUSWRITE", "BUSREADREQUEST"}
ExtPart == ExtTakesWrite \/ ExtTakesRead

\* An operation is dispatched only when the one before it took effect, and then it
\* is pending; a pending one stays where it is, moves on, or takes effect.
LEMMA PendingMoves ==
  ASSUME TypeOK, PortInv, MuxInv, ExtInv, Next, Running
  PROVE  /\ Dispatching(ram_done_mux) =>
              ~Pending /\ Performing = {} /\ Pending' /\ PendingId' = NextOp.id
         /\ ~Dispatching(ram_done_mux) /\ Pending =>
              \/ Performing = {} /\ Pending' /\ PendingId' = PendingId
              \/ Performing = {PendingId} /\ ~Pending'
         /\ ~Dispatching(ram_done_mux) /\ ~Pending => Performing = {} /\ ~Pending'
<1> DEFINE done == ram_done_mux
<1>1. Fsm(done) /\ ExtClk
  BY RunningStep
<1>2. /\ ExtTakesRead => ExtReading'
      /\ ExtReading' => ExtTakesRead \/ (ExtReading /\ ~ext_done)
      /\ ExtReading => mux_state = "BUSREADEXTERNAL"
      /\ ExtReading /\ ~ext_done => ExtReading'
      /\ ext_done => ExtReading
      /\ ExtTakesRead => ~ExtReading
  BY <1>1, ExtMoves DEF ExtInv, ext_done, ExtReading, ExtTakesRead
<1>3. /\ RamPart => OnRam /\ ~cpu_pend'
      /\ OnRam /\ ~RamPart => cpu_pend' /\ pend' = cpu_rq
      /\ ~OnRam => ~cpu_pend'
      /\ OnRam => cpu_rq.id = PendingId
  BY RamMoves
<1>4. /\ done => ~OnRam
      /\ OnRam => mux_state = "READBIOS" \/ (mux_state = "IDLE" /\ ~Dispatching(done))
  BY MuxWaitsForRam DEF Dispatching
<1>5. /\ Performing = (IF RamPart THEN {cpu_rq.id} ELSE {})
                      \cup (IF BusPart THEN {cur.id} ELSE {})
                      \cup (IF ExtPart THEN {cur.id} ELSE {})
      /\ BusPart => mux_state \in {"BUSWRITE", "BUSREADREQUEST"}
      /\ ExtPart => mux_state \in {"BUSWRITEEXTERNAL", "BUSREADEXTERNAL"}
  BY Zenon DEF Performing, RamPart, BusPart, ExtPart, ExtTakesWrite, ExtTakesRead
<1> HIDE DEF done
<1> USE DEF NoRamAccess, RamAccess
<1>6. CASE OnRam
  <2>1. ~Dispatching(done) /\ ~BusPart /\ ~ExtPart /\ Pending
    BY <1>4, <1>5, <1>6 DEF Dispatching, Pending
  <2>2. ~ram_ena' /\ mux_state' \in {"IDLE", "READBIOS"}
    BY <1>1, <1>4, <1>6, <2>1 DEF Fsm, DispatchIdle, Dispatch, MuxWait, MuxRamIssue, MuxBios,
                             MuxReadEnd, MuxBus, MuxExternal
  <2>3. ~InWait' /\ ~OnBus'
    BY <2>2 DEF InWait, OnBus
  <2>4. Pending' <=> cpu_pend'
    BY <2>2, <2>3 DEF Pending, OnRam
  <2>5. cpu_pend' => PendingId' = pend'.id
    BY DEF PendingId
  <2>6. Performing = IF RamPart THEN {PendingId} ELSE {}
    BY <1>3, <1>5, <1>6, <2>1
  <2> QED BY <1>3, <1>6, <2>1, <2>4, <2>5, <2>6 DEF done
<1>7. CASE ~OnRam
  <2>0. /\ ~RamPart /\ ~cpu_pend' /\ ~cpu_pend /\ ~ram_ena
        /\ Pending <=> InWait \/ OnBus
        /\ PendingId = IF InWait THEN ram_rq.id ELSE cur.id
        /\ Pending' <=> ram_ena' \/ InWait' \/ OnBus'
        /\ PendingId' = IF ram_ena' \/ InWait' THEN ram_rq'.id ELSE cur'.id
        /\ Performing = IF BusPart \/ ExtPart THEN {cur.id} ELSE {}
    BY <1>3, <1>5, <1>7 DEF OnRam, Pending, PendingId
  <2> SUFFICES /\ Dispatching(done) =>
                    ~Pending /\ Performing = {} /\ Pending' /\ PendingId' = NextOp.id
               /\ ~Dispatching(done) /\ Pending =>
                    \/ Performing = {} /\ Pending' /\ PendingId' = PendingId
                    \/ Performing = {PendingId} /\ ~Pending'
               /\ ~Dispatching(done) /\ ~Pending => Performing = {} /\ ~Pending'
    BY DEF done
  <2> USE DEF InWait, OnBus, BusPart, ExtPart, ExtTakesWrite
  <2>1. CASE DispatchIdle(done)
    BY <1>2, <1>5, <2>0, <2>1 DEF DispatchIdle
  <2>2. CASE Dispatch(done)
    <3>1. mux_state = "IDLE" /\ Dispatching(done) /\ cur' = NextOp
      BY <2>2 DEF Dispatch, Dispatching
    <3>2. ~Pending /\ Performing = {} /\ ~ExtReading'
      BY <1>2, <1>5, <2>0, <3>1 DEF ExtTakesRead
    <3>3. CASE DispatchFetch
      BY <2>0, <3>1, <3>2, <3>3 DEF DispatchFetch
    <3>4. CASE DispatchRamNow
      BY <2>0, <3>1, <3>2, <3>4 DEF DispatchRamNow
    <3>5. CASE DispatchRamWait
      BY <2>0, <3>1, <3>2, <3>5 DEF DispatchRamWait
    <3>6. CASE DispatchBios
      BY <2>0, <3>1, <3>2, <3>6 DEF DispatchBios
    <3>7. CASE DispatchBus
      BY <2>0, <3>1, <3>2, <3>7 DEF DispatchBus
    <3> QED BY <2>2, <3>3, <3>4, <3>5, <3>6, <3>7 DEF Dispatch
  <2>3. CASE MuxWait(done)
    BY <1>2, <1>5, <2>0, <2>3 DEF MuxWait, Dispatching
  <2>4. CASE MuxRamIssue(done)
    BY <1>2, <1>5, <2>0, <2>4 DEF MuxRamIssue, Dispatching
  <2>5. CASE MuxBios(done)
    BY <1>2, <1>5, <2>0, <2>5 DEF MuxBios, Dispatching
  <2>6. CASE MuxReadEnd(done)
    BY <1>2, <1>5, <2>0, <2>6 DEF MuxReadEnd, Dispatching
  <2>7. CASE MuxBus(done)
    BY <1>2, <1>5, <2>0, <2>7 DEF MuxBus, Dispatching
  <2>8. CASE MuxExternal(done)
    <3>1. CASE mux_state = "BUSWRITEEXTERNAL"
      BY <1>2, <1>5, <2>0, <2>8, <3>1 DEF MuxExternal, Dispatching, ExtTakesRead
    <3>2. CASE mux_state = "BUSREADEXTERNAL"
      BY <1>2, <1>5, <2>0, <2>8, <3>2 DEF MuxExternal, Dispatching
    <3> QED BY <2>8, <3>1, <3>2 DEF MuxExternal
  <2> QED BY <1>1, <2>1, <2>2, <2>3, <2>4, <2>5, <2>6, <2>7, <2>8 DEF Fsm
<1> QED BY <1>6, <1>7

-----------------------------------------------------------------------------
(* The steps of the invariant. *)

\* Reset leaves nothing behind.
LEMMA FlowReset ==
  ASSUME TypeOK, PortInv, MuxInv, FifoInv, Next, reset_int
  PROVE  FlowInv'
<1>1. /\ fifo' = <<>> /\ fifo_in' = <<>> /\ ~mem_save_request' /\ ~mem_done_buf'
      /\ ~ram_ena' /\ ext_state' = "EXT_IDLE" /\ mux_state' = "IDLE"
      /\ ~readram' /\ ~writeram'
  BY DEF Next, Hardware, MuxClk, MuxReset, RamAnswer, Outstanding, MuxInv
<1>2. ~mem_in_request' /\ ~cpu_wait'
  BY DEF Next, Cpu
<1>3. issued' = 0 /\ performed' = 0
  BY DEF Next, History
<1>4. ~cpu_pend' /\ (~reset_int' => ram_state' = "IDLE")
  <2>1. CASE reset
    BY <2>1, ArbiterReset
  <2>2. CASE ~reset
    BY <2>2, ArbiterHeld
  <2> QED BY <2>1, <2>2
<1>5. Len(fifo') = 0 /\ Len(fifo_in') = 0
  BY <1>1
<1>6. Clean'
  BY <1>1, <1>2, <1>3 DEF Clean
<1>7. FifoInv' /\ ExtInv'
  BY <1>1, FifoStep DEF ExtInv, ExtReading
<1>8. WritesQueued'
  BY <1>1, <1>2, <1>5 DEF WritesQueued
<1>9. ReadOnce'
  BY <1>1, <1>2 DEF ReadOnce, ReadInMux, ReadMux
<1>10. InOrder'
  <2>1. ~Pending'
    BY <1>1, <1>4 DEF Pending, OnRam, InWait, OnBus
  <2> QED BY <1>1, <1>2, <1>3, <1>5, <2>1 DEF InOrder, Dispatched, Queued
<1>11. LineInv'
  BY <1>1, <1>4 DEF LineInv, Filling, RamReading, OnRam, InWait
<1> QED BY <1>6, <1>7, <1>8, <1>9, <1>10, <1>11 DEF FlowInv

\* The CPU presents what GoodOp says.
LEMMA CpuPresents ==
  ASSUME TypeOK, Next
  PROVE  mem_in_request' => /\ GoodOp(mem_in')
                            /\ mem_in'.id = issued' + 1
                            /\ ~cpu_wait' \/ MemDone'
<1>1. SUFFICES ASSUME mem_in_request'
               PROVE  GoodOp(mem_in') /\ mem_in'.id = issued' + 1 /\ (~cpu_wait' \/ MemDone')
  OBVIOUS
<1>2. TypeOK'
  BY TypeStep
<1>3. mem_in' \in Op
  BY <1>2 DEF TypeOK, MuxTypeOK
<1>4. PICK kind \in Kinds, rnw \in BOOLEAN, idx \in FirstWords :
        /\ kind \in {"fetch", "bios"} => rnw
        /\ mem_in' = [id |-> issued' + 1, kind |-> kind, rnw |-> rnw,
                      cache |-> (kind = "fetch"), idx |-> idx]
  BY <1>1 DEF Next, Cpu
<1>5. ~cpu_wait' \/ MemDone'
  BY <1>1 DEF Next, Cpu
<1> QED BY <1>3, <1>4, <1>5 DEF GoodOp

LEMMA QueuedStep ==
  ASSUME TypeOK, FifoInv, WritesQueued, Next, Running
  PROVE  WritesQueued'
<1>1. /\ SaveRead(ram_done_mux) /\ PostWrite(ram_done_mux)
  BY RunningStep
<1>2. mem_in_request' => GoodOp(mem_in')
  BY CpuPresents
<1>3. mem_save_request' => GoodOp(mem_save') /\ mem_save'.rnw
  BY <1>1 DEF WritesQueued, SaveRead
<1>4. /\ Len(fifo) \in Nat /\ Len(fifo_in) \in 0..1 /\ Gone \in 0..1
      /\ \A i \in 1..Len(fifo') :
              \/ i + Gone <= Len(fifo) /\ fifo'[i] = fifo[i + Gone]
              \/ /\ i + Gone = Len(fifo) + 1 /\ Len(fifo_in) = 1 /\ fifo'[i] = fifo_in[1]
              \/ Posting /\ i = Queued' /\ fifo'[i] = mem_in
      /\ Len(fifo') \in Nat /\ Len(fifo_in') \in 0..1
      /\ Len(fifo_in') = 1 => Posting /\ fifo_in'[1] = mem_in
  BY <1>1, QueueMoves
<1>5. Posting => GoodOp(mem_in) /\ ~mem_in.rnw
  BY DEF Posting, writeFifo_Wr, WritesQueued
<1>6. ASSUME NEW i \in 1..Len(fifo')
      PROVE  GoodOp(fifo'[i]) /\ ~fifo'[i].rnw
  <2>1. CASE i + Gone <= Len(fifo) /\ fifo'[i] = fifo[i + Gone]
    <3>1. i + Gone \in 1..Len(fifo)
      BY <1>4, <2>1
    <3> QED BY <2>1, <3>1 DEF WritesQueued
  <2>2. CASE Len(fifo_in) = 1 /\ fifo'[i] = fifo_in[1]
    <3>1. 1 \in 1..Len(fifo_in)
      BY <2>2
    <3> QED BY <2>2, <3>1 DEF WritesQueued
  <2>3. CASE Posting /\ fifo'[i] = mem_in
    BY <1>5, <2>3
  <2> QED BY <1>4, <2>1, <2>2, <2>3
<1>7. ASSUME NEW i \in 1..Len(fifo_in')
      PROVE  GoodOp(fifo_in'[i]) /\ ~fifo_in'[i].rnw
  <2>1. Len(fifo_in') = 1 /\ i = 1
    <3>1. \A n \in 0..1 : \A j \in 1..n : n = 1 /\ j = 1
      OBVIOUS
    <3> QED BY <1>4, <3>1
  <2> QED BY <1>4, <1>5, <2>1
<1> QED BY <1>2, <1>3, <1>6, <1>7 DEF WritesQueued

\* A read kept is not answered, so the CPU presents nothing.
LEMMA SavedAlone ==
  ASSUME ReadOnce, ExtInv, mem_save_request
  PROVE  ~MemDone /\ ~mem_in_request
<1>1. ~readram /\ ~mem_done_buf /\ ~ReadInMux /\ cpu_wait
  BY DEF ReadOnce
<1>2. ext_done => ReadInMux
  BY DEF ext_done, ExtInv, ExtReading, ReadInMux, ReadMux
<1>3. ~MemDone
  BY <1>1, <1>2 DEF MemDone, mem_done
<1> QED BY <1>1, <1>3 DEF ReadOnce

\* What is dispatched: the oldest posted write, or with none waiting the read kept,
\* or with none kept what the CPU presents.
LEMMA NextOpIs ==
  ASSUME TypeOK, FifoInv, WritesQueued, ReadOnce, ExtInv, Dispatching(ram_done_mux)
  PROVE  /\ GoodOp(NextOp)
         /\ Reading <=> fifo # <<>>
         /\ fifo # <<>> => writeFifo_busy /\ NextOp = fifo[1] /\ ~NextOp.rnw /\ Len(fifo) >= 1
         /\ fifo = <<>> => /\ ~writeFifo_busy /\ fifo_in = <<>>
                           /\ mem_save_request <=> ~mem_in_request
                           /\ mem_save_request => NextOp = mem_save /\ NextOp.rnw
                           /\ mem_in_request => NextOp = mem_in
<1>1. mux_state = "IDLE" /\ RamFree(ram_done_mux)
  BY DEF Dispatching
<1>2. Reading <=> fifo # <<>>
  BY <1>1 DEF Reading, writeFifo_Rd
<1>3. CASE fifo # <<>>
  <2>1. fifo \in Seq(Op)
    BY DEF TypeOK, MuxTypeOK
  <2>2. Head(fifo) = fifo[1] /\ Len(fifo) \in Nat /\ Len(fifo) >= 1
    BY <1>3, <2>1, EmptySeq, LenProperties
  <2>3. 1 \in 1..Len(fifo)
    BY <2>2
  <2>4. NextOp = fifo[1]
    BY <1>3, <2>2 DEF NextOp
  <2>5. GoodOp(fifo[1]) /\ ~fifo[1].rnw
    BY <2>3 DEF WritesQueued
  <2>6. writeFifo_busy
    BY <1>3 DEF FifoInv
  <2> QED BY <1>2, <1>3, <2>2, <2>4, <2>5, <2>6
<1>4. CASE fifo = <<>>
  <2>1. mem_request /\ ~writeFifo_busy
    BY <1>4 DEF Dispatching
  <2>2. fifo_in = <<>>
    BY <2>1 DEF FifoInv
  <2>3. NextOp = IF mem_save_request THEN mem_save ELSE mem_in
    BY <1>4 DEF NextOp
  <2>4. mem_save_request <=> ~mem_in_request
    BY <2>1, SavedAlone DEF mem_request
  <2> QED BY <1>2, <1>4, <2>1, <2>2, <2>3, <2>4 DEF WritesQueued
<1> QED BY <1>3, <1>4

\* The CPU presents a read.
NewRead == mem_in_request /\ mem_in.rnw

\* A dispatch puts a read, and only a read, into the mux or on the RAM's wires.
LEMMA DispatchKind ==
  ASSUME GoodOp(NextOp), Dispatch(ram_done_mux)
  PROVE  /\ readram' \/ ReadInMux' <=> NextOp.rnw
         /\ ~mem_done_buf'
<1> USE DEF GoodOp, Outstanding, ReadInMux, ReadMux
<1>1. mux_state = "IDLE" /\ ~mem_done_buf'
  BY DEF Dispatch, Dispatching
<1>2. CASE DispatchFetch
  BY <1>1, <1>2 DEF DispatchFetch
<1>3. CASE DispatchRamNow
  BY <1>1, <1>3 DEF DispatchRamNow
<1>4. CASE DispatchRamWait
  BY <1>1, <1>4 DEF DispatchRamWait
<1>5. CASE DispatchBios
  BY <1>1, <1>5 DEF DispatchBios
<1>6. CASE DispatchBus
  BY <1>1, <1>6 DEF DispatchBus
<1> QED BY <1>1, <1>2, <1>3, <1>4, <1>5, <1>6 DEF Dispatch

\* Where the read is after the edge, and that it is in one place.
LEMMA ReadMoves ==
  ASSUME TypeOK, MuxInv, FifoInv, WritesQueued, ReadOnce, ExtInv, Next, Running
  PROVE  /\ cpu_wait' <=> mem_save_request' \/ readram' \/ mem_done_buf' \/ ReadInMux'
         /\ mem_save_request' => ~readram' /\ ~mem_done_buf' /\ ~ReadInMux'
         /\ mem_done_buf' => mux_state' = "IDLE" /\ ~readram' /\ ~writeram'
<1> DEFINE done == ram_done_mux
<1>1. Fsm(done) /\ SaveRead(done)
  BY RunningStep
<1>2. /\ cpu_wait <=> mem_save_request \/ readram \/ mem_done_buf \/ ReadInMux
      /\ mem_save_request => ~readram /\ ~mem_done_buf /\ ~ReadInMux
      /\ mem_done_buf => mux_state = "IDLE" /\ ~readram /\ ~writeram
      /\ mem_in_request => ~cpu_wait \/ MemDone
      /\ cpu_wait /\ ~mem_save_request => fifo = <<>>
  BY DEF ReadOnce
<1>3. readram \/ writeram => mux_state = "IDLE"
  BY DEF MuxInv
<1>4. /\ MemDone <=> (readram /\ done) \/ ext_done \/ mem_done_buf
      /\ ext_done => mux_state = "BUSREADEXTERNAL"
  BY DEF MemDone, mem_done, ext_done, ExtInv, ExtReading
<1>5. cpu_wait' <=> (cpu_wait /\ ~MemDone) \/ NewRead
  BY DEF Next, Cpu, Running, NewRead
<1>6. mem_save_request' <=> (mem_save_request \/ NewRead)
                            /\ ~(Dispatching(done) /\ ~writeFifo_busy /\ mem_request)
  BY <1>1 DEF SaveRead, NewRead, mem_request
<1>7. Dispatching(done) =>
           /\ GoodOp(NextOp)
           /\ fifo # <<>> => writeFifo_busy /\ ~NextOp.rnw
           /\ fifo = <<>> => /\ ~writeFifo_busy
                             /\ mem_save_request <=> ~mem_in_request
                             /\ mem_save_request => NextOp.rnw
                             /\ mem_in_request => NextOp = mem_in
  BY NextOpIs
<1>8. mem_save_request => ~mem_in_request /\ ~MemDone
  BY SavedAlone
<1>9. NewRead => mem_in_request
  BY DEF NewRead
<1> HIDE DEF done
<1> USE DEF NoRamAccess, RamAccess, RamAnswer, Outstanding, ReadInMux, ReadMux
<1>11. CASE DispatchIdle(done)
  BY <1>2, <1>3, <1>4, <1>5, <1>6, <1>9, <1>11 DEF DispatchIdle
<1>12. CASE Dispatch(done)
  <2>1. Dispatching(done) /\ mux_state = "IDLE"
    BY <1>12 DEF Dispatch, Dispatching
  <2>2. (readram' \/ ReadInMux' <=> NextOp.rnw) /\ ~mem_done_buf'
    BY <1>7, <1>12, <2>1, DispatchKind DEF done
  <2>3. RamFree(done)
    BY <2>1 DEF Dispatching
  <2>4. CASE fifo = <<>>
    <3>1. ~mem_save_request'
      BY <1>6, <1>7, <2>1, <2>4 DEF mem_request
    <3>2. cpu_wait' <=> NextOp.rnw
      BY <1>2, <1>5, <1>7, <1>8, <2>1, <2>4 DEF NewRead
    <3> QED BY <2>2, <3>1, <3>2
  <2>5. CASE fifo # <<>>
    <3>1. ~NextOp.rnw /\ (mem_save_request' <=> mem_save_request \/ NewRead)
      BY <1>6, <1>7, <2>1, <2>5
    <3>2. cpu_wait /\ ~MemDone <=> mem_save_request
      BY <1>2, <1>8, <2>5
    <3> QED BY <1>5, <2>2, <3>1, <3>2
  <2> QED BY <2>4, <2>5
<1>13. CASE MuxWait(done)
  BY <1>2, <1>3, <1>4, <1>5, <1>6, <1>9, <1>13 DEF MuxWait, Dispatching
<1>14. CASE MuxRamIssue(done)
  BY <1>2, <1>3, <1>4, <1>5, <1>6, <1>9, <1>14 DEF MuxRamIssue, Dispatching
<1>15. CASE MuxBios(done)
  BY <1>2, <1>3, <1>4, <1>5, <1>6, <1>9, <1>15 DEF MuxBios, Dispatching
<1>16. CASE MuxReadEnd(done)
  BY <1>2, <1>3, <1>4, <1>5, <1>6, <1>9, <1>16 DEF MuxReadEnd, Dispatching
<1>17. CASE MuxBus(done)
  BY <1>2, <1>3, <1>4, <1>5, <1>6, <1>9, <1>17 DEF MuxBus, Dispatching
<1>18. CASE MuxExternal(done)
  BY <1>2, <1>3, <1>4, <1>5, <1>6, <1>9, <1>18 DEF MuxExternal, Dispatching
<1> QED BY <1>1, <1>11, <1>12, <1>13, <1>14, <1>15, <1>16, <1>17, <1>18 DEF Fsm

LEMMA ReadOnceStep ==
  ASSUME TypeOK, MuxInv, FifoInv, WritesQueued, ReadOnce, ExtInv, Next, Running
  PROVE  ReadOnce'
<1>1. SaveRead(ram_done_mux) /\ PostWrite(ram_done_mux)
  BY RunningStep
<1>2. mem_in_request' => ~cpu_wait' \/ MemDone'
  BY CpuPresents
<1>3. cpu_wait' <=> (cpu_wait /\ ~MemDone) \/ NewRead
  BY DEF Next, Cpu, Running, NewRead
<1>4. SUFFICES ASSUME cpu_wait', ~mem_save_request' PROVE fifo' = <<>> /\ fifo_in' = <<>>
  BY <1>2, ReadMoves DEF ReadOnce
<1>5. ~Posting
  BY <1>3, <1>4 DEF Posting, writeFifo_Wr, NewRead, ReadOnce
<1>6. fifo = <<>> /\ fifo_in = <<>>
  <2>1. CASE mem_save_request \/ NewRead
    BY <1>1, <1>4, <2>1 DEF SaveRead, NewRead, FifoInv
  <2>2. CASE ~mem_save_request /\ ~NewRead
    BY <1>3, <1>4, <2>2 DEF ReadOnce
  <2> QED BY <2>1, <2>2
<1>7. /\ fifo' = (IF Reading THEN Tail(fifo) ELSE fifo) \o (IF FallThrough2 THEN fifo_in ELSE <<>>)
      /\ fifo_in' = <<>>
  BY <1>1, <1>5 DEF PostWrite, Posting, Reading
<1>8. ~Reading
  BY <1>6 DEF Reading, writeFifo_Rd
<1> QED BY <1>6, <1>7, <1>8

Dispatches == IF Dispatching(ram_done_mux) THEN 1 ELSE 0

\* At an edge either the only operation waiting goes, or what goes comes out of
\* the FIFO and what the CPU presents joins the queue.
LEMMA QueueBalance ==
  ASSUME TypeOK, FifoInv, WritesQueued, ReadOnce, ExtInv, Next, Running
  PROVE  /\ mem_save_request => ~mem_in_request
         /\ \/ /\ Dispatching(ram_done_mux) /\ fifo = <<>> /\ fifo_in = <<>>
               /\ ~Posting /\ ~Reading /\ ~mem_save_request'
               /\ mem_save_request <=> ~mem_in_request
            \/ /\ Dispatches = Gone
               /\ Dispatching(ram_done_mux) => fifo # <<>>
               /\ Posting <=> mem_in_request /\ ~mem_in.rnw
               /\ mem_save_request' <=> mem_save_request \/ NewRead
               /\ mem_save' = IF NewRead THEN mem_in ELSE mem_save
<1>1. SaveRead(ram_done_mux)
  BY RunningStep
<1>2. mem_save_request => ~mem_in_request
  BY SavedAlone
<1>3. Reading => Dispatching(ram_done_mux) /\ fifo # <<>>
  BY DEF Reading, writeFifo_Rd, Dispatching
<1>4. CASE Dispatching(ram_done_mux) /\ fifo = <<>>
  <2>1. ~writeFifo_busy /\ fifo_in = <<>> /\ (mem_save_request <=> ~mem_in_request)
    BY <1>4, NextOpIs
  <2>2. ~Posting
    BY <1>4, <2>1 DEF Posting, writeFifo_Wr, Dispatching
  <2>3. ~mem_save_request'
    BY <1>1, <1>4, <2>1 DEF SaveRead, mem_request
  <2> QED BY <1>2, <1>3, <1>4, <2>1, <2>2, <2>3
<1>5. CASE ~Dispatching(ram_done_mux) \/ fifo # <<>>
  <2>1. Dispatching(ram_done_mux) => writeFifo_busy /\ Reading
    BY <1>5, NextOpIs
  <2>2. Dispatches = Gone
    BY <1>3, <2>1 DEF Dispatches, Gone
  <2>3. Posting <=> mem_in_request /\ ~mem_in.rnw
    BY <2>1 DEF Posting, writeFifo_Wr, Dispatching, mem_request
  <2>4. /\ mem_save_request' <=> mem_save_request \/ NewRead
        /\ mem_save' = IF NewRead THEN mem_in ELSE mem_save
    BY <1>1, <2>1 DEF SaveRead, NewRead
  <2> QED BY <1>2, <1>5, <2>2, <2>3, <2>4
<1> QED BY <1>4, <1>5

LEMMA DispatchedMoves ==
  ASSUME TypeOK, PortInv, MuxInv, FifoInv, WritesQueued, ReadOnce, ExtInv, InOrder, Next, Running
  PROVE  /\ performed \in Nat /\ performed' \in Nat /\ Dispatched \in Nat
         /\ Pending' => PendingId' = performed' + 1
         /\ Dispatched' = Dispatched + Dispatches
         /\ Performing # {} => Performing = {performed + 1}
<1>1. performed \in Nat /\ Dispatched \in Nat /\ issued \in Nat
  <2>1. performed \in Nat /\ issued \in Nat
    BY DEF TypeOK, ArbTypeOK
  <2> QED BY <2>1 DEF Dispatched
<1>2. /\ performed' = IF Performing = {} THEN performed ELSE CHOOSE i \in Performing : TRUE
      /\ ~reset_int
  BY DEF Next, History, Running
<1>3. Pending => PendingId = performed + 1
  BY DEF InOrder
<1>4. CASE Dispatching(ram_done_mux)
  <2>1. ~Pending /\ Performing = {} /\ Pending' /\ PendingId' = NextOp.id
    BY <1>4, PendingMoves
  <2>2. Dispatched = performed /\ performed' = performed /\ Dispatched' = performed + 1
    BY <1>2, <2>1 DEF Dispatched
  <2>3. NextOp.id = Dispatched + 1
    <3>1. CASE fifo # <<>>
      <4>1. NextOp = fifo[1] /\ Len(fifo) >= 1 /\ Len(fifo) \in Nat
        <5>1. fifo \in Seq(Op)
          BY DEF TypeOK, MuxTypeOK
        <5> QED BY <1>4, <3>1, <5>1, NextOpIs, LenProperties
      <4>2. 1 \in 1..Len(fifo)
        BY <4>1
      <4> QED BY <4>1, <4>2 DEF InOrder
    <3>2. CASE fifo = <<>>
      <4>1. Queued = 0
        <5>1. fifo_in = <<>>
          BY <1>4, <3>2, NextOpIs
        <5> QED BY <3>2, <5>1 DEF Queued
      <4>2. CASE mem_save_request
        BY <1>1, <1>4, <3>2, <4>1, <4>2, NextOpIs DEF InOrder
      <4>3. CASE ~mem_save_request
        <5>1. mem_in_request /\ NextOp = mem_in
          BY <1>4, <3>2, <4>3, NextOpIs
        <5>2. issued = Dispatched /\ mem_in.id = issued + 1
          BY <1>1, <4>1, <4>3, <5>1 DEF InOrder
        <5> QED BY <5>1, <5>2
      <4> QED BY <4>2, <4>3
    <3> QED BY <3>1, <3>2
  <2> QED BY <1>1, <1>4, <2>1, <2>2, <2>3 DEF Dispatches
<1>5. CASE ~Dispatching(ram_done_mux) /\ Pending
  <2>1. Dispatched = performed + 1
    BY <1>5 DEF Dispatched
  <2>2. CASE Performing = {} /\ Pending' /\ PendingId' = PendingId
    BY <1>1, <1>2, <1>3, <1>5, <2>1, <2>2 DEF Dispatched, Dispatches
  <2>3. CASE Performing = {PendingId} /\ ~Pending'
    <3>1. performed' = performed + 1
      BY <1>2, <1>3, <1>5, <2>3
    <3> QED BY <1>1, <1>3, <1>5, <2>1, <2>3, <3>1 DEF Dispatched, Dispatches
  <2> QED BY <1>5, <2>2, <2>3, PendingMoves
<1>6. CASE ~Dispatching(ram_done_mux) /\ ~Pending
  <2>1. Performing = {} /\ ~Pending'
    BY <1>6, PendingMoves
  <2> QED BY <1>1, <1>2, <1>6, <2>1 DEF Dispatched, Dispatches
<1> QED BY <1>4, <1>5, <1>6

LEMMA InOrderStep ==
  ASSUME TypeOK, PortInv, MuxInv, FifoInv, WritesQueued, ReadOnce, ExtInv, InOrder, Next, Running
  PROVE  InOrder'
<1> DEFINE S == IF mem_save_request THEN 1 ELSE 0
           d == Dispatched + Dispatches
<1>1. PostWrite(ram_done_mux)
  BY RunningStep
<1>2. /\ Queued \in Nat /\ Gone \in 0..1 /\ Len(fifo) \in Nat /\ Len(fifo_in) \in 0..1
      /\ Len(fifo') \in Nat /\ Len(fifo_in') \in 0..1 /\ Gone <= Len(fifo)
      /\ Queued' = (Queued - Gone) + Come
      /\ \A i \in 1..Len(fifo') :
              \/ i + Gone <= Len(fifo) /\ fifo'[i] = fifo[i + Gone]
              \/ /\ i + Gone = Len(fifo) + 1 /\ Len(fifo_in) = 1 /\ fifo'[i] = fifo_in[1]
              \/ Posting /\ i = Queued' /\ fifo'[i] = mem_in
      /\ Len(fifo_in') = 1 => Posting /\ fifo_in'[1] = mem_in
  BY <1>1, QueueMoves
<1>3. /\ performed' \in Nat /\ Dispatched \in Nat
      /\ Pending' => PendingId' = performed' + 1
      /\ Dispatched' = d
  BY DispatchedMoves
<1>4. /\ issued \in Nat
      /\ issued' = IF mem_in_request THEN mem_in.id ELSE issued
      /\ mem_in_request => mem_in.id = issued + 1
      /\ issued = Dispatched + Queued + S
      /\ mem_save_request => mem_save.id = Dispatched + Queued + 1
  BY DEF Next, History, Running, InOrder, TypeOK, ArbTypeOK
<1>5. mem_in_request' => mem_in'.id = issued' + 1
  BY CpuPresents
<1>6. /\ mem_save_request => ~mem_in_request
      /\ Posting => mem_in_request /\ ~mem_in.rnw
      /\ NewRead => mem_in_request /\ mem_in.rnw
  BY SavedAlone DEF Posting, writeFifo_Wr, NewRead
<1>7. mem_in_request => mem_in.id = Dispatched + Queued + 1
  BY <1>2, <1>3, <1>4, <1>6
<1>8. Dispatches \in 0..1 /\ Come \in 0..1 /\ (Come = 1 <=> Posting) /\ d \in Nat
  BY <1>3 DEF Dispatches, Come
<1> HIDE DEF d
<1>9. CASE /\ Dispatching(ram_done_mux) /\ fifo = <<>> /\ fifo_in = <<>>
           /\ ~Posting /\ ~Reading /\ ~mem_save_request'
           /\ mem_save_request <=> ~mem_in_request
  <2>1. Len(fifo) = 0 /\ Len(fifo_in) = 0 /\ Queued = 0 /\ Gone = 0 /\ Come = 0 /\ d = Dispatched + 1
    BY <1>9 DEF Queued, Gone, Come, Dispatches, d
  <2>2. Queued' = 0 /\ Len(fifo') = 0 /\ Len(fifo_in') = 0
    <3>1. Queued' = 0
      BY <1>2, <2>1
    <3>2. Queued' = Len(fifo') + Len(fifo_in')
      BY DEF Queued
    <3> QED BY <1>2, <3>1, <3>2
  <2>3. issued' = d + Queued'
    BY <1>3, <1>4, <1>7, <1>9, <2>1, <2>2
  <2>4. issued' = Dispatched' + Queued' + (IF mem_save_request' THEN 1 ELSE 0)
    BY <1>3, <1>8, <1>9, <2>2, <2>3
  <2> QED BY <1>3, <1>5, <1>9, <2>2, <2>4 DEF InOrder
<1>10. CASE /\ Dispatches = Gone
            /\ Dispatching(ram_done_mux) => fifo # <<>>
            /\ Posting <=> mem_in_request /\ ~mem_in.rnw
            /\ mem_save_request' <=> mem_save_request \/ NewRead
            /\ mem_save' = IF NewRead THEN mem_in ELSE mem_save
  <2>1. d = Dispatched + Gone
    BY <1>10 DEF d
  <2>2. d + Queued' = Dispatched + Queued + Come
    BY <1>2, <1>3, <1>8, <2>1
  <2>3. Posting => mem_in.id = d + Queued'
    BY <1>2, <1>3, <1>6, <1>7, <1>8, <2>2
  <2>4. ASSUME NEW i \in 1..Len(fifo')
        PROVE  fifo'[i].id = d + i
    <3>0. i \in Nat /\ i >= 1
      BY <1>2
    <3>1. CASE i + Gone <= Len(fifo) /\ fifo'[i] = fifo[i + Gone]
      <4>1. i + Gone \in 1..Len(fifo)
        BY <1>2, <3>0, <3>1
      <4>2. fifo[i + Gone].id = Dispatched + (i + Gone)
        BY <4>1 DEF InOrder
      <4> QED BY <1>2, <1>3, <2>1, <3>0, <3>1, <4>2
    <3>2. CASE i + Gone = Len(fifo) + 1 /\ Len(fifo_in) = 1 /\ fifo'[i] = fifo_in[1]
      <4>1. fifo_in[1].id = Dispatched + Len(fifo) + 1
        <5>1. 1 \in 1..Len(fifo_in)
          BY <3>2
        <5> QED BY <5>1 DEF InOrder
      <4>2. \A l, D, j \in Nat, g \in 0..1 : j + g = l + 1 => D + l + 1 = D + g + j
        OBVIOUS
      <4>3. Len(fifo) \in Nat /\ Gone \in 0..1 /\ i \in Nat /\ Dispatched \in Nat
        BY <1>2, <1>3, <3>0
      <4>4. Dispatched + Len(fifo) + 1 = Dispatched + Gone + i
        BY <3>2, <4>2, <4>3
      <4> QED BY <2>1, <3>2, <4>1, <4>4
    <3>3. CASE Posting /\ i = Queued' /\ fifo'[i] = mem_in
      BY <2>3, <3>3
    <3> QED BY <1>2, <3>1, <3>2, <3>3
  <2>5. ASSUME NEW i \in 1..Len(fifo_in')
        PROVE  fifo_in'[i].id = d + Len(fifo') + i
    <3>1. Len(fifo_in') = 1 /\ i = 1
      <4>1. \A n \in 0..1 : \A j \in 1..n : n = 1 /\ j = 1
        OBVIOUS
      <4> QED BY <1>2, <4>1
    <3>2. Queued' = Len(fifo') + 1
      BY <3>1 DEF Queued
    <3>3. fifo_in'[1].id = d + Queued'
      BY <1>2, <2>3, <3>1
    <3> QED BY <1>2, <1>8, <3>1, <3>2, <3>3
  <2>6. mem_save_request' => mem_save'.id = d + Queued' + 1
    <3>1. mem_save_request' => ~Posting /\ Come = 0
      BY <1>6, <1>8, <1>10
    <3>2. mem_save_request' => mem_save'.id = Dispatched + Queued + 1
      BY <1>4, <1>6, <1>7, <1>10
    <3> QED BY <1>2, <1>3, <2>2, <3>1, <3>2
  <2>7. issued' = d + Queued' + (IF mem_save_request' THEN 1 ELSE 0)
    <3>1. CASE mem_in_request /\ mem_in.rnw
      <4>1. ~Posting /\ Come = 0 /\ mem_save_request'
        BY <1>8, <1>10, <3>1 DEF NewRead
      <4> QED BY <1>2, <1>3, <1>4, <1>7, <2>2, <3>1, <4>1
    <3>2. CASE mem_in_request /\ ~mem_in.rnw
      <4>1. Posting /\ Come = 1 /\ ~mem_save_request'
        BY <1>6, <1>8, <1>10, <3>2 DEF NewRead
      <4> QED BY <1>2, <1>3, <1>4, <1>7, <2>2, <3>2, <4>1
    <3>3. CASE ~mem_in_request
      <4>1. ~Posting /\ Come = 0 /\ (mem_save_request' <=> mem_save_request)
        BY <1>6, <1>8, <1>10, <3>3
      <4> QED BY <1>2, <1>3, <1>4, <2>2, <3>3, <4>1
    <3> QED BY <3>1, <3>2, <3>3
  <2> QED BY <1>3, <1>5, <2>4, <2>5, <2>6, <2>7 DEF InOrder
<1> QED BY <1>9, <1>10, QueueBalance

\* A completion shown to the mux is that of an access of the CPU's, in the RAM.
LEMMA DoneIsCpus ==
  ASSUME PortInv, MuxInv, Running, ram_done_mux
  PROVE  ram_owner = "cpu" /\ ram_state = "IDLE" /\ ~OnRam
<1>1. ~dma_grant /\ ~ramarb_dma /\ ram_done
  BY DEF ram_done_mux
<1>2. ramarb_busy
  BY <1>1 DEF PortInv, ArbiterTracksRam, Running
<1>3. ram_owner = "cpu" /\ ram_state = "IDLE"
  BY <1>1, <1>2 DEF PortInv, ArbiterTracksRam, Running
<1> QED BY <1>3 DEF MuxInv, OneCpuAccess, OnRam

\* What the RAM does for the CPU in one cycle: nothing changes of an access it
\* serves but its own progress, and only the CPU's line fill writes the cache.
LEMMA ServingStep ==
  ASSUME TypeOK, PortInv, MuxInv, LineInv, Next, Running, ram_owner = "cpu", ~ram_done
  PROVE  /\ ramarb_busy /\ ram_state # "IDLE" /\ ram_owner' = "cpu" /\ ~ram_ena_m
         /\ ~Dispatching(ram_done_mux) /\ ~ram_done_mux
         /\ readram' = readram /\ ram_rq' = ram_rq /\ mem_tagvalids' = mem_tagvalids
         /\ ~OnRam /\ ~OnRam'
<1>1. ramarb_busy /\ ram_state # "IDLE"
  BY DEF PortInv, ArbiterTracksRam, Running
<1>2. ram_owner' = "cpu" /\ ~ram_ena_m
  BY <1>1, ArbiterBusy DEF Running
<1>3. ~ram_done_mux
  BY DEF ram_done_mux
<1>4. /\ readram \/ writeram \/ mux_state = "READBIOS"
      /\ readram \/ writeram => mux_state = "IDLE"
      /\ ~OnRam
  BY DEF MuxInv, OneCpuAccess, Running, OnRam
<1>5. ~Dispatching(ram_done_mux)
  BY <1>3, <1>4 DEF Dispatching, RamFree
<1>6. Fsm(ram_done_mux)
  BY RunningStep
<1>7. /\ readram' = readram /\ ram_rq' = ram_rq /\ mem_tagvalids' = mem_tagvalids /\ ~ram_ena'
  <2>1. readram = (readram /\ ~ram_done_mux)
    BY <1>3 DEF TypeOK, MuxTypeOK
  <2> QED BY <1>3, <1>4, <1>5, <1>6, <2>1
          DEF Fsm, DispatchIdle, Dispatch, MuxWait, MuxRamIssue, MuxBios, MuxReadEnd,
              MuxBus, MuxExternal, NoRamAccess, RamAnswer, Outstanding
<1>8. ~cpu_pend'
  BY <1>4, RamMoves
<1> QED BY <1>1, <1>2, <1>3, <1>4, <1>5, <1>7, <1>8 DEF OnRam

\* An access on its way to the RAM keeps its request.
LEMMA WaitingStep ==
  ASSUME TypeOK, PortInv, MuxInv, LineInv, Next, Running, OnRam
  PROVE  /\ ~ram_done_mux /\ ~Dispatching(ram_done_mux)
         /\ readram' = readram /\ ram_rq' = ram_rq /\ mem_tagvalids' = mem_tagvalids
         /\ ~ram_ena' /\ cpu_rq = ram_rq /\ mux_state' \in {"IDLE", "READBIOS"}
<1>1. ~ram_done_mux
  BY MuxWaitsForRam
<1>2. /\ readram \/ writeram \/ mux_state = "READBIOS"
      /\ readram \/ writeram => mux_state = "IDLE"
  BY DEF MuxInv, OneCpuAccess, Running, OnRam
<1>3. ~Dispatching(ram_done_mux)
  BY <1>1, <1>2 DEF Dispatching, RamFree
<1>4. Fsm(ram_done_mux)
  BY RunningStep
<1>5. /\ readram' = readram /\ ram_rq' = ram_rq /\ mem_tagvalids' = mem_tagvalids
      /\ ~ram_ena' /\ mux_state' \in {"IDLE", "READBIOS"}
  <2>1. readram = (readram /\ ~ram_done_mux)
    BY <1>1 DEF TypeOK, MuxTypeOK
  <2> QED BY <1>1, <1>2, <1>3, <1>4, <2>1
          DEF Fsm, DispatchIdle, Dispatch, MuxWait, MuxRamIssue, MuxBios, MuxReadEnd,
              MuxBus, MuxExternal, NoRamAccess, RamAnswer, Outstanding
<1>6. cpu_rq = ram_rq
  BY RamMoves DEF LineInv, OnRam
<1> QED BY <1>1, <1>3, <1>5, <1>6

\* Unless it is served or waits, an access of the CPU's starts with a dispatch or
\* with the end of its wait states; of those only the dispatch of a fetch fills a
\* line.
LEMMA FreshStep ==
  ASSUME TypeOK, PortInv, MuxInv, FifoInv, WritesQueued, ReadOnce, ExtInv, LineInv, Next, Running,
         ~OnRam, ram_owner = "cpu" => ram_done
  PROVE  /\ ram_rq'.cache /\ (OnRam' \/ InWait' \/ readram') =>
              /\ Dispatching(ram_done_mux) /\ NextOp.kind = "fetch"
              /\ readram' /\ ram_rq' = NextOp /\ mem_tagvalids' = NextOp.idx..3
         /\ ~cpu_pend' /\ ram_owner' # "cpu"
<1> DEFINE done == ram_done_mux
<1>1. Fsm(done)
  BY RunningStep
<1>2. ~cpu_pend'
  BY RamMoves
<1>3. ram_owner' # "cpu"
  <2>1. CASE ram_owner = "cpu"
    <3>1. ramarb_busy /\ ram_done
      BY <2>1 DEF PortInv, ArbiterTracksRam, Running
    <3> QED BY <3>1, ArbiterBusy DEF Running
  <2>2. CASE ram_owner # "cpu"
    BY <2>2, AccessMoves DEF InFlight, OnRam
  <2> QED BY <2>1, <2>2
<1>4. readram => done /\ mux_state = "IDLE"
  <2>1. readram => ram_owner = "cpu" /\ mux_state = "IDLE"
    BY DEF MuxInv, OneCpuAccess, Running, OnRam
  <2>2. ram_owner = "cpu" => done
    <3>1. ram_owner = "cpu" => ram_done /\ ramarb_busy /\ ~ramarb_dma
      BY DEF PortInv, ArbiterTracksRam, Running
    <3> QED BY <3>1 DEF ram_done_mux, dma_grant
  <2> QED BY <2>1, <2>2
<1>5. InWait => ~ram_rq.cache
  BY <1>4 DEF LineInv, InWait
<1>6. Dispatching(done) => GoodOp(NextOp)
  BY NextOpIs
<1> SUFFICES ASSUME ram_rq'.cache, ram_ena' \/ InWait' \/ readram'
             PROVE  /\ Dispatching(done) /\ NextOp.kind = "fetch"
                    /\ readram' /\ ram_rq' = NextOp /\ mem_tagvalids' = NextOp.idx..3
  BY <1>2, <1>3 DEF OnRam
<1> HIDE DEF done
<1> USE DEF NoRamAccess, RamAccess, RamAnswer, Outstanding, InWait
<1>11. CASE DispatchIdle(done)
  BY <1>4, <1>11 DEF DispatchIdle
<1>12. CASE Dispatch(done)
  <2>1. Dispatching(done) /\ mux_state = "IDLE" /\ GoodOp(NextOp)
    BY <1>6, <1>12 DEF Dispatch, Dispatching
  <2>2. CASE DispatchFetch
    BY <2>1, <2>2 DEF DispatchFetch
  <2>3. CASE DispatchRamNow
    BY <2>1, <2>3 DEF DispatchRamNow, GoodOp
  <2>4. CASE DispatchRamWait
    BY <2>1, <2>4 DEF DispatchRamWait, GoodOp
  <2>5. CASE DispatchBios
    BY <2>1, <2>5 DEF DispatchBios, GoodOp
  <2>6. CASE DispatchBus
    BY <2>1, <2>6 DEF DispatchBus
  <2> QED BY <1>12, <2>2, <2>3, <2>4, <2>5, <2>6 DEF Dispatch
<1>13. CASE MuxWait(done)
  BY <1>4, <1>5, <1>13 DEF MuxWait
<1>14. CASE MuxRamIssue(done)
  BY <1>4, <1>5, <1>14 DEF MuxRamIssue
<1>15. CASE MuxBios(done)
  BY <1>4, <1>5, <1>15 DEF MuxBios
<1>16. CASE MuxReadEnd(done)
  BY <1>4, <1>5, <1>16 DEF MuxReadEnd
<1>17. CASE MuxBus(done)
  BY <1>4, <1>5, <1>17 DEF MuxBus
<1>18. CASE MuxExternal(done)
  BY <1>4, <1>5, <1>18 DEF MuxExternal
<1> QED BY <1>1, <1>11, <1>12, <1>13, <1>14, <1>15, <1>16, <1>17, <1>18 DEF Fsm

\* What the RAM does at an edge: it takes a request in IDLE, and else goes on with
\* the one it serves.  Only a line fill writes the cache.
LEMMA RamMovesOn ==
  ASSUME TypeOK, PortInv, MuxInv, LineInv, Next, Running
  PROVE  /\ cache_wr' = IF ram_state = "EMIT" /\ is_cache THEN {word_idx} ELSE {}
         /\ ram_state = "IDLE" /\ RamReading' =>
              /\ RamTakes /\ ram_owner' = CurrentOwner
              /\ ram_rq_m.rnw /\ ram_state' = "RD1"
              /\ is_cache' = ram_rq_m.cache /\ word_idx' = ram_rq_m.idx
         /\ ram_state # "IDLE" /\ RamReading' =>
              /\ RamReading /\ ~ram_done /\ is_cache' = is_cache /\ ram_owner' = ram_owner
<1>1. /\ ~ram_reset /\ RamClk(FALSE, ram_ena_m, ram_rq_m)
  BY DEF Next, Hardware, Running, ram_reset
<1>2. ram_state # "IDLE" => ramarb_busy /\ ~ram_done /\ ~ram_ena_m
  <2>1. ram_state # "IDLE" => ramarb_busy /\ ~ram_done
    BY DEF PortInv, ArbiterTracksRam, Running
  <2> QED BY <2>1, ArbiterBusy DEF Running
<1>3. /\ ram_owner' = IF RamTakes THEN CurrentOwner
                      ELSE IF ram_state # "IDLE" THEN ram_owner ELSE "none"
      /\ RamTakes <=> ram_ena_m /\ ram_state = "IDLE"
  BY <1>1 DEF Next, History, RamTakes
<1> USE DEF RamClk, RamReading
<1>4. cache_wr' = IF ram_state = "EMIT" /\ is_cache THEN {word_idx} ELSE {}
  BY <1>1, <1>2 DEF RamIdle, RamTakeWrite, RamTakeRead, RamWriteAck, RamRowRead, RamEmit
<1>5. ASSUME ram_state = "IDLE", RamReading'
      PROVE  /\ ram_ena_m /\ ram_rq_m.rnw /\ ram_state' = "RD1"
             /\ is_cache' = ram_rq_m.cache /\ word_idx' = ram_rq_m.idx
  BY <1>1, <1>5 DEF RamIdle, RamTakeWrite, RamTakeRead, RamWriteAck, RamRowRead, RamEmit
<1>6. ASSUME ram_state # "IDLE", RamReading'
      PROVE  RamReading /\ is_cache' = is_cache
  BY <1>1, <1>2, <1>6 DEF RamIdle, RamTakeWrite, RamTakeRead, RamWriteAck, RamRowRead, RamEmit
<1> QED BY <1>2, <1>3, <1>4, <1>5, <1>6

\* The access of the CPU's that the RAM takes is the one on its way.
LEMMA RamTakesCpus ==
  ASSUME TypeOK, PortInv, MuxInv, LineInv, Next, Running, RamTakes
  PROVE  /\ CurrentOwner = "cpu" => OnRam /\ ram_rq_m.cache = ram_rq.cache
                                    /\ ram_rq_m.idx = ram_rq.idx /\ ram_rq_m.rnw = ram_rq.rnw
         /\ CurrentOwner # "cpu" => ~ram_rq_m.cache
<1>1. ~peek_mode /\ (CurrentOwner = "cpu" <=> ~dma_grant)
  BY DEF CurrentOwner, peek_mode, Running
<1>2. CASE dma_grant
  BY <1>1, <1>2 DEF ram_rq_m, DmaRequest
<1>3. CASE ~dma_grant
  <2>1. OnRam /\ ram_rq_m = [rnw |-> cpu_rq.rnw, cache |-> cpu_rq.cache, idx |-> cpu_rq.idx]
    BY <1>1, <1>3 DEF RamTakes, ram_ena_m, cpu_issue, OnRam, ram_rq_m
  <2>2. cpu_rq = ram_rq
    BY <2>1, WaitingStep
  <2> QED BY <1>1, <1>3, <2>1, <2>2
<1> QED BY <1>2, <1>3

\* The word of a line that is emitted joins those written before it.
LEMMA NextWord ==
  ASSUME NEW first \in 0..3, NEW w \in 0..3, first <= w
  PROVE  /\ {i \in 0..3 : first <= i /\ i < w} \cup {w} = {i \in 0..3 : first <= i /\ i < w + 1}
         /\ w = 3 => {i \in 0..3 : first <= i /\ i < w} \cup {w} = first..3
         /\ {i \in 0..3 : first <= i /\ i < first} = {}
         /\ w # 3 => (w + 1) % 4 = w + 1 /\ first <= w + 1
  OBVIOUS

LEMMA LineStep ==
  ASSUME TypeOK, PortInv, MuxInv, FifoInv, WritesQueued, ReadOnce, ExtInv, LineInv, Next, Running
  PROVE  LineInv'
<1> DEFINE Words == IF ram_state = "EMIT" /\ is_cache THEN {word_idx} ELSE {}
<1>1. filled' = (IF Dispatching(ram_done_mux) /\ NextOp.kind = "fetch" THEN {} ELSE filled) \cup Words
  BY RamMovesOn DEF Next, History
<1>2. /\ ram_state # "IDLE" => ramarb_busy /\ ~ram_done
      /\ ram_owner = "cpu" => ~OnRam
  BY DEF PortInv, ArbiterTracksRam, Running, MuxInv, OneCpuAccess, OnRam
<1>3. Words # {} => Filling /\ ram_owner = "cpu" /\ ~ram_done
  BY <1>2 DEF LineInv, RamReading, Running
<1> HIDE DEF Words
\* The access the RAM serves goes on.
<1>4. CASE ram_owner = "cpu" /\ ~ram_done
  <2>1. /\ ramarb_busy /\ ram_state # "IDLE" /\ ram_owner' = "cpu" /\ ~ram_ena_m
        /\ ~Dispatching(ram_done_mux)
        /\ readram' = readram /\ ram_rq' = ram_rq /\ mem_tagvalids' = mem_tagvalids
        /\ ~OnRam /\ ~OnRam'
    BY <1>4, ServingStep
  <2>2. Filling' <=> Filling
    BY <2>1 DEF Filling
  <2>3. filled' = filled \cup Words
    BY <1>1, <2>1
  <2>4. cpu_pend' => pend' = ram_rq'
    BY <2>1 DEF OnRam
  <2>5. ram_rq'.cache /\ (OnRam' \/ InWait') => readram'
    <3>1. mux_state' \in {"IDLE", "READBIOS", "WAITING"}
      <4>1. /\ readram \/ writeram \/ mux_state = "READBIOS"
            /\ readram \/ writeram => mux_state = "IDLE"
        BY <1>4 DEF MuxInv, OneCpuAccess, Running
      <4>2. Fsm(ram_done_mux)
        BY RunningStep
      <4> QED BY <2>1, <4>1, <4>2
              DEF Fsm, DispatchIdle, Dispatch, MuxWait, MuxRamIssue, MuxBios, MuxReadEnd,
                  MuxBus, MuxExternal
    <3> QED BY <2>1, <3>1 DEF InWait
  <2>6. Filling' => GoodOp(ram_rq') /\ mem_tagvalids' = ram_rq'.idx..3
    BY <2>1, <2>2 DEF LineInv
  <2>7. RamReading' => (is_cache' <=> Filling' /\ ram_owner' = "cpu")
    BY <1>4, <2>1, <2>2, RamMovesOn DEF LineInv, Running
  <2>8. ASSUME Filling
        PROVE  \/ ram_state' \in {"RD1", "RD2"} /\ word_idx' = ram_rq.idx /\ filled' = {}
               \/ /\ ram_state' = "EMIT" /\ word_idx' >= ram_rq.idx
                  /\ filled' = {i \in 0..3 : ram_rq.idx <= i /\ i < word_idx'}
               \/ ram_state' = "IDLE" /\ filled' = ram_rq.idx..3
    <3>1. /\ RamReading /\ is_cache
          /\ ram_rq.idx \in 0..3 /\ word_idx \in 0..3
      BY <1>4, <2>1, <2>8 DEF LineInv, RamReading, Running, GoodOp, Op, TypeOK, RamTypeOK
    <3>2. RamClk(FALSE, ram_ena_m, ram_rq_m)
      BY DEF Next, Hardware, Running, ram_reset
    <3>3. CASE ram_state \in {"RD1", "RD2"}
      <4>1. /\ ram_state' = IF ram_state = "RD1" THEN "RD2" ELSE "EMIT"
            /\ word_idx' = word_idx
        BY <2>1, <3>2, <3>3 DEF RamClk, RamIdle, RamTakeWrite, RamTakeRead, RamWriteAck, RamRowRead, RamEmit
      <4>2. Words = {} /\ word_idx = ram_rq.idx /\ filled = {}
        BY <1>4, <2>8, <3>3 DEF LineInv, Words
      <4>3. filled' = {} /\ {i \in 0..3 : ram_rq.idx <= i /\ i < ram_rq.idx} = {}
        BY <2>3, <3>1, <4>2, NextWord
      <4> QED BY <3>1, <3>3, <4>1, <4>2, <4>3
    <3>4. CASE ram_state = "EMIT"
      <4>1. /\ word_idx' = (word_idx + 1) % 4
            /\ ram_state' = IF word_idx = 3 THEN "IDLE" ELSE "EMIT"
        BY <2>1, <3>1, <3>2, <3>4 DEF RamClk, RamIdle, RamTakeWrite, RamTakeRead, RamWriteAck, RamRowRead, RamEmit
      <4>2. /\ Words = {word_idx} /\ ram_rq.idx <= word_idx
            /\ filled = {i \in 0..3 : ram_rq.idx <= i /\ i < word_idx}
        BY <1>4, <2>8, <3>1, <3>4 DEF LineInv, Words
      <4>3. filled' = {i \in 0..3 : ram_rq.idx <= i /\ i < word_idx} \cup {word_idx}
        BY <2>3, <4>2
      <4>4. CASE word_idx = 3
        BY <3>1, <4>1, <4>2, <4>3, <4>4, NextWord
      <4>5. CASE word_idx # 3
        <5>1. word_idx' = word_idx + 1 /\ ram_rq.idx <= word_idx'
          BY <3>1, <4>1, <4>2, <4>5, NextWord
        <5>2. filled' = {i \in 0..3 : ram_rq.idx <= i /\ i < word_idx + 1}
          BY <3>1, <4>2, <4>3, NextWord
        <5> QED BY <3>1, <4>1, <4>5, <5>1, <5>2
      <4> QED BY <4>4, <4>5
    <3> QED BY <3>1, <3>3, <3>4 DEF RamReading
  <2> QED BY <2>1, <2>2, <2>4, <2>5, <2>6, <2>7, <2>8 DEF LineInv
\* The RAM does nothing for the CPU.
<1>5. CASE ram_owner = "cpu" => ram_done
  <2>1. Words = {}
    BY <1>3, <1>5
  <2>2. CASE OnRam
    <3>1. /\ ~Dispatching(ram_done_mux)
          /\ readram' = readram /\ ram_rq' = ram_rq /\ mem_tagvalids' = mem_tagvalids
          /\ ~ram_ena' /\ cpu_rq = ram_rq /\ mux_state' \in {"IDLE", "READBIOS"}
      BY <2>2, WaitingStep
    <3>2. filled' = filled /\ (Filling' <=> Filling) /\ ~InWait'
      BY <1>1, <2>1, <3>1 DEF Filling, InWait
    <3>3. cpu_pend' => pend' = ram_rq'
      BY <2>2, <3>1, RamMoves
    <3>4. ram_rq.cache => readram
      BY <2>2 DEF LineInv
    <3>5. Filling' => GoodOp(ram_rq') /\ mem_tagvalids' = ram_rq'.idx..3
      BY <3>1, <3>2 DEF LineInv
    <3>6. Filling => filled = {}
      BY <2>2 DEF LineInv
    <3>7. RamReading' => (is_cache' <=> Filling' /\ ram_owner' = "cpu")
      <4>1. CASE ram_state = "IDLE"
        BY <3>2, <3>4, <4>1, RamMovesOn, RamTakesCpus DEF Filling
      <4>2. CASE ram_state # "IDLE"
        <5>1. ram_owner # "cpu"
          BY <1>2, <2>2
        <5> QED BY <3>2, <4>2, <5>1, RamMovesOn DEF LineInv, Running
      <4> QED BY <4>1, <4>2
    <3>8. ASSUME Filling, ram_owner' = "cpu"
          PROVE  ram_state' = "RD1" /\ word_idx' = ram_rq.idx
      <4>1. ram_owner # "cpu"
        BY <1>2, <2>2
      <4>2. RamTakes /\ CurrentOwner = "cpu"
        <5>1. ram_owner' = IF RamTakes THEN CurrentOwner
                           ELSE IF ~ram_reset /\ ram_state # "IDLE" THEN ram_owner ELSE "none"
          BY DEF Next, History
        <5> QED BY <3>8, <4>1, <5>1
      <4>3. ram_rq_m.rnw /\ ram_rq_m.idx = ram_rq.idx
        <5>1. ram_rq.rnw
          BY <3>8 DEF LineInv, GoodOp, Filling
        <5> QED BY <4>2, <5>1, RamTakesCpus
      <4>4. RamClk(FALSE, ram_ena_m, ram_rq_m)
        BY DEF Next, Hardware, Running, ram_reset
      <4> QED BY <4>2, <4>3, <4>4
              DEF RamTakes, RamClk, RamTakeWrite, RamTakeRead, RamWriteAck, RamRowRead, RamEmit
    <3> QED BY <3>1, <3>2, <3>3, <3>4, <3>5, <3>6, <3>7, <3>8 DEF LineInv
  <2>3. CASE ~OnRam
    <3>1. /\ ram_rq'.cache /\ (OnRam' \/ InWait' \/ readram') =>
                /\ Dispatching(ram_done_mux) /\ NextOp.kind = "fetch"
                /\ readram' /\ ram_rq' = NextOp /\ mem_tagvalids' = NextOp.idx..3
          /\ ~cpu_pend' /\ ram_owner' # "cpu"
      BY <1>5, <2>3, FreshStep
    <3>2. Filling' => GoodOp(ram_rq') /\ mem_tagvalids' = ram_rq'.idx..3 /\ filled' = {}
      BY <1>1, <2>1, <3>1, NextOpIs DEF Filling
    <3>3. RamReading' => ~is_cache'
      <4>1. CASE ram_state = "IDLE"
        BY <2>3, <4>1, RamMovesOn, RamTakesCpus
      <4>2. CASE ram_state # "IDLE"
        BY <1>2, <1>5, <4>2, RamMovesOn DEF LineInv, Running
      <4> QED BY <4>1, <4>2
    <3> QED BY <3>1, <3>2, <3>3 DEF LineInv
  <2> QED BY <2>2, <2>3
<1> QED BY <1>4, <1>5

-----------------------------------------------------------------------------
(* FlowInv is inductive, and what follows from it. *)

LEMMA FlowStep ==
  ASSUME TypeOK, PortInv, MuxInv, FlowInv, Next, ~ResetAgain
  PROVE  FlowInv'
<1> USE DEF FlowInv
<1>1. CASE reset_int
  BY <1>1, FlowReset
<1>2. CASE ~reset_int
  <2>1. Running
    BY <1>2 DEF MuxInv, Running
  <2>2. Clean'
    BY <2>1, RunningStep DEF Clean
  <2> QED BY <2>1, <2>2, FifoStep, QueuedStep, ReadOnceStep, ExtStep, InOrderStep, LineStep
<1> QED BY <1>1, <1>2

LEMMA FlowInvariant ==
  ASSUME ~PeekAnyTime, ~ResetAgain
  PROVE  Spec => []FlowInv
<1>1. Init => FlowInv
  <2> SUFFICES ASSUME Init PROVE FlowInv
    OBVIOUS
  <2>1. /\ fifo = <<>> /\ fifo_in = <<>> /\ ~mem_save_request /\ ~mem_in_request
        /\ ~mem_done_buf /\ ~cpu_wait /\ ext_state = "EXT_IDLE" /\ mux_state = "IDLE"
        /\ ~readram /\ ~writeram /\ ~ram_ena /\ ~cpu_pend /\ reset_int
        /\ issued = 0 /\ performed = 0
    BY DEF Init, MuxInit
  <2>2. Len(fifo) = 0 /\ Len(fifo_in) = 0
    BY <2>1
  <2>3. Clean /\ ExtInv /\ FifoInv
    BY <2>1, <2>2, MuxAssumption DEF Clean, ExtInv, ExtReading, FifoInv
  <2>4. WritesQueued /\ ReadOnce
    BY <2>1, <2>2 DEF WritesQueued, ReadOnce, ReadInMux, ReadMux
  <2>5. InOrder
    <3>1. ~Pending
      BY <2>1 DEF Pending, OnRam, InWait, OnBus
    <3> QED BY <2>1, <2>2, <3>1 DEF InOrder, Dispatched, Queued
  <2>6. LineInv
    BY <2>1 DEF LineInv, Filling, RamReading, OnRam, InWait
  <2> QED BY <2>3, <2>4, <2>5, <2>6 DEF FlowInv
<1>2. TypeOK /\ PortInv /\ MuxInv /\ FlowInv /\ [Next]_vars => FlowInv'
  <2>1. FlowInv /\ UNCHANGED vars => FlowInv'
    <3> SUFFICES ASSUME FlowInv, UNCHANGED vars PROVE FlowInv'
      OBVIOUS
    <3> USE DEF FlowInv, vars, ramVars, muxVars, muxQueueVars, muxDispatchVars, extVars,
                resetVars, arbVars, historyVars
    <3>1. Clean' /\ FifoInv' /\ WritesQueued' /\ ExtInv'
      BY DEF Clean, FifoInv, WritesQueued, ExtInv, ExtReading, mem_fifofull
    <3>2. ReadOnce'
      BY DEF ReadOnce, ReadInMux, MemDone, mem_done, ext_done, ram_done_mux, dma_grant, peek_mode
    <3>3. InOrder'
      BY DEF InOrder, Dispatched, Queued, Pending, PendingId, OnRam, InWait, OnBus, ExtReading
    <3>4. LineInv'
      BY DEF LineInv, Filling, RamReading, OnRam, InWait
    <3> QED BY <3>1, <3>2, <3>3, <3>4
  <2> QED BY <2>1, FlowStep
<1> QED BY <1>1, <1>2, TypeCorrect, PortInvariant, MuxInvariant, PTL DEF Spec

\* What takes effect in a cycle is the operation pending.
LEMMA PerformsPending ==
  ASSUME TypeOK, PortInv, MuxInv, FlowInv, Running, NEW i \in Performing
  PROVE  Pending /\ i = PendingId /\ Performing = {i}
<1>1. /\ Performing = (IF RamPart THEN {cpu_rq.id} ELSE {})
                      \cup (IF BusPart THEN {cur.id} ELSE {})
                      \cup (IF ExtPart THEN {cur.id} ELSE {})
      /\ BusPart => mux_state \in {"BUSWRITE", "BUSREADREQUEST"}
      /\ ExtPart => /\ mux_state \in {"BUSWRITEEXTERNAL", "BUSREADEXTERNAL"}
                    /\ ~ExtReading
  BY Zenon DEF Performing, RamPart, BusPart, ExtPart, ExtTakesWrite, ExtTakesRead, ExtReading
<1>2. RamPart => OnRam
  BY DEF RamPart, RamTakes, CurrentOwner, ram_ena_m, cpu_issue, OnRam, peek_mode, Running
<1>3. /\ OnRam => mux_state \in {"IDLE", "READBIOS"}
      /\ OnRam => cpu_rq.id = PendingId
  BY DEF MuxInv, OneCpuAccess, OnRam, PendingId, cpu_rq
<1>4. CASE RamPart
  BY <1>1, <1>2, <1>3, <1>4 DEF Pending
<1>5. CASE ~RamPart
  <2>1. /\ BusPart \/ ExtPart
        /\ mux_state \in {"BUSWRITE", "BUSREADREQUEST", "BUSWRITEEXTERNAL", "BUSREADEXTERNAL"}
        /\ Performing = {cur.id}
    BY <1>1, <1>5
  <2>2. ~OnRam /\ ~InWait /\ OnBus
    BY <1>1, <1>3, <2>1 DEF InWait, OnBus
  <2>3. PendingId = cur.id
    BY <2>2 DEF PendingId, OnRam
  <2> QED BY <2>1, <2>2, <2>3 DEF Pending
<1> QED BY <1>4, <1>5

\* The CPU's operations take effect one at a time and in program order, each
\* exactly once: through the FIFO, the save register, the hold register and the
\* posted external writes, whatever the DMA engine does meanwhile.
THEOREM OperationsInOrder ==
  ASSUME ~PeekAnyTime, ~ResetAgain
  PROVE  Spec => []ProgramOrder
<1>1. TypeOK /\ PortInv /\ MuxInv /\ FlowInv => ProgramOrder
  BY PerformsPending DEF ProgramOrder, FlowInv, InOrder
<1> QED BY <1>1, TypeCorrect, PortInvariant, MuxInvariant, FlowInvariant, PTL

\* A read is answered once, while the CPU waits for it, and after it and every
\* write posted before it took effect.
THEOREM ReadsSeeWrites ==
  ASSUME ~PeekAnyTime, ~ResetAgain
  PROVE  Spec => []ReadsAfterWrites
<1>1. TypeOK /\ PortInv /\ MuxInv /\ FlowInv => ReadsAfterWrites
  <2> SUFFICES ASSUME TypeOK, PortInv, MuxInv, FlowInv, Running, MemDone
               PROVE  cpu_wait /\ performed = issued
    BY DEF ReadsAfterWrites
  <2>1. (readram /\ ram_done_mux) \/ ext_done \/ mem_done_buf
    BY DEF MemDone, mem_done
  <2>2. ext_done => mux_state = "BUSREADEXTERNAL" /\ ExtReading
    BY DEF FlowInv, ExtInv, ExtReading, ext_done
  <2>3. cpu_wait /\ ~mem_save_request
    BY <2>1, <2>2, SavedAlone DEF FlowInv, ReadOnce, ReadInMux, ReadMux
  <2>4. Queued = 0
    <3>1. fifo = <<>> /\ fifo_in = <<>>
      BY <2>3 DEF FlowInv, ReadOnce
    <3> QED BY <3>1 DEF Queued
  <2>5. ~Pending
    <3>1. CASE readram /\ ram_done_mux
      BY <3>1, DoneIsCpus DEF Pending, MuxInv, InWait, OnBus
    <3>2. CASE ext_done
      <4>1. ~OnRam
        BY <2>2, <3>2 DEF MuxInv, OneCpuAccess, OnRam
      <4> QED BY <2>2, <3>2, <4>1 DEF Pending, InWait, OnBus
    <3>3. CASE mem_done_buf
      <4>1. mux_state = "IDLE" /\ ~readram /\ ~writeram
        BY <3>3 DEF FlowInv, ReadOnce
      <4>2. ~OnRam
        BY <4>1 DEF MuxInv, OneCpuAccess, OnRam
      <4> QED BY <4>1, <4>2 DEF Pending, InWait, OnBus
    <3> QED BY <2>1, <3>1, <3>2, <3>3
  <2>6. issued = performed + 0 + 0
    BY <2>3, <2>4, <2>5 DEF FlowInv, InOrder, Dispatched
  <2>7. performed \in Nat
    BY DEF TypeOK, ArbTypeOK
  <2> QED BY <2>3, <2>6, <2>7
<1> QED BY <1>1, TypeCorrect, PortInvariant, MuxInvariant, FlowInvariant, PTL

\* Every word the mux lets the CPU mark valid is in the instruction cache when the
\* fetch is answered, wherever in the line it starts (iop_ram.vhd:14-21).
THEOREM LinesFilled ==
  ASSUME ~PeekAnyTime, ~ResetAgain
  PROVE  Spec => []LineComplete
<1>1. PortInv /\ MuxInv /\ FlowInv => LineComplete
  <2> SUFFICES ASSUME PortInv, MuxInv, FlowInv, Running, Filling, ram_done_mux
               PROVE  filled = mem_tagvalids
    BY DEF LineComplete, Filling
  <2>1. ram_owner = "cpu" /\ ram_state = "IDLE"
    BY DoneIsCpus
  <2> QED BY <2>1 DEF FlowInv, LineInv
<1> QED BY <1>1, PortInvariant, MuxInvariant, FlowInvariant, PTL
=============================================================================
