------------------------------- MODULE IopRam -------------------------------
(***************************************************************************)
(* rtl/iop/iop_ram.vhd: the request sequencer of the IOP memory.           *)
(*                                                                         *)
(* One clk1x edge is one step.  The block samples a request only while its *)
(* FSM is IDLE, answers a write two cycles later and a read four cycles    *)
(* later, and streams the words of a cache line one per cycle, raising     *)
(* ram_done with the last of them.  The contents of the memory are not     *)
(* kept: what the properties tell apart is which access is served, when it *)
(* ends and which words of the line reach the instruction cache.           *)
(***************************************************************************)
EXTENDS Naturals

CONSTANTS FirstWords    \* word offsets in a 16-byte line an access may start at

ASSUME FirstWordsAssumption == FirstWords \subseteq 0..3

VARIABLES
  ram_state,   \* request FSM
  word_idx,    \* word of the row being emitted
  is_cache,    \* the read in progress fills a cache line
  cache_wr,    \* words written to the instruction cache this cycle
  ram_done     \* one-cycle completion pulse

ramVars == <<ram_state, word_idx, is_cache, cache_wr, ram_done>>

RamState == {"IDLE", "WRITEACK", "RD1", "RD2", "EMIT"}

RamTypeOK ==
  /\ ram_state \in RamState
  /\ word_idx \in 0..3
  /\ is_cache \in BOOLEAN
  /\ cache_wr \in SUBSET (0..3)
  /\ ram_done \in BOOLEAN

RamInit ==
  /\ ram_state = "IDLE"
  /\ word_idx = 0
  /\ is_cache = FALSE
  /\ cache_wr = {}
  /\ ram_done = FALSE

\* A request is a record with at least the fields rnw, cache and idx (the two
\* low word-address bits).

RamReset ==
  /\ ram_state' = "IDLE"
  /\ cache_wr' = {}
  /\ ram_done' = FALSE
  /\ UNCHANGED <<word_idx, is_cache>>

RamIdle ==
  /\ ram_state = "IDLE"
  /\ cache_wr' = {}
  /\ ram_done' = FALSE
  /\ UNCHANGED <<ram_state, word_idx, is_cache>>

RamTakeWrite(rq) ==
  /\ ram_state = "IDLE"
  /\ ~rq.rnw
  /\ ram_state' = "WRITEACK"
  /\ cache_wr' = {}
  /\ ram_done' = FALSE
  /\ UNCHANGED <<word_idx, is_cache>>

RamTakeRead(rq) ==
  /\ ram_state = "IDLE"
  /\ rq.rnw
  /\ ram_state' = "RD1"
  /\ is_cache' = rq.cache
  /\ word_idx' = rq.idx
  /\ cache_wr' = {}
  /\ ram_done' = FALSE

RamWriteAck ==
  /\ ram_state = "WRITEACK"
  /\ ram_state' = "IDLE"
  /\ ram_done' = TRUE
  /\ cache_wr' = {}
  /\ UNCHANGED <<word_idx, is_cache>>

\* The two pipeline stages of the memory: row address, then row register.
RamRowRead ==
  /\ ram_state \in {"RD1", "RD2"}
  /\ ram_state' = IF ram_state = "RD1" THEN "RD2" ELSE "EMIT"
  /\ ram_done' = FALSE
  /\ cache_wr' = {}
  /\ UNCHANGED <<word_idx, is_cache>>

\* Mutant: the word counter is not two bits wide.
RamEmitWide ==
  LET last == ~is_cache \/ word_idx = 3
  IN  /\ ram_state = "EMIT"
      /\ word_idx' = word_idx + 1
      /\ cache_wr' = IF is_cache THEN {word_idx} ELSE {}
      /\ ram_done' = last
      /\ ram_state' = IF last THEN "IDLE" ELSE "EMIT"
      /\ UNCHANGED is_cache

\* Mutant: done with the first word (the bug iop_ram.vhd:14-21 tells of).
RamEmitEarlyDone ==
  LET first == cache_wr = {}
  IN  /\ ram_state = "EMIT"
      /\ word_idx' = (word_idx + 1) % 4
      /\ cache_wr' = IF is_cache THEN {word_idx} ELSE {}
      /\ ram_done' = first
      /\ ram_state' = IF ~is_cache \/ word_idx = 3 THEN "IDLE" ELSE "EMIT"
      /\ UNCHANGED is_cache

\* An uncached read ends with its first word, a line fill with word 3.
RamEmit ==
  LET last == ~is_cache \/ word_idx = 3
  IN  /\ ram_state = "EMIT"
      /\ word_idx' = (word_idx + 1) % 4
      /\ cache_wr' = IF is_cache THEN {word_idx} ELSE {}
      /\ ram_done' = last
      /\ ram_state' = IF last THEN "IDLE" ELSE "EMIT"
      /\ UNCHANGED is_cache

\* One clock edge; a request that finds the FSM away from IDLE is not sampled.
RamClk(rst, ena, rq) ==
  \/ rst /\ RamReset
  \/ ~rst /\ ~ena /\ RamIdle
  \/ ~rst /\ ena /\ RamTakeWrite(rq)
  \/ ~rst /\ ena /\ RamTakeRead(rq)
  \/ ~rst /\ RamWriteAck
  \/ ~rst /\ RamRowRead
  \/ ~rst /\ RamEmit
=============================================================================
