------------------------------ MODULE DiscPath ------------------------------
(***************************************************************************)
(* The way of a disc sector: the drive controller in the clock of the IOP, *)
(* the HBM source or the host in the sys clock, and the synchronizers of   *)
(* boards/c1100_ps2_iop.py between them.                                   *)
(*                                                                         *)
(* A step is an edge of one clock or of both at once.  sys runs 3.4 times  *)
(* as fast as the IOP: from one edge of the IOP to the next there are      *)
(* three or four of sys.  A flip-flop that samples a value of the other    *)
(* clock at the very edge it changes gets the old or the new one, one that *)
(* samples several bits may get a mixture.                                 *)
(***************************************************************************)
EXTENDS IopCdvd, HbmDiscSource, SequencesExt

CONSTANTS
  HostGap,       \* sys cycles between two register accesses of the host
  MaxCommands,   \* bound: commands the driver gives
  LbaVals, CountVals,   \* the reads it asks for
  Fillers,       \* settings of `enable': TRUE for the HBM, FALSE for the host
  ResetAgain     \* the host may reset the IOP while it runs (once)

Mixed == Beats * BeatWords * LbaSpace    \* bits of two words: no word of the disc

ASSUME DiscPathAssumption ==
  /\ SectorWords = Beats * BeatWords
  /\ Word = 0..Mixed /\ HostGap \in Nat /\ MaxCommands \in Nat
  /\ LbaVals \subseteq Lba /\ CountVals \subseteq Lba
  /\ Fillers \subseteq BOOLEAN /\ ResetAgain \in BOOLEAN

VARIABLES
  since,               \* sys edges since the last edge of the IOP
  reset, present, enable,
  hbm,                 \* addresses of the beats the HBM has still to deliver
  \* The host's registers, and where it is in serving a sector.
  sec_ptr, sec_ptr_q, sec_arm, sec_go, sec_data, sec_data_re, sec_done_re,
  host, host_lba, host_word, host_wait,
  \* Flip-flops of the synchronizers: a toggle and three stages for each pulse,
  \* two stages for each level.
  we_tog, we_ff, done_tog, done_ff, addr_ff, data_ff, req_ff, lba_ff,
  \* History: commands given; the words the reads asked for and those the DMA took.
  commands, wanted, got

hostVars == <<sec_ptr, sec_ptr_q, sec_arm, sec_go, sec_data, sec_data_re, sec_done_re,
              host, host_lba, host_word, host_wait>>
sysFF == <<we_tog, done_tog, req_ff, lba_ff>>
iopFF == <<we_ff, done_ff, addr_ff, data_ff>>
sysVars == <<sourceVars, hbm, hostVars, sysFF>>
iopVars == <<cdvdVars, iopFF, commands, wanted, got>>
vars == <<since, reset, present, enable, sysVars, iopVars>>

Init ==
  /\ CdvdInit /\ SourceInit
  /\ since = 0 /\ reset = TRUE /\ present \in BOOLEAN /\ enable \in Fillers
  /\ hbm = <<>>
  /\ sec_ptr = 0 /\ sec_ptr_q = 0 /\ sec_data = NoWord
  /\ sec_arm = FALSE /\ sec_go = FALSE /\ sec_data_re = FALSE /\ sec_done_re = FALSE
  /\ host = "POLL" /\ host_lba = 0 /\ host_word = 0 /\ host_wait = 0
  /\ we_tog = FALSE /\ done_tog = FALSE
  /\ we_ff = [i \in 1..3 |-> FALSE] /\ done_ff = [i \in 1..3 |-> FALSE]
  /\ addr_ff = [i \in 1..2 |-> 0] /\ data_ff = [i \in 1..2 |-> NoWord]
  /\ req_ff = [i \in 1..2 |-> FALSE] /\ lba_ff = [i \in 1..2 |-> 0]
  /\ commands = 0 /\ wanted = <<>> /\ got = <<>>

-----------------------------------------------------------------------------
(* The wires. *)

want == req_ff[2]            \* cdvd_sec_req.want
sector == lba_ff[2]          \* cdvd_sec_lba

\* A mutant: the pointer has moved on when the word is written.
fill_addr_live == IF enable THEN src_addr ELSE sec_ptr

fill_we == IF enable THEN src_we ELSE sec_go
fill_addr == IF enable THEN src_addr ELSE sec_ptr_q
fill_data == IF enable THEN src_data ELSE sec_data
fill_done == IF enable THEN src_done ELSE sec_done_re

we == we_ff[2] # we_ff[3]
done == done_ff[2] # done_ff[3]

\* What a flip-flop may sample of a value that is `old' before the step and `new'
\* after it: if the clock of the value ticks in the step too, either.
Sampled(both, old, new) == IF both THEN {old, new} ELSE {old}
SampledBits(both, old, new, any) == IF both /\ old # new THEN any ELSE {old}

-----------------------------------------------------------------------------
(* The sys clock. *)

\* The HBM takes an address when it likes and delivers the beats of the burst in
\* order, each when it likes.
Hbm(arready, rvalid) ==
  /\ arready => hbm = <<>> /\ src_state = "AR"
  /\ rvalid => hbm # <<>> /\ src_state = "R"
  /\ hbm' = IF arready THEN [i \in 1..Burst |-> ar_addr(sector) + (i - 1) * BeatWords]
            ELSE IF rvalid THEN Tail(hbm) ELSE hbm

BeatAt(a) == [i \in 1..BeatWords |-> (a + i - 1) % Mixed]

Source ==
  \E arready, rvalid \in BOOLEAN :
    /\ Hbm(arready, rvalid)
    /\ SourceClk(want, enable, arready, rvalid, IF rvalid THEN BeatAt(Head(hbm)) ELSE <<>>)

\* discserve.py: poll `want', read the sector address, write the words, write done.
\* A register access of the host is a pulse `re' of one cycle.
HostAccess ==
  /\ ~enable /\ host_wait = HostGap
  /\ \/ /\ host = "POLL" /\ want /\ host' = "LBA"
        /\ UNCHANGED <<host_lba, host_word, sec_data, sec_data_re, sec_done_re>>
     \/ /\ host = "LBA" /\ host' = "WORDS" /\ host_lba' = sector /\ host_word' = 0
        /\ UNCHANGED <<sec_data, sec_data_re, sec_done_re>>
     \/ /\ host = "WORDS" /\ host_word < SectorWords
        /\ sec_data' = host_lba * SectorWords + host_word
        /\ sec_data_re' = TRUE /\ host_word' = host_word + 1
        /\ host' = IF host_word = SectorWords - 1 THEN "DONE" ELSE "WORDS"
        /\ UNCHANGED <<host_lba, sec_done_re>>
     \/ /\ host = "DONE" /\ sec_done_re' = TRUE /\ host' = "POLL"
        /\ UNCHANGED <<host_lba, host_word, sec_data, sec_data_re>>
  /\ host_wait' = 0

HostPause ==
  /\ host_wait' = IF ~enable /\ host_wait < HostGap THEN host_wait + 1 ELSE host_wait
  /\ sec_data_re' = FALSE /\ sec_done_re' = FALSE
  /\ UNCHANGED <<host, host_lba, host_word, sec_data>>

\* The pointer of the word, and the two cycles the write pulse is held back.
FillPointer ==
  /\ sec_ptr' = IF sec_done_re THEN 0
                ELSE IF sec_data_re THEN (sec_ptr + 1) % SectorWords ELSE sec_ptr
  /\ sec_ptr_q' = IF sec_data_re THEN sec_ptr ELSE sec_ptr_q
  /\ sec_arm' = sec_data_re /\ sec_go' = sec_arm

SysEdge ==
  /\ Source
  /\ HostAccess \/ HostPause
  /\ FillPointer
  /\ we_tog' = (we_tog # fill_we)
  /\ done_tog' = (done_tog # fill_done)

\* The two stages of the levels that come from the IOP.
SysSamples(both) ==
  /\ \E r \in Sampled(both, sec_req, sec_req') : req_ff' = <<r, req_ff[1]>>
  /\ \E a \in SampledBits(both, sec_lba, sec_lba', Lba) : lba_ff' = <<a, lba_ff[1]>>

-----------------------------------------------------------------------------
(* The clock of the IOP. *)

\* Nothing of an earlier sector is on its way.
Quiet ==
  /\ src_state = "IDLE" /\ host = "POLL" /\ ~want /\ ~sec_req /\ ~sec_done_re
  /\ \A i \in 1..3 : done_ff[i] = done_tog

\* The driver gives a command when the last is done, and acknowledges its flag.
\* After a reset it boots: the first command comes when all is quiet.
Commands == {[to |-> "ncmd", val |-> c] : c \in {"read", "other"}}
Params == {[to |-> "nparam", val |-> [lba |-> l, count |-> n]] : l \in LbaVals, n \in CountVals}
Accesses ==
  {NoAccess} \cup
  IF reset THEN {}
  ELSE IF istat THEN {[to |-> "istat", val |-> 1]}
  ELSE IF rd_state = "RD_IDLE" /\ ncmd_pend = 0 /\ commands < MaxCommands /\ Quiet
  THEN Commands \cup {w \in Params : w.val # nparam}
       \cup (IF cdvd_err THEN {[to |-> "readerr", val |-> 0]} ELSE {})
  ELSE {}

SectorsOf(lba, count) ==
  [i \in 1..(count * SectorWords) |-> (lba * SectorWords + i - 1) % Mixed]

IopEdge ==
  \E w \in Accesses, ready \in BOOLEAN :
    /\ ready => dev_valid            \* the DMA engine writes what it was offered
    /\ CdvdClk(reset, w, present, we, addr_ff[2], data_ff[2], done, ready)
    /\ commands' = IF Command(w) THEN commands + 1 ELSE commands
    /\ wanted' = IF reset THEN <<>>
                 ELSE IF NewRead(w, present) THEN wanted \o SectorsOf(nparam.lba, nparam.count)
                 ELSE wanted
    /\ got' = IF reset THEN <<>>
              ELSE IF dev_valid /\ ready THEN Append(got, dev_data) ELSE got

\* The stretched reset of iop_top, a register of this clock.
Resets == reset' \in IF reset THEN BOOLEAN ELSE {FALSE, ResetAgain /\ commands = 1}

IopSamples(both) ==
  /\ \E t \in Sampled(both, we_tog, we_tog') : we_ff' = <<t, we_ff[1], we_ff[2]>>
  /\ \E t \in Sampled(both, done_tog, done_tog') : done_ff' = <<t, done_ff[1], done_ff[2]>>
  /\ \E a \in SampledBits(both, fill_addr, fill_addr', Position) : addr_ff' = <<a, addr_ff[1]>>
  /\ \E d \in SampledBits(both, fill_data, fill_data', {fill_data, fill_data', Mixed}) :
       data_ff' = <<d, data_ff[1]>>

-----------------------------------------------------------------------------
\* The edges of one clock, or of both.
Tick(sys, iop) ==
  /\ iop => since + (IF sys THEN 1 ELSE 0) \in {3, 4}
  /\ ~iop => since < 4
  /\ since' = IF iop THEN 0 ELSE since + 1
  /\ IF sys THEN SysEdge ELSE UNCHANGED sysVars
  /\ IF iop THEN IopEdge /\ Resets ELSE UNCHANGED <<iopVars, reset>>
  /\ sys => SysSamples(iop)
  /\ iop => IopSamples(sys)

Next ==
  /\ UNCHANGED <<present, enable>>
  /\ \/ Tick(TRUE, FALSE)
     \/ Tick(FALSE, TRUE)
     \/ Tick(TRUE, TRUE)

Spec == Init /\ [][Next]_vars

\* The clocks run; the HBM answers, the host goes on serving, the DMA takes words.
Fairness ==
  /\ WF_vars(Next)
  /\ []<>(src_state # "AR") /\ []<>(src_state # "R")
  /\ []<>(enable \/ host = "POLL") /\ []<>(enable \/ host # "POLL" \/ ~want)
  /\ []<>~dev_valid
FairSpec == Spec /\ Fairness

-----------------------------------------------------------------------------
(* Properties. *)

\* The DMA gets the words of the sectors the driver asked for, in order, none
\* shifted, repeated, mixed or of another sector, though they cross between two
\* clocks with no handshake but their spacing.
SectorsDelivered == IsPrefix(got, wanted)

\* A read reports its end when all its words are with the DMA.
ReadEndsDelivered == rd_state = "RD_FINISH" => got = wanted

\* What the DMA engine relies on: a word on offer stays, unchanged, until it is
\* taken, and then there is none for a cycle.
DeviceContract ==
  [][~reset =>
       /\ dev_valid /\ dev_valid' => UNCHANGED dev_data
       /\ dev_valid /\ ~dev_valid' => got' = Append(got, dev_data)]_vars

\* A read that was begun ends with the flag of I_STAT, unless the IOP is reset.
ReadCompletes == rd_state # "RD_IDLE" ~> (istat \/ reset)
=============================================================================
