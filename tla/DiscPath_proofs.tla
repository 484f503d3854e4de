--------------------------- MODULE DiscPath_proofs ---------------------------
(***************************************************************************)
(* Proofs about DiscPath, for every value of its constants: sectors reach  *)
(* the DMA whole and in order though they cross between two clocks.        *)
(* DiscInv is inductive when the throttle and the host's pause are long    *)
(* enough for a pulse to pass (Spaced).                                    *)
(***************************************************************************)
EXTENDS DiscPath, Integers, SequenceTheorems, TLAPS

\* The distances the crossings rely on (the board has a throttle of 8, and a host
\* behind PCIe).
Spaced == Throttle >= 6 /\ HostGap >= 15

-----------------------------------------------------------------------------
(* The invariant. *)

ReadState == {"RD_IDLE", "RD_FETCH", "RD_SEND", "RD_FINISH"}
SourceState == {"IDLE", "AR", "R", "EMIT", "DRAIN", "DONE", "WAIT"}

ClockTypes == since \in 0..4 /\ reset \in BOOLEAN /\ enable \in BOOLEAN
SyncTypes ==
  /\ we_tog \in BOOLEAN /\ done_tog \in BOOLEAN
  /\ \A k \in 1..3 : we_ff[k] \in BOOLEAN /\ done_ff[k] \in BOOLEAN
  /\ \A k \in 1..2 : /\ addr_ff[k] \in Position /\ data_ff[k] \in Word
                     /\ req_ff[k] \in BOOLEAN /\ lba_ff[k] \in Lba
CdvdTypes ==
  /\ nparam \in [lba : Lba, count : Lba]
  /\ rd_state \in ReadState /\ rd_lba \in Lba /\ rd_left \in Lba /\ rd_pos \in Position
  /\ rd_fresh \in BOOLEAN /\ secbuf \in [Position -> Word]
  /\ sec_req \in BOOLEAN /\ sec_lba \in Lba /\ dev_valid \in BOOLEAN /\ dev_data \in Word
  /\ got \in Seq(Word) /\ wanted \in Seq(Word)
SourceTypes ==
  /\ src_state \in SourceState /\ beat \in 0..Beats /\ word \in 0..SectorWords
  /\ emit \in 0..(BeatWords - 1) /\ gap \in 0..(Throttle - 1)
  /\ shift \in Seq(Word) /\ hbm \in Seq(Nat)
HostTypes ==
  /\ host \in {"POLL", "LBA", "WORDS", "DONE"} /\ host_lba \in Lba
  /\ host_word \in 0..SectorWords /\ host_wait \in 0..HostGap
  /\ sec_ptr \in Position /\ sec_ptr_q \in Position /\ sec_data \in Word
PulseTypes ==
  /\ sec_arm \in BOOLEAN /\ sec_go \in BOOLEAN
  /\ sec_data_re \in BOOLEAN /\ sec_done_re \in BOOLEAN
Types == ClockTypes /\ SyncTypes /\ CdvdTypes /\ SourceTypes /\ HostTypes /\ PulseTypes

\* A word, and the end of a sector, on their way through the stages of the
\* synchronizers; the end begins as a pulse of the host or as the last state of
\* the source.
WordNew == we_tog # we_ff[1]
WordOne == we_ff[1] # we_ff[2]
WordTwo == we_ff[2] # we_ff[3]
DoneNew == done_tog # done_ff[1]
DoneOne == done_ff[1] # done_ff[2]
DoneTwo == done_ff[2] # done_ff[3]
DonePending == sec_done_re \/ DoneNew \/ DoneOne \/ DoneTwo

\* The filler is at work on a sector.
Serving == src_state \notin {"IDLE", "WAIT"} \/ host # "POLL"

\* What position p of the buffer should hold.
RightIn(l, p) == (l * SectorWords + p) % Mixed
Right(p) == RightIn(rd_lba, p)

\* Two edges of sys after one of the IOP, its levels have crossed.
LevelsCross ==
  /\ since >= 1 => req_ff[1] = sec_req /\ lba_ff[1] = sec_lba
  /\ since >= 2 => req_ff[2] = sec_req /\ lba_ff[2] = sec_lba
  /\ want /\ sec_req => req_ff[1]

\* A request stands while the sector is fetched; none rises under a source at work.
Asking ==
  /\ sec_req => rd_state = "RD_FETCH" /\ rd_left # 0
  /\ src_state # "IDLE" => (sec_req => req_ff[1]) /\ (req_ff[1] => want)
  /\ (rd_state = "RD_FETCH" /\ ~sec_req) => src_state = "IDLE" /\ ~want /\ ~req_ff[1]

\* The sector address does not move while anyone looks at it.
AddressHeld ==
  /\ sec_req \/ req_ff[1] \/ want \/ Serving => sec_lba = rd_lba
  /\ want \/ Serving => lba_ff[1] = rd_lba
  /\ Serving => lba_ff[2] = rd_lba
  /\ host \in {"WORDS", "DONE"} => host_lba = rd_lba

\* One end is on its way at a time, and none while the filler is at work; the host
\* looks for a new request only when the last one must be gone.
DoneInv ==
  /\ Serving => ~DonePending
  /\ sec_done_re => ~DoneNew /\ ~DoneOne /\ ~DoneTwo
  /\ DoneNew => ~DoneOne /\ ~DoneTwo
  /\ DoneOne => ~DoneTwo
  /\ enable /\ DonePending =>
       src_state = "WAIT" \/ (src_state = "IDLE" /\ ~want /\ ~req_ff[1] /\ ~sec_req)
  /\ ~enable => /\ sec_done_re => host_wait = 0
                /\ DoneNew => host_wait <= since + 1
                /\ DoneOne => host_wait <= since + 5
                /\ DoneTwo => host_wait <= since + 9

\* While words are sent, or the next request is still to come, the filler rests.
Resting ==
  rd_state = "RD_SEND" \/ (rd_state = "RD_FETCH" /\ ~sec_req) => ~Serving /\ ~DonePending
Sending ==
  rd_state = "RD_SEND" =>
    /\ ~sec_req /\ rd_left # 0
    /\ IF enable
       THEN \/ (src_state = "WAIT" /\ since <= 2 /\ ~rd_fresh)
            \/ (src_state = "IDLE" /\ ~want /\ ~req_ff[1])
       ELSE want \/ req_ff[1] => host_wait <= since + 13

\* Of sector l, q are the words still to spend of the b-th beat, from the e-th on,
\* and w words are spent; q are the addresses of beats still to come after b.
BeatLeft(b, w, e, q, l) ==
  /\ b \in 1..Beats /\ w = (b - 1) * BeatWords + e
  /\ Len(q) = BeatWords - e
  /\ \A k \in 1..(BeatWords - e) : q[k] = RightIn(l, w + k - 1)
BurstLeft(b, q, l) ==
  \A k \in 1..Len(q) : q[k] = l * SectorWords + (b + k - 1) * BeatWords

\* The words of a beat are spent one by one; those of the host pass the pointer.
SourceInv ==
  /\ ~enable => src_state = "IDLE"
  /\ src_state # "EMIT" => emit = 0 /\ gap = 0
  /\ src_state \in {"AR", "R"} => beat < Beats /\ word = beat * BeatWords
  /\ src_state = "EMIT" => BeatLeft(beat, word, emit, shift, rd_lba)
  /\ src_state \in {"R", "EMIT"} => BurstLeft(beat, hbm, rd_lba)
InWords == host \in {"WORDS", "DONE"} /\ host_word > 0
HostInv ==
  /\ enable => host = "POLL" /\ ~sec_done_re
  /\ host = "WORDS" => host_word < SectorWords
  /\ host = "DONE" => host_word = SectorWords
  /\ sec_data_re <=> InWords /\ host_wait = 0
  /\ sec_arm <=> InWords /\ host_wait = 1
  /\ sec_go <=> InWords /\ host_wait = 2
  /\ InWords => /\ sec_data = Right(host_word - 1)
                /\ host_wait = 0 => sec_ptr = host_word - 1
                /\ host_wait # 0 => sec_ptr_q = host_word - 1 /\ sec_ptr = host_word % SectorWords
  /\ ~InWords /\ ~sec_done_re => sec_ptr = 0

\* What the stages carry is right, and what was sent is in the buffer or in a stage.
Carried ==
  /\ WordNew => IF enable THEN src_state = "EMIT" /\ gap \in 1..(since + 1)
                          ELSE InWords /\ host_wait \in 3..(since + 3)
  /\ WordOne => data_ff[1] = Right(addr_ff[1])
  /\ WordTwo => data_ff[2] = Right(addr_ff[2])
Sent(p) ==
  \/ src_state \in {"AR", "R"} /\ p < word
  \/ src_state = "EMIT" /\ (p < word \/ (p = word /\ gap # 0))
  \/ src_state \in {"DRAIN", "DONE"}
  \/ InWords /\ (p < host_word - 1 \/ (p = host_word - 1 /\ host_wait > 2))
  \/ DonePending
Landed ==
  \A p \in Position : Sent(p) => \/ secbuf[p] = Right(p)
                                 \/ WordNew /\ fill_addr = p
                                 \/ WordOne /\ addr_ff[1] = p
                                 \/ WordTwo /\ addr_ff[2] = p
\* The end does not overtake the last word.
InOrder ==
  ~Serving /\ ~sec_done_re /\ ~DoneNew => /\ ~WordOne
                                          /\ ~DoneOne => ~WordTwo

\* Of the words w of the reads the DMA has g; n more are to come, those of sector l
\* from the f-th on.
Owed(g, w, n, f, l) ==
  /\ Len(w) = Len(g) + n
  /\ \A k \in 1..Len(g) : g[k] = w[k]
  /\ \A k \in 1..n : w[Len(g) + k] = RightIn(l, f + k - 1)
Left == IF rd_state = "RD_FETCH" THEN rd_left * SectorWords
        ELSE IF rd_state = "RD_SEND" THEN rd_left * SectorWords - rd_pos
        ELSE 0
From == IF rd_state = "RD_SEND" THEN rd_pos ELSE 0
Delivery ==
  /\ rd_state = "RD_SEND" => \A p \in Position : secbuf[p] = Right(p)
  /\ dev_valid <=> rd_state = "RD_SEND" /\ rd_fresh
  /\ dev_valid => dev_data = secbuf[rd_pos]
  /\ Owed(got, wanted, Left, From, rd_lba)

DiscInv ==
  /\ Types /\ LevelsCross /\ Asking /\ AddressHeld /\ DoneInv /\ Resting /\ Sending
  /\ SourceInv /\ HostInv /\ Carried /\ Landed /\ InOrder /\ Delivery

-----------------------------------------------------------------------------
(* What one edge does. *)

\* The source: it stays where it is, or goes on.
SourceStays ==
  /\ src_state \in {"IDLE", "AR", "R", "DRAIN", "WAIT"}
  /\ (src_state = "IDLE" => ~want) /\ (src_state = "WAIT" => want)
  /\ UNCHANGED <<src_state, beat, word, shift, emit, gap, hbm>>
SourceStarts ==
  /\ src_state = "IDLE" /\ want /\ src_state' = "AR" /\ beat' = 0 /\ word' = 0
  /\ UNCHANGED <<shift, emit, gap, hbm>>
SourceAsked ==
  /\ src_state = "AR" /\ src_state' = "R"
  /\ hbm' = [i \in 1..Burst |-> ar_addr(sector) + (i - 1) * BeatWords]
  /\ UNCHANGED <<beat, word, shift, emit, gap>>
SourceFilled ==
  /\ src_state = "R" /\ src_state' = "EMIT" /\ hbm # <<>>
  /\ shift' = BeatAt(Head(hbm)) /\ hbm' = Tail(hbm) /\ beat' = beat + 1
  /\ UNCHANGED <<word, emit, gap>>
SourceHolds == SourceGap /\ UNCHANGED hbm
SourceSpends == SourceWord /\ UNCHANGED hbm
SourceDrained ==
  /\ src_state = "DRAIN" /\ src_state' = "DONE"
  /\ UNCHANGED <<beat, word, shift, emit, gap, hbm>>
SourceTells ==
  /\ src_state = "DONE" /\ src_state' = "WAIT"
  /\ UNCHANGED <<beat, word, shift, emit, gap, hbm>>
SourceRests ==
  /\ src_state = "WAIT" /\ ~want /\ src_state' = "IDLE"
  /\ UNCHANGED <<beat, word, shift, emit, gap, hbm>>
SourceStep ==
  \/ SourceStays \/ SourceStarts \/ SourceAsked \/ SourceFilled \/ SourceHolds
  \/ SourceSpends \/ SourceDrained \/ SourceTells \/ SourceRests
SourceOff == UNCHANGED <<src_state, beat, word, shift, emit, gap, hbm>>

\* The host: it lets a cycle pass, or accesses a register.
HostWaits ==
  /\ host_wait' = (IF host_wait < HostGap THEN host_wait + 1 ELSE host_wait)
  /\ sec_data_re' = FALSE /\ sec_done_re' = FALSE
  /\ UNCHANGED <<host, host_lba, host_word, sec_data>>
HostPolls ==
  /\ host = "POLL" /\ want /\ host' = "LBA"
  /\ sec_data_re' = FALSE /\ sec_done_re' = FALSE
  /\ UNCHANGED <<host_lba, host_word, sec_data>>
HostReads ==
  /\ host = "LBA" /\ host' = "WORDS" /\ host_lba' = sector /\ host_word' = 0
  /\ sec_data_re' = FALSE /\ sec_done_re' = FALSE
  /\ UNCHANGED sec_data
HostWrites ==
  /\ host = "WORDS" /\ host_word < SectorWords
  /\ sec_data' = host_lba * SectorWords + host_word
  /\ sec_data_re' = TRUE /\ sec_done_re' = FALSE /\ host_word' = host_word + 1
  /\ host' = IF host_word = SectorWords - 1 THEN "DONE" ELSE "WORDS"
  /\ UNCHANGED host_lba
HostEnds ==
  /\ host = "DONE" /\ host' = "POLL" /\ sec_data_re' = FALSE /\ sec_done_re' = TRUE
  /\ UNCHANGED <<host_lba, host_word, sec_data>>
HostActs ==
  /\ host_wait = HostGap /\ host_wait' = 0
  /\ HostPolls \/ HostReads \/ HostWrites \/ HostEnds
HostStep == (HostWaits \/ HostActs) /\ FillPointer
HostOff ==
  /\ sec_data_re' = FALSE /\ sec_done_re' = FALSE /\ sec_arm' = FALSE /\ sec_go' = FALSE
  /\ UNCHANGED <<host, host_lba, host_word, host_wait, sec_data, sec_ptr, sec_ptr_q>>

\* The drive: its reset, or one of the arms of its engine, and what the DMA took.
DriveResets ==
  /\ reset /\ rd_state' = "RD_IDLE" /\ rd_fresh' = FALSE /\ sec_req' = FALSE /\ dev_valid' = FALSE
  /\ got' = <<>> /\ wanted' = <<>>
  /\ UNCHANGED <<rd_lba, rd_left, rd_pos>>
DriveIdles ==
  /\ rd_state = "RD_IDLE" /\ rd_state' = "RD_IDLE" /\ UNCHANGED <<got, wanted>>
  /\ UNCHANGED <<rd_lba, rd_left, rd_pos, rd_fresh, sec_req, dev_valid>>
DriveBegins ==
  /\ rd_state = "RD_IDLE" /\ Quiet /\ rd_state' = "RD_FETCH"
  /\ rd_lba' = nparam.lba /\ rd_left' = nparam.count
  /\ got' = got /\ wanted' = wanted \o SectorsOf(nparam.lba, nparam.count)
  /\ UNCHANGED <<rd_pos, rd_fresh, sec_req, dev_valid>>
DriveOver ==
  /\ rd_state = "RD_FETCH" /\ rd_left = 0 /\ rd_state' = "RD_FINISH" /\ UNCHANGED <<got, wanted>>
  /\ UNCHANGED <<rd_lba, rd_left, rd_pos, rd_fresh, sec_req, dev_valid>>
DriveAsks ==
  /\ rd_state = "RD_FETCH" /\ rd_left # 0 /\ ~done /\ rd_state' = "RD_FETCH" /\ sec_req' = TRUE
  /\ UNCHANGED <<got, wanted>>
  /\ UNCHANGED <<rd_lba, rd_left, rd_pos, rd_fresh, dev_valid>>
DriveFilled ==
  /\ rd_state = "RD_FETCH" /\ rd_left # 0 /\ done /\ rd_state' = "RD_SEND" /\ sec_req' = FALSE
  /\ rd_pos' = 0 /\ rd_fresh' = FALSE /\ UNCHANGED <<got, wanted>>
  /\ UNCHANGED <<rd_lba, rd_left, dev_valid>>
DriveOffers ==
  /\ rd_state = "RD_SEND" /\ ~rd_fresh /\ rd_state' = "RD_SEND" 
  /\ rd_fresh' = TRUE /\ dev_valid' = TRUE
  /\ UNCHANGED <<got, wanted>>
  /\ UNCHANGED <<rd_lba, rd_left, rd_pos, sec_req>>
DriveHolds ==
  /\ rd_state = "RD_SEND" /\ rd_fresh /\ rd_state' = "RD_SEND" /\ UNCHANGED <<got, wanted>>
  /\ UNCHANGED <<rd_lba, rd_left, rd_pos, rd_fresh, sec_req, dev_valid>>
DriveSends ==
  /\ rd_state = "RD_SEND" /\ rd_fresh /\ dev_valid' = FALSE /\ rd_fresh' = FALSE
  /\ got' = Append(got, dev_data) /\ wanted' = wanted /\ UNCHANGED sec_req
DriveNext ==
  /\ DriveSends /\ rd_pos # SectorWords - 1 /\ rd_state' = "RD_SEND" /\ rd_pos' = rd_pos + 1
  /\ UNCHANGED <<rd_lba, rd_left>>
DriveLast ==
  /\ DriveSends /\ rd_pos = SectorWords - 1 /\ rd_state' = "RD_FETCH"
  /\ rd_lba' = (rd_lba + 1) % LbaSpace /\ rd_left' = rd_left - 1 /\ UNCHANGED rd_pos
DriveEnds ==
  /\ rd_state = "RD_FINISH" /\ rd_state' = "RD_IDLE" /\ UNCHANGED <<got, wanted>>
  /\ UNCHANGED <<rd_lba, rd_left, rd_pos, rd_fresh, sec_req, dev_valid>>
DriveStep ==
  \/ DriveResets \/ DriveIdles \/ DriveBegins \/ DriveOver \/ DriveAsks \/ DriveFilled
  \/ DriveOffers \/ DriveHolds \/ DriveNext \/ DriveLast \/ DriveEnds
DriveEdge ==
  /\ DriveStep
  /\ nparam' \in [lba : Lba, count : Lba]
  /\ secbuf' = (IF we THEN [secbuf EXCEPT ![addr_ff[2]] = data_ff[2]] ELSE secbuf)
  /\ dev_data' = secbuf[rd_pos] /\ sec_lba' = rd_lba
DriveOff ==
  UNCHANGED <<nparam, rd_state, rd_lba, rd_left, rd_pos, rd_fresh, secbuf, sec_req, sec_lba,
              dev_valid, dev_data, got, wanted>>

\* The stages of the synchronizers.
StagesShift(both) ==
  /\ we_ff'[1] \in Sampled(both, we_tog, we_tog') /\ we_ff'[2] = we_ff[1] /\ we_ff'[3] = we_ff[2]
  /\ done_ff'[1] \in Sampled(both, done_tog, done_tog')
  /\ done_ff'[2] = done_ff[1] /\ done_ff'[3] = done_ff[2]
  /\ addr_ff'[1] \in SampledBits(both, fill_addr, fill_addr', Position) /\ addr_ff'[2] = addr_ff[1]
  /\ data_ff'[1] \in SampledBits(both, fill_data, fill_data', {fill_data, fill_data', Mixed})
  /\ data_ff'[2] = data_ff[1]
LevelsShift(both) ==
  /\ req_ff'[1] \in Sampled(both, sec_req, sec_req') /\ req_ff'[2] = req_ff[1]
  /\ lba_ff'[1] \in SampledBits(both, sec_lba, sec_lba', Lba) /\ lba_ff'[2] = lba_ff[1]

\* An edge of sys (s), of the IOP (i), or of both.
Edge(s, i) ==
  /\ s \in BOOLEAN /\ i \in BOOLEAN /\ (s \/ i)
  /\ UNCHANGED <<present, enable>> /\ reset' \in BOOLEAN
  /\ IF i THEN since' = 0 /\ since \in (IF s THEN {2, 3} ELSE {3, 4})
          ELSE since < 4 /\ since' = since + 1
  /\ IF s THEN /\ IF enable THEN SourceStep /\ HostOff ELSE SourceOff /\ HostStep
               /\ we_tog' = (we_tog # fill_we) /\ done_tog' = (done_tog # fill_done)
               /\ LevelsShift(i)
          ELSE /\ SourceOff /\ UNCHANGED <<we_tog, done_tog, req_ff, lba_ff>>
               /\ UNCHANGED <<host, host_lba, host_word, host_wait, sec_data, sec_ptr, sec_ptr_q,
                              sec_data_re, sec_done_re, sec_arm, sec_go>>
  /\ IF i THEN DriveEdge /\ StagesShift(s)
          ELSE DriveOff /\ UNCHANGED <<we_ff, done_ff, addr_ff, data_ff>>

-----------------------------------------------------------------------------
(* The constants. *)

LEMMA Sizes ==
  /\ SectorWords \in Nat \ {0} /\ LbaSpace \in Nat \ {0} /\ Beats \in Nat \ {0}
  /\ BeatWords \in Nat \ {0} /\ Burst \in Nat \ {0} /\ Throttle \in Nat \ {0}
  /\ HostGap \in Nat /\ SectorWords = Beats * BeatWords
  /\ Mixed \in Nat \ {0} /\ Mixed = LbaSpace * SectorWords /\ Mixed = SectorWords * LbaSpace
  /\ Word = 0..Mixed /\ NoWord \in Word /\ 0 \in Word
BY CdvdAssumption, SourceAssumption, DiscPathAssumption DEF Mixed

\* The same without products, which slow the provers down.
LEMMA Counts ==
  /\ SectorWords \in Nat \ {0} /\ LbaSpace \in Nat \ {0} /\ Beats \in Nat \ {0}
  /\ BeatWords \in Nat \ {0} /\ Burst \in Nat \ {0} /\ Throttle \in Nat \ {0}
  /\ HostGap \in Nat
BY Sizes

LEMMA RightInWord ==
  ASSUME rd_lba \in Lba, NEW p \in Nat
  PROVE  Right(p) \in 0..(Mixed - 1) /\ Right(p) \in Word
<1>1. rd_lba * SectorWords + p \in Nat
  BY Sizes DEF Lba
<1>2. Right(p) \in 0..(Mixed - 1)
  BY <1>1, Sizes DEF Right, RightIn
<1> QED BY <1>2, Sizes

-----------------------------------------------------------------------------
(* Every step of the specification is an Edge. *)

LEMMA AccessFields ==
  ASSUME NEW w \in Accesses, nparam \in [lba : Lba, count : Lba]
  PROVE  /\ w.to = "nparam" => w.val \in [lba : Lba, count : Lba]
         /\ Command(w) => ~reset /\ rd_state = "RD_IDLE" /\ Quiet
<1>1. \A l \in LbaVals, n \in CountVals : [lba |-> l, count |-> n] \in [lba : Lba, count : Lba]
  BY DiscPathAssumption
<1>2. \A u \in Params : u.to = "nparam" /\ u.val \in [lba : Lba, count : Lba]
  BY <1>1 DEF Params
<1>3. \A u \in Commands : u.to = "ncmd"
  BY DEF Commands
<1>4. w \in Commands \cup Params => ~reset /\ rd_state = "RD_IDLE" /\ Quiet
  <2>1. NoAccess \notin Commands \cup Params
    BY <1>2, <1>3 DEF NoAccess
  <2>2. [to |-> "istat", val |-> 1] \notin Commands \cup Params
    BY <1>2, <1>3
  <2>3. [to |-> "readerr", val |-> 0] \notin Commands \cup Params
    BY <1>2, <1>3
  <2> QED BY <2>1, <2>2, <2>3 DEF Accesses
<1>5. w = NoAccess \/ w = [to |-> "istat", val |-> 1] \/ w = [to |-> "readerr", val |-> 0]
      \/ w \in Commands \/ w \in Params
  BY DEF Accesses
<1> QED BY <1>2, <1>3, <1>4, <1>5 DEF Command, NoAccess

LEMMA DriveSteps ==
  ASSUME Types, dev_valid <=> rd_state = "RD_SEND" /\ rd_fresh, IopEdge
  PROVE  DriveEdge
<1>0. PICK w \in Accesses, ready \in BOOLEAN :
        /\ ready => dev_valid
        /\ CdvdClk(reset, w, present, we, addr_ff[2], data_ff[2], done, ready)
        /\ wanted' = IF reset THEN <<>>
                     ELSE IF NewRead(w, present) THEN wanted \o SectorsOf(nparam.lba, nparam.count)
                     ELSE wanted
        /\ got' = IF reset THEN <<>>
                  ELSE IF dev_valid /\ ready THEN Append(got, dev_data) ELSE got
  BY DEF IopEdge
<1>1. /\ nparam \in [lba : Lba, count : Lba] /\ reset \in BOOLEAN /\ rd_state \in ReadState
      /\ rd_fresh \in BOOLEAN /\ dev_valid \in BOOLEAN /\ sec_req \in BOOLEAN
  BY DEF Types, CdvdTypes, ClockTypes
<1>2. /\ w.to = "nparam" => w.val \in [lba : Lba, count : Lba]
      /\ NewRead(w, present) => ~reset /\ rd_state = "RD_IDLE" /\ Quiet
  BY <1>1, AccessFields DEF NewRead
<1>3. /\ secbuf' = (IF we THEN [secbuf EXCEPT ![addr_ff[2]] = data_ff[2]] ELSE secbuf)
      /\ dev_data' = secbuf[rd_pos] /\ sec_lba' = rd_lba
  BY <1>0 DEF CdvdClk
<1>4. CASE reset
  <2>1. CdvdReset
    BY <1>0, <1>4 DEF CdvdClk
  <2>2. DriveResets /\ nparam' = nparam
    BY <1>0, <1>4, <2>1, Zenon DEF CdvdReset, DriveResets
  <2> QED BY <1>1, <1>3, <2>2 DEF DriveEdge, DriveStep
<1>5. CASE ~reset
  <2>1. CdvdRun(w, present, done, ready)
    BY <1>0, <1>5 DEF CdvdClk
  <2>2. nparam' \in [lba : Lba, count : Lba]
    <3>1. nparam' = IF w.to = "nparam" THEN w.val ELSE nparam
      BY <2>1 DEF CdvdRun, ReadIdle, ReadOver, ReadAsks, ReadFilled, ReadOffers, ReadHolds,
                  ReadTaken, ReadFinish, Goes, BusAccess
    <3> QED BY <1>1, <1>2, <3>1
  <2>3. ASSUME rd_state # "RD_IDLE"
        PROVE  /\ wanted' = wanted
               /\ \A st, lba, left : Reading(w, present, st, lba, left) =>
                                       rd_state' = st /\ rd_lba' = lba /\ rd_left' = left
    BY <1>0, <1>2, <1>5, <2>3 DEF Reading
  <2>4. ASSUME rd_state # "RD_SEND" \/ ~rd_fresh \/ ~ready PROVE got' = got
    BY <1>0, <1>5, <2>4
  <2>5. CASE ReadIdle(w, present)
    <3>1. CASE NewRead(w, present)
      <4>1. DriveBegins
        BY <1>0, <1>2, <1>5, <2>4, <2>5, <3>1 DEF ReadIdle, Goes, Reading, DriveBegins
      <4> QED BY <1>3, <2>2, <4>1 DEF DriveEdge, DriveStep
    <3>2. CASE ~NewRead(w, present)
      <4>1. DriveIdles
        BY <1>0, <1>5, <2>4, <2>5, <3>2 DEF ReadIdle, Goes, Reading, DriveIdles
      <4> QED BY <1>3, <2>2, <4>1 DEF DriveEdge, DriveStep
    <3> QED BY <3>1, <3>2
  <2>6. CASE ReadOver(w, present)
    <3>1. DriveOver
      BY <2>3, <2>4, <2>6 DEF ReadOver, Goes, DriveOver
    <3> QED BY <1>3, <2>2, <3>1 DEF DriveEdge, DriveStep
  <2>7. CASE ReadAsks(w, present, done)
    <3>1. DriveAsks
      BY <2>3, <2>4, <2>7 DEF ReadAsks, Goes, DriveAsks
    <3> QED BY <1>3, <2>2, <3>1 DEF DriveEdge, DriveStep
  <2>8. CASE ReadFilled(w, present, done)
    <3>1. DriveFilled
      BY <2>3, <2>4, <2>8 DEF ReadFilled, Goes, DriveFilled
    <3> QED BY <1>3, <2>2, <3>1 DEF DriveEdge, DriveStep
  <2>9. CASE ReadOffers(w, present)
    <3>1. DriveOffers
      BY <2>3, <2>4, <2>9 DEF ReadOffers, Goes, DriveOffers
    <3> QED BY <1>3, <2>2, <3>1 DEF DriveEdge, DriveStep
  <2>10. CASE ReadHolds(w, present, ready)
    <3>1. DriveHolds
      BY <2>3, <2>4, <2>10 DEF ReadHolds, Goes, DriveHolds
    <3> QED BY <1>3, <2>2, <3>1 DEF DriveEdge, DriveStep
  <2>11. CASE ReadTaken(w, present, ready)
    <3>1. got' = Append(got, dev_data) /\ wanted' = wanted
      BY <1>0, <1>5, <2>3, <2>11 DEF ReadTaken
    <3>2. DriveNext \/ DriveLast
      BY <2>3, <2>11, <3>1 DEF ReadTaken, Goes, DriveNext, DriveLast, DriveSends
    <3> QED BY <1>3, <2>2, <3>2 DEF DriveEdge, DriveStep
  <2>12. CASE ReadFinish(w, present)
    <3>1. DriveEnds
      BY <2>3, <2>4, <2>12 DEF ReadFinish, DriveEnds
    <3> QED BY <1>3, <2>2, <3>1 DEF DriveEdge, DriveStep
  <2> QED BY <2>1, <2>5, <2>6, <2>7, <2>8, <2>9, <2>10, <2>11, <2>12 DEF CdvdRun
<1> QED BY <1>4, <1>5

LEMMA SourceSteps ==
  ASSUME Types, Source
  PROVE  /\ enable => SourceStep
         /\ ~enable /\ src_state = "IDLE" => SourceOff
<1>0. PICK arready \in BOOLEAN, rvalid \in BOOLEAN :
        /\ Hbm(arready, rvalid)
        /\ SourceClk(want, enable, arready, rvalid, IF rvalid THEN BeatAt(Head(hbm)) ELSE <<>>)
  BY DEF Source
<1>1. /\ arready => src_state = "AR" /\ hbm = <<>>
      /\ rvalid => src_state = "R" /\ hbm # <<>>
      /\ ~arready /\ ~rvalid => hbm' = hbm
      /\ arready => hbm' = [i \in 1..Burst |-> ar_addr(sector) + (i - 1) * BeatWords]
      /\ rvalid /\ ~arready => hbm' = Tail(hbm)
  BY <1>0, Zenon DEF Hbm
<1> DEFINE data == IF rvalid THEN BeatAt(Head(hbm)) ELSE <<>>
<1>2. rvalid => data = BeatAt(Head(hbm))
  OBVIOUS
<1>3. SourceClk(want, enable, arready, rvalid, data)
  BY <1>0
<1> HIDE DEF data
<1>4. CASE SourceIdle(want, enable)
  BY <1>1, <1>4 DEF SourceIdle, sourceVars, SourceStep, SourceStays, SourceOff
<1>5. CASE SourceStart(want, enable)
  BY <1>1, <1>5 DEF SourceStart, SourceStep, SourceStarts
<1>6. CASE SourceAsk(arready)
  <2>1. CASE arready
    BY <1>1, <1>6, <2>1 DEF SourceAsk, SourceStep, SourceAsked
  <2>2. CASE ~arready
    BY <1>1, <1>6, <2>2 DEF SourceAsk, SourceStep, SourceStays
  <2> QED BY <2>1, <2>2
<1>7. CASE SourceBeat(rvalid, data)
  <2>1. CASE rvalid
    BY <1>1, <1>2, <1>7, <2>1 DEF SourceBeat, SourceStep, SourceFilled
  <2>2. CASE ~rvalid
    BY <1>1, <1>7, <2>2 DEF SourceBeat, SourceStep, SourceStays
  <2> QED BY <2>1, <2>2
<1>8. CASE SourceGap
  BY <1>1, <1>8 DEF SourceGap, SourceStep, SourceHolds
<1>9. CASE SourceWord
  BY <1>1, <1>9 DEF SourceWord, SourceStep, SourceSpends
<1>10. CASE SourceDrain
  BY <1>1, <1>10 DEF SourceDrain, SourceStep, SourceDrained, SourceStays
<1>11. CASE SourceDone
  BY <1>1, <1>11 DEF SourceDone, SourceStep, SourceTells
<1>12. CASE SourceWait(want)
  BY <1>1, <1>12 DEF SourceWait, SourceStep, SourceRests, SourceStays
<1> QED BY <1>3, <1>4, <1>5, <1>6, <1>7, <1>8, <1>9, <1>10, <1>11, <1>12 DEF SourceClk

LEMMA HostSteps ==
  ASSUME Types, HostInv, DoneInv, Spaced, HostAccess \/ HostPause, FillPointer
  PROVE  /\ enable => HostOff
         /\ ~enable => HostStep
<1>1. enable => ~InWords /\ ~sec_done_re
  BY DEF HostInv, InWords
<1>2. CASE HostPause
  BY <1>1, <1>2 DEF HostPause, FillPointer, HostStep, HostWaits, HostOff, HostInv, Types, PulseTypes
<1>3. CASE HostAccess
  <2>1. ~enable /\ host_wait = HostGap /\ host_wait' = 0
    BY <1>3 DEF HostAccess
  <2>2. ~sec_data_re /\ ~sec_done_re /\ sec_data_re = FALSE /\ sec_done_re = FALSE
    BY <2>1, Sizes DEF HostInv, DoneInv, Spaced, Types, PulseTypes
  <2>3. HostPolls \/ HostReads \/ HostWrites \/ HostEnds
    BY <1>3, <2>2, Zenon DEF HostAccess, HostPolls, HostReads, HostWrites, HostEnds
  <2> QED BY <1>3, <2>1, <2>3 DEF HostStep, HostActs
<1> QED BY <1>2, <1>3

LEMMA Crossings ==
  ASSUME Types, NEW s \in BOOLEAN
  PROVE  /\ SysSamples(s) => LevelsShift(s)
         /\ IopSamples(s) => StagesShift(s)
<1>1. ASSUME SysSamples(s) PROVE LevelsShift(s)
  <2>1. PICK r \in Sampled(s, sec_req, sec_req') : req_ff' = <<r, req_ff[1]>>
    BY <1>1 DEF SysSamples
  <2>2. PICK a \in SampledBits(s, sec_lba, sec_lba', Lba) : lba_ff' = <<a, lba_ff[1]>>
    BY <1>1 DEF SysSamples
  <2>3. /\ req_ff'[1] = r /\ req_ff'[2] = req_ff[1]
        /\ lba_ff'[1] = a /\ lba_ff'[2] = lba_ff[1]
    BY <2>1, <2>2
  <2> QED BY <2>1, <2>2, <2>3, Zenon DEF LevelsShift
<1>2. ASSUME IopSamples(s) PROVE StagesShift(s)
  <2>1. PICK t \in Sampled(s, we_tog, we_tog') : we_ff' = <<t, we_ff[1], we_ff[2]>>
    BY <1>2 DEF IopSamples
  <2>2. PICK u \in Sampled(s, done_tog, done_tog') : done_ff' = <<u, done_ff[1], done_ff[2]>>
    BY <1>2 DEF IopSamples
  <2>3. PICK a \in SampledBits(s, fill_addr, fill_addr', Position) : addr_ff' = <<a, addr_ff[1]>>
    BY <1>2 DEF IopSamples
  <2>4. PICK d \in SampledBits(s, fill_data, fill_data', {fill_data, fill_data', Mixed}) :
          data_ff' = <<d, data_ff[1]>>
    BY <1>2 DEF IopSamples
  <2>5. /\ we_ff'[1] \in Sampled(s, we_tog, we_tog') /\ we_ff'[2] = we_ff[1] /\ we_ff'[3] = we_ff[2]
    BY <2>1
  <2>6. /\ done_ff'[1] \in Sampled(s, done_tog, done_tog')
        /\ done_ff'[2] = done_ff[1] /\ done_ff'[3] = done_ff[2]
    BY <2>2
  <2>7. /\ addr_ff'[1] \in SampledBits(s, fill_addr, fill_addr', Position)
        /\ addr_ff'[2] = addr_ff[1]
    BY <2>3
  <2>8. /\ data_ff'[1] \in SampledBits(s, fill_data, fill_data', {fill_data, fill_data', Mixed})
        /\ data_ff'[2] = data_ff[1]
    BY <2>4
  <2> QED BY <2>5, <2>6, <2>7, <2>8 DEF StagesShift
<1> QED BY <1>1, <1>2

LEMMA NextEdge ==
  ASSUME DiscInv, Spaced, Next
  PROVE  \E s, i \in BOOLEAN : Edge(s, i)
<1>1. PICK s \in BOOLEAN, i \in BOOLEAN : (s \/ i) /\ Tick(s, i)
  BY DEF Next
<1>2. UNCHANGED <<present, enable>> /\ reset' \in BOOLEAN
  BY <1>1 DEF Next, Tick, Resets, DiscInv, Types, ClockTypes
<1>3. since \in 0..4 /\ enable \in BOOLEAN /\ Types /\ HostInv /\ DoneInv
  BY DEF DiscInv, Types, ClockTypes
<1>4. IF i THEN since' = 0 /\ since \in (IF s THEN {2, 3} ELSE {3, 4})
          ELSE since < 4 /\ since' = since + 1
  BY <1>1, <1>3 DEF Tick
<1>5. IF s THEN /\ IF enable THEN SourceStep /\ HostOff ELSE SourceOff /\ HostStep
               /\ we_tog' = (we_tog # fill_we) /\ done_tog' = (done_tog # fill_done)
               /\ LevelsShift(i)
          ELSE /\ SourceOff /\ UNCHANGED <<we_tog, done_tog, req_ff, lba_ff>>
               /\ UNCHANGED <<host, host_lba, host_word, host_wait, sec_data, sec_ptr, sec_ptr_q,
                              sec_data_re, sec_done_re, sec_arm, sec_go>>
  <2>1. CASE s
    <3>1. SysEdge /\ SysSamples(i)
      BY <1>1, <2>1 DEF Tick
    <3>2. ~enable => src_state = "IDLE"
      BY DEF DiscInv, SourceInv
    <3>3. IF enable THEN SourceStep /\ HostOff ELSE SourceOff /\ HostStep
      BY <1>3, <3>1, <3>2, SourceSteps, HostSteps DEF SysEdge
    <3>4. LevelsShift(i)
      BY <1>3, <3>1, Crossings
    <3> QED BY <2>1, <3>1, <3>3, <3>4 DEF SysEdge
  <2>2. CASE ~s
    <3>1. UNCHANGED sysVars
      BY <1>1, <2>2 DEF Tick
    <3> QED BY <2>2, <3>1 DEF sysVars, sourceVars, hostVars, sysFF, SourceOff
  <2> QED BY <2>1, <2>2
<1>6. IF i THEN DriveEdge /\ StagesShift(s)
          ELSE DriveOff /\ UNCHANGED <<we_ff, done_ff, addr_ff, data_ff>>
  <2>1. CASE i
    <3>1. IopEdge /\ IopSamples(s)
      BY <1>1, <2>1 DEF Tick
    <3>2. dev_valid <=> rd_state = "RD_SEND" /\ rd_fresh
      BY DEF DiscInv, Delivery
    <3> QED BY <1>3, <2>1, <3>1, <3>2, DriveSteps, Crossings
  <2>2. CASE ~i
    <3>1. UNCHANGED iopVars
      BY <1>1, <2>2 DEF Tick
    <3> QED BY <2>2, <3>1 DEF iopVars, cdvdVars, iopFF, DriveOff
  <2> QED BY <2>1, <2>2
<1>7. Edge(s, i)
  BY <1>1, <1>2, <1>4, <1>5, <1>6, Zenon DEF Edge
<1> QED BY <1>7

-----------------------------------------------------------------------------
(* Numbers and sequences. *)

LEMMA BeatBounds ==
  ASSUME NEW b \in 1..Beats, NEW e \in 0..(BeatWords - 1)
  PROVE  /\ (b - 1) * BeatWords \in Nat
         /\ (b - 1) * BeatWords + BeatWords = b * BeatWords
         /\ b * BeatWords <= SectorWords
         /\ (b - 1) * BeatWords + e + 1 <= SectorWords
<1>1. PICK c \in Nat : b = c + 1 /\ c + 1 <= Beats
  <2>1. b - 1 \in Nat /\ b = (b - 1) + 1 /\ b <= Beats
    BY Sizes
  <2> QED BY <2>1
<1>2. PICK d \in Nat : Beats = (c + 1) + d
  <2>1. Beats - (c + 1) \in Nat /\ Beats = (c + 1) + (Beats - (c + 1))
    BY <1>1, Sizes
  <2> QED BY <2>1
<1>3. /\ (c + 1) * BeatWords = c * BeatWords + BeatWords
      /\ c * BeatWords \in Nat /\ d * BeatWords \in Nat
      /\ ((c + 1) + d) * BeatWords = (c + 1) * BeatWords + d * BeatWords
  BY Sizes
<1>4. SectorWords = c * BeatWords + BeatWords + d * BeatWords
  BY <1>2, <1>3, Sizes
<1>5. b - 1 = c
  BY <1>1
<1>6. e + 1 <= BeatWords
  BY Sizes
<1>7. b * BeatWords = c * BeatWords + BeatWords
  BY <1>1, <1>3
<1> QED BY <1>3, <1>4, <1>5, <1>6, <1>7, Sizes

LEMMA FunctionIsSeq ==
  ASSUME NEW S, NEW n \in Nat, NEW f \in [1..n -> S]
  PROVE  f \in Seq(S) /\ Len(f) = n
BY SeqDef, LenProperties

LEMMA BeatAtType ==
  ASSUME NEW a \in Nat
  PROVE  /\ BeatAt(a) \in Seq(Word) /\ Len(BeatAt(a)) = BeatWords
         /\ \A i \in 1..BeatWords : BeatAt(a)[i] = (a + i - 1) % Mixed
<1>1. \A i \in 1..BeatWords : (a + i - 1) % Mixed \in Word
  <2>1. ASSUME NEW i \in 1..BeatWords PROVE (a + i - 1) % Mixed \in 0..(Mixed - 1)
    <3>1. a + i - 1 \in Nat
      BY Sizes
    <3> QED BY <3>1, Sizes
  <2> QED BY <2>1, Sizes
<1>2. BeatAt(a) \in [1..BeatWords -> Word]
  BY <1>1 DEF BeatAt
<1>3. BeatWords \in Nat
  BY Sizes
<1> QED BY <1>2, <1>3, FunctionIsSeq DEF BeatAt

LEMMA SectorsOfType ==
  ASSUME NEW l \in Lba, NEW c \in Lba
  PROVE  /\ c * SectorWords \in Nat
         /\ SectorsOf(l, c) \in Seq(Word) /\ Len(SectorsOf(l, c)) = c * SectorWords
         /\ \A i \in 1..(c * SectorWords) : SectorsOf(l, c)[i] = (l * SectorWords + i - 1) % Mixed
<1> DEFINE n == c * SectorWords
<1>1. n \in Nat /\ l * SectorWords \in Nat
  BY Sizes DEF Lba
<1> HIDE DEF n
<1>2. \A i \in 1..n : (l * SectorWords + i - 1) % Mixed \in Word
  <2>1. ASSUME NEW i \in 1..n PROVE (l * SectorWords + i - 1) % Mixed \in 0..(Mixed - 1)
    <3>1. l * SectorWords + i - 1 \in Nat
      BY <1>1
    <3> QED BY <3>1, Sizes
  <2> QED BY <2>1, Sizes
<1>3. SectorsOf(l, c) = [i \in 1..n |-> (l * SectorWords + i - 1) % Mixed]
  BY DEF SectorsOf, n
<1>4. SectorsOf(l, c) \in [1..n -> Word]
  BY <1>2, <1>3
<1>5. SectorsOf(l, c) \in Seq(Word) /\ Len(SectorsOf(l, c)) = n
  BY <1>1, <1>4, FunctionIsSeq
<1>6. \A i \in 1..n : SectorsOf(l, c)[i] = (l * SectorWords + i - 1) % Mixed
  BY <1>3
<1> QED BY <1>1, <1>5, <1>6 DEF n

LEMMA BurstType ==
  ASSUME NEW a \in Nat
  PROVE  /\ [i \in 1..Burst |-> a + (i - 1) * BeatWords] \in Seq(Nat)
         /\ Len([i \in 1..Burst |-> a + (i - 1) * BeatWords]) = Burst
<1>1. ASSUME NEW i \in 1..Burst PROVE a + (i - 1) * BeatWords \in Nat
  <2>1. i - 1 \in Nat
    BY Sizes
  <2>2. (i - 1) * BeatWords \in Nat
    BY <2>1, Sizes
  <2> QED BY <2>2
<1>2. [i \in 1..Burst |-> a + (i - 1) * BeatWords] \in [1..Burst -> Nat]
  BY <1>1
<1>3. Burst \in Nat
  BY Sizes
<1> QED BY <1>2, <1>3, FunctionIsSeq

-----------------------------------------------------------------------------
(* The invariant is inductive: the types. *)

LEMMA SourceTypesKept ==
  ASSUME DiscInv, NEW s, NEW i, Edge(s, i)
  PROVE  SourceTypes'
<1>1. SourceTypes /\ SourceInv /\ sector \in Nat
  BY DEF DiscInv, Types, SyncTypes, sector, Lba
<1>2. SourceStep \/ SourceOff
  BY DEF Edge
<1>3. CASE SourceStep
  <2>1. CASE SourceStays
    BY <1>1, <2>1, Counts DEF SourceStays, SourceTypes, SourceState
  <2>2. CASE SourceStarts
    BY <1>1, <2>2, Counts DEF SourceStarts, SourceTypes, SourceState
  <2>3. CASE SourceAsked
    <3>1. ar_addr(sector) \in Nat
      BY <1>1, Sizes DEF ar_addr, SourceTypes
    <3>2. hbm' \in Seq(Nat)
      BY <2>3, <3>1, BurstType DEF SourceAsked
    <3> QED BY <1>1, <2>3, <3>2 DEF SourceAsked, SourceTypes, SourceState
  <2>4. CASE SourceFilled
    <3>1. hbm # <<>> /\ hbm \in Seq(Nat)
      BY <1>1, <2>4 DEF SourceFilled, SourceTypes
    <3>2. Head(hbm) \in Nat /\ Tail(hbm) \in Seq(Nat)
      BY <3>1, HeadTailProperties
    <3>3. shift' \in Seq(Word) /\ hbm' \in Seq(Nat)
      BY <2>4, <3>2, BeatAtType DEF SourceFilled
    <3>4. beat' \in 0..Beats
      BY <1>1, <2>4, Counts DEF SourceFilled, SourceTypes, SourceInv
    <3> QED BY <1>1, <2>4, <3>3, <3>4 DEF SourceFilled, SourceTypes, SourceState
  <2>5. CASE SourceHolds
    BY <1>1, <2>5, Counts DEF SourceHolds, SourceGap, SourceTypes
  <2>6. CASE SourceSpends
    <3>1. src_state = "EMIT" /\ beat \in 1..Beats /\ emit \in 0..(BeatWords - 1)
      BY <1>1, <2>6 DEF SourceSpends, SourceWord, SourceInv, SourceTypes, BeatLeft
    <3>2. word' \in 0..SectorWords
      <4>1. word' = word + 1 /\ word = (beat - 1) * BeatWords + emit
        BY <1>1, <2>6, <3>1 DEF SourceSpends, SourceWord, SourceInv, BeatLeft
      <4>2. (beat - 1) * BeatWords \in Nat /\ (beat - 1) * BeatWords + emit + 1 <= SectorWords
        BY <3>1, BeatBounds
      <4> HIDE <1>1, <2>6
      <4> QED BY <3>1, <4>1, <4>2, Counts
    <3>3. Len(shift) > 0 /\ shift \in Seq(Word)
      BY <1>1, <3>1, Counts DEF SourceInv, SourceTypes, BeatLeft
    <3>4. shift' \in Seq(Word)
      <4>1. shift # <<>>
        BY <3>3
      <4> QED BY <2>6, <3>3, <4>1, HeadTailProperties DEF SourceSpends, SourceWord
    <3>5. emit' \in 0..(BeatWords - 1)
      BY <2>6, <3>1, Counts DEF SourceSpends, SourceWord
    <3> QED BY <1>1, <2>6, <3>2, <3>4, <3>5, Counts
            DEF SourceSpends, SourceWord, SourceTypes, SourceState
  <2>7. CASE SourceDrained \/ SourceTells \/ SourceRests
    BY <1>1, <2>7 DEF SourceDrained, SourceTells, SourceRests, SourceTypes, SourceState
  <2> QED BY <1>3, <2>1, <2>2, <2>3, <2>4, <2>5, <2>6, <2>7 DEF SourceStep
<1>4. CASE SourceOff
  BY <1>1, <1>4 DEF SourceOff, SourceTypes
<1> QED BY <1>2, <1>3, <1>4

LEMMA PulseTypesKept ==
  ASSUME DiscInv, NEW s, NEW i, Edge(s, i)
  PROVE  PulseTypes'
<1>1. PulseTypes
  BY DEF DiscInv, Types
<1> QED BY <1>1 DEF Edge, HostStep, HostOff, HostWaits, HostActs, HostPolls, HostReads, HostWrites,
                    HostEnds, FillPointer, PulseTypes

LEMMA HostTypesKept ==
  ASSUME DiscInv, NEW s, NEW i, Edge(s, i)
  PROVE  HostTypes'
<1>1. HostTypes /\ HostInv /\ sector \in Lba
  BY DEF DiscInv, Types, SyncTypes, sector
<1>2. HostStep \/ HostOff \/
      UNCHANGED <<host, host_lba, host_word, host_wait, sec_data, sec_ptr, sec_ptr_q,
                              sec_data_re, sec_done_re, sec_arm, sec_go>>
  BY DEF Edge
<1>3. CASE HostStep
  <2>1. /\ sec_ptr' \in Position /\ sec_ptr_q' \in Position
    BY <1>1, <1>3, Counts DEF HostStep, FillPointer, HostTypes, Position
  <2>2. CASE HostWaits
    BY <1>1, <2>1, <2>2, Counts DEF HostWaits, HostTypes, Lba, Position
  <2>3. CASE HostActs
    <3>1. host_wait' \in 0..HostGap
      BY <2>3, Sizes DEF HostActs
    <3>2. CASE HostPolls \/ HostReads \/ HostEnds
      BY <1>1, <2>1, <3>1, <3>2, Counts DEF HostPolls, HostReads, HostEnds, HostTypes, Lba, Position
    <3>3. CASE HostWrites
      <4>1. sec_data' \in Word
        <5>1. host_lba \in 0..(LbaSpace - 1) /\ host_word \in 0..(SectorWords - 1)
          BY <1>1, <3>3, Sizes DEF HostWrites, HostTypes, Lba
        <5>2. host_lba * SectorWords + host_word \in 0..Mixed
          <6>1. host_lba * SectorWords <= (LbaSpace - 1) * SectorWords /\ host_lba * SectorWords \in Nat
            BY <5>1, Sizes
          <6>2. (LbaSpace - 1) * SectorWords = LbaSpace * SectorWords - SectorWords
            BY Sizes
          <6> QED BY <5>1, <6>1, <6>2, Sizes
        <5> QED BY <3>3, <5>2, Sizes DEF HostWrites
      <4> QED BY <1>1, <2>1, <3>1, <3>3, <4>1, Counts DEF HostWrites, HostTypes, Lba, Position
    <3> QED BY <2>3, <3>2, <3>3 DEF HostActs
  <2> QED BY <1>3, <2>2, <2>3 DEF HostStep
<1>4. CASE HostOff
  BY <1>1, <1>4 DEF HostOff, HostTypes
<1>5. CASE UNCHANGED <<host, host_lba, host_word, host_wait, sec_data, sec_ptr, sec_ptr_q,
                       sec_data_re, sec_done_re, sec_arm, sec_go>>
  BY <1>1, <1>5 DEF HostTypes
<1> QED BY <1>2, <1>3, <1>4, <1>5

LEMMA WordOf ==
  ASSUME NEW q \in Seq(Word)
  PROVE  (IF q = <<>> THEN 0 ELSE Head(q)) \in Word
<1>1. q # <<>> => Head(q) \in Word
  BY HeadTailProperties
<1> QED BY <1>1, Sizes

LEMMA Wrapped ==
  ASSUME NEW n \in Nat
  PROVE  n % (Beats * BeatWords) \in Position
<1>1. Beats * BeatWords = SectorWords
  BY Sizes
<1>2. n % SectorWords \in Position
  BY Counts DEF Position
<1> QED BY <1>1, <1>2

LEMMA FillTypes ==
  /\ SourceTypes /\ HostTypes /\ enable \in BOOLEAN => fill_addr \in Position /\ fill_data \in Word
  /\ (SourceTypes /\ HostTypes /\ enable \in BOOLEAN)' => fill_addr' \in Position /\ fill_data' \in Word
<1>1. ASSUME SourceTypes, HostTypes, enable \in BOOLEAN
      PROVE  fill_addr \in Position /\ fill_data \in Word
  <2>1. word \in Nat /\ shift \in Seq(Word)
    BY <1>1 DEF SourceTypes
  <2>2. src_addr \in Position
    BY <2>1, Wrapped DEF src_addr
  <2>3. src_data \in Word
    BY <2>1, WordOf DEF src_data
  <2> QED BY <1>1, <2>2, <2>3 DEF HostTypes, fill_addr, fill_data
<1>2. ASSUME SourceTypes', HostTypes', enable' \in BOOLEAN
      PROVE  fill_addr' \in Position /\ fill_data' \in Word
  <2>1. word' \in Nat /\ shift' \in Seq(Word)
    BY <1>2 DEF SourceTypes
  <2>2. src_addr' \in Position
    BY <2>1, Wrapped DEF src_addr
  <2>3. src_data' \in Word
    BY <2>1, WordOf DEF src_data
  <2>4. sec_ptr_q' \in Position /\ sec_data' \in Word
    BY <1>2 DEF HostTypes, Position
  <2> QED BY <1>2, <2>2, <2>3, <2>4 DEF fill_addr, fill_data
<1> QED BY <1>1, <1>2

LEMMA SyncTypesKept ==
  ASSUME DiscInv, NEW s, NEW i, Edge(s, i), SourceTypes', HostTypes', CdvdTypes'
  PROVE  SyncTypes'
<1>1. /\ SyncTypes /\ SourceTypes /\ HostTypes /\ CdvdTypes /\ PulseTypes /\ enable \in BOOLEAN
      /\ enable' \in BOOLEAN /\ s \in BOOLEAN /\ i \in BOOLEAN
  BY DEF DiscInv, Types, ClockTypes, Edge
<1>2. we_tog' \in BOOLEAN /\ done_tog' \in BOOLEAN
  BY <1>1 DEF Edge, SyncTypes
<1>3. \A k \in 1..3 : we_ff'[k] \in BOOLEAN /\ done_ff'[k] \in BOOLEAN
  <2>1. CASE i
    <3>1. StagesShift(s)
      BY <2>1 DEF Edge
    <3>2. we_ff'[1] \in BOOLEAN /\ done_ff'[1] \in BOOLEAN
      BY <1>1, <1>2, <3>1 DEF StagesShift, Sampled, SyncTypes
    <3>3. /\ we_ff'[2] \in BOOLEAN /\ done_ff'[2] \in BOOLEAN
          /\ we_ff'[3] \in BOOLEAN /\ done_ff'[3] \in BOOLEAN
      BY <1>1, <3>1 DEF StagesShift, SyncTypes
    <3> QED BY <3>2, <3>3
  <2>2. CASE ~i
    BY <1>1, <2>2 DEF Edge, SyncTypes
  <2> QED BY <1>1, <2>1, <2>2
<1>4. \A k \in 1..2 : addr_ff'[k] \in Position /\ data_ff'[k] \in Word
  <2>1. CASE i
    <3>1. StagesShift(s)
      BY <2>1 DEF Edge
    <3>2. fill_addr \in Position /\ fill_data \in Word /\ fill_addr' \in Position /\ fill_data' \in Word
      BY <1>1, FillTypes
    <3>3. Mixed \in Word
      BY Sizes
    <3>4. addr_ff'[1] \in Position /\ data_ff'[1] \in Word
      BY <1>1, <3>1, <3>2, <3>3 DEF StagesShift, SampledBits
    <3>5. addr_ff'[2] \in Position /\ data_ff'[2] \in Word
      BY <1>1, <3>1 DEF StagesShift, SyncTypes
    <3> QED BY <3>4, <3>5
  <2>2. CASE ~i
    BY <1>1, <2>2 DEF Edge, SyncTypes
  <2> QED BY <1>1, <2>1, <2>2
<1>5. \A k \in 1..2 : req_ff'[k] \in BOOLEAN /\ lba_ff'[k] \in Lba
  <2>1. CASE s
    <3>1. LevelsShift(i)
      BY <2>1 DEF Edge
    <3>2. sec_req \in BOOLEAN /\ sec_lba \in Lba /\ sec_req' \in BOOLEAN /\ sec_lba' \in Lba
      BY <1>1 DEF CdvdTypes, Lba
    <3>3. req_ff'[1] \in BOOLEAN /\ lba_ff'[1] \in Lba
      BY <1>1, <3>1, <3>2 DEF LevelsShift, Sampled, SampledBits
    <3>4. req_ff'[2] \in BOOLEAN /\ lba_ff'[2] \in Lba
      BY <1>1, <3>1 DEF LevelsShift, SyncTypes
    <3> QED BY <3>3, <3>4
  <2>2. CASE ~s
    BY <1>1, <2>2 DEF Edge, SyncTypes
  <2> QED BY <1>1, <2>1, <2>2
<1> QED BY <1>2, <1>3, <1>4, <1>5 DEF SyncTypes, Position, Lba

LEMMA CdvdTypesKept ==
  ASSUME DiscInv, NEW s, NEW i, Edge(s, i)
  PROVE  CdvdTypes'
<1>1. /\ CdvdTypes /\ SyncTypes /\ Sending
  BY DEF DiscInv, Types
<1>2. CASE ~i
  <2>1. DriveOff
    BY <1>2 DEF Edge
  <2> QED BY <1>1, <2>1 DEF DriveOff, CdvdTypes, Position, Lba
<1>3. CASE i
  <2>0. DriveEdge
    BY <1>3 DEF Edge
  <2>1. nparam' \in [lba : Lba, count : Lba] /\ dev_data' \in Word /\ sec_lba' \in Lba
    BY <1>1, <2>0 DEF DriveEdge, CdvdTypes
  <2>2. secbuf' \in [Position -> Word]
    <3>1. addr_ff[2] \in Position /\ data_ff[2] \in Word
      BY <1>1 DEF SyncTypes
    <3> QED BY <1>1, <2>0, <3>1 DEF DriveEdge, CdvdTypes
  <2>3. /\ rd_state' \in ReadState /\ rd_fresh' \in BOOLEAN /\ sec_req' \in BOOLEAN
        /\ dev_valid' \in BOOLEAN
    BY <1>1, <2>0 DEF DriveEdge, DriveStep, DriveResets, DriveIdles, DriveBegins, DriveOver, DriveAsks,
         DriveFilled, DriveOffers, DriveHolds, DriveNext, DriveLast, DriveSends, DriveEnds,
         CdvdTypes, ReadState
  <2>4. rd_lba' \in Lba /\ rd_left' \in Lba /\ rd_pos' \in Position
    <3>1. CASE DriveLast
      <4>1. rd_left # 0 /\ rd_left \in Lba /\ rd_lba \in Lba /\ rd_pos \in Position
        BY <1>1, <3>1 DEF DriveLast, DriveSends, Sending, CdvdTypes
      <4> QED BY <3>1, <4>1, Counts DEF DriveLast, Lba
    <3>2. CASE DriveNext
      BY <1>1, <3>2, Counts DEF DriveNext, CdvdTypes, Position
    <3>3. CASE ~DriveLast /\ ~DriveNext
      BY <1>1, <2>0, <3>3, Counts
      DEF DriveEdge, DriveStep, DriveResets, DriveIdles, DriveBegins, DriveOver, DriveAsks,
          DriveFilled, DriveOffers, DriveHolds, DriveEnds, CdvdTypes, Position
    <3> QED BY <3>1, <3>2, <3>3
  <2>5. got' \in Seq(Word) /\ wanted' \in Seq(Word)
    <3>1. Append(got, dev_data) \in Seq(Word) /\ <<>> \in Seq(Word)
      BY <1>1 DEF CdvdTypes
    <3>2. wanted \o SectorsOf(nparam.lba, nparam.count) \in Seq(Word)
      <4>1. SectorsOf(nparam.lba, nparam.count) \in Seq(Word)
        BY <1>1, SectorsOfType DEF CdvdTypes
      <4> QED BY <1>1, <4>1, ConcatProperties DEF CdvdTypes
    <3>3. got \in Seq(Word) /\ wanted \in Seq(Word)
      BY <1>1 DEF CdvdTypes
    <3>4. got' \in {got, <<>>, Append(got, dev_data)}
      BY <2>0 DEF DriveEdge, DriveStep, DriveResets, DriveIdles, DriveBegins, DriveOver, DriveAsks,
          DriveFilled, DriveOffers, DriveHolds, DriveNext, DriveLast, DriveSends, DriveEnds
    <3>5. wanted' \in {wanted, <<>>, wanted \o SectorsOf(nparam.lba, nparam.count)}
      BY <2>0 DEF DriveEdge, DriveStep, DriveResets, DriveIdles, DriveBegins, DriveOver, DriveAsks,
          DriveFilled, DriveOffers, DriveHolds, DriveNext, DriveLast, DriveSends, DriveEnds
    <3> QED BY <3>1, <3>2, <3>3, <3>4, <3>5
  <2>6. ReadState' = ReadState /\ Lba' = Lba /\ Position' = Position
    BY DEF ReadState, Lba, Position
  <2> QED BY <2>1, <2>2, <2>3, <2>4, <2>5 DEF CdvdTypes, Lba, Position
<1> QED BY <1>2, <1>3 DEF Edge

LEMMA TypesKept ==
  ASSUME DiscInv, NEW s, NEW i, Edge(s, i)
  PROVE  Types'
<1>1. ClockTypes'
  BY DEF DiscInv, Types, ClockTypes, Edge
<1>2. SourceTypes' /\ HostTypes' /\ PulseTypes' /\ CdvdTypes'
  BY SourceTypesKept, HostTypesKept, PulseTypesKept, CdvdTypesKept
<1>3. SyncTypes'
  BY <1>2, SyncTypesKept
<1> QED BY <1>1, <1>2, <1>3 DEF Types

-----------------------------------------------------------------------------
(* What an edge means for the filler, the levels and the pulses. *)

\* A filler that rests starts only when it looks at the request.
LEMMA RestsOn ==
  ASSUME NEW s, NEW i, Edge(s, i), ~Serving,
         enable => src_state = "WAIT" \/ ~want, ~enable => ~want \/ host_wait # HostGap
  PROVE  ~Serving'
<1>1. src_state \in {"IDLE", "WAIT"} /\ host = "POLL"
  BY DEF Serving
<1>2. CASE s /\ enable
  <2>1. SourceStep /\ host' = host
    BY <1>2 DEF Edge, HostOff
  <2> QED BY <1>1, <1>2, <2>1
          DEF Serving, SourceStep, SourceStays, SourceStarts, SourceAsked, SourceFilled, SourceHolds,
              SourceGap, SourceSpends, SourceWord, SourceDrained, SourceTells, SourceRests
<1>3. CASE s /\ ~enable
  <2>1. HostStep /\ src_state' = src_state
    BY <1>3 DEF Edge, SourceOff
  <2> QED BY <1>1, <1>3, <2>1
          DEF Serving, HostStep, HostWaits, HostActs, HostPolls, HostReads, HostWrites, HostEnds
<1>4. CASE ~s
  BY <1>1, <1>4 DEF Edge, SourceOff, Serving
<1> QED BY <1>2, <1>3, <1>4

LEMMA ServingFrom ==
  ASSUME NEW s, NEW i, Edge(s, i), Serving'
  PROVE  Serving \/ want
BY RestsOn

\* At an edge of the IOP the levels have crossed.
LEMMA LevelsMet ==
  ASSUME DiscInv, NEW s, NEW i, Edge(s, i), i
  PROVE  /\ req_ff[1] = sec_req /\ want = sec_req /\ lba_ff[1] = sec_lba /\ lba_ff[2] = sec_lba
         /\ want' = sec_req /\ req_ff'[1] \in {sec_req, sec_req'}
<1>1. since >= 2
  BY DEF Edge
<1>2. LevelsCross /\ since \in 0..4
  BY DEF DiscInv, Types, ClockTypes
<1>3. req_ff[1] = sec_req /\ want = sec_req /\ lba_ff[1] = sec_lba /\ lba_ff[2] = sec_lba
  BY <1>1, <1>2 DEF LevelsCross, want
<1> QED BY <1>3 DEF Edge, LevelsShift, Sampled, want

LEMMA LevelsFollow ==
  ASSUME NEW s, NEW i, Edge(s, i), ~i
  PROVE  /\ s /\ req_ff'[1] = sec_req /\ want' = req_ff[1] /\ lba_ff'[1] = sec_lba
         /\ lba_ff'[2] = lba_ff[1] /\ DriveOff /\ since' = since + 1 /\ since < 4
BY DEF Edge, LevelsShift, Sampled, SampledBits, want

\* A request rises only over a filler at rest.
LEMMA RequestRises ==
  ASSUME DiscInv, NEW s, NEW i, Edge(s, i), sec_req', ~sec_req
  PROVE  /\ i /\ ~Serving /\ ~DonePending /\ rd_state = "RD_FETCH" /\ rd_left # 0
         /\ src_state = "IDLE" /\ ~want /\ ~req_ff[1]
<1>1. i
  BY DEF Edge, DriveOff
<1>2. DriveStep
  BY <1>1 DEF Edge, DriveEdge
<1>3. rd_state = "RD_FETCH" /\ rd_left # 0
  BY <1>2 DEF DriveStep, DriveResets, DriveIdles, DriveBegins, DriveOver, DriveAsks,
          DriveFilled, DriveOffers, DriveHolds, DriveNext, DriveLast, DriveSends, DriveEnds
<1> QED BY <1>1, <1>3 DEF DiscInv, Resting, Asking

\* The sector of the drive moves only while the filler rests.
LEMMA SectorMoves ==
  ASSUME DiscInv, NEW s, NEW i, Edge(s, i), DriveStep, DriveBegins \/ DriveLast
  PROVE  /\ i => /\ ~sec_req /\ ~sec_req' /\ ~want /\ ~req_ff[1] /\ ~want' /\ ~req_ff'[1]
                 /\ ~Serving /\ ~Serving' /\ ~DonePending
<1> SUFFICES ASSUME i
             PROVE  /\ ~sec_req /\ ~sec_req' /\ ~want /\ ~req_ff[1] /\ ~want' /\ ~req_ff'[1]
                    /\ ~Serving /\ ~Serving' /\ ~DonePending
  OBVIOUS
<1>1. ~sec_req /\ ~sec_req' /\ ~Serving /\ ~DonePending
  <2>1. CASE DriveBegins
    <3>1. Quiet /\ sec_req' = sec_req
      BY <2>1 DEF DriveBegins
    <3> QED BY <3>1 DEF Quiet, Serving, DonePending, DoneNew, DoneOne, DoneTwo
  <2>2. CASE DriveLast
    <3>1. rd_state = "RD_SEND" /\ sec_req' = sec_req
      BY <2>2 DEF DriveLast, DriveSends
    <3> QED BY <3>1 DEF DiscInv, Sending, Resting
  <2> QED BY <2>1, <2>2
<1>2. ~want /\ ~req_ff[1] /\ ~want' /\ ~req_ff'[1]
  BY <1>1, LevelsMet
<1>3. ~Serving'
  BY <1>1, <1>2, RestsOn
<1> QED BY <1>1, <1>2, <1>3

LEMMA SectorHeld ==
  ASSUME DiscInv, NEW s, NEW i, Edge(s, i),
         sec_req \/ sec_req' \/ want \/ want' \/ req_ff'[1] \/ Serving \/ Serving' \/ DonePending
  PROVE  rd_lba' = rd_lba
<1>1. CASE ~i
  BY <1>1, LevelsFollow DEF DriveOff
<1>2. CASE i
  <2>1. DriveStep
    BY <1>2 DEF Edge, DriveEdge
  <2>2. ~DriveBegins /\ ~DriveLast
    BY <1>2, <2>1, SectorMoves
  <2> QED BY <2>1, <2>2 DEF DriveStep, DriveResets, DriveIdles, DriveOver, DriveAsks,
          DriveFilled, DriveOffers, DriveHolds, DriveNext, DriveEnds
<1> QED BY <1>1, <1>2

-----------------------------------------------------------------------------
(* The levels and the address. *)

LEMMA LevelsCrossKept ==
  ASSUME DiscInv, NEW s, NEW i, Edge(s, i)
  PROVE  LevelsCross'
<1>1. LevelsCross /\ since \in 0..4
  BY DEF DiscInv, Types, ClockTypes
<1>2. CASE ~i
  <2>1. sec_req' = sec_req /\ sec_lba' = sec_lba /\ req_ff'[2] = req_ff[1]
    BY <1>2, LevelsFollow DEF DriveOff, want
  <2> QED BY <1>1, <1>2, <2>1, LevelsFollow DEF LevelsCross, want
<1>3. CASE i
  <2>1. since' = 0
    BY <1>3 DEF Edge
  <2>2. want' /\ sec_req' => req_ff'[1]
    BY <1>3, LevelsMet
  <2> QED BY <2>1, <2>2 DEF LevelsCross
<1> QED BY <1>2, <1>3

LEMMA AskingKept ==
  ASSUME DiscInv, NEW s, NEW i, Edge(s, i)
  PROVE  Asking'
<1>1. Asking /\ LevelsCross /\ s \in BOOLEAN /\ i \in BOOLEAN
  BY DEF DiscInv, Edge
<1>2. sec_req' => rd_state' = "RD_FETCH" /\ rd_left' # 0
  <2>1. CASE ~i
    BY <1>1, <2>1, LevelsFollow DEF DriveOff, Asking
  <2>2. CASE i
    <3>1. DriveStep
      BY <2>2 DEF Edge, DriveEdge
    <3> QED BY <1>1, <3>1 DEF DriveStep, DriveResets, DriveIdles, DriveBegins, DriveOver, DriveAsks,
          DriveFilled, DriveOffers, DriveHolds, DriveNext, DriveLast, DriveSends, DriveEnds, Asking
  <2> QED BY <1>1, <2>1, <2>2
<1>3. ASSUME src_state' # "IDLE" PROVE (sec_req' => req_ff'[1]) /\ (req_ff'[1] => want')
  <2>1. src_state # "IDLE" \/ want
    BY <1>3 DEF Edge, SourceStep, SourceOff, SourceStays, SourceStarts, SourceAsked, SourceFilled,
          SourceHolds, SourceGap, SourceSpends, SourceWord, SourceDrained, SourceTells, SourceRests
  <2>2. (sec_req => req_ff[1]) /\ (src_state # "IDLE" => (req_ff[1] => want))
    BY <1>1, <2>1 DEF Asking, LevelsCross
  <2>3. CASE ~i
    BY <2>2, <2>3, LevelsFollow DEF DriveOff
  <2>4. CASE i
    <3>1. sec_req' => sec_req
      <4>1. CASE src_state # "IDLE"
        BY <4>1, RequestRises
      <4>2. CASE want
        BY <4>2, RequestRises
      <4> QED BY <2>1, <4>1, <4>2
    <3> QED BY <2>4, <3>1, LevelsMet
  <2> QED BY <1>1, <2>3, <2>4
<1>4. ASSUME rd_state' = "RD_FETCH", ~sec_req'
      PROVE  src_state' = "IDLE" /\ ~want' /\ ~req_ff'[1]
  <2>1. src_state = "IDLE" /\ ~want /\ ~req_ff[1] /\ ~sec_req
    <3>1. CASE ~i
      BY <1>1, <1>4, <3>1, LevelsFollow DEF DriveOff, Asking
    <3>2. CASE i
      <4>1. DriveStep
        BY <3>2 DEF Edge, DriveEdge
      <4>2. DriveBegins \/ DriveLast
        BY <1>4, <4>1 DEF DriveStep, DriveResets, DriveIdles, DriveOver, DriveAsks,
          DriveFilled, DriveOffers, DriveHolds, DriveNext, DriveEnds
      <4>3. ~want /\ ~req_ff[1] /\ ~sec_req
        BY <3>2, <4>1, <4>2, SectorMoves
      <4>4. src_state = "IDLE"
        <5>1. CASE DriveBegins
          BY <5>1 DEF DriveBegins, Quiet
        <5>2. CASE DriveLast
          <6>1. rd_state = "RD_SEND" /\ rd_fresh
            BY <5>2 DEF DriveLast, DriveSends
          <6> QED BY <6>1 DEF DiscInv, Sending, SourceInv
        <5> QED BY <4>2, <5>1, <5>2
      <4> QED BY <4>3, <4>4
    <3> QED BY <1>1, <3>1, <3>2
  <2>2. src_state' = "IDLE"
    BY <2>1 DEF Edge, SourceStep, SourceOff, SourceStays, SourceStarts, SourceAsked, SourceFilled,
          SourceHolds, SourceGap, SourceSpends, SourceWord, SourceDrained, SourceTells, SourceRests
  <2>3. ~want' /\ ~req_ff'[1]
    <3>1. CASE ~i
      BY <2>1, <3>1, LevelsFollow
    <3>2. CASE i
      BY <1>4, <2>1, <3>2, LevelsMet
    <3> QED BY <1>1, <3>1, <3>2
  <2> QED BY <2>2, <2>3
<1> QED BY <1>2, <1>3, <1>4 DEF Asking

LEMMA AddressHeldKept ==
  ASSUME DiscInv, NEW s, NEW i, Edge(s, i)
  PROVE  AddressHeld'
<1>1. AddressHeld /\ HostInv /\ s \in BOOLEAN /\ i \in BOOLEAN
  BY DEF DiscInv, Edge
<1>2. ASSUME sec_req' \/ req_ff'[1] \/ want' \/ Serving' PROVE sec_lba' = rd_lba' /\ rd_lba' = rd_lba
  <2>1. rd_lba' = rd_lba
    BY <1>2, SectorHeld
  <2>2. CASE ~i
    <3>1. sec_req \/ req_ff[1] \/ want \/ Serving
      BY <1>2, <2>2, LevelsFollow, ServingFrom DEF DriveOff
    <3> QED BY <1>1, <2>1, <2>2, <3>1, LevelsFollow DEF DriveOff, AddressHeld
  <2>3. CASE i
    BY <2>1, <2>3 DEF Edge, DriveEdge
  <2> QED BY <1>1, <2>1, <2>2, <2>3
<1>3. ASSUME want' \/ Serving' PROVE lba_ff'[1] = rd_lba'
  <2>1. CASE ~i
    BY <1>2, <1>3, <2>1, LevelsFollow DEF DriveOff
  <2>2. CASE i
    <3>1. sec_req \/ want \/ Serving
      BY <1>3, <2>2, LevelsMet, ServingFrom
    <3>2. sec_lba = rd_lba /\ lba_ff[1] = sec_lba
      BY <1>1, <2>2, <3>1, LevelsMet DEF AddressHeld
    <3>3. sec_lba' = sec_lba
      BY <2>2, <3>2 DEF Edge, DriveEdge
    <3>4. lba_ff'[1] = sec_lba
      BY <1>1, <3>2, <3>3 DEF Edge, LevelsShift, SampledBits
    <3> QED BY <1>2, <1>3, <3>2, <3>4
  <2> QED BY <1>1, <2>1, <2>2
<1>4. ASSUME Serving' PROVE lba_ff'[2] = rd_lba'
  <2>1. rd_lba' = rd_lba
    BY <1>2, <1>4
  <2>2. CASE s
    <3>1. lba_ff[1] = rd_lba
      BY <1>1, <1>4, ServingFrom DEF AddressHeld
    <3> QED BY <2>1, <2>2, <3>1 DEF Edge, LevelsShift
  <2>3. CASE ~s
    BY <1>1, <1>4, <2>1, <2>3 DEF Edge, SourceOff, Serving, AddressHeld
  <2> QED BY <1>1, <2>2, <2>3
<1>5. ASSUME host' \in {"WORDS", "DONE"} PROVE host_lba' = rd_lba'
  <2>1. rd_lba' = rd_lba
    BY <1>2, <1>5 DEF Serving
  <2>2. host # "POLL" => lba_ff[2] = rd_lba
    BY <1>1 DEF AddressHeld, Serving
  <2>3. host \in {"WORDS", "DONE"} => host_lba = rd_lba
    BY <1>1 DEF AddressHeld
  <2>4. host_lba' = rd_lba
    BY <1>1, <1>5, <2>2, <2>3 DEF Edge, HostStep, HostOff, HostWaits, HostActs, HostPolls, HostReads,
        HostWrites, HostEnds, sector
  <2> QED BY <2>1, <2>4
<1> QED BY <1>2, <1>3, <1>4, <1>5 DEF AddressHeld

-----------------------------------------------------------------------------
(* The end of a sector. *)

\* The pulse of a sector finds the stages empty.
LEMMA DoneEnters ==
  ASSUME DiscInv, fill_done
  PROVE  /\ ~DoneNew /\ ~DoneOne /\ ~DoneTwo
         /\ enable => src_state = "DONE" /\ Serving
         /\ ~enable => sec_done_re /\ host_wait = 0
<1>1. enable => src_state = "DONE" /\ Serving
  BY DEF fill_done, src_done, Serving
<1>2. ~enable => sec_done_re
  BY DEF fill_done
<1> QED BY <1>1, <1>2 DEF DiscInv, DoneInv, DonePending

\* A pulse enters the stages, or moves on in them.
LEMMA DonePasses ==
  ASSUME DiscInv, NEW s, NEW i, Edge(s, i)
  PROVE  /\ ~i => /\ DoneNew' <=> DoneNew \/ fill_done
                  /\ DoneOne' <=> DoneOne
                  /\ DoneTwo' <=> DoneTwo
         /\ i => /\ DoneTwo' <=> DoneOne
                 /\ \/ (DoneNew' <=> s /\ fill_done) /\ (DoneOne' <=> DoneNew)
                    \/ ~DoneNew' /\ (DoneOne' <=> DoneNew \/ (s /\ fill_done))
<1>1. /\ done_tog \in BOOLEAN /\ done_tog' \in BOOLEAN
      /\ done_ff[1] \in BOOLEAN /\ done_ff[2] \in BOOLEAN /\ done_ff[3] \in BOOLEAN
      /\ done_ff'[1] \in BOOLEAN /\ (~i => s)
  BY TypesKept DEF DiscInv, Types, SyncTypes, Edge
<1>2. (s /\ fill_done) => done_tog' = ~done_tog
  <2>1. CASE s /\ fill_done
    <3>1. done_tog' = (done_tog # fill_done)
      BY <2>1 DEF Edge
    <3>2. fill_done = TRUE
      <4>1. fill_done \in BOOLEAN
        BY DEF DiscInv, Types, PulseTypes, ClockTypes, fill_done, src_done
      <4> QED BY <2>1, <4>1
    <3> QED BY <1>1, <3>1, <3>2
  <2> QED BY <2>1
<1>3. ~(s /\ fill_done) => done_tog' = done_tog
  <2>1. CASE s /\ ~fill_done
    <3>1. done_tog' = (done_tog # fill_done)
      BY <2>1 DEF Edge
    <3>2. fill_done = FALSE
      <4>1. fill_done \in BOOLEAN
        BY DEF DiscInv, Types, PulseTypes, ClockTypes, fill_done, src_done
      <4> QED BY <2>1, <4>1
    <3> QED BY <1>1, <3>1, <3>2
  <2>2. CASE ~s
    BY <2>2 DEF Edge
  <2> QED BY <2>1, <2>2
<1>4. fill_done => done_tog = done_ff[1]
  BY <1>1, DoneEnters DEF DoneNew
<1>5. CASE ~i
  <2>1. done_ff' = done_ff
    BY <1>5 DEF Edge
  <2> QED BY <1>1, <1>2, <1>3, <1>4, <1>5, <2>1 DEF DoneNew, DoneOne, DoneTwo
<1>6. CASE i
  <2>1. /\ done_ff'[1] \in (IF s THEN {done_tog, done_tog'} ELSE {done_tog})
        /\ done_ff'[2] = done_ff[1] /\ done_ff'[3] = done_ff[2]
    BY <1>6 DEF Edge, StagesShift, Sampled
  <2>2. DoneTwo' <=> DoneOne
    BY <2>1 DEF DoneOne, DoneTwo
  <2>3. CASE done_ff'[1] = done_tog
    <3>1. DoneOne' <=> DoneNew
      BY <2>1, <2>3 DEF DoneOne, DoneNew
    <3>2. DoneNew' <=> s /\ fill_done
      BY <1>1, <1>2, <1>3, <2>3 DEF DoneNew
    <3> QED BY <1>6, <2>2, <3>1, <3>2
  <2>4. CASE done_ff'[1] = done_tog'
    <3>1. ~DoneNew'
      BY <2>4 DEF DoneNew
    <3>2. DoneOne' <=> DoneNew \/ (s /\ fill_done)
      BY <1>1, <1>2, <1>3, <1>4, <2>1, <2>4 DEF DoneOne, DoneNew
    <3> QED BY <1>6, <2>2, <3>1, <3>2
  <2>5. done_ff'[1] = done_tog \/ done_ff'[1] = done_tog'
    BY <2>1
  <2> QED BY <2>3, <2>4, <2>5
<1> QED BY <1>5, <1>6

\* Nothing is pending after an edge that nothing was pending before, unless a
\* sector ends in it.
LEMMA NoEnd ==
  ASSUME DiscInv, NEW s, NEW i, Edge(s, i), ~DonePending, ~Serving \/ Serving'
  PROVE  ~DonePending'
<1>1. ~DoneNew /\ ~DoneOne /\ ~DoneTwo /\ ~sec_done_re
  BY DEF DonePending
<1>2. ~(s /\ fill_done)
  <2>1. ASSUME s, fill_done PROVE FALSE
    <3>1. enable /\ src_state = "DONE" /\ Serving'
      BY <1>1, <2>1, DoneEnters
    <3>2. src_state' = "WAIT" /\ host' = host
      BY <2>1, <3>1 DEF Edge, HostOff, SourceStep, SourceStays, SourceStarts, SourceAsked, SourceFilled,
          SourceHolds, SourceGap, SourceSpends, SourceWord, SourceDrained, SourceTells, SourceRests
    <3>3. host = "POLL"
      BY <3>1 DEF DiscInv, HostInv
    <3> QED BY <3>1, <3>2, <3>3 DEF Serving
  <2> QED BY <2>1
<1>3. ~DoneNew' /\ ~DoneOne' /\ ~DoneTwo'
  <2>1. ~i => s
    BY DEF Edge
  <2> QED BY <1>1, <1>2, <2>1, DonePasses DEF Edge
<1>4. ~sec_done_re'
  <2>1. ASSUME sec_done_re' PROVE FALSE
    <3>1. HostEnds /\ ~enable
      BY <1>1, <2>1 DEF Edge, HostStep, HostOff, HostWaits, HostActs, HostPolls, HostReads, HostWrites
    <3>2. host = "DONE" /\ host' = "POLL" /\ src_state' = src_state
      BY <3>1 DEF HostEnds, Edge, SourceOff
    <3>3. src_state = "IDLE"
      BY <3>1 DEF DiscInv, SourceInv
    <3> QED BY <3>2, <3>3 DEF Serving
  <2> QED BY <2>1
<1> QED BY <1>3, <1>4 DEF DonePending

\* The host waits one more cycle, or acts.
LEMMA HostTime ==
  ASSUME DiscInv, NEW s, NEW i, Edge(s, i), ~enable
  PROVE  /\ host_wait' \in Nat /\ host_wait' <= host_wait + 1
         /\ ~s => host_wait' = host_wait
         /\ host_wait # HostGap => (s => HostWaits /\ host_wait' = host_wait + 1)
         /\ since \in 0..4 /\ since' \in 0..4
         /\ ~i => s /\ since' = since + 1
         /\ i => since' = 0
         /\ i /\ s => since <= 3
<1>1. host_wait \in 0..HostGap /\ since \in 0..4 /\ HostGap \in Nat
  BY Counts DEF DiscInv, Types, HostTypes, ClockTypes
<1>2. s => HostStep
  BY DEF Edge
<1>3. HostWaits => host_wait' = (IF host_wait < HostGap THEN host_wait + 1 ELSE host_wait)
  BY DEF HostWaits
<1>4. HostActs => host_wait = HostGap /\ host_wait' = 0
  BY DEF HostActs
<1>5. ~s => host_wait' = host_wait
  BY DEF Edge
<1>6. /\ ~i => s /\ since' = since + 1 /\ since < 4
      /\ i => since' = 0 /\ (s => since <= 3)
  BY <1>1 DEF Edge
<1> QED BY <1>1, <1>2, <1>3, <1>4, <1>5, <1>6 DEF Edge, HostStep

\* The host does not look for a request while the last end may be on its way.
LEMMA NoPoll ==
  ASSUME DiscInv, Spaced, ~enable, host_wait = HostGap, since \in 0..4
  PROVE  ~DonePending
BY Counts DEF DiscInv, DoneInv, DonePending, Spaced

LEMMA NotServingAndEnding ==
  ASSUME DiscInv, Spaced, NEW s, NEW i, Edge(s, i), Serving'
  PROVE  ~DonePending'
<1>0. since \in 0..4
  BY DEF DiscInv, Types, ClockTypes
<1>1. ~DonePending
  <2>1. CASE Serving
    BY <2>1 DEF DiscInv, DoneInv
  <2>2. CASE ~Serving
    <3>1. want
      BY <2>2, ServingFrom
    <3>2. CASE enable
      <4>1. src_state # "WAIT"
        BY <2>2, <3>2, RestsOn
      <4> QED BY <3>1, <3>2, <4>1 DEF DiscInv, DoneInv
    <3>3. CASE ~enable
      <4>1. host_wait = HostGap
        BY <2>2, <3>3, RestsOn
      <4> QED BY <1>0, <3>3, <4>1, NoPoll
    <3> QED BY <3>2, <3>3
  <2> QED BY <2>1, <2>2
<1> QED BY <1>1, NoEnd

LEMMA AtMost ==
  ASSUME NEW x \in Nat, NEW y \in Nat, x <= 1
  PROVE  x <= y + 1 /\ x <= y + 5
OBVIOUS

LEMMA DoneTimes ==
  ASSUME DiscInv, Spaced, NEW s, NEW i, Edge(s, i), ~enable
  PROVE  /\ sec_done_re' => host_wait' = 0
         /\ DoneNew' => host_wait' <= since' + 1
         /\ DoneOne' => host_wait' <= since' + 5
         /\ DoneTwo' => host_wait' <= since' + 9
<1>1. /\ host_wait \in Nat /\ host_wait' \in Nat /\ host_wait' <= host_wait + 1
      /\ ~s => host_wait' = host_wait
      /\ since \in 0..4 /\ since' \in 0..4 /\ (~i => s /\ since' = since + 1)
      /\ (i => since' = 0) /\ (i /\ s => since <= 3)
  BY HostTime DEF DiscInv, Types, HostTypes
<1>2. /\ sec_done_re => host_wait = 0
      /\ DoneNew => host_wait <= since + 1
      /\ DoneOne => host_wait <= since + 5
      /\ DoneTwo => host_wait <= since + 9
  BY DEF DiscInv, DoneInv
<1>3. fill_done => host_wait = 0
  BY DoneEnters
<1>4. sec_done_re' => host_wait' = 0
  BY <1>1, <1>2 DEF Edge, HostStep, HostWaits, HostActs
<1>5. /\ DoneNew' => (~i /\ DoneNew) \/ fill_done
      /\ DoneOne' => (~i /\ DoneOne) \/ (i /\ DoneNew) \/ fill_done
      /\ DoneTwo' => (~i /\ DoneTwo) \/ (i /\ DoneOne)
  BY DonePasses
<1>6. (i /\ s) \/ (i /\ ~s) \/ (~i /\ s)
  BY DEF Edge
<1>7. DoneNew' => host_wait' <= since' + 1
  <2>1. CASE ~i /\ DoneNew
    BY <1>1, <1>2, <2>1
  <2>2. CASE fill_done
    <3>1. host_wait = 0
      BY <1>3, <2>2
    <3>2. host_wait' <= 1 /\ host_wait' \in Nat /\ since' \in Nat
      BY <1>1, <3>1
    <3>3. host_wait' <= since' + 1
      BY <3>2, AtMost, Zenon
    <3> QED BY <3>3
  <2> QED BY <1>5, <2>1, <2>2
<1>8. DoneOne' => host_wait' <= since' + 5
  <2>1. CASE ~i /\ DoneOne
    BY <1>1, <1>2, <2>1
  <2>2. CASE i /\ DoneNew
    BY <1>1, <1>2, <1>6, <2>2
  <2>3. CASE fill_done
    <3>1. host_wait = 0
      BY <1>3, <2>3
    <3>2. host_wait' <= 1 /\ host_wait' \in Nat /\ since' \in Nat
      BY <1>1, <3>1
    <3>3. host_wait' <= since' + 5
      BY <3>2, AtMost, Zenon
    <3> QED BY <3>3
  <2> QED BY <1>5, <2>1, <2>2, <2>3
<1>9. DoneTwo' => host_wait' <= since' + 9
  <2>1. CASE ~i /\ DoneTwo
    BY <1>1, <1>2, <2>1
  <2>2. CASE i /\ DoneOne
    BY <1>1, <1>2, <1>6, <2>2
  <2> QED BY <1>5, <2>1, <2>2
<1> QED BY <1>4, <1>7, <1>8, <1>9

LEMMA DoneInvKept ==
  ASSUME DiscInv, Spaced, NEW s, NEW i, Edge(s, i)
  PROVE  DoneInv'
<1>1. DoneInv /\ s \in BOOLEAN /\ i \in BOOLEAN /\ (~i => s)
  BY DEF DiscInv, Edge
<1>2. Serving' => ~DonePending'
  BY NotServingAndEnding
<1>3. sec_done_re' => ~DoneNew' /\ ~DoneOne' /\ ~DoneTwo'
  <2>1. CASE sec_done_re' /\ s
    <3>1. HostEnds /\ ~enable
      BY <2>1 DEF Edge, HostStep, HostOff, HostWaits, HostActs, HostPolls, HostReads, HostWrites
    <3>2. ~DonePending
      BY <1>1, <3>1 DEF HostEnds, Serving, DoneInv
    <3>3. ~fill_done /\ ~DoneNew /\ ~DoneOne /\ ~DoneTwo
      BY <3>1, <3>2 DEF fill_done, DonePending
    <3> QED BY <1>1, <3>3, DonePasses
  <2>2. CASE sec_done_re' /\ ~s
    <3>1. sec_done_re
      BY <2>2 DEF Edge
    <3> QED BY <1>1, <2>2, <3>1, DonePasses DEF DoneInv
  <2> QED BY <1>1, <2>1, <2>2
<1>4. DoneNew' => ~DoneOne' /\ ~DoneTwo'
  BY <1>1, DonePasses, DoneEnters DEF DoneInv
<1>5. DoneOne' => ~DoneTwo'
  BY <1>1, DonePasses, DoneEnters DEF DoneInv
<1>6. ASSUME enable', DonePending'
      PROVE  src_state' = "WAIT" \/ (src_state' = "IDLE" /\ ~want' /\ ~req_ff'[1] /\ ~sec_req')
  <2>0. enable /\ host = "POLL" /\ ~sec_done_re
    BY <1>6 DEF Edge, DiscInv, HostInv
  <2>1. CASE s /\ fill_done
    <3>1. src_state = "DONE"
      BY <2>0, <2>1, DoneEnters
    <3>2. src_state' = "WAIT"
      BY <2>0, <2>1, <3>1 DEF Edge, SourceStep, SourceStays, SourceStarts, SourceAsked, SourceFilled,
          SourceHolds, SourceGap, SourceSpends, SourceWord, SourceDrained, SourceTells, SourceRests
    <3> QED BY <3>2
  <2>2. CASE ~(s /\ fill_done)
    <3>1. DonePending
      <4>1. ~sec_done_re'
        BY <2>0 DEF Edge, HostOff
      <4> QED BY <1>1, <1>6, <2>2, <4>1, DonePasses DEF DonePending
    <3>2. src_state = "WAIT" \/ (src_state = "IDLE" /\ ~want /\ ~req_ff[1] /\ ~sec_req)
      BY <1>1, <2>0, <3>1 DEF DoneInv
    <3>3. ~sec_req => ~sec_req'
      BY <3>1, RequestRises
    <3>4. ASSUME ~want, ~req_ff[1], ~sec_req PROVE ~want' /\ ~req_ff'[1] /\ ~sec_req'
      BY <1>1, <3>3, <3>4, LevelsMet, LevelsFollow
    <3>5. CASE src_state = "WAIT"
      <4>1. ~want => ~req_ff[1] /\ ~sec_req
        BY <3>5 DEF DiscInv, Asking
      <4>2. src_state' = "WAIT" \/ (src_state' = "IDLE" /\ ~want)
        BY <3>5 DEF Edge, SourceOff, SourceStep, SourceStays, SourceStarts, SourceAsked, SourceFilled,
          SourceHolds, SourceGap, SourceSpends, SourceWord, SourceDrained, SourceTells, SourceRests
      <4> QED BY <3>4, <4>1, <4>2
    <3>6. CASE src_state = "IDLE" /\ ~want /\ ~req_ff[1] /\ ~sec_req
      <4>1. src_state' = "IDLE"
        BY <3>6 DEF Edge, SourceOff, SourceStep, SourceStays, SourceStarts, SourceAsked, SourceFilled,
          SourceHolds, SourceGap, SourceSpends, SourceWord, SourceDrained, SourceTells, SourceRests
      <4> QED BY <3>4, <3>6, <4>1
    <3> QED BY <3>2, <3>5, <3>6
  <2> QED BY <2>1, <2>2
<1>7. ~enable' => /\ sec_done_re' => host_wait' = 0
                  /\ DoneNew' => host_wait' <= since' + 1
                  /\ DoneOne' => host_wait' <= since' + 5
                  /\ DoneTwo' => host_wait' <= since' + 9
  BY DoneTimes DEF Edge
<1> QED BY <1>2, <1>3, <1>4, <1>5, <1>6, <1>7 DEF DoneInv

-----------------------------------------------------------------------------
(* The filler rests while a sector is sent. *)

\* When the end arrives, nothing of the sector is on its way any more.
LEMMA EndArrives ==
  ASSUME DiscInv, DoneTwo
  PROVE  ~Serving /\ ~sec_done_re /\ ~DoneNew /\ ~DoneOne
BY DEF DiscInv, DoneInv, DonePending

\* A resting filler, and why it does not start now.
LEMMA SendingRests ==
  ASSUME DiscInv, Spaced, NEW s, NEW i, Edge(s, i), rd_state = "RD_SEND"
  PROVE  ~Serving' /\ ~DonePending'
<1>1. ~Serving /\ ~DonePending /\ Sending /\ ~sec_req
  BY DEF DiscInv, Resting, Sending
<1>2. enable => src_state = "WAIT" \/ ~want
  BY <1>1 DEF Sending
<1>3. ASSUME ~enable, want PROVE host_wait # HostGap
  <2>1. host_wait <= since + 13 /\ since \in 0..4
    BY <1>1, <1>3 DEF Sending, DiscInv, Types, ClockTypes
  <2>2. ~(since >= 2)
    BY <1>1, <1>3 DEF DiscInv, LevelsCross, want
  <2> QED BY <2>1, <2>2, Counts DEF Spaced
<1>4. ~Serving'
  BY <1>1, <1>2, <1>3, RestsOn
<1> QED BY <1>1, <1>4, NoEnd

LEMMA RestingKept ==
  ASSUME DiscInv, Spaced, NEW s, NEW i, Edge(s, i)
  PROVE  Resting'
<1>1. CASE rd_state = "RD_SEND"
  BY <1>1, SendingRests DEF Resting
<1>2. ASSUME rd_state = "RD_FETCH", ~sec_req, ~i PROVE Resting'
  <2>1. ~Serving /\ ~DonePending /\ ~want
    BY <1>2 DEF DiscInv, Resting, Asking
  <2>2. ~Serving' /\ ~DonePending'
    BY <2>1, RestsOn, NoEnd
  <2> QED BY <2>2 DEF Resting
<1>3. ASSUME i, DriveFilled PROVE Resting'
  <2>1. DoneTwo
    BY <1>3 DEF DriveFilled, done, DoneTwo
  <2>2. ~Serving /\ ~sec_done_re /\ ~DoneNew /\ ~DoneOne
    BY <2>1, EndArrives
  <2>3. enable => src_state = "WAIT" \/ ~want
    BY <2>1 DEF DiscInv, DoneInv, DonePending
  <2>4. ~enable => host_wait # HostGap
    <3>1. since \in 0..4
      BY DEF DiscInv, Types, ClockTypes
    <3> QED BY <2>1, <3>1, NoPoll DEF DonePending
  <2>5. ~Serving'
    BY <2>2, <2>3, <2>4, RestsOn
  <2>6. ~fill_done
    BY <2>1, DoneEnters
  <2>7. ~DoneNew' /\ ~DoneOne' /\ ~DoneTwo'
    BY <1>3, <2>2, <2>6, DonePasses
  <2>8. ~sec_done_re'
    <3>1. host = "POLL"
      BY <2>2 DEF Serving
    <3> QED BY <2>2, <3>1 DEF Edge, HostStep, HostOff, HostWaits, HostActs, HostPolls, HostReads,
               HostWrites, HostEnds
  <2> QED BY <2>5, <2>7, <2>8 DEF Resting, DonePending
<1>4. ASSUME i, DriveBegins \/ DriveLast, DriveStep PROVE Resting'
  <2>1. ~Serving /\ ~DonePending /\ ~Serving'
    BY <1>4, SectorMoves
  <2> QED BY <2>1, NoEnd DEF Resting
<1>5. CASE i /\ rd_state # "RD_SEND"
  <2>1. DriveStep
    BY <1>5 DEF Edge, DriveEdge
  <2>2. CASE ~DriveFilled /\ ~DriveBegins
    BY <1>5, <2>1, <2>2 DEF DriveStep, DriveResets, DriveIdles, DriveOver, DriveAsks,
          DriveOffers, DriveHolds, DriveNext, DriveLast, DriveSends, DriveEnds, Resting
  <2> QED BY <1>3, <1>4, <1>5, <2>1, <2>2
<1>6. CASE ~i /\ rd_state # "RD_SEND" /\ (rd_state # "RD_FETCH" \/ sec_req)
  BY <1>6, LevelsFollow DEF DriveOff, Resting
<1> QED BY <1>1, <1>2, <1>5, <1>6 DEF Edge

LEMMA SendingKept ==
  ASSUME DiscInv, Spaced, NEW s, NEW i, Edge(s, i)
  PROVE  Sending'
<1> SUFFICES ASSUME rd_state' = "RD_SEND"
             PROVE  /\ ~sec_req' /\ rd_left' # 0
                    /\ IF enable'
                       THEN \/ (src_state' = "WAIT" /\ since' <= 2 /\ ~rd_fresh')
                            \/ (src_state' = "IDLE" /\ ~want' /\ ~req_ff'[1])
                       ELSE want' \/ req_ff'[1] => host_wait' <= since' + 13
  BY DEF Sending
<1>0. enable' = enable /\ enable \in BOOLEAN /\ since \in 0..4
  BY DEF Edge, DiscInv, Types, ClockTypes
<1>1. ASSUME ~enable
      PROVE  host_wait \in Nat /\ host_wait' \in Nat /\ host_wait' <= host_wait + 1
  BY <1>1, HostTime DEF DiscInv, Types, HostTypes
<1>2. CASE ~i
  <2>1. /\ s /\ req_ff'[1] = sec_req /\ want' = req_ff[1] /\ since' = since + 1 /\ since < 4
        /\ rd_state = "RD_SEND" /\ sec_req' = sec_req /\ rd_left' = rd_left /\ rd_fresh' = rd_fresh
    BY <1>2, LevelsFollow DEF DriveOff
  <2>2. Sending /\ ~sec_req /\ rd_left # 0
    BY <2>1 DEF DiscInv, Sending
  <2>3. CASE enable
    <3>1. CASE src_state = "IDLE" /\ ~want /\ ~req_ff[1]
      <4>1. src_state' = "IDLE"
        BY <3>1 DEF Edge, SourceOff, SourceStep, SourceStays, SourceStarts, SourceAsked, SourceFilled,
          SourceHolds, SourceGap, SourceSpends, SourceWord, SourceDrained, SourceTells, SourceRests
      <4> QED BY <1>0, <2>1, <2>2, <2>3, <3>1, <4>1
    <3>2. CASE src_state = "WAIT" /\ since <= 2 /\ ~rd_fresh
      <4>1. \/ src_state' = "WAIT" /\ want
            \/ src_state' = "IDLE" /\ ~want
        BY <2>1, <2>3, <3>2
        DEF Edge, SourceStep, SourceStays, SourceStarts, SourceAsked, SourceFilled,
          SourceHolds, SourceGap, SourceSpends, SourceWord, SourceDrained, SourceTells, SourceRests
      <4>2. ~want => ~req_ff[1]
        BY <3>2 DEF DiscInv, Asking
      <4>3. want => since < 2
        <5>1. ~(want /\ since >= 2)
          BY <2>2 DEF DiscInv, LevelsCross, want
        <5> QED BY <1>0, <5>1
      <4>4. want => since' <= 2
        BY <1>0, <2>1, <4>3
      <4> QED BY <1>0, <2>1, <2>2, <2>3, <3>2, <4>1, <4>2, <4>4
    <3> QED BY <2>1, <2>2, <2>3, <3>1, <3>2 DEF Sending
  <2>4. CASE ~enable
    <3>1. want' => host_wait <= since + 13
      BY <2>1, <2>2, <2>4 DEF Sending
    <3>2. ASSUME want' PROVE host_wait' <= since' + 13
      BY <1>0, <1>1, <2>1, <2>4, <3>1, <3>2
    <3>3. want' \/ req_ff'[1] => host_wait' <= since' + 13
      BY <2>1, <2>2, <3>2
    <3> QED BY <1>0, <2>1, <2>2, <2>4, <3>3
  <2> QED BY <1>0, <2>3, <2>4
<1>3. CASE i
  <2>0. DriveStep /\ since' = 0 /\ since >= 2 /\ (s \in BOOLEAN)
    BY <1>3 DEF Edge, DriveEdge
  <2>1. CASE rd_state = "RD_SEND"
    <3>1. Sending /\ ~sec_req /\ rd_left # 0
      BY <2>1 DEF DiscInv, Sending
    <3>2. ~sec_req'
      BY <2>1, <3>1, RequestRises
    <3>3. ~want /\ ~want' /\ ~req_ff'[1]
      BY <1>3, <3>1, <3>2, LevelsMet
    <3>4. rd_left' # 0
      BY <2>0, <2>1, <3>1 DEF DriveStep, DriveResets, DriveIdles, DriveBegins, DriveOver, DriveAsks,
          DriveFilled, DriveOffers, DriveHolds, DriveNext, DriveLast, DriveSends, DriveEnds
    <3>5. ASSUME enable PROVE src_state' = "IDLE"
      <4>1. CASE src_state = "IDLE"
        BY <3>3, <4>1
        DEF Edge, SourceOff, SourceStep, SourceStays, SourceStarts, SourceAsked, SourceFilled,
          SourceHolds, SourceGap, SourceSpends, SourceWord, SourceDrained, SourceTells, SourceRests
      <4>2. CASE src_state = "WAIT" /\ since <= 2
        <5>1. s
          BY <1>0, <1>3, <4>2 DEF Edge
        <5> QED BY <3>3, <3>5, <4>2, <5>1
            DEF Edge, SourceStep, SourceStays, SourceStarts, SourceAsked, SourceFilled,
              SourceHolds, SourceGap, SourceSpends, SourceWord, SourceDrained, SourceTells, SourceRests
      <4> QED BY <2>1, <3>1, <3>5, <4>1, <4>2 DEF Sending
    <3> QED BY <1>0, <3>2, <3>3, <3>4, <3>5
  <2>2. CASE rd_state # "RD_SEND"
    <3>1. DriveFilled
      BY <2>0, <2>2 DEF DriveStep, DriveResets, DriveIdles, DriveBegins, DriveOver, DriveAsks,
          DriveOffers, DriveHolds, DriveNext, DriveLast, DriveSends, DriveEnds
    <3>2. DoneTwo /\ ~sec_req' /\ ~rd_fresh' /\ rd_left' # 0
      BY <3>1 DEF DriveFilled, done, DoneTwo
    <3>3. CASE enable
      <4>1. src_state = "WAIT" \/ (src_state = "IDLE" /\ ~want /\ ~req_ff[1] /\ ~sec_req)
        BY <3>2, <3>3 DEF DiscInv, DoneInv, DonePending
      <4>2. \/ src_state' = "WAIT"
            \/ src_state' = "IDLE" /\ ~want
        BY <4>1
        DEF Edge, SourceOff, SourceStep, SourceStays, SourceStarts, SourceAsked, SourceFilled,
          SourceHolds, SourceGap, SourceSpends, SourceWord, SourceDrained, SourceTells, SourceRests
      <4>3. ASSUME ~want PROVE ~want' /\ ~req_ff'[1]
        <5>1. ~sec_req
          BY <1>3, <4>3, LevelsMet
        <5> QED BY <1>3, <3>2, <5>1, LevelsMet
      <4>4. since' <= 2
        BY <2>0
      <4> QED BY <1>0, <3>2, <3>3, <4>2, <4>3, <4>4
    <3>4. CASE ~enable
      <4>1. host_wait <= since + 9
        BY <3>2, <3>4 DEF DiscInv, DoneInv
      <4>2. host_wait' <= 14
        BY <1>0, <1>1, <3>4, <4>1
      <4>3. host_wait' <= 13
        <5>1. (s /\ since <= 3) \/ (~s /\ host_wait' = host_wait)
          BY <1>3, <2>0, <3>4, HostTime
        <5> QED BY <1>0, <1>1, <3>4, <4>1, <5>1
      <4>4. host_wait' <= since' + 13
        BY <1>1, <2>0, <3>4, <4>3
      <4> QED BY <1>0, <3>2, <3>4, <4>4
    <3> QED BY <1>0, <3>3, <3>4
  <2> QED BY <2>1, <2>2
<1> QED BY <1>2, <1>3 DEF Edge

-----------------------------------------------------------------------------
(* The source. *)

LEMMA RightHeld ==
  ASSUME rd_lba' = rd_lba
  PROVE  \A p : Right(p)' = Right(p)
BY DEF Right, RightIn

LEMMA BurstAsked ==
  ASSUME NEW l \in Nat, NEW b \in Nat
  PROVE  BurstLeft(b, [k \in 1..Burst |-> (l * Beats + b) * BeatWords + (k - 1) * BeatWords], l)
<1> DEFINE q == [k \in 1..Burst |-> (l * Beats + b) * BeatWords + (k - 1) * BeatWords]
<1>1. (l * Beats + b) * BeatWords = l * SectorWords + b * BeatWords /\ (l * Beats + b) * BeatWords \in Nat
  <2>1. (l * Beats + b) * BeatWords = l * (Beats * BeatWords) + b * BeatWords
    BY Counts
  <2>2. (l * Beats + b) * BeatWords \in Nat
    BY Counts
  <2> QED BY <2>1, <2>2, Sizes
<1>2. Len(q) = Burst
  BY <1>1, BurstType
<1>3. ASSUME NEW k \in 1..Burst PROVE q[k] = l * SectorWords + (b + k - 1) * BeatWords
  <2>1. q[k] = (l * Beats + b) * BeatWords + (k - 1) * BeatWords
    OBVIOUS
  <2>2. b * BeatWords + (k - 1) * BeatWords = (b + k - 1) * BeatWords
    BY Counts
  <2>3. l * SectorWords \in Nat /\ b * BeatWords \in Nat /\ (k - 1) * BeatWords \in Nat
    <3>1. k - 1 \in Nat
      BY Counts
    <3> QED BY <3>1, Counts
  <2> QED BY <1>1, <2>1, <2>2, <2>3
<1> QED BY <1>2, <1>3 DEF BurstLeft

LEMMA BurstTaken ==
  ASSUME NEW l \in Nat, NEW b \in Nat, NEW q \in Seq(Nat), q # <<>>, BurstLeft(b, q, l)
  PROVE  /\ Head(q) = l * SectorWords + b * BeatWords
         /\ BurstLeft(b + 1, Tail(q), l)
<1>1. /\ Len(q) \in Nat \ {0} /\ Len(Tail(q)) = Len(q) - 1 /\ Head(q) = q[1]
      /\ \A k \in 1..Len(Tail(q)) : Tail(q)[k] = q[k + 1]
  BY HeadTailProperties, EmptySeq
<1>2. Head(q) = l * SectorWords + (b + 1 - 1) * BeatWords
  BY <1>1 DEF BurstLeft
<1>3. b + 1 - 1 = b
  OBVIOUS
<1>4. ASSUME NEW k \in 1..Len(Tail(q))
      PROVE  Tail(q)[k] = l * SectorWords + ((b + 1) + k - 1) * BeatWords
  <2>1. k + 1 \in 1..Len(q) /\ b + (k + 1) - 1 = (b + 1) + k - 1
    BY <1>1
  <2> QED BY <1>1, <2>1 DEF BurstLeft
<1> QED BY <1>2, <1>3, <1>4 DEF BurstLeft

LEMMA BeatTaken ==
  ASSUME NEW l \in Nat, NEW b \in Nat, b < Beats
  PROVE  BeatLeft(b + 1, b * BeatWords, 0, BeatAt(l * SectorWords + b * BeatWords), l)
<1>1. /\ b + 1 \in 1..Beats /\ (b + 1) - 1 = b /\ b * BeatWords \in Nat /\ l * SectorWords \in Nat
      /\ BeatWords - 0 = BeatWords
  BY Counts
<1>2. b * BeatWords = ((b + 1) - 1) * BeatWords + 0
  BY <1>1
<1> DEFINE a == l * SectorWords + b * BeatWords
<1>3. a \in Nat
  BY <1>1
<1>4. /\ Len(BeatAt(a)) = BeatWords
      /\ \A k \in 1..BeatWords : BeatAt(a)[k] = (a + k - 1) % Mixed
  BY <1>3, BeatAtType
<1>5. ASSUME NEW k \in 1..BeatWords PROVE BeatAt(a)[k] = RightIn(l, b * BeatWords + k - 1)
  <2>1. a + k - 1 = l * SectorWords + (b * BeatWords + k - 1)
    BY <1>1, Counts
  <2> QED BY <1>4, <2>1 DEF RightIn
<1> QED BY <1>1, <1>2, <1>4, <1>5 DEF BeatLeft

LEMMA BeatSpent ==
  ASSUME NEW l, NEW b \in Nat, NEW w \in Nat, NEW e \in Nat, NEW q \in Seq(Word),
         BeatLeft(b, w, e, q, l), e + 1 < BeatWords
  PROVE  BeatLeft(b, w + 1, e + 1, Tail(q), l)
<1>1. Len(q) = BeatWords - e /\ Len(q) \in Nat \ {0}
  BY Counts DEF BeatLeft
<1>2. q # <<>>
  BY <1>1, EmptySeq
<1>3. /\ Len(Tail(q)) = Len(q) - 1
      /\ \A k \in 1..Len(Tail(q)) : Tail(q)[k] = q[k + 1]
  BY <1>2, HeadTailProperties
<1>4. Len(q) - 1 = BeatWords - (e + 1)
  BY <1>1, Counts
<1>5. ASSUME NEW k \in 1..(BeatWords - (e + 1)) PROVE Tail(q)[k] = RightIn(l, (w + 1) + k - 1)
  <2>1. k + 1 \in 1..(BeatWords - e) /\ w + (k + 1) - 1 = (w + 1) + k - 1 /\ k \in 1..Len(Tail(q))
    BY <1>1, <1>3, <1>4, Counts
  <2>2. q[k + 1] = RightIn(l, w + (k + 1) - 1)
    BY <2>1 DEF BeatLeft
  <2> QED BY <1>3, <2>1, <2>2
<1>6. b \in 1..Beats /\ w = (b - 1) * BeatWords + e
  BY DEF BeatLeft
<1>7. w + 1 = (b - 1) * BeatWords + (e + 1)
  <2>1. (b - 1) * BeatWords \in Int
    BY <1>6, Counts
  <2> QED BY <1>6, <2>1
<1> QED BY <1>3, <1>4, <1>5, <1>6, <1>7 DEF BeatLeft

\* The first word still to spend.
LEMMA BeatHead ==
  ASSUME NEW l, NEW b \in Nat, NEW w \in Nat, NEW e \in 0..(BeatWords - 1), NEW q \in Seq(Word),
         BeatLeft(b, w, e, q, l)
  PROVE  /\ q # <<>> /\ Head(q) = RightIn(l, w)
         /\ w < SectorWords /\ w % (Beats * BeatWords) = w
<1>1. Len(q) = BeatWords - e /\ Len(q) \in Nat \ {0} /\ 1 \in 1..(BeatWords - e) /\ w + 1 - 1 = w
  BY Counts DEF BeatLeft
<1>2. q # <<>> /\ Head(q) = q[1]
  BY <1>1, EmptySeq, HeadTailProperties
<1>3. q[1] = RightIn(l, w)
  BY <1>1 DEF BeatLeft
<1>4. w < SectorWords
  <2>1. b \in 1..Beats /\ w = (b - 1) * BeatWords + e
    BY DEF BeatLeft
  <2>2. (b - 1) * BeatWords \in Nat /\ (b - 1) * BeatWords + e + 1 <= SectorWords
    BY <2>1, BeatBounds
  <2> QED BY <2>1, <2>2, Counts
<1>5. w % SectorWords = w
  BY <1>4, Counts
<1>6. Beats * BeatWords = SectorWords
  BY Sizes
<1> QED BY <1>2, <1>3, <1>4, <1>5, <1>6

LEMMA SourceInvKept ==
  ASSUME DiscInv, Spaced, NEW s, NEW i, Edge(s, i)
  PROVE  SourceInv'
<1>1. /\ SourceInv /\ SourceTypes /\ rd_lba \in Nat /\ rd_lba \in Lba /\ enable' = enable
  BY DEF DiscInv, Types, CdvdTypes, Lba, Edge
<1>2. src_state' \notin {"IDLE", "WAIT"} => rd_lba' = rd_lba
  BY SectorHeld DEF Serving
<1>3. CASE SourceOff
  BY <1>1, <1>2, <1>3 DEF SourceOff, SourceInv
<1>4. CASE enable /\ SourceStep
  <2>1. CASE SourceStays
    BY <1>1, <1>2, <1>4, <2>1 DEF SourceStays, SourceInv
  <2>2. CASE SourceStarts
    <3>1. 0 < Beats /\ 0 = 0 * BeatWords
      BY Counts
    <3> QED BY <1>1, <1>2, <1>4, <2>2, <3>1 DEF SourceStarts, SourceInv
  <2>3. CASE SourceAsked
    <3>1. sector = rd_lba
      BY <2>3 DEF SourceAsked, DiscInv, AddressHeld, Serving, sector
    <3>2. beat \in Nat
      BY <1>1 DEF SourceTypes
    <3>3. BurstLeft(beat, hbm', rd_lba)
      BY <1>1, <2>3, <3>1, <3>2, BurstAsked DEF SourceAsked, ar_addr
    <3> QED BY <1>1, <1>2, <1>4, <2>3, <3>3 DEF SourceAsked, SourceInv
  <2>4. CASE SourceFilled
    <3>1. /\ src_state = "R" /\ src_state' = "EMIT" /\ beat < Beats /\ word = beat * BeatWords
          /\ beat \in Nat /\ hbm \in Seq(Nat) /\ hbm # <<>> /\ BurstLeft(beat, hbm, rd_lba)
          /\ emit = 0 /\ gap = 0
      BY <1>1, <2>4 DEF SourceFilled, SourceInv, SourceTypes
    <3>2. Head(hbm) = rd_lba * SectorWords + beat * BeatWords /\ BurstLeft(beat + 1, Tail(hbm), rd_lba)
      BY <1>1, <3>1, BurstTaken
    <3>3. BeatLeft(beat + 1, word, 0, BeatAt(Head(hbm)), rd_lba)
      BY <1>1, <3>1, <3>2, BeatTaken
    <3>4. BeatLeft(beat', word', emit', shift', rd_lba') /\ BurstLeft(beat', hbm', rd_lba')
      BY <1>2, <2>4, <3>1, <3>2, <3>3 DEF SourceFilled
    <3> QED BY <1>1, <1>4, <3>1, <3>4 DEF SourceInv
  <2>5. CASE SourceHolds
    BY <1>1, <1>2, <1>4, <2>5 DEF SourceHolds, SourceGap, SourceInv
  <2>6. CASE SourceSpends
    <3>1. /\ src_state = "EMIT" /\ BeatLeft(beat, word, emit, shift, rd_lba)
          /\ BurstLeft(beat, hbm, rd_lba) /\ beat \in Nat /\ word \in Nat
          /\ emit \in 0..(BeatWords - 1) /\ shift \in Seq(Word)
          /\ gap' = 0 /\ shift' = Tail(shift) /\ word' = word + 1 /\ hbm' = hbm /\ beat' = beat
          /\ emit' = (emit + 1) % BeatWords
      BY <1>1, <2>6 DEF SourceSpends, SourceWord, SourceInv, SourceTypes
    <3>2. CASE emit # BeatWords - 1
      <4>1. emit' = emit + 1 /\ emit + 1 < BeatWords /\ emit \in Nat
        BY <3>1, <3>2, Counts
      <4>2. BeatLeft(beat, word + 1, emit + 1, Tail(shift), rd_lba)
        BY <3>1, <4>1, BeatSpent
      <4>3. src_state' = "EMIT"
        BY <2>6, <3>2 DEF SourceSpends, SourceWord
      <4>4. BeatLeft(beat', word', emit', shift', rd_lba') /\ BurstLeft(beat', hbm', rd_lba')
        BY <1>2, <3>1, <4>1, <4>2, <4>3
      <4> QED BY <1>1, <1>4, <4>3, <4>4 DEF SourceInv
    <3>3. CASE emit = BeatWords - 1
      <4>1. emit' = 0
        <5>1. emit + 1 = BeatWords
          BY <3>1, <3>3, Counts
        <5>2. BeatWords % BeatWords = 0
          BY Counts
        <5> QED BY <3>1, <5>1, <5>2
      <4>2. beat \in 1..Beats /\ word + 1 = beat * BeatWords
        <5>1. beat \in 1..Beats /\ word = (beat - 1) * BeatWords + emit
          BY <3>1 DEF BeatLeft
        <5>2. (beat - 1) * BeatWords + BeatWords = beat * BeatWords /\ (beat - 1) * BeatWords \in Nat
          BY <3>1, <5>1, BeatBounds
        <5> QED BY <3>3, <5>1, <5>2, Counts
      <4>3. /\ src_state' \in {"DRAIN", "AR", "R"}
            /\ beat = Beats => src_state' = "DRAIN"
        BY <2>6, <3>3 DEF SourceSpends, SourceWord
      <4>4. beat # Beats => beat < Beats
        BY <4>2, Counts
      <4>5. src_state' \in {"AR", "R"} => beat' < Beats /\ word' = beat' * BeatWords
        BY <3>1, <4>2, <4>3, <4>4
      <4>6. src_state' = "R" => BurstLeft(beat', hbm', rd_lba')
        BY <1>2, <3>1
      <4> QED BY <1>1, <1>4, <3>1, <4>1, <4>3, <4>5, <4>6 DEF SourceInv
    <3> QED BY <3>2, <3>3
  <2>7. CASE SourceDrained \/ SourceTells \/ SourceRests
    BY <1>1, <1>4, <2>7 DEF SourceDrained, SourceTells, SourceRests, SourceInv
  <2> QED BY <1>4, <2>1, <2>2, <2>3, <2>4, <2>5, <2>6, <2>7 DEF SourceStep
<1> QED BY <1>3, <1>4 DEF Edge

-----------------------------------------------------------------------------
(* The host. *)

LEMMA HostWord ==
  ASSUME NEW l \in Lba, NEW w \in Position
  PROVE  /\ l * SectorWords + w = RightIn(l, w)
         /\ w % SectorWords = w
<1>1. l * SectorWords \in Nat /\ (LbaSpace - 1) * SectorWords = LbaSpace * SectorWords - SectorWords
  BY Counts DEF Lba
<1>2. l * SectorWords <= (LbaSpace - 1) * SectorWords
  BY Counts DEF Lba
<1>3. l * SectorWords + w \in 0..(Mixed - 1)
  BY <1>1, <1>2, Sizes DEF Position
<1>4. (l * SectorWords + w) % Mixed = l * SectorWords + w
  BY <1>3, Sizes
<1>5. w % SectorWords = w
  BY Counts DEF Position
<1> QED BY <1>4, <1>5 DEF RightIn

LEMMA HostInvWaits ==
  ASSUME DiscInv, Spaced, NEW s, NEW i, Edge(s, i), s, ~enable, HostWaits
  PROVE  HostInv'
<1>1. /\ HostInv /\ HostTypes /\ PulseTypes /\ FillPointer /\ enable' = enable
      /\ host_wait \in Nat /\ HostGap >= 15 /\ HostGap \in Nat /\ host_word \in Nat
      /\ host' = host /\ host_word' = host_word /\ sec_data' = sec_data
      /\ sec_data_re' = FALSE /\ sec_done_re' = FALSE
      /\ host_wait' = (IF host_wait < HostGap THEN host_wait + 1 ELSE host_wait)
  BY Counts DEF DiscInv, Types, HostTypes, Spaced, HostWaits, Edge, HostStep
<1>2. InWords' <=> InWords
  BY <1>1 DEF InWords
<1>3. InWords => rd_lba' = rd_lba
  BY SectorHeld DEF InWords, Serving
<1>4. host_wait' # 0 /\ (host_wait' = 1 <=> host_wait = 0) /\ (host_wait' = 2 <=> host_wait = 1)
  BY <1>1
<1>5. ~sec_data_re'
  BY <1>1
<1>6. sec_arm' <=> InWords' /\ host_wait' = 1
  BY <1>1, <1>2, <1>4 DEF FillPointer, HostInv
<1>7. sec_go' <=> InWords' /\ host_wait' = 2
  BY <1>1, <1>2, <1>4 DEF FillPointer, HostInv
<1>8. ASSUME InWords
      PROVE  /\ sec_data' = RightIn(rd_lba', host_word' - 1)
             /\ sec_ptr_q' = host_word' - 1 /\ sec_ptr' = host_word' % SectorWords
  <2>1. sec_data' = RightIn(rd_lba', host_word' - 1)
    <3>1. sec_data = RightIn(rd_lba, host_word - 1)
      BY <1>1, <1>8 DEF HostInv, Right
    <3> QED BY <1>1, <1>3, <1>8, <3>1
  <2>2. CASE host_wait = 0
    <3>1. sec_data_re = TRUE /\ sec_done_re = FALSE /\ sec_ptr = host_word - 1
      <4>1. ~sec_done_re
        BY <1>8 DEF DiscInv, DoneInv, DonePending, Serving, InWords
      <4> QED BY <1>1, <1>8, <2>2, <4>1 DEF HostInv, PulseTypes
    <3>2. sec_ptr' = (sec_ptr + 1) % SectorWords /\ sec_ptr_q' = sec_ptr
      BY <1>1, <3>1 DEF FillPointer
    <3>3. sec_ptr + 1 = host_word
      BY <1>1, <3>1
    <3> QED BY <1>1, <2>1, <3>1, <3>2, <3>3
  <2>3. CASE host_wait # 0
    <3>1. sec_data_re = FALSE /\ sec_done_re = FALSE
      <4>1. ~sec_done_re
        BY <1>8 DEF DiscInv, DoneInv, DonePending, Serving, InWords
      <4> QED BY <1>1, <2>3, <4>1 DEF HostInv, PulseTypes
    <3>2. sec_ptr' = sec_ptr /\ sec_ptr_q' = sec_ptr_q
      BY <1>1, <3>1 DEF FillPointer
    <3>3. sec_ptr_q = host_word - 1 /\ sec_ptr = host_word % SectorWords
      BY <1>1, <1>8, <2>3 DEF HostInv
    <3> QED BY <1>1, <2>1, <3>2, <3>3
  <2> QED BY <2>2, <2>3
<1>9. ASSUME ~InWords PROVE sec_ptr' = 0
  <2>1. CASE sec_done_re
    BY <1>1, <2>1 DEF FillPointer
  <2>2. CASE ~sec_done_re
    <3>1. sec_data_re = FALSE /\ sec_ptr = 0
      BY <1>1, <1>9, <2>2 DEF HostInv, PulseTypes
    <3> QED BY <1>1, <2>2, <3>1 DEF FillPointer
  <2> QED BY <2>1, <2>2
<1> QED BY <1>1, <1>2, <1>4, <1>5, <1>6, <1>7, <1>8, <1>9 DEF HostInv, Right

LEMMA HostInvActs ==
  ASSUME DiscInv, Spaced, NEW s, NEW i, Edge(s, i), s, ~enable, HostActs
  PROVE  HostInv'
<1>1. /\ HostInv /\ HostTypes /\ PulseTypes /\ FillPointer /\ enable' = enable
      /\ host_wait' = 0 /\ host_wait \notin {0, 1, 2} /\ host_word \in Nat
  BY Counts DEF DiscInv, Types, HostTypes, Spaced, HostActs, Edge, HostStep
<1>2. sec_data_re = FALSE /\ sec_arm = FALSE /\ sec_go = FALSE /\ sec_done_re = FALSE
  <2>1. ~sec_done_re
    BY <1>1 DEF DiscInv, DoneInv
  <2> QED BY <1>1, <2>1 DEF HostInv, PulseTypes
<1>3. sec_arm' = FALSE /\ sec_go' = FALSE /\ sec_ptr' = sec_ptr /\ sec_ptr_q' = sec_ptr_q
  BY <1>1, <1>2 DEF FillPointer
<1>4. ~InWords => sec_ptr = 0
  BY <1>1, <1>2 DEF HostInv
<1>5. CASE HostPolls
  <2>1. ~InWords /\ ~InWords' /\ host' = "LBA" /\ sec_data_re' = FALSE /\ sec_done_re' = FALSE
    BY <1>5 DEF HostPolls, InWords
  <2> QED BY <1>1, <1>3, <1>4, <2>1 DEF HostInv
<1>6. CASE HostReads
  <2>1. ~InWords /\ ~InWords' /\ host' = "WORDS" /\ host_word' = 0
        /\ sec_data_re' = FALSE /\ sec_done_re' = FALSE
    BY <1>6 DEF HostReads, InWords
  <2>2. 0 < SectorWords
    BY Counts
  <2> QED BY <1>1, <1>3, <1>4, <2>1, <2>2 DEF HostInv
<1>7. CASE HostWrites
  <2>1. /\ host = "WORDS" /\ host_word < SectorWords /\ host_word' = host_word + 1
        /\ sec_data' = host_lba * SectorWords + host_word /\ sec_data_re' = TRUE /\ sec_done_re' = FALSE
        /\ host' = IF host_word = SectorWords - 1 THEN "DONE" ELSE "WORDS"
    BY <1>7 DEF HostWrites
  <2>2. /\ host_word' - 1 = host_word /\ host_word' > 0 /\ host_word \in Position
        /\ host' = "WORDS" => host_word' < SectorWords
        /\ host' = "DONE" => host_word' = SectorWords
        /\ host' \in {"WORDS", "DONE"}
    BY <1>1, <2>1, Counts DEF Position
  <2>3. InWords'
    BY <2>2 DEF InWords
  <2>4. host_lba = rd_lba /\ rd_lba' = rd_lba /\ rd_lba \in Lba
    BY <2>1, SectorHeld DEF DiscInv, AddressHeld, Serving, Types, CdvdTypes
  <2>5. sec_data' = RightIn(rd_lba', host_word' - 1) /\ host_word % SectorWords = host_word
    BY <2>1, <2>2, <2>4, HostWord
  <2>6. sec_ptr = host_word
    <3>1. CASE host_word = 0
      BY <1>4, <3>1 DEF InWords
    <3>2. CASE host_word # 0
      <4>1. InWords
        BY <1>1, <2>1, <3>2 DEF InWords
      <4>2. sec_ptr = host_word % SectorWords
        BY <1>1, <4>1 DEF HostInv
      <4> QED BY <2>5, <4>2
    <3> QED BY <3>1, <3>2
  <2>7. sec_ptr' = host_word' - 1
    BY <1>3, <2>2, <2>6
  <2> QED BY <1>1, <1>3, <2>1, <2>2, <2>3, <2>5, <2>7 DEF HostInv, Right
<1>8. CASE HostEnds
  <2>1. ~InWords' /\ host' = "POLL" /\ sec_data_re' = FALSE /\ sec_done_re' = TRUE
    BY <1>8 DEF HostEnds, InWords
  <2> QED BY <1>1, <1>3, <2>1 DEF HostInv
<1> QED BY <1>5, <1>6, <1>7, <1>8 DEF HostActs

LEMMA HostInvKept ==
  ASSUME DiscInv, Spaced, NEW s, NEW i, Edge(s, i)
  PROVE  HostInv'
<1>1. HostInv /\ enable' = enable
  BY DEF DiscInv, Edge
<1>2. CASE s /\ enable
  <2>1. /\ sec_data_re' = FALSE /\ sec_done_re' = FALSE /\ sec_arm' = FALSE /\ sec_go' = FALSE
        /\ host' = host /\ host = "POLL" /\ sec_ptr' = sec_ptr /\ ~sec_done_re
    BY <1>1, <1>2 DEF Edge, HostOff, HostInv
  <2>2. ~InWords /\ ~InWords'
    BY <2>1 DEF InWords
  <2> QED BY <1>1, <1>2, <2>1, <2>2 DEF HostInv
<1>3. CASE s /\ ~enable
  BY <1>3, HostInvWaits, HostInvActs DEF Edge, HostStep
<1>4. CASE ~s
  <2>1. UNCHANGED <<host, host_lba, host_word, host_wait, sec_data, sec_ptr, sec_ptr_q,
                    sec_data_re, sec_done_re, sec_arm, sec_go>>
    BY <1>4 DEF Edge
  <2>2. InWords' <=> InWords
    BY <2>1 DEF InWords
  <2>3. InWords => rd_lba' = rd_lba
    BY SectorHeld DEF InWords, Serving
  <2>4. InWords => sec_data' = RightIn(rd_lba', host_word' - 1)
    BY <1>1, <2>1, <2>3 DEF HostInv, Right
  <2> QED BY <1>1, <2>1, <2>2, <2>4 DEF HostInv, Right
<1> QED BY <1>2, <1>3, <1>4 DEF Edge

-----------------------------------------------------------------------------
(* The words. *)

\* While a word is sent, and until it is in the first stage, the filler keeps its
\* position and its contents.
LEMMA FillRight ==
  ASSUME DiscInv, WordNew \/ fill_we
  PROVE  /\ Serving /\ ~DonePending /\ fill_data = Right(fill_addr)
         /\ enable => src_state = "EMIT" /\ gap <= since + 1 /\ fill_addr = word
         /\ ~enable => /\ InWords /\ host_wait \in 2..(since + 3)
                       /\ fill_addr = sec_ptr_q /\ fill_data = sec_data /\ fill_addr = host_word - 1
<1>1. /\ SourceInv /\ HostInv /\ Carried /\ SourceTypes /\ HostTypes /\ since \in 0..4
      /\ enable \in BOOLEAN
  BY DEF DiscInv, Types, ClockTypes
<1>2. CASE enable
  <2>1. src_state = "EMIT" /\ gap <= since + 1
    <3>1. CASE WordNew
      BY <1>1, <1>2, <3>1 DEF Carried
    <3>2. CASE fill_we
      <4>1. src_state = "EMIT" /\ gap = 0
        BY <1>2, <3>2 DEF fill_we, src_we
      <4> QED BY <1>1, <4>1
    <3> QED BY <3>1, <3>2
  <2>2. /\ BeatLeft(beat, word, emit, shift, rd_lba) /\ beat \in Nat /\ word \in Nat
        /\ emit \in 0..(BeatWords - 1) /\ shift \in Seq(Word)
    BY <1>1, <2>1 DEF SourceInv, SourceTypes
  <2>3. shift # <<>> /\ Head(shift) = RightIn(rd_lba, word) /\ word % (Beats * BeatWords) = word
    BY <2>2, BeatHead
  <2>4. fill_addr = word /\ fill_data = Right(word)
    BY <1>2, <2>3 DEF fill_addr, fill_data, src_addr, src_data, Right
  <2>5. Serving
    BY <2>1 DEF Serving
  <2> QED BY <1>1, <1>2, <2>1, <2>4, <2>5 DEF DiscInv, DoneInv
<1>3. CASE ~enable
  <2>1. InWords /\ host_wait \in 2..(since + 3)
    <3>1. CASE WordNew
      <4>1. InWords /\ host_wait \in 3..(since + 3)
        BY <1>1, <1>3, <3>1 DEF Carried
      <4> QED BY <1>1, <4>1
    <3>2. CASE fill_we
      <4>1. InWords /\ host_wait = 2
        BY <1>1, <1>3, <3>2 DEF fill_we, HostInv
      <4> QED BY <1>1, <4>1
    <3> QED BY <3>1, <3>2
  <2>2. host_wait # 0
    BY <1>1, <2>1
  <2>3. sec_data = Right(host_word - 1) /\ sec_ptr_q = host_word - 1
    BY <1>1, <2>1, <2>2 DEF HostInv
  <2>4. fill_addr = sec_ptr_q /\ fill_data = sec_data
    BY <1>3 DEF fill_addr, fill_data
  <2>5. Serving
    BY <2>1 DEF Serving, InWords
  <2> QED BY <1>1, <1>3, <2>1, <2>3, <2>4, <2>5 DEF DiscInv, DoneInv
<1> QED BY <1>2, <1>3

LEMMA FillStable ==
  ASSUME DiscInv, Spaced, NEW s, NEW i, Edge(s, i), WordNew \/ fill_we
  PROVE  /\ fill_addr' = fill_addr /\ fill_data' = fill_data /\ rd_lba' = rd_lba /\ Serving'
         /\ enable => src_state' = "EMIT" /\ word' = word
         /\ ~enable => InWords' /\ host_word' = host_word
         /\ s /\ enable => gap' = gap + 1
         /\ s /\ ~enable => host_wait' = host_wait + 1
         /\ ~s => gap' = gap /\ host_wait' = host_wait
<1>1. /\ SourceTypes /\ HostTypes /\ PulseTypes /\ HostInv /\ since \in 0..4 /\ enable' = enable
      /\ Throttle >= 6 /\ HostGap >= 15 /\ HostGap \in Nat /\ Throttle \in Nat
  BY Counts DEF DiscInv, Types, ClockTypes, Edge, Spaced
<1>2. /\ Serving
      /\ enable => src_state = "EMIT" /\ gap <= since + 1
      /\ ~enable => InWords /\ host_wait \in 2..(since + 3)
  BY FillRight
<1>3. rd_lba' = rd_lba
  BY <1>2, SectorHeld
<1>4. CASE ~s
  <2>1. /\ SourceOff
        /\ UNCHANGED <<host, host_lba, host_word, host_wait, sec_data, sec_ptr, sec_ptr_q,
                       sec_data_re, sec_done_re, sec_arm, sec_go>>
    BY <1>4 DEF Edge
  <2> QED BY <1>1, <1>2, <1>3, <1>4, <2>1
          DEF SourceOff, fill_addr, fill_data, src_addr, src_data, Serving, InWords
<1>5. CASE s /\ enable
  <2>1. since <= 3
    BY <1>1, <1>5 DEF Edge
  <2>2. gap # Throttle - 1
    BY <1>1, <1>2, <1>5, <2>1 DEF SourceTypes
  <2>3. SourceStep /\ HostOff
    BY <1>5 DEF Edge
  <2>4. SourceHolds
    BY <1>2, <1>5, <2>2, <2>3
    DEF SourceStep, SourceStays, SourceStarts, SourceAsked, SourceFilled, SourceSpends, SourceWord,
        SourceDrained, SourceTells, SourceRests
  <2>5. /\ src_state' = "EMIT" /\ word' = word /\ shift' = shift /\ gap' = gap + 1
    BY <1>2, <1>5, <2>4 DEF SourceHolds, SourceGap
  <2>6. fill_addr' = fill_addr /\ fill_data' = fill_data /\ Serving'
    BY <1>1, <1>5, <2>5 DEF fill_addr, fill_data, src_addr, src_data, Serving
  <2> QED BY <1>3, <1>5, <2>5, <2>6
<1>6. CASE s /\ ~enable
  <2>1. host_wait # HostGap /\ host_wait # 0
    <3>1. since <= 3
      BY <1>1, <1>6 DEF Edge
    <3> QED BY <1>1, <1>2, <1>6, <3>1 DEF HostTypes
  <2>2. HostWaits /\ host_wait' = host_wait + 1 /\ FillPointer
    BY <1>6, <2>1, HostTime DEF Edge, HostStep
  <2>3. sec_data_re = FALSE
    BY <1>1, <2>1 DEF HostInv, PulseTypes
  <2>4. sec_ptr_q' = sec_ptr_q /\ sec_data' = sec_data /\ host' = host /\ host_word' = host_word
    BY <2>2, <2>3 DEF HostWaits, FillPointer
  <2>5. fill_addr' = fill_addr /\ fill_data' = fill_data
    BY <1>1, <1>6, <2>4 DEF fill_addr, fill_data
  <2>6. Serving' /\ InWords'
    BY <1>2, <1>6, <2>4 DEF Serving, InWords
  <2> QED BY <1>3, <1>6, <2>2, <2>4, <2>5, <2>6
<1> QED BY <1>1, <1>4, <1>5, <1>6 DEF DiscInv, Types, ClockTypes, Edge

\* A word is sent when the one before it has left.
LEMMA WordEnters ==
  ASSUME DiscInv, fill_we
  PROVE  /\ ~WordNew
         /\ enable => gap = 0
         /\ ~enable => host_wait = 2
<1>1. Carried /\ HostInv /\ since \in 0..4
  BY DEF DiscInv, Types, ClockTypes
<1>2. enable => gap = 0
  BY DEF fill_we, src_we
<1>3. ~enable => host_wait = 2
  BY <1>1 DEF fill_we, HostInv
<1>4. ~(WordNew /\ enable)
  BY <1>1, <1>2 DEF Carried
<1>5. ~(WordNew /\ ~enable)
  BY <1>1, <1>3 DEF Carried
<1> QED BY <1>2, <1>3, <1>4, <1>5

LEMMA WordPasses ==
  ASSUME DiscInv, NEW s, NEW i, Edge(s, i)
  PROVE  /\ ~i => /\ WordNew' <=> WordNew \/ fill_we
                  /\ WordOne' <=> WordOne
                  /\ WordTwo' <=> WordTwo
         /\ i => /\ WordTwo' <=> WordOne
                 /\ \/ (WordNew' <=> s /\ fill_we) /\ (WordOne' <=> WordNew)
                    \/ ~WordNew' /\ (WordOne' <=> WordNew \/ (s /\ fill_we))
<1>1. /\ we_tog \in BOOLEAN /\ we_tog' \in BOOLEAN
      /\ we_ff[1] \in BOOLEAN /\ we_ff[2] \in BOOLEAN /\ we_ff[3] \in BOOLEAN
      /\ we_ff'[1] \in BOOLEAN /\ (~i => s)
  BY TypesKept DEF DiscInv, Types, SyncTypes, Edge
<1>2. (s /\ fill_we) => we_tog' = ~we_tog
  <2>1. CASE s /\ fill_we
    <3>1. we_tog' = (we_tog # fill_we)
      BY <2>1 DEF Edge
    <3>2. fill_we = TRUE
      <4>1. fill_we \in BOOLEAN
        BY DEF DiscInv, Types, PulseTypes, ClockTypes, fill_we, src_we
      <4> QED BY <2>1, <4>1
    <3> QED BY <1>1, <3>1, <3>2
  <2> QED BY <2>1
<1>3. ~(s /\ fill_we) => we_tog' = we_tog
  <2>1. CASE s /\ ~fill_we
    <3>1. we_tog' = (we_tog # fill_we)
      BY <2>1 DEF Edge
    <3>2. fill_we = FALSE
      <4>1. fill_we \in BOOLEAN
        BY DEF DiscInv, Types, PulseTypes, ClockTypes, fill_we, src_we
      <4> QED BY <2>1, <4>1
    <3> QED BY <1>1, <3>1, <3>2
  <2>2. CASE ~s
    BY <2>2 DEF Edge
  <2> QED BY <2>1, <2>2
<1>4. fill_we => we_tog = we_ff[1]
  BY <1>1, WordEnters DEF WordNew
<1>5. CASE ~i
  <2>1. we_ff' = we_ff
    BY <1>5 DEF Edge
  <2> QED BY <1>1, <1>2, <1>3, <1>4, <1>5, <2>1 DEF WordNew, WordOne, WordTwo
<1>6. CASE i
  <2>1. /\ we_ff'[1] \in (IF s THEN {we_tog, we_tog'} ELSE {we_tog})
        /\ we_ff'[2] = we_ff[1] /\ we_ff'[3] = we_ff[2]
    BY <1>6 DEF Edge, StagesShift, Sampled
  <2>2. WordTwo' <=> WordOne
    BY <2>1 DEF WordOne, WordTwo
  <2>3. CASE we_ff'[1] = we_tog
    <3>1. WordOne' <=> WordNew
      BY <2>1, <2>3 DEF WordOne, WordNew
    <3>2. WordNew' <=> s /\ fill_we
      BY <1>1, <1>2, <1>3, <2>3 DEF WordNew
    <3> QED BY <1>6, <2>2, <3>1, <3>2
  <2>4. CASE we_ff'[1] = we_tog'
    <3>1. ~WordNew'
      BY <2>4 DEF WordNew
    <3>2. WordOne' <=> WordNew \/ (s /\ fill_we)
      BY <1>1, <1>2, <1>3, <1>4, <2>1, <2>4 DEF WordOne, WordNew
    <3> QED BY <1>6, <2>2, <3>1, <3>2
  <2>5. we_ff'[1] = we_tog \/ we_ff'[1] = we_tog'
    BY <2>1
  <2> QED BY <2>3, <2>4, <2>5
<1> QED BY <1>5, <1>6

\* The first stage samples the position and the contents as they stand.
LEMMA WordSampled ==
  ASSUME DiscInv, Spaced, NEW s, NEW i, Edge(s, i), i, WordNew \/ (s /\ fill_we)
  PROVE  addr_ff'[1] = fill_addr /\ data_ff'[1] = fill_data
<1>1. fill_addr' = fill_addr /\ fill_data' = fill_data
  BY FillStable
<1> QED BY <1>1 DEF Edge, StagesShift, SampledBits

\* Words in the stages are of the sector the drive is at.
LEMMA WordsOfSector ==
  ASSUME DiscInv, Spaced, NEW s, NEW i, Edge(s, i), WordNew \/ fill_we \/ WordOne
  PROVE  rd_lba' = rd_lba
<1>1. CASE WordNew \/ fill_we
  BY <1>1, FillStable
<1>2. CASE WordOne
  <2>1. Serving \/ DonePending
    BY <1>2 DEF DiscInv, InOrder, DonePending
  <2> QED BY <2>1, SectorHeld
<1> QED BY <1>1, <1>2

LEMMA FirstOf ==
  ASSUME NEW n \in Nat
  PROVE  1 \in 1..(n + 1) /\ 3 \in 3..(n + 3)
OBVIOUS

LEMMA CarriedKept ==
  ASSUME DiscInv, Spaced, NEW s, NEW i, Edge(s, i)
  PROVE  Carried'
<1>1. Carried /\ enable' = enable /\ since \in 0..4 /\ SourceTypes /\ HostTypes
  BY DEF DiscInv, Edge, Types, ClockTypes
<1>2. /\ WordNew' => (s /\ fill_we) \/ (~i /\ s /\ WordNew)
      /\ WordOne' => (~i /\ WordOne) \/ (i /\ (WordNew \/ (s /\ fill_we)))
      /\ WordTwo' => (~i /\ WordTwo) \/ (i /\ WordOne)
  BY WordPasses DEF Edge
<1>3. ASSUME WordNew'
      PROVE  IF enable' THEN src_state' = "EMIT" /\ gap' \in 1..(since' + 1)
                        ELSE InWords' /\ host_wait' \in 3..(since' + 3)
  <2>1. CASE s /\ fill_we
    <3>1. since' \in Nat /\ (since' = 0 \/ since' = since + 1)
      BY <1>1 DEF Edge
    <3>2. CASE enable
      <4>1. src_state' = "EMIT" /\ gap' = 1
        <5>1. gap = 0
          BY <2>1, <3>2, WordEnters
        <5>2. src_state' = "EMIT" /\ gap' = gap + 1
          BY <2>1, <3>2, FillStable
        <5> QED BY <5>1, <5>2
      <4>2. 1 \in 1..(since' + 1)
        BY <3>1, FirstOf, Zenon
      <4> QED BY <1>1, <3>2, <4>1, <4>2
    <3>3. CASE ~enable
      <4>1. InWords' /\ host_wait' = 3
        <5>1. host_wait = 2
          BY <2>1, <3>3, WordEnters
        <5>2. InWords' /\ host_wait' = host_wait + 1
          BY <2>1, <3>3, FillStable
        <5> QED BY <5>1, <5>2
      <4>2. 3 \in 3..(since' + 3)
        BY <3>1, FirstOf, Zenon
      <4> QED BY <1>1, <3>3, <4>1, <4>2
    <3> QED BY <3>2, <3>3
  <2>2. CASE ~i /\ s /\ WordNew
    <3>1. since' = since + 1
      BY <2>2 DEF Edge
    <3>2. CASE enable
      <4>1. src_state' = "EMIT" /\ gap' = gap + 1 /\ gap \in 1..(since + 1)
        BY <1>1, <2>2, <3>2, FillStable DEF Carried
      <4>2. gap + 1 \in 1..((since + 1) + 1)
        BY <1>1, <4>1
      <4> QED BY <1>1, <3>1, <3>2, <4>1, <4>2
    <3>3. CASE ~enable
      <4>1. InWords' /\ host_wait' = host_wait + 1 /\ host_wait \in 3..(since + 3)
        BY <1>1, <2>2, <3>3, FillStable DEF Carried
      <4>2. host_wait + 1 \in 3..((since + 1) + 3)
        BY <1>1, <4>1
      <4> QED BY <1>1, <3>1, <3>3, <4>1, <4>2
    <3> QED BY <3>2, <3>3
  <2> QED BY <1>2, <1>3, <2>1, <2>2
<1>4. ASSUME WordOne' PROVE data_ff[1]' = Right(addr_ff[1])'
  <2>1. CASE ~i /\ WordOne
    <3>1. data_ff' = data_ff /\ addr_ff' = addr_ff /\ rd_lba' = rd_lba
      BY <2>1, WordsOfSector DEF Edge
    <3> QED BY <1>1, <2>1, <3>1 DEF Carried, Right
  <2>2. CASE i /\ (WordNew \/ (s /\ fill_we))
    <3>1. addr_ff'[1] = fill_addr /\ data_ff'[1] = fill_data
      BY <2>2, WordSampled
    <3>2. rd_lba' = rd_lba /\ fill_data = Right(fill_addr)
      BY <2>2, WordsOfSector, FillRight
    <3> QED BY <3>1, <3>2 DEF Right
  <2> QED BY <1>2, <1>4, <2>1, <2>2
<1>5. ASSUME WordTwo' PROVE data_ff[2]' = Right(addr_ff[2])'
  <2>1. CASE ~i /\ WordTwo
    <3>1. data_ff' = data_ff /\ addr_ff' = addr_ff /\ rd_lba' = rd_lba
      BY <2>1, LevelsFollow DEF Edge, DriveOff
    <3> QED BY <1>1, <2>1, <3>1 DEF Carried, Right
  <2>2. CASE i /\ WordOne
    <3>1. addr_ff'[2] = addr_ff[1] /\ data_ff'[2] = data_ff[1]
      BY <2>2 DEF Edge, StagesShift
    <3>2. rd_lba' = rd_lba
      BY <2>2, WordsOfSector
    <3> QED BY <1>1, <2>2, <3>1, <3>2 DEF Carried, Right
  <2> QED BY <1>2, <1>5, <2>1, <2>2
<1> QED BY <1>3, <1>4, <1>5, Zenon DEF Carried

LEMMA ServingEnds ==
  ASSUME DiscInv, NEW s, NEW i, Edge(s, i), Serving, ~Serving'
  PROVE  s /\ (src_state = "DONE" \/ (~enable /\ HostEnds /\ host_wait = HostGap))
<1>1. /\ enable => host = "POLL"
      /\ ~enable => src_state = "IDLE"
  BY DEF DiscInv, HostInv, SourceInv
<1>2. s
  BY DEF Edge, SourceOff, Serving
<1>3. CASE enable
  <2>1. SourceStep /\ src_state \notin {"IDLE", "WAIT"} /\ src_state' \in {"IDLE", "WAIT"}
    BY <1>1, <1>2, <1>3 DEF Edge, Serving
  <2>2. src_state = "DONE"
    BY <2>1 DEF SourceStep, SourceStays, SourceStarts, SourceAsked, SourceFilled, SourceHolds,
        SourceGap, SourceSpends, SourceWord, SourceDrained, SourceTells, SourceRests
  <2> QED BY <1>2, <2>2
<1>4. CASE ~enable
  <2>1. HostStep /\ host # "POLL" /\ host' = "POLL"
    BY <1>1, <1>2, <1>4 DEF Edge, Serving
  <2>2. HostEnds /\ host_wait = HostGap
    BY <2>1 DEF HostStep, HostWaits, HostActs, HostPolls, HostReads, HostWrites
  <2> QED BY <1>2, <1>4, <2>2
<1> QED BY <1>3, <1>4

\* What is sent after an edge was sent before it, or is sent in it.
LEMMA SentBySource ==
  ASSUME DiscInv, Spaced, NEW s, NEW i, Edge(s, i), NEW p \in Position,
         \/ src_state' \in {"AR", "R"} /\ p < word'
         \/ src_state' = "EMIT" /\ (p < word' \/ (p = word' /\ gap' # 0))
         \/ src_state' \in {"DRAIN", "DONE"}
  PROVE  Sent(p) \/ (s /\ fill_we /\ p = fill_addr)
<1>1. SourceInv /\ SourceTypes /\ Throttle >= 6 /\ Throttle \in Nat /\ p \in Nat /\ p < SectorWords
  BY Counts DEF DiscInv, Types, Spaced, Position
<1>2. CASE SourceOff
  BY <1>2 DEF SourceOff, Sent
<1>3. CASE s /\ enable /\ SourceStep
  <2>1. CASE SourceStays
    BY <2>1 DEF SourceStays, Sent
  <2>2. CASE SourceStarts
    BY <1>1, <2>2 DEF SourceStarts
  <2>3. CASE SourceAsked
    BY <2>3 DEF SourceAsked, Sent
  <2>4. CASE SourceFilled
    <3>1. gap = 0 /\ gap' = gap /\ word' = word /\ src_state = "R" /\ src_state' = "EMIT"
      BY <1>1, <2>4 DEF SourceFilled, SourceInv
    <3> QED BY <3>1 DEF Sent
  <2>5. CASE SourceHolds
    <3>1. src_state = "EMIT" /\ src_state' = "EMIT" /\ word' = word
      BY <2>5 DEF SourceHolds, SourceGap
    <3>2. CASE p < word \/ gap # 0
      BY <3>1, <3>2 DEF Sent
    <3>3. CASE gap = 0 /\ ~(p < word)
      <4>1. p = word
        BY <3>1, <3>3
      <4>2. fill_we
        BY <1>3, <3>1, <3>3 DEF fill_we, src_we
      <4>3. fill_addr = word
        BY <1>3, <4>2, FillRight
      <4> QED BY <1>3, <4>1, <4>2, <4>3
    <3> QED BY <3>2, <3>3
  <2>6. CASE SourceSpends
    <3>1. /\ src_state = "EMIT" /\ gap # 0 /\ word' = word + 1 /\ gap' = 0 /\ word \in Nat
          /\ BeatLeft(beat, word, emit, shift, rd_lba) /\ emit \in 0..(BeatWords - 1)
      BY <1>1, <2>6 DEF SourceSpends, SourceWord, SourceTypes, SourceInv
    <3>2. p <= word
      <4>1. CASE src_state' \in {"AR", "R", "EMIT"}
        <5>1. p < word + 1
          BY <3>1, <4>1
        <5> QED BY <1>1, <3>1, <5>1
      <4>2. CASE src_state' \in {"DRAIN", "DONE"}
        <5>1. emit = BeatWords - 1 /\ beat = Beats
          BY <2>6, <4>2 DEF SourceSpends, SourceWord
        <5>2. beat \in 1..Beats /\ word = (beat - 1) * BeatWords + emit
          BY <3>1 DEF BeatLeft
        <5>3. (beat - 1) * BeatWords + BeatWords = beat * BeatWords /\ (beat - 1) * BeatWords \in Nat
          BY <3>1, <5>2, BeatBounds
        <5>4. beat * BeatWords = SectorWords
          BY <5>1, Sizes
        <5> QED BY <1>1, <3>1, <5>1, <5>2, <5>3, <5>4, Counts
      <4> QED BY <4>1, <4>2
    <3>3. p < word \/ p = word
      BY <1>1, <3>1, <3>2
    <3> QED BY <3>1, <3>3 DEF Sent
  <2>7. CASE SourceDrained
    BY <2>7 DEF SourceDrained, Sent
  <2>8. CASE SourceTells \/ SourceRests
    BY <2>8 DEF SourceTells, SourceRests
  <2> QED BY <1>3, <2>1, <2>2, <2>3, <2>4, <2>5, <2>6, <2>7, <2>8 DEF SourceStep
<1> QED BY <1>2, <1>3 DEF Edge

LEMMA SentByHost ==
  ASSUME DiscInv, Spaced, NEW s, NEW i, Edge(s, i), NEW p \in Position,
         InWords', p < host_word' - 1 \/ (p = host_word' - 1 /\ host_wait' > 2)
  PROVE  Sent(p) \/ (s /\ fill_we /\ p = fill_addr)
<1>1. /\ HostInv /\ HostTypes /\ HostGap >= 15 /\ HostGap \in Nat /\ p \in Nat
      /\ host_word \in Nat /\ host_wait \in Nat
  BY Counts DEF DiscInv, Types, Spaced, Position, HostTypes
<1>2. CASE ~s \/ enable
  <2>1. host' = host /\ host_word' = host_word /\ host_wait' = host_wait
    BY <1>2 DEF Edge, HostOff
  <2> QED BY <2>1 DEF Sent, InWords
<1>3. CASE s /\ ~enable /\ HostWaits
  <2>1. /\ host' = host /\ host_word' = host_word
        /\ host_wait' = (IF host_wait < HostGap THEN host_wait + 1 ELSE host_wait)
    BY <1>3 DEF HostWaits
  <2>2. InWords
    BY <2>1 DEF InWords
  <2>3. p < host_word - 1 \/ (p = host_word - 1 /\ host_wait > 1)
    BY <1>1, <2>1
  <2>4. CASE p < host_word - 1 \/ (p = host_word - 1 /\ host_wait > 2)
    BY <2>2, <2>4 DEF Sent
  <2>5. CASE p = host_word - 1 /\ host_wait = 2
    <3>1. fill_we
      BY <1>1, <1>3, <2>2, <2>5 DEF fill_we, HostInv
    <3>2. fill_addr = host_word - 1
      BY <1>3, <3>1, FillRight
    <3> QED BY <1>3, <2>5, <3>1, <3>2
  <2> QED BY <1>1, <2>3, <2>4, <2>5
<1>4. CASE s /\ ~enable /\ HostActs
  <2>1. HostWrites
    BY <1>4 DEF HostActs, HostPolls, HostReads, HostEnds, InWords
  <2>2. host_word' = host_word + 1 /\ host_wait' = 0 /\ host_wait = HostGap /\ host = "WORDS"
    BY <1>4, <2>1 DEF HostActs, HostWrites
  <2>3. p < host_word
    BY <1>1, <2>2
  <2>4. InWords
    BY <1>1, <2>2, <2>3 DEF InWords
  <2>5. p < host_word - 1 \/ (p = host_word - 1 /\ host_wait > 2)
    BY <1>1, <2>2, <2>3
  <2> QED BY <2>4, <2>5 DEF Sent
<1> QED BY <1>2, <1>3, <1>4 DEF Edge, HostStep

LEMMA SentFrom ==
  ASSUME DiscInv, Spaced, NEW s, NEW i, Edge(s, i), NEW p \in Position, Sent(p)'
  PROVE  Sent(p) \/ (s /\ fill_we /\ p = fill_addr)
<1>1. CASE \/ src_state' \in {"AR", "R"} /\ p < word'
           \/ src_state' = "EMIT" /\ (p < word' \/ (p = word' /\ gap' # 0))
           \/ src_state' \in {"DRAIN", "DONE"}
  BY <1>1, SentBySource
<1>2. CASE InWords' /\ (p < host_word' - 1 \/ (p = host_word' - 1 /\ host_wait' > 2))
  BY <1>2, SentByHost
<1>3. CASE DonePending'
  <2>1. CASE DonePending
    BY <2>1 DEF Sent
  <2>2. CASE ~DonePending
    <3>1. Serving /\ ~Serving'
      BY <1>3, <2>2, NoEnd
    <3>2. CASE src_state = "DONE"
      BY <3>2 DEF Sent
    <3>3. CASE HostEnds /\ host_wait = HostGap
      <4>1. host = "DONE" /\ host_word = SectorWords
        BY <3>3 DEF HostEnds, DiscInv, HostInv
      <4>2. InWords
        BY <4>1, Counts DEF InWords
      <4>3. p < host_word - 1 \/ (p = host_word - 1 /\ host_wait > 2)
        BY <3>3, <4>1, Counts DEF Position, Spaced
      <4> QED BY <4>2, <4>3 DEF Sent
    <3> QED BY <3>1, <3>2, <3>3, ServingEnds
  <2> QED BY <2>1, <2>2
<1> QED BY <1>1, <1>2, <1>3 DEF Sent

LEMMA SentServing ==
  ASSUME NEW p, Sent(p)
  PROVE  Serving \/ DonePending
BY DEF Sent, Serving, InWords

\* What is in the buffer stays there, unless the sector moves on.
LEMMA BufferKept ==
  ASSUME DiscInv, NEW s, NEW i, Edge(s, i), rd_lba' = rd_lba, NEW p \in Position,
         secbuf[p] = Right(p)
  PROVE  secbuf'[p] = Right(p)
<1>1. secbuf \in [Position -> Word] /\ addr_ff[2] \in Position
  BY DEF DiscInv, Types, CdvdTypes, SyncTypes
<1>2. we => data_ff[2] = Right(addr_ff[2])
  BY DEF DiscInv, Carried, we, WordTwo
<1>3. secbuf' = secbuf \/ (we /\ secbuf' = [secbuf EXCEPT ![addr_ff[2]] = data_ff[2]])
  BY DEF Edge, DriveEdge, DriveOff
<1> QED BY <1>1, <1>2, <1>3

LEMMA LandedKept ==
  ASSUME DiscInv, Spaced, NEW s, NEW i, Edge(s, i)
  PROVE  Landed'
<1> SUFFICES ASSUME NEW p \in Position, Sent(p)'
             PROVE  \/ secbuf'[p] = Right(p)'
                    \/ WordNew' /\ fill_addr' = p
                    \/ WordOne' /\ addr_ff'[1] = p
                    \/ WordTwo' /\ addr_ff'[2] = p
  BY DEF Landed, Position
<1>1. rd_lba' = rd_lba
  BY SentFrom, SentServing, SectorHeld, FillStable
<1>2. Right(p)' = Right(p)
  BY <1>1, RightHeld
<1>3. CASE s /\ fill_we /\ p = fill_addr
  <2>1. fill_addr' = p
    BY <1>3, FillStable
  <2>2. i => addr_ff'[1] = p
    BY <1>3, WordSampled
  <2>3. WordNew' \/ (i /\ WordOne')
    BY <1>3, WordPasses DEF Edge
  <2> QED BY <2>1, <2>2, <2>3
<1>4. CASE Sent(p)
  <2>1. CASE secbuf[p] = Right(p)
    BY <1>1, <1>2, <2>1, BufferKept
  <2>2. CASE WordNew /\ fill_addr = p
    <3>1. fill_addr' = p
      BY <2>2, FillStable
    <3>2. i => addr_ff'[1] = p
      BY <2>2, WordSampled
    <3>3. (~i /\ WordNew') \/ (i /\ WordOne')
      BY <2>2, WordPasses DEF Edge
    <3> QED BY <3>1, <3>2, <3>3
  <2>3. CASE WordOne /\ addr_ff[1] = p
    <3>1. CASE i
      <4>1. WordTwo' /\ addr_ff'[2] = p
        BY <2>3, <3>1, WordPasses DEF Edge, StagesShift
      <4> QED BY <4>1
    <3>2. CASE ~i
      <4>1. WordOne' /\ addr_ff'[1] = p
        BY <2>3, <3>2, WordPasses DEF Edge
      <4> QED BY <4>1
    <3> QED BY <3>1, <3>2
  <2>4. CASE WordTwo /\ addr_ff[2] = p
    <3>1. CASE i
      <4>1. secbuf' = [secbuf EXCEPT ![p] = data_ff[2]] /\ secbuf \in [Position -> Word]
        BY <2>4, <3>1 DEF Edge, DriveEdge, we, WordTwo, DiscInv, Types, CdvdTypes
      <4>2. data_ff[2] = Right(p)
        BY <2>4 DEF DiscInv, Carried
      <4> QED BY <1>2, <4>1, <4>2
    <3>2. CASE ~i
      <4>1. WordTwo' /\ addr_ff'[2] = p
        BY <2>4, <3>2, WordPasses DEF Edge
      <4> QED BY <4>1
    <3> QED BY <3>1, <3>2
  <2> QED BY <1>4, <2>1, <2>2, <2>3, <2>4 DEF DiscInv, Landed
<1> QED BY <1>3, <1>4, SentFrom

LEMMA InOrderKept ==
  ASSUME DiscInv, Spaced, NEW s, NEW i, Edge(s, i)
  PROVE  InOrder'
<1> SUFFICES ASSUME ~Serving', ~sec_done_re', ~DoneNew'
             PROVE  ~WordOne' /\ (~DoneOne' => ~WordTwo')
  BY DEF InOrder
<1>1. ~WordNew /\ ~fill_we
  BY FillStable
<1>2. s /\ fill_done => i /\ DoneOne'
  BY DonePasses DEF Edge
<1>3. CASE Serving
  <2>1. s /\ (src_state = "DONE" \/ (~enable /\ HostEnds))
    BY <1>3, ServingEnds
  <2>2. ~HostEnds
    BY DEF HostEnds
  <2>3. enable
    <3>1. ~enable => src_state = "IDLE"
      BY DEF DiscInv, SourceInv
    <3> QED BY <2>1, <2>2, <3>1
  <2>4. fill_done
    BY <2>1, <2>2, <2>3 DEF fill_done, src_done
  <2>5. i /\ DoneOne'
    BY <1>2, <2>1, <2>4
  <2>6. ~WordOne'
    BY <1>1, <2>5, WordPasses
  <2> QED BY <2>5, <2>6
<1>4. CASE ~Serving /\ sec_done_re
  <2>1. s /\ ~enable
    BY <1>4 DEF Edge, DiscInv, HostInv
  <2>2. i /\ DoneOne'
    BY <1>2, <1>4, <2>1 DEF fill_done
  <2> QED BY <1>1, <2>2, WordPasses
<1>5. CASE ~Serving /\ DoneNew
  <2>1. i /\ DoneOne'
    BY <1>5, DonePasses, DoneEnters DEF Edge
  <2> QED BY <1>1, <2>1, WordPasses
<1>6. CASE ~Serving /\ ~sec_done_re /\ ~DoneNew
  <2>1. ~WordOne /\ (~DoneOne => ~WordTwo)
    BY <1>6 DEF DiscInv, InOrder
  <2>2. CASE i
    BY <1>1, <2>1, <2>2, WordPasses
  <2>3. CASE ~i
    BY <1>1, <2>1, <2>3, WordPasses, DonePasses
  <2> QED BY <2>2, <2>3 DEF Edge
<1> QED BY <1>3, <1>4, <1>5, <1>6

-----------------------------------------------------------------------------
(* What the DMA gets. *)

LEMMA OwedBegins ==
  ASSUME NEW g \in Seq(Word), NEW w \in Seq(Word), NEW f, NEW m, Owed(g, w, 0, f, m),
         NEW l \in Lba, NEW c \in Lba
  PROVE  Owed(g, w \o SectorsOf(l, c), c * SectorWords, 0, l)
<1> DEFINE n == c * SectorWords
           q == SectorsOf(l, c)
<1>1. /\ n \in Nat /\ q \in Seq(Word) /\ Len(q) = n
      /\ \A k \in 1..n : q[k] = (l * SectorWords + k - 1) % Mixed
  BY SectorsOfType
<1>2. l * SectorWords \in Nat /\ Len(g) \in Nat /\ Len(w) \in Nat
  BY Counts, LenProperties DEF Lba
<1> HIDE DEF n, q
<1>3. Len(w) = Len(g) + 0 /\ \A k \in 1..Len(g) : g[k] = w[k]
  BY DEF Owed
<1>4. Len(w) = Len(g)
  BY <1>2, <1>3
<1>5. /\ Len(w \o q) = Len(w) + Len(q)
      /\ \A k \in 1..(Len(w) + Len(q)) : (w \o q)[k] = IF k <= Len(w) THEN w[k] ELSE q[k - Len(w)]
  BY <1>1, ConcatProperties
<1>6. ASSUME NEW k \in 1..Len(g) PROVE g[k] = (w \o q)[k]
  BY <1>1, <1>2, <1>3, <1>4, <1>5
<1>7. ASSUME NEW k \in 1..n PROVE (w \o q)[Len(g) + k] = RightIn(l, 0 + k - 1)
  <2>1. (w \o q)[Len(g) + k] = q[k]
    <3>1. Len(g) + k \in 1..(Len(w) + Len(q)) /\ ~(Len(g) + k <= Len(w)) /\ (Len(g) + k) - Len(w) = k
      BY <1>1, <1>2, <1>4
    <3> QED BY <1>5, <3>1
  <2>2. l * SectorWords + k - 1 = l * SectorWords + (0 + k - 1)
    BY <1>2
  <2> QED BY <1>1, <2>1, <2>2 DEF RightIn
<1> QED BY <1>1, <1>4, <1>5, <1>6, <1>7 DEF Owed, n, q

LEMMA OwedTaken ==
  ASSUME NEW g \in Seq(Word), NEW w \in Seq(Word), NEW n \in Nat \ {0}, NEW f \in Nat, NEW l,
         Owed(g, w, n, f, l), NEW d \in Word, d = RightIn(l, f)
  PROVE  Owed(Append(g, d), w, n - 1, f + 1, l)
<1>1. /\ Len(g) \in Nat /\ Append(g, d) \in Seq(Word) /\ Len(Append(g, d)) = Len(g) + 1
      /\ \A k \in 1..Len(g) : Append(g, d)[k] = g[k]
      /\ Append(g, d)[Len(g) + 1] = d
  BY LenProperties, AppendProperties
<1>2. /\ Len(w) = Len(g) + n
      /\ \A k \in 1..Len(g) : g[k] = w[k]
      /\ \A k \in 1..n : w[Len(g) + k] = RightIn(l, f + k - 1)
  BY DEF Owed
<1>3. w[Len(g) + 1] = d
  <2>1. 1 \in 1..n /\ f + 1 - 1 = f
    OBVIOUS
  <2> QED BY <1>2, <2>1
<1>4. ASSUME NEW k \in 1..(Len(g) + 1) PROVE Append(g, d)[k] = w[k]
  <2>1. k \in 1..Len(g) \/ k = Len(g) + 1
    BY <1>1
  <2> QED BY <1>1, <1>2, <1>3, <2>1
<1>5. ASSUME NEW k \in 1..(n - 1) PROVE w[(Len(g) + 1) + k] = RightIn(l, (f + 1) + k - 1)
  <2>1. k \in Nat /\ Len(g) \in Nat
    BY <1>1
  <2>2. k + 1 \in 1..n /\ f + (k + 1) - 1 = (f + 1) + k - 1
    BY <2>1
  <2>3. Len(g) + (k + 1) = (Len(g) + 1) + k
    BY <2>1
  <2>4. w[Len(g) + (k + 1)] = RightIn(l, f + (k + 1) - 1)
    BY <1>2, <2>2
  <2> QED BY <2>2, <2>3, <2>4
<1>6. Len(g) + n = (Len(g) + 1) + (n - 1)
  BY <1>1
<1> QED BY <1>1, <1>2, <1>4, <1>5, <1>6 DEF Owed

LEMMA ModUnique ==
  ASSUME NEW m \in Nat \ {0}, NEW q \in Nat, NEW r \in 0..m - 1
  PROVE  (m * q + r) % m = r
<1> DEFINE x == m * q + r
           p == x \div m
           t == x % m
<1>1. x \in Nat
  OBVIOUS
<1>2. p \in Nat /\ t \in 0..m - 1 /\ x = m * p + t
  BY <1>1
<1>3. m * q + r = m * p + t
  BY <1>2
<1> HIDE DEF p, t, x
<1>4. q = p
  <2>1. ASSUME q >= p + 1 PROVE FALSE
    <3>1. m * q >= m * (p + 1)
      BY <1>2, <2>1
    <3>2. m * (p + 1) = m * p + m
      BY <1>2
    <3> QED BY <1>2, <1>3, <3>1, <3>2
  <2>2. ASSUME p >= q + 1 PROVE FALSE
    <3>1. m * p >= m * (q + 1)
      BY <1>2, <2>2
    <3>2. m * (q + 1) = m * q + m
      BY <1>2
    <3> QED BY <1>2, <1>3, <3>1, <3>2
  <2> QED BY <1>2, <2>1, <2>2
<1>5. r = t
  BY <1>2, <1>3, <1>4
<1> QED BY <1>5 DEF t, x

LEMMA WrapOnce ==
  ASSUME NEW m \in Nat \ {0}, NEW k \in Nat
  PROVE  (m + k) % m = k % m
<1>1. PICK q \in Nat, r \in 0..(m - 1) : k = m * q + r /\ k % m = r
  <2>1. k \div m \in Nat /\ k % m \in 0..(m - 1) /\ k = m * (k \div m) + (k % m)
    OBVIOUS
  <2> QED BY <2>1
<1>2. m * (q + 1) = m * q + m /\ m * q \in Nat /\ q + 1 \in Nat
  OBVIOUS
<1>3. m + k = m * (q + 1) + r
  BY <1>1, <1>2
<1> QED BY <1>1, <1>2, <1>3, ModUnique

\* The word after the last of a sector is the first of the next; after the last
\* sector comes the first.
LEMMA NextSector ==
  ASSUME NEW l \in Lba, NEW k \in Nat
  PROVE  RightIn(l, SectorWords + k) = RightIn((l + 1) % LbaSpace, k)
<1>1. CASE l + 1 < LbaSpace
  <2>1. (l + 1) % LbaSpace = l + 1
    BY <1>1, Counts DEF Lba
  <2>2. (l + 1) * SectorWords = l * SectorWords + SectorWords
    BY Counts DEF Lba
  <2>3. l * SectorWords \in Nat
    BY Counts DEF Lba
  <2>4. l * SectorWords + (SectorWords + k) = (l + 1) * SectorWords + k
    BY <2>2, <2>3, Counts
  <2> QED BY <2>1, <2>4 DEF RightIn
<1>2. CASE l + 1 = LbaSpace
  <2>1. (l + 1) % LbaSpace = 0
    BY <1>2, Counts
  <2>2. (l + 1) * SectorWords = l * SectorWords + SectorWords /\ l * SectorWords \in Nat
    BY Counts DEF Lba
  <2>3. l * SectorWords + (SectorWords + k) = Mixed + k
    BY <1>2, <2>2, Sizes
  <2>4. (Mixed + k) % Mixed = k % Mixed
    <3>1. Mixed \in Nat \ {0}
      BY Sizes
    <3> QED BY <3>1, WrapOnce
  <2>5. 0 * SectorWords + k = k
    BY Counts
  <2> QED BY <2>1, <2>3, <2>4, <2>5 DEF RightIn
<1> QED BY <1>1, <1>2, Counts DEF Lba

LEMMA OwedWraps ==
  ASSUME NEW g, NEW w, NEW n, NEW l \in Lba, Owed(g, w, n, SectorWords, l)
  PROVE  Owed(g, w, n, 0, (l + 1) % LbaSpace)
<1>1. ASSUME NEW k \in 1..n PROVE RightIn(l, SectorWords + k - 1) = RightIn((l + 1) % LbaSpace, 0 + k - 1)
  <2>1. k - 1 \in Nat /\ SectorWords + k - 1 = SectorWords + (k - 1) /\ 0 + k - 1 = k - 1
    BY Counts
  <2>2. RightIn(l, SectorWords + (k - 1)) = RightIn((l + 1) % LbaSpace, k - 1)
    BY <2>1, NextSector
  <2> QED BY <2>1, <2>2
<1> QED BY <1>1 DEF Owed

LEMMA OwedNone ==
  ASSUME NEW g, NEW w, NEW f, NEW l, NEW e, NEW m, Owed(g, w, 0, f, l)
  PROVE  Owed(g, w, 0, e, m)
BY DEF Owed

LEMMA OwedEmpty ==
  ASSUME NEW e, NEW m
  PROVE  Owed(<<>>, <<>>, 0, e, m)
BY DEF Owed

\* How many words are left.
LEMMA LeftCount ==
  ASSUME NEW n \in Nat \ {0}, NEW p \in Position
  PROVE  /\ n * SectorWords - p \in Nat \ {0}
         /\ n * SectorWords - (p + 1) = (n * SectorWords - p) - 1
         /\ p = SectorWords - 1 => (n - 1) * SectorWords = (n * SectorWords - p) - 1
         /\ n * SectorWords - 0 = n * SectorWords
<1>1. n * SectorWords \in Nat /\ (n - 1) * SectorWords = n * SectorWords - SectorWords
  BY Counts
<1>2. (n - 1) * SectorWords \in Nat
  <2>1. n - 1 \in Nat
    OBVIOUS
  <2> QED BY <2>1, Counts
<1> QED BY <1>1, <1>2, Counts DEF Position

\* The buffer holds the sector while it is sent.
LEMMA BufferRight ==
  ASSUME DiscInv, NEW s, NEW i, Edge(s, i), rd_state' = "RD_SEND", NEW p \in Position
  PROVE  secbuf'[p] = Right(p) /\ rd_lba' = rd_lba
<1>1. CASE ~i
  <2>1. secbuf' = secbuf /\ rd_state = "RD_SEND" /\ rd_lba' = rd_lba
    BY <1>1, LevelsFollow DEF DriveOff
  <2> QED BY <2>1 DEF DiscInv, Delivery
<1>2. CASE i
  <2>0. DriveStep
    BY <1>2 DEF Edge, DriveEdge
  <2>1. rd_lba' = rd_lba /\ (rd_state = "RD_SEND" \/ DriveFilled)
    <3>1. rd_state = "RD_SEND" \/ DriveFilled
      <4>1. /\ ~DriveResets /\ ~DriveIdles /\ ~DriveBegins /\ ~DriveOver /\ ~DriveAsks
            /\ ~DriveLast /\ ~DriveEnds
        BY DEF DriveResets, DriveIdles, DriveBegins, DriveOver, DriveAsks, DriveLast, DriveEnds
      <4>2. DriveOffers \/ DriveHolds \/ DriveNext => rd_state = "RD_SEND"
        BY DEF DriveOffers, DriveHolds, DriveNext, DriveSends
      <4> QED BY <2>0, <4>1, <4>2 DEF DriveStep
    <3>2. rd_lba' = rd_lba
      BY <2>0 DEF DriveStep, DriveResets, DriveIdles, DriveBegins, DriveOver, DriveAsks,
          DriveFilled, DriveOffers, DriveHolds, DriveNext, DriveLast, DriveEnds
    <3> QED BY <3>1, <3>2
  <2>2. secbuf[p] = Right(p)
    <3>1. CASE rd_state = "RD_SEND"
      BY <3>1 DEF DiscInv, Delivery
    <3>2. CASE DriveFilled
      <4>1. DoneTwo
        BY <3>2 DEF DriveFilled, done, DoneTwo
      <4>2. ~Serving /\ ~sec_done_re /\ ~DoneNew /\ ~DoneOne
        BY <4>1, EndArrives
      <4>3. ~WordNew /\ ~WordOne /\ ~WordTwo
        BY <4>2, FillRight DEF DiscInv, InOrder
      <4>4. Sent(p)
        BY <4>1 DEF Sent, DonePending
      <4> QED BY <4>3, <4>4 DEF DiscInv, Landed
    <3> QED BY <2>1, <3>1, <3>2
  <2> QED BY <2>1, <2>2, BufferKept
<1> QED BY <1>1, <1>2 DEF Edge

LEMMA OfferKept ==
  ASSUME DiscInv, NEW s, NEW i, Edge(s, i)
  PROVE  /\ dev_valid' <=> rd_state' = "RD_SEND" /\ rd_fresh'
         /\ dev_valid' => dev_data' = secbuf'[rd_pos']
<1>1. /\ dev_valid <=> rd_state = "RD_SEND" /\ rd_fresh
      /\ dev_valid => dev_data = secbuf[rd_pos]
      /\ rd_state = "RD_SEND" => \A p \in Position : secbuf[p] = Right(p)
      /\ rd_pos \in Position
  BY DEF DiscInv, Delivery, Types, CdvdTypes
<1>2. CASE ~i
  BY <1>1, <1>2, LevelsFollow DEF DriveOff
<1>3. CASE i
  <2>1. DriveStep /\ dev_data' = secbuf[rd_pos]
    BY <1>3 DEF Edge, DriveEdge
  <2>2. dev_valid' <=> rd_state' = "RD_SEND" /\ rd_fresh'
    BY <1>1, <2>1 DEF DriveStep, DriveResets, DriveIdles, DriveBegins, DriveOver, DriveAsks,
        DriveFilled, DriveOffers, DriveHolds, DriveNext, DriveLast, DriveSends, DriveEnds
  <2>3. ASSUME dev_valid' PROVE rd_state = "RD_SEND" /\ rd_pos' = rd_pos
    BY <1>1, <2>1, <2>3 DEF DriveStep, DriveResets, DriveIdles, DriveBegins, DriveOver, DriveAsks,
        DriveFilled, DriveOffers, DriveHolds, DriveNext, DriveLast, DriveSends, DriveEnds
  <2>4. ASSUME dev_valid' PROVE dev_data' = secbuf'[rd_pos']
    <3>1. secbuf'[rd_pos] = Right(rd_pos)
      BY <1>1, <2>2, <2>4, BufferRight
    <3> QED BY <1>1, <2>1, <2>3, <2>4, <3>1
  <2> QED BY <2>2, <2>4
<1> QED BY <1>2, <1>3 DEF Edge

LEMMA OwedKept ==
  ASSUME DiscInv, NEW s, NEW i, Edge(s, i)
  PROVE  Owed(got', wanted', Left', From', rd_lba')
<1>1. /\ Owed(got, wanted, Left, From, rd_lba) /\ got \in Seq(Word) /\ wanted \in Seq(Word)
      /\ rd_lba \in Lba /\ rd_left \in Lba /\ rd_pos \in Position /\ nparam.lba \in Lba
      /\ nparam.count \in Lba /\ rd_left \in Nat
      /\ rd_state = "RD_SEND" => rd_left # 0
  BY DEF DiscInv, Delivery, Types, CdvdTypes, Sending, Lba
<1>2. CASE ~i
  <2>1. /\ got' = got /\ wanted' = wanted /\ rd_lba' = rd_lba
        /\ Left' = Left /\ From' = From
    BY <1>2, LevelsFollow DEF DriveOff, Left, From
  <2> QED BY <1>1, <2>1
<1>3. CASE i
  <2>0. DriveStep
    BY <1>3 DEF Edge, DriveEdge
  <2>1. CASE DriveResets
    <3>1. got' = <<>> /\ wanted' = <<>> /\ Left' = 0
      BY <2>1 DEF DriveResets, Left
    <3> QED BY <3>1, OwedEmpty
  <2>2. CASE DriveIdles \/ DriveOver \/ DriveEnds
    <3>1. Left = 0 /\ Left' = 0 /\ got' = got /\ wanted' = wanted
      <4>1. 0 * SectorWords = 0
        BY Counts
      <4> QED BY <2>2, <4>1 DEF DriveIdles, DriveOver, DriveEnds, Left
    <3> QED BY <1>1, <3>1, OwedNone
  <2>3. CASE DriveBegins
    <3>1. /\ Left = 0 /\ Left' = nparam.count * SectorWords /\ From' = 0
          /\ got' = got /\ wanted' = wanted \o SectorsOf(nparam.lba, nparam.count)
          /\ rd_lba' = nparam.lba
      BY <2>3 DEF DriveBegins, Left, From
    <3>2. Owed(got, wanted, 0, From, rd_lba)
      BY <1>1, <3>1
    <3>3. Owed(got, wanted \o SectorsOf(nparam.lba, nparam.count), nparam.count * SectorWords, 0,
               nparam.lba)
      BY <1>1, <3>2, OwedBegins
    <3> QED BY <3>1, <3>3
  <2>4. CASE DriveAsks \/ DriveOffers \/ DriveHolds
    <3>1. /\ got' = got /\ wanted' = wanted /\ rd_lba' = rd_lba
          /\ Left' = Left /\ From' = From
      BY <2>4 DEF DriveAsks, DriveOffers, DriveHolds, Left, From
    <3> QED BY <1>1, <3>1
  <2>5. CASE DriveFilled
    <3>1. /\ rd_state = "RD_FETCH" /\ rd_state' = "RD_SEND" /\ rd_left' = rd_left /\ rd_pos' = 0
          /\ got' = got /\ wanted' = wanted /\ rd_lba' = rd_lba /\ rd_left # 0
      BY <2>5 DEF DriveFilled
    <3>2. Left = rd_left * SectorWords /\ Left' = rd_left * SectorWords - 0 /\ From = 0 /\ From' = 0
      BY <3>1 DEF Left, From
    <3>3. Left' = Left
      BY <1>1, <3>1, <3>2, LeftCount
    <3> QED BY <1>1, <3>1, <3>2, <3>3
  <2>6. CASE DriveNext \/ DriveLast
    <3>1. /\ rd_state = "RD_SEND" /\ rd_fresh /\ got' = Append(got, dev_data) /\ wanted' = wanted
          /\ rd_left \in Nat \ {0}
      BY <1>1, <2>6 DEF DriveSends, DriveNext, DriveLast
    <3>2. Left = rd_left * SectorWords - rd_pos /\ From = rd_pos
      BY <3>1 DEF Left, From
    <3>3. dev_data = RightIn(rd_lba, rd_pos) /\ dev_data \in Word
      BY <1>1, <3>1 DEF DiscInv, Delivery, Right, Types, CdvdTypes
    <3>4. Left \in Nat \ {0} /\ rd_pos \in Nat
      BY <1>1, <3>1, <3>2, LeftCount DEF Position
    <3>5. Owed(got, wanted, Left, rd_pos, rd_lba)
      BY <1>1, <3>2
    <3>6. Owed(Append(got, dev_data), wanted, Left - 1, rd_pos + 1, rd_lba)
      BY <1>1, <3>3, <3>4, <3>5, OwedTaken
    <3>7. CASE DriveNext
      <4>1. rd_state' = "RD_SEND" /\ rd_left' = rd_left /\ rd_pos' = rd_pos + 1 /\ rd_lba' = rd_lba
        BY <3>7 DEF DriveNext
      <4>2. Left' = rd_left * SectorWords - (rd_pos + 1) /\ From' = rd_pos + 1
        BY <4>1 DEF Left, From
      <4>3. Left' = Left - 1
        BY <1>1, <3>1, <3>2, <4>2, LeftCount
      <4> QED BY <3>1, <3>6, <4>1, <4>2, <4>3
    <3>8. CASE DriveLast
      <4>1. /\ rd_state' = "RD_FETCH" /\ rd_left' = rd_left - 1 /\ rd_pos = SectorWords - 1
            /\ rd_lba' = (rd_lba + 1) % LbaSpace
        BY <3>8 DEF DriveLast
      <4>2. Left' = (rd_left - 1) * SectorWords /\ From' = 0
        BY <4>1 DEF Left, From
      <4>3. Left' = Left - 1
        BY <1>1, <3>1, <3>2, <4>1, <4>2, LeftCount
      <4>4. rd_pos + 1 = SectorWords
        BY <4>1, Counts
      <4>5. Owed(Append(got, dev_data), wanted, Left - 1, SectorWords, rd_lba)
        BY <3>6, <4>4
      <4>6. Owed(Append(got, dev_data), wanted, Left - 1, 0, (rd_lba + 1) % LbaSpace)
        BY <1>1, <4>5, OwedWraps
      <4> QED BY <3>1, <4>1, <4>2, <4>3, <4>6
    <3> QED BY <2>6, <3>7, <3>8
  <2> QED BY <2>0, <2>1, <2>2, <2>3, <2>4, <2>5, <2>6 DEF DriveStep
<1> QED BY <1>2, <1>3 DEF Edge

LEMMA DeliveryKept ==
  ASSUME DiscInv, NEW s, NEW i, Edge(s, i)
  PROVE  Delivery'
<1>1. ASSUME rd_state' = "RD_SEND", NEW p \in Position PROVE secbuf'[p] = Right(p)'
  BY <1>1, BufferRight, RightHeld
<1>2. Position' = Position
  BY DEF Position
<1> QED BY <1>1, <1>2, OfferKept, OwedKept, Zenon DEF Delivery

-----------------------------------------------------------------------------
(* The invariant holds. *)

LEMMA DiscInvKept ==
  ASSUME DiscInv, Spaced, Next
  PROVE  DiscInv'
<1>1. PICK s, i \in BOOLEAN : Edge(s, i)
  BY NextEdge
<1>2. Types' /\ LevelsCross' /\ Asking' /\ AddressHeld'
  BY <1>1, TypesKept, LevelsCrossKept, AskingKept, AddressHeldKept
<1>3. DoneInv' /\ Resting' /\ Sending'
  BY <1>1, DoneInvKept, RestingKept, SendingKept
<1>4. SourceInv' /\ HostInv' /\ Carried'
  BY <1>1, SourceInvKept, HostInvKept, CarriedKept
<1>5. Landed' /\ InOrder' /\ Delivery'
  BY <1>1, LandedKept, InOrderKept, DeliveryKept
<1> QED BY <1>2, <1>3, <1>4, <1>5 DEF DiscInv

LEMMA DiscInvRests ==
  ASSUME DiscInv, UNCHANGED vars
  PROVE  DiscInv'
<1>1. /\ UNCHANGED <<since, reset, enable, src_state, beat, word, shift, emit, gap, hbm>>
      /\ UNCHANGED <<sec_ptr, sec_ptr_q, sec_arm, sec_go, sec_data, sec_data_re, sec_done_re,
                     host, host_lba, host_word, host_wait, we_tog, done_tog, req_ff, lba_ff>>
      /\ UNCHANGED <<nparam, rd_state, rd_lba, rd_left, rd_pos, rd_fresh, secbuf, sec_req,
                     sec_lba, dev_valid, dev_data, got, wanted, we_ff, done_ff, addr_ff, data_ff>>
  BY DEF vars, sysVars, iopVars, sourceVars, hostVars, sysFF, iopFF, cdvdVars
<1>2. Types'
  BY <1>1 DEF DiscInv, Types, ClockTypes, SyncTypes, CdvdTypes, SourceTypes, HostTypes, PulseTypes,
      Position, Lba
<1>3. LevelsCross' /\ Asking' /\ AddressHeld'
  BY <1>1 DEF DiscInv, LevelsCross, Asking, AddressHeld, want, Serving
<1>4. DoneInv' /\ Resting' /\ Sending'
  BY <1>1 DEF DiscInv, DoneInv, Resting, Sending, Serving, DonePending, DoneNew, DoneOne, DoneTwo,
      want
<1>5. SourceInv'
  BY <1>1 DEF DiscInv, SourceInv, BeatLeft, BurstLeft, RightIn
<1>6. HostInv'
  BY <1>1 DEF DiscInv, HostInv, InWords, Right, RightIn
<1>7. Carried'
  BY <1>1 DEF DiscInv, Carried, WordNew, WordOne, WordTwo, InWords, Right, RightIn
<1>8. InOrder'
  BY <1>1 DEF DiscInv, InOrder, WordOne, WordTwo, DoneNew, DoneOne, Serving
<1>9. Landed'
  <2>1. ASSUME NEW p \in Position, Sent(p)' PROVE Sent(p)
    BY <1>1, <2>1 DEF Sent, InWords, DonePending, DoneNew, DoneOne, DoneTwo
  <2>2. fill_addr' = fill_addr /\ Position' = Position
    BY <1>1 DEF fill_addr, src_addr, Position
  <2>3. (WordNew' <=> WordNew) /\ (WordOne' <=> WordOne) /\ (WordTwo' <=> WordTwo)
    BY <1>1 DEF WordNew, WordOne, WordTwo
  <2>4. \A p \in Position : Right(p)' = Right(p)
    BY <1>1 DEF Right, RightIn
  <2> QED BY <1>1, <2>1, <2>2, <2>3, <2>4 DEF DiscInv, Landed
<1>10. Delivery'
  BY <1>1 DEF DiscInv, Delivery, Owed, Left, From, Right, RightIn, Position
<1> QED BY <1>2, <1>3, <1>4, <1>5, <1>6, <1>7, <1>8, <1>9, <1>10 DEF DiscInv

LEMMA DiscInvStarts == Init => DiscInv
<1> SUFFICES ASSUME Init PROVE DiscInv
  OBVIOUS
<1>1. /\ since = 0 /\ reset = TRUE /\ enable \in BOOLEAN
      /\ rd_state = "RD_IDLE" /\ rd_lba = 0 /\ rd_left = 0 /\ rd_pos = 0 /\ rd_fresh = FALSE
      /\ nparam = [lba |-> 0, count |-> 0] /\ secbuf = [i \in Position |-> NoWord]
      /\ sec_req = FALSE /\ sec_lba = 0 /\ dev_valid = FALSE /\ dev_data = NoWord
      /\ got = <<>> /\ wanted = <<>>
  BY DiscPathAssumption DEF Init, CdvdInit
<1>2. /\ src_state = "IDLE" /\ beat = 0 /\ word = 0 /\ shift = <<>> /\ emit = 0 /\ gap = 0
      /\ hbm = <<>>
  BY DEF Init, SourceInit
<1>3. /\ sec_ptr = 0 /\ sec_ptr_q = 0 /\ sec_data = NoWord
      /\ sec_arm = FALSE /\ sec_go = FALSE /\ sec_data_re = FALSE /\ sec_done_re = FALSE
      /\ host = "POLL" /\ host_lba = 0 /\ host_word = 0 /\ host_wait = 0
  BY DEF Init
<1>4. /\ we_tog = FALSE /\ done_tog = FALSE
      /\ \A k \in 1..3 : we_ff[k] = FALSE /\ done_ff[k] = FALSE
      /\ \A k \in 1..2 : addr_ff[k] = 0 /\ data_ff[k] = NoWord /\ req_ff[k] = FALSE /\ lba_ff[k] = 0
  BY DEF Init
<1>5. /\ we_ff[1] = FALSE /\ we_ff[2] = FALSE /\ we_ff[3] = FALSE /\ req_ff[2] = FALSE
       /\ done_ff[1] = FALSE /\ done_ff[2] = FALSE /\ done_ff[3] = FALSE
  <2>1. 1 \in 1..3 /\ 2 \in 1..3 /\ 3 \in 1..3 /\ 2 \in 1..2
    OBVIOUS
  <2> QED BY <1>4, <2>1
<1>6. 0 \in Position /\ 0 \in Lba /\ NoWord \in Word
  BY Sizes DEF Position, Lba
<1>7. Types
  <2>1. ClockTypes /\ PulseTypes
    <3>1. 0 \in 0..4 /\ TRUE \in BOOLEAN /\ FALSE \in BOOLEAN
      OBVIOUS
    <3>2. ClockTypes
      BY <1>1, <3>1, Zenon DEF ClockTypes
    <3>3. PulseTypes
      BY <1>3, <3>1, Zenon DEF PulseTypes
    <3> QED BY <3>2, <3>3
  <2>2. SyncTypes
    BY <1>4, <1>6, Zenon DEF SyncTypes
  <2>3. CdvdTypes
    <3>1. nparam \in [lba : Lba, count : Lba] /\ secbuf \in [Position -> Word]
      BY <1>1, <1>6
    <3>2. got \in Seq(Word) /\ wanted \in Seq(Word)
      BY <1>1, EmptySeq
    <3> QED BY <1>1, <1>6, <3>1, <3>2 DEF CdvdTypes, ReadState
  <2>4. SourceTypes /\ HostTypes
    BY <1>2, <1>3, <1>6, Counts DEF SourceTypes, HostTypes, SourceState
  <2> QED BY <2>1, <2>2, <2>3, <2>4 DEF Types
<1>8. ~Serving /\ ~DonePending /\ ~want /\ ~InWords
  BY <1>2, <1>3, <1>4, <1>5 DEF Serving, DonePending, DoneNew, DoneOne, DoneTwo, want, InWords
<1>9. ~WordNew /\ ~WordOne /\ ~WordTwo
  BY <1>4, <1>5 DEF WordNew, WordOne, WordTwo
<1>10. LevelsCross /\ Asking /\ AddressHeld /\ Resting /\ Sending
  BY <1>1, <1>2, <1>3, <1>4, <1>8 DEF LevelsCross, Asking, AddressHeld, Resting, Sending
<1>11. DoneInv
  BY <1>8 DEF DoneInv, DonePending
<1>12. SourceInv /\ HostInv
  BY <1>2, <1>3, <1>8 DEF SourceInv, HostInv
<1>13. Carried /\ InOrder
  BY <1>9 DEF Carried, InOrder
<1>14. Landed
  BY <1>2, <1>8 DEF Landed, Sent
<1>15. Delivery
  <2>1. Left = 0
    BY <1>1 DEF Left
  <2> QED BY <1>1, <2>1, OwedEmpty DEF Delivery
<1> QED BY <1>7, <1>10, <1>11, <1>12, <1>13, <1>14, <1>15 DEF DiscInv

\* What is in flight between the two clocks always adds up: no stage of a synchronizer
\* holds a word, a level or an end other than the one the other side has passed on.
THEOREM DiscHolds ==
  ASSUME Spaced
  PROVE  Spec => []DiscInv
<1>1. DiscInv /\ [Next]_vars => DiscInv'
  BY Spaced, DiscInvKept, DiscInvRests
<1> QED BY <1>1, DiscInvStarts, PTL DEF Spec

-----------------------------------------------------------------------------
(* What the DMA gets. *)

LEMMA OwedPrefix ==
  ASSUME NEW g \in Seq(Word), NEW w \in Seq(Word), NEW n \in Nat, NEW f, NEW l, Owed(g, w, n, f, l)
  PROVE  IsPrefix(g, w) /\ (n = 0 => g = w)
<1>1. Len(g) \in Nat /\ Len(w) = Len(g) + n /\ \A i \in 1..Len(g) : g[i] = w[i]
  BY LenProperties DEF Owed
<1>2. \A i \in 1..Len(g) : g[i] \in Word /\ w[i] \in Word
  BY <1>1, ElementOfSeq
<1>3. /\ SubSeq(g, 1, Len(g)) \in Seq(Word) /\ Len(SubSeq(g, 1, Len(g))) = Len(g)
      /\ \A i \in 1..Len(g) : SubSeq(g, 1, Len(g))[i] = g[i]
  BY <1>1, <1>2, SubSeqProperties
<1>4. /\ SubSeq(w, 1, Len(g)) \in Seq(Word) /\ Len(SubSeq(w, 1, Len(g))) = Len(g)
      /\ \A i \in 1..Len(g) : SubSeq(w, 1, Len(g))[i] = w[i]
  BY <1>1, <1>2, SubSeqProperties
<1>5. SubSeq(g, 1, Len(g)) = SubSeq(w, 1, Len(g))
  BY <1>1, <1>3, <1>4, SeqEqual
<1>6. n = 0 => g = w
  BY <1>1, SeqEqual
<1> QED BY <1>1, <1>5, <1>6 DEF IsPrefix

LEMMA LeftIsNat ==
  ASSUME DiscInv
  PROVE  Left \in Nat
<1>1. rd_left \in Nat /\ rd_pos \in Position /\ (rd_state = "RD_SEND" => rd_left # 0)
  BY DEF DiscInv, Types, CdvdTypes, Lba, Sending
<1>2. rd_left * SectorWords \in Nat
  BY <1>1, Counts
<1>3. CASE rd_state = "RD_SEND"
  BY <1>1, <1>3, LeftCount DEF Left
<1> QED BY <1>2, <1>3 DEF Left

\* The DMA gets the words of the sectors asked for, in order, none shifted, repeated or
\* mixed, from the HBM source or from the host, though they cross without a handshake.
THEOREM DeliveredInOrder ==
  ASSUME Spaced
  PROVE  Spec => []SectorsDelivered
<1>1. DiscInv => SectorsDelivered
  BY LeftIsNat, OwedPrefix DEF DiscInv, Types, CdvdTypes, Delivery, SectorsDelivered
<1> QED BY <1>1, DiscHolds, Spaced, PTL

\* When the read engine reports the end of a read, all its words are with the DMA.
THEOREM EndsDelivered ==
  ASSUME Spaced
  PROVE  Spec => []ReadEndsDelivered
<1>1. DiscInv => ReadEndsDelivered
  <2> SUFFICES ASSUME DiscInv, rd_state = "RD_FINISH" PROVE got = wanted
    BY DEF ReadEndsDelivered
  <2>1. Left = 0
    BY DEF Left
  <2> QED BY <2>1, OwedPrefix DEF DiscInv, Types, CdvdTypes, Delivery
<1> QED BY <1>1, DiscHolds, Spaced, PTL

LEMMA OfferStands ==
  ASSUME DiscInv, Spaced, Next, ~reset
  PROVE  /\ dev_valid /\ dev_valid' => UNCHANGED dev_data
         /\ dev_valid /\ ~dev_valid' => got' = Append(got, dev_data)
<1>1. PICK s, i \in BOOLEAN : Edge(s, i)
  BY NextEdge
<1>2. /\ dev_valid <=> rd_state = "RD_SEND" /\ rd_fresh
      /\ dev_valid => dev_data = secbuf[rd_pos]
  BY DEF DiscInv, Delivery
<1>3. CASE ~i
  BY <1>1, <1>3 DEF Edge, DriveOff
<1>4. CASE i
  <2>1. DriveStep /\ dev_data' = secbuf[rd_pos]
    BY <1>1, <1>4 DEF Edge, DriveEdge
  <2>2. ASSUME dev_valid, ~dev_valid' PROVE got' = Append(got, dev_data)
    <3>1. ~DriveResets /\ ~DriveIdles /\ ~DriveBegins /\ ~DriveOver /\ ~DriveAsks /\ ~DriveFilled
      BY <1>2, <2>2 DEF DriveResets, DriveIdles, DriveBegins, DriveOver, DriveAsks, DriveFilled
    <3>2. ~DriveOffers /\ ~DriveHolds /\ ~DriveEnds
      BY <1>2, <2>2 DEF DriveOffers, DriveHolds, DriveEnds
    <3> QED BY <2>1, <3>1, <3>2 DEF DriveStep, DriveNext, DriveLast, DriveSends
  <2> QED BY <1>2, <2>1, <2>2
<1> QED BY <1>3, <1>4

\* A word on offer to the DMA engine stays, unchanged, until it is taken, and the engine
\* has it when the offer goes.
THEOREM ContractKept ==
  ASSUME Spaced
  PROVE  Spec => DeviceContract
<1>1. DiscInv /\ [Next]_vars =>
        [~reset => /\ dev_valid /\ dev_valid' => UNCHANGED dev_data
                   /\ dev_valid /\ ~dev_valid' => got' = Append(got, dev_data)]_vars
  BY Spaced, OfferStands
<1> QED BY <1>1, DiscHolds, Spaced, PTL DEF Spec, DeviceContract
=============================================================================
