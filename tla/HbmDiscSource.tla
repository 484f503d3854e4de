--------------------------- MODULE HbmDiscSource ---------------------------
(***************************************************************************)
(* HBMDiscSource of boards/hbm_common.py: sectors out of the HBM.          *)
(*                                                                         *)
(* A sector is read in bursts; every beat is spent as words, one every     *)
(* Throttle cycles, before the next is taken.  One edge of the sys clock   *)
(* is one step.  A word of the HBM is named by its address, in words; the  *)
(* base register is 0.  The status fields are left out.                    *)
(***************************************************************************)
EXTENDS Naturals, Sequences

CONSTANTS
  Beats,       \* beats of a sector (64)
  BeatWords,   \* words of a beat (8)
  Burst,       \* beats of a burst (16)
  Throttle,    \* sys cycles from one word to the next (8)
  DrainTicks   \* sys cycles from the last word to `done' (64)

ASSUME SourceAssumption ==
  /\ Beats \in Nat \ {0} /\ BeatWords \in Nat \ {0} /\ Burst \in Nat \ {0}
  /\ Throttle \in Nat \ {0} /\ DrainTicks \in Nat \ {0}

VARIABLES src_state, beat, word, shift, emit, gap, drain

sourceVars == <<src_state, beat, word, shift, emit, gap, drain>>

SourceInit ==
  /\ src_state = "IDLE" /\ beat = 0 /\ word = 0 /\ shift = <<>>
  /\ emit = 0 /\ gap = 0 /\ drain = 0

-----------------------------------------------------------------------------
ar_addr(lba) == (lba * Beats + beat) * BeatWords

src_we == src_state = "EMIT" /\ gap = 0
src_addr == word % (Beats * BeatWords)
src_data == IF shift = <<>> THEN 0 ELSE Head(shift)
src_done == src_state = "DONE"

SourceIdle(req, enable) ==
  /\ src_state = "IDLE" /\ ~(enable /\ req)
  /\ UNCHANGED sourceVars

SourceStart(req, enable) ==
  /\ src_state = "IDLE" /\ enable /\ req
  /\ beat' = 0 /\ word' = 0 /\ src_state' = "AR"
  /\ UNCHANGED <<shift, emit, gap, drain>>

SourceAsk(arready) ==
  /\ src_state = "AR"
  /\ src_state' = IF arready THEN "R" ELSE "AR"
  /\ UNCHANGED <<beat, word, shift, emit, gap, drain>>

SourceBeat(rvalid, rdata) ==
  /\ src_state = "R"
  /\ IF rvalid
     THEN shift' = rdata /\ beat' = beat + 1 /\ src_state' = "EMIT"
     ELSE UNCHANGED <<shift, beat, src_state>>
  /\ UNCHANGED <<word, emit, gap, drain>>

SourceGap ==
  /\ src_state = "EMIT" /\ gap # Throttle - 1
  /\ gap' = gap + 1
  /\ UNCHANGED <<src_state, beat, word, shift, emit, drain>>

\* After the last word of a beat: the end of the sector, the next burst, or the
\* next beat of this one.
SourceWord ==
  /\ src_state = "EMIT" /\ gap = Throttle - 1
  /\ gap' = 0 /\ shift' = Tail(shift) /\ word' = word + 1
  /\ emit' = (emit + 1) % BeatWords
  /\ src_state' = IF emit # BeatWords - 1 THEN "EMIT"
                  ELSE IF beat = Beats THEN "DRAIN"
                  ELSE IF beat % Burst = 0 THEN "AR" ELSE "R"
  /\ UNCHANGED <<beat, drain>>

SourceDrain ==
  /\ src_state = "DRAIN"
  /\ drain' = (drain + 1) % DrainTicks
  /\ src_state' = IF drain = DrainTicks - 1 THEN "DONE" ELSE "DRAIN"
  /\ UNCHANGED <<beat, word, shift, emit, gap>>

SourceDone ==
  /\ src_state = "DONE" /\ src_state' = "WAIT"
  /\ UNCHANGED <<beat, word, shift, emit, gap, drain>>

SourceWait(req) ==
  /\ src_state = "WAIT"
  /\ src_state' = IF req THEN "WAIT" ELSE "IDLE"
  /\ UNCHANGED <<beat, word, shift, emit, gap, drain>>

SourceClk(req, enable, arready, rvalid, rdata) ==
  \/ SourceIdle(req, enable)
  \/ SourceStart(req, enable)
  \/ SourceAsk(arready)
  \/ SourceBeat(rvalid, rdata)
  \/ SourceGap
  \/ SourceWord
  \/ SourceDrain
  \/ SourceDone
  \/ SourceWait(req)
=============================================================================
