-------------------------------- MODULE HbmDma --------------------------------
(***************************************************************************)
(* HBMDMAWriter (src/boards/hbm_common.py), which packs a stream of words  *)
(* into beats and writes them to HBM in bursts, and the program that       *)
(* stages a disc image through it (src/tools/ps2iop/hbm_dma_stage.c), one  *)
(* ring of buffers at a time.  Word i of the image is the number i, beat b *)
(* of HBM should hold words 2b and 2b + 1; a word the ring repeats after   *)
(* the buffers that were filled is None.  The slave of the AXI port and    *)
(* the DMA reader of LitePCIe are external: the slave takes a handshake    *)
(* when it likes and answers a burst when it has every beat of it; the     *)
(* reader, while it is on, offers the ring from its beginning.             *)
(***************************************************************************)
EXTENDS Naturals, Sequences

CONSTANTS Burst,            \* beats of a burst
          Chunk, Chunks,    \* bursts of a ring, and rings of the image
          Sessions,         \* how often the program is run
          Aborts,           \* how often somebody writes abort
          None

VARIABLES eng,     \* the registers of the writer
          slave,   \* beats the slave has yet to be given, whether it owes B
          hbm,     \* what the beats hold
          prog     \* the program, and the reader it controls
vars == <<eng, slave, hbm, prog>>

ChunkBeats == Chunk * Burst
Beats == Chunks * ChunkBeats

Init ==
    /\ eng   = [st |-> "IDLE", addr |-> 0, remain |-> 0, done |-> FALSE,
                beat |-> 0, acc |-> <<None, None>>, half |-> 0, full |-> FALSE,
                aborting |-> FALSE, base |-> 0, length |-> 0]
    /\ slave = [owed |-> 0, b |-> FALSE]
    /\ hbm   = [b \in 0 .. Beats - 1 |-> <<None, None>>]
    /\ prog  = [pc |-> "off", sent |-> 0, pos |-> 0, on |-> FALSE,
                session |-> 1, aborts |-> 0, killed |-> FALSE]

-----------------------------------------------------------------------------
(* An edge of the writer.  io says which of the other sides' valid and     *)
(* ready lines are high: src, aw, w and b; and the strobes of ctrl.        *)

\* The word the reader offers: those of the chunk, then the ring again.
Offered == IF prog.pos < 2 * ChunkBeats THEN (2 * prog.sent) + prog.pos ELSE None

taken(io) == eng.st = "W" /\ eng.full /\ io.w
accepted(io) == prog.on /\ io.src /\ eng.st # "IDLE" /\ (~eng.full \/ taken(io))
flush(io) == eng.st = "IDLE" /\ io.start

\* A mutant: a start keeps the half beat an earlier transfer left.
Packed_keeps(e, io) ==
    IF accepted(io)
    THEN [e EXCEPT !.acc[e.half + 1] = Offered, !.half = (@ + 1) % 2, !.full = e.half = 1]
    ELSE [e EXCEPT !.full = @ /\ ~taken(io)]

\* The packer: a source word fills half of the beat.
Packed(e, io) ==
    IF flush(io) THEN [e EXCEPT !.full = FALSE, !.half = 0]
    ELSE IF accepted(io)
    THEN [e EXCEPT !.acc[e.half + 1] = Offered, !.half = (@ + 1) % 2, !.full = e.half = 1]
    ELSE [e EXCEPT !.full = @ /\ ~taken(io)]

\* A mutant: an abort stops the writer wherever it is.
Quits_anywhere == eng.st # "IDLE" /\ eng.aborting

\* An abort is looked at between two bursts.
Quits == eng.st = "AW" /\ eng.aborting
Fsm(e, io) ==
    CASE Quits -> [e EXCEPT !.st = "IDLE"]
      [] eng.st = "IDLE" ->
           (IF io.start THEN [e EXCEPT !.addr = eng.base, !.remain = eng.length,
                                       !.done = FALSE, !.st = "AW"]
            ELSE e)
      [] eng.st = "AW" /\ ~Quits ->
           (IF eng.remain = 0 THEN [e EXCEPT !.done = TRUE, !.st = "IDLE"]
            ELSE IF io.aw THEN [e EXCEPT !.beat = 0, !.st = "W"] ELSE e)
      [] eng.st = "W" /\ ~Quits ->
           (IF ~taken(io) THEN e
            ELSE [e EXCEPT !.remain = IF @ > 1 THEN @ - 1 ELSE 0,
                           !.st   = IF eng.beat = Burst - 1 THEN "B" ELSE "W",
                           !.beat = IF eng.beat = Burst - 1 THEN @ ELSE @ + 1])
      [] eng.st = "B" /\ ~Quits ->
           (IF io.b THEN [e EXCEPT !.addr = @ + Burst, !.st = "AW"] ELSE e)

Aborting(e, io) == [e EXCEPT !.aborting = io.abort \/ (@ /\ eng.st # "IDLE")]

Edge(io) ==
    /\ io.b => slave.b /\ slave.owed = 0
    /\ eng' = Aborting(Fsm(Packed(eng, io), io), io)
    /\ slave' = [owed |-> IF eng.st = "AW" /\ eng'.st = "W" THEN slave.owed + Burst
                          ELSE IF taken(io) THEN slave.owed - 1 ELSE slave.owed,
                 b    |-> IF eng.st = "AW" /\ eng'.st = "W" THEN TRUE
                          ELSE slave.b /\ ~(eng.st = "B" /\ io.b)]
    /\ hbm' = IF taken(io) THEN [hbm EXCEPT ![eng.addr + eng.beat] = eng.acc] ELSE hbm

Lines == [src : BOOLEAN, aw : BOOLEAN, w : BOOLEAN, b : BOOLEAN, start : {FALSE}, abort : {FALSE}]

\* An edge on which nobody writes ctrl.
Clock == \E io \in Lines : /\ Edge(io)
                           /\ prog' = [prog EXCEPT !.pos = IF accepted(io) THEN @ + 1 ELSE @]

Quiet == [src |-> FALSE, aw |-> FALSE, w |-> FALSE, b |-> FALSE, start |-> FALSE, abort |-> FALSE]

-----------------------------------------------------------------------------
(* The program: the reader off, which empties its FIFOs; the ring filled;  *)
(* the writer armed; the reader on; then done, chunk after chunk.          *)

Goto(pc) == [prog EXCEPT !.pc = pc]

ReaderOff == /\ prog.pc = "off"
             /\ prog' = IF prog.sent = Beats THEN [Goto("end") EXCEPT !.on = FALSE]
                        ELSE [Goto("arm") EXCEPT !.on = FALSE, !.pos = 0]
             /\ UNCHANGED <<eng, slave, hbm>>

Arm == /\ prog.pc = "arm"
       /\ eng' = [eng EXCEPT !.base = prog.sent, !.length = ChunkBeats]
       /\ prog' = Goto("start")
       /\ UNCHANGED <<slave, hbm>>

Start == /\ prog.pc = "start"
         /\ Edge([Quiet EXCEPT !.start = TRUE])
         /\ prog' = Goto("on")

ReaderOn == /\ prog.pc = "on"
            /\ prog' = [Goto("poll") EXCEPT !.on = TRUE]
            /\ UNCHANGED <<eng, slave, hbm>>

Poll == /\ prog.pc = "poll" /\ eng.done
        /\ prog' = [Goto("off") EXCEPT !.sent = @ + ChunkBeats]
        /\ UNCHANGED <<eng, slave, hbm>>

\* No progress for a second: the reader is turned off and the program exits.
Timeout == /\ prog.pc = "poll" /\ ~eng.done /\ eng.st = "IDLE"
           /\ prog' = [Goto("fail") EXCEPT !.on = FALSE]
           /\ UNCHANGED <<eng, slave, hbm>>

\* The program is killed: the driver turns its reader off.
Kill == /\ prog.pc \notin {"end", "fail"}
        /\ prog' = [Goto("fail") EXCEPT !.on = FALSE, !.killed = TRUE]
        /\ UNCHANGED <<eng, slave, hbm>>

\* ... and run again, from the beginning of the image.
Again == /\ prog.pc = "fail" /\ prog.session < Sessions
         /\ prog' = [Goto("off") EXCEPT !.sent = 0, !.session = @ + 1]
         /\ UNCHANGED <<eng, slave, hbm>>

\* Somebody writes abort, whatever else happens on that edge.
Abort == /\ prog.aborts < Aborts
         /\ \E io \in Lines :
              /\ Edge([io EXCEPT !.abort = TRUE])
              /\ prog' = [prog EXCEPT !.aborts = @ + 1, !.pos = IF accepted(io) THEN @ + 1 ELSE @]

Program == ReaderOff \/ Arm \/ Start \/ ReaderOn \/ Poll \/ Timeout \/ Kill \/ Again
Next == Clock \/ Program \/ Abort

\* What goes on: the program, unless it is killed; and edges with every ready
\* line high, B when the slave has an answer.
Working == Program /\ ~Kill
Ready == [src |-> TRUE, aw |-> TRUE, w |-> TRUE, b |-> slave.b /\ slave.owed = 0,
          start |-> FALSE, abort |-> FALSE]
Running == /\ Edge(Ready)
           /\ prog' = [prog EXCEPT !.pos = IF accepted(Ready) THEN @ + 1 ELSE @]

Spec == Init /\ [][Next]_vars

-----------------------------------------------------------------------------
\* What the constants must be: a burst has a beat, an image a ring.
DmaAssumption == Burst \in Nat \ {0} /\ Chunk \in Nat \ {0} /\ Chunks \in Nat \ {0}

\* A burst begun on the AXI port is completed, whatever is aborted: the writer is
\* never anywhere else while the slave waits for its beats or has an answer.
BurstsWhole ==
    /\ eng.st \in {"IDLE", "AW"} => slave.owed = 0 /\ ~slave.b
    /\ eng.st = "W" => slave.b /\ slave.owed = Burst - eng.beat
    /\ eng.st = "B" => slave.b /\ slave.owed = 0

\* When the staging program says the image is in HBM, it is, each beat where it
\* belongs, though an abort or the end of an earlier run left words in the packer;
\* unless a run was killed, which leaves the writer in the middle of its own.
StagedInPlace ==
    prog.pc = "end" /\ ~prog.killed => \A b \in 0 .. Beats - 1 : hbm[b] = <<2 * b, (2 * b) + 1>>
=============================================================================
