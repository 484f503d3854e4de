------------------------------ MODULE IopCdvd ------------------------------
(***************************************************************************)
(* rtl/iop/iop_cdvd.vhd: the N commands of the drive controller and its    *)
(* sector read engine.  One clk1x edge is one step.                        *)
(*                                                                         *)
(* A read command asks its source for one sector after the other, keeps    *)
(* each in secbuf, and offers its words one by one to DMA channel 3.       *)
(*                                                                         *)
(* Abstracted: the eleven parameter bytes of a read are one register with  *)
(* the sector address and the count; the N commands are "read" (0x06 to    *)
(* 0x08) and "other"; of I_STAT bit 0 is kept.  The S commands, which only *)
(* look up bytes of a table, and the command log are left out.             *)
(***************************************************************************)
EXTENDS Naturals

CONSTANTS
  SectorWords,   \* words of a sector (512)
  LbaSpace,      \* range of a sector address and of a count (2^32)
  NcmdDelay,     \* cycles a command without data takes (16)
  Word,          \* contents of a word
  NoWord         \* what secbuf holds before it is filled

ASSUME CdvdAssumption ==
  /\ SectorWords \in Nat \ {0} /\ LbaSpace \in Nat \ {0} /\ NcmdDelay \in Nat \ {0}
  /\ NoWord \in Word

VARIABLES
  nparam,                         \* parameters of the next command
  ncmd_pend,                      \* cycles until a command without data completes
  istat, cdvd_err, cdvd_irq,
  rd_state, rd_lba, rd_left, rd_pos, rd_fresh,   \* the read engine
  secbuf,
  sec_req, sec_lba,               \* to the sector source
  dev_valid, dev_data             \* to DMA channel 3

cdvdVars == <<nparam, ncmd_pend, istat, cdvd_err, cdvd_irq, rd_state, rd_lba, rd_left,
              rd_pos, rd_fresh, secbuf, sec_req, sec_lba, dev_valid, dev_data>>

Lba == 0..(LbaSpace - 1)
Position == 0..(SectorWords - 1)

CdvdInit ==
  /\ nparam = [lba |-> 0, count |-> 0] /\ ncmd_pend = 0
  /\ istat = FALSE /\ cdvd_err = FALSE /\ cdvd_irq = FALSE
  /\ rd_state = "RD_IDLE" /\ rd_lba = 0 /\ rd_left = 0 /\ rd_pos = 0 /\ rd_fresh = FALSE
  /\ secbuf = [i \in Position |-> NoWord]
  /\ sec_req = FALSE /\ sec_lba = 0 /\ dev_valid = FALSE /\ dev_data = NoWord

-----------------------------------------------------------------------------
(* The bus.  An access w is [to |-> register, val |-> value]; NoAccess       *)
(* stands for a cycle without one.                                           *)

NoAccess == [to |-> "none", val |-> 0]

Command(w) == w.to = "ncmd"

\* The command that starts the read engine: a sector read, with a disc.
NewRead(w, present) == Command(w) /\ w.val = "read" /\ present

\* What the bus leaves of the registers it shares with the engine, which ends a
\* read in this cycle if `ends'.  The bus wins: an acknowledgement clears a flag
\* that is being set, a new read replaces the one in progress.
BusAccess(w, present, ends) ==
  /\ nparam' = IF w.to = "nparam" THEN w.val ELSE nparam
  /\ ncmd_pend' = IF NewRead(w, present) THEN 0
                  ELSE IF Command(w) THEN NcmdDelay
                  ELSE IF ncmd_pend # 0 THEN ncmd_pend - 1 ELSE 0
  /\ istat' = ((istat \/ ends \/ ncmd_pend = 1) /\ w.to # "istat")
  /\ cdvd_irq' = (ends \/ ncmd_pend = 1)
  /\ cdvd_err' = \/ Command(w) /\ w.val = "read" /\ ~present
                 \/ cdvd_err /\ w.to # "readerr"

\* The engine goes on with state st, sector address lba and count left.
Reading(w, present, st, lba, left) ==
  IF NewRead(w, present)
  THEN rd_state' = "RD_FETCH" /\ rd_lba' = nparam.lba /\ rd_left' = nparam.count
  ELSE rd_state' = st /\ rd_lba' = lba /\ rd_left' = left

Goes(w, present, st) == Reading(w, present, st, rd_lba, rd_left) /\ BusAccess(w, present, FALSE)

-----------------------------------------------------------------------------
(* The read engine. *)

ReadIdle(w, present) ==
  /\ rd_state = "RD_IDLE" /\ Goes(w, present, "RD_IDLE")
  /\ UNCHANGED <<rd_pos, rd_fresh, sec_req, dev_valid>>

\* A mutant: a read is over one sector early.
ReadOver_short(w, present) ==
  /\ rd_state = "RD_FETCH" /\ rd_left < 2 /\ Goes(w, present, "RD_FINISH")
  /\ UNCHANGED <<rd_pos, rd_fresh, sec_req, dev_valid>>

ReadOver(w, present) ==
  /\ rd_state = "RD_FETCH" /\ rd_left = 0 /\ Goes(w, present, "RD_FINISH")
  /\ UNCHANGED <<rd_pos, rd_fresh, sec_req, dev_valid>>

ReadAsks(w, present, done) ==
  /\ rd_state = "RD_FETCH" /\ rd_left # 0 /\ ~done /\ Goes(w, present, "RD_FETCH")
  /\ sec_req' = TRUE
  /\ UNCHANGED <<rd_pos, rd_fresh, dev_valid>>

ReadFilled(w, present, done) ==
  /\ rd_state = "RD_FETCH" /\ rd_left # 0 /\ done /\ Goes(w, present, "RD_SEND")
  /\ sec_req' = FALSE /\ rd_pos' = 0 /\ rd_fresh' = FALSE
  /\ UNCHANGED dev_valid

\* dev_data follows rd_pos by one cycle: the word is offered when it is fresh.
ReadOffers(w, present) ==
  /\ rd_state = "RD_SEND" /\ ~rd_fresh /\ Goes(w, present, "RD_SEND")
  /\ rd_fresh' = TRUE /\ dev_valid' = TRUE
  /\ UNCHANGED <<rd_pos, sec_req>>

ReadHolds(w, present, ready) ==
  /\ rd_state = "RD_SEND" /\ rd_fresh /\ ~ready /\ Goes(w, present, "RD_SEND")
  /\ UNCHANGED <<rd_pos, rd_fresh, sec_req, dev_valid>>

\* A mutant: a word is offered in the cycle its position is set.
ReadTaken_early(w, present, ready) ==
  /\ rd_state = "RD_SEND" /\ rd_fresh /\ ready
  /\ dev_valid' = (rd_pos # SectorWords - 1) /\ rd_fresh' = dev_valid'
  /\ IF rd_pos = SectorWords - 1
     THEN /\ Reading(w, present, "RD_FETCH", (rd_lba + 1) % LbaSpace, rd_left - 1)
          /\ BusAccess(w, present, FALSE)
          /\ UNCHANGED rd_pos
     ELSE Goes(w, present, "RD_SEND") /\ rd_pos' = rd_pos + 1
  /\ UNCHANGED sec_req

ReadTaken(w, present, ready) ==
  /\ rd_state = "RD_SEND" /\ rd_fresh /\ ready
  /\ dev_valid' = FALSE /\ rd_fresh' = FALSE
  /\ IF rd_pos = SectorWords - 1
     THEN /\ Reading(w, present, "RD_FETCH", (rd_lba + 1) % LbaSpace, rd_left - 1)
          /\ BusAccess(w, present, FALSE)
          /\ UNCHANGED rd_pos
     ELSE Goes(w, present, "RD_SEND") /\ rd_pos' = rd_pos + 1
  /\ UNCHANGED sec_req

\* A mutant: the end of a read is not flagged.
ReadFinish_silent(w, present) ==
  /\ rd_state = "RD_FINISH" /\ Goes(w, present, "RD_IDLE")
  /\ UNCHANGED <<rd_pos, rd_fresh, sec_req, dev_valid>>

ReadFinish(w, present) ==
  /\ rd_state = "RD_FINISH" /\ Reading(w, present, "RD_IDLE", rd_lba, rd_left)
  /\ BusAccess(w, present, TRUE)
  /\ UNCHANGED <<rd_pos, rd_fresh, sec_req, dev_valid>>

CdvdReset ==
  /\ ncmd_pend' = 0 /\ istat' = FALSE /\ cdvd_err' = FALSE /\ cdvd_irq' = FALSE
  /\ rd_state' = "RD_IDLE" /\ rd_fresh' = FALSE /\ sec_req' = FALSE /\ dev_valid' = FALSE
  /\ UNCHANGED <<nparam, rd_lba, rd_left, rd_pos>>

CdvdRun(w, present, done, ready) ==
  \/ ReadIdle(w, present)
  \/ ReadOver(w, present)
  \/ ReadAsks(w, present, done)
  \/ ReadFilled(w, present, done)
  \/ ReadOffers(w, present)
  \/ ReadHolds(w, present, ready)
  \/ ReadTaken(w, present, ready)
  \/ ReadFinish(w, present)

\* One clock edge: a word of the source goes into the buffer, the word at rd_pos
\* to dev_data.
CdvdClk(rst, w, present, we, waddr, wdata, done, ready) ==
  /\ \/ rst /\ CdvdReset
     \/ ~rst /\ CdvdRun(w, present, done, ready)
  /\ secbuf' = IF we THEN [secbuf EXCEPT ![waddr] = wdata] ELSE secbuf
  /\ dev_data' = secbuf[rd_pos]
  /\ sec_lba' = rd_lba
=============================================================================
