------------------------------- MODULE RomScan -------------------------------
(***************************************************************************)
(* tools/ps2iop/romdir.py scan_hw beside the processor whose code it       *)
(* scans.  The scanner walks the words of an IOP module in order and keeps *)
(* the registers whose constant it knows; the processor runs the same      *)
(* words, on the path that takes no branch.  A step is a word.             *)
(*                                                                         *)
(* A word is Half * Half, an immediate is below Half.  The code follows    *)
(* the calling convention: it does not read a register whose value a call, *)
(* or the caller, has left undefined (`dead'), does not set a result       *)
(* register in the delay slot of a call nor an argument in that of a jump, *)
(* and computes nothing into register 0 but from unknown values.           *)
(***************************************************************************)
EXTENDS Naturals

CONSTANTS
  HalfBits,                \* bits of an immediate; the source has 16
  Register,                \* registers, 0 among them
  Saved, Results, Args,    \* what a callee preserves, what it returns, what it is passed
  Device,                  \* addresses region() gives the name of a peripheral
  Unknown                  \* values from memory, from callers and of other instructions
Half == 2^HalfBits
Word == 0..(Half * Half - 1)
Imm == 0..(Half - 1)

RomScanAssumption ==
  /\ HalfBits \in Nat \ {0} /\ 0 \in Register /\ Device \subseteq Word /\ Unknown \subseteq Word
  /\ Saved \subseteq Register /\ Results \subseteq Register \ Saved /\ Args \subseteq Register \ Saved

VARIABLES
  val,        \* the scanner's constants, by register
  hits,       \* accesses it reports: address and mnemonic
  regs,       \* the processor's registers
  touched,    \* device accesses it makes
  dead,       \* registers the code may not read
  slot        \* "run"; "call", "leave": a delay slot; "called", "left": after it

scanVars == <<val, hits, regs, touched, dead, slot>>

ScanInit == /\ val = [r \in {} |-> 0] /\ hits = {} /\ touched = {}
            /\ \E other \in [Register -> Unknown] : regs = [other EXCEPT ![0] = 0]
            /\ dead = Register \ (Args \cup {0}) /\ slot = "run"

-----------------------------------------------------------------------------
(* Operations of either side.                                              *)

Bit(v, k) == (v \div 2^k) % 2
AndHalf(v, imm) ==      \* only the low half can be left
  LET sum[k \in 0..HalfBits] ==
        IF k = 0 THEN 0 ELSE sum[k - 1] + Bit(v, k - 1) * Bit(imm, k - 1) * 2^(k - 1)
  IN sum[HalfBits]
OrHalf(v, imm) == v + imm - AndHalf(v, imm)

\* simm: an immediate with its sign, on the circle of words.
Plus(v, imm) == (v + (IF imm >= Half \div 2 THEN Half * Half - Half + imm ELSE imm)) % (Half * Half)

Alu(op, v, imm) == CASE op = "ori" -> OrHalf(v, imm)
                     [] op = "addiu" -> Plus(v, imm)
                     [] OTHER -> AndHalf(v, imm)

Set(r, v) == [x \in DOMAIN val \cup {r} |-> IF x = r THEN v ELSE val[x]]
kill(r) == [x \in DOMAIN val \ {r} |-> val[x]]
Nothing == [x \in {} |-> 0]

\* The processor's write; register 0 stays zero.
Write(r, v) == [x \in Register |-> IF x = r /\ r # 0 THEN v ELSE regs[x]]

\* The word after a jump is its delay slot.
Runs == slot \in {"run", "call", "leave"}
MayWrite(r) == /\ slot = "call" => r \notin Results
               /\ slot = "leave" => r \notin Args
Follows == slot' = CASE slot = "call" -> "called" [] slot = "leave" -> "left" [] OTHER -> "run"
Live(r) == r \notin dead
Revives(r) == dead' = dead \ {r}

-----------------------------------------------------------------------------
\* lui rt, imm
Lui(rt, imm) ==
  /\ Runs /\ MayWrite(rt) /\ Follows
  /\ val' = Set(rt, IF rt = 0 THEN 0 ELSE imm * Half)
  /\ regs' = Write(rt, imm * Half) /\ Revives(rt)
  /\ UNCHANGED <<hits, touched>>

\* ori, addiu, andi rt, rs, imm
Immediate(op, rt, rs, imm) ==
  /\ Runs /\ MayWrite(rt) /\ Live(rs) /\ Follows
  /\ rt = 0 => rs \notin DOMAIN val
  /\ val' = IF rs \in DOMAIN val THEN Set(rt, Alu(op, val[rs], imm)) ELSE kill(rt)
  /\ regs' = Write(rt, Alu(op, regs[rs], imm)) /\ Revives(rt)
  /\ UNCHANGED <<hits, touched>>

\* The access of a load or a store: reported if the base is known and the address
\* is a peripheral's.
Access(op, rs, imm) ==
  /\ Runs /\ Live(rs)
  /\ hits' = IF rs \in DOMAIN val /\ Plus(val[rs], imm) \in Device
             THEN hits \cup {<<Plus(val[rs], imm), op>>} ELSE hits
  /\ touched' = IF Plus(regs[rs], imm) \in Device
                THEN touched \cup {<<Plus(regs[rs], imm), op>>} ELSE touched

\* A mutant: a load leaves what is known of its register.
Load_keeps(rt, rs, imm, read) ==
  /\ Access("lw", rs, imm) /\ MayWrite(rt) /\ Follows
  /\ val' = val
  /\ regs' = Write(rt, read) /\ Revives(rt)

Load(rt, rs, imm, read) ==
  /\ Access("lw", rs, imm) /\ MayWrite(rt) /\ Follows
  /\ val' = kill(rt)
  /\ regs' = Write(rt, read) /\ Revives(rt)

Store(rs, imm) == Access("sw", rs, imm) /\ Follows /\ UNCHANGED <<val, regs, dead>>

\* An R-type, mfc0 or any other word that writes a register with what nobody knows.
Computes(rd, result) ==
  /\ Runs /\ MayWrite(rd) /\ Follows
  /\ val' = kill(rd)
  /\ regs' = Write(rd, result) /\ Revives(rd)
  /\ UNCHANGED <<hits, touched>>

\* A branch not taken.
Branch == Runs /\ Follows /\ UNCHANGED <<val, hits, regs, touched, dead>>

\* jal and jalr; j and jr.
Jump(to) ==
  /\ slot = "run" /\ to \in {"call", "leave"} /\ slot' = to
  /\ val' = Nothing /\ UNCHANGED <<hits, regs, touched, dead>>

\* The callee returns: what it need not preserve may be anything.
CalleeReturns ==
  /\ slot = "called" /\ slot' = "run"
  /\ \E other \in [Register -> Unknown] :
       regs' = [r \in Register |-> IF r \in Saved \cup {0} THEN regs[r] ELSE other[r]]
  /\ dead' = (dead \cup Register) \ (((Saved \ dead) \cup Results) \cup {0})
  /\ UNCHANGED <<val, hits, touched>>

\* The words that follow a jump are another function, entered from elsewhere.
NextFunction ==
  /\ slot = "left" /\ slot' = "run"
  /\ \E other \in [Register -> Unknown] : regs' = [other EXCEPT ![0] = 0]
  /\ dead' = Register \ (Args \cup {0})
  /\ UNCHANGED <<val, hits, touched>>

ScanNext ==
  \/ \E rt \in Register, imm \in Imm : Lui(rt, imm) \/ Store(rt, imm)
  \/ \E rt, rs \in Register, imm \in Imm :
       \/ \E op \in {"ori", "addiu", "andi"} : Immediate(op, rt, rs, imm)
       \/ \E read \in Unknown : Load(rt, rs, imm, read)
  \/ \E rd \in Register, result \in Unknown : Computes(rd, result)
  \/ \E to \in {"call", "leave"} : Jump(to)
  \/ Branch \/ CalleeReturns \/ NextFunction
ScanSpec == ScanInit /\ [][ScanNext]_scanVars

-----------------------------------------------------------------------------
\* "A stale high half cannot invent an address" (romdir.py, scan_hw): every access
\* the scanner reports, the code makes, and what it knows of a register the code
\* may read is what the register holds.
ScanSound ==
  /\ hits \subseteq touched
  /\ slot = "run" => \A r \in DOMAIN val : Live(r) => val[r] = regs[r]

\* The inductive strengthening: what is known in and after a delay slot is out of
\* the reach of whoever runs next.
ScanInv ==
  /\ hits \subseteq touched /\ regs[0] = 0 /\ Live(0)
  /\ DOMAIN val \subseteq Register
  /\ slot \in {"run", "call", "leave", "called", "left"}
  /\ \A r \in DOMAIN val : Live(r) => val[r] = regs[r]
  /\ slot \in {"call", "leave"} => DOMAIN val = {}
  /\ slot = "called" => DOMAIN val \cap Results = {}
  /\ slot = "left" => DOMAIN val \cap Args = {}
=============================================================================
