---------------------------- MODULE RomScan_proofs ----------------------------
(***************************************************************************)
(* What scan_hw reports of code that keeps to the calling convention, it   *)
(* does touch: for every width of a word, set of registers and calling     *)
(* convention, and for code of any length.                                 *)
(***************************************************************************)
EXTENDS RomScan, TLAPS

LEMMA InvInitially == ASSUME RomScanAssumption, ScanInit PROVE ScanInv
  BY DEF ScanInit, ScanInv, RomScanAssumption

\* What is known of a register after it was written with a constant the scanner
\* knows, v, and the processor has too.
LEMMA KnownWrite ==
  ASSUME RomScanAssumption, ScanInv, NEW r \in Register, NEW v,
         Runs, MayWrite(r), Follows, Revives(r),
         r = 0 => v = 0,
         val' = Set(r, v), regs' = Write(r, v),
         hits' \subseteq touched'
  PROVE  ScanInv'
<1>1. slot' \in {"run", "called", "left"}
  BY DEF Follows
<1>2. regs'[0] = 0 /\ Live(0)' /\ DOMAIN val' \subseteq Register
  BY DEF RomScanAssumption, ScanInv, Write, Set, Live, Revives
<1>3. ASSUME NEW x \in DOMAIN val', x \notin dead' PROVE val'[x] = regs'[x]
  <2>1. CASE x = r
    BY <2>1, <1>3 DEF Set, Write, ScanInv, RomScanAssumption
  <2>2. CASE x # r
    <3>1. x \in DOMAIN val /\ x \notin dead /\ x \in Register
      BY <2>2, <1>3 DEF Set, Revives, ScanInv
    <3> QED BY <3>1, <2>2, <1>3 DEF Set, Write, ScanInv, Live
  <2> QED BY <2>1, <2>2
<1>4. slot' = "called" => DOMAIN val' \cap Results = {}
  BY DEF Follows, Runs, MayWrite, Set, ScanInv
<1>5. slot' = "left" => DOMAIN val' \cap Args = {}
  BY DEF Follows, Runs, MayWrite, Set, ScanInv
<1> QED BY <1>1, <1>2, <1>3, <1>4, <1>5 DEF ScanInv, Live

\* And after it was written with something else.
LEMMA UnknownWrite ==
  ASSUME RomScanAssumption, ScanInv, NEW r \in Register, NEW v,
         Runs, Follows, Revives(r),
         val' = kill(r), regs' = Write(r, v),
         hits' \subseteq touched'
  PROVE  ScanInv'
<1>1. slot' \in {"run", "called", "left"}
  BY DEF Follows
<1>2. regs'[0] = 0 /\ Live(0)' /\ DOMAIN val' \subseteq Register
  BY DEF RomScanAssumption, ScanInv, Write, kill, Live, Revives
<1>3. ASSUME NEW x \in DOMAIN val', x \notin dead' PROVE val'[x] = regs'[x]
  <2>1. x \in DOMAIN val /\ x # r /\ x \notin dead /\ x \in Register
    BY <1>3 DEF kill, Revives, ScanInv
  <2> QED BY <2>1, <1>3 DEF kill, Write, ScanInv, Live
<1>4. /\ slot' = "called" => DOMAIN val' \cap Results = {}
      /\ slot' = "left" => DOMAIN val' \cap Args = {}
  BY DEF Follows, Runs, kill, ScanInv
<1> QED BY <1>1, <1>2, <1>3, <1>4 DEF ScanInv, Live

LEMMA AccessReported ==
  ASSUME ScanInv, NEW op, NEW rs \in Register, NEW imm \in Imm, Access(op, rs, imm)
  PROVE  hits' \subseteq touched'
<1>1. CASE rs \in DOMAIN val /\ Plus(val[rs], imm) \in Device
  <2>1. val[rs] = regs[rs]
    BY <1>1 DEF Access, ScanInv
  <2>2. /\ hits' = hits \cup {<<Plus(regs[rs], imm), op>>}
        /\ touched' = touched \cup {<<Plus(regs[rs], imm), op>>}
    BY <1>1, <2>1 DEF Access
  <2> QED BY <2>2 DEF ScanInv
<1>2. CASE ~(rs \in DOMAIN val /\ Plus(val[rs], imm) \in Device)
  <2>1. hits' = hits /\ touched \subseteq touched'
    BY <1>2 DEF Access
  <2> QED BY <2>1 DEF ScanInv
<1> QED BY <1>1, <1>2

LEMMA ImmediateStep ==
  ASSUME RomScanAssumption, ScanInv, NEW op, NEW rt \in Register, NEW rs \in Register, NEW imm \in Imm,
         Immediate(op, rt, rs, imm)
  PROVE  ScanInv'
<1> DEFINE w == Alu(op, regs[rs], imm)
<1>0. hits' \subseteq touched' /\ Runs /\ MayWrite(rt) /\ Follows /\ Revives(rt)
  BY DEF Immediate, ScanInv
<1>1. regs' = Write(rt, w)
  BY DEF Immediate
<1>2. CASE rs \in DOMAIN val
  <2>1. val[rs] = regs[rs] /\ rt # 0
    BY <1>2 DEF Immediate, ScanInv
  <2>2. val' = Set(rt, w)
    BY <1>2, <2>1 DEF Immediate
  <2> HIDE DEF w
  <2> QED BY <1>0, <1>1, <2>1, <2>2, KnownWrite
<1>3. CASE rs \notin DOMAIN val
  <2>1. val' = kill(rt)
    BY <1>3 DEF Immediate
  <2> HIDE DEF w
  <2> QED BY <1>0, <1>1, <2>1, UnknownWrite
<1> QED BY <1>2, <1>3

LEMMA LuiStep ==
  ASSUME RomScanAssumption, ScanInv, NEW rt \in Register, NEW imm \in Imm, Lui(rt, imm)
  PROVE  ScanInv'
<1> DEFINE v == IF rt = 0 THEN 0 ELSE imm * Half
<1>1. hits' \subseteq touched' /\ Runs /\ MayWrite(rt) /\ Follows /\ Revives(rt)
  BY DEF Lui, ScanInv
<1>2. val' = Set(rt, v)
  BY DEF Lui
<1>3. regs' = Write(rt, v)
  <2>1. Write(rt, imm * Half) = Write(rt, v)
    <3>1. CASE rt = 0
      BY <3>1 DEF Write
    <3>2. CASE rt # 0
      BY <3>2
    <3> QED BY <3>1, <3>2
  <2> QED BY <2>1 DEF Lui
<1>4. rt = 0 => v = 0
  OBVIOUS
<1> HIDE DEF v
<1> QED BY <1>1, <1>2, <1>3, <1>4, KnownWrite

LEMMA CallStep == ASSUME RomScanAssumption, ScanInv, CalleeReturns PROVE ScanInv'
<1>1. PICK other \in [Register -> Unknown] :
        regs' = [r \in Register |-> IF r \in Saved \cup {0} THEN regs[r] ELSE other[r]]
  BY DEF CalleeReturns
<1>2. regs'[0] = 0 /\ Live(0)'
  BY <1>1 DEF RomScanAssumption, ScanInv, Live, CalleeReturns
<1>3. ASSUME NEW x \in DOMAIN val', x \notin dead' PROVE val'[x] = regs'[x]
  <2>1. x \in DOMAIN val /\ x \in Register /\ x \notin Results /\ val'[x] = val[x]
    BY <1>3 DEF CalleeReturns, ScanInv
  <2>2. x = 0 \/ (x \in Saved /\ x \notin dead)
    BY <2>1, <1>3 DEF CalleeReturns
  <2>3. CASE x \in Saved /\ x \notin dead
    <3>1. val[x] = regs[x]
      BY <2>1, <2>3 DEF ScanInv, Live
    <3> QED BY <1>1, <2>1, <2>3, <3>1
  <2>4. CASE x = 0
    <3>1. val[0] = 0
      BY <2>1, <2>4 DEF ScanInv, Live
    <3> QED BY <1>2, <2>1, <2>4, <3>1
  <2> QED BY <2>2, <2>3, <2>4
<1> QED BY <1>2, <1>3 DEF CalleeReturns, ScanInv, Live

LEMMA NextFunctionStep == ASSUME RomScanAssumption, ScanInv, NextFunction PROVE ScanInv'
<1>1. regs'[0] = 0 /\ Live(0)'
  BY DEF NextFunction, RomScanAssumption, Live
<1>2. ASSUME NEW x \in DOMAIN val', x \notin dead' PROVE val'[x] = regs'[x]
  <2>1. x \in DOMAIN val /\ x \in Register /\ x \notin Args /\ val'[x] = val[x]
    BY <1>2 DEF NextFunction, ScanInv
  <2>2. x = 0
    BY <2>1, <1>2 DEF NextFunction
  <2>3. val[x] = regs[x]
    BY <2>1, <2>2 DEF ScanInv
  <2> QED BY <2>1, <2>2, <2>3, <1>1 DEF ScanInv
<1> QED BY <1>1, <1>2 DEF NextFunction, ScanInv, Live

LEMMA InvInductive == ASSUME RomScanAssumption, ScanInv, [ScanNext]_scanVars PROVE ScanInv'
<1>1. ASSUME NEW rt \in Register, NEW imm \in Imm, Lui(rt, imm) PROVE ScanInv'
  BY <1>1, LuiStep
<1>2. ASSUME NEW rs \in Register, NEW imm \in Imm, Store(rs, imm) PROVE ScanInv'
  <2>1. hits' \subseteq touched'
    BY <1>2, AccessReported DEF Store
  <2>2. /\ Runs /\ Follows /\ UNCHANGED <<val, regs, dead>>
    BY <1>2 DEF Store, Access
  <2>3. /\ slot' \in {"run", "called", "left"}
        /\ slot' = "called" => slot = "call"
        /\ slot' = "left" => slot = "leave"
    BY <2>2 DEF Follows, Runs
  <2> QED BY <2>1, <2>2, <2>3 DEF ScanInv, Live
<1>3. ASSUME NEW rt \in Register, NEW rs \in Register, NEW imm \in Imm, NEW op, Immediate(op, rt, rs, imm)
      PROVE  ScanInv'
  BY <1>3, ImmediateStep
<1>4. ASSUME NEW rt \in Register, NEW rs \in Register, NEW imm \in Imm, NEW read, Load(rt, rs, imm, read)
      PROVE  ScanInv'
  <2>1. hits' \subseteq touched'
    BY <1>4, AccessReported DEF Load
  <2>2. /\ Runs /\ Follows /\ Revives(rt) /\ val' = kill(rt) /\ regs' = Write(rt, read)
    BY <1>4 DEF Load, Access
  <2> QED BY <2>1, <2>2, UnknownWrite
<1>5. ASSUME NEW rd \in Register, NEW result, Computes(rd, result) PROVE ScanInv'
  <2>1. hits' \subseteq touched'
    BY <1>5 DEF Computes, ScanInv
  <2>2. /\ Runs /\ Follows /\ Revives(rd) /\ val' = kill(rd) /\ regs' = Write(rd, result)
    BY <1>5 DEF Computes
  <2> QED BY <2>1, <2>2, UnknownWrite
<1>6. ASSUME NEW to, Jump(to) PROVE ScanInv'
  BY <1>6 DEF Jump, ScanInv, Nothing, Live
<1>7. CASE Branch
  <2>1. /\ slot' \in {"run", "called", "left"}
        /\ slot' = "called" => slot = "call"
        /\ slot' = "left" => slot = "leave"
    BY <1>7 DEF Branch, Follows, Runs
  <2> QED BY <1>7, <2>1 DEF Branch, ScanInv, Live
<1>8. CASE CalleeReturns
  BY <1>8, CallStep
<1>9. CASE NextFunction
  BY <1>9, NextFunctionStep
<1>10. CASE UNCHANGED scanVars
  BY <1>10 DEF scanVars, ScanInv, Live
<1> QED BY <1>1, <1>2, <1>3, <1>4, <1>5, <1>6, <1>7, <1>8, <1>9, <1>10 DEF ScanNext

\* For words and immediates of any width, any calling convention and any map of the
\* peripherals: what scan_hw reports of code that keeps to the convention is an
\* access that code makes, delay slots, calls and the next function included.
THEOREM ScanReportsAccesses == ASSUME RomScanAssumption PROVE ScanSpec => []ScanSound
<1>1. ScanInit => ScanInv
  BY InvInitially
<1>2. ScanInv /\ [ScanNext]_scanVars => ScanInv'
  BY InvInductive
<1>3. ScanInv => ScanSound
  BY DEF ScanInv, ScanSound
<1> QED BY <1>1, <1>2, <1>3, PTL DEF ScanSpec
=============================================================================
