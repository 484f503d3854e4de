------------------------------- MODULE R5900 --------------------------------
(***************************************************************************)
(* The EE core as its reference executes it (sim/ee/r5900_ref.py, class    *)
(* R5900): one instruction per step, branches with a delay slot,           *)
(* exceptions, the 128-bit registers, both HI/LO pairs and the FPU.        *)
(*                                                                         *)
(* Decoding is abstracted: an instruction is a record whose "kind" names   *)
(* the group of exec() that runs it.  The PC counts instructions.  Widths  *)
(* scale with ByteBits (R5900Lanes); a word of the FPU is a word here.     *)
(***************************************************************************)
EXTENDS R5900Lanes, Ps2Float, FiniteSets

CONSTANTS Reg,          \* the general registers; 0 is the zero register
          LinkReg,      \* register 31
          MemSize,      \* bytes of data memory
          VecRam, VecBoot,  \* the two exception vectors
          Programs,     \* [code, gpr, mem]: what can be loaded
          MaxSteps      \* --steps of the harness

\* Registers, memory and format fit together (assumed where the constants get their values).
R5900Assumption ==
  /\ 0 \in Reg /\ LinkReg \in Reg
  /\ MemSize % 16 = 0
  /\ ExpBits + ManBits + 1 = WB
  /\ MaxSteps \in Nat

VARIABLES code, gpr, hl, sa, cop0, fpu, mem, pc, delay, steps,
          start,    \* history: registers and memory at the start
          victim    \* history: the first exception of a handler, see ResumePoint

state == <<gpr, hl, sa, cop0, fpu, mem>>
vars == <<code, gpr, hl, sa, cop0, fpu, mem, pc, delay, steps, start, victim>>

NoBranch == -1
STATUS == 12  CAUSE == 13  EPC == 14  PRID == 15  ERROREPC == 30
C0 == {STATUS, CAUSE, EPC, PRID, ERROREPC}
EXL == 1  ERL == 2  BEV == 6         \* bits of Status
EXC == [SYSCALL |-> 8, BREAK |-> 9, OV |-> 12, TR |-> 13]
Flag(bit) == Field(cop0[STATUS], bit, 1) = 1

Instr == code[pc]
InProgram == pc \in DOMAIN code /\ steps < MaxSteps
Is(kinds) == InProgram /\ Instr.kind \in kinds

R(n) == gpr[n][1]
S(n) == Signed(R(n), DB)
Put(n, v) == IF n = 0 THEN gpr ELSE [gpr EXCEPT ![n][1] = v]    \* w: low half only
PutQ(n, q) == IF n = 0 THEN gpr ELSE [gpr EXCEPT ![n] = q]      \* w128
MemVal(a, n) == SumTo([k \in 0..n-1 |-> mem[a + k] * 2^(BB * k)], n)
MemPut(a, n, v) == [x \in DOMAIN mem |-> IF x \in a .. a + n - 1
                                         THEN Field(v, BB * (x - a), BB) ELSE mem[x]]
MemQuad(a) == <<MemVal(a, 8), MemVal(a + 8, 8)>>
Address == Low(S(Instr.rs) + Instr.imm, DB)

-----------------------------------------------------------------------------
\* The end of a step: a branch taken by the instruction before wins over npc.
Goto(npc, target) ==
  /\ pc'    = IF delay # NoBranch THEN delay ELSE npc
  /\ delay' = target
  /\ steps' = steps + 1
  /\ UNCHANGED <<code, start>>
Retire == Goto(pc + 1, NoBranch) /\ UNCHANGED victim

\* A mutant: the delay slot is what is returned to.
VictimPc_slot == pc

\* EPC is the branch's when the victim is in its slot.
VictimPc == IF delay # NoBranch THEN pc - 1 ELSE pc
\* An exception abandons the instruction and the pending branch.  EPC names
\* the branch when the victim is in its slot, and is kept while EXL is set.
Raise(excCode) ==
  LET inDelay == delay # NoBranch
      cause   == Low(cop0[CAUSE], 2) + 4 * excCode
                   + (IF inDelay THEN 2^(WB - 1) ELSE 0)
  IN  /\ cop0' = IF Flag(EXL) THEN cop0
                 ELSE [cop0 EXCEPT ![EPC]    = VictimPc,
                                   ![CAUSE]  = cause,
                                   ![STATUS] = @ + 2^EXL]
      /\ pc'    = IF Flag(BEV) THEN VecBoot ELSE VecRam
      /\ delay' = NoBranch
      /\ steps' = steps + 1
      /\ victim' = IF Flag(EXL) THEN victim
                   ELSE [pc |-> pc, delay |-> delay, gpr |-> gpr, phase |-> "handler"]
      /\ UNCHANGED <<code, gpr, hl, sa, fpu, mem, start>>

Eret ==
  /\ Is({"eret"})
  /\ pc' = IF Flag(ERL) THEN cop0[ERROREPC] ELSE cop0[EPC]
  /\ cop0' = [cop0 EXCEPT ![STATUS] = IF Flag(ERL) THEN @ - 2^ERL
                                      ELSE IF Flag(EXL) THEN @ - 2^EXL ELSE @]
  /\ delay' = NoBranch
  /\ steps' = steps + 1
  /\ victim' = IF victim.phase = "handler" /\ ~Flag(ERL) /\ gpr = victim.gpr
               THEN [victim EXCEPT !.phase = "returned"]
               ELSE [victim EXCEPT !.phase = "none"]
  /\ UNCHANGED <<code, gpr, hl, sa, fpu, mem, start>>

-----------------------------------------------------------------------------
\* Branches.  A likely branch that is not taken skips its slot.
Holds(cond, a, b) ==
  CASE cond = "EQ"  -> a = b   [] cond = "NE"  -> a # b
    [] cond = "LEZ" -> a <= 0  [] cond = "GTZ" -> a > 0

BranchIf(taken) == Goto(IF Instr.likely /\ ~taken THEN pc + 2 ELSE pc + 1,
                        IF taken THEN pc + 1 + Instr.imm ELSE NoBranch)
Branch ==
  /\ Is({"branch"}) /\ BranchIf(Holds(Instr.cond, S(Instr.rs), S(Instr.rt)))
  /\ UNCHANGED <<gpr, hl, sa, cop0, fpu, mem, victim>>

\* REGIMM: on the sign of a register; the linking forms write r31 whether they
\* branch or not, and only after the register is read.
RegimmBranch ==
  /\ Is({"regimm"}) /\ BranchIf((S(Instr.rs) < 0) = (Instr.cond = "LTZ"))
  /\ gpr' = IF Instr.link THEN Put(LinkReg, pc + 2) ELSE gpr
  /\ UNCHANGED <<hl, sa, cop0, fpu, mem, victim>>

\* J, JAL to a fixed address; JR, JALR through a register read before the link
\* is written.
Jump ==
  /\ Is({"jump", "jumpreg"})
  /\ Goto(pc + 1, IF Instr.kind = "jump" THEN Instr.imm ELSE R(Instr.rs))
  /\ gpr' = IF Instr.link
            THEN Put(IF Instr.kind = "jump" \/ Instr.rd = 0 THEN LinkReg ELSE Instr.rd, pc + 2)
            ELSE gpr
  /\ UNCHANGED <<hl, sa, cop0, fpu, mem, victim>>

BranchFpu ==
  /\ Is({"bc1"})
  /\ Goto(pc + 1, IF fpu.c = Instr.want THEN pc + 1 + Instr.imm ELSE NoBranch)
  /\ UNCHANGED <<state, victim>>

-----------------------------------------------------------------------------
\* Arithmetic.  "b" is rt or the immediate, already extended as its opcode says.
Operand == IF Instr.useImm THEN Instr.imm ELSE S(Instr.rt)
SWord(v) == Signed(v, WB)

\* ADD, SUB, ADDI on words and DADD, DSUB, DADDI on doublewords: an overflow
\* raises and leaves the destination alone.
Overflowing ==
  /\ Is({"addov", "subov"})
  /\ LET w == IF Instr.dbl THEN DB ELSE WB
         x == Signed(R(Instr.rs), w)
         y == IF Instr.useImm THEN Instr.imm ELSE Signed(R(Instr.rt), w)
         v == IF Instr.kind = "addov" THEN x + y ELSE x - y
     IN  IF v \in -2^(w - 1) .. 2^(w - 1) - 1
         THEN gpr' = Put(Instr.rd, Low(v, DB)) /\ Retire /\ UNCHANGED <<hl, sa, cop0, fpu, mem>>
         ELSE Raise(EXC.OV)

ShiftAmount == IF Instr.variable THEN R(Instr.rs) ELSE Instr.amount
ShiftD(op, v, n) == CASE op = "sll" -> Low(v, DB - n) * 2^n
                      [] op = "srl" -> Low(v, DB) \div 2^n
                      [] op = "sra" -> Low(Signed(v, DB) \div 2^n, DB)
ShiftW(op, v, n) == CASE op = "sll" -> Sext(Low(v, WB) * 2^n)
                      [] op = "srl" -> Sext(Low(v, WB) \div 2^n)
                      [] op = "sra" -> Sext(SWord(v) \div 2^n)

AluResult ==
  LET a == R(Instr.rs)  sb == Operand  b == Low(sb, DB)
  IN  CASE Instr.op = "addu"  -> Sext(a + b)
        [] Instr.op = "subu"  -> Sext(a - b)
        [] Instr.op = "daddu" -> Low(a + b, DB)
        [] Instr.op = "dsubu" -> Low(a - b, DB)
        [] Instr.op = "slt"   -> IF S(Instr.rs) < sb THEN 1 ELSE 0
        [] Instr.op = "sltu"  -> IF a < b THEN 1 ELSE 0
        [] Instr.op = "and"   -> AndBits(a, b)
        [] Instr.op = "or"    -> OrBits(a, b)
        [] Instr.op = "xor"   -> XorBits(a, b)
        [] Instr.op = "nor"   -> NorBits(a, b)
        [] Instr.op = "lui"   -> Sext(Low(sb, HB) * 2^HB)
        [] Instr.op = "mfsa"  -> sa
        [] Instr.op \in {"sll", "srl", "sra"} ->
             IF Instr.dbl THEN ShiftD(Instr.op, R(Instr.rt), ShiftAmount % DB)
                          ELSE ShiftW(Instr.op, R(Instr.rt), ShiftAmount % WB)

Alu ==
  /\ Is({"alu"})
  /\ gpr' = Put(Instr.rd, AluResult)
  /\ Retire /\ UNCHANGED <<hl, sa, cop0, fpu, mem>>

\* MOVZ, MOVN: no write at all when the condition fails.
Move ==
  /\ Is({"move"})
  /\ gpr' = IF (R(Instr.rt) = 0) = Instr.zero THEN Put(Instr.rd, R(Instr.rs)) ELSE gpr
  /\ Retire /\ UNCHANGED <<hl, sa, cop0, fpu, mem>>

\* MTSA, MTSAB, MTSAH: a byte offset in a quadword.
SetSa ==
  /\ Is({"mtsa"})
  /\ sa' = CASE Instr.op = "reg"  -> Low(R(Instr.rs), 4)
             [] Instr.op = "byte" -> XorBits(Low(R(Instr.rs), 4), Low(Instr.imm, 4))
             [] Instr.op = "half" -> 2 * XorBits(Low(R(Instr.rs), 3), Low(Instr.imm, 3))
  /\ Retire /\ UNCHANGED <<gpr, hl, cop0, fpu, mem>>

TrapTaken == LET a == S(Instr.rs)  b == Operand
             IN  CASE Instr.op = "ge"  -> a >= b
                   [] Instr.op = "geu" -> Low(a, DB) >= Low(b, DB)
                   [] Instr.op = "lt"  -> a < b
                   [] Instr.op = "ltu" -> Low(a, DB) < Low(b, DB)
                   [] Instr.op = "eq"  -> a = b
                   [] Instr.op = "ne"  -> a # b
Trap == \/ Is({"syscall"}) /\ Raise(EXC.SYSCALL)
        \/ Is({"break"}) /\ Raise(EXC.BREAK)
        \/ Is({"trap"}) /\ TrapTaken /\ Raise(EXC.TR)
        \/ Is({"trap"}) /\ ~TrapTaken /\ Retire /\ UNCHANGED state

\* CACHE, PREF and SYNC decode and do nothing; an encoding the reference does
\* not implement is noted and does nothing either.
NoOperation == Is({"cache", "sync", "unimplemented"}) /\ Retire /\ UNCHANGED state

-----------------------------------------------------------------------------
\* Memory.  LQ and SQ ignore the low four bits of the address.
Load ==
  /\ Is({"load"})
  /\ LET v == MemVal(Address, Instr.n)
     IN  gpr' = Put(Instr.rt, IF Instr.signed THEN Low(Signed(v, BB * Instr.n), DB) ELSE v)
  /\ Retire /\ UNCHANGED <<hl, sa, cop0, fpu, mem>>
Store ==
  /\ Is({"store"})
  /\ mem' = MemPut(Address, Instr.n, R(Instr.rt))
  /\ Retire /\ UNCHANGED <<gpr, hl, sa, cop0, fpu>>
QuadMove ==
  /\ Is({"lq", "sq"})
  /\ LET a == Address - (Address % 16)
     IN  IF Instr.kind = "lq"
         THEN gpr' = PutQ(Instr.rt, MemQuad(a)) /\ UNCHANGED mem
         ELSE /\ mem' = [x \in DOMAIN mem |-> IF x \in a .. a + 15
                           THEN Lanes(gpr[Instr.rt], BB)[x - a] ELSE mem[x]]
              /\ UNCHANGED gpr
  /\ Retire /\ UNCHANGED <<hl, sa, cop0, fpu>>

\* LWL, LWR, SWL, SWR and the doubleword forms: the part of the aligned unit
\* on one side of the address, merged with what the other side holds.
MergeLoad(unit, old, k, n) ==
  LET left == BB * (n - 1 - k)  right == BB * k
      keep == 2^(BB * n - right)
  IN  IF Instr.side = "left"
      THEN Low(unit, BB * n - left) * 2^left + Low(old, left)
      ELSE unit \div 2^right + (Low(old, BB * n) \div keep) * keep
MergeStore(unit, new, k, n) ==
  LET low == BB * (k + 1)  right == BB * k
  IN  IF Instr.side = "left"
      THEN (unit \div 2^low) * 2^low + Low(new \div 2^(BB * (n - 1 - k)), low)
      ELSE Low(unit, right) + Low(new, BB * n - right) * 2^right
Unaligned ==
  /\ Is({"uload", "ustore"})
  /\ LET n == Instr.n  k == Address % n  base == Address - k
         unit == MemVal(base, n)  reg == R(Instr.rt)
         v == MergeLoad(unit, reg, k, n)
     IN  IF Instr.kind = "uload"
         THEN gpr' = Put(Instr.rt, IF n = 4 THEN Sext(v) ELSE v) /\ UNCHANGED mem
         ELSE mem' = MemPut(base, n, MergeStore(unit, reg, k, n)) /\ UNCHANGED gpr
  /\ Retire /\ UNCHANGED <<hl, sa, cop0, fpu>>

-----------------------------------------------------------------------------
\* HI and LO: quadwords whose halves are the two pipelines' pairs.
HiLo ==
  /\ Is({"hilo"})
  /\ LET p == IF Instr.pipe1 THEN 2 ELSE 1
         a == R(Instr.rs)  b == R(Instr.rt)
         prod == Product(Instr.signed, a, b)
         put(hi, lo) == [hl EXCEPT !.hi[p] = hi, !.lo[p] = lo]
         quot == DivW(Instr.signed, a, b)
     IN  /\ hl' = CASE Instr.op \in {"mfhi", "mflo"} -> hl
                    [] Instr.op = "mthi" -> put(a, hl.lo[p])
                    [] Instr.op = "mtlo" -> put(hl.hi[p], a)
                    [] Instr.op = "mult" -> put(Sext(prod \div 2^WB), Sext(prod))
                    [] Instr.op = "div"  -> put(quot.hi, quot.lo)
         /\ gpr' = CASE Instr.op = "mfhi" -> Put(Instr.rd, hl.hi[p])
                     [] Instr.op = "mflo" -> Put(Instr.rd, hl.lo[p])
                     [] Instr.op = "mult" -> Put(Instr.rd, Sext(prod))
                     [] OTHER -> gpr
  /\ Retire /\ UNCHANGED <<sa, cop0, fpu, mem>>

\* The multimedia instructions that write rd only.
MmiResult ==
  LET a == gpr[Instr.rs]  b == gpr[Instr.rt]
      both(f(_, _)) == <<f(a[1], b[1]), f(a[2], b[2])>>
  IN  CASE <<Instr.op, Instr.w>> \in MMI0Ops \cup MMI1Ops -> Parallel(Instr.op, Instr.w, a, b)
        [] Instr.op = "pextl"  -> Pext(Instr.w, a, b, FALSE)
        [] Instr.op = "pextu"  -> Pext(Instr.w, a, b, TRUE)
        [] Instr.op = "ppac"   -> Ppac(Instr.w, a, b)
        [] Instr.op = "pext5"  -> Pext5(b)
        [] Instr.op = "ppac5"  -> Ppac5(b)
        [] Instr.op = "padsbh" -> Padsbh(a, b)
        [] Instr.op = "qfsrv"  -> Qfsrv(a, b, sa)
        [] Instr.op \in DOMAIN Perm -> Permute(Instr.op, a, b)
        [] Instr.op \in {"sll", "srl", "sra"} -> PshiftV(Instr.op, a, b)
        [] Instr.op = "pand"   -> both(AndBits)
        [] Instr.op = "por"    -> both(OrBits)
        [] Instr.op = "pxor"   -> both(XorBits)
        [] Instr.op = "pnor"   -> both(NorBits)
        [] Instr.op = "pcpyld" -> <<b[1], a[1]>>
        [] Instr.op = "pcpyud" -> <<a[2], b[2]>>
        [] Instr.op = "pmfhi"  -> hl.hi
        [] Instr.op = "pmflo"  -> hl.lo
Mmi == /\ Is({"mmi"})
       /\ gpr' = PutQ(Instr.rd, MmiResult)
       /\ Retire /\ UNCHANGED <<hl, sa, cop0, fpu, mem>>

\* Those that write both HI and LO, some of them rd as well.
MmiHiLo ==
  /\ Is({"mmihl"})
  /\ LET a == gpr[Instr.rs]  b == gpr[Instr.rt]
         r == CASE Instr.op = "pmultw"  -> PmultW(Instr.signed, a, b)
                [] Instr.op = "pmadduw" -> PmaddUW(a, b, hl.lo, hl.hi)
                [] Instr.op = "pdivw"   -> PdivW(Instr.signed, a, b)
                [] Instr.op = "pdivbw"  -> PdivBW(a, b)
                [] Instr.op = "pmthi"   -> [hi |-> a, lo |-> hl.lo]
                [] Instr.op = "pmtlo"   -> [hi |-> hl.hi, lo |-> a]
                [] OTHER                -> Hmac(Instr.op, a, b, hl.lo, hl.hi)
     IN  /\ hl'  = [hi |-> r.hi, lo |-> r.lo]
         /\ gpr' = IF "rd" \in DOMAIN r THEN PutQ(Instr.rd, r.rd) ELSE gpr
  /\ Retire /\ UNCHANGED <<sa, cop0, fpu, mem>>

-----------------------------------------------------------------------------
\* MFC0, MTC0; PRId is read-only.
Cop0Move ==
  /\ Is({"mfc0", "mtc0"})
  /\ IF Instr.kind = "mfc0"
     THEN gpr' = Put(Instr.rt, Sext(cop0[Instr.rd])) /\ UNCHANGED <<cop0, victim>>
     ELSE /\ cop0' = IF Instr.rd = PRID THEN cop0
                     ELSE [cop0 EXCEPT ![Instr.rd] = Low(R(Instr.rt), WB)]
          /\ victim' = IF Instr.rd \in {EPC, STATUS}
                       THEN [victim EXCEPT !.phase = "none"] ELSE victim
          /\ UNCHANGED gpr
  /\ Goto(pc + 1, NoBranch) /\ UNCHANGED <<hl, sa, fpu, mem>>

\* LWC1, SWC1, MFC1, MTC1.
FpuMove ==
  /\ Is({"lwc1", "swc1", "mfc1", "mtc1"})
  /\ fpu' = CASE Instr.kind = "lwc1" -> [fpu EXCEPT !.fpr[Instr.ft] = MemVal(Address, 4)]
              [] Instr.kind = "mtc1" -> [fpu EXCEPT !.fpr[Instr.ft] = Low(R(Instr.rt), WB)]
              [] OTHER -> fpu
  /\ mem' = IF Instr.kind = "swc1" THEN MemPut(Address, 4, fpu.fpr[Instr.ft]) ELSE mem
  /\ gpr' = IF Instr.kind = "mfc1" THEN Put(Instr.rt, Sext(fpu.fpr[Instr.ft])) ELSE gpr
  /\ Retire /\ UNCHANGED <<hl, sa, cop0>>

FpuResult(op, a, b) ==
  LET plain(x) == [res |-> x, cause |-> {}]
  IN  CASE op = "add"  -> Add(a, b)  [] op = "sub" -> Sub(a, b)
        [] op = "mul"  -> Mul(a, b)  [] op = "div" -> Div(a, b)
        [] op = "sqrt" -> Sqrt(b)
        [] op = "abs"  -> plain(Cond(a) % SignBit)
        [] op = "mov"  -> plain(Cond(a))
        [] op = "neg"  -> plain((Cond(a) + SignBit) % (2 * SignBit))
        [] op = "max"  -> plain(FMax(a, b))
        [] op = "min"  -> plain(FMin(a, b))

\* Every operation replaces the cause flags and accumulates the sticky ones;
\* the A forms write the accumulator.
FpuArith ==
  /\ Is({"fpu"})
  /\ LET r == FpuResult(Instr.op, fpu.fpr[Instr.fs], fpu.fpr[Instr.ft])
     IN  fpu' = [fpu EXCEPT !.cause  = r.cause,
                            !.sticky = @ \cup r.cause,
                            !.acc = IF Instr.toAcc THEN r.res ELSE @,
                            !.fpr[Instr.fd] = IF Instr.toAcc THEN @ ELSE r.res]
  /\ Retire /\ UNCHANGED <<gpr, hl, sa, cop0, mem>>
FpuCompare ==
  /\ Is({"fcmp"})
  /\ LET a == Value(fpu.fpr[Instr.fs])  b == Value(fpu.fpr[Instr.ft])
     IN  fpu' = [fpu EXCEPT !.c = CASE Instr.op = "f"  -> FALSE
                                    [] Instr.op = "eq" -> a = b
                                    [] Instr.op = "lt" -> a < b
                                    [] Instr.op = "le" -> a <= b]
  /\ Retire /\ UNCHANGED <<gpr, hl, sa, cop0, mem>>

-----------------------------------------------------------------------------
ZeroQuad == <<0, 0>>
Init ==
  \E p \in Programs :
    /\ code = p.code /\ gpr = p.gpr /\ mem = p.mem
    /\ start = [gpr |-> p.gpr, mem |-> p.mem, law |-> p.law]
    /\ hl = [hi |-> ZeroQuad, lo |-> ZeroQuad] /\ sa = 0
    /\ cop0 = [r \in C0 |-> IF r = PRID THEN 46 ELSE 0]
    /\ fpu = [fpr |-> p.fpr, acc |-> 0, c |-> FALSE, cause |-> {}, sticky |-> {}]
    /\ pc = 0 /\ delay = NoBranch /\ steps = 0
    /\ victim = [pc |-> 0, delay |-> NoBranch, gpr |-> p.gpr, phase |-> "none"]

\* A transfer of control in the slot of a taken branch is UNPREDICTABLE on this
\* architecture; no program loaded here has one, so such a run ends.
Transfer == {"branch", "regimm", "jump", "jumpreg", "bc1", "eret"}
Legal == ~(delay # NoBranch /\ Is(Transfer))

Next == /\ Legal
        /\ \/ Branch \/ RegimmBranch \/ Jump \/ BranchFpu \/ Eret \/ Trap
           \/ Overflowing \/ Alu \/ Move \/ SetSa \/ NoOperation
           \/ Load \/ Store \/ QuadMove \/ Unaligned
           \/ HiLo \/ Mmi \/ MmiHiLo \/ Cop0Move
           \/ FpuMove \/ FpuArith \/ FpuCompare
Spec == Init /\ [][Next]_vars
-----------------------------------------------------------------------------
\* The registers, memory and control registers stay in range, and r0 is zero.
TypeOK ==
  /\ gpr \in [Reg -> Quad] /\ gpr[0] = ZeroQuad
  /\ hl.hi \in Quad /\ hl.lo \in Quad
  /\ sa \in 0..15
  /\ cop0 \in [C0 -> 0 .. 2^WB - 1]
  /\ fpu.fpr \in [DOMAIN fpu.fpr -> Pattern] /\ fpu.acc \in Pattern
  /\ fpu.cause \subseteq fpu.sticky /\ fpu.sticky \subseteq Causes
  /\ mem \in [0 .. MemSize - 1 -> 0 .. 2^BB - 1]

\* An exception is restartable: when a handler that kept the registers, EPC and
\* Status returns, the machine is at the victim with the same pending branch, or
\* one step away from it, at the branch whose slot the victim is in.  Exceptions
\* inside the handler make no difference (exception, eret).
ResumeReachesVictim ==
  victim.phase = "returned" =>
    \/ pc = victim.pc /\ delay = victim.delay
    \/ /\ victim.delay # NoBranch
       /\ pc = victim.pc - 1 /\ delay = NoBranch

\* What a program of the data runs is about, and that it ran to its end.
Ran(law) == start.law = law /\ pc = Cardinality(DOMAIN code)

\* A left/right pair, in either order, moves exactly the unaligned word or
\* doubleword and changes nothing next to it (the unaligned group of exec).
UnalignedExact ==
  /\ Ran("unaligned load") =>
       LET a == IF code[0].side = "right" THEN code[0].imm ELSE code[1].imm
           n == code[0].n
           v == MemVal(a, n)
       IN  R(code[0].rt) = IF n = 4 THEN Sext(v) ELSE v
  /\ Ran("unaligned store") =>
       LET a == IF code[0].side = "right" THEN code[0].imm ELSE code[1].imm
           n == code[0].n
       IN  mem = [x \in DOMAIN mem |->
                    IF x \in a .. a + n - 1 THEN Field(R(code[0].rt), BB * (x - a), BB)
                                            ELSE start.mem[x]]

\* Division is exact for every divisor but zero and for every quotient a word
\* holds, its remainder has the sign of the dividend, and each word of the
\* parallel forms divides as the scalar forms do (divw, pdivw, pdivbw, _hilo).
Divides(signed, x, y, q, r) ==
  LET num(v) == IF signed THEN Signed(v, WB) ELSE Low(v, WB)
      a == num(x)  b == num(y)  quo == num(q)  rem == num(r)
  IN  IF b = 0
      THEN rem = a /\ Low(q, WB) = Low(IF signed /\ a < 0 THEN 1 ELSE -1, WB)
      ELSE /\ Low(quo * b + rem - a, WB) = 0
           /\ AbsOf(rem) < AbsOf(b)
           /\ rem = 0 \/ (rem < 0) = (a < 0)
DivisionExact ==
  Ran("divide") =>
    LET a == start.gpr[code[0].rs]  b == start.gpr[code[0].rt]
    IN  CASE code[0].kind = "hilo" ->
               LET p == IF code[0].pipe1 THEN 2 ELSE 1
               IN  /\ Divides(code[0].signed, a[1], b[1], hl.lo[p], hl.hi[p])
                   /\ hl.lo[p] = Sext(hl.lo[p]) /\ hl.hi[p] = Sext(hl.hi[p])
          [] code[0].op = "pdivw" ->
               \A p \in 1..2 : Divides(code[0].signed, a[p], b[p], hl.lo[p], hl.hi[p])
          [] code[0].op = "pdivbw" ->
               \A n \in 0..3 : Divides(TRUE, Word(a, n), Signed(b[1], HB),
                                       Word(hl.lo, n), Word(hl.hi, n))

\* The programs that take a register apart and put it together again give it
\* back: PEXTL and PEXTU then PPAC at every width, PEXT5 then PPAC5 on a
\* halfword, a permute as often as its order (pext, ppac, PERM_H, PERM_W).
ShufflesInvert ==
  /\ Ran("shuffle") => gpr[3] = start.gpr[3]
  /\ Ran("colour")  => \A n \in {0, 1, 2, 3} :
                         Low(Word(gpr[3], n), HB) = Low(Word(start.gpr[3], n), HB)

\* Truncation: the magnitude of a result is at most the exact one and less than
\* one unit in the last place below it, unless the flags say the range ended;
\* a root may be lower by the last interval of the bisection (add, sub, mul, div, sqrt_, pack).
TruncatedTowardZero ==
  Ran("float") =>
    LET a == Value(fpu.fpr[1])  b == Value(fpu.fpr[2])
        r == fpu.fpr[3]         v == AbsOf(Value(r))
        ulp == 2^(Larger(Exp(r), 1) - 1)
        op == code[0].op
        exact == CASE op = "add" -> <<a + b, 1>>  [] op = "sub" -> <<a - b, 1>>
                   [] op = "mul" -> <<a * b, Unit>>
                   [] op = "div" -> <<a * Unit, b>>
                   [] OTHER -> <<0, 1>>
        num == AbsOf(exact[1])  den == AbsOf(exact[2])
        last == 1 + Larger(AbsOf(b), Unit) \div 2^Bisections
    IN  CASE op = "sqrt" -> v * v <= AbsOf(b) * Unit /\ AbsOf(b) * Unit < (v + ulp + last) * (v + ulp + last)
          [] den = 0 -> fpu.cause = IF a = 0 THEN {"I"} ELSE {"D"}
          [] fpu.cause = {"O"} -> v = Value(PosMax) /\ num >= (v + ulp) * den
          [] fpu.cause = {"U"} -> v = 0 /\ num < Hidden * den /\ num > 0
          [] OTHER -> /\ v * den <= num /\ num < (v + ulp) * den
                      /\ v # 0 => (Value(r) > 0) = (exact[1] * exact[2] > 0)
=============================================================================
