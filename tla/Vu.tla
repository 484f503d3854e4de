--------------------------------- MODULE Vu ---------------------------------
(***************************************************************************)
(* The vector unit as its reference executes it (sim/vu/vu_ref.py): words  *)
(* of an upper and a lower instruction that issue together, branches with  *)
(* a delay slot, the E bit, 16-bit integer registers and a memory of       *)
(* quadwords that wraps.  The floats are those of the EE (Ps2Float).       *)
(*                                                                         *)
(* Decoding is abstracted: an instruction is a record that names its       *)
(* operation and operands.  The fields x, y, z, w are 1 to 4, a DEST mask  *)
(* the set of the fields it selects.                                       *)
(***************************************************************************)
EXTENDS Ps2Float, Sequences, FiniteSets, TLC

CONSTANTS VfRegs, ViRegs,  \* register numbers; 0 is hardwired in both
          MemQw,           \* quadwords of VU Mem
          IntBits,         \* width of an integer register, half a pattern (16)
          WordBytes,       \* bytes of an instruction word (8)
          Programs,        \* [law, micro, vf, vi, mem, starts]
          MaxIssue         \* limit of run()

\* Registers, memory and format fit together (assumed where the constants get their values).
VuAssumption ==
  /\ 0 \in VfRegs /\ 0 \in ViRegs
  /\ MemQw \in Nat \ {0} /\ WordBytes \in Nat \ {0}
  /\ 2^(2 * IntBits) = 2 * SignBit
  /\ MaxIssue \in Nat

VARIABLES program, vu, pendingBranch, endIn, issued, runs

vars == <<program, vu, pendingBranch, endIn, issued, runs>>

Fields == 1..4
Vector == [Fields -> Pattern]
One == Pack(1, 1).res
Zeros == [f \in Fields |-> 0]
Magnitude(x) == x % SignBit
Sat(x) == x % 2^IntBits                                     \* & M16
SignedInt(x) == IF x >= 2^(IntBits - 1) THEN x - 2^IntBits ELSE x
NoBranch == [taken |-> FALSE]
NoCount == -1

\* Both register files discard a write to register 0.
wvf(s, n, f, v) == IF n = 0 THEN s ELSE [s EXCEPT !.vf[n][f] = v]
wvi(s, n, v) == IF n = 0 THEN s ELSE [s EXCEPT !.vi[n] = Sat(v)]
WriteFields(s, n, fields, value(_)) ==
  IF n = 0 THEN s
  ELSE [s EXCEPT !.vf[n] = [f \in Fields |-> IF f \in fields THEN value(f) ELSE @[f]]]

-----------------------------------------------------------------------------
\* The flags of one result.  An underflow is also a zero.
mac_bits(r) ==
  (IF Sign(r.res) = 1 THEN {"S"} ELSE {}) \cup
  (CASE "O" \in r.cause                         -> {"O"}
     [] "O" \notin r.cause /\ "U" \in r.cause   -> {"U", "Z"}
     [] OTHER -> IF Magnitude(r.res) = 0 THEN {"Z"} ELSE {})

\* A MADD rounds twice: the product, then the sum.
Fmac(op, a, b, acc) ==
  LET onto(p) == IF op = "MADD" THEN Add(acc, p.res) ELSE Sub(acc, p.res)
  IN  CASE op = "ADD" -> Add(a, b)
        [] op = "SUB" -> Sub(a, b)
        [] op = "MUL" -> Mul(a, b)
        [] op \in {"MADD", "MSUB"} ->
             With(Mul(a, b), LAMBDA p :
               With(onto(p), LAMBDA s : [res |-> s.res, cause |-> p.cause \cup s.cause]))

\* A float as an integer with frac fraction bits, truncated toward zero; what
\* does not fit loses its upper bits.
FloatToInt(a, frac) ==
  LET v == Value(a)
      scaled == (AbsOf(v) * 2^frac) \div Unit
  IN  (IF v < 0 THEN -scaled ELSE scaled) % (2 * SignBit)

\* What selects or converts, and leaves the flags alone.
Select(u, a, b) ==
  CASE u.op = "MAX"  -> FMax(a, b)
    [] u.op = "MINI" -> FMin(a, b)
    [] u.op = "ABS"  -> Magnitude(a)
    [] u.op = "ITOF" -> Pack(SignedPattern(a), 2^u.frac).res
    [] u.op = "FTOI" -> FloatToInt(a, u.frac)

Second(s, u, f) == CASE u.src = "v"  -> s.vf[u.ft][f]
                     [] u.src = "bc" -> s.vf[u.ft][u.bc]
                     [] u.src = "q"  -> s.q
                     [] u.src = "i"  -> s.i
                     [] OTHER        -> 0
Arithmetic == {"ADD", "SUB", "MUL", "MADD", "MSUB"}
OuterProduct(a, b) == [f \in 1..3 |-> Mul(a[1 + (f % 3)], b[1 + ((f + 1) % 3)]).res]

\* The status word: what is set in any field now, and what ever was.
Status(s) == LET live == {m[2] : m \in s.mac}
             IN  [live |-> live, sticky |-> s.status.sticky \cup live]

\* The upper instruction.
Upper(s, u) ==
  LET a(f)   == s.vf[u.fs][f]
      b(f)   == Second(s, u, f)
      res    == [f \in u.dest |-> Fmac(u.op, a(f), b(f), s.acc[f])]
      mac    == {m \in s.mac : m[1] \notin u.dest}
                  \cup UNION {{f} \X With(res[f], mac_bits) : f \in u.dest}
      flags  == [s EXCEPT !.mac = mac,
                          !.status = IF u.dest = {} THEN @ ELSE Status([s EXCEPT !.mac = mac])]
      prod   == OuterProduct(s.vf[u.fs], s.vf[u.ft])
      w      == Value(Magnitude(s.vf[u.ft][4]))
      tested == {f \in 1..3 : Value(a(f)) > w} \X {"+"}
                  \cup {f \in 1..3 : Value(a(f)) < -w} \X {"-"}
      to     == IF u.op \in {"ABS", "ITOF", "FTOI"} THEN u.ft ELSE u.fd
  IN  CASE u.op = "NOP"    -> s
        [] u.op = "OPMULA" -> [s EXCEPT !.acc = [f \in Fields |-> IF f = 4 THEN @[4] ELSE prod[f]]]
        [] u.op = "OPMSUB" ->
             WriteFields(s, u.fd, 1..3, LAMBDA f : Sub(s.acc[f], prod[f]).res)
        [] u.op = "CLIP"   -> [s EXCEPT !.clip = SubSeq(<<tested>> \o @, 1, 4)]
        [] u.op \in Arithmetic /\ u.acc ->
             [flags EXCEPT !.acc = [f \in Fields |-> IF f \in u.dest THEN res[f].res ELSE @[f]]]
        [] u.op \in Arithmetic /\ ~u.acc ->
             WriteFields(flags, u.fd, u.dest, LAMBDA f : res[f].res)
        [] u.op \in {"MAX", "MINI", "ABS", "ITOF", "FTOI"} ->
             WriteFields(s, to, u.dest, LAMBDA f : Select(u, a(f), b(f)))
        [] OTHER -> [s EXCEPT !.unimplemented = @ + 1]

-----------------------------------------------------------------------------
\* Bitwise and, or of two integer registers.
AndInt(x, y) == LET b[k \in 0..IntBits] ==
                      IF k = IntBits THEN 0
                      ELSE ((x \div 2^k) % 2) * ((y \div 2^k) % 2) * 2^k + b[k + 1]
                IN  b[0]
IntAlu(op, x, y) ==
  CASE op \in {"IADD", "IADDI", "IADDIU"} -> x + y
    [] op \in {"ISUB", "ISUBIU"}          -> x - y
    [] op = "IAND"                        -> AndInt(x, y)
    [] op = "IOR"                         -> x + y - AndInt(x, y)

Quad(s, addr) == s.mem[addr % MemQw]
SetQuad(s, addr, fields, value(_)) ==
  [s EXCEPT !.mem[addr % MemQw] = [f \in Fields |-> IF f \in fields THEN value(f) ELSE @[f]]]

\* Where a load or store goes, and its pointer afterwards: the I forms count up
\* after the access, the D forms down before it.
Pointed(s, l) ==
  LET r == s.vi[l.base]
  IN  CASE l.mode = "I" -> [addr |-> r, s |-> wvi(s, l.base, r + 1)]
        [] l.mode = "D" -> LET d == wvi(s, l.base, r - 1) IN [addr |-> d.vi[l.base], s |-> d]
        [] OTHER        -> [addr |-> r + l.imm, s |-> s]

Taken(s, l) ==
  LET x == s.vi[l.is]  y == s.vi[l.it]
  IN  CASE l.op \in {"B", "BAL"} -> TRUE
        [] l.op = "IBEQ"  -> x = y
        [] l.op = "IBNE"  -> x # y
        [] l.op = "IBLTZ" -> SignedInt(x) < 0
        [] l.op = "IBGTZ" -> SignedInt(x) > 0
        [] l.op = "IBLEZ" -> SignedInt(x) <= 0
        [] l.op = "IBGEZ" -> SignedInt(x) >= 0
Conditional == {"B", "BAL", "IBEQ", "IBNE", "IBLTZ", "IBGTZ", "IBLEZ", "IBGEZ"}

\* The branch a lower instruction takes; link 0 is no link.
Branch(s, l) ==
  CASE l.op \in Conditional ->
         IF Taken(s, l) THEN [taken |-> TRUE, target |-> s.pc + 1 + l.imm,
                              link |-> IF l.op = "BAL" THEN l.it ELSE 0]
         ELSE NoBranch
    [] l.op \in {"JR", "JALR"} -> [taken |-> TRUE, target |-> s.vi[l.is] \div WordBytes,
                                   link |-> IF l.op = "JALR" THEN l.it ELSE 0]
    [] OTHER -> NoBranch

\* The lower instruction.  ILW and ISW move one field, its low half.
Lower(s, l) ==
  LET p == Pointed(s, l)
      x == s.vf[l.fs][l.fsf]
      y == s.vf[l.ft][l.ftf]
  IN  CASE l.op \in {"IADD", "ISUB", "IAND", "IOR"} ->
             wvi(s, l.id, IntAlu(l.op, s.vi[l.is], s.vi[l.it]))
        [] l.op = "IADDI"              -> wvi(s, l.id, s.vi[l.is] + l.imm)
        [] l.op \in {"IADDIU", "ISUBIU"} -> wvi(s, l.it, IntAlu(l.op, s.vi[l.is], l.imm))
        [] l.op = "LQ" -> WriteFields(p.s, l.ft, l.dest, LAMBDA f : Quad(s, p.addr)[f])
        [] l.op = "SQ" -> SetQuad(p.s, p.addr, l.dest, LAMBDA f : s.vf[l.fs][f])
        [] l.op = "ILW" ->
             IF l.dest = {} THEN s
             ELSE wvi(s, l.it, Quad(s, p.addr)[CHOOSE f \in l.dest : \A h \in l.dest : h <= f])
        [] l.op = "ISW"  -> SetQuad(s, p.addr, l.dest, LAMBDA f : s.vi[l.it])
        [] l.op = "MOVE" -> WriteFields(s, l.ft, l.dest, LAMBDA f : s.vf[l.fs][f])
        [] l.op = "MR32" -> WriteFields(s, l.ft, l.dest, LAMBDA f : s.vf[l.fs][1 + (f % 4)])
        [] l.op = "MFIR" -> WriteFields(s, l.ft, l.dest,
                              LAMBDA f : SignedInt(s.vi[l.is]) % (2 * SignBit))
        [] l.op = "MTIR"  -> wvi(s, l.it, x)
        [] l.op = "DIV"   -> [s EXCEPT !.q = Div(x, y).res]
        [] l.op = "SQRT"  -> [s EXCEPT !.q = Sqrt(y).res]
        [] l.op = "RSQRT" -> [s EXCEPT !.q = Div(x, Sqrt(y).res).res]
        [] l.op \in Conditional \cup {"JR", "JALR", "WAITQ", "WAITP"} -> s
        [] OTHER -> [s EXCEPT !.unimplemented = @ + 1]

-----------------------------------------------------------------------------
\* Both slots read the registers as they were; the lower's writes go on top.
Merge(s, up, lo) ==
  LET over(new, old, other) == IF new # old THEN new ELSE other
  IN  [up EXCEPT !.vf = [n \in VfRegs |-> [f \in Fields |->
                           over(lo.vf[n][f], s.vf[n][f], up.vf[n][f])]],
                 !.vi = lo.vi, !.mem = lo.mem, !.q = over(lo.q, s.q, up.q),
                 !.i = over(lo.i, s.i, up.i),
                 !.unimplemented = @ + lo.unimplemented - s.unimplemented]
\* A mutant: the lower slot sees what the upper wrote.
Both_ordered(s, w) ==
  With(Upper(s, w.upper), LAMBDA up : IF w.loi THEN [up EXCEPT !.i = w.imm] ELSE Lower(up, w.lower))
Both(s, w) ==
  With(Upper(s, w.upper), LAMBDA up :
    With(IF w.loi THEN [s EXCEPT !.i = w.imm] ELSE Lower(s, w.lower), LAMBDA lo :
      Merge(s, up, lo)))

\* A mutant: one more word issues after the E bit.
EndCount_soon(w) == IF w.e /\ endIn = NoCount THEN 0
                    ELSE IF endIn = NoCount THEN NoCount ELSE endIn - 1

\* The countdown an E bit starts, after this word: two more words issue.
EndCount(w) == IF w.e /\ endIn = NoCount THEN 1
               ELSE IF endIn = NoCount THEN NoCount ELSE endIn - 1
Ends(w) == EndCount(w) < 0 /\ (w.e \/ endIn # NoCount)

\* One instruction word.  A branch fires after the next word; a branch in that
\* slot is lost.
Issue ==
  /\ vu.running /\ issued < MaxIssue
  /\ LET w     == program.micro[1 + (vu.pc % Len(program.micro))]
         after == Both(vu, w)
         mine  == IF w.loi THEN NoBranch ELSE Branch(vu, w.lower)
         fire  == pendingBranch.taken
     IN  /\ vu' = [(IF fire THEN wvi(after, pendingBranch.link, (vu.pc + 1) * WordBytes) ELSE after)
                     EXCEPT !.pc = IF fire THEN pendingBranch.target ELSE vu.pc + 1,
                            !.running = ~Ends(w)]
         /\ pendingBranch' = IF fire THEN NoBranch ELSE mine
         /\ endIn' = EndCount(w)
  /\ issued' = issued + 1
  /\ UNCHANGED <<program, runs>>

\* run(): from the next start, when the last run has stopped or hit its limit.
Run ==
  /\ ~vu.running \/ issued = MaxIssue
  /\ runs < Len(program.starts)
  /\ vu' = [vu EXCEPT !.pc = program.starts[runs + 1], !.running = TRUE]
  /\ endIn' = NoCount /\ issued' = 0 /\ runs' = runs + 1
  /\ UNCHANGED <<program, pendingBranch>>

Reset(p) ==
  [vf |-> [n \in VfRegs |-> IF n = 0 THEN <<0, 0, 0, One>> ELSE p.vf[n]],
   vi |-> [n \in ViRegs |-> IF n = 0 THEN 0 ELSE p.vi[n]],
   acc |-> Zeros, q |-> 0, i |-> 0, mac |-> {}, clip |-> <<{}, {}, {}, {}>>,
   status |-> [live |-> {}, sticky |-> {}], mem |-> p.mem, pc |-> 0, running |-> FALSE,
   unimplemented |-> 0]

Init ==
  /\ program \in Programs
  /\ vu = Reset(program)
  /\ pendingBranch = NoBranch /\ endIn = NoCount /\ issued = 0 /\ runs = 0
Next == Issue \/ Run
Spec == Init /\ [][Next]_vars

-----------------------------------------------------------------------------
Stopped == runs = Len(program.starts) /\ ~vu.running
Law(l) == program.law = l /\ Stopped

TypeOK ==
  /\ vu.vf \in [VfRegs -> Vector] /\ vu.vf[0] = <<0, 0, 0, One>>
  /\ vu.vi \in [ViRegs -> 0 .. 2^IntBits - 1] /\ vu.vi[0] = 0
  /\ vu.acc \in Vector /\ vu.q \in Pattern /\ vu.i \in Pattern
  /\ vu.mem \in [0 .. MemQw - 1 -> Vector]
  /\ endIn \in -1..2 /\ issued \in 0..MaxIssue

\* One word exchanges two vector registers, the upper slot copying one way and
\* the lower the other: neither slot sees the other's write.  (Program.step's
\* snapshot, restore and merge.)
SlotsSimultaneous ==
  Law("swap") => /\ vu.vf[1] = program.vf[2]
                 /\ vu.vf[2] = program.vf[1]

\* Quadwords pushed by SQ with increment and popped by LQ with decrement come
\* back in reverse order and leave the pointer where it was, when the pointer
\* or the memory wraps in between, too, whatever branches the loop takes.
StackDiscipline ==
  Law("stack") => /\ vu.vi[1] = program.vi[1]
                  /\ vu.vf[1] = program.vf[2] /\ vu.vf[2] = program.vf[1]

\* A subroutine called by BAL or JALR returns to the word after the delay slot,
\* the slot runs once on the way, and the program stops two words after the E
\* bit, a branch in one of them notwithstanding.
CallsReturn ==
  Law("call") => vu.vi[1] = program.trace /\ issued = program.words

\* The outer product pair is antisymmetric: exchanging its operands negates
\* every field that is not zero, and both agree on which are.
CrossAntisymmetric ==
  Law("cross") =>
    \A f \in 1..3 : \/ Magnitude(vu.vf[3][f]) = 0 /\ Magnitude(vu.vf[4][f]) = 0
                    \/ vu.vf[3][f] = (vu.vf[4][f] + SignBit) % (2 * SignBit)

\* An integer of ManBits bits survives ITOF and FTOI with the same fraction.
ConversionsInvert ==
  Law("convert") => vu.vf[3] = program.vf[1]

\* MAX and MINI of the same operands put them in order, whatever their signs.
PairsSorted ==
  Law("sort") =>
    \A f \in Fields :
      /\ {vu.vf[3][f], vu.vf[4][f]} = {Cond(program.vf[1][f]), Cond(program.vf[2][f])}
      /\ Value(vu.vf[3][f]) >= Value(vu.vf[4][f])

-----------------------------------------------------------------------------
(* The instruction tables, and the records above as they are decoded from a *)
(* code.  A code is the record of its bit fields: top [31:25], dest [24:21], *)
(* ft [20:16], fs [15:11], fd [10:6] and fn [5:0]; what overlaps is put      *)
(* together from them.                                                       *)

CONSTANT FractionBits   \* of the four conversions to and from integers: <<0, 4, 12, 15>>

Undefined == "undefined"
dest_fields(d) == {f \in Fields : (d \div 2^(4 - f)) % 2 = 1}
Complement(v, bits) == IF v >= 2^(bits - 1) THEN v - 2^bits ELSE v
l_imm5(c) == Complement(c.fd, 5)
l_imm11(c) == Complement((c.fd * 64) + c.fn, 11)
l_imm15(c) == (c.dest * 2048) + (c.fd * 64) + c.fn

-----------------------------------------------------------------------------
\* The upper tables: <<name, second operand, writes ACC>>, bc the broadcast field
\* of a form that has one.
Flat(name, src) == [op |-> name, src |-> src, acc |-> FALSE, frac |-> 0]
OntoAcc(name, src) == [Flat(name, src) EXCEPT !.acc = TRUE]
Fixed(name, frac) == [Flat(name, "none") EXCEPT !.frac = frac]

UPPER ==
  [op \in 0..27 |-> Flat(<<"ADD", "SUB", "MADD", "MSUB", "MAX", "MINI", "MUL">>[1 + (op \div 4)], "bc")]
  @@ [op \in 28..47 |->
        <<Flat("MUL", "q"), Flat("MAX", "i"), Flat("MUL", "i"), Flat("MINI", "i"),
          Flat("ADD", "q"), Flat("MADD", "q"), Flat("ADD", "i"), Flat("MADD", "i"),
          Flat("SUB", "q"), Flat("MSUB", "q"), Flat("SUB", "i"), Flat("MSUB", "i"),
          Flat("ADD", "v"), Flat("MADD", "v"), Flat("MUL", "v"), Flat("MAX", "v"),
          Flat("SUB", "v"), Flat("MSUB", "v"), Flat("OPMSUB", "v"), Flat("MINI", "v")>>[op - 27]]
\* The extension, by fd and the low two bits of the opcode.
EXT ==
  LET four(row) == [w \in 0..3 |-> row[w + 1]]
      all(name) == [w \in 0..3 |-> OntoAcc(name, "bc")]
  IN  (0 :> all("ADD")) @@ (1 :> all("SUB")) @@ (2 :> all("MADD")) @@ (3 :> all("MSUB"))
   @@ (4 :> [w \in 0..3 |-> Fixed("ITOF", FractionBits[w + 1])])
   @@ (5 :> [w \in 0..3 |-> Fixed("FTOI", FractionBits[w + 1])])
   @@ (6 :> all("MUL"))
   @@ (7 :> four(<<OntoAcc("MUL", "q"), Fixed("ABS", 0), OntoAcc("MUL", "i"), Fixed("CLIP", 0)>>))
   @@ (8 :> four(<<OntoAcc("ADD", "q"), OntoAcc("MADD", "q"), OntoAcc("ADD", "i"), OntoAcc("MADD", "i")>>))
   @@ (9 :> four(<<OntoAcc("SUB", "q"), OntoAcc("MSUB", "q"), OntoAcc("SUB", "i"), OntoAcc("MSUB", "i")>>))
   @@ (10 :> four(<<OntoAcc("ADD", "v"), OntoAcc("MADD", "v"), OntoAcc("MUL", "v"), Fixed(Undefined, 0)>>))
   @@ (11 :> four(<<OntoAcc("SUB", "v"), OntoAcc("MSUB", "v"), OntoAcc("OPMULA", "v"), Fixed("NOP", 0)>>))

\* The entry of a code; a broadcast reads the field its low two bits name, in the
\* extension, too.
Entry(c) ==
  CASE c.fn \in DOMAIN UPPER                    -> UPPER[c.fn]
    [] c.fn >= 60 /\ c.fd \in DOMAIN EXT        -> EXT[c.fd][c.fn % 4]
    [] OTHER                                    -> Fixed(Undefined, 0)
decode_upper(c) ==
  Entry(c) @@ [bc |-> 1 + (c.fn % 4), dest |-> dest_fields(c.dest), fs |-> c.fs, ft |-> c.ft, fd |-> c.fd]

-----------------------------------------------------------------------------
\* The lower tables.
LOWER ==
  (0 :> "LQ") @@ (1 :> "SQ") @@ (4 :> "ILW") @@ (5 :> "ISW") @@ (8 :> "IADDIU") @@ (9 :> "ISUBIU")
  @@ (16 :> "FCEQ") @@ (17 :> "FCSET") @@ (18 :> "FCAND") @@ (19 :> "FCOR")
  @@ (20 :> "FSEQ") @@ (21 :> "FSSET") @@ (22 :> "FSAND") @@ (23 :> "FSOR")
  @@ (24 :> "FMEQ") @@ (26 :> "FMAND") @@ (27 :> "FMOR") @@ (28 :> "FCGET")
  @@ (32 :> "B") @@ (33 :> "BAL") @@ (36 :> "JR") @@ (37 :> "JALR") @@ (40 :> "IBEQ") @@ (41 :> "IBNE")
  @@ (44 :> "IBLTZ") @@ (45 :> "IBGTZ") @@ (46 :> "IBLEZ") @@ (47 :> "IBGEZ")
LOWER2 == (48 :> "IADD") @@ (49 :> "ISUB") @@ (50 :> "IADDI") @@ (52 :> "IAND") @@ (53 :> "IOR")
LOWER3 ==
  <<(12 :> "MOVE") @@ (13 :> "LQI") @@ (14 :> "DIV") @@ (15 :> "MTIR") @@ (16 :> "RNEXT") @@ (25 :> "MFP")
      @@ (26 :> "XTOP") @@ (27 :> "XGKICK") @@ (28 :> "ESADD") @@ (29 :> "EATANxy") @@ (30 :> "ESQRT")
      @@ (31 :> "ESIN"),
    (12 :> "MR32") @@ (13 :> "SQI") @@ (14 :> "SQRT") @@ (15 :> "MFIR") @@ (16 :> "RGET") @@ (26 :> "XITOP")
      @@ (28 :> "ERSADD") @@ (29 :> "EATANxz") @@ (30 :> "ERSQRT") @@ (31 :> "EATAN"),
    (13 :> "LQD") @@ (14 :> "RSQRT") @@ (15 :> "ILWR") @@ (16 :> "RINIT") @@ (28 :> "ELENG") @@ (29 :> "ESUM")
      @@ (30 :> "ERCPR") @@ (31 :> "EEXP"),
    (13 :> "SQD") @@ (14 :> "WAITQ") @@ (15 :> "ISWR") @@ (16 :> "RXOR") @@ (28 :> "ERLENG") @@ (30 :> "WAITP")>>
NameOf(c) ==
  LET third == LOWER3[c.fn - 59]
      known(table, key) == IF key \in DOMAIN table THEN table[key] ELSE Undefined
  IN  CASE c.top # 64                             -> known(LOWER, c.top)
        [] c.top = 64 /\ c.fn \in DOMAIN LOWER2   -> LOWER2[c.fn]
        [] c.top = 64 /\ c.fn >= 60               -> known(third, c.fd)
        [] OTHER                                  -> Undefined

\* How the names of loads and stores differ: the register that points, and when it
\* moves.
Stem == [n \in {"LQI", "LQD", "SQI", "SQD", "ILWR", "ISWR"} |->
           CASE n \in {"LQI", "LQD"} -> "LQ" [] n \in {"SQI", "SQD"} -> "SQ"
             [] n = "ILWR" -> "ILW" [] n = "ISWR" -> "ISW"]
Immediate(name, c) == CASE name = "IADDI"                 -> l_imm5(c)
                        [] name \in {"IADDIU", "ISUBIU"}  -> l_imm15(c)
                        [] name \in {"LQ", "SQ", "ILW", "ISW"} \cup Conditional -> l_imm11(c)
                        [] OTHER                          -> 0
decode_lower(c) ==
  LET name == NameOf(c)
  IN  [op |-> IF name \in DOMAIN Stem THEN Stem[name] ELSE name,
       mode |-> CASE name \in {"LQI", "SQI"} -> "I" [] name \in {"LQD", "SQD"} -> "D" [] OTHER -> "imm",
       base |-> IF name \in {"SQ", "SQI", "SQD"} THEN c.ft % 16 ELSE c.fs % 16,
       imm |-> Immediate(name, c), dest |-> dest_fields(c.dest), fs |-> c.fs, ft |-> c.ft,
       fsf |-> 1 + (c.dest % 4), ftf |-> 1 + (c.dest \div 4),
       is |-> c.fs % 16, it |-> c.ft % 16, id |-> c.fd % 16]

-----------------------------------------------------------------------------
\* Codes of every entry of the tables, over a few registers.
UpperCodes == [top : {0}, dest : {15}, ft : {1}, fs : {2}, fd : {3}, fn : 0..59]
                \cup [top : {0}, dest : {15}, ft : {1}, fs : {2}, fd : 0..31, fn : 60..63]
LowerCodes == [top : 0..127 \ {64}, dest : {8}, ft : {1}, fs : {2}, fd : {3}, fn : {0}]
                \cup [top : {64}, dest : {8}, ft : {1}, fs : {2}, fd : 0..3, fn : 0..59]
                \cup [top : {64}, dest : {8}, ft : {1}, fs : {2}, fd : 0..31, fn : 60..63]
KnownUpper == {k \in {[code |-> c, u |-> decode_upper(c)] : c \in UpperCodes} : k.u.op # Undefined}
Operation(u) == <<u.op, u.src, u.frac, IF u.src = "bc" THEN u.bc ELSE 0>>

\* No two places of the upper tables name one instruction, and every operation of
\* the FMAC has every second operand and both destinations.  A register form and
\* the accumulator form of one operation, one a flat opcode and the other in the
\* extension, where fd is no register, leave the same in fd and in ACC.  Every
\* defined code of the upper tables is one the executor knows, and every one of
\* the lower tables but those it says it does not.  (_UPPER, _EXT, _LOWER,
\* decode_upper, decode_lower; UpperUnit.run, LowerUnit.run.)
DecodeExecutes ==
  LET operands == {<<src, 0>> : src \in {"v", "q", "i"}} \cup ({"bc"} \X Fields)
      onto(acc) == {k.u : k \in {l \in KnownUpper : l.u.op \in Arithmetic /\ l.u.acc = acc}}
  IN  /\ Law("tables") =>
           /\ \A k, l \in KnownUpper : Operation(k.u) = Operation(l.u) /\ k.u.acc = l.u.acc => k = l
           /\ \A op \in Arithmetic, b \in operands, acc \in BOOLEAN :
                \E u \in onto(acc) : Operation(u) = <<op, b[1], 0, b[2]>>
      /\ Law("twins") => vu.vf[3] = vu.acc /\ vu.unimplemented = 0
      /\ Law("known") => vu.unimplemented = program.words
=============================================================================
