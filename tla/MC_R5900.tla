------------------------------ MODULE MC_R5900 ------------------------------
(* Bytes of two bits, words of eight, and the programs of the run. *)
EXTENDS R5900

\* Registers: 4 holds the largest positive word, 5 two in the bit of ERL.
Regs(r1, r2, r3) == [n \in Reg |-> CASE n = 1 -> r1 [] n = 2 -> r2 [] n = 3 -> r3
                                     [] n = 4 -> <<127, 0>> [] n = 5 -> <<4, 0>>
                                     [] OTHER -> ZeroQuad]
NoFpr == [n \in 1..3 |-> 0]
NoMem == [a \in 0 .. MemSize - 1 |-> 0]
Load0(law, instrs, regs, fpr, m) ==
  [law |-> law, code |-> [i \in 0 .. Len(instrs) - 1 |-> instrs[i + 1]],
   gpr |-> regs, fpr |-> fpr, mem |-> m]

Br(cond, rs, rt, imm, likely) ==
  [kind |-> "branch", cond |-> cond, rs |-> rs, rt |-> rt, imm |-> imm, likely |-> likely]
Regimm(cond, rs, imm, likely, link) ==
  [kind |-> "regimm", cond |-> cond, rs |-> rs, imm |-> imm, likely |-> likely, link |-> link]
A(op, rd, rs, rt) == [kind |-> "alu", op |-> op, rd |-> rd, rs |-> rs, rt |-> rt,
                      useImm |-> FALSE, dbl |-> FALSE, variable |-> TRUE]
AI(op, rd, rs, imm) == [kind |-> "alu", op |-> op, rd |-> rd, rs |-> rs,
                        useImm |-> TRUE, imm |-> imm]
K(kind) == [kind |-> kind]

\* Control: three instructions of a program, the handler at 4, its ERET at 5.
\* r1 = 1, r2 = 1, r3 = -1, r4 + r4 overflows.
User == {AI("addu", 3, 3, 1), K("syscall"), K("cache"),
         [kind |-> "addov", dbl |-> FALSE, useImm |-> FALSE, rd |-> 3, rs |-> 4, rt |-> 4],
         [kind |-> "trap", op |-> "eq", rs |-> 1, rt |-> 2, useImm |-> FALSE],
         [kind |-> "trap", op |-> "lt", rs |-> 1, imm |-> 0, useImm |-> TRUE],
         Br("EQ", 1, 2, 1, FALSE), Br("NE", 1, 2, 1, TRUE),
         Regimm("LTZ", 3, 2, TRUE, TRUE), Regimm("GEZ", 1, -1, FALSE, FALSE),
         Br("GTZ", 3, 0, 1, TRUE), Br("LEZ", 0, 0, 1, TRUE),
         [kind |-> "jump", imm |-> 2, link |-> TRUE],
         [kind |-> "jumpreg", rs |-> 1, rd |-> 0, link |-> FALSE],
         [kind |-> "mtc0", rd |-> STATUS, rt |-> 5],
         [kind |-> "mfc0", rd |-> CAUSE, rt |-> 3]}
Last == {AI("addu", 3, 3, 1), K("syscall"), Br("EQ", 1, 2, 1, FALSE),
         Br("NE", 1, 2, 1, TRUE), Regimm("LTZ", 3, 2, TRUE, TRUE),
         [kind |-> "mtc0", rd |-> STATUS, rt |-> 5], [kind |-> "mfc0", rd |-> CAUSE, rt |-> 3]}
Handler == {K("eret"), K("break"), K("sync"), AI("addu", 1, 1, 1),
            [kind |-> "mtc0", rd |-> EPC, rt |-> 1], [kind |-> "mtc0", rd |-> STATUS, rt |-> 5]}
Control == {Load0("control", <<u, v, w, K("cache"), h, K("eret")>>,
                  Regs(<<1, 0>>, <<1, 0>>, <<2^DB - 1, 0>>), NoFpr, NoMem) :
              u, v \in User, w \in Last, h \in Handler}

\* Data: short straight programs, each with the operands it is checked on.
Quads == {<<0, 0>>, <<6961, 58596>>, <<128, 32896>>, <<65535, 27>>, <<255, 65408>>}
Words == {0, 1, 2, 3, 7, 100, 127, 128, 129, 250, 254, 255}
Memories == {[a \in 0 .. MemSize - 1 |-> (k * a + a \div 4) % 4] : k \in {1, 2, 3}}

U(kind, side, n, a) == [kind |-> kind, side |-> side, n |-> n, rs |-> 0, rt |-> 3,
                        imm |-> IF side = "left" THEN a + n - 1 ELSE a]
Unal == {Load0(IF kind = "uload" THEN "unaligned load" ELSE "unaligned store",
               IF first = "left" THEN <<U(kind, "left", n, a), U(kind, "right", n, a)>>
                                 ELSE <<U(kind, "right", n, a), U(kind, "left", n, a)>>,
               Regs(ZeroQuad, ZeroQuad, q), NoFpr, m) :
           kind \in {"uload", "ustore"}, first \in {"left", "right"}, n \in {4, 8},
           a \in 0..8, m \in Memories, q \in Quads}

HL(op, signed, pipe1, rd) == [kind |-> "hilo", op |-> op, signed |-> signed, pipe1 |-> pipe1,
                              rs |-> 1, rt |-> 2, rd |-> rd]
MHL(op, signed) == [kind |-> "mmihl", op |-> op, signed |-> signed, rs |-> 1, rt |-> 2, rd |-> 3]
Divisions == {HL("div", s, p, 0) : s, p \in BOOLEAN} \cup
             {MHL("pdivw", s) : s \in BOOLEAN} \cup {MHL("pdivbw", TRUE)}
Div2 == {Load0("divide", <<d>>, Regs(<<x, y>>, <<y, x>>, ZeroQuad), NoFpr, NoMem) :
           d \in Divisions, x, y \in Words}

M(op, w, rd, rs, rt) == [kind |-> "mmi", op |-> op, w |-> w, rd |-> rd, rs |-> rs, rt |-> rt]
Thrice(op) == IF op = "PROT3W" THEN <<M(op, WB, 3, 0, 3), M(op, WB, 3, 0, 3), M(op, WB, 3, 0, 3)>>
              ELSE <<M(op, WB, 3, 0, 3), M(op, WB, 3, 0, 3)>>
Shuffles == {<<M("pextl", w, 1, 2, 3), M("pextu", w, 2, 2, 3), M("ppac", w, 3, 2, 1)>> :
               w \in {BB, HB, WB}}
            \cup {Thrice(op) : op \in {"PEXEH", "PREVH", "PEXCH", "PEXEW", "PROT3W", "PEXCW"}}
            \cup {<<M("pcpyld", 0, 1, 3, 3), M("pcpyud", 0, 2, 3, 3), M("pcpyld", 0, 3, 2, 1)>>,
                  <<M("PINTH", HB, 1, 0, 3), M("PINTH", HB, 1, 0, 1), M("ppac", HB, 3, 2, 3),
                    M("pxor", 0, 1, 3, 2), M("pxor", 0, 3, 3, 1)>> }
Shuf == {Load0("shuffle", c, Regs(ZeroQuad, r, q), NoFpr, NoMem) :
           c \in {x \in Shuffles : Len(x) < 5}, q, r \in Quads}
        \cup {Load0("colour", <<M("pext5", 0, 3, 0, 3), M("ppac5", 0, 3, 0, 3)>>,
                    Regs(ZeroQuad, ZeroQuad, q), NoFpr, NoMem) : q \in Quads}

F(op) == [kind |-> "fpu", op |-> op, fs |-> 1, ft |-> 2, fd |-> 3, toAcc |-> FALSE]
Floats == {0, 1, 16, 17, 31, 47, 48, 49, 63, 80, 95, 111, 112, 127}
AllFloats == Floats \cup {x + SignBit : x \in Floats}
Flt == {Load0("float", <<F(op)>>, Regs(ZeroQuad, ZeroQuad, ZeroQuad),
              [n \in 1..3 |-> <<x, y, 0>>[n]], NoMem) :
          op \in {"add", "sub", "mul", "div", "sqrt"}, x, y \in AllFloats}

\* Every other instruction, once or a few times, for the type invariant.
Imm == [imm |-> 3]
Others ==
  {A(op, 3, 1, 2) : op \in {"addu", "subu", "daddu", "dsubu", "slt", "sltu", "and", "or",
                            "xor", "nor", "mfsa", "sll", "srl", "sra"}}
  \cup {[kind |-> "alu", op |-> op, rd |-> 3, rs |-> 1, rt |-> 2, useImm |-> FALSE,
         dbl |-> TRUE, variable |-> FALSE, amount |-> 9] : op \in {"sll", "srl", "sra"}}
  \cup {AI(op, 3, 1, 5) : op \in {"lui", "slt", "sltu", "and", "or", "xor", "daddu"}}
  \cup {[kind |-> k, dbl |-> TRUE, useImm |-> i, imm |-> -3, rd |-> 3, rs |-> 1, rt |-> 2] :
          k \in {"addov", "subov"}, i \in BOOLEAN}
  \cup {[kind |-> "trap", op |-> o, rs |-> 1, rt |-> 2, useImm |-> FALSE] :
          o \in {"ge", "geu", "lt", "ltu", "ne"}}
  \cup {[kind |-> "move", zero |-> z, rd |-> 3, rs |-> 1, rt |-> 2] : z \in BOOLEAN}
  \cup {[kind |-> "mtsa", op |-> o, rs |-> 1, imm |-> -2] : o \in {"reg", "byte", "half"}}
  \cup {[kind |-> "load", n |-> n, signed |-> s, rs |-> 0, rt |-> 3, imm |-> 8] :
          n \in {1, 2, 4, 8}, s \in BOOLEAN}
  \cup {[kind |-> "store", n |-> n, rs |-> 0, rt |-> 1, imm |-> 8] : n \in {1, 2, 4, 8}}
  \cup {[kind |-> k, rs |-> 0, rt |-> 3, imm |-> 21] : k \in {"lq", "sq"}}
  \cup {HL(op, TRUE, p, 3) : op \in {"mfhi", "mflo", "mthi", "mtlo", "mult"}, p \in BOOLEAN}
  \cup {M(p[1], p[2], 3, 1, 2) : p \in MMI0Ops \cup MMI1Ops}
  \cup {M(op, WB, 3, 1, 2) : op \in {"padsbh", "qfsrv", "PINTH", "PINTEH", "PCPYH", "sll", "srl",
                                     "sra", "pand", "por", "pxor", "pnor", "pmfhi", "pmflo"}}
  \cup {MHL(op, s) : op \in {"pmultw", "pmadduw", "pmthi", "pmtlo", "PMULTH", "PMADDH", "PMSUBH",
                             "PHMADH", "PHMSBH"}, s \in BOOLEAN}
  \cup {[kind |-> k, ft |-> 3, rs |-> 0, rt |-> 1, imm |-> 8] : k \in {"lwc1", "swc1", "mfc1", "mtc1"}}
  \cup {F(op) : op \in {"abs", "mov", "neg", "max", "min"}}
  \cup {[F("add") EXCEPT !.toAcc = TRUE]}
  \cup {[kind |-> "fcmp", op |-> o, fs |-> 1, ft |-> 2] : o \in {"f", "eq", "lt", "le"}}
  \cup {K("unimplemented"), [kind |-> "bc1", want |-> FALSE, imm |-> 0]}
Oth == {Load0("any", <<[kind |-> "mtsa", op |-> "reg", rs |-> 1, imm |-> 0], o, o>>,
              Regs(q, r, ZeroQuad), [n \in 1..3 |-> <<63, 200, 0>>[n]],
              [a \in 0 .. MemSize - 1 |-> a % 4]) :
          o \in Others, q \in Quads, r \in {<<128, 32896>>, <<3, 65535>>}}

MC_Programs == Control \cup Unal \cup Div2 \cup Shuf \cup Flt \cup Oth
=============================================================================
