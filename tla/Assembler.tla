------------------------------ MODULE Assembler ------------------------------
(***************************************************************************)
(* The two-pass assembler of the IOP programs (sim/asm_r3000.py).  A line  *)
(* is the record [op, rt, rs, args]: a label, a directive or an            *)
(* instruction, an argument [part, label, v] being a label or a number,    *)
(* whole, %hi or %lo of it.  A word is [op, rt, rs, imm]; where its fields *)
(* lie in it is abstracted.                                                *)
(***************************************************************************)
EXTENDS Integers, Sequences, TLC

CONSTANTS HalfBits,     \* of an immediate, half a word (16)
          JumpBits      \* of a jump's field (26)

AssemblerAssumption == HalfBits \in Nat \ {0, 1} /\ JumpBits \in Nat

Half == 2^HalfBits
Word == Half * Half
Low(v) == v % Half
High(v) == (v \div Half) % Half

\* F of x, and TLC evaluates x once.
LOCAL With(x, F(_)) == CHOOSE y \in {F(z) : z \in {x}} : TRUE

-----------------------------------------------------------------------------
Defined(a, labels) == a.label = "" \/ a.label \in DOMAIN labels
imm(a, labels) ==
  LET v == IF a.label = "" THEN a.v % Word ELSE labels[a.label]
  IN  CASE a.part = "%hi" -> High(v + (Half \div 2))
        [] a.part = "%lo" -> Low(v)
        [] OTHER          -> v

Pseudo == {"li", "la"}
Branches == {"beq", "bne", "b", "blez", "bgtz", "bltz", "bgez", "bltzal", "bgezal"}
Jumps == {"j", "jal"}
WithImmediate == {"addiu", "addi", "andi", "ori", "xori", "slti", "sltiu", "lui",
                  "lb", "lh", "lw", "lbu", "lhu", "sb", "sh", "sw"}

\* A li that fits a sign-extended immediate is one instruction.
Short(op, v) == op = "li" /\ (v < Half \div 2 \/ v >= Word - (Half \div 2))

\* The words an instruction takes; a label that is not known yet is taken to need
\* both halves.
length(l, labels) ==
  IF l.op \in Pseudo /\ (~Defined(l.args[1], labels) \/
       With(imm(l.args[1], labels), LAMBDA v : ~Short(l.op, v) /\ Low(v) # 0)) THEN 2 ELSE 1

Instr(op, rt, rs, field) == [op |-> op, rt |-> rt, rs |-> rs, imm |-> field]
encode(l, pc, labels) ==
  LET v == imm(l.args[1], labels)
      upper == Instr("lui", l.rt, 0, High(v))
  IN  CASE l.op \in Pseudo /\ Short(l.op, v) -> <<Instr("addiu", l.rt, 0, Low(v))>>
        [] l.op \in Pseudo /\ ~Short(l.op, v) /\ Low(v) = 0 -> <<upper>>
        [] l.op \in Pseudo /\ ~Short(l.op, v) /\ Low(v) # 0 -> <<upper, Instr("ori", l.rt, l.rt, Low(v))>>
        [] l.op \in Branches -> <<Instr(l.op, l.rt, l.rs, Low((v - (pc + 4)) \div 4))>>
        [] l.op \in Jumps -> <<Instr(l.op, 0, 0, (v \div 4) % 2^JumpBits)>>
        [] l.op \in WithImmediate -> <<Instr(l.op, l.rt, l.rs, Low(v))>>
        [] OTHER -> <<Instr(l.op, l.rt, l.rs, 0)>>

Aligned(pc, n) == ((pc + n - 1) \div n) * n
\* Where the next line goes, of a line that is no instruction.
Directive(l, pc) ==
  CASE l.op = "label"  -> pc
    [] l.op = ".org"   -> l.args[1].v
    [] l.op = ".align" -> Aligned(pc, 2^l.args[1].v)
    [] l.op = ".word"  -> pc + 4 * Len(l.args)
Directives == {"label", ".org", ".align", ".word"}

\* Pass 1: the labels; after every line.
Pass1(lines, base) ==
  LET step(s, l) ==
        [labels |-> IF l.op = "label" THEN (l.args[1].label :> s.pc) @@ s.labels ELSE s.labels,
         pc |-> IF l.op \in Directives THEN Directive(l, s.pc) ELSE s.pc + 4 * length(l, s.labels)]
      after[i \in 0 .. Len(lines)] ==
        IF i = 0 THEN [labels |-> [n \in {} |-> 0], pc |-> base]
        ELSE With(after[i - 1], LAMBDA s : step(s, lines[i]))
  IN  after

\* A short expansion is padded to the words reserved for it.
PaddedTo(words, n) == words \o [k \in 1 .. n - Len(words) |-> Instr("nop", 0, 0, 0)]
Emitted(l, pc, labels) ==
  CASE l.op = ".word" -> [k \in DOMAIN l.args |-> Instr(".word", 0, 0, imm(l.args[k], labels))]
    [] l.op \in Directives \ {".word"} -> <<>>
    [] OTHER -> PaddedTo(encode(l, pc, labels), length(l, labels))
\* Pass 2: the memory; after every line.
Pass2(lines, base, labels) ==
  LET step(s, l) ==
        With(Emitted(l, s.pc, labels), LAMBDA words :
          [mem |-> [a \in {s.pc + 4 * (k - 1) : k \in DOMAIN words} |->
                      words[1 + ((a - s.pc) \div 4)]] @@ s.mem,
           pc |-> IF l.op \in Directives THEN Directive(l, s.pc) ELSE s.pc + 4 * Len(words)])
      after[i \in 0 .. Len(lines)] ==
        IF i = 0 THEN [mem |-> [n \in {} |-> 0], pc |-> base]
        ELSE With(after[i - 1], LAMBDA s : step(s, lines[i]))
  IN  after

-----------------------------------------------------------------------------
\* The processor that runs it, external: what an instruction makes of a register,
\* and where a branch or jump at a goes.
Extended(v) == IF v >= Half \div 2 THEN v - Half ELSE v
Made(w, v) == CASE w.op = "lui" -> w.imm * Half
                [] w.op = "ori" -> v + w.imm
                [] w.op \in {"addiu", "lw"} -> (v + Extended(w.imm)) % Word
MadeBy(words) == IF Len(words) = 1 THEN Made(words[1], 0) ELSE Made(words[2], Made(words[1], 0))
Region == 4 * 2^JumpBits
Reached(w, a) == IF w.op \in Jumps THEN ((a + 4) \div Region) * Region + 4 * w.imm
                 ELSE a + 4 + 4 * Extended(w.imm)
InReach(op, a, v) ==
  IF op \in Jumps THEN (a + 4) \div Region = v \div Region
  ELSE (v - (a + 4)) \div 4 \in -(Half \div 2) .. (Half \div 2) - 1

\* A label is where the line behind it is placed, whatever was expanded, aligned
\* or moved before it, unless a li or la of a label further on turns out to fit
\* one word; li and la leave their value, %hi and %lo of one value meet in it, and
\* a branch or jump in reach arrives there.  (assemble, encode, length.)
Assembled(p) ==
  LET first == Pass1(p.lines, p.base)
      labels == first[Len(p.lines)].labels
      second == Pass2(p.lines, p.base, labels)
      ops(S) == {i \in DOMAIN p.lines : p.lines[i].op \in S}
      target(i) == p.lines[i].args[1]
      placed(i) == second[i - 1].pc
      words(i) == [k \in 1 .. (second[i].pc - placed(i)) \div 4 |-> second[i].mem[placed(i) + 4 * (k - 1)]]
      shrunk == {i \in ops(Pseudo) : ~Defined(target(i), first[i - 1].labels) /\ length(p.lines[i], labels) = 1}
      halves == {i \in ops({"lui"}) : i < Len(p.lines) /\ p.lines[i + 1].op \in {"addiu", "lw"}}
      whole(a) == imm([a EXCEPT !.part = ""], labels)
  IN  /\ shrunk = {} => \A i \in ops({"label"}) : labels[target(i).label] = placed(i)
      /\ \A i \in ops(Pseudo) : MadeBy(words(i)) = imm(target(i), labels)
      /\ \A i \in halves : target(i).part = "%hi" =>
           MadeBy(words(i) \o words(i + 1)) = whole(target(i)) % Word
      /\ \A i \in ops(Branches \cup Jumps) :
           InReach(p.lines[i].op, placed(i), whole(target(i))) =>
             Reached(words(i)[1], placed(i)) = whole(target(i))
=============================================================================
