-------------------------------- MODULE MC_Vu --------------------------------
(* Patterns of eight bits, integer registers of four, words of two bytes. *)
EXTENDS Vu

All == Fields
Nop == [op |-> "NOP"]
U(op, fd, fs, ft) == [op |-> op, src |-> "v", bc |-> 1, acc |-> FALSE, dest |-> All,
                      fs |-> fs, ft |-> ft, fd |-> fd, frac |-> 0]
To(u, d) == [u EXCEPT !.dest = d]
L0 == [op |-> "WAITQ", dest |-> All, fs |-> 0, ft |-> 0, fsf |-> 1, ftf |-> 1,
       is |-> 0, it |-> 0, id |-> 0, base |-> 0, mode |-> "imm", imm |-> 0]
Lv(op, ft, fs) == [L0 EXCEPT !.op = op, !.ft = ft, !.fs = fs]
Li(op, it, is, imm) == [L0 EXCEPT !.op = op, !.it = it, !.is = is, !.id = it, !.imm = imm]
Lm(op, v, base, mode, imm) == [L0 EXCEPT !.op = op, !.ft = v, !.fs = v, !.it = v, !.base = base,
                                         !.mode = mode, !.imm = imm]
W(u, l) == [upper |-> u, lower |-> l, e |-> FALSE, loi |-> FALSE, imm |-> 0]
E(w) == [w EXCEPT !.e = TRUE]
Pad == W(Nop, L0)
\* A program whose last word carries the E bit.
Ending(ws) == SubSeq(ws, 1, Len(ws) - 1) \o <<E(ws[Len(ws)]), Pad, Pad>>

V1 == {<<49, 63, 80, 175>>, <<0, 1, 127, 255>>, <<52, 48, 180, 176>>}
V2 == {<<49, 190, 80, 48>>, <<16, 17, 144, 15>>, <<111, 200, 128, 47>>}
Clear == [a \in 0 .. MemQw - 1 |-> Zeros]
P(law, micro, v1, v2, ints) ==
  [law |-> law, micro |-> micro, starts |-> <<0>>, mem |-> Clear,
   vf |-> [n \in VfRegs |-> CASE n = 1 -> v1 [] n = 2 -> v2 [] OTHER -> Zeros],
   vi |-> [n \in ViRegs |-> CASE n = 1 -> ints[1] [] n = 2 -> ints[2] [] OTHER -> 0],
   dest |-> All, trace |-> 0, words |-> 0]

\* Swap: at once; through memory; field by field into one register.
Normal == {v \in V1 \cup V2 : \A f \in Fields : Cond(v[f]) = v[f]}
Swaps == {<<W(U("MAX", 1, 2, 2), Lv("MOVE", 2, 1))>>,
          <<W(U("MINI", 1, 2, 2), Lm("SQ", 1, 0, "imm", 1)), W(Nop, Lm("LQ", 2, 0, "imm", 1))>>,
          <<W(To(U("MAX", 3, 1, 1), {1, 3}), [Lv("MOVE", 3, 1) EXCEPT !.dest = {2, 4}]),
            W(U("MAX", 1, 2, 2), Lv("MOVE", 2, 3))>>,
          <<W(U("MAX", 1, 2, 2), Lv("MR32", 3, 1)), W(Nop, Lv("MR32", 3, 3)),
            W(Nop, Lv("MR32", 3, 3)), W(Nop, Lv("MR32", 2, 3))>>}
Swap == {P("swap", Ending(ws), a, b, <<0, 0>>) : ws \in Swaps, a, b \in Normal}

\* Stack: two pushes and two pops in a row, and as two loops of n rounds.
Straight == <<W(Nop, Lm("SQ", 1, 1, "I", 0)), W(Nop, Lm("SQ", 2, 1, "I", 0)),
              W(Nop, Lm("LQ", 1, 1, "D", 0)), W(Nop, Lm("LQ", 2, 1, "D", 0))>>
Counted(n) == W(Nop, Li("IADDIU", 2, 0, n))
Loop(w) == <<W(Nop, Li("ISUBIU", 2, 2, 1)), W(Nop, Li("IBNE", 0, 2, -2)), w>>
Loops(n) == <<Counted(n)>> \o Loop(W(U("MAX", 1, 2, 2), Lm("SQ", 1, 1, "I", 0)))
            \o <<Counted(n)>> \o Loop(W(U("MAX", 1, 2, 2), Lm("LQ", 2, 1, "D", 0))) \o <<Pad>>
Stack == {P("stack", Ending(ws), a, b, <<i, 0>>) :
            ws \in {Straight} \cup {Loops(n) : n \in 2..MemQw}, a, b \in Normal,
            i \in {0, 1, 13, 14, 15}}

\* Call: vi1 counts 1 in the slot, 2 after the return, 4 in the subroutine, 8
\* in the return's slot; the E bit stands on the word after the return.
Count(n) == W(Nop, Li("IADDIU", 1, 1, n))
Calls(call, ret) == <<W(Nop, call), Count(1), E(Count(2)), Pad, Pad, Pad, Count(4),
                      W(Nop, Li(ret, 0, 3, 0)), Count(8)>>
Traced(c, k, n) == [P("call", c, Zeros, Zeros, <<0, 6 * WordBytes>>) EXCEPT !.trace = k, !.words = n]
Call == {Traced(Calls(Li("BAL", 3, 0, 5), "JR"), 15, 8),
         Traced(Calls(Li("JALR", 3, 2, 0), "JR"), 15, 8),
         \* a branch in a branch's slot is lost
         Traced([Calls(Li("BAL", 3, 0, 5), "JR") EXCEPT ![2] = W(Nop, Li("B", 0, 0, 1))], 14, 8),
         \* and one after the E bit moves the words that still issue
         Traced(<<E(W(Nop, Li("B", 0, 0, 2))), Count(1), Count(2), Count(4), Count(8)>>, 5, 3),
         Traced(<<E(W(Nop, Li("B", 0, 0, -1))), Count(1)>>, 1, 3)}

Cross == {P("cross", Ending(<<W(U("OPMULA", 0, 1, 2), L0), W(U("OPMSUB", 3, 2, 1), L0),
                              W(U("OPMULA", 0, 2, 1), L0), W(U("OPMSUB", 4, 1, 2), L0)>>),
            a, b, <<0, 0>>) : a, b \in V1 \cup V2}

Ints(v) == [f \in Fields |-> v[f] % (2 * SignBit)]
Convert ==
  {P("convert", Ending(<<W([U("ITOF", 0, 1, 2) EXCEPT !.frac = k], L0),
                         W([U("FTOI", 0, 2, 3) EXCEPT !.frac = k], L0)>>), Ints(v), Zeros, <<0, 0>>) :
     k \in 0..2, v \in {<<1, -1, 15, -15>>, <<7, -9, 11, -13>>, <<0, 4, -6, 14>>}}

Sort == {P("sort", Ending(<<W(U("MAX", 3, 1, 2), L0), W(U("MINI", 4, 1, 2), L0)>>), a, b, <<0, 0>>) :
           a, b \in V1 \cup V2}

\* Every other instruction, and what several runs of one program leave behind.
Uppers == {[U(o, 3, 1, 2) EXCEPT !.src = s, !.acc = a, !.dest = d] :
             o \in Arithmetic, s \in {"v", "bc", "q", "i"}, a \in BOOLEAN, d \in {{}, {2}, All}}
          \cup {U("CLIP", 0, 1, 2), U("ABS", 0, 1, 3), U("undefined", 0, 0, 0)}
Lowers == {Li(o, 1, 2, -1) : o \in {"IADD", "ISUB", "IAND", "IOR", "IADDI", "IBEQ", "IBLTZ",
                                    "IBGTZ", "IBLEZ", "IBGEZ"}}
          \cup {[Lm(o, 1, 2, "imm", 3) EXCEPT !.dest = d] : o \in {"ILW", "ISW"}, d \in {{}, {2, 3}}}
          \cup {Lv(o, 1, 2) : o \in {"MFIR", "MTIR", "DIV", "SQRT", "RSQRT", "EFU"}}
          \cup {Lv("MOVE", 0, 1), Lm("SQ", 1, 2, "D", 0), Lm("LQ", 1, 2, "I", 0)}
Other == {[P("any", <<W(u, l), [Pad EXCEPT !.loi = TRUE, !.imm = 52], E(W(u, Li("B", 0, 0, 0))), Pad, Pad>>,
             v, w, <<9, 12>>) EXCEPT !.starts = <<0, 2>>] :
            u \in {U("ADD", 3, 1, 2)}, l \in Lowers, v \in V1, w \in V2}
         \cup {[P("any", <<W(u, L0), [Pad EXCEPT !.loi = TRUE, !.imm = 52], E(W(u, Lv("DIV", 1, 2))), Pad,
                   W(Nop, Li("B", 0, 0, -3))>>, v, w, <<9, 12>>) EXCEPT !.starts = <<0, 2>>] :
                 u \in Uppers, v \in V1, w \in V2}
         \cup {[P("loop", <<W(Nop, Li("B", 0, 0, -1)), Pad>>, Zeros, Zeros, <<0, 0>>)
                  EXCEPT !.starts = <<0, 1>>]}

\* Decoded codes: two forms of one operation in a row, the accumulator the same
\* before both; every code alone, and those the lower unit does not execute.
NotExecuted == {"FCEQ", "FCSET", "FCAND", "FCOR", "FSEQ", "FSSET", "FSAND", "FSOR", "FMEQ", "FMAND", "FMOR",
                "FCGET", "RNEXT", "RGET", "RINIT", "RXOR", "MFP", "XTOP", "XITOP", "XGKICK", "ESADD", "ERSADD",
                "ELENG", "ERLENG", "EATANxy", "EATANxz", "EATAN", "ESUM", "ESQRT", "ERSQRT", "ERCPR", "ESIN", "EEXP"}
Alone(u, l, expected) == [P("known", <<E(W(u, l)), Pad, Pad>>, <<49, 63, 80, 175>>, Zeros, <<9, 12>>)
                            EXCEPT !.words = expected]
Decoded ==
  {[P("twins", Ending(<<W([U("ADD", 0, 1, 0) EXCEPT !.acc = TRUE], Lv("DIV", 1, 2)), W(k.u, L0), W(l.u, L0)>>),
      <<49, 63, 80, 175>>, <<49, 190, 80, 48>>, <<9, 12>>) EXCEPT !.words = 0] :
     <<k, l>> \in {p \in KnownUpper \X KnownUpper : /\ p[1].u.op \in Arithmetic /\ ~p[1].u.acc /\ p[2].u.acc
                                                 /\ Operation(p[1].u) = Operation(p[2].u)}}
  \cup {Alone(k.u, L0, 0) : k \in KnownUpper}
  \cup {Alone(Nop, decode_lower(c), IF NameOf(c) \in NotExecuted THEN 1 ELSE 0) :
          c \in {d \in LowerCodes : NameOf(d) # Undefined}}
  \cup {P("tables", Ending(<<Pad>>), Zeros, Zeros, <<0, 0>>)}

MC_Programs == Decoded \cup Swap \cup Stack \cup Call \cup Cross \cup Convert \cup Sort \cup Other
=============================================================================
