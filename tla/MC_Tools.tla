------------------------------- MODULE MC_Tools -------------------------------
(***************************************************************************)
(* The discs, ROMs and code the host tools are tried on.                   *)
(***************************************************************************)
EXTENDS Naturals, Sequences

\* Executables of a sector and a bit, of two whole sectors; placed right after the
\* directory, or at the end of a volume that holds them; with another file; a file
\* that is shorter than its volume; volumes and directories that are too small.
Bytes(n) == SubSeq(<<"7f", "45", "4c", "46", "01", "02", "03", "ff">>, 1, n)
Disc(n, sectors, extra, short) ==
  [boot |-> "SLUS_900.00", elf |-> Bytes(n), extra |-> extra, sectors |-> sectors, short |-> short]
Extra(name) == <<[name |-> name, data |-> Bytes(4)]>>
MC_Discs == {Disc(8, 0, <<>>, 0), Disc(5, 30, <<>>, 0), Disc(7, 27, Extra("B.DAT"), 0),
             Disc(5, 0, <<>>, 1), Disc(8, 24, <<>>, 0), Disc(1, 0, Extra("B") \o Extra("C"), 0)}

\* ROMs: files of odd and even lengths, with records or none; a filler and a module
\* of the same name twice; modules that are listed and not there, and there twice.
File(name, n, ext) == [name |-> name, data |-> [b \in 1..n |-> <<"b", n * 8 + b>>], ext |-> ext]
Rec(id, value) == <<"x", id, value, "text">>
Conf(lines) == [name |-> "IOPBTCONF", data |-> lines, ext |-> <<Rec(1, 5)>>]
Head3(n, ext) == <<File("RESET", n, ext), File("ROMDIR", 0, <<Rec(2, 1), Rec(3, 0), <<"f">>>>),
                  File("EXTINFO", 0, <<>>)>>
MC_Roms ==
  {Head3(n, ext) \o rest : n \in 1..3, ext \in {<<>>, <<Rec(0, 0), Rec(2, 7)>>},
     rest \in {<<Conf(<<<<"l", "@", "800">>, <<"l", "", "SYSMEM">>, <<"l", "", "CDVDMAN">>>>),
                 File("SYSMEM", 3, <<Rec(3, 2)>>)>>,
               <<File("-", 1, <<>>), Conf(<<<<"l", "#", "">>, <<"l", "", "SYSMEM">>>>), File("-", 2, <<>>),
                 File("SYSMEM", 2, <<Rec(1, 3)>>), File("SYSMEM", 5, <<Rec(2, 4), Rec(3, 9)>>)>>}}

\* Modules of a boot: strings between relocated words, only pointers, code alone,
\* nothing to go by, the strings of another one, no code, no module at all.
Section(name, off, size, addr) == [name |-> name, off |-> off, size |-> size, addr |-> addr]
Irx(text, rodata, data, relText, relRodata) ==
  LET t == Len(text)  r == Len(rodata)  d == Len(data)  rt == Len(relText)  rr == Len(relRodata)
  IN  [magic |-> TRUE, mod |-> <<t, d>>, bytes |-> text \o rodata \o data \o relText \o relRodata,
       headers |-> (IF t > 0 THEN <<Section(".text", 0, t, 0)>> ELSE <<>>)
                   \o (IF r > 0 THEN <<Section(".rodata", t, r, t)>> ELSE <<>>)
                   \o <<Section(".data", t + r, d, t + r), Section(".iopmod", 0, 0, 0),
                        Section(".rel.text", t + r + d, rt, 0)>>
                   \o (IF rr > 0 THEN <<Section(".rel.rodata", t + r + d + rt, rr, 0)>> ELSE <<>>)]
Plain == [magic |-> FALSE, mod |-> <<0, 0>>, bytes |-> <<1, 2, 3>>, headers |-> <<>>]
BootFiles == [strings  |-> Irx(<<1, 2, 3, 4>>, <<11, 12, 13, 14, 15, 16>>, <<>>, <<0>>, <<4, 8>>),
              pointers |-> Irx(<<1, 2, 3, 4, 5, 6>>, <<21, 22>>, <<31, 32, 33>>, <<3>>, <<6>>),
              code     |-> Irx(<<41, 42, 43, 44, 45, 46, 47>>, <<>>, <<>>, <<0, 5>>, <<>>),
              nothing  |-> Irx(<<1, 2, 3, 4, 5>>, <<>>, <<9>>, <<1, 3>>, <<>>),
              copy     |-> Irx(<<8, 8>>, <<11, 12, 13, 14, 15, 16, 17>>, <<>>, <<>>, <<4, 7>>),
              empty    |-> Irx(<<>>, <<51, 52, 53, 54>>, <<>>, <<>>, <<>>),
              plain    |-> Plain]
L(name) == <<"", name>>
MC_Boots ==
  {[conf |-> c, file |-> BootFiles] :
     c \in {<<<<"@", "800">>, L("strings"), L("pointers"), L("plain"), L("code"), <<"#", "x">>, L("nothing")>>,
            <<L("code"), L("nothing"), L("strings"), L("copy"), L("empty"), L("pointers")>>,
            <<L("copy"), <<"blank", "">>, L("code"), L("strings"), L("copy")>>}}

\* Programs: every order of expansions and directives before, between and behind
\* two labels; values at the edges of a half; a jump into another region.
Arg(part, label, v) == [part |-> part, label |-> label, v |-> v]
Line(op, rt, args) == [op |-> op, rt |-> rt, rs |-> rt, args |-> args]
At(label) == Line("label", 0, <<Arg("", label, 0)>>)
Num(op, v) == Line(op, 1, <<Arg("", "", v)>>)
Ref(op, part, label) == Line(op, 1, <<Arg(part, label, 0)>>)
Pair(op, label, v) == <<Line("lui", 1, <<Arg("%hi", label, v)>>), Line(op, 1, <<Arg("%lo", label, v)>>)>>
Pieces == {<<Ref("la", "", "end")>>, <<Ref("li", "", "end")>>, <<Ref("la", "", "mid")>>, <<Num("li", 7)>>,
           <<Num("li", 8)>>, <<Num("li", 96)>>, <<Ref("beq", "", "end")>>, <<Ref("jal", "", "mid")>>,
           <<Num(".align", 4)>>, <<Num(".org", 100)>>, Pair("lw", "end", 0), Pair("addiu", "", 200),
           <<Line(".word", 0, <<Arg("", "mid", 0), Arg("%lo", "end", 0)>>)>>}
Expanding == {<<Ref("la", "", "end")>>, <<Ref("li", "", "end")>>, <<Num("li", 8)>>, <<Num(".align", 4)>>,
              <<Num(".org", 100)>>}
MC_Sources == {[base |-> b, lines |-> x \o <<At("mid")>> \o y \o z \o <<At("end")>> \o w] :
                 b \in {0, 52}, x, y \in Pieces, z \in Expanding, w \in {<<Num("nop", 0)>>, <<Ref("j", "", "mid")>>}}
=============================================================================
