-------------------------------- MODULE RomDir --------------------------------
(***************************************************************************)
(* tools/ps2iop/romdir.py: the files of a rom0 image, found as IOPBOOT     *)
(* finds them, and the modules IOPBTCONF lists.                            *)
(*                                                                         *)
(* An image is a sequence of bytes, tuples that start with a tag: <<"b",   *)
(* x>> of a file; <<"e", name, esz, sz>> and fillers, a directory entry;   *)
(* <<"l", kind, name>>, a line of IOPBTCONF; <<"x", id, value, comment>>,  *)
(* the header of an EXTINFO record with its data; <<"f">>, a filler.       *)
(***************************************************************************)
EXTENDS Naturals, Sequences

CONSTANT ALIGN       \* bytes of a directory entry, and what file data is padded to

First(S) == CHOOSE x \in S : \A y \in S : x <= y
Last(S) == CHOOSE x \in S : \A y \in S : y <= x

IsEntry(img, p) == p + ALIGN - 1 <= Len(img) /\ img[p][1] = "e"
HasRomdir(img) == \E p \in 1..Len(img) : IsEntry(img, p) /\ img[p][2] = "RESET"
dir_offset(img) == First({p \in 1..Len(img) : IsEntry(img, p) /\ img[p][2] = "RESET"})

\* Entries up to the one without a name, or to the end of the image.
Entries(img, base) ==
  LET At(n) == base + n * ALIGN
      count == First({n \in 0..Len(img) : ~IsEntry(img, At(n)) \/ img[At(n)][2] = ""})
  IN [k \in 1..count |-> img[At(k - 1)]]

Padded(sz) == ((sz + ALIGN - 1) \div ALIGN) * ALIGN

\* The sums of the sizes, and of the EXTINFO bytes, of the entries before each:
\* where its data and its records are.
files(entries) ==
  LET off[k \in 1..Len(entries)] == IF k = 1 THEN 0 ELSE off[k - 1] + Padded(entries[k - 1][4])
      ext[k \in 1..Len(entries)] == IF k = 1 THEN 0 ELSE ext[k - 1] + entries[k - 1][3]
  IN [k \in 1..Len(entries) |->
        [name |-> entries[k][2], offset |-> off[k], size |-> entries[k][4],
         ext |-> ext[k], esz |-> entries[k][3]]]
Rom(img) == [data |-> img, files |-> files(Entries(img, dir_offset(img)))]

\* Of entries of the same name the last one is found.
Named(rom, name) == {k \in DOMAIN rom.files : rom.files[k].name = name}
by_name(rom, name) == rom.files[Last(Named(rom, name))]
read(rom, name) ==
  LET f == by_name(rom, name) IN SubSeq(rom.data, f.offset + 1, f.offset + f.size)

\* The records of an entry: date (1), version (2) and comment (3); 0 says nothing,
\* a filler, a value that looks like one or any other id ends the run.
extinfo(rom, name) ==
  LET f == by_name(rom, name)
      e == SubSeq(read(rom, "EXTINFO"), f.ext + 1, f.ext + f.esz)
      Stops(r) == r[1] # "x" \/ r[3] % 128 = 127 \/ r[2] > 3
      end == First({i \in 1..(Len(e) + 1) : i = Len(e) + 1 \/ Stops(e[i])})
      Of(id) == {i \in 1..(end - 1) : e[i][2] = id}
  IN IF Named(rom, "EXTINFO") = {} THEN [id \in {} |-> <<>>]
     ELSE [id \in {id \in 1..3 : Of(id) # {}} |-> e[Last(Of(id))]]

\* IOPBTCONF: modules in order, each with whether the ROM has it; lines that start
\* with "@" (an address) are shown, but are no modules.
ModLines(rom) == SelectSeq(read(rom, "IOPBTCONF"), LAMBDA l : l[2] \notin {"#", "@", "blank"})
Modules(rom) == LET lines == ModLines(rom) IN {lines[k][3] : k \in DOMAIN lines}
cmd_boot(rom) ==
  LET lines == ModLines(rom)
  IN [k \in DOMAIN lines |->
        [name |-> lines[k][3], missing |-> Named(rom, lines[k][3]) = {}]]

\* What cmd_compare prints of a ROM beside the first one.
cmd_compare(base, rom) ==
  [only |-> Modules(rom) \ Modules(base), miss |-> Modules(base) \ Modules(rom)]

-----------------------------------------------------------------------------
(* How an image is laid out: the data of the files in the order of the      *)
(* directory, which lies in the file ROMDIR, and all EXTINFO bytes in one    *)
(* file.  A file to pack is [name, data, ext].                               *)

Filler == <<"b", 0>>
Concat(seqs) ==
  LET cat[k \in 0..Len(seqs)] == IF k = 0 THEN <<>> ELSE cat[k - 1] \o seqs[k] IN cat[Len(seqs)]
EntryOf(name, esz, sz) == <<<<"e", name, esz, sz>>>> \o [b \in 1..(ALIGN - 1) |-> Filler]

\* The file with the directory and the one with the records are filled in last.
Data(rom, k) ==
  CASE rom[k].name = "ROMDIR" ->
         Concat([j \in DOMAIN rom |->
                   EntryOf(rom[j].name, Len(rom[j].ext),
                           CASE rom[j].name = "ROMDIR" -> (Len(rom) + 1) * ALIGN
                             [] rom[j].name = "EXTINFO" -> Len(Concat([i \in DOMAIN rom |-> rom[i].ext]))
                             [] OTHER -> Len(rom[j].data))]) \o EntryOf("", 0, 0)
    [] rom[k].name = "EXTINFO" -> Concat([j \in DOMAIN rom |-> rom[j].ext])
    [] OTHER -> rom[k].data
Packed(rom) ==
  Concat([k \in DOMAIN rom |->
            Data(rom, k) \o [b \in 1..((ALIGN - (Len(Data(rom, k)) % ALIGN)) % ALIGN) |-> Filler]])

\* Every file of a packed ROM is found with its own bytes and records, the last of
\* its name, and the boot list calls missing exactly the modules that are not there.
RomReadsBack(packed) ==
  /\ HasRomdir(Packed(packed))
  /\ \A rom \in {Rom(Packed(packed))} :
     /\ Len(rom.files) = Len(packed)
     /\ \A k \in DOMAIN packed :
          (\A j \in (k + 1)..Len(packed) : packed[j].name # packed[k].name) =>
            /\ read(rom, packed[k].name) = Data(packed, k)
            /\ \A i \in DOMAIN packed[k].ext :
                 LET r == packed[k].ext[i] IN
                 r[1] = "x" /\ r[2] \in 1..3 => extinfo(rom, packed[k].name)[r[2]] = r
     /\ \A m \in {cmd_boot(rom)[k] : k \in DOMAIN cmd_boot(rom)} :
          m.missing = (\A j \in DOMAIN packed : packed[j].name # m.name)

\* The list of the first ROM and what cmd_compare prints give the list of the other.
ComparisonTells(packed, other) ==
  \A a \in {Rom(Packed(packed))}, b \in {Rom(Packed(other))} :
    (Modules(a) \ cmd_compare(a, b).miss) \cup cmd_compare(a, b).only = Modules(b)
=============================================================================
