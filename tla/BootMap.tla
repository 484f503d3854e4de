------------------------------- MODULE BootMap --------------------------------
(***************************************************************************)
(* tools/ps2iop/iop_ram_map.py: how far a BIOS got, read from the RAM it   *)
(* left.  The boot itself is external: it copies the modules IOPBTCONF     *)
(* names into RAM one after another, rewriting the words their relocations *)
(* name; a reset starts it again over what RAM still holds.                *)
(*                                                                         *)
(* A module file is [magic, headers, bytes, mod]: its section headers in   *)
(* order, its contents, a relocation being one element, and what .iopmod   *)
(* says of it.  An image, and RAM, is a sequence of bytes.                 *)
(***************************************************************************)
EXTENDS Naturals, Sequences, FiniteSets

CONSTANTS Boots,       \* [conf, file]: the lines of IOPBTCONF, the files by name
          MinRun, LongRun, RelocBytes, MaxHits, RamSize,
          MaxReboots

VARIABLES boot, ram, bases, top, reboots
bootVars == <<boot, ram, bases, top, reboots>>

NoInfo == [sections |-> [n \in {} |-> 0], mod |-> <<>>]
NoSignature == [bytes |-> <<>>, offset |-> 0]
LeastIn(S) == CHOOSE x \in S : \A y \in S : x <= y
MostIn(S) == CHOOSE x \in S : \A y \in S : y <= x

-----------------------------------------------------------------------------
\* The module files: sections by name, the last of a name; nothing without .iopmod.
irx_sections(file) ==
  LET H == file.headers
      named(n) == H[MostIn({i \in DOMAIN H : H[i].name = n})]
  IN  IF file.magic THEN [n \in {H[i].name : i \in DOMAIN H} |-> named(n)] ELSE [n \in {} |-> 0]
irx_info(file) == IF ".iopmod" \in DOMAIN irx_sections(file)
                  THEN [sections |-> irx_sections(file), mod |-> file.mod] ELSE NoInfo

\* The lines that name a module.
boot_modules(conf) ==
  LET lines == SelectSeq(conf, LAMBDA l : l[1] \notin {"#", "@", "blank"})
  IN  [k \in DOMAIN lines |-> lines[k][2]]

\* Relocations name bytes by their place in the module.
Inside(where, addr) == where - addr
RelOf == [s \in {".text", ".rodata", ".data"} |->
            CASE s = ".text" -> ".rel.text" [] s = ".rodata" -> ".rel.rodata" [] s = ".data" -> ".rel.data"]
relocated_bytes(file, secs, sec) ==
  LET rel == secs[RelOf[sec]]
  IN  IF RelOf[sec] \notin DOMAIN secs THEN {}
      ELSE UNION {LET at == Inside(file.bytes[i], secs[sec].addr) IN at .. at + RelocBytes - 1 :
                    i \in rel.off + 1 .. rel.off + rel.size}

\* The runs of bytes of a section that no relocation names, as long as can be.
CleanRuns(file, secs, sec) ==
  LET s == secs[sec]
      clean == (0 .. s.size - 1) \ relocated_bytes(file, secs, sec)
  IN  {r \in (0 .. s.size) \X (0 .. s.size) :
         /\ r[1] + MinRun <= r[2] /\ r[1] .. r[2] - 1 \subseteq clean
         /\ r[2] \notin clean /\ (r[1] = 0 \/ r[1] - 1 \notin clean)}
Longest(runs) ==
  LET len(r) == r[2] - r[1]
      most   == {r \in runs : \A q \in runs : len(q) <= len(r)}
  IN  CHOOSE r \in most : \A q \in most : r[1] <= q[1]
\* The fingerprint: the first of the longest runs of .rodata, .data and .text, the
\* later sections only looked at while none is long enough; with its offset in the
\* module.
signature(file, info) ==
  LET secs == info.sections
      cut(s, r) == [bytes |-> SubSeq(file.bytes, s.off + r[1] + 1, s.off + r[2]),
                    offset |-> s.addr + r[1]]
      best(sec, runs) == IF runs = {} THEN NoSignature ELSE cut(secs[sec], Longest(runs))
      found == [k \in 1..3 |-> LET sec == <<".rodata", ".data", ".text">>[k]
                               IN  best(sec, IF sec \in DOMAIN secs THEN CleanRuns(file, secs, sec) ELSE {})]
      size(k) == Len(found[k].bytes)
      seen    == {k \in 1..3 : \A j \in 1 .. k - 1 : size(j) < LongRun}
  IN  IF ".text" \notin DOMAIN secs THEN NoSignature
      ELSE found[LeastIn({k \in seen : \A j \in seen : size(j) <= size(k)})]
Fingerprint(file) == signature(file, irx_info(file))

\* The first places a fingerprint is found at.
Occurrences(hay, needle) ==
  {p \in 0 .. Len(hay) - Len(needle) : SubSeq(hay, p + 1, p + Len(needle)) = needle}
find_all(hay, needle) ==
  LET all == Occurrences(hay, needle)
  IN  {p \in all : Cardinality({q \in all : q < p}) < MaxHits}

\* What is printed of one module: nothing to go by (it may be no IRX at all), not
\* there, or its lowest base.
Report(sig, hits) ==
  CASE sig = NoSignature                -> [what |-> "no signature"]
    [] sig # NoSignature /\ hits = {}   -> [what |-> "-"]
    [] OTHER -> [what |-> "found",
                 base |-> LeastIn({IF h < sig.offset THEN 0 ELSE h - sig.offset : h \in hits})]
Reports(sigs, hay) == [i \in DOMAIN sigs |-> Report(sigs[i], find_all(hay, sigs[i].bytes))]
\* The module the boot reached at least.
LastFound(reports) == MostIn({0} \cup {i \in DOMAIN reports : reports[i].what = "found"})

-----------------------------------------------------------------------------
\* The boot, external: a module is copied behind the one before, relocated.
Loaded == {".text", ".rodata", ".data"}
Extent(file) == LET secs == irx_sections(file)
                IN  MostIn({0} \cup {secs[n].addr + secs[n].size : n \in DOMAIN secs \cap Loaded})
Place(hay, file, base) ==
  LET secs == irx_sections(file)
      of(p) == {n \in DOMAIN secs \cap Loaded :
                  p - 1 \in base + secs[n].addr .. base + secs[n].addr + secs[n].size - 1}
      byte(p, n) == LET i == p - 1 - base - secs[n].addr
                        b == file.bytes[secs[n].off + i + 1]
                        where == secs[RelOf[n]]
                        rewritten == RelOf[n] \in DOMAIN secs /\
                          \E k \in where.off + 1 .. where.off + where.size :
                            i + secs[n].addr \in file.bytes[k] .. file.bytes[k] + RelocBytes - 1
                    IN  IF rewritten THEN (b + base + 7) % 256 ELSE b
  IN  [p \in 1..RamSize |-> IF of(p) = {} THEN hay[p] ELSE byte(p, CHOOSE n \in of(p) : TRUE)]

LoadModule ==
  LET mods == boot_modules(boot.conf)
      k    == Len(bases) + 1
      file == boot.file[mods[k]]
  IN  /\ k <= Len(mods)
      /\ top + Extent(file) <= RamSize
      /\ bases' = Append(bases, top)
      /\ ram' = IF irx_info(file) = NoInfo THEN ram ELSE Place(ram, file, top)
      /\ top' = top + (IF irx_info(file) = NoInfo THEN 0 ELSE Extent(file) + 1)
      /\ UNCHANGED <<boot, reboots>>
Reboot == /\ reboots < MaxReboots /\ reboots' = reboots + 1
          /\ bases' = <<>> /\ top' = 1
          /\ UNCHANGED <<boot, ram>>

BootInit == /\ boot \in Boots
            /\ ram = [p \in 1..RamSize |-> 0] /\ bases = <<>> /\ top = 1 /\ reboots = 0
BootNext == LoadModule \/ Reboot
-----------------------------------------------------------------------------
\* Every module that was loaded and has a fingerprint is found, at its own base
\* when it is found once; and the last one found is the last one loaded that can
\* be found, unless RAM holds another's fingerprint: of an earlier boot, or one
\* that two modules share.  (relocated_bytes, signature and main of iop_ram_map.)
BootSeen ==
  LET mods == boot_modules(boot.conf)
      sigs == [i \in DOMAIN mods |-> Fingerprint(boot.file[mods[i]])]
      Holds(here, elsewhere, reports) ==
        /\ \A i \in here : /\ reports[i].what = "found"
                           /\ reports[i].base <= bases[i]
                           /\ Occurrences(ram, sigs[i].bytes) = {bases[i] + sigs[i].offset} =>
                                reports[i].base = bases[i]
        /\ elsewhere = {} => LastFound(reports) = MostIn({0} \cup here)
      able == {i \in DOMAIN mods : sigs[i] # NoSignature}
  IN  Holds(able \cap DOMAIN bases,
            {i \in able \ DOMAIN bases : Occurrences(ram, sigs[i].bytes) # {}}, Reports(sigs, ram))
=============================================================================
