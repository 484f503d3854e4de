------------------------------ MODULE DiscImage ------------------------------
(***************************************************************************)
(* The disc on the host's side: tools/ps2iop/mkiso.py writes an image,     *)
(* isoread.py walks one as the BIOS does, discsource.py reads its sectors  *)
(* through a cache, discserve.py hands them to the drive one by one and    *)
(* hbm_stage.py copies them to the HBM, which then answers by itself.      *)
(*                                                                         *)
(* A sector is a tuple that starts with its kind.  A byte is a string, and *)
(* so is a line of SYSTEM.CNF.  Names carry no version and are upper case. *)
(***************************************************************************)
EXTENDS Naturals, Sequences, FiniteSets

CONSTANTS
  SECTOR,       \* bytes of a sector
  ReadLimit,    \* limit: bytes Iso.read_file returns at most
  RootEntries,  \* directory records that fit one sector
  CacheSectors, \* cache_sectors of DiscSource
  Discs,        \* arguments mkiso is run with: [boot, elf, extra, sectors, short]
  StoredImage,  \* the image of each, as mkiso writes it (StoredImages below)
  Requests      \* bound: sectors the drive and hbm_stage ask for

Zero == "00"
Blank == <<"data", [b \in 1..SECTOR |-> Zero]>>
Torn == <<"torn">>                  \* a sector some beats of which were not written

Least(S) == CHOOSE x \in S : \A y \in S : x <= y

-----------------------------------------------------------------------------
(* mkiso.py                                                                *)

lba_pvd == 16
lba_root == 20

Files(d) == <<[name |-> "SYSTEM.CNF", data |-> <<d.boot, "VER", "VMODE">>],
              [name |-> d.boot, data |-> d.elf]>> \o d.extra

\* A mutant: a sector that is not full is not counted.
SectorsOf_floor(bytes) == bytes \div SECTOR

SectorsOf(bytes) == (bytes + SECTOR - 1) \div SECTOR

\* Sectors of the first k files.
Before(files, k) ==
  LET sum[j \in 0..k] == IF j = 0 THEN 0 ELSE sum[j - 1] + SectorsOf(Len(files[j].data))
  IN sum[k]
Need(d) == Before(Files(d), Len(Files(d)))

\* What makes mkiso stop without an image.
Refused(d) == \/ d.sectors # 0 /\ d.sectors < lba_root + 1 + Need(d) + 1
              \/ 2 + Len(Files(d)) > RootEntries

FirstLba(d) == IF d.sectors # 0 THEN d.sectors - Need(d) - 1 ELSE lba_root + 1
Total(d) == IF d.sectors # 0 THEN d.sectors ELSE lba_root + 1 + Need(d)
placed(d) == [k \in DOMAIN Files(d) |->
                <<Files(d)[k].name, FirstLba(d) + Before(Files(d), k - 1),
                  Len(Files(d)[k].data), Files(d)[k].data>>]

root(d) == <<"dir", <<<<".", lba_root, SECTOR>>, <<"..", lba_root, SECTOR>>>> \o
                    [k \in DOMAIN placed(d) |-> SubSeq(placed(d)[k], 1, 3)]>>
pvd(d) == <<"pvd", lba_root, SECTOR, Total(d)>>

\* Sector number n of a file's data, what is left of it blank.
Slice(data, n) ==
  <<"data", [b \in 1..SECTOR |-> IF n * SECTOR + b <= Len(data) THEN data[n * SECTOR + b]
                                 ELSE Zero]>>

Written(d, l) ==
  LET here == {k \in DOMAIN placed(d) :
                 l \in placed(d)[k][2]..(placed(d)[k][2] + SectorsOf(placed(d)[k][3]) - 1)}
  IN CASE l = lba_pvd -> pvd(d)
       [] l = lba_pvd + 1 -> <<"term">>
       [] l \in {18, 19} -> <<"path", lba_root>>
       [] l = lba_root -> root(d)
       [] here # {} -> LET k == CHOOSE k \in here : \A j \in here : j <= k
                       IN Slice(placed(d)[k][4], l - placed(d)[k][2])
       [] OTHER -> Blank

\* The last byte of the volume is written last, to give the file its size.
build(d) ==
  [l \in 0..(Total(d) - 1) |->
     IF l = Total(d) - 1 THEN <<"data", [Written(d, l)[2] EXCEPT ![SECTOR] = Zero]>>
     ELSE Written(d, l)]

-----------------------------------------------------------------------------
(* isoread.py: an image is a function on the sectors it has.               *)

HasMagic(img, l) == l \in DOMAIN img /\ img[l][1] \in {"pvd", "term"}

\* The descriptors end at the terminator or at a sector that is none.
DescriptorsEnd(img) ==
  Least({l \in 16..32 : l = 32 \/ ~HasMagic(img, l) \/ img[l][1] = "term"})
Pvds(img) == {l \in 16..(DescriptorsEnd(img) - 1) : img[l][1] = "pvd"}
IsDisc(img) == Pvds(img) # {}
Pvd(img) == img[CHOOSE l \in Pvds(img) : \A m \in Pvds(img) : m <= l]

records(img) == LET extent == Pvd(img)[2]
                IN IF extent \in DOMAIN img /\ img[extent][1] = "dir" THEN img[extent][2] ELSE <<>>

Hits(img, want) == {k \in DOMAIN records(img) : records(img)[k][1] = want}
find(img, want) == records(img)[Least(Hits(img, want))]

\* The bytes that are there: a read past the end gives fewer.
read_file(img, extent, length) ==
  LET n == IF length < ReadLimit THEN length ELSE ReadLimit
      At(b) == extent + (b - 1) \div SECTOR
      there == IF \A b \in 1..n : At(b) \in DOMAIN img THEN n
               ELSE Least({b \in 1..n : At(b) \notin DOMAIN img}) - 1
  IN [b \in 1..there |-> img[At(b)][2][((b - 1) % SECTOR) + 1]]

Contents(img, want) == read_file(img, find(img, want)[2], find(img, want)[3])
BootName(img) == Contents(img, "SYSTEM.CNF")[1]

-----------------------------------------------------------------------------
(* discsource.py, discserve.py, hbm_stage.py                               *)

VARIABLES
  disc,            \* the disc of the program that runs
  cache,           \* _cache: sectors, by number
  serving, todo,   \* discserve runs; the lbas hbm_stage has still to copy
  hbm, enable,     \* the sectors of the HBM; iop_hbm_disc_enable
  staged           \* history: sectors copied since the program was started with this disc

discVars == <<disc, cache, serving, todo, hbm, enable, staged>>

\* A file can be shorter than its volume.
Stored(d) == [l \in {l \in DOMAIN build(d) : l < Total(d) - d.short} |-> build(d)[l]]
Usable == {d \in Discs : ~Refused(d)}
StoredImages == [d \in Usable |-> Stored(d)]
DiscAssumption == StoredImage = StoredImages
image == StoredImage[disc]

Kept(s) == IF s \in DOMAIN cache THEN cache
           ELSE LET room == IF Cardinality(DOMAIN cache) >= CacheSectors THEN {} ELSE DOMAIN cache
                IN [l \in room \cup {s} |-> IF l = s THEN image[s] ELSE cache[l]]

\* DiscSource.read of one sector: whether it is there, and what it is.
Readable(s) == s \in DOMAIN cache \cup DOMAIN image
Got(s) == IF s \in DOMAIN cache THEN cache[s] ELSE image[s]

DiscInit == /\ disc \in Usable /\ cache = <<>>
            /\ serving = TRUE /\ todo = <<>> /\ hbm = [l \in Requests |-> Torn] /\ enable = FALSE
            /\ staged = {}

\* A program is started, with the same or with another source.
Start(d, lbas) ==
  /\ todo = <<>>
  /\ disc' = d /\ cache' = <<>>
  /\ serving' = (lbas = <<>>) /\ todo' = lbas
  /\ staged' = IF d = disc THEN staged ELSE {}
  /\ enable' = (enable /\ lbas # <<>>)         \* hbm_stage.py --host comes before discserve
  /\ UNCHANGED hbm

\* What the drive is given: a sector discserve cannot read is all zeros.
Served(s) == IF Readable(s) THEN Got(s) ELSE Blank
Answer(s) == IF enable THEN hbm[s] ELSE Served(s)
Serve(s) ==
  /\ serving /\ ~enable /\ Readable(s) /\ cache' = Kept(s)
  /\ UNCHANGED <<disc, serving, todo, hbm, enable, staged>>

\* One sector copied; the probe may refuse a beat, which ends the program, as a
\* sector the source does not have does.
Copies(s, ok) ==
  /\ hbm' = [hbm EXCEPT ![s] = IF ok THEN Got(s) ELSE Torn]
  /\ staged' = IF ok THEN staged \cup {s} ELSE staged \ {s}
  /\ cache' = Kept(s)
StageSector(ok) ==
  /\ todo # <<>>
  /\ LET s == Head(todo)
     IN IF Readable(s)
        THEN /\ Copies(s, ok) /\ todo' = IF ok THEN Tail(todo) ELSE <<>>
             /\ enable' = (enable \/ (ok /\ Tail(todo) = <<>>))
        ELSE /\ todo' = <<>> /\ UNCHANGED <<hbm, staged, cache, enable>>
  /\ UNCHANGED <<disc, serving>>

\* No sectors to copy: discserve is started.  Bound: two sectors, in their order.
Jobs == {<<>>} \cup {<<s, t>> \in Requests \X Requests : s <= t}
DiscNext ==
  \/ \E d \in Usable, lbas \in Jobs : Start(d, lbas)
  \/ \E s \in Requests : Serve(s)
  \/ \E ok \in BOOLEAN : StageSector(ok)

-----------------------------------------------------------------------------
\* An image reads back: the boot file SYSTEM.CNF names is in the root directory,
\* and every file is whole (up to the reader's limit), wherever it is placed;
\* except that the byte written last, to give the image its size, is lost if a
\* file ends there.
LastByte(f) == f[2] * SECTOR + f[3] = Total(disc) * SECTOR
FilesReadBack ==
  disc.short = 0 =>
    /\ IsDisc(image) /\ BootName(image) = disc.boot
    /\ \A k \in DOMAIN placed(disc) :
         LET f == placed(disc)[k]
             n == IF f[3] < ReadLimit THEN f[3] ELSE ReadLimit
         IN LET got == Contents(image, f[1]) IN
            /\ Len(got) = n
            /\ \A b \in 1..n : got[b] = f[4][b] \/ (LastByte(f) /\ b = f[3])

\* Whatever was read before, and whichever disc was staged before this one, a
\* sector the drive is given is the disc's own: one this disc does not have is
\* blank, one that was not staged is not asked of the HBM.
AnswersTrue ==
  \A s \in Requests : (enable => s \in staged) =>
    Answer(s) = IF s \in DOMAIN image THEN image[s] ELSE Blank
=============================================================================
