------------------------------ MODULE MC_Cores ------------------------------
(***************************************************************************)
(* What the repository has as sequential programs, one of them in a        *)
(* behaviour: the reference models of the R5900, the vector unit and the   *)
(* GS, each with the programs of its own MC module, and the host tools for *)
(* disc images, ROMs and assembled code; and what they must show.         *)
(***************************************************************************)
EXTENDS RomScan, Sequences

CONSTANTS Units,
          EePrograms, VuPrograms, GsPrograms, Discs, Images, Roms, Boots, Sources   \* given below

VARIABLES unit,
          code, gpr, hl, sa, cop0, fpu, mem, pc, delay, steps, start, victim,
          program, vu, pendingBranch, endIn, issued, runs,
          at, tag, left, g,
          disc, cache, serving, todo, hbm, enable, staged,
          boot, ram, bases, top, reboots

eeVars == <<code, gpr, hl, sa, cop0, fpu, mem, pc, delay, steps, start, victim>>
vuVars == <<vu, pendingBranch, endIn, issued, runs>>
gsVars == <<at, tag, left, g>>
discVars == <<disc, cache, serving, todo, hbm, enable, staged>>
bootVars == <<boot, ram, bases, top, reboots>>
vars == <<unit, program, eeVars, vuVars, gsVars, discVars, scanVars, bootVars>>

Registers == {0, 1, 2, 3, 4, 5, 31}
EeSet == INSTANCE MC_R5900 WITH
  ByteBits <- 2, ExpBits <- 3, ManBits <- 4, Bisections <- 7, Reg <- Registers, LinkReg <- 31,
  MemSize <- 32, VecRam <- 4, VecBoot <- 5, MaxSteps <- 9, Programs <- {}
VuSet == INSTANCE MC_Vu WITH
  ExpBits <- 3, ManBits <- 4, Bisections <- 5, VfRegs <- 0..4, ViRegs <- 0..3, MemQw <- 4,
  IntBits <- 4, WordBytes <- 2, MaxIssue <- 40, FractionBits <- <<0, 1, 2, 3>>, Programs <- {}
GsSet == INSTANCE MC_Gs WITH
  VM_WORDS <- 1048576, GRID <- 1024, BLOCK <- 8, ExpBits <- 3, ManBits <- 4, Bisections <- 0,
  Programs <- {}
ToolSet == INSTANCE MC_Tools
DiscSet == INSTANCE DiscImage WITH
  SECTOR <- 4, ReadLimit <- 6, RootEntries <- 5, CacheSectors <- 2, Requests <- {}, StoredImage <- {},
  Discs <- ToolSet!MC_Discs

MC_EePrograms == EeSet!MC_Programs
MC_VuPrograms == VuSet!MC_Programs
MC_GsPrograms == GsSet!MC_Programs
MC_Discs == ToolSet!MC_Discs
MC_Images == DiscSet!StoredImages
MC_Roms == ToolSet!MC_Roms
MC_Boots == ToolSet!MC_Boots
MC_Sources == ToolSet!MC_Sources

Ee == INSTANCE R5900 WITH
  ByteBits <- 2, ExpBits <- 3, ManBits <- 4, Bisections <- 7, Reg <- Registers, LinkReg <- 31,
  MemSize <- 32, VecRam <- 4, VecBoot <- 5, MaxSteps <- 9, Programs <- EePrograms
Vu1 == INSTANCE Vu WITH
  ExpBits <- 3, ManBits <- 4, Bisections <- 5, VfRegs <- 0..4, ViRegs <- 0..3, MemQw <- 4,
  IntBits <- 4, WordBytes <- 2, MaxIssue <- 40, FractionBits <- <<0, 1, 2, 3>>,
  Programs <- VuPrograms
Gs1 == INSTANCE GsHost WITH
  VM_WORDS <- 1048576, GRID <- 1024, BLOCK <- 8, ExpBits <- 3, ManBits <- 4, Bisections <- 0,
  Programs <- GsPrograms
Disc == INSTANCE DiscImage WITH
  SECTOR <- 4, ReadLimit <- 6, RootEntries <- 5, CacheSectors <- 2, Requests <- {16, 21, 26},
  StoredImage <- Images
RomTool == INSTANCE RomDir WITH ALIGN <- 2
BootTool == INSTANCE BootMap WITH
  MinRun <- 2, LongRun <- 4, RelocBytes <- 2, MaxHits <- 2, RamSize <- 44, MaxReboots <- 1
Asm == INSTANCE Assembler WITH HalfBits <- 4, JumpBits <- 4

ASSUME ConstantsFit == /\ Ee!R5900Assumption /\ Ee!FloatAssumption
                       /\ Vu1!VuAssumption /\ Vu1!FloatAssumption /\ RomScanAssumption
                       /\ Disc!DiscAssumption /\ Asm!AssemblerAssumption

On(u) == unit = u

NoEe == /\ code = 0 /\ gpr = 0 /\ hl = 0 /\ sa = 0 /\ cop0 = 0 /\ fpu = 0 /\ mem = 0 /\ pc = 0
        /\ delay = 0 /\ steps = 0 /\ start = 0 /\ victim = 0
NoVu == vu = 0 /\ pendingBranch = 0 /\ endIn = 0 /\ issued = 0 /\ runs = 0
NoGs == at = 0 /\ tag = 0 /\ left = 0 /\ g = 0
NoDisc == /\ disc = 0 /\ cache = 0 /\ serving = 0 /\ todo = 0 /\ hbm = 0 /\ enable = 0
          /\ staged = 0
NoScan == val = 0 /\ hits = {} /\ regs = 0 /\ touched = {} /\ dead = 0 /\ slot = "none"
NoBoot == boot = 0 /\ ram = 0 /\ bases = 0 /\ top = 0 /\ reboots = 0
NoTools == NoDisc /\ NoScan /\ NoBoot
NoCores == NoEe /\ NoVu /\ NoGs

Init == /\ unit \in Units
        /\ \/ On("ee") /\ Ee!Init /\ NoVu /\ NoGs /\ NoTools /\ program = 0
           \/ On("vu") /\ Vu1!Init /\ NoEe /\ NoGs /\ NoTools
           \/ On("gs") /\ Gs1!Init /\ NoEe /\ NoVu /\ NoTools
           \/ On("disc") /\ Disc!DiscInit /\ NoCores /\ NoScan /\ NoBoot /\ program = 0
           \/ On("rom") /\ program \in Roms /\ NoCores /\ NoTools
           \/ On("asm") /\ program \in Sources /\ NoCores /\ NoTools
           \/ On("scan") /\ ScanInit /\ NoCores /\ NoDisc /\ NoBoot /\ program = 0
           \/ On("boot") /\ BootTool!BootInit /\ NoCores /\ NoDisc /\ NoScan /\ program = 0
Next == /\ UNCHANGED unit
        /\ \/ On("ee") /\ Ee!Next /\ UNCHANGED <<program, vuVars, gsVars, discVars, scanVars, bootVars>>
           \/ On("vu") /\ Vu1!Next /\ UNCHANGED <<eeVars, gsVars, discVars, scanVars, bootVars>>
           \/ On("gs") /\ Gs1!Next /\ UNCHANGED <<eeVars, vuVars, discVars, scanVars, bootVars>>
           \/ On("disc") /\ Disc!DiscNext /\ UNCHANGED <<program, eeVars, vuVars, gsVars, scanVars, bootVars>>
           \/ On("scan") /\ ScanNext /\ UNCHANGED <<program, eeVars, vuVars, gsVars, discVars, bootVars>>
           \/ On("boot") /\ BootTool!BootNext /\ UNCHANGED <<program, eeVars, vuVars, gsVars, discVars, scanVars>>
Spec == Init /\ [][Next]_vars

-----------------------------------------------------------------------------
\* R5900: an exception is restartable, from a delay slot, too (exception, eret).
ResumeReachesVictim == On("ee") => Ee!ResumeReachesVictim

\* R5900 and VU: quotients, remainders and truncated floats are those of
\* arithmetic, for every operand of the programs; unaligned pairs move exactly
\* their bytes; operations that undo each other give the operand back: shuffles,
\* conversions, MAX and MINI in order, the outer product in both directions
\* (divw, pdivw, ps2_float, the unaligned group, pext, ppac, PERM, UpperUnit).
OperationsExact ==
  /\ On("ee") => /\ Ee!DivisionExact /\ Ee!TruncatedTowardZero
                 /\ Ee!UnalignedExact /\ Ee!ShufflesInvert
  /\ On("vu") => Vu1!PairsSorted /\ Vu1!CrossAntisymmetric /\ Vu1!ConversionsInvert

\* VU: the two slots of a word see the registers before either of them writes
\* (Program.step).
SlotsSimultaneous == On("vu") => Vu1!SlotsSimultaneous

\* VU: subroutines return and the E bit stops where it should, branches in its
\* slots notwithstanding; a stack in memory gives back what was pushed, whatever
\* wraps (Program.step, LowerUnit).
ProgramsReturn == On("vu") => Vu1!CallsReturn /\ Vu1!StackDiscipline /\ Vu1!DecodeExecutes

\* GS: a quadrangle is covered once whichever diagonal splits it (draw_triangle).
CoverageExact == On("gs") => Gs1!CoverageExact /\ Gs1!FillCounted /\ Gs1!LayoutsPermute

\* GS: what two primitives leave behind a depth test does not depend on their
\* order, in any depth format (zcheck).
OrderFree == On("gs") => Gs1!OrderFree

\* GS: the index in the top byte of a 24-bit buffer outlives drawing (put_pixel).
IndexSurvives == [][On("gs") /\ program.law = "shared" =>
                      \A a \in DOMAIN g.vm : g'.vm[a][4] = g.vm[a][4]]_vars

\* GS: an image or a palette sent through the GIF reads back texel by texel
\* (hwreg, addr32, clut_csm1_32, fetch_texel), and bilinear, mipmapped and perspective
\* sampling agree with the texel where they must (sample_uv_linear, sample_mipmap, stq_to_uv).
TexelsFound == On("gs") => Gs1!UploadReadsBack /\ Gs1!GradientsStraight /\ Gs1!SamplingAgrees

\* GS: the three forms of a GIF packet say the same, and the reference draws what
\* the RTL's vertex shift register draws (gif_packet, vertex).
FormsAgree == On("gs") => Gs1!FormsAgree /\ Gs1!SessionAgrees

\* Host tools: what mkiso and a ROM hold is found and read back whole, and a sector
\* the drive is given is the disc's own, whatever was read or staged before; the modules
\* a boot left in RAM are found there, relocated as they are; what is assembled is
\* placed where its labels say; an image is read from the start by a program that
\* has read nothing of it yet (signature; assemble; build,
\* Iso, DiscSource.read, serve, stage_sector, Rom, cmd_boot, cmd_compare).
ImagesReadBack ==
  /\ On("disc") => /\ cache = <<>> /\ todo = <<>> => Disc!FilesReadBack
                   /\ Disc!AnswersTrue
  /\ On("rom") => /\ RomTool!RomReadsBack(program)
                  /\ \A other \in Roms : RomTool!ComparisonTells(program, other)
  /\ On("boot") => BootTool!BootSeen
  /\ On("asm") => Asm!Assembled(program)
=============================================================================
