------------------------------ MODULE MC_Boards ------------------------------
(***************************************************************************)
(* The ports of the boards to their host, each with the tool that drives   *)
(* it: the GS, the EE, the HBM probe and the DMA writer (boards that pass  *)
(* the same crossings), and the IOP; and, with no crossing in sight, the   *)
(* RPC client over the SIF and the EE on its memory in HBM.  One board is  *)
(* in a behaviour; what is said of several is said once.                   *)
(***************************************************************************)
EXTENDS HbmDma

CONSTANTS Plugged,                          \* the boards of the run
          Period, Lead,                     \* of a snapshot, and of the clocks
          Quads, Reads, Work, Display,      \* GS
          EeLines, Accesses, Regs, Park,    \* EE
          HbmBeats, HbmSlow, ProbeLead,     \* HBM probe
          Size, Part, Gap, Slips, PeekSlow  \* IOP

VARIABLES board, sys, core, host, clk
otherVars == <<sys, core, host, clk>>
boardVars == <<board, otherVars, vars>>

Gs == INSTANCE BoardGs
Ee == INSTANCE BoardEe WITH Lines <- EeLines
Probe == INSTANCE HbmProbe WITH Beats <- HbmBeats, Slow <- HbmSlow, Lead <- ProbeLead
Iop == INSTANCE BoardIop WITH Chunk <- Part, Slow <- PeekSlow
Rpc == INSTANCE SifRpc WITH Sessions <- 2, Depth <- 20, Limit <- 16, Names <- {3}, Sizes <- {16},
                            iop <- sys, sif1 <- core, sif0 <- clk
Ram == INSTANCE EeMemory WITH Line <- 0..2, Indices <- 2, Accesses <- 1, Fetches <- 2, Runs <- 2, Room <- 2,
                              Where <- {[line |-> 0, beat |-> 0, half |-> 1], [line |-> 2, beat |-> 1, half |-> 0]},
                              cpu <- sys, axi <- clk

ASSUME StagingFits == DmaAssumption
ASSUME PortsFit == Gs!BoardGsAssumption /\ Ee!BoardEeAssumption /\ Probe!HbmProbeAssumption
ASSUME RomFits == Iop!BoardIopAssumption
ASSUME MemoryFits == Ram!EeMemoryAssumption

On(b) == board = b

NoDma == eng = [st |-> "none"] /\ slave = 0 /\ hbm = 0 /\ prog = [pc |-> "none"]
NoOther == sys = 0 /\ core = 0 /\ host = 0 /\ clk = 0

BoardsInit ==
        /\ board \in Plugged
        /\ On("dma") => Init /\ NoOther
        /\ ~On("dma") => NoDma
        /\ \/ On("gs")    /\ Gs!Init
           \/ On("ee")    /\ Ee!Init
           \/ On("probe") /\ Probe!Init
           \/ On("iop")   /\ Iop!Init
           \/ On("rpc")   /\ Rpc!Init
           \/ On("ram")   /\ Ram!Init
           \/ On("dma")

Ports == UNCHANGED <<board, vars>>
SysEdge ==
    /\ Ports
    /\ \/ On("gs")    /\ Gs!SysEdge
       \/ On("ee")    /\ Ee!SysEdge
       \/ On("probe") /\ Probe!SysEdge
       \/ On("iop")   /\ Iop!SysEdge
CoreEdge ==
    /\ Ports
    /\ \/ On("gs")    /\ Gs!CoreEdge
       \/ On("ee")    /\ Ee!CoreEdge
       \/ On("probe") /\ Probe!CoreEdge
       \/ On("iop")   /\ Iop!CoreEdge
Stage == On("dma") /\ UNCHANGED <<board, otherVars>> /\ Next
Exchange == Ports /\ On("rpc") /\ Rpc!Next
Fetch == Ports /\ On("ram") /\ Ram!Next

BoardsNext == SysEdge \/ CoreEdge \/ Stage \/ Exchange \/ Fetch

\* The clocks run, and the host's program goes on with its accesses; for the
\* writer the same with a reader that offers words and a slave that takes them;
\* the commands go on, and what the IOP is sent; the EE's clock, and HBM.
BoardsSpec ==
  /\ BoardsInit /\ [][BoardsNext]_boardVars
  /\ WF_boardVars(SysEdge) /\ WF_boardVars(CoreEdge) /\ SF_boardVars(SysEdge /\ host' # host)
  /\ WF_boardVars(Stage /\ Running) /\ WF_boardVars(Stage /\ Working)
  /\ WF_boardVars(Exchange /\ Rpc!Host) /\ WF_boardVars(Exchange /\ Rpc!Iop)
  /\ WF_boardVars(Fetch /\ Ram!Edge)
  /\ WF_boardVars(Fetch /\ Ram!ServeRead) /\ WF_boardVars(Fetch /\ Ram!ServeWrite)

-----------------------------------------------------------------------------
\* Each word pushed into the GIF, and each read or write of a line of memory or
\* of a beat of HBM, is performed once, with the address and the data it was
\* asked with, whatever the phase of the clocks (the request and acknowledge
\* toggles of GSBringup and EEBringup, the pulses of HBMProbe).
Ported == board \in {"gs", "ee", "probe"}
Port == INSTANCE HostPort WITH
    Drawn   <- {Gs!Word(n) : n \in 0 .. Reads - 1}, Streams <- {Gs!Gif},
    call    <- IF Ported THEN host.call ELSE None,
    told    <- IF Ported THEN host.told ELSE None,
    reply   <- CASE On("gs") -> Gs!reply [] On("ee") -> Ee!reply [] On("probe") -> Probe!reply
                 [] OTHER -> None,
    memory  <- CASE On("gs") -> Gs!memory [] On("ee") -> Ee!memory [] On("probe") -> Probe!memory
                 [] OTHER -> <<>>
PortRefined == Port!Spec

ASSUME NoneApart == None \notin Port!Operation \cup Port!Reply

\* The status the host reads is of one moment, and a register it reads half by
\* half after a sleep is the one it selected, as the program left it (the
\* snapshot toggle of both boards, gpr of eerun.py).
StatusWhole ==
    /\ On("gs") => sys.hold[1] = sys.hold[2]
    /\ On("ee") => /\ sys.hold[1][2] = sys.hold[2]
                   /\ host.pc = "end" => host.regs = [i \in 1 .. Regs |-> <<i, Park>>]

\* A slip while the ROM is loaded stays in the chunk it happened in, every other
\* chunk is in place; the read back through the peek port says whether the image
\* is (load and verify of iop_post.py).
RomInPlace ==
    On("iop") =>
      /\ host.pc \notin {"reset", "anchor", "word", "count"} =>
           \A i \in DOMAIN core.rom : (i \div Part) \notin host.slipped => core.rom[i] = i
      /\ host.pc = "bad" => core.rom # Iop!Image
      /\ host.pc \in {"release", "pass"} => core.rom = Iop!Image

\* A call is handled with its own arguments and answered to its own caller, and a
\* loopback called good has landed (sifrpc.py, sifcmd.py, sif1.py).
CallsMatched == On("rpc") => Rpc!ArgumentsFit /\ Rpc!RepliesOwn /\ Rpc!LoopbackLands

\* The EE reads what was loaded and stored, through its cache, over resets that
\* cut no transfer off, and the cache is coherent (ee_top.vhd, ee_ram.vhd).
MemoryCurrent == On("ram") => Ram!MemoryCurrent /\ Ram!Coherent

\* The host's program comes to its end: the GS is drained, the EE run and its
\* registers read, each beat written and read back or an error reported, the ROM
\* verified and the handshake answered, the image staged or an abort noticed, all
\* commands given, each request of the EE answered.
HostEnds ==
    /\ <>CASE On("gs")    -> host.pc = "read"
        [] On("ee")    -> host.pc = "end"
        [] On("probe") -> host.pc = "fail" \/ (host.read /\ host.n = HbmBeats)
        [] On("iop")   -> host.pc \in {"bad", "pass"}
        [] On("dma")   -> prog.pc \in {"end", "fail"}
        [] On("rpc")   -> host.pc = "start" /\ host.n = 2
        [] OTHER       -> TRUE
    /\ []<>(On("ram") => host.cut \/ Ram!Done)

-----------------------------------------------------------------------------
\* c1100_ee_hbm.py:33: loading while the core is in reset "is safe without a cache
\* flush", the core "cannot be holding a stale line", also when its reset came in
\* the middle of a transfer.
NothingStale == On("ram") => Ram!Current
=============================================================================
