# A verification project for the PS2-on-FPGA gateware

The repository builds parts of a PlayStation 2 for Xilinx UltraScale+ cards: the I/O
processor (IOP) with its memory, DMA, drive controller and serial ports; the Emotion
Engine core (EE) with its memory in HBM; the Graphics Synthesizer (GS); the LiteX
targets that join them to PCIe and HBM; executable reference models of EE, VU and GS;
and the host tools that boot and feed all of it. This directory holds TLA+ models of
the parts whose correctness depends on the order of events or on an algorithm with a
law to obey, TLC configurations that check them on small instances, and TLAPS proofs
of what matters most for every instance.

## 1. Inventory

All logic is synchronous VHDL or Migen; "concurrent" means that many processes step at
each edge of a clock and read each other's registers as they were before it. There are
several clocks (`sys` 125 MHz, `iop` 36.864 MHz, `axi`, EE and GS clocks, PCIe), and host
programs that act at any time through registers.

| Component | Source | State | Operations | Hard behaviour |
|---|---|---|---|---|
| RAM/ROM sequencer | `rtl/iop/iop_ram.vhd` | request FSM, line emitter | read, write, line fill | samples a request in IDLE only: any other is lost |
| Memory mux | `rtl/iop/iop_memorymux.vhd` | dispatch FSM, save register, write FIFO, external-bus FSM | fetch, read, posted write for five kinds of target | program order across FIFO, save register and posted external writes; FIFO latency; reset in mid-access |
| RAM port arbiter, peek, reset | `rtl/iop/iop_top.vhd:315-450` | owner registers, one held CPU access, peek FSM, reset counter | grant, hold, replay, peek | one `ram_done` wire for three users; combinational grant against registered busy |
| DMA controller | `rtl/iop/iop_dma.vhd` | 13 channels, one engine, SIF0 and SIF1 service state | register writes, start, tags, words, completion | engine shared and given back in mid-transfer; one-cycle start pulse; bus against engine in one cycle |
| Drive controller | `rtl/iop/iop_cdvd.vhd` | N/S command registers, read engine, sector buffer | commands, sector reads | registered data; command against engine; done and request across clocks |
| IOP board | `boards/c1100_ps2_iop.py` | FIFOs, pointers, synchronizers | CSR accesses | clock crossings without handshake |
| HBM source, probe, DMA writer | `boards/hbm_common.py` | FSMs, beat and word counters | serve a sector; one beat; write a stream to HBM | pulse spacing across clocks; abort in a burst |
| EE memory path | `ee_top.vhd`, `ee_ram.vhd` | arbiter, in-order fetch queue, cached RAM over AXI | fetch, load, store | answers to the right side, in order; reset in a transfer |
| EE and GS boards | `boards/c1100_ee.py`, `c1100_gs.py` | request/acknowledge toggles, snapshots | push, read, status | toggles and snapshots across clocks of any ratio |
| R5900, float, VU references | `sim/ee/*.py`, `sim/vu/vu_ref.py` | register files, delay slots | one instruction (word) a step | exceptions in slots; saturating arithmetic; two slots at once |
| GS reference | `sim/gs/*.py` | tag, registers, vertex queue, local memory | a quadword a step | fill rule, formats that share words, layouts |
| Host tools | `tools/ps2iop`, `tools/ee`, `tools/gs` | none kept | boot, peek, RPC, staging, images | their order of actions is a precondition of the hardware |
| Interrupt controller, timers, SIF mailbox, SIO2, SPU2 | `rtl/iop/*.vhd` | status and flag registers, FIFOs | set, acknowledge; transfer | edge-triggered input fed by levels; both processors in one cycle |
| EE and GS RTL cores | `ee_core.vhd`, `rtl/gs/*.vhd` | pipelines, rasteriser, caches | instructions, packets | stalls, forwarding, cache against writes |

Interaction: the CPU (a submodule that is not in the tree) drives the mux; mux, DMA and
peek port meet at the arbiter before the RAM; the DMA takes words from the drive
controller (channel 3) and the SIF1 stream (10) and puts words into the SIF0 FIFO (9);
completions become interrupts; the drive controller asks its sector source, in another
clock, for one sector at a time; the host reaches each board through CSRs that cross
into the core's clock, and the RTL cores are compared with the reference models, word
by word.

`PROJECT.json` lists every component with its status and reason, and the hazards of the
code at their lines.

## 2. Modules

```
IopRam, IopMemoryMux -- IopMemSystem ......... IopMemSystem_proofs
                           | implements
                        IopPort --+
IopDma ---------------------------+- IopDmaSystem -- MC_DmaSystem  .. IopDmaSystem_proofs
IopCdvd, HbmDiscSource -- DiscPath ................................ DiscPath_proofs
Crossing -- BoardGs, BoardEe, BoardIop, HbmProbe --+  (HostPort: what a port promises)
HbmDma, SifRpc, EeMemory --------------------------+- MC_Boards ..... Boards_proofs
                                                   (HbmDma_proofs, EeMemory_proofs, BoardIop_proofs)
R5900Lanes, Ps2Float -- R5900 (MC_R5900) --+
Ps2Float -- Vu (MC_Vu) --------------------+
GsMemory -- GsRaster -- Gs                 |
            -- GsHost (MC_Gs) -------------+- MC_Cores .............. RomScan_proofs
DiscImage, RomDir, RomScan, BootMap,       |
Assembler (MC_Tools) ----------------------+
```

In the first group **a step is a rising edge of `clk1x`**: an action has the wires of
the ending cycle as parameters and gives the registers of the next, `Next` is the
conjunction of one relation per process, and the environments (CPU, host, device, FIFO
ends) choose their wires with `\E`. A mux state, FSM branch or `if` arm of the source is
one named action; the actions of one process are the disjuncts of its `...Clk` operator.
In `DiscPath` and the boards a step is an edge of one clock, or of both.

- **IopRam**: `ram_state`, the word being emitted, the words written to the instruction
  cache. Contents are left out: no property reads them, only who is served, when, and
  which words of the line arrive.
- **IopMemoryMux**: the dispatcher (`Dispatch...`), save register (`SaveRead`), write
  FIFO (`PostWrite`, `writeFifo_*`), waits, internal bus and the external-bus FSM
  (`Ext...`). Addresses become the *kind* of target, data the *identity* of the operation
  (its place in program order), the wait tables a choice in `0..MaxWait`.
- **IopPort**: five transitions, all the DMA engine may assume of the port.
- **IopMemSystem**: reset stretcher, hold register, arbiter, peek port, and their
  environments. `PortContract` refines `IopPort`, with `PortOf` as the mapping.
- **IopDma**: registers, start logic, engine, SIF0 and SIF1 service. A write of the engine
  overrides one of the bus in the same cycle, as the last assignment of a VHDL process
  does: operators with suffix `W` are the registers as the bus leaves them.
- **IopDmaSystem**: `IopDma` on `IopPort` with the two FIFOs, the device of channel 3 and a
  driver that programs a channel while its start bit is clear. Its history variables
  record what was asked: `runs` the counts, `sif0_due` the words SIF0 owes, and `frame`
  parses the SIF1 stream as it is taken, so that "where its tag says" is part of the state.
- **IopCdvd**, **HbmDiscSource**, **DiscPath**: the N commands with the read engine and
  sector buffer; the FSM of `HBMDiscSource`; both with the multiplexer and synchronizers
  of `boards/c1100_ps2_iop.py`, the loop of `discserve.py` as the host, HBM with arbitrary
  latency, a driver, and any phase between the clocks.
- **Crossing**, **HostPort**: what a flip-flop catches of another clock's signal; and the
  abstract port: each operation asked for is performed once, on its own address and data,
  before the host is told. `PortRefined` maps the GS, EE and HBM ports to it.
- **BoardGs**, **BoardEe**, **BoardIop**, **HbmProbe**: a board's crossings and snapshots,
  with the host program that drives it (`gsrun.py`, `eerun.py`, `iop_post.py`, ...).
- **HbmDma**: `HBMDMAWriter` and `hbm_dma_stage.c`, over a ring of buffers.
- **SifRpc**: the RPC client over both FIFOs, word by word, session after session.
- **EeMemory**: arbiter, fetch queue and write-through cache of the EE over AXI, with
  resets that may cut a transfer off.
- **R5900**, **R5900Lanes**, **Ps2Float**, **Vu**, **GsMemory**, **GsRaster**, **Gs**,
  **GsHost**: the executable references as one instruction, word or quadword per step, at
  parametric widths; `Gs` runs the vertex shift register of the RTL beside the queue of the
  reference.
- **DiscImage**, **RomDir**, **RomScan**, **BootMap**, **Assembler**: the host tools on
  images, ROMs, module code, RAM dumps and sources.

Operators whose comment starts "A mutant" are faults a change of the code could
introduce; nothing in a specification refers to them. They show that a property really
depends on the definition they stand in for (`PROJECT.json`, "mutants").

## 3. Runs

| Run | Question | Bounds |
|---|---|---|
| `MemSystem_order` | Program order, reads after writes, whole lines, FIFO never full, one CPU access | 3 operations of 5 kinds, FIFO of 3 with reserve 2, waits of 0 or 1, reset of 2 cycles |
| `MemSystem_reset` | Nothing dropped or misrouted under a further reset; `IopPort` implemented | 2 operations per life, one more reset at any edge |
| `MemSystem_live` | Reads, peeks and posted writes end | 2 operations: RAM, ROM, external bus |
| `MemSystem_stale` | *violation*: the mux keeps `readram` over a reset | 2 operations |
| `MemSystem_race` | *violation*: a peek outlives the reset | 2 operations |
| `DmaSystem_safe` | No word lost, doubled or misplaced; counts run to their end, then the flag | SIF0 with SIF1 and a reset; OTC, CDVD and an empty channel; SIF0 with a kick. 2 starts, addresses of 4 bits, a stream of 20 words, SIF0 FIFO of 1 |
| `DmaSystem_live` | SIF0 and a kicked SIF1 do not starve each other | 2 starts |
| `DmaSystem_start` | *violation*: a start while the engine is busy is lost | channels 3 and 6 |
| `DiscPath` | The right words, all before the end, the contract with the DMA, reads end | 2 commands, sectors of 4 words in 2 beats, count 2 or the 0 of power up, HBM or host, a reset |
| `Boards_ports` | Ports, snapshots, ROM load, staging, RPC, EE memory; programs end | per board 2 quadwords / lines / beats / sessions, images of 4 words, chunks of 2, an abort |
| `Boards_reset` | *violation*: an EE reset in a transfer leaves AXI signals up | 2 runs |
| `Cores_laws` | References and tools obey their laws | families of short programs, discs, ROMs, boots, sources |

Why the bounds are enough. *Memory*: the dispatcher holds one operation in flight, one
in the save register and the rest in the FIFO; three operations fill all three places in
every combination of kinds, and the history is by identity, so a longer program repeats
these overlaps. With `FifoSize = 3` and reserve 2, NearFull stalls the CPU after one entry
and the FIFO's latency can reach its end. `MaxWait = 1` has both outcomes of every wait
test. `ResetHold` is 1 or 2 where the code has 64: only that it is longer than a peek
matters. *DMA*: the stream has a frame that wraps the end of the address space, one of
length zero after the low bits are dropped, and a plain one; two starts let each channel
meet the other in every engine state; a FIFO of one entry makes SIF0 meet "full" at every
word. `HalfSpace` is small so that `BCR = 0`, the maximum count, can be run to its end.
*Disc*: throttle (8) and drain (64) have the real values, since the property depends on
their ratio to the clocks (3 or 4 `sys` edges to an `iop` edge, every order and
coincidence). Sectors have two beats so that the next burst and the next word are both
taken; two sectors make a stale `done` or request visible. A word is `LBA * SectorWords +
position`, which names it; `Mixed` is what a multi-bit synchronizer may catch in a
transition. `HostGap` (24 `sys` cycles, 192 ns) is taken as a lower bound of the time between
two PCIe register accesses: the host path has no other spacing. *Boards*: two operations
make each crossing meet the one before it; two runs, sessions or aborts make left-overs
visible. *Cores*: widths are parameters, and small ones have every carry, saturation and
wrap the real ones have; the programs are generated over all operands in the family.

### What the violations show

1. `DmaSystem_start`: the start pulse of every channel but SIF0 and SIF1 is looked at only
   while the engine is IDLE (`iop_dma.vhd:447`). Start OTC while CDVD runs, and its CHCR
   says busy forever, against `iop_dma.vhd:387`.
2. `MemSystem_stale`: the reset branch of the mux leaves `readram` and `writeram`; the reset
   of the RAM takes away the completion that would clear them. After a reset in mid-access
   the dispatcher waits for an answer that never comes, against `iop_top.vhd:353`.
3. `MemSystem_race`: a peek accepted in the last cycle of the reset is still in the RAM when
   the CPU starts, against `iop_top.vhd:50`. The host tools keep the reset until the word is
   back, and the proofs assume they do (`~PeekAnyTime`).
4. `Boards_reset`: a reset of the EE in the middle of an AXI transfer leaves the valid and
   ready registers up and beats under way (`ee_ram.vhd:196`); the next run is answered with
   a word of another line or of an earlier image, against `c1100_ee_hbm.py:33`.

## 4. Fairness

- `MemSystem_live`: `WF_vars(Next)`, the clock runs. The CPU may issue or not, the DMA engine
  may ask for the port at every cycle.
- The DMA runs add conditions on the *surroundings*, none on the controller: the port is
  free again and again (each access ends, `NoRequestDropped`), and an engine that goes on
  asking is granted. The arbiter itself prefers the CPU, so the latter is an assumption on
  the CPU: a program with cache misses and internal work leaves gaps. A CPU that hits RAM
  back to back forever would starve the engine; this is listed as a hazard. Further: the
  EE empties its FIFO, the host sends the words it has, the drive offers words.
- `DiscPath`: HBM answers each request, the host keeps serving, the DMA takes words.
- `Boards_ports`: weak fairness of the edges of both clocks; strong fairness of the `sys`
  edges at which the host makes its next access, since the host is a program of its own;
  weak fairness of the staging program and its reader and slave, of the RPC host and the
  IOP, of the EE's clock and of HBM's two kinds of service.

The conditions on states are not weak fairness of actions because every process steps at
every edge: no action of one of them stands alone to be fair about.

## 5. Proofs

Checked by TLAPS for every value of the constants the named assumptions admit. A theorem
is stated about the `Spec` of its component; each inductive invariant was first checked as
an invariant of the component's run.

| Module | Theorem | Says | Assumes |
|---|---|---|---|
| `IopMemSystem_proofs` | `TypeCorrect` | `[]TypeOK` | |
| | `PortInvariant` | `[]PortInv` | `~PeekAnyTime` |
| | `EveryRequestServed` | `[]NoRequestDropped` | `~PeekAnyTime` |
| | `CompletionsRouted` | `[]OwnCompletions` | `~PeekAnyTime` |
| | `PortImplemented` | `PortContract`: `IopPort` is implemented | `~PeekAnyTime` |
| | `CpuAccessUnique` | `[]OneCpuAccess` | `~PeekAnyTime`, `~ResetAgain` |
| | `FifoNeverOverflows` | `[]FifoGuarded` | |
| | `OperationsInOrder` | `[]ProgramOrder` | `~PeekAnyTime`, `~ResetAgain` |
| | `ReadsSeeWrites` | `[]ReadsAfterWrites` | `~PeekAnyTime`, `~ResetAgain` |
| | `LinesFilled` | `[]LineComplete` | `~PeekAnyTime`, `~ResetAgain` |
| `IopDmaSystem_proofs` | `TypesKept` | `[]TypeOK` | |
| | `CompletionsFlagged` | `CompletionFlagged` | |
| | `RunsComplete` | `[]RunComplete` | `CountsFit` |
| | `Sif0Completed` | `Sif0Complete` | |
| | `WordsDelivered` | `[]SifDelivered` | `KickApart` |
| `DiscPath_proofs` | `DiscHolds` | `[]DiscInv` | `Spaced` |
| | `DeliveredInOrder` | `[]SectorsDelivered` | `Spaced` |
| | `EndsDelivered` | `[]ReadEndsDelivered` | `Spaced` |
| | `ContractKept` | `DeviceContract` | `Spaced` |
| `HbmDma_proofs` | `BurstsCompleted` | `[]BurstsWhole` | |
| | `ImageStaged` | `[]StagedInPlace` | |
| `EeMemory_proofs` | `Invariant` | `[]IInv`, the inductive invariant | `EeMemoryAssumption` |
| | `AnswersCurrent` | `[]MemoryCurrent`: a read is answered with the last write | `EeMemoryAssumption` |
| | `CacheCoherent` | `[]Coherent`: a valid line of the cache is what HBM holds | `EeMemoryAssumption` |
| `Boards_proofs` | `PortsImplemented` | `PortRefined`: GS, EE and probe implement `HostPort` | `PortsFit`, `NoneApart` |
| | `StatusOfOneMoment` | `[]StatusWhole` | `PortsFit` |
| | `BoardsMemoryCurrent` | `[]MemoryCurrent` | |
| `BoardIop_proofs` | `RomLoaded` | `[]RomInPlace`: a slip spoils its own chunk, and is found | `RomFits` |
| `RomScan_proofs` | `ScanReportsAccesses` | `[]ScanSound` | |

What the assumptions mean. `~PeekAnyTime` is a host that keeps the IOP in reset until
its peek is answered, as `iop_post.py` does, and `~ResetAgain` one reset per power up;
both are the third and second finding, and the properties are false without them.
`CountsFit` says that the counts the driver programs fit the 24-bit word counter and
that a zero half of BCR (2^16) does; `transfer_words` truncates a larger product, so a
transfer of 2^24 words or more stops early. `KickApart` says that no scenario has both
the host's kick and the driver start channel 10: arming a frame that is under way resets
its phase (`iop_dma.vhd:412`, a hazard without a property). `Spaced` says that the
source spends a word at most every 6 `sys` cycles and that the host's register accesses
are at least 15 apart: the board's throttle is 8, the host sits behind PCIe. TLC finds
the invariant to hold with exactly these numbers (and a drain of 1), and a shifted or
lost word with a throttle of 5 or a host gap of 14. `EeMemoryAssumption` only says that the sizes are numbers, at least one
line of cache and one place in the fetch queue, and that `None` is no datum. `PortsFit` says
the same of the boards, and two things of their clocks: `SnapshotFits`, a copy of the status
stands longer than its toggle takes to cross (`3 * Lead + 2 <= Period`, where at most `Lead`
edges of the core come between two of `sys`; the code's period is 256), and `Park <= Period`,
the core has parked before the first sleep of `eerun.py` is over. `NoneApart` keeps `None` out
of the operations. `RomFits` says that the image is whole chunks, as a BIOS of 4 MiB is of the
tool's 65536 or 4096 words, and that an access of the host takes long enough for a peek to be
back (`Slow + 7 <= Gap` edges of the IOP's clock: `Slow` in the memory, seven on the way there
and back); `iop_post.py` relies on it, since it looks at the count of peeks only
afterwards and then only warns. A write of a word that comes sooner than `Gap` is a slip, which
the theorem allows anywhere. The scanner's theorem is about code that keeps the calling
convention, as the header of `RomScan` says.

The arguments.

*Port.* `NoRequestDropped` is not inductive, since nothing in it says what the arbiter's
registers mean. `PortInv` does: a peek lives inside the reset (`PeekInReset`), and while the
IOP runs `ramarb_busy`, `ramarb_dma` and `ramarb_dmard` describe `ram_state` and the owner of
the access (`ArbiterTracksRam`). Its step splits on reset, held, busy and free; the three
port theorems follow in a line each or, for the refinement, in one case per transition of
`IopPort`. `OneCpuAccess` needs in addition that the mux waits in IDLE for the RAM and is
clean in reset (`MuxInv`), which a second reset breaks.

*Order.* `FlowInv` says where each operation is. A read of the CPU is in one place (save
register, dispatcher, RAM or `mem_done_buf`) and the CPU waits exactly while there is one;
`writeFifo_busy` covers what is in the FIFO, `writeFifo_Wr_1` what is on its way into it; and
the sequence of what is done, held, dispatched, in the external FSM, queued and arriving
(`FlowInv`'s concatenation) is always `1..issued`. Each process moves one piece of the
sequence from one place to the next, so the step is a case per process with an associative
rewriting of the concatenation. The FIFO theorem needs less and holds for any host.

*DMA.* `RunInv`: while the engine runs OTC or CDVD, the words written and the counter left
add up to what was programmed, and the address is where it should be. `Sif0Inv`: the words
owed (`Owes`: of the current tag, of a word granted and not yet back, in hand) follow those
handed over in the order of `sif0_due`, and the tag read from RAM is the one at TADR
(`TagRead`); `Sif1Inv`: the history's parse position (`frame`) and the controller's tag
phase, address and count agree, and what has been written is what the parse demanded; both
need `Requests`: a request on the port is one of the service states, with the word that goes
with it. `SifDelivered` follows by comparing sequences, prefix by prefix.

*Disc.* Every step is an `Edge` (`NextEdge`): of `sys`, of the IOP, or of both, with one arm of
each engine. A pulse is a toggle and three stages, so a word, or the end of a sector, is in one
of `...New`, `...One`, `...Two`; `since`, the gap of the source and the wait of the host bound
which (`Carried`, `DoneInv`), so that a second word is never sent before the first has
been sampled. `Landed`: each word sent is in the buffer or in a stage that still names
its position. `LevelsCross`, `Asking` and `AddressHeld` say the same of the request and of the
sector address, and `Resting` and `Sending` that the filler is quiet while words are sent, so a stale request
cannot start it again. `Owed` ties it to the history: the words still wanted are those of the
sectors left, from the position reached. The proof uses nothing of `DrainTicks` but that it is
not zero: what keeps the end behind the last word is the gap after that word.

*Staging.* `HbmDma_proofs` relates the four places a word can be in (ring, packer, beats of
the burst, HBM) by position: the invariant says that beat `b` of the burst holds words `2b`
and `2b + 1` of what has been offered, that bursts are given beat by beat until the last,
and that an abort is looked at only between bursts.

*EE memory.* A request is in one place, and what each place says of it agrees. `InOrder`: the
fetches the core waits for are the queue, behind the one just answered and before the one
just asked. `Granted`: arbiter and cache hold the same request, and nothing when they rest.
`HbmAgrees` and `CacheAgrees` compare both memories with the host's record of what was
written last, where `Ahead` is that record with the store that is under way: the cache has
it from the lookup on, HBM once its beat is taken. Coherence follows by comparing the two.
In reset the parts are weaker (`Drains`: what is under way is still taken; `Blank` when it
has been), and strong again when the EE is let go. All of it holds until a reset cuts a
transfer off (`host.cut`), which is what `Boards_reset` shows to be fatal.

*Ports.* A handshake is a loop of registers: the toggle, the two flops of the other clock, the
answer, the two flops back, and for each clock what it drove just before, which a flop may
still catch. `Passing` says that the last change is at one place of the loop at most (if a
place has not seen it, none after it has), so the toggle and the flop that differ from it
say how far an operation has come; `Pulsing` says it of the probe's strobes. `...Asked` adds that
the address and data stand while the toggle is under way and are old enough when it arrives,
although each of their bits is caught on its own, and `...Port` that the answer stands
until it has been read. With this each edge of a board is one of the abstract steps (`Ask`,
`Perform`, `Answer`, `Own`) or none of them (`...Move`), board by board, and `PortsMove`
joins them. The snapshot is a race, not a handshake: `Announced` bounds, by the edges since
the toggle moved (`Turn`), which stages may not have seen it yet, and the period is longer
than that bound. `EeParks` and `EeSelects` count the sleeps of the host against it.

*ROM.* `IopInv` follows a word from the host's register to the memory. After `Gap` edges every
flop has the last strobe (`IopSettles`), so outside the loading of a chunk nothing is on its
way (`IopRests`). In a chunk without a slip one word at a time is under way, and the pointer
of the port is at its place (`IopChunk`). With a slip two strobes may merge and the pointer
fall behind, but it never falls below the address of the chunk, since no word overtakes that
address (`IopOrder`), and it is set anew with the next one: so the chunks before stay as they
were (`IopRom`), and those after are written later. The read back needs that a peek is in
one place of its path with the address it was asked for (`IopPeek`), that it is answered
before the host comes (`IopTimes`, which counts edges), and so that the host sees the word at
its own place (`IopValue`); `IopFound` then says what its verdict means.

*Scanner.* `ScanInv` says that a register the scanner believes constant has that value in
the processor, or is dead under the calling convention.

Model-checked only, and why. `CallsMatched` of the boards: it parses a stream of requests, and
is checked on every interleaving of two sessions. The properties of `MC_Cores` but the
scanner's are about what recursive definitions compute for a family of programs, which is
induction over data and outside of what TLAPS does here. So are all liveness and
everything with ENABLED (`ReadsAnswered`, `OperationsPerformed`, `Sif0Ends`, `Sif1Moves`,
`ReadCompletes`, `HostEnds`). The abstract ports, and so the refinements proved, state
safety alone.

## 6. Not modelled

The RTL of the EE pipeline, of the GS and of the VU: their references are modelled in their
place, and the repository compares RTL and reference word by word. Data paths without order
(S-command tables, logs, character console, interpolators), pins and clock wiring, scene
generators and test benches. The CPU, SPU and FIFO cores of PSX_MiSTer, a submodule that is
absent: the CPU is the most general client of the mux, the FIFO follows its port map and the
latency the mux's comment states. In the DMA: debug taps, DMACEN, DMACINTEN, tag counters. In
the drive: S commands, `NCMD` parameters beyond address and count; a command during a read,
and an acknowledgement in the cycle of a new completion, are possible in the hardware
(`iop_cdvd.vhd:274`, `:322`) and excluded by the modelled driver, which waits. The interrupt
controller: a DMA completion while another flag is pending makes no new edge for it
(`iop_dma.vhd:206`). SIO2: a reset in mid-transfer (`iop_sio2.vhd:158`), no full test (`:145`).
The SIF mailbox: a set and a clear of both processors in one cycle (`iop_sif.vhd:153`). The
console FIFO drops when full. `gs_top`'s read arbiter, whose refused reads are not retried
(`gs_top.vhd:170`, `c1100_gs.py:416`): a host read refused once never ends.

Seen while modelling, and not the subject of a run:

- DMA staging run again after a kill finds the writer in W and reports the old transfer
  (`hbm_dma_stage.c:211`); the writer looks at abort only before an address
  (`hbm_common.py:356`); `iop_post.py:336` counts a peek that answers late as answered.
- GS: a PRE tag with vertices queued empties the queue of the reference and not the one of
  the RTL (`gs_ref.py:1715`, `gs_gif.vhd` S_TAG); the palette survives `gs_reset` in the RTL
  (`gs_clut.vhd:280`); a fan with a queued vertex differs (`gs_ref.py:1323`, `gs_gif.vhd:139`);
  `gsfill` with a depth test writes depth into the frame's own page; `gsgrab` with a width
  that is no multiple of 64; the read handshake is not reset by `gs_reset`.
- EE and VU: `sqrt_` gives exact roots one ulp low (`ps2_float.py:147`); BD is set only for
  branches taken; MADD's underflow sets no Z flag; `run()` keeps a pending branch; `eerun.py:389`
  takes two equal samples for a parked core.
- Tools: the assembler sizes `la`/`li` of forward labels in pass 2 with the full table, so
  padding before labels can differ (`asm_r3000.py:107`, `:138`); `mkiso` overwrites the last
  byte without `--sectors` (`mkiso.py:159`); `hbm_stage` leaves sectors of an earlier disc behind;
  `discserve` answers a failed read with zeros; `scan_hw` keeps a `lui` in the delay slot of a
  call (`romdir.py:185`); `iop_ram_map` reports an earlier boot's progress after a reset; RPC
  replies are matched by order alone (`sifrpc.py:17`), and the first drain takes 64 words at most.

## 7. Plan

Done: the memory system, the DMA, the disc path, the boards, the EE memory, references and
tools (models and runs); proofs of the memory system, the DMA, the disc path, the writer,
the EE memory, the ports of the GS, the EE, the probe and the IOP's ROM, the scanner.

Next, in this order:

1. **RPC**: `CallsMatched` as a theorem. It needs the position of the IOP's parse in the
   stream, as `Sif1Inv` has it for the DMA.
2. **GS read arbiter**: `gs_top`'s refused reads, with the liveness of the host port.
3. **IOP interrupts**: the controller's edge detection against the level of the DMA.
