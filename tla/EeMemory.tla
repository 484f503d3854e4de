------------------------------- MODULE EeMemory -------------------------------
(***************************************************************************)
(* Main memory of the EE on the board that has it in HBM                   *)
(* (src/boards/c1100_ee_hbm.py): the arbiter of ee_top.vhd, where data go  *)
(* before fetches and fetches wait in a queue, and the write-through cache *)
(* of ee_ram.vhd with its AXI master; an Edge is one of their clock.  The  *)
(* host holds the EE in reset, loads an image, lets it run and takes it    *)
(* back at any moment (load_hbm and main of eerun.py).                     *)
(* External: the core (ee_core.vhd), which holds a data access until it is *)
(* answered and pulses up to three fetches ahead, and HBM behind the clock *)
(* crossing, which takes up to Room requests of a kind and serves each     *)
(* kind in its order.                                                      *)
(* A line is two beats, a beat two quadwords; an address names a quadword. *)
(***************************************************************************)
EXTENDS Naturals, Sequences

CONSTANTS Line, Indices,      \* lines of memory; entries of the cache
          Where,              \* the quadwords the core asks for
          Accesses, Fetches,  \* bounds: of the core's requests in one run
          Runs,               \* bound: images loaded
          Room, None

VARIABLES core, cpu, axi, host
vars == <<core, cpu, axi, host>>

Half == 0..1
index(line) == line % Indices
Beat(a) == <<a.line, a.beat>>
Image(n) == [b \in Line \X Half |-> [h \in Half |-> <<n, b, h>>]]

NoLine == [tag |-> None, data |-> [b \in Half |-> [h \in Half |-> None]]]
Cold == [i \in 0 .. Indices - 1 |-> NoLine]

Init ==
    /\ core = [st |-> "IDLE", req |-> None, fq |-> <<>>,
               dready |-> None, iready |-> None,
               rs |-> "IDLE", r |-> None, q |-> NoLine, beat |-> 0, ack |-> FALSE, rdata |-> None,
               lines |-> Cold, ar |-> None, aw |-> None, w |-> None, rready |-> FALSE, bready |-> FALSE]
    /\ cpu  = [d |-> None, i |-> None, wait |-> <<>>, accesses |-> 0, fetches |-> 0]
    /\ axi  = [ar |-> <<>>, beat |-> 0, r |-> <<>>, aw |-> <<>>, w |-> <<>>, b |-> 0,
               hbm |-> Image(0)]
    /\ host = [reset |-> TRUE, n |-> 0, memory |-> Image(0), held |-> FALSE, cut |-> FALSE]

-----------------------------------------------------------------------------
(* ee_top: two masters, one port *)

Asks(w, a, v) == [we |-> w, addr |-> a, data |-> v]

\* The core's strobe is up, and it is not the one just answered.
Free(c) == c.dready = None

\* A request is a pulse, of a data access or else of the oldest fetch; its
\* answer goes to the one that asked.
Arbiter(c) ==
    CASE c.st = "IDLE" /\ cpu.d # None /\ Free(c) ->
           [c EXCEPT !.st = "DATA", !.req = cpu.d, !.dready = None, !.iready = None]
      [] c.st = "IDLE" /\ ~(cpu.d # None /\ Free(c)) /\ c.fq # <<>> ->
           [c EXCEPT !.st = "INST", !.req = Asks(FALSE, Head(c.fq), None), !.dready = None, !.iready = None]
      [] c.st = "DATA" /\ c.ack ->
           [c EXCEPT !.st = "IDLE", !.req = None, !.dready = <<c.rdata>>, !.iready = None]
      [] c.st = "INST" /\ c.ack ->
           [c EXCEPT !.st = "IDLE", !.req = None, !.dready = None, !.iready = <<c.rdata>>,
                     !.fq = Tail(@)]
      [] OTHER -> [c EXCEPT !.req = None, !.dready = None, !.iready = None]

\* A fetch is queued in the cycle it appears.
Queued(c) == IF cpu.i = None THEN c ELSE [c EXCEPT !.fq = Append(@, cpu.i)]

-----------------------------------------------------------------------------
(* ee_ram: the cache, and its AXI master *)

Hit(c) == c.q.tag = c.r.addr.line

\* The line it belongs to with one beat replaced.
WithBeat(c, beat, data) == [c EXCEPT !.lines[index(c.r.addr.line)].data[beat] = data]

Answered(c, v) == [c EXCEPT !.rs = "IDLE", !.ack = TRUE, !.rdata = v]

Lookup(c) ==
    LET a == c.r.addr
        old == c.q.data[a.beat]
    IN  IF c.r.we
        THEN [IF Hit(c) THEN WithBeat(c, a.beat, [old EXCEPT ![a.half] = c.r.data]) ELSE c
              EXCEPT !.rs = "AW"]
        ELSE IF Hit(c) THEN Answered(c, old[a.half])
        ELSE [c EXCEPT !.rs = "AR", !.beat = 0]

\* The last beat makes the line valid.
Filled(c, last) == IF last THEN [c EXCEPT !.lines[index(c.r.addr.line)].tag = c.r.addr.line] ELSE c

\* A valid that is up stays until its ready; only then is the next one raised.
Master(c) ==
    CASE c.rs = "AR" /\ c.ar = None -> [c EXCEPT !.ar = <<c.r.addr.line>>]
      [] c.rs = "AR" /\ c.ar # None /\ Len(axi.ar) < Room ->
           [c EXCEPT !.ar = None, !.rready = TRUE, !.rs = "R"]
      [] c.rs = "R" /\ axi.r # <<>> ->
           LET got == Head(axi.r)
               f   == Filled(WithBeat(c, c.beat, got.data), got.last)
               v   == IF c.beat = c.r.addr.beat THEN got.data[c.r.addr.half] ELSE c.rdata
           IN  IF got.last THEN [Answered(f, v) EXCEPT !.rready = FALSE]
               ELSE [f EXCEPT !.rdata = v, !.beat = 1]
      [] c.rs = "AW" /\ c.aw = None -> [c EXCEPT !.aw = <<Beat(c.r.addr)>>]
      [] c.rs = "AW" /\ c.aw # None /\ Len(axi.aw) < Room -> [c EXCEPT !.aw = None, !.rs = "W"]
      [] c.rs = "W" /\ c.w = None -> [c EXCEPT !.w = <<c.r.addr.half, c.r.data>>]
      [] c.rs = "W" /\ c.w # None /\ Len(axi.w) < Room ->
           [c EXCEPT !.w = None, !.bready = TRUE, !.rs = "B"]
      [] c.rs = "B" /\ axi.b > 0 -> [Answered(c, c.rdata) EXCEPT !.bready = FALSE]
      [] OTHER -> c

Cache(c) ==
    LET n == [c EXCEPT !.ack = FALSE] IN
    CASE c.rs = "IDLE" /\ core.req # None ->
           [n EXCEPT !.rs = "LOOKUP", !.r = core.req, !.q = c.lines[index(core.req.addr.line)]]
      [] c.rs = "LOOKUP" -> Lookup(n)
      [] OTHER -> Master(n)

\* A mutant: the lines stay valid.
Reset_warm(c) ==
    [c EXCEPT !.st = "IDLE", !.req = None, !.fq = <<>>, !.dready = None, !.iready = None,
              !.rs = "IDLE", !.ack = FALSE]
\* The reset of both: the lines are invalid, the AXI signals as they were.
Reset(c) ==
    [c EXCEPT !.st = "IDLE", !.req = None, !.fq = <<>>, !.dready = None, !.iready = None,
              !.rs = "IDLE", !.ack = FALSE, !.lines = Cold]

-----------------------------------------------------------------------------
(* The core, and HBM *)

\* The core goes on from an answer: with its next access, or fetches, or nothing.
CpuEdge ==
    \E i \in {None} \cup Where, d \in {None} \cup [we : BOOLEAN, addr : Where] :
      LET free  == cpu.d = None \/ core.dready # None
          ahead == IF core.iready = None THEN cpu.wait ELSE Tail(cpu.wait)
      IN  /\ d # None => free /\ cpu.accesses < Accesses
          /\ i # None => Len(ahead) < 3 /\ cpu.fetches < Fetches
          /\ cpu' = [d |-> IF d # None THEN Asks(d.we, d.addr, IF d.we THEN <<"w", cpu.accesses>> ELSE None)
                           ELSE IF free THEN None ELSE cpu.d,
                     i |-> i,
                     wait |-> IF i = None THEN ahead ELSE Append(ahead, i),
                     accesses |-> IF d = None THEN cpu.accesses ELSE cpu.accesses + 1,
                     fetches  |-> IF i = None THEN cpu.fetches ELSE cpu.fetches + 1]

\* The handshakes of an edge: what is valid is taken when there is room for it,
\* what is there is given when the master is ready.
Handshakes ==
    axi' = [axi EXCEPT
              !.ar = IF core.ar # None /\ Len(@) < Room THEN Append(@, core.ar[1]) ELSE @,
              !.aw = IF core.aw # None /\ Len(@) < Room THEN Append(@, core.aw[1]) ELSE @,
              !.w  = IF core.w # None /\ Len(@) < Room THEN Append(@, core.w) ELSE @,
              !.r  = IF core.rready /\ @ # <<>> THEN Tail(@) ELSE @,
              !.b  = IF core.bready /\ @ > 0 THEN @ - 1 ELSE @]

Edge ==
    /\ Handshakes
    /\ IF host.reset
       THEN /\ core' = Reset(core)
            /\ cpu' = [cpu EXCEPT !.d = None, !.i = None, !.wait = <<>>]
            /\ host' = [host EXCEPT !.held = TRUE]
       ELSE /\ core' = Cache(Queued(Arbiter(core)))
            /\ CpuEdge
            \* the store that is answered is in memory
            /\ host' = IF core.st = "DATA" /\ core.ack /\ cpu.d.we
                       THEN [host EXCEPT !.memory[Beat(cpu.d.addr)][cpu.d.addr.half] = cpu.d.data]
                       ELSE host

\* HBM reads a beat of a burst, or writes the oldest beat.
ServeRead ==
    /\ axi.ar # <<>> /\ Len(axi.r) < Room
    /\ axi' = [axi EXCEPT !.r = Append(@, [data |-> axi.hbm[<<Head(axi.ar), axi.beat>>],
                                           last |-> axi.beat = 1]),
                          !.beat = 1 - @,
                          !.ar = IF axi.beat = 1 THEN Tail(@) ELSE @]
    /\ UNCHANGED <<core, cpu, host>>
ServeWrite ==
    /\ axi.aw # <<>> /\ axi.w # <<>> /\ axi.b < Room
    /\ axi' = [axi EXCEPT !.hbm[Head(axi.aw)][Head(axi.w)[1]] = Head(axi.w)[2],
                          !.aw = Tail(@), !.w = Tail(@), !.b = @ + 1]
    /\ UNCHANGED <<core, cpu, host>>

-----------------------------------------------------------------------------
(* The host *)

\* Of a transfer its master was in the middle of when it was reset.
Open == core.ar # None \/ core.aw # None \/ core.rs = "W"

\* Nothing more moves in reset: a load takes milliseconds.
Quiet == /\ core.rs = "IDLE"
         /\ axi.ar = <<>> \/ Len(axi.r) = Room
         /\ axi.aw = <<>> \/ axi.w = <<>> \/ axi.b = Room
         /\ core.ar = None \/ Len(axi.ar) = Room
         /\ core.aw = None \/ Len(axi.aw) = Room
         /\ core.w = None \/ Len(axi.w) = Room
         /\ ~core.rready \/ axi.r = <<>>
         /\ ~core.bready \/ axi.b = 0

Take == /\ ~host.reset /\ host.n < Runs
        /\ host' = [host EXCEPT !.reset = TRUE, !.held = FALSE, !.cut = @ \/ Open]
        /\ UNCHANGED <<core, cpu, axi>>

\* load_hbm and the release: every beat of the new image is in HBM.
Load == /\ host.held /\ host.reset /\ host.n < Runs
        /\ Quiet
        /\ host' = [host EXCEPT !.reset = FALSE, !.n = @ + 1, !.memory = Image(host.n + 1)]
        /\ axi' = [axi EXCEPT !.hbm = Image(host.n + 1)]
        /\ cpu' = [cpu EXCEPT !.accesses = 0, !.fetches = 0]
        /\ UNCHANGED core

Next == Edge \/ ServeRead \/ ServeWrite \/ Take \/ Load

Spec == Init /\ [][Next]_vars

-----------------------------------------------------------------------------
(* The constants: what is asked for is in memory, and None is not the value *)
(* of any register that may be empty.                                       *)
Address == [line : Line, beat : Half, half : Half]
Datum == {None} \cup ({"w"} \X (0..Accesses)) \cup ((0..Runs) \X (Line \X Half) \X Half)
Request == [we : BOOLEAN, addr : Where, data : Datum]

EeMemoryAssumption ==
    /\ Line \subseteq Nat /\ Where \subseteq Address
    /\ Indices \in Nat \ {0} /\ Room \in Nat \ {0}
    /\ Accesses \in Nat /\ Fetches \in Nat /\ Runs \in Nat
    /\ None \notin Line /\ None \notin Where /\ None \notin Request
    /\ None \notin Half \X Datum
    /\ None \notin {<<v>> : v \in Datum} /\ None \notin {<<l>> : l \in Line}
    /\ None \notin {<<b>> : b \in Line \X Half}

-----------------------------------------------------------------------------
\* The core is answered, of a load and of a fetch, in the order it asked, with
\* what its image and its stores have put there (ee_top.vhd, ee_ram.vhd).
Current ==
    /\ core.dready # None /\ ~cpu.d.we =>
         core.dready[1] = host.memory[Beat(cpu.d.addr)][cpu.d.addr.half]
    /\ core.iready # None =>
         LET a == Head(cpu.wait) IN core.iready[1] = host.memory[Beat(a)][a.half]

\* The same, as long as no reset has cut an address or a beat off its ready.
MemoryCurrent == ~host.cut => Current

\* What the cache holds is what HBM holds, but for the quadword being written.
Coherent ==
    ~host.cut => \A i \in DOMAIN core.lines, b \in Half, h \in Half :
      core.lines[i].tag # None /\ ~(core.rs = "R" /\ index(core.r.addr.line) = i) =>
        \/ core.lines[i].data[b][h] = axi.hbm[<<core.lines[i].tag, b>>][h]
        \/ core.rs \in {"AW", "W", "B"} /\ core.r.addr = [line |-> core.lines[i].tag, beat |-> b, half |-> h]

\* The core's requests are all answered, in every run to its end.
Done == cpu.d = None /\ cpu.i = None /\ cpu.wait = <<>>
=============================================================================
