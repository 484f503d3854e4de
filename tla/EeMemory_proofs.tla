-------------------------- MODULE EeMemory_proofs --------------------------
(***************************************************************************)
(* Proofs about EeMemory, for every memory, size of the cache and room of  *)
(* the AXI queues, any requests of the core and any number of resets.      *)
(***************************************************************************)
EXTENDS EeMemory, Integers, SequenceTheorems, TLAPS

-----------------------------------------------------------------------------
(* Types. *)

Quads == [Half -> Datum]
Memory == [Line \X Half -> Quads]
Entry == [tag : Line \cup {None}, data : [Half -> Quads]]
Lines == [0 .. Indices - 1 -> Entry]
Answer == {<<v>> : v \in Datum}
ReadBeat == [data : Quads, last : BOOLEAN]

States == {"IDLE", "DATA", "INST"}
RamStates == {"IDLE", "LOOKUP", "AR", "R", "AW", "W", "B"}
MaybeRequest == Request \cup {None}
MaybeAnswer == Answer \cup {None}
ArWire == {<<l>> : l \in Line} \cup {None}
AwWire == {<<b>> : b \in Line \X Half} \cup {None}
WWire == (Half \X Datum) \cup {None}

Core == [st : States, req : MaybeRequest, fq : Seq(Where), dready : MaybeAnswer, iready : MaybeAnswer,
         rs : RamStates, r : MaybeRequest, q : Entry, beat : Half, ack : BOOLEAN, rdata : Datum,
         lines : Lines, ar : ArWire, aw : AwWire, w : WWire, rready : BOOLEAN, bready : BOOLEAN]

CoreType == core \in Core
CpuType == cpu \in [d : Request \cup {None}, i : Where \cup {None}, wait : Seq(Where),
                    accesses : 0..Accesses, fetches : Nat]
AxiType == axi \in [ar : Seq(Line), beat : Half, r : Seq(ReadBeat), aw : Seq(Line \X Half),
                    w : Seq(Half \X Datum), b : Nat, hbm : Memory]
HostType == host \in [reset : BOOLEAN, n : 0..Runs, memory : Memory, held : BOOLEAN, cut : BOOLEAN]
Types == CoreType /\ CpuType /\ AxiType /\ HostType

-----------------------------------------------------------------------------
(* The invariant: what each part says of the others while the EE runs. *)

\* The fetches under way, oldest first: the one just answered, the queue, the pulse.
Pulse == IF cpu.i = None THEN <<>> ELSE <<cpu.i>>
InOrder ==
    IF core.iready = None THEN cpu.wait = core.fq \o Pulse
    ELSE cpu.wait # <<>> /\ Tail(cpu.wait) = core.fq \o Pulse

\* The request the arbiter has given to the cache.
Asked == IF core.st = "DATA" THEN cpu.d ELSE Asks(FALSE, Head(core.fq), None)

Granted ==
    /\ core.st = "IDLE" => core.req = None /\ core.rs = "IDLE" /\ core.ack = FALSE
    /\ core.st # "IDLE" => core.dready = None /\ core.iready = None
    /\ core.st = "DATA" => cpu.d # None
    /\ core.st = "INST" => core.fq # <<>>
    /\ core.dready # None => cpu.d # None
    /\ core.req # None => core.rs = "IDLE" /\ core.ack = FALSE /\ core.req = Asked
    /\ core.req = None /\ core.st # "IDLE" => /\ core.rs # "IDLE" \/ core.ack = TRUE
                                              /\ core.r = Asked
    /\ core.ack = TRUE => core.rs = "IDLE"

\* A store from its lookup to its answer; where it goes, and what is to be there.
Writing == core.rs \in {"AW", "W", "B"}
Written == Writing \/ (core.rs = "IDLE" /\ core.ack = TRUE /\ core.r.we = TRUE)
Ahead(b, h) == IF Written /\ Beat(core.r.addr) = b /\ core.r.addr.half = h THEN core.r.data
               ELSE host.memory[b][h]

\* HBM has the store once its beat is taken.
Unwritten == Writing /\ ~(core.rs = "B" /\ axi.aw = <<>>)
HbmAgrees ==
    \A b \in Line \X Half, h \in Half :
      axi.hbm[b][h] = IF Unwritten THEN host.memory[b][h] ELSE Ahead(b, h)

Filling(i) == core.rs = "R" /\ index(core.r.addr.line) = i
CacheAgrees ==
    \A i \in 0 .. Indices - 1 :
      core.lines[i].tag # None =>
        /\ index(core.lines[i].tag) = i
        /\ ~Filling(i) => \A b \in Half, h \in Half :
                            core.lines[i].data[b][h] = Ahead(<<core.lines[i].tag, b>>, h)

\* The answer of a load or a fetch, in the cache and at the core.
Right == core.ack = TRUE /\ core.r.we = FALSE =>
            core.rdata = host.memory[Beat(core.r.addr)][core.r.addr.half]

Looked ==
    /\ core.rs = "LOOKUP" => core.q = core.lines[index(core.r.addr.line)]
    /\ Writing => core.r.we = TRUE
    /\ core.rs \in {"AR", "R"} => core.r.we = FALSE
    /\ core.rs = "AR" => core.beat = 0

\* A burst of two beats, from its address to its last beat.
BeatOf(k) == [data |-> axi.hbm[<<core.r.addr.line, k>>], last |-> k = 1]
Burst(ar, at, taken, r) == axi.ar = ar /\ axi.beat = at /\ core.beat = taken /\ axi.r = r
Reading ==
    /\ core.rs # "R" => axi.ar = <<>> /\ axi.beat = 0 /\ axi.r = <<>>
    /\ core.rs = "R" =>
         /\ core.rready = TRUE
         /\ \/ Burst(<<core.r.addr.line>>, 0, 0, <<>>)
            \/ Burst(<<core.r.addr.line>>, 1, 0, <<BeatOf(0)>>)
            \/ Burst(<<core.r.addr.line>>, 1, 1, <<>>)
            \/ Burst(<<>>, 0, 0, <<BeatOf(0), BeatOf(1)>>)
            \/ Burst(<<>>, 0, 1, <<BeatOf(1)>>)
         /\ core.beat = 1 =>
              /\ core.lines[index(core.r.addr.line)].data[0] = axi.hbm[<<core.r.addr.line, 0>>]
              /\ core.r.addr.beat = 0 =>
                   core.rdata = axi.hbm[<<core.r.addr.line, 0>>][core.r.addr.half]

\* A store: address, beat, answer, one after the other.
Posted(aw, w, b) == axi.aw = aw /\ axi.w = w /\ axi.b = b
Storing ==
    /\ core.rs \notin {"W", "B"} => Posted(<<>>, <<>>, 0)
    /\ core.rs = "W" => Posted(<<Beat(core.r.addr)>>, <<>>, 0)
    /\ core.rs = "B" =>
         /\ core.bready = TRUE
         /\ \/ Posted(<<Beat(core.r.addr)>>, <<<<core.r.addr.half, core.r.data>>>>, 0)
            \/ Posted(<<>>, <<>>, 1)

\* A valid is up only in its own state, with the request's address and data.
Valids ==
    /\ core.ar = None \/ (core.rs = "AR" /\ core.ar = <<core.r.addr.line>>)
    /\ core.aw = None \/ (core.rs = "AW" /\ core.aw = <<Beat(core.r.addr)>>)
    /\ core.w = None \/ (core.rs = "W" /\ core.w = <<core.r.addr.half, core.r.data>>)

Underway == /\ InOrder /\ Granted /\ HbmAgrees /\ CacheAgrees /\ Right
         /\ Looked /\ Reading /\ Storing /\ Valids /\ Current

\* In reset what is under way is still taken; the host loads after it.
Drains ==
    /\ core.ar = None /\ core.aw = None /\ core.w = None
    /\ axi.ar # <<>> \/ axi.r # <<>> => core.rready = TRUE
    /\ axi.aw # <<>> \/ axi.w # <<>> \/ axi.b > 0 => core.bready = TRUE
    /\ Len(axi.aw) = Len(axi.w)
    /\ axi.ar = <<>> => axi.beat = 0

Blank ==
    /\ core.st = "IDLE" /\ core.req = None /\ core.fq = <<>> /\ core.dready = None /\ core.iready = None
    /\ core.rs = "IDLE" /\ core.ack = FALSE /\ core.lines = Cold
    /\ cpu.d = None /\ cpu.i = None /\ cpu.wait = <<>>

Kept ==
    /\ Types
    /\ host.reset = FALSE \/ host.held = FALSE => Underway
    /\ host.reset = TRUE => Drains
    /\ host.reset = TRUE /\ host.held = TRUE => Blank

\* All of it until a reset has cut an address or a beat off its ready.
HostShape == host = [reset |-> host.reset, n |-> host.n, memory |-> host.memory, held |-> host.held,
                     cut |-> host.cut]
IInv == HostShape /\ host.cut \in BOOLEAN /\ (host.cut = FALSE => Kept)

-----------------------------------------------------------------------------
(* Facts about the types, and about the order of the fetches. *)

\* The wires of an edge: None where nothing is, and not what it is told from.
LEMMA NoneApart ==
  ASSUME EeMemoryAssumption
  PROVE  /\ \A v \in Datum : <<v>> # None
         /\ \A l \in Line : <<l>> # None
         /\ \A b \in Line \X Half : <<b>> # None
         /\ \A p \in Half \X Datum : p # None
         /\ \A a \in Where : a # None
         /\ \A a \in Where, w \in BOOLEAN, v \in Datum :
              Asks(w, a, v) \in Request /\ Asks(w, a, v) # None
         /\ None \in Datum
<1>1. \A a \in Where, w \in BOOLEAN, v \in Datum : Asks(w, a, v) \in Request
  BY DEF Asks, Request
<1>2. None \in Datum
  BY DEF Datum
<1> QED BY <1>1, <1>2 DEF EeMemoryAssumption

\* An address is a line of memory, a beat of it and a quadword of that.
LEMMA Located ==
  ASSUME EeMemoryAssumption, NEW a \in Where
  PROVE  /\ a.line \in Line /\ a.beat \in Half /\ a.half \in Half
         /\ Beat(a) \in Line \X Half /\ Beat(a) = <<a.line, a.beat>>
         /\ index(a.line) \in 0 .. Indices - 1
<1>1. a \in Address
  BY DEF EeMemoryAssumption
<1>2. a.line \in Line /\ a.beat \in Half /\ a.half \in Half /\ a.line \in Nat
  BY <1>1 DEF Address, EeMemoryAssumption
<1>3. \A x \in Nat, n \in Nat \ {0} : x % n \in 0 .. n - 1
  OBVIOUS
<1>4. index(a.line) \in 0 .. Indices - 1
  BY <1>2, <1>3 DEF index, EeMemoryAssumption
<1> QED BY <1>2, <1>4 DEF Beat

LEMMA PulseType ==
  ASSUME CpuType PROVE Pulse \in Seq(Where)
  BY DEF CpuType, Pulse

\* What is appended, appended twice, leaves the front of a queue where it is.
LEMMA FrontStays ==
  ASSUME NEW S, NEW q \in Seq(S), NEW p \in Seq(S), q # <<>>
  PROVE  /\ q \o p # <<>> /\ Head(q \o p) = Head(q)
         /\ Tail(q \o p) = Tail(q) \o p
<1>1. q \o p \in Seq(S) /\ Len(q \o p) = Len(q) + Len(p) /\ Len(q) > 0 /\ Len(p) \in Nat
  BY ConcatProperties, EmptySeq, LenProperties
<1>2. q \o p # <<>>
  BY <1>1, EmptySeq
<1>3. Tail(q) \in Seq(S) /\ Len(Tail(q)) = Len(q) - 1
  BY HeadTailProperties
<1>4. Tail(q \o p) \in Seq(S) /\ Len(Tail(q \o p)) = Len(q) + Len(p) - 1
  BY <1>1, <1>2, HeadTailProperties
<1>5. Tail(q) \o p \in Seq(S) /\ Len(Tail(q) \o p) = Len(q) + Len(p) - 1
  BY <1>1, <1>3, ConcatProperties
<1>6. ASSUME NEW i \in 1 .. Len(Tail(q \o p))
      PROVE  Tail(q \o p)[i] = (Tail(q) \o p)[i]
  <2>1. Tail(q \o p)[i] = (q \o p)[i + 1]
    BY <1>1, <1>2, <1>4, HeadTailProperties
  <2>2. CASE i <= Len(q) - 1
    <3>1. (q \o p)[i + 1] = q[i + 1] /\ (Tail(q) \o p)[i] = Tail(q)[i] /\ Tail(q)[i] = q[i + 1]
      BY <1>1, <1>3, <1>4, <2>2, ConcatProperties, HeadTailProperties
    <3> QED BY <2>1, <3>1
  <2>3. CASE i > Len(q) - 1
    <3>1. (q \o p)[i + 1] = p[i + 1 - Len(q)] /\ (Tail(q) \o p)[i] = p[i - (Len(q) - 1)]
      BY <1>1, <1>3, <1>4, <2>3, ConcatProperties
    <3> QED BY <1>1, <2>1, <3>1
  <2> QED BY <1>1, <1>4, <2>2, <2>3
<1>7. Tail(q \o p) = Tail(q) \o p
  BY <1>4, <1>5, <1>6, SeqEqual
<1>8. Head(q \o p) = Head(q)
  BY <1>1, ConcatProperties
<1> QED BY <1>2, <1>7, <1>8

LEMMA Appending ==
  ASSUME NEW S, NEW q \in Seq(S), NEW x \in S
  PROVE  Append(q, x) = q \o <<x>> /\ q \o <<>> = q
  BY AppendIsConcat, ConcatEmptySeq

-----------------------------------------------------------------------------
(* An edge of the arbiter, of the cache and its master, register by register. *)

\* The registers of the cache.
Untouched(c) ==
    /\ c.rs = core.rs /\ c.r = core.r /\ c.q = core.q /\ c.beat = core.beat
    /\ c.ack = core.ack /\ c.rdata = core.rdata /\ c.lines = core.lines
    /\ c.ar = core.ar /\ c.aw = core.aw /\ c.w = core.w
    /\ c.rready = core.rready /\ c.bready = core.bready

\* The registers of the arbiter.
Turn(c, st, req, d, i, fq) ==
    c.st = st /\ c.req = req /\ c.dready = d /\ c.iready = i /\ c.fq = fq

Turned(c) ==
    \/ /\ core.st = "IDLE" /\ cpu.d # None /\ core.dready = None
       /\ Turn(c, "DATA", cpu.d, None, None, core.fq \o Pulse)
    \/ /\ core.st = "IDLE" /\ core.fq # <<>>
       /\ Turn(c, "INST", Asks(FALSE, Head(core.fq), None), None, None, core.fq \o Pulse)
    \/ /\ core.st = "DATA" /\ core.ack = TRUE
       /\ Turn(c, "IDLE", None, <<core.rdata>>, None, core.fq \o Pulse)
    \/ /\ core.st = "INST" /\ core.ack = TRUE
       /\ Turn(c, "IDLE", None, None, <<core.rdata>>, Tail(core.fq) \o Pulse)
    \/ /\ core.st = "IDLE" \/ core.ack = FALSE
       /\ Turn(c, core.st, None, None, None, core.fq \o Pulse)

LEMMA Arbitrated ==
  ASSUME EeMemoryAssumption, CoreType, CpuType, Granted
  PROVE  /\ Queued(Arbiter(core)) \in Core
         /\ Untouched(Queued(Arbiter(core)))
         /\ Turned(Queued(Arbiter(core)))
<1> DEFINE a == Arbiter(core)
<1>0. /\ core \in Core /\ core.fq \in Seq(Where) /\ core.rdata \in Datum /\ cpu.d \in Request \cup {None}
      /\ core.ack \in BOOLEAN /\ core.st \in {"IDLE", "DATA", "INST"}
      /\ cpu.i \in Where \cup {None} /\ "IDLE" \in States /\ "DATA" \in States /\ "INST" \in States
      /\ cpu.d \in MaybeRequest /\ None \in MaybeRequest /\ None \in MaybeAnswer
  BY DEF CoreType, CpuType, Core, States, MaybeRequest, MaybeAnswer
<1>1. /\ a \in Core /\ Untouched(a)
      /\ \/ core.st = "IDLE" /\ cpu.d # None /\ core.dready = None /\ Turn(a, "DATA", cpu.d, None, None, core.fq)
         \/ /\ core.st = "IDLE" /\ core.fq # <<>>
            /\ Turn(a, "INST", Asks(FALSE, Head(core.fq), None), None, None, core.fq)
         \/ /\ core.st = "DATA" /\ core.ack = TRUE
            /\ Turn(a, "IDLE", None, <<core.rdata>>, None, core.fq)
         \/ /\ core.st = "INST" /\ core.ack = TRUE
            /\ Turn(a, "IDLE", None, None, <<core.rdata>>, Tail(core.fq))
         \/ /\ core.st = "IDLE" \/ core.ack = FALSE
            /\ Turn(a, core.st, None, None, None, core.fq)
  <2>1. CASE core.st = "IDLE" /\ cpu.d # None /\ Free(core)
    <3>1. a = [core EXCEPT !.st = "DATA", !.req = cpu.d, !.dready = None, !.iready = None]
      BY <2>1 DEF Arbiter
    <3>2a. a \in Core
      BY <1>0, <3>1 DEF Core
    <3>2b. Untouched(a)
      BY <3>1, <1>0 DEF Core, Untouched
    <3>2. a \in Core /\ Untouched(a)
      BY <3>2a, <3>2b
    <3>3. Turn(a, "DATA", cpu.d, None, None, core.fq)
      BY <1>0, <3>1 DEF Core, Turn
    <3> QED BY <2>1, <3>2, <3>3 DEF Free
  <2>2. CASE core.st = "IDLE" /\ ~(cpu.d # None /\ Free(core)) /\ core.fq # <<>>
    <3>1. a = [core EXCEPT !.st = "INST", !.req = Asks(FALSE, Head(core.fq), None),
                           !.dready = None, !.iready = None]
      BY <2>2 DEF Arbiter
    <3>2. Asks(FALSE, Head(core.fq), None) \in MaybeRequest
      BY <1>0, <2>2, NoneApart, HeadTailProperties DEF MaybeRequest
    <3>3a. a \in Core
      BY <1>0, <3>1, <3>2 DEF Core
    <3>3b. Untouched(a)
      BY <3>1, <1>0 DEF Core, Untouched
    <3>3. a \in Core /\ Untouched(a)
      BY <3>3a, <3>3b
    <3>4. Turn(a, "INST", Asks(FALSE, Head(core.fq), None), None, None, core.fq)
      BY <1>0, <3>1 DEF Core, Turn
    <3> QED BY <2>2, <3>3, <3>4
  <2>3. CASE core.st = "DATA" /\ core.ack
    <3>1. PICK v \in Answer : v = <<core.rdata>>
      BY <1>0 DEF Answer
    <3>2. a = [core EXCEPT !.st = "IDLE", !.req = None, !.dready = v, !.iready = None]
      BY <2>3, <3>1 DEF Arbiter
    <3>0. v \in MaybeAnswer
      BY <3>1 DEF MaybeAnswer
    <3>3. a \in Core
      BY <1>0, <3>0, <3>2 DEF Core
    <3>4. Untouched(a)
      BY <1>0, <3>2 DEF Core, Untouched
    <3>5. Turn(a, "IDLE", None, v, None, core.fq)
      BY <1>0, <3>2 DEF Core, Turn
    <3> QED BY <1>0, <2>3, <3>1, <3>3, <3>4, <3>5
  <2>4. CASE core.st = "INST" /\ core.ack
    <3>1. PICK v \in Answer : v = <<core.rdata>>
      BY <1>0 DEF Answer
    <3>2. a = [core EXCEPT !.st = "IDLE", !.req = None, !.dready = None, !.iready = v, !.fq = Tail(@)]
      BY <2>4, <3>1 DEF Arbiter
    <3>0. v \in MaybeAnswer
      BY <3>1 DEF MaybeAnswer
    <3>3. Tail(core.fq) \in Seq(Where)
      BY <1>0, <2>4, HeadTailProperties DEF Granted
    <3>4. a \in Core
      BY <1>0, <3>0, <3>2, <3>3 DEF Core
    <3>5. Untouched(a)
      BY <1>0, <3>2 DEF Core, Untouched
    <3>6. Turn(a, "IDLE", None, None, v, Tail(core.fq))
      BY <1>0, <3>2 DEF Core, Turn
    <3> QED BY <1>0, <2>4, <3>1, <3>4, <3>5, <3>6
  <2>5. CASE ~(core.st = "IDLE" /\ cpu.d # None /\ Free(core)) /\ ~(core.st = "IDLE" /\ core.fq # <<>>)
             /\ ~(core.st = "DATA" /\ core.ack) /\ ~(core.st = "INST" /\ core.ack)
    <3>1. a = [core EXCEPT !.req = None, !.dready = None, !.iready = None]
      BY <2>5 DEF Arbiter
    <3>2. core.st = "IDLE" \/ core.ack = FALSE
      BY <1>0, <2>5
    <3>3. a \in Core /\ Untouched(a)
      BY <1>0, <3>1 DEF Core, Untouched
    <3>4. Turn(a, core.st, None, None, None, core.fq)
      BY <1>0, <3>1 DEF Core, Turn
    <3> QED BY <3>2, <3>3, <3>4
  <2> QED BY <2>1, <2>2, <2>3, <2>4, <2>5
<1>2. CASE cpu.i = None
  <2>1. Queued(a) = a /\ \A q \in Seq(Where) : q \o Pulse = q
    BY <1>2, Appending DEF Queued, Pulse
  <2>2. a.fq \in Seq(Where) /\ a.fq \o Pulse = a.fq
    BY <1>1, <2>1 DEF Core
  <2> QED BY <1>1, <2>1, <2>2 DEF Turned, Turn
<1>3. CASE cpu.i # None
  <2>1. Queued(a) = [a EXCEPT !.fq = Append(@, cpu.i)]
    BY <1>3 DEF Queued
  <2>2. a.fq \in Seq(Where) /\ cpu.i \in Where /\ Pulse = <<cpu.i>>
    BY <1>0, <1>1, <1>3 DEF Core, Pulse
  <2>3. Append(a.fq, cpu.i) = a.fq \o Pulse /\ Append(a.fq, cpu.i) \in Seq(Where)
    BY <2>2, Appending, AppendProperties
  <2>4. Queued(a) \in Core /\ Queued(a).fq = a.fq \o Pulse
    BY <1>1, <2>1, <2>3 DEF Core
  <2>5. Untouched(Queued(a))
    BY <1>1, <2>1 DEF Core, Untouched
  <2>6. Turn(Queued(a), a.st, a.req, a.dready, a.iready, a.fq \o Pulse)
    BY <1>1, <2>1, <2>4 DEF Core, Turn
  <2> QED BY <1>1, <2>4, <2>5, <2>6 DEF Turned, Turn
<1> QED BY <1>2, <1>3

\* What the cache leaves of its registers: all but those it is given.
PortKept(c, d) ==
    d.st = c.st /\ d.req = c.req /\ d.dready = c.dready /\ d.iready = c.iready /\ d.fq = c.fq
RequestKept(c, d) == d.r = c.r /\ d.q = c.q
DataKept(c, d) == d.rdata = c.rdata /\ d.lines = c.lines /\ d.beat = c.beat
WiresKept(c, d) ==
    d.ar = c.ar /\ d.aw = c.aw /\ d.w = c.w /\ d.rready = c.rready /\ d.bready = c.bready

\* No request, or one taken with the entry it may hit.
Waits(c, d) ==
    /\ c.rs = "IDLE" /\ core.req = None
    /\ d.rs = "IDLE" /\ RequestKept(c, d) /\ DataKept(c, d) /\ WiresKept(c, d) /\ d.ack = FALSE
Takes(c, d) ==
    /\ c.rs = "IDLE" /\ core.req # None
    /\ d.rs = "LOOKUP" /\ d.r = core.req /\ d.q = c.lines[index(core.req.addr.line)]
    /\ DataKept(c, d) /\ WiresKept(c, d) /\ d.ack = FALSE

\* The lines with a beat of the request's entry replaced.
LinesWith(c, beat, data) == [c.lines EXCEPT ![index(c.r.addr.line)].data[beat] = data]
Tagged(lines, i, tag) == [lines EXCEPT ![i].tag = tag]
Merged(c) == [c.q.data[c.r.addr.beat] EXCEPT ![c.r.addr.half] = c.r.data]

LooksUp(c, d) ==
    /\ c.rs = "LOOKUP" /\ RequestKept(c, d) /\ WiresKept(c, d)
    /\ \/ /\ c.r.we = TRUE /\ d.rs = "AW" /\ d.ack = FALSE /\ d.rdata = c.rdata /\ d.beat = c.beat
          /\ \/ Hit(c) /\ d.lines = LinesWith(c, c.r.addr.beat, Merged(c))
             \/ ~Hit(c) /\ d.lines = c.lines
       \/ /\ c.r.we = FALSE /\ Hit(c) /\ d.rs = "IDLE" /\ d.ack = TRUE
          /\ d.rdata = c.q.data[c.r.addr.beat][c.r.addr.half] /\ d.lines = c.lines /\ d.beat = c.beat
       \/ /\ c.r.we = FALSE /\ ~Hit(c) /\ d.rs = "AR" /\ d.ack = FALSE
          /\ d.beat = 0 /\ d.rdata = c.rdata /\ d.lines = c.lines

\* The address of a burst: raised, held, taken.
Wires(d, ar, aw, w, rready, bready) ==
    d.ar = ar /\ d.aw = aw /\ d.w = w /\ d.rready = rready /\ d.bready = bready
Bursts(c, d) ==
    /\ c.rs = "AR" /\ RequestKept(c, d) /\ DataKept(c, d) /\ d.ack = FALSE
    /\ \/ c.ar = None /\ d.rs = "AR" /\ Wires(d, <<c.r.addr.line>>, c.aw, c.w, c.rready, c.bready)
       \/ /\ c.ar # None /\ Len(axi.ar) < Room
          /\ d.rs = "R" /\ Wires(d, None, c.aw, c.w, TRUE, c.bready)
       \/ ~(Len(axi.ar) < Room) /\ d.rs = "AR" /\ WiresKept(c, d)

\* A beat of it: none yet, the first, the last.
Got(c) == IF c.beat = c.r.addr.beat THEN Head(axi.r).data[c.r.addr.half] ELSE c.rdata
Fills(c, d) ==
    /\ c.rs = "R" /\ RequestKept(c, d)
    /\ \/ axi.r = <<>> /\ d.rs = "R" /\ d.ack = FALSE /\ DataKept(c, d) /\ WiresKept(c, d)
       \/ /\ axi.r # <<>> /\ ~Head(axi.r).last
          /\ d.rs = "R" /\ d.ack = FALSE /\ d.beat = 1 /\ d.rdata = Got(c)
          /\ d.lines = LinesWith(c, c.beat, Head(axi.r).data) /\ WiresKept(c, d)
       \/ /\ axi.r # <<>> /\ Head(axi.r).last
          /\ d.rs = "IDLE" /\ d.ack = TRUE /\ d.beat = c.beat /\ d.rdata = Got(c)
          /\ d.lines = Tagged(LinesWith(c, c.beat, Head(axi.r).data), index(c.r.addr.line), c.r.addr.line)
          /\ Wires(d, c.ar, c.aw, c.w, FALSE, c.bready)

\* A store: its address, its beat, its answer.
Stores(c, d) ==
    /\ RequestKept(c, d) /\ DataKept(c, d)
    /\ \/ /\ c.rs = "AW" /\ c.aw = None /\ d.rs = "AW" /\ d.ack = FALSE
          /\ Wires(d, c.ar, <<Beat(c.r.addr)>>, c.w, c.rready, c.bready)
       \/ /\ c.rs = "AW" /\ c.aw # None /\ Len(axi.aw) < Room /\ d.rs = "W" /\ d.ack = FALSE
          /\ Wires(d, c.ar, None, c.w, c.rready, c.bready)
       \/ /\ c.rs = "AW" /\ ~(Len(axi.aw) < Room) /\ d.rs = "AW" /\ d.ack = FALSE /\ WiresKept(c, d)
       \/ /\ c.rs = "W" /\ c.w = None /\ d.rs = "W" /\ d.ack = FALSE
          /\ Wires(d, c.ar, c.aw, <<c.r.addr.half, c.r.data>>, c.rready, c.bready)
       \/ /\ c.rs = "W" /\ c.w # None /\ Len(axi.w) < Room /\ d.rs = "B" /\ d.ack = FALSE
          /\ Wires(d, c.ar, c.aw, None, c.rready, TRUE)
       \/ /\ c.rs = "W" /\ ~(Len(axi.w) < Room) /\ d.rs = "W" /\ d.ack = FALSE /\ WiresKept(c, d)
       \/ /\ c.rs = "B" /\ axi.b > 0 /\ d.rs = "IDLE" /\ d.ack = TRUE
          /\ Wires(d, c.ar, c.aw, c.w, c.rready, FALSE)
       \/ c.rs = "B" /\ ~(axi.b > 0) /\ d.rs = "B" /\ d.ack = FALSE /\ WiresKept(c, d)

CacheStep(c, d) ==
    Waits(c, d) \/ Takes(c, d) \/ LooksUp(c, d) \/ Bursts(c, d) \/ Fills(c, d) \/ Stores(c, d)

\* A beat of one entry is replaced, and nothing else of the lines.
LEMMA LinesWithIs ==
  ASSUME EeMemoryAssumption, NEW c \in Core, c.r \in Request, NEW beat \in Half, NEW data \in Quads,
         NEW k, k = index(c.r.addr.line), NEW L, L = LinesWith(c, beat, data)
  PROVE  /\ L \in Lines /\ k \in 0 .. Indices - 1
         /\ \A i \in 0 .. Indices - 1 : i # k => L[i] = c.lines[i]
         /\ L[k].tag = c.lines[k].tag /\ L[k].data[beat] = data
         /\ \A b \in Half : b # beat => L[k].data[b] = c.lines[k].data[b]
         /\ Tagged(L, k, c.r.addr.line) \in Lines
         /\ \A i \in 0 .. Indices - 1 : i # k => Tagged(L, k, c.r.addr.line)[i] = c.lines[i]
         /\ Tagged(L, k, c.r.addr.line)[k].tag = c.r.addr.line
         /\ Tagged(L, k, c.r.addr.line)[k].data = L[k].data
<1>1. c.r.addr \in Where /\ c.lines \in Lines
  BY DEF Core, Request
<1>2. k \in 0 .. Indices - 1 /\ c.r.addr.line \in Line
  BY <1>1, Located
<1>3. c.lines[k] \in Entry
  BY <1>1, <1>2 DEF Lines
<1> DEFINE e == [c.lines[k] EXCEPT !.data[beat] = data]
<1>4. /\ e \in Entry /\ e.tag = c.lines[k].tag /\ e.data[beat] = data
      /\ \A b \in Half : b # beat => e.data[b] = c.lines[k].data[b]
  <2>1. [c.lines[k].data EXCEPT ![beat] = data] \in [Half -> Quads]
    BY <1>3 DEF Entry
  <2> QED BY <1>3, <2>1 DEF Entry
<1>5. L = [c.lines EXCEPT ![k] = e]
  BY <1>3 DEF LinesWith, Entry
<1> HIDE DEF e
<1>6. /\ L \in Lines /\ L[k] = e
      /\ \A i \in 0 .. Indices - 1 : i # k => L[i] = c.lines[i]
  BY <1>1, <1>2, <1>4, <1>5 DEF Lines
<1> DEFINE f == [e EXCEPT !.tag = c.r.addr.line]
<1>7. f \in Entry /\ f.tag = c.r.addr.line /\ f.data = e.data
  BY <1>2, <1>4 DEF Entry
<1>8. Tagged(L, k, c.r.addr.line) = [L EXCEPT ![k] = f]
  BY <1>6 DEF Tagged
<1> HIDE DEF f
<1>9. /\ [L EXCEPT ![k] = f] \in Lines /\ [L EXCEPT ![k] = f][k] = f
      /\ \A i \in 0 .. Indices - 1 : i # k => [L EXCEPT ![k] = f][i] = L[i]
  BY <1>2, <1>6, <1>7 DEF Lines
<1> QED BY <1>2, <1>4, <1>6, <1>7, <1>8, <1>9

LEMMA MergedIs ==
  ASSUME EeMemoryAssumption, NEW c \in Core, c.r \in Request
  PROVE  /\ Merged(c) \in Quads /\ Merged(c)[c.r.addr.half] = c.r.data
         /\ \A h \in Half : h # c.r.addr.half => Merged(c)[h] = c.q.data[c.r.addr.beat][h]
<1>1. c.r.addr \in Where /\ c.r.data \in Datum /\ c.q \in Entry
  BY DEF Core, Request
<1>2. c.q.data[c.r.addr.beat] \in [Half -> Datum] /\ c.r.addr.half \in Half
  BY <1>1, Located DEF Entry, Quads
<1> QED BY <1>1, <1>2 DEF Merged, Quads

LEMMA WithBeatIs ==
  ASSUME NEW n \in Core, NEW beat, NEW data
  PROVE  WithBeat(n, beat, data) = [n EXCEPT !.lines = LinesWith(n, beat, data)]
  BY DEF WithBeat, LinesWith, Core

\* An edge of the cache does one of these.
LEMMA Cached ==
  ASSUME EeMemoryAssumption, CoreType, AxiType, NEW c \in Core, c.rs # "IDLE" => c.r \in Request
  PROVE  Cache(c) \in Core /\ PortKept(c, Cache(c)) /\ CacheStep(c, Cache(c))
<1> DEFINE n == [c EXCEPT !.ack = FALSE]
<1>0. /\ core.req \in Request \cup {None} /\ axi.b \in Nat /\ Room \in Nat
      /\ axi.ar \in Seq(Line) /\ axi.aw \in Seq(Line \X Half) /\ axi.w \in Seq(Half \X Datum)
      /\ axi.r \in Seq(ReadBeat)
      /\ Len(axi.ar) \in Nat /\ Len(axi.aw) \in Nat /\ Len(axi.w) \in Nat
      /\ \A s \in {"IDLE", "LOOKUP", "AR", "R", "AW", "W", "B"} : s \in RamStates
      /\ None \in ArWire /\ None \in AwWire /\ None \in WWire /\ Request \subseteq MaybeRequest
  BY LenProperties
     DEF CoreType, Core, AxiType, EeMemoryAssumption, RamStates, ArWire, AwWire, WWire, MaybeRequest
<1>1. /\ n \in Core /\ n.rs = c.rs /\ n.ack = FALSE
      /\ PortKept(c, n) /\ RequestKept(c, n) /\ DataKept(c, n) /\ WiresKept(c, n)
  <2>1. n \in Core
    BY DEF Core
  <2>2. n.rs = c.rs /\ n.ack = FALSE
    BY DEF Core
  <2>3. PortKept(c, n) /\ RequestKept(c, n)
    BY DEF Core, PortKept, RequestKept
  <2>4. DataKept(c, n) /\ WiresKept(c, n)
    BY DEF Core, DataKept, WiresKept
  <2> QED BY <2>1, <2>2, <2>3, <2>4
<1>2. c.rs \in {"IDLE", "LOOKUP", "AR", "R", "AW", "W", "B"}
  BY DEF Core, RamStates
<1> HIDE DEF n
<1>3. CASE c.rs = "IDLE" /\ core.req # None
  <2>1. Cache(c) = [n EXCEPT !.rs = "LOOKUP", !.r = core.req,
                             !.q = c.lines[index(core.req.addr.line)]]
    BY <1>3 DEF Cache, n
  <2>2. core.req \in Request /\ core.req.addr \in Where
    BY <1>0, <1>3 DEF Request
  <2>3. c.lines[index(core.req.addr.line)] \in Entry
    BY <2>2, Located DEF Core, Lines
  <2>4. Cache(c) \in Core
    BY <1>0, <1>1, <2>1, <2>2, <2>3 DEF Core
  <2>5. PortKept(c, Cache(c)) /\ Takes(c, Cache(c))
    BY <1>1, <1>3, <2>1 DEF Core, PortKept, Takes, DataKept, WiresKept
  <2> QED BY <2>4, <2>5 DEF CacheStep
<1>4. CASE c.rs = "IDLE" /\ core.req = None
  <2>1. Cache(c) = Master(n)
    BY <1>4 DEF Cache, n
  <2>2. Master(n) = n
    BY <1>1, <1>4 DEF Master
  <2> QED BY <1>1, <1>4, <2>1, <2>2 DEF CacheStep, Waits
<1>5. CASE c.rs = "LOOKUP"
  <2>1. Cache(c) = Lookup(n)
    BY <1>5 DEF Cache, n
  <2>2. /\ c.r \in Request /\ c.r.addr \in Where /\ c.r.addr.beat \in Half /\ c.r.addr.half \in Half
        /\ c.r.we \in BOOLEAN /\ n.r = c.r /\ n.q = c.q /\ c.q \in Entry /\ n.lines = c.lines
    BY <1>1, <1>5, Located DEF Request, RequestKept, Core, DataKept
  <2>3. Hit(n) = Hit(c) /\ LinesWith(n, c.r.addr.beat, Merged(c)) = LinesWith(c, c.r.addr.beat, Merged(c))
    BY <2>2 DEF Hit, LinesWith
  <2>4. CASE c.r.we = TRUE /\ Hit(c)
    <3>1. Cache(c) = [WithBeat(n, c.r.addr.beat, Merged(c)) EXCEPT !.rs = "AW"]
      BY <2>1, <2>2, <2>3, <2>4 DEF Lookup, Merged
    <3>2. PICK l : l = LinesWith(c, c.r.addr.beat, Merged(c))
      OBVIOUS
    <3>3. l \in Lines
      BY <2>2, <3>2, LinesWithIs, MergedIs
    <3>4. Cache(c) = [[n EXCEPT !.lines = l] EXCEPT !.rs = "AW"]
      <4>1. WithBeat(n, c.r.addr.beat, Merged(c)) = [n EXCEPT !.lines = l]
        <5>1. WithBeat(n, c.r.addr.beat, Merged(c))
                = [n EXCEPT !.lines = LinesWith(n, c.r.addr.beat, Merged(c))]
          BY <1>1, WithBeatIs
        <5> QED BY <2>3, <3>2, <5>1
      <4> QED BY <3>1, <4>1
    <3>5. Cache(c) \in Core
      BY <1>0, <1>1, <3>3, <3>4 DEF Core
    <3>6. /\ PortKept(c, Cache(c)) /\ RequestKept(c, Cache(c)) /\ WiresKept(c, Cache(c))
          /\ Cache(c).rs = "AW" /\ Cache(c).ack = FALSE /\ Cache(c).rdata = c.rdata
          /\ Cache(c).beat = c.beat /\ Cache(c).lines = l
      BY <1>1, <3>4 DEF Core, PortKept, RequestKept, WiresKept, DataKept
    <3>7. LooksUp(c, Cache(c))
      BY <1>5, <2>4, <3>2, <3>6 DEF LooksUp
    <3> QED BY <3>5, <3>6, <3>7 DEF CacheStep
  <2>5. CASE c.r.we = TRUE /\ ~Hit(c)
    <3>1. Cache(c) = [n EXCEPT !.rs = "AW"]
      BY <2>1, <2>2, <2>3, <2>5 DEF Lookup
    <3>2. Cache(c) \in Core
      BY <1>0, <1>1, <3>1 DEF Core
    <3>3. PortKept(c, Cache(c)) /\ LooksUp(c, Cache(c))
      BY <1>1, <1>5, <2>5, <3>1 DEF Core, PortKept, RequestKept, WiresKept, DataKept, LooksUp
    <3> QED BY <3>2, <3>3 DEF CacheStep
  <2>6. CASE c.r.we = FALSE /\ Hit(c)
    <3>1. PICK v : v = c.q.data[c.r.addr.beat][c.r.addr.half]
      OBVIOUS
    <3>2. v \in Datum
      BY <2>2, <3>1 DEF Entry, Quads
    <3>3. Cache(c) = [n EXCEPT !.rs = "IDLE", !.ack = TRUE, !.rdata = v]
      BY <2>1, <2>2, <2>3, <2>6, <3>1 DEF Lookup, Answered
    <3>4. Cache(c) \in Core
      BY <1>0, <1>1, <3>2, <3>3 DEF Core
    <3>5. PortKept(c, Cache(c)) /\ LooksUp(c, Cache(c))
      BY <1>1, <1>5, <2>6, <3>1, <3>3 DEF Core, PortKept, RequestKept, WiresKept, DataKept, LooksUp
    <3> QED BY <3>4, <3>5 DEF CacheStep
  <2>7. CASE c.r.we = FALSE /\ ~Hit(c)
    <3>1. Cache(c) = [n EXCEPT !.rs = "AR", !.beat = 0]
      BY <2>1, <2>2, <2>3, <2>7 DEF Lookup
    <3>2. Cache(c) \in Core
      <4>1. 0 \in Half
        BY DEF Half
      <4> QED BY <1>0, <1>1, <3>1, <4>1 DEF Core
    <3>3. PortKept(c, Cache(c)) /\ LooksUp(c, Cache(c))
      BY <1>1, <1>5, <2>7, <3>1 DEF Core, PortKept, RequestKept, WiresKept, DataKept, LooksUp
    <3> QED BY <3>2, <3>3 DEF CacheStep
  <2> QED BY <2>2, <2>4, <2>5, <2>6, <2>7
<1> DEFINE m == Master(n)
<1>6. CASE c.rs = "AR"
  <2>1. Cache(c) = m
    BY <1>6 DEF Cache, n
  <2>2. c.r \in Request /\ c.r.addr.line \in Line /\ n.r = c.r /\ n.ar = c.ar
    BY <1>1, <1>6, Located DEF Request, RequestKept, WiresKept
  <2>3. CASE c.ar = None
    <3>1. m = [n EXCEPT !.ar = <<c.r.addr.line>>]
      BY <1>1, <1>6, <2>2, <2>3 DEF Master
    <3>2. PICK v : v = <<c.r.addr.line>>
      OBVIOUS
    <3>3. v \in ArWire
      BY <2>2, <3>2 DEF ArWire
    <3>4. m = [n EXCEPT !.ar = v]
      BY <3>1, <3>2
    <3>5. m \in Core
      BY <1>0, <1>1, <3>3, <3>4 DEF Core
    <3>6. PortKept(c, m) /\ Bursts(c, m)
      BY <1>1, <1>6, <2>3, <3>2, <3>4
         DEF Core, PortKept, RequestKept, WiresKept, DataKept, Bursts, Wires
    <3> QED BY <2>1, <3>5, <3>6 DEF CacheStep
  <2>4. CASE c.ar # None /\ Len(axi.ar) < Room
    <3>1. m = [n EXCEPT !.ar = None, !.rready = TRUE, !.rs = "R"]
      BY <1>1, <1>6, <2>2, <2>4 DEF Master
    <3>2. m \in Core
      BY <1>0, <1>1, <3>1 DEF Core
    <3>3. PortKept(c, m) /\ Bursts(c, m)
      BY <1>1, <1>6, <2>4, <3>1 DEF Core, PortKept, RequestKept, WiresKept, DataKept, Bursts, Wires
    <3> QED BY <2>1, <3>2, <3>3 DEF CacheStep
  <2>5. CASE c.ar # None /\ ~(Len(axi.ar) < Room)
    <3>1. m = n
      BY <1>1, <1>6, <2>2, <2>5 DEF Master
    <3>2. PortKept(c, m) /\ Bursts(c, m)
      BY <1>1, <1>6, <2>5, <3>1 DEF Bursts
    <3> QED BY <1>1, <2>1, <3>1, <3>2 DEF CacheStep
  <2> QED BY <2>3, <2>4, <2>5
<1>7. CASE c.rs = "R"
  <2>1. Cache(c) = m
    BY <1>7 DEF Cache, n
  <2>2. /\ c.r \in Request /\ c.r.addr \in Where /\ c.r.addr.half \in Half /\ n.r = c.r /\ c.beat \in Half
        /\ n.beat = c.beat /\ n.rdata = c.rdata /\ n.lines = c.lines /\ c.rdata \in Datum
    BY <1>1, <1>7, Located DEF Request, RequestKept, DataKept, Core
  <2>3. CASE axi.r = <<>>
    <3>1. m = n
      BY <1>1, <1>7, <2>3 DEF Master
    <3>2. PortKept(c, m) /\ Fills(c, m)
      BY <1>1, <1>7, <2>3, <3>1 DEF Fills
    <3> QED BY <1>1, <2>1, <3>1, <3>2 DEF CacheStep
  <2>4. CASE axi.r # <<>>
    <3> DEFINE got == Head(axi.r)
    <3>1. got \in ReadBeat
      BY <1>0, <2>4, HeadTailProperties
    <3>2. got.data \in Quads /\ got.last \in BOOLEAN /\ Got(c) \in Datum
      BY <2>2, <3>1 DEF ReadBeat, Quads, Got
    <3>3. PICK l : l = LinesWith(c, c.beat, got.data)
      OBVIOUS
    <3>4. l \in Lines /\ Tagged(l, index(c.r.addr.line), c.r.addr.line) \in Lines
      BY <2>2, <3>2, <3>3, LinesWithIs
    <3>5. WithBeat(n, n.beat, got.data) = [n EXCEPT !.lines = l]
      <4>1. LinesWith(n, n.beat, got.data) = l
        BY <2>2, <3>3 DEF LinesWith
      <4> QED BY <1>1, <4>1, WithBeatIs
    <3>6. PICK v : v = Got(c)
      OBVIOUS
    <3>7. v \in Datum /\ v = (IF n.beat = n.r.addr.beat THEN got.data[n.r.addr.half] ELSE n.rdata)
      BY <2>2, <3>2, <3>6 DEF Got
    <3> DEFINE g == [n EXCEPT !.lines = l]
    <3>8. g \in Core /\ g.lines = l /\ g.r = c.r
      <4>1. g \in Core
        BY <1>0, <1>1, <3>4 DEF Core
      <4>2. g.lines = l /\ g.r = c.r
        BY <1>1, <2>2 DEF Core
      <4> QED BY <4>1, <4>2
    <3>9. CASE got.last
      <4>1. m = [Answered(Filled(g, TRUE), v) EXCEPT !.rready = FALSE]
        BY <1>1, <1>7, <2>4, <3>2, <3>5, <3>7, <3>9 DEF Master
      <4>2. PICK l2 : l2 = Tagged(l, index(c.r.addr.line), c.r.addr.line)
        OBVIOUS
      <4>3. Filled(g, TRUE) = [n EXCEPT !.lines = l2]
        BY <1>1, <3>8, <4>2 DEF Filled, Tagged, Core
      <4>4. m = [n EXCEPT !.lines = l2, !.rs = "IDLE", !.ack = TRUE, !.rdata = v, !.rready = FALSE]
        BY <1>1, <4>1, <4>3 DEF Answered, Core
      <4>5. m \in Core
        BY <1>0, <1>1, <3>4, <3>7, <4>2, <4>4 DEF Core
      <4>6. /\ PortKept(c, m) /\ RequestKept(c, m) /\ Wires(m, c.ar, c.aw, c.w, FALSE, c.bready)
            /\ m.rs = "IDLE" /\ m.ack = TRUE /\ m.beat = c.beat /\ m.rdata = v /\ m.lines = l2
        BY <1>1, <4>4 DEF Core, PortKept, RequestKept, WiresKept, DataKept, Wires
      <4>7. Fills(c, m)
        BY <1>7, <2>4, <3>3, <3>6, <3>9, <4>2, <4>6 DEF Fills
      <4> QED BY <2>1, <4>5, <4>6, <4>7 DEF CacheStep
    <3>10. CASE ~got.last
      <4>1. m = [Filled(g, FALSE) EXCEPT !.rdata = v, !.beat = 1]
        BY <1>1, <1>7, <2>4, <3>2, <3>5, <3>7, <3>10 DEF Master
      <4>2. m = [n EXCEPT !.lines = l, !.rdata = v, !.beat = 1]
        BY <1>1, <4>1 DEF Filled, Core
      <4>3. m \in Core
        <5>1. 1 \in Half
          BY DEF Half
        <5> QED BY <1>0, <1>1, <3>4, <3>7, <4>2, <5>1 DEF Core
      <4>4. /\ PortKept(c, m) /\ RequestKept(c, m) /\ WiresKept(c, m)
            /\ m.rs = "R" /\ m.ack = FALSE /\ m.beat = 1 /\ m.rdata = v /\ m.lines = l
        BY <1>1, <1>7, <4>2 DEF Core, PortKept, RequestKept, WiresKept, DataKept
      <4>5. Fills(c, m)
        BY <1>7, <2>4, <3>3, <3>6, <3>10, <4>4 DEF Fills
      <4> QED BY <2>1, <4>3, <4>4, <4>5 DEF CacheStep
    <3> QED BY <3>9, <3>10
  <2> QED BY <2>3, <2>4
<1>8. CASE c.rs \in {"AW", "W", "B"}
  <2>1. Cache(c) = m
    BY <1>8 DEF Cache, n
  <2>2. /\ c.r \in Request /\ c.r.addr \in Where /\ c.r.data \in Datum /\ n.r = c.r
        /\ n.aw = c.aw /\ n.w = c.w /\ n.rdata = c.rdata /\ c.rdata \in Datum
    BY <1>1, <1>8 DEF Request, RequestKept, WiresKept, DataKept, Core
  <2>3. CASE c.rs = "AW" /\ c.aw = None
    <3>1. PICK v : v = <<Beat(c.r.addr)>>
      OBVIOUS
    <3>2. v \in AwWire
      BY <2>2, <3>1, Located DEF AwWire
    <3>3. m = [n EXCEPT !.aw = v]
      BY <1>1, <2>2, <2>3, <3>1 DEF Master
    <3>4. m \in Core
      BY <1>0, <1>1, <3>2, <3>3 DEF Core
    <3>5. PortKept(c, m) /\ Stores(c, m)
      BY <1>1, <2>3, <3>1, <3>3
         DEF Core, PortKept, RequestKept, WiresKept, DataKept, Stores, Wires
    <3> QED BY <2>1, <3>4, <3>5 DEF CacheStep
  <2>4. CASE c.rs = "AW" /\ c.aw # None /\ Len(axi.aw) < Room
    <3>1. m = [n EXCEPT !.aw = None, !.rs = "W"]
      BY <1>1, <2>2, <2>4 DEF Master
    <3>2. m \in Core
      BY <1>0, <1>1, <3>1 DEF Core
    <3>3. PortKept(c, m) /\ Stores(c, m)
      BY <1>1, <2>4, <3>1 DEF Core, PortKept, RequestKept, WiresKept, DataKept, Stores, Wires
    <3> QED BY <2>1, <3>2, <3>3 DEF CacheStep
  <2>5. CASE c.rs = "W" /\ c.w = None
    <3>1. PICK v : v = <<c.r.addr.half, c.r.data>>
      OBVIOUS
    <3>2. v \in WWire
      BY <2>2, <3>1, Located DEF WWire
    <3>3. m = [n EXCEPT !.w = v]
      BY <1>1, <2>2, <2>5, <3>1 DEF Master
    <3>4. m \in Core
      BY <1>0, <1>1, <3>2, <3>3 DEF Core
    <3>5. PortKept(c, m) /\ Stores(c, m)
      BY <1>1, <2>5, <3>1, <3>3
         DEF Core, PortKept, RequestKept, WiresKept, DataKept, Stores, Wires
    <3> QED BY <2>1, <3>4, <3>5 DEF CacheStep
  <2>6. CASE c.rs = "W" /\ c.w # None /\ Len(axi.w) < Room
    <3>1. m = [n EXCEPT !.w = None, !.bready = TRUE, !.rs = "B"]
      BY <1>1, <2>2, <2>6 DEF Master
    <3>2. m \in Core
      BY <1>0, <1>1, <3>1 DEF Core
    <3>3. PortKept(c, m) /\ Stores(c, m)
      BY <1>1, <2>6, <3>1 DEF Core, PortKept, RequestKept, WiresKept, DataKept, Stores, Wires
    <3> QED BY <2>1, <3>2, <3>3 DEF CacheStep
  <2>7. CASE c.rs = "B" /\ axi.b > 0
    <3>1. m = [n EXCEPT !.rs = "IDLE", !.ack = TRUE, !.rdata = c.rdata, !.bready = FALSE]
      BY <1>1, <2>2, <2>7 DEF Master, Answered
    <3>2. m \in Core
      BY <1>0, <1>1, <2>2, <3>1 DEF Core
    <3>3. PortKept(c, m) /\ Stores(c, m)
      BY <1>1, <2>7, <3>1 DEF Core, PortKept, RequestKept, WiresKept, DataKept, Stores, Wires
    <3> QED BY <2>1, <3>2, <3>3 DEF CacheStep
  <2>8. CASE \/ c.rs = "AW" /\ c.aw # None /\ ~(Len(axi.aw) < Room)
             \/ c.rs = "W" /\ c.w # None /\ ~(Len(axi.w) < Room)
             \/ c.rs = "B" /\ ~(axi.b > 0)
    <3>1. m = n
      BY <1>1, <2>2, <2>8 DEF Master
    <3>2. PortKept(c, m) /\ Stores(c, m)
      BY <1>1, <2>8, <3>1 DEF Stores
    <3> QED BY <1>1, <2>1, <3>1, <3>2 DEF CacheStep
  <2> QED BY <1>8, <2>3, <2>4, <2>5, <2>6, <2>7, <2>8
<1> QED BY <1>2, <1>3, <1>4, <1>5, <1>6, <1>7, <1>8

-----------------------------------------------------------------------------
(* An edge while the EE runs. *)

RunEdge == EeMemoryAssumption /\ Types /\ Underway /\ host.reset = FALSE /\ Edge

LEMMA RequestHeld ==
  ASSUME EeMemoryAssumption, CoreType, CpuType, Granted
  PROVE  /\ core.st # "IDLE" => Asked \in Request
         /\ core.rs # "IDLE" \/ core.ack = TRUE => core.r \in Request /\ core.r = Asked /\ core.st # "IDLE"
         /\ core.req # None => core.req \in Request /\ core.req = Asked /\ core.st # "IDLE"
<1>0. /\ core.st \in {"IDLE", "DATA", "INST"} /\ core.fq \in Seq(Where)
      /\ core.req \in Request \cup {None} /\ cpu.d \in Request \cup {None}
  BY DEF CoreType, Core, CpuType, States, MaybeRequest
<1>1. core.st = "INST" => Asks(FALSE, Head(core.fq), None) \in Request
  BY <1>0, NoneApart, HeadTailProperties DEF Granted
<1>2. core.st # "IDLE" => Asked \in Request
  BY <1>0, <1>1 DEF Granted, Asked
<1> QED BY <1>0, <1>2 DEF Granted

LEMMA StepOfCore ==
  ASSUME RunEdge
  PROVE  core' \in Core /\ Turned(core') /\ CacheStep(core, core')
<1>1. PICK c : c = Queued(Arbiter(core))
  OBVIOUS
<1>2. c \in Core /\ Untouched(c) /\ Turned(c)
  BY <1>1, Arbitrated DEF RunEdge, Types, Underway
<1>3. c.rs # "IDLE" => c.r \in Request
  BY <1>2, RequestHeld DEF RunEdge, Types, Underway, Untouched
<1>4. core' = Cache(c)
  BY <1>1 DEF RunEdge, Edge
<1>5. core' \in Core /\ PortKept(c, core') /\ CacheStep(c, core')
  BY <1>2, <1>3, <1>4, Cached DEF RunEdge, Types
<1>6. Turned(core')
  BY <1>2, <1>5 DEF Turned, Turn, PortKept
<1>7. CacheStep(core, core')
  <2>1. /\ \A d : RequestKept(c, d) <=> RequestKept(core, d)
        /\ \A d : DataKept(c, d) <=> DataKept(core, d)
        /\ \A d : WiresKept(c, d) <=> WiresKept(core, d)
    BY <1>2 DEF Untouched, RequestKept, DataKept, WiresKept
  <2>2. /\ (Hit(c) <=> Hit(core)) /\ Merged(c) = Merged(core) /\ Got(c) = Got(core)
        /\ \A b, v : LinesWith(c, b, v) = LinesWith(core, b, v)
    BY <1>2 DEF Untouched, Hit, Merged, Got, LinesWith
  <2>3. CASE Waits(c, core')
    BY <1>2, <2>1, <2>3 DEF Untouched, Waits, CacheStep
  <2>4. CASE Takes(c, core')
    BY <1>2, <2>1, <2>4 DEF Untouched, Takes, CacheStep
  <2>5. CASE LooksUp(c, core')
    BY <1>2, <2>1, <2>2, <2>5 DEF Untouched, LooksUp, CacheStep
  <2>6. CASE Bursts(c, core')
    BY <1>2, <2>1, <2>6 DEF Untouched, Bursts, Wires, CacheStep
  <2>7. CASE Fills(c, core')
    BY <1>2, <2>1, <2>2, <2>7 DEF Untouched, Fills, Wires, CacheStep
  <2>8. CASE Stores(c, core')
    BY <1>2, <2>1, <2>8 DEF Untouched, Stores, Wires, CacheStep
  <2> QED BY <1>5, <2>3, <2>4, <2>5, <2>6, <2>7, <2>8 DEF CacheStep
<1> QED BY <1>5, <1>6, <1>7

\* The arbiter grants or gives an answer while the cache is idle; or the cache goes on.
LEMMA Phases ==
  ASSUME RunEdge
  PROVE  \/ /\ Waits(core, core') /\ core'.st \in {"IDLE", "DATA", "INST"}
            /\ core.st = "IDLE" \/ core.ack = TRUE
         \/ /\ core.st # "IDLE" /\ core.ack = FALSE /\ ~Waits(core, core')
            /\ Turn(core', core.st, None, None, None, core.fq \o Pulse)
<1>1. core' \in Core /\ Turned(core') /\ CacheStep(core, core') /\ Granted
  BY StepOfCore DEF RunEdge, Underway
<1>2. core'.st \in {"IDLE", "DATA", "INST"} /\ core.ack \in BOOLEAN
  BY <1>1 DEF Core, States, RunEdge, Types, CoreType
<1>3. CASE core.st = "IDLE" \/ core.ack = TRUE
  <2>1. core.rs = "IDLE" /\ core.req = None
    BY <1>1, <1>3 DEF Granted
  <2>2. ~Takes(core, core') /\ ~LooksUp(core, core') /\ ~Bursts(core, core') /\ ~Fills(core, core')
    BY <2>1 DEF Takes, LooksUp, Bursts, Fills
  <2>3. ~Stores(core, core')
    BY <2>1 DEF Stores
  <2> QED BY <1>1, <1>2, <1>3, <2>2, <2>3 DEF CacheStep
<1>4. CASE core.st # "IDLE" /\ core.ack = FALSE
  <2>1. Turn(core', core.st, None, None, None, core.fq \o Pulse)
    BY <1>1, <1>4 DEF Turned
  <2>2. ~Waits(core, core')
    BY <1>1, <1>4 DEF Waits, Granted
  <2> QED BY <1>4, <2>1, <2>2
<1> QED BY <1>2, <1>3, <1>4

LEMMA StepOfCpu ==
  ASSUME RunEdge
  PROVE  /\ CpuType' /\ (Pulse \in Seq(Where))' /\ Pulse \in Seq(Where)
         /\ cpu.d # None /\ core.dready = None => cpu'.d = cpu.d
         /\ cpu.wait \in Seq(Where)
         /\ core.iready = None => cpu'.wait = cpu.wait \o Pulse'
         /\ core.iready # None => cpu'.wait = Tail(cpu.wait) \o Pulse'
<1> DEFINE ahead == IF core.iready = None THEN cpu.wait ELSE Tail(cpu.wait)
<1>1. CpuEdge /\ CpuType /\ InOrder /\ EeMemoryAssumption
  BY DEF RunEdge, Edge, Types, Underway
<1>2. /\ cpu.wait \in Seq(Where) /\ cpu.d \in Request \cup {None} /\ cpu.accesses \in 0..Accesses
      /\ cpu.fetches \in Nat /\ Accesses \in Nat
  BY <1>1 DEF CpuType, EeMemoryAssumption
<1>3. ahead \in Seq(Where)
  BY <1>1, <1>2, HeadTailProperties DEF InOrder
<1> HIDE DEF ahead
<1>4. PICK i \in {None} \cup Where, d \in {None} \cup [we : BOOLEAN, addr : Where] :
        LET free == cpu.d = None \/ core.dready # None IN
          /\ d # None => free /\ cpu.accesses < Accesses
          /\ cpu' = [d |-> IF d # None THEN Asks(d.we, d.addr, IF d.we THEN <<"w", cpu.accesses>> ELSE None)
                           ELSE IF free THEN None ELSE cpu.d,
                     i |-> i,
                     wait |-> IF i = None THEN ahead ELSE Append(ahead, i),
                     accesses |-> IF d = None THEN cpu.accesses ELSE cpu.accesses + 1,
                     fetches  |-> IF i = None THEN cpu.fetches ELSE cpu.fetches + 1]
  BY <1>1 DEF CpuEdge, ahead
<1>5. cpu'.i = i /\ cpu'.wait = (IF i = None THEN ahead ELSE Append(ahead, i))
  BY <1>4
<1>6. Pulse' \in Seq(Where) /\ cpu'.wait = ahead \o Pulse' /\ cpu'.wait \in Seq(Where)
  <2>1. CASE i = None
    BY <1>3, <1>5, <2>1, Appending DEF Pulse
  <2>2. CASE i # None
    BY <1>3, <1>4, <1>5, <2>2, Appending, AppendProperties DEF Pulse
  <2> QED BY <2>1, <2>2
<1>7. cpu'.d \in Request \cup {None}
  <2>1. CASE d # None
    <3>1. d.we \in BOOLEAN /\ d.addr \in Where /\ cpu.accesses < Accesses
      BY <1>4, <2>1
    <3>2. (IF d.we THEN <<"w", cpu.accesses>> ELSE None) \in Datum
      BY <1>2, <3>1 DEF Datum
    <3> QED BY <1>1, <1>4, <2>1, <3>1, <3>2, NoneApart
  <2>2. CASE d = None
    BY <1>2, <1>4, <2>2
  <2> QED BY <2>1, <2>2
<1>8. cpu'.accesses \in 0..Accesses /\ cpu'.fetches \in Nat
  BY <1>2, <1>4
<1>9. CpuType'
  <2>1. cpu' = [d |-> cpu'.d, i |-> cpu'.i, wait |-> cpu'.wait, accesses |-> cpu'.accesses,
                fetches |-> cpu'.fetches]
    BY <1>4
  <2> QED BY <1>4, <1>5, <1>6, <1>7, <1>8, <2>1 DEF CpuType
<1>10. cpu.d # None /\ core.dready = None => cpu'.d = cpu.d
  BY <1>4
<1> QED BY <1>1, <1>2, <1>6, <1>9, <1>10, PulseType DEF ahead

\* The channels of an edge: each takes or gives one, or stands.
LEMMA StepOfAxi ==
  ASSUME EeMemoryAssumption, CoreType, AxiType, Handshakes
  PROVE  /\ AxiType' /\ axi'.hbm = axi.hbm /\ axi'.beat = axi.beat
         /\ core.ar # None /\ Len(axi.ar) < Room => axi'.ar = Append(axi.ar, core.ar[1])
         /\ core.ar = None \/ ~(Len(axi.ar) < Room) => axi'.ar = axi.ar
         /\ core.aw # None /\ Len(axi.aw) < Room => axi'.aw = Append(axi.aw, core.aw[1])
         /\ core.aw = None \/ ~(Len(axi.aw) < Room) => axi'.aw = axi.aw
         /\ core.w # None /\ Len(axi.w) < Room => axi'.w = Append(axi.w, core.w)
         /\ core.w = None \/ ~(Len(axi.w) < Room) => axi'.w = axi.w
         /\ core.rready = TRUE /\ axi.r # <<>> => axi'.r = Tail(axi.r)
         /\ core.rready = FALSE \/ axi.r = <<>> => axi'.r = axi.r
         /\ core.bready = TRUE /\ axi.b > 0 => axi'.b = axi.b - 1
         /\ core.bready = FALSE \/ ~(axi.b > 0) => axi'.b = axi.b
<1> DEFINE ar == IF core.ar # None /\ Len(axi.ar) < Room THEN Append(axi.ar, core.ar[1]) ELSE axi.ar
           aw == IF core.aw # None /\ Len(axi.aw) < Room THEN Append(axi.aw, core.aw[1]) ELSE axi.aw
           w  == IF core.w # None /\ Len(axi.w) < Room THEN Append(axi.w, core.w) ELSE axi.w
           r  == IF core.rready /\ axi.r # <<>> THEN Tail(axi.r) ELSE axi.r
           b  == IF core.bready /\ axi.b > 0 THEN axi.b - 1 ELSE axi.b
<1>1. axi' = [axi EXCEPT !.ar = ar, !.aw = aw, !.w = w, !.r = r, !.b = b]
  BY DEF Handshakes
<1>2. /\ axi.ar \in Seq(Line) /\ axi.aw \in Seq(Line \X Half) /\ axi.w \in Seq(Half \X Datum)
      /\ axi.r \in Seq(ReadBeat) /\ axi.b \in Nat /\ core.rready \in BOOLEAN /\ core.bready \in BOOLEAN
  BY DEF AxiType, CoreType, Core
<1>3. ar \in Seq(Line)
  <2>1. core.ar # None => core.ar[1] \in Line
    BY DEF CoreType, Core, ArWire
  <2> QED BY <1>2, <2>1, AppendProperties
<1>4. aw \in Seq(Line \X Half)
  <2>1. core.aw # None => core.aw[1] \in Line \X Half
    BY DEF CoreType, Core, AwWire
  <2> QED BY <1>2, <2>1, AppendProperties
<1>5. w \in Seq(Half \X Datum)
  <2>1. core.w # None => core.w \in Half \X Datum
    BY DEF CoreType, Core, WWire
  <2> QED BY <1>2, <2>1, AppendProperties
<1>6. r \in Seq(ReadBeat)
  BY <1>2, HeadTailProperties
<1>7. b \in Nat
  BY <1>2
<1>8. /\ core.ar # None /\ Len(axi.ar) < Room => ar = Append(axi.ar, core.ar[1])
      /\ core.ar = None \/ ~(Len(axi.ar) < Room) => ar = axi.ar
      /\ core.aw # None /\ Len(axi.aw) < Room => aw = Append(axi.aw, core.aw[1])
      /\ core.aw = None \/ ~(Len(axi.aw) < Room) => aw = axi.aw
      /\ core.w # None /\ Len(axi.w) < Room => w = Append(axi.w, core.w)
      /\ core.w = None \/ ~(Len(axi.w) < Room) => w = axi.w
  OBVIOUS
<1>9. /\ core.rready = TRUE /\ axi.r # <<>> => r = Tail(axi.r)
      /\ core.rready = FALSE \/ axi.r = <<>> => r = axi.r
      /\ core.bready = TRUE /\ axi.b > 0 => b = axi.b - 1
      /\ core.bready = FALSE \/ ~(axi.b > 0) => b = axi.b
  BY <1>2
<1> HIDE DEF ar, aw, w, r, b
<1>10. /\ axi'.ar = ar /\ axi'.aw = aw /\ axi'.w = w /\ axi'.r = r /\ axi'.b = b
       /\ axi'.hbm = axi.hbm /\ axi'.beat = axi.beat
  BY <1>1 DEF AxiType
<1>11. AxiType'
  BY <1>1, <1>3, <1>4, <1>5, <1>6, <1>7 DEF AxiType
<1> QED BY <1>8, <1>9, <1>10, <1>11

\* What the host knows of memory: the store that is answered.
Answering == core.st = "DATA" /\ core.ack = TRUE /\ cpu.d.we = TRUE
LEMMA StepOfHost ==
  ASSUME RunEdge
  PROVE  /\ HostType' /\ host'.reset = FALSE /\ host'.cut = host.cut
         /\ ~Answering => host'.memory = host.memory
         /\ Answering =>
              /\ cpu.d \in Request
              /\ \A b \in Line \X Half, h \in Half :
                   host'.memory[b][h] = IF b = Beat(cpu.d.addr) /\ h = cpu.d.addr.half THEN cpu.d.data
                                        ELSE host.memory[b][h]
<1>1. /\ core.ack \in BOOLEAN /\ cpu.d \in Request \cup {None} /\ HostType /\ Granted
      /\ EeMemoryAssumption /\ host.reset = FALSE
      /\ host' = IF core.st = "DATA" /\ core.ack /\ cpu.d.we
                 THEN [host EXCEPT !.memory[Beat(cpu.d.addr)][cpu.d.addr.half] = cpu.d.data]
                 ELSE host
  BY DEF RunEdge, Types, CoreType, Core, CpuType, Underway, Edge
<1>2. CASE core.st = "DATA"
  <2>1. cpu.d \in Request /\ cpu.d.we \in BOOLEAN /\ cpu.d.addr \in Where /\ cpu.d.data \in Datum
    BY <1>1, <1>2 DEF Granted, Request
  <2>2. CASE Answering
    <3>1. Beat(cpu.d.addr) \in Line \X Half /\ cpu.d.addr.half \in Half
      BY <1>1, <2>1, Located
    <3> DEFINE q == [host.memory[Beat(cpu.d.addr)] EXCEPT ![cpu.d.addr.half] = cpu.d.data]
               m == [host.memory EXCEPT ![Beat(cpu.d.addr)] = q]
    <3>2. host.memory \in Memory /\ host.memory[Beat(cpu.d.addr)] \in Quads
      BY <1>1, <3>1 DEF HostType, Memory
    <3>3. /\ q \in Quads
          /\ \A h \in Half : q[h] = IF h = cpu.d.addr.half THEN cpu.d.data
                                    ELSE host.memory[Beat(cpu.d.addr)][h]
      BY <2>1, <3>1, <3>2 DEF Quads
    <3>4. host' = [host EXCEPT !.memory = m]
      BY <1>1, <2>2 DEF Answering
    <3> HIDE DEF q
    <3>5. /\ m \in Memory /\ m[Beat(cpu.d.addr)] = q
          /\ \A b \in Line \X Half : b # Beat(cpu.d.addr) => m[b] = host.memory[b]
      BY <3>1, <3>2, <3>3 DEF Memory
    <3> HIDE DEF m
    <3>6. HostType' /\ host'.reset = FALSE /\ host'.cut = host.cut /\ host'.memory = m
      BY <1>1, <3>4, <3>5 DEF HostType
    <3> QED BY <2>1, <2>2, <3>3, <3>5, <3>6
  <2>3. CASE ~Answering
    <3>1. host' = host
      BY <1>1, <1>2, <2>1, <2>3 DEF Answering
    <3> QED BY <1>1, <2>3, <3>1 DEF HostType
  <2> QED BY <2>2, <2>3
<1>3. CASE core.st # "DATA"
  <2>1. host' = host /\ ~Answering
    BY <1>1, <1>3 DEF Answering
  <2> QED BY <1>1, <2>1 DEF HostType
<1> QED BY <1>2, <1>3

\* Fetches stay in the order they were asked in.
LEMMA OrderKept == ASSUME RunEdge PROVE InOrder'
<1>1. /\ core.fq \in Seq(Where) /\ Pulse \in Seq(Where) /\ Pulse' \in Seq(Where)
      /\ core.rdata \in Datum /\ core.fq \o Pulse \in Seq(Where) /\ EeMemoryAssumption
  <2>1. core.fq \in Seq(Where) /\ core.rdata \in Datum /\ EeMemoryAssumption
    BY DEF RunEdge, Types, CoreType, Core
  <2> QED BY <2>1, StepOfCpu, ConcatProperties
<1>2. cpu'.wait = (core.fq \o Pulse) \o Pulse'
  BY StepOfCpu DEF RunEdge, Underway, InOrder
<1>3. Turned(core') /\ Granted
  BY StepOfCore DEF RunEdge, Underway
<1>4. CASE core'.iready = None /\ core'.fq = core.fq \o Pulse
  BY <1>2, <1>4 DEF InOrder
<1>5. CASE core.st = "INST" /\ core'.iready # None /\ core'.fq = Tail(core.fq) \o Pulse
  <2>1. core.fq # <<>>
    BY <1>3, <1>5 DEF Granted
  <2>2. core.fq \o Pulse # <<>> /\ Tail(core.fq \o Pulse) = Tail(core.fq) \o Pulse
    BY <1>1, <2>1, FrontStays
  <2>3. \A q \in Seq(Where), p \in Seq(Where) : q # <<>> => q \o p # <<>> /\ Tail(q \o p) = Tail(q) \o p
    BY FrontStays
  <2>4. PICK q : q = core.fq \o Pulse
    OBVIOUS
  <2>5. q \o Pulse' # <<>> /\ Tail(q \o Pulse') = Tail(q) \o Pulse'
    BY <1>1, <2>2, <2>3, <2>4
  <2>6. cpu'.wait # <<>> /\ Tail(cpu'.wait) = (Tail(core.fq) \o Pulse) \o Pulse'
    BY <1>2, <2>2, <2>4, <2>5
  <2> QED BY <1>5, <2>6 DEF InOrder
<1> QED BY <1>1, <1>3, <1>4, <1>5, NoneApart DEF Turned, Turn

\* What a step of the cache, in the middle of a request, does to its state.
LEMMA Goes ==
  ASSUME RunEdge, ~Waits(core, core')
  PROVE  /\ core.rs = "IDLE" => /\ core.req # None /\ core'.rs = "LOOKUP" /\ core'.r = core.req
                                /\ core'.ack = FALSE
         /\ core.rs # "IDLE" => /\ core'.r = core.r
                                /\ \/ core'.rs # "IDLE" /\ core'.ack = FALSE
                                   \/ core'.rs = "IDLE" /\ core'.ack = TRUE
<1>1. CacheStep(core, core')
  BY StepOfCore
<1>2. CASE Takes(core, core')
  BY <1>2 DEF Takes
<1>3. CASE LooksUp(core, core')
  BY <1>3 DEF LooksUp, RequestKept
<1>4. CASE Bursts(core, core')
  BY <1>4 DEF Bursts, RequestKept
<1>5. CASE Fills(core, core')
  BY <1>5 DEF Fills, RequestKept
<1>6. CASE Stores(core, core')
  BY <1>6 DEF Stores, RequestKept
<1> QED BY <1>1, <1>2, <1>3, <1>4, <1>5, <1>6 DEF CacheStep

\* The request stays at the head of what it was taken from until it is answered.
LEMMA AskedKept ==
  ASSUME RunEdge, core.st # "IDLE", core.ack = FALSE
  PROVE  Asked' = Asked /\ (core.st = "INST" => core'.fq # <<>>) /\ (core.st = "DATA" => cpu'.d # None)
<1>1. Turn(core', core.st, None, None, None, core.fq \o Pulse) /\ Granted
  BY Phases DEF RunEdge, Underway
<1>2. core.st \in {"IDLE", "DATA", "INST"} /\ core.fq \in Seq(Where) /\ Pulse \in Seq(Where)
  BY StepOfCpu DEF RunEdge, Types, CoreType, Core, States
<1>3. CASE core.st = "DATA"
  <2>1. cpu'.d = cpu.d /\ cpu.d # None
    BY <1>1, <1>3, StepOfCpu DEF Granted
  <2> QED BY <1>1, <1>3, <2>1 DEF Asked, Turn
<1>4. CASE core.st = "INST"
  <2>1. core.fq \o Pulse # <<>> /\ Head(core.fq \o Pulse) = Head(core.fq)
    BY <1>1, <1>2, <1>4, FrontStays DEF Granted
  <2>2. core'.st = "INST" /\ core'.fq = core.fq \o Pulse
    BY <1>1, <1>4 DEF Turn
  <2> QED BY <1>4, <2>1, <2>2 DEF Asked
<1> QED BY <1>2, <1>3, <1>4

\* The arbiter and the cache agree on who is asked for what.
LEMMA GrantKept == ASSUME RunEdge PROVE Granted'
<1>1. /\ Granted /\ Turned(core') /\ EeMemoryAssumption
      /\ core.fq \in Seq(Where) /\ Pulse \in Seq(Where) /\ core.rdata \in Datum
  BY StepOfCore, StepOfCpu DEF RunEdge, Underway, Types, CoreType, Core
<1>2. CASE Waits(core, core') /\ (core.st = "IDLE" \/ core.ack = TRUE)
  <2>0. core'.rs = "IDLE" /\ core'.ack = FALSE
    BY <1>2 DEF Waits
  <2>1. CASE core.st = "IDLE" /\ cpu.d # None /\ core.dready = None
             /\ Turn(core', "DATA", cpu.d, None, None, core.fq \o Pulse)
    <3>1. cpu'.d = cpu.d
      BY <2>1, StepOfCpu
    <3> QED BY <2>0, <2>1, <3>1 DEF Granted, Asked, Turn
  <2>2. CASE core.st = "IDLE" /\ core.fq # <<>>
             /\ Turn(core', "INST", Asks(FALSE, Head(core.fq), None), None, None, core.fq \o Pulse)
    <3>1. core.fq \o Pulse # <<>> /\ Head(core.fq \o Pulse) = Head(core.fq)
      BY <1>1, <2>2, FrontStays
    <3>2. core'.req = Asked' /\ core'.st = "INST" /\ core'.fq # <<>> /\ core'.dready = None /\ core'.iready = None
      BY <2>2, <3>1 DEF Asked, Turn
    <3>3. core'.req # None
      <4>1. Head(core.fq) \in Where
        BY <1>1, <2>2, HeadTailProperties
      <4> QED BY <1>1, <2>2, <4>1, NoneApart DEF Turn
    <3> QED BY <2>0, <3>2, <3>3 DEF Granted
  <2>3. CASE core.st = "DATA" /\ core.ack = TRUE
             /\ Turn(core', "IDLE", None, <<core.rdata>>, None, core.fq \o Pulse)
    <3>1. cpu'.d = cpu.d /\ cpu.d # None
      BY <1>1, <2>3, StepOfCpu DEF Granted
    <3> QED BY <2>0, <2>3, <3>1 DEF Granted, Turn
  <2>4. CASE core.st = "INST" /\ core.ack = TRUE
             /\ Turn(core', "IDLE", None, None, <<core.rdata>>, Tail(core.fq) \o Pulse)
    BY <2>0, <2>4 DEF Granted, Turn
  <2>5. CASE core.st = "IDLE" /\ Turn(core', core.st, None, None, None, core.fq \o Pulse)
    BY <2>0, <2>5 DEF Granted, Turn
  <2>6. CASE core.st # "IDLE" /\ core.ack = FALSE
    BY <1>2, <2>6
  <2> QED BY <1>1, <1>2, <2>1, <2>2, <2>3, <2>4, <2>5, <2>6 DEF Turned
<1>3. CASE core.st # "IDLE" /\ core.ack = FALSE /\ ~Waits(core, core')
  <2>1. Turn(core', core.st, None, None, None, core.fq \o Pulse)
    BY <1>3, Phases
  <2>2. Asked' = Asked /\ (core.st = "INST" => core'.fq # <<>>) /\ (core.st = "DATA" => cpu'.d # None)
    BY <1>3, AskedKept
  <2>3. CASE core.rs = "IDLE"
    <3>1. core'.r = Asked /\ core'.rs = "LOOKUP" /\ core'.ack = FALSE
      BY <1>1, <1>3, <2>3, Goes DEF Granted
    <3> QED BY <1>3, <2>1, <2>2, <3>1 DEF Granted, Turn
  <2>4. CASE core.rs # "IDLE"
    <3>1. core.r = Asked
      BY <1>1, <1>3, <2>4 DEF Granted
    <3>2. /\ core'.r = Asked
          /\ \/ core'.rs # "IDLE" /\ core'.ack = FALSE
             \/ core'.rs = "IDLE" /\ core'.ack = TRUE
      BY <1>3, <2>4, <3>1, Goes
    <3> QED BY <1>3, <2>1, <2>2, <3>2 DEF Granted, Turn
  <2> QED BY <2>3, <2>4
<1> QED BY <1>2, <1>3, Phases

-----------------------------------------------------------------------------
(* The channels of a run: what an edge leaves of their invariants. *)

\* What is known of the channels before the edge, state by state.
LEMMA Channels ==
  ASSUME RunEdge
  PROVE  /\ AxiType /\ CoreType /\ core \in Core /\ Looked /\ Reading /\ Storing /\ Valids /\ EeMemoryAssumption
         /\ CacheStep(core, core') /\ Handshakes
         /\ core.rs # "AR" => core.ar = None
         /\ core.rs # "AW" => core.aw = None
         /\ core.rs # "W" => core.w = None
         /\ Room \in Nat \ {0} /\ Len(<<>>) = 0
  BY StepOfCore DEF RunEdge, Types, CoreType, Underway, Edge, Valids, EeMemoryAssumption

LEMMA ValidsKept == ASSUME RunEdge PROVE Valids'
<1>1. CacheStep(core, core') /\ Valids
  BY Channels
<1>2. CASE Waits(core, core')
  BY <1>1, <1>2 DEF Valids, Waits, WiresKept
<1>3. CASE Takes(core, core')
  BY <1>1, <1>3 DEF Valids, Takes, WiresKept
<1>4. CASE LooksUp(core, core')
  BY <1>1, <1>4 DEF Valids, LooksUp, WiresKept
<1>5. CASE Bursts(core, core')
  BY <1>1, <1>5 DEF Valids, Bursts, Wires, WiresKept, RequestKept
<1>6. CASE Fills(core, core')
  BY <1>1, <1>6 DEF Valids, Fills, Wires, WiresKept
<1>7. CASE Stores(core, core')
  BY <1>1, <1>7 DEF Valids, Stores, Wires, WiresKept, RequestKept
<1> QED BY <1>1, <1>2, <1>3, <1>4, <1>5, <1>6, <1>7 DEF CacheStep

LEMMA LookedKept == ASSUME RunEdge PROVE Looked'
<1>1. CacheStep(core, core') /\ Looked
  BY Channels
<1>2. CASE Waits(core, core')
  BY <1>2 DEF Looked, Waits, Writing
<1>3. CASE Takes(core, core')
  BY <1>3 DEF Looked, Takes, Writing, DataKept
<1>4. CASE LooksUp(core, core')
  BY <1>1, <1>4 DEF Looked, LooksUp, Writing, RequestKept
<1>5. CASE Bursts(core, core')
  BY <1>1, <1>5 DEF Looked, Bursts, Writing, RequestKept, DataKept
<1>6. CASE Fills(core, core')
  BY <1>1, <1>6 DEF Looked, Fills, Writing, RequestKept
<1>7. CASE Stores(core, core')
  BY <1>1, <1>7 DEF Looked, Stores, Writing, RequestKept
<1> QED BY <1>1, <1>2, <1>3, <1>4, <1>5, <1>6, <1>7 DEF CacheStep

\* A store keeps its address, its beat and its answer in their order.
LEMMA StoringKept == ASSUME RunEdge PROVE Storing'
<1>1. /\ CacheStep(core, core') /\ Storing /\ Valids /\ axi.b \in Nat
      /\ core.rs # "AW" => core.aw = None
      /\ core.rs # "W" => core.w = None
      /\ Room \in Nat \ {0} /\ Len(<<>>) = 0 /\ core.bready \in BOOLEAN
  BY Channels DEF AxiType, Core
<1>2. /\ core.aw # None /\ Len(axi.aw) < Room => axi'.aw = Append(axi.aw, core.aw[1])
      /\ core.aw = None => axi'.aw = axi.aw
      /\ core.w # None /\ Len(axi.w) < Room => axi'.w = Append(axi.w, core.w)
      /\ core.w = None => axi'.w = axi.w
      /\ core.bready = TRUE /\ axi.b > 0 => axi'.b = axi.b - 1
      /\ core.bready = FALSE \/ ~(axi.b > 0) => axi'.b = axi.b
  BY Channels, StepOfAxi
<1>3. core.rs \notin {"AW", "W", "B"} => Posted(<<>>, <<>>, 0)'
  BY <1>1, <1>2 DEF Storing, Posted
<1>4. CASE Waits(core, core')
  BY <1>3, <1>4 DEF Storing, Waits
<1>5. CASE Takes(core, core')
  BY <1>3, <1>5 DEF Storing, Takes
<1>6. CASE LooksUp(core, core')
  BY <1>3, <1>6 DEF Storing, LooksUp
<1>7. CASE Bursts(core, core')
  BY <1>3, <1>7 DEF Storing, Bursts
<1>8. CASE Fills(core, core')
  BY <1>3, <1>8 DEF Storing, Fills
<1>9. CASE Stores(core, core')
  <2>1. core'.r = core.r
    BY <1>9 DEF Stores, RequestKept
  <2>2. CASE core.rs = "AW"
    <3>1. Posted(<<>>, <<>>, 0)
      BY <1>1, <2>2 DEF Storing
    <3>2. CASE core.aw = None /\ core'.rs = "AW"
      BY <1>1, <1>2, <2>2, <3>1, <3>2 DEF Storing, Posted
    <3>3. CASE core.aw # None /\ core'.rs = "W"
      <4>1. core.aw[1] = Beat(core.r.addr)
        BY <1>1, <3>3 DEF Valids
      <4>2. axi'.aw = <<Beat(core.r.addr)>>
        BY <1>1, <1>2, <3>1, <3>3, <4>1 DEF Posted
      <4> QED BY <1>1, <1>2, <2>1, <2>2, <3>1, <3>3, <4>2 DEF Storing, Posted
    <3> QED BY <1>1, <1>9, <2>2, <3>1, <3>2, <3>3 DEF Stores, Posted
  <2>3. CASE core.rs = "W"
    <3>1. Posted(<<Beat(core.r.addr)>>, <<>>, 0)
      BY <1>1, <2>3 DEF Storing
    <3>2. CASE core.w = None /\ core'.rs = "W"
      BY <1>1, <1>2, <2>1, <2>3, <3>1, <3>2 DEF Storing, Posted
    <3>3. CASE core.w # None /\ core'.rs = "B" /\ core'.bready = TRUE
      <4>1. core.w = <<core.r.addr.half, core.r.data>>
        BY <1>1, <3>3 DEF Valids
      <4>2. axi'.w = <<<<core.r.addr.half, core.r.data>>>>
        BY <1>1, <1>2, <3>1, <3>3, <4>1 DEF Posted
      <4>3. Posted(<<Beat(core.r.addr)>>, <<<<core.r.addr.half, core.r.data>>>>, 0)'
        BY <1>1, <1>2, <2>1, <2>3, <3>1, <4>2 DEF Posted
      <4> QED BY <2>1, <3>3, <4>3 DEF Storing
    <3>4. Len(axi.w) < Room
      BY <1>1, <3>1 DEF Posted
    <3>5. \/ core.w = None /\ core'.rs = "W"
          \/ core.w # None /\ core'.rs = "B" /\ core'.bready = TRUE
      BY <1>9, <2>3, <3>4 DEF Stores, Wires
    <3> QED BY <3>2, <3>3, <3>5
  <2>4. CASE core.rs = "B" /\ axi.b > 0
    <3>0. core.bready = TRUE /\ Posted(<<>>, <<>>, 1)
      BY <1>1, <2>4 DEF Storing, Posted
    <3>1. core'.rs = "IDLE" /\ core.bready = TRUE /\ Posted(<<>>, <<>>, 1)
      BY <1>9, <2>4, <3>0 DEF Stores
    <3> QED BY <1>1, <1>2, <2>4, <3>1 DEF Storing, Posted
  <2>5. CASE core.rs = "B" /\ ~(axi.b > 0)
    <3>1. core'.rs = "B" /\ core'.bready = core.bready
      BY <1>9, <2>5 DEF Stores, WiresKept
    <3>2. axi'.aw = axi.aw /\ axi'.w = axi.w /\ axi'.b = axi.b
      BY <1>1, <1>2, <2>5
    <3> QED BY <1>1, <2>1, <2>5, <3>1, <3>2 DEF Storing, Posted
  <2> QED BY <1>9, <2>2, <2>3, <2>4, <2>5 DEF Stores
<1> QED BY <1>1, <1>4, <1>5, <1>6, <1>7, <1>8, <1>9 DEF CacheStep

\* The five moments of a burst, and the beat that is there to be taken.
LEMMA BurstMoments ==
  ASSUME RunEdge, core.rs = "R"
  PROVE  /\ core.r \in Request /\ core.r.addr \in Where /\ core.r.we = FALSE
         /\ core.rready = TRUE /\ core.beat \in Half
         /\ axi.r # <<>> => /\ Head(axi.r) = BeatOf(core.beat)
                            /\ Head(axi.r).data = axi.hbm[<<core.r.addr.line, core.beat>>]
                            /\ Head(axi.r).last <=> core.beat = 1
<1>1. Reading /\ Looked /\ core \in Core
  BY Channels
<1>2. core.r \in Request /\ core.r.addr \in Where /\ core.r.we = FALSE /\ core.rready = TRUE /\ core.beat \in Half
  BY <1>1, RequestHeld DEF RunEdge, Types, Underway, Request, Reading, Looked, Core
<1>3. axi.r # <<>> => Head(axi.r) = BeatOf(core.beat)
  BY <1>1 DEF Reading, Burst
<1>4. BeatOf(core.beat).data = axi.hbm[<<core.r.addr.line, core.beat>>] /\ (BeatOf(core.beat).last <=> core.beat = 1)
  BY DEF BeatOf
<1> QED BY <1>2, <1>3, <1>4

\* A burst is taken beat by beat: the first is kept while the second is awaited.
LEMMA ReadingKept == ASSUME RunEdge PROVE Reading'
<1>1. /\ CacheStep(core, core') /\ Reading /\ Valids /\ Looked /\ core \in Core /\ EeMemoryAssumption
      /\ core.rs # "AR" => core.ar = None
      /\ Room \in Nat \ {0} /\ Len(<<>>) = 0 /\ core.rready \in BOOLEAN
  BY Channels DEF Core
<1>2. /\ axi'.hbm = axi.hbm /\ axi'.beat = axi.beat
      /\ core.ar # None /\ Len(axi.ar) < Room => axi'.ar = Append(axi.ar, core.ar[1])
      /\ core.ar = None => axi'.ar = axi.ar
      /\ core.rready = TRUE /\ axi.r # <<>> => axi'.r = Tail(axi.r)
      /\ core.rready = FALSE \/ axi.r = <<>> => axi'.r = axi.r
  BY Channels, StepOfAxi
<1>3. core.rs \notin {"AR", "R"} => axi'.ar = <<>> /\ axi'.beat = 0 /\ axi'.r = <<>>
  BY <1>1, <1>2 DEF Reading
<1>4. CASE Waits(core, core')
  BY <1>3, <1>4 DEF Reading, Waits
<1>5. CASE Takes(core, core')
  BY <1>3, <1>5 DEF Reading, Takes
<1>6. CASE LooksUp(core, core')
  BY <1>3, <1>6 DEF Reading, LooksUp
<1>7. CASE Stores(core, core')
  BY <1>3, <1>7 DEF Reading, Stores
<1>8. CASE Bursts(core, core')
  <2>1. core.rs = "AR" /\ core'.r = core.r /\ core'.beat = 0
    BY <1>1, <1>8 DEF Bursts, RequestKept, DataKept, Looked
  <2>2. axi.ar = <<>> /\ axi.beat = 0 /\ axi.r = <<>> /\ Len(axi.ar) < Room /\ axi'.r = <<>>
    BY <1>1, <1>2, <2>1 DEF Reading
  <2>3. CASE core.ar = None /\ core'.rs = "AR"
    BY <1>2, <2>2, <2>3 DEF Reading
  <2>4. CASE core.ar # None /\ core'.rs = "R" /\ core'.rready = TRUE
    <3>1. core.ar[1] = core.r.addr.line
      BY <1>1, <2>4 DEF Valids
    <3>2. axi'.ar = <<core.r.addr.line>>
      BY <1>2, <2>2, <2>4, <3>1
    <3>3. Burst(<<core.r.addr.line>>, 0, 0, <<>>)'
      BY <1>2, <2>1, <2>2, <3>2 DEF Burst
    <3> QED BY <2>1, <2>4, <3>3 DEF Reading
  <2> QED BY <1>8, <2>2, <2>3, <2>4 DEF Bursts, Wires
<1>9. CASE Fills(core, core')
  <2>1. core.rs = "R" /\ core'.r = core.r
    BY <1>9 DEF Fills, RequestKept
  <2>2. core.ar = None /\ core.rready = TRUE /\ axi'.ar = axi.ar
    BY <1>1, <1>2, <2>1 DEF Reading
  <2>3. BeatOf(0)' = BeatOf(0) /\ BeatOf(1)' = BeatOf(1)
    BY <1>2, <2>1 DEF BeatOf
  <2>4. CASE axi.r = <<>>
    <3>1. core'.rs = "R" /\ core'.beat = core.beat /\ core'.rdata = core.rdata /\ core'.lines = core.lines
          /\ core'.rready = TRUE
      BY <1>9, <2>2, <2>4 DEF Fills, DataKept, WiresKept
    <3>2. axi'.r = <<>>
      BY <1>2, <2>4
    <3>3. Burst(<<core.r.addr.line>>, 0, 0, <<>>)' \/ Burst(<<core.r.addr.line>>, 1, 1, <<>>)'
      BY <1>1, <1>2, <2>1, <2>2, <2>4, <3>1, <3>2 DEF Reading, Burst
    <3>4. core'.beat = 1 =>
            /\ core'.lines[index(core'.r.addr.line)].data[0] = axi'.hbm[<<core'.r.addr.line, 0>>]
            /\ core'.r.addr.beat = 0 =>
                 core'.rdata = axi'.hbm[<<core'.r.addr.line, 0>>][core'.r.addr.half]
      BY <1>1, <1>2, <2>1, <3>1 DEF Reading
    <3> QED BY <2>1, <3>1, <3>3, <3>4 DEF Reading
  <2>5. CASE axi.r # <<>> /\ ~Head(axi.r).last
    <3>1. core.beat = 0 /\ Head(axi.r).data = axi.hbm[<<core.r.addr.line, 0>>] /\ core.r \in Request
      BY <2>1, <2>5, BurstMoments DEF Half
    <3>2. /\ core'.rs = "R" /\ core'.beat = 1 /\ core'.rdata = Got(core) /\ core'.rready = TRUE
          /\ core'.lines = LinesWith(core, 0, Head(axi.r).data)
      BY <1>9, <2>2, <2>5, <3>1 DEF Fills, WiresKept
    <3>3. axi'.r = Tail(axi.r)
      BY <1>2, <2>2, <2>5
    <3>4. Burst(<<core.r.addr.line>>, 1, 1, <<>>)' \/ Burst(<<>>, 0, 1, <<BeatOf(1)>>)'
      <4>1. CASE Burst(<<core.r.addr.line>>, 1, 0, <<BeatOf(0)>>)
        <5>1. axi'.r = <<>>
          BY <3>3, <4>1 DEF Burst
        <5> QED BY <1>2, <2>1, <2>2, <3>2, <4>1, <5>1 DEF Burst
      <4>2. CASE Burst(<<>>, 0, 0, <<BeatOf(0), BeatOf(1)>>)
        <5>1. axi'.r = <<BeatOf(1)>>
          BY <3>3, <4>2 DEF Burst
        <5> QED BY <1>2, <2>2, <2>3, <3>2, <4>2, <5>1 DEF Burst
      <4> QED BY <1>1, <2>1, <2>5, <3>1, <4>1, <4>2 DEF Reading, Burst
    <3>5. core'.lines[index(core.r.addr.line)].data[0] = axi.hbm[<<core.r.addr.line, 0>>]
      <4>1. 0 \in Half /\ axi.hbm[<<core.r.addr.line, 0>>] \in Quads
        <5>1. axi.hbm \in Memory /\ core.r.addr.line \in Line /\ 0 \in Half
          BY <3>1, Channels, Located DEF AxiType, Request, Half
        <5> QED BY <5>1 DEF Memory
      <4>2. PICK k, v, L : k = index(core.r.addr.line) /\ v = Head(axi.r).data /\ L = LinesWith(core, 0, v)
        OBVIOUS
      <4>3. v \in Quads
        BY <3>1, <4>1, <4>2
      <4>4. \A b \in Half : \A j, l : j = index(core.r.addr.line) /\ l = LinesWith(core, b, v) => l[j].data[b] = v
        BY <1>1, <3>1, <4>3, LinesWithIs
      <4> QED BY <3>1, <3>2, <4>1, <4>2, <4>4
    <3>6. core.r.addr.beat = 0 => core'.rdata = axi.hbm[<<core.r.addr.line, 0>>][core.r.addr.half]
      BY <3>1, <3>2 DEF Got
    <3> QED BY <1>2, <2>1, <3>2, <3>4, <3>5, <3>6 DEF Reading
  <2>6. CASE axi.r # <<>> /\ Head(axi.r).last
    <3>1. core.beat = 1
      BY <2>1, <2>6, BurstMoments
    <3>2. Burst(<<>>, 0, 1, <<BeatOf(1)>>)
      BY <1>1, <2>1, <2>6, <3>1 DEF Reading, Burst
    <3>3. axi'.r = <<>> /\ axi'.ar = <<>> /\ axi'.beat = 0
      BY <1>2, <2>2, <2>6, <3>2 DEF Burst
    <3>4. core'.rs = "IDLE"
      BY <1>9, <2>6 DEF Fills
    <3> QED BY <3>3, <3>4 DEF Reading
  <2> QED BY <2>4, <2>5, <2>6
<1> QED BY <1>1, <1>4, <1>5, <1>6, <1>7, <1>8, <1>9 DEF CacheStep

-----------------------------------------------------------------------------
(* What an edge does to memory, as the host and the cache know it. *)

\* An edge leaves every quadword as it is to be, but for the store that is looked up.
LEMMA AheadKept ==
  ASSUME RunEdge, NEW b \in Line \X Half, NEW h \in Half
  PROVE  /\ ~(core.rs = "LOOKUP" /\ core.r.we = TRUE) => Ahead(b, h)' = Ahead(b, h)
         /\ core.rs = "LOOKUP" /\ core.r.we = TRUE =>
              /\ Ahead(b, h) = host.memory[b][h]
              /\ Ahead(b, h)' = IF Beat(core.r.addr) = b /\ core.r.addr.half = h THEN core.r.data
                                ELSE host.memory[b][h]
         /\ core.ack = FALSE => host'.memory = host.memory
<1>1. /\ Granted /\ Looked /\ CacheStep(core, core') /\ core.ack \in BOOLEAN
      /\ core.st \in {"IDLE", "DATA", "INST"}
  BY Channels DEF RunEdge, Underway, Core, States
<1>2. core.ack = FALSE => host'.memory = host.memory
  BY StepOfHost DEF Answering
<1>3. CASE Waits(core, core')
  <2>1. core.rs = "IDLE" /\ core.req = None /\ core'.rs = "IDLE" /\ core'.ack = FALSE
    BY <1>3 DEF Waits
  <2>2. Ahead(b, h)' = host'.memory[b][h]
    BY <2>1 DEF Ahead, Written, Writing
  <2>3. CASE Answering
    <3>1. core.r = cpu.d /\ Written
      BY <1>1, <2>1, <2>3 DEF Granted, Asked, Answering, Written
    <3>2. Ahead(b, h) = IF b = Beat(cpu.d.addr) /\ h = cpu.d.addr.half THEN cpu.d.data
                        ELSE host.memory[b][h]
      BY <3>1 DEF Ahead
    <3> QED BY <1>2, <2>1, <2>2, <2>3, <3>2, StepOfHost
  <2>4. CASE ~Answering
    <3>1. host'.memory = host.memory
      BY <2>4, StepOfHost
    <3>2. ~(core.ack = TRUE /\ core.r.we = TRUE)
      <4>1. core.st = "DATA" => ~(core.ack = TRUE /\ core.r.we = TRUE)
        BY <1>1, <2>1, <2>4 DEF Granted, Asked, Answering
      <4>2. core.st = "INST" => ~(core.ack = TRUE /\ core.r.we = TRUE)
        BY <1>1, <2>1 DEF Granted, Asked, Asks
      <4>3. core.st = "IDLE" => core.ack = FALSE
        BY <1>1 DEF Granted
      <4> QED BY <1>1, <4>1, <4>2, <4>3
    <3>3. ~Written
      BY <2>1, <3>2 DEF Written, Writing
    <3> QED BY <2>1, <2>2, <3>1, <3>3 DEF Ahead
  <2> QED BY <2>3, <2>4
<1>4. CASE ~Waits(core, core')
  <2>1. core.ack = FALSE /\ host'.memory = host.memory
    BY <1>1, <1>2, <1>4, Phases
  <2>2. CASE Takes(core, core')
    <3>1. ~Written /\ ~Written' /\ core.rs = "IDLE"
      BY <2>1, <2>2 DEF Takes, Written, Writing
    <3> QED BY <2>1, <3>1 DEF Ahead
  <2>3. CASE LooksUp(core, core')
    <3>1. core.rs = "LOOKUP" /\ core'.r = core.r /\ ~Written
      BY <2>3 DEF LooksUp, RequestKept, Written, Writing
    <3>2. CASE core.r.we = TRUE
      <4>1. Written'
        BY <2>3, <3>2 DEF LooksUp, Written, Writing
      <4> QED BY <2>1, <3>1, <3>2, <4>1 DEF Ahead
    <3>3. CASE core.r.we # TRUE
      <4>1. ~Written'
        BY <2>3, <3>1, <3>3 DEF LooksUp, Written, Writing
      <4> QED BY <2>1, <3>1, <3>3, <4>1 DEF Ahead
    <3> QED BY <3>2, <3>3
  <2>4. CASE Bursts(core, core')
    <3>1. ~Written /\ ~Written' /\ core.rs = "AR"
      BY <2>4 DEF Bursts, Written, Writing
    <3> QED BY <2>1, <3>1 DEF Ahead
  <2>5. CASE Fills(core, core')
    <3>1. core.rs = "R" /\ core.r.we = FALSE /\ core'.r = core.r
      BY <1>1, <2>5 DEF Fills, Looked, RequestKept
    <3>2. ~Written /\ ~Written'
      BY <2>5, <3>1 DEF Fills, Written, Writing
    <3> QED BY <2>1, <3>1, <3>2 DEF Ahead
  <2>6. CASE Stores(core, core')
    <3>1. Writing /\ core'.r = core.r
      BY <2>6 DEF Stores, RequestKept, Writing
    <3>2. core.r.we = TRUE
      BY <1>1, <3>1 DEF Looked
    <3>3. Written /\ Written'
      BY <2>6, <3>1, <3>2 DEF Stores, Written, Writing
    <3> QED BY <2>1, <3>1, <3>3 DEF Ahead, Writing
  <2> QED BY <1>1, <1>4, <2>2, <2>3, <2>4, <2>5, <2>6 DEF CacheStep
<1> QED BY <1>2, <1>3, <1>4

\* What is known of the lines and of the request before the edge.
LEMMA Entries ==
  ASSUME RunEdge
  PROVE  /\ EeMemoryAssumption /\ core \in Core /\ core' \in Core /\ CacheStep(core, core')
         /\ CacheAgrees /\ HbmAgrees /\ Looked
         /\ \A i \in 0 .. Indices - 1 : core.lines[i] \in Entry
         /\ \A l \in Line, b \in Half : <<l, b>> \in Line \X Half
         /\ core.rs # "IDLE" => /\ core.r \in Request /\ core.r.addr \in Where /\ core.r.we \in BOOLEAN
                                /\ core.r.addr.line \in Line /\ core.r.addr.beat \in Half
                                /\ core.r.addr.half \in Half /\ core.r.data \in Datum
                                /\ index(core.r.addr.line) \in 0 .. Indices - 1
                                /\ Beat(core.r.addr) = <<core.r.addr.line, core.r.addr.beat>>
                                /\ core.r.addr.line # None /\ core.ack = FALSE /\ host'.memory = host.memory
<1>1. /\ EeMemoryAssumption /\ core \in Core /\ core' \in Core /\ CacheStep(core, core')
      /\ CacheAgrees /\ HbmAgrees /\ Looked /\ Granted
  BY Channels, StepOfCore DEF RunEdge, Underway
<1>2. \A i \in 0 .. Indices - 1 : core.lines[i] \in Entry
  BY <1>1 DEF Core, Lines
<1>3. CASE core.rs # "IDLE"
  <2>1. core.r \in Request
    BY <1>1, <1>3, RequestHeld DEF RunEdge, Types
  <2>2. core.r.addr \in Where /\ core.r.we \in BOOLEAN /\ core.r.data \in Datum
    BY <2>1 DEF Request
  <2>3. core.ack = FALSE
    BY <1>1, <1>3 DEF Granted, Core
  <2>4. host'.memory = host.memory
    BY <2>3, StepOfHost DEF Answering
  <2>5. /\ core.r.addr.line \in Line /\ core.r.addr.beat \in Half /\ core.r.addr.half \in Half
        /\ index(core.r.addr.line) \in 0 .. Indices - 1
        /\ Beat(core.r.addr) = <<core.r.addr.line, core.r.addr.beat>>
    BY <1>1, <2>2, Located
  <2>6. core.r.addr.line # None
    BY <1>1, <2>5 DEF EeMemoryAssumption
  <2> QED BY <1>1, <1>2, <1>3, <2>1, <2>2, <2>3, <2>4, <2>5, <2>6
<1> QED BY <1>1, <1>2, <1>3

\* HBM is behind memory by the store whose beat it has not taken, and by nothing else.
LEMMA HbmKept == ASSUME RunEdge PROVE HbmAgrees'
<1>1. /\ Granted /\ Looked /\ Storing /\ HbmAgrees /\ CacheStep(core, core')
      /\ core.aw = None => axi'.aw = axi.aw
      /\ axi'.hbm = axi.hbm
      /\ core.rs # "AW" => core.aw = None
  BY Channels, StepOfAxi DEF RunEdge, Underway
<1> SUFFICES ASSUME NEW b \in Line \X Half, NEW h \in Half
             PROVE  axi'.hbm[b][h] = IF Unwritten' THEN host'.memory[b][h] ELSE Ahead(b, h)'
  BY DEF HbmAgrees
<1>2. axi'.hbm[b][h] = IF Unwritten THEN host.memory[b][h] ELSE Ahead(b, h)
  BY <1>1 DEF HbmAgrees
<1>3. CASE ~Unwritten /\ ~Unwritten' /\ ~(core.rs = "LOOKUP" /\ core.r.we = TRUE)
  BY <1>2, <1>3, AheadKept
<1>4. CASE Unwritten /\ Unwritten' /\ core.rs # "IDLE"
  BY <1>2, <1>4, Entries
<1>5. CASE Waits(core, core')
  BY <1>3, <1>5 DEF Waits, Unwritten, Writing
<1>6. CASE Takes(core, core')
  BY <1>3, <1>6 DEF Takes, Unwritten, Writing
<1>7. CASE Bursts(core, core')
  BY <1>3, <1>7 DEF Bursts, Unwritten, Writing
<1>8. CASE Fills(core, core')
  BY <1>3, <1>8 DEF Fills, Unwritten, Writing
<1>9. CASE LooksUp(core, core')
  <2>1. core.rs = "LOOKUP" /\ ~Unwritten
    BY <1>9 DEF LooksUp, Unwritten, Writing
  <2>2. CASE core.r.we = TRUE
    <3>1. Unwritten'
      BY <1>9, <2>2 DEF LooksUp, Unwritten, Writing
    <3>2. host'.memory = host.memory
      BY <2>1, Entries
    <3>3. Ahead(b, h) = host.memory[b][h]
      BY <2>1, <2>2, AheadKept
    <3> QED BY <1>2, <2>1, <3>1, <3>2, <3>3
  <2>3. CASE core.r.we # TRUE
    <3>1. ~Unwritten'
      BY <1>9, <2>3 DEF LooksUp, Unwritten, Writing
    <3> QED BY <1>3, <2>1, <2>3, <3>1
  <2> QED BY <2>2, <2>3
<1>10. CASE Stores(core, core')
  <2>1. CASE core.rs = "AW"
    BY <1>4, <1>10, <2>1 DEF Stores, Unwritten, Writing
  <2>2. CASE core.rs = "W"
    <3>0. axi.aw = <<Beat(core.r.addr)>> /\ axi'.aw = axi.aw
      BY <1>1, <2>2 DEF Storing, Posted
    <3>1. axi'.aw # <<>>
      <4>1. \A x : <<x>> # <<>>
        OBVIOUS
      <4> QED BY <3>0, <4>1
    <3> QED BY <1>4, <1>10, <2>2, <3>1 DEF Stores, Unwritten, Writing
  <2>3. CASE core.rs = "B" /\ axi.b > 0
    <3>1. axi.aw = <<>>
      BY <1>1, <2>3 DEF Storing, Posted
    <3>2. core'.rs = "IDLE"
      BY <1>10, <2>3 DEF Stores
    <3> QED BY <1>3, <2>3, <3>1, <3>2 DEF Unwritten, Writing
  <2>4. CASE core.rs = "B" /\ ~(axi.b > 0)
    <3>1. core'.rs = "B" /\ axi'.aw = axi.aw
      BY <1>1, <1>10, <2>4 DEF Stores
    <3>2. Unwritten' <=> Unwritten
      BY <2>4, <3>1 DEF Unwritten, Writing
    <3> QED BY <1>3, <1>4, <2>4, <3>2
  <2> QED BY <1>10, <2>1, <2>2, <2>3, <2>4 DEF Stores
<1> QED BY <1>1, <1>5, <1>6, <1>7, <1>8, <1>9, <1>10 DEF CacheStep

\* A beat as the cache is to have it.
HasBeat(line, b, quads) == \A h \in Half : quads[h] = Ahead(<<line, b>>, h)

\* What is in HBM while nothing is being written, beat by beat.
LEMMA FromHbm ==
  ASSUME RunEdge, core.rs = "R", NEW b \in Half
  PROVE  /\ HasBeat(core.r.addr.line, b, axi.hbm[<<core.r.addr.line, b>>])
         /\ HasBeat(core.r.addr.line, b, axi.hbm[<<core.r.addr.line, b>>])'
         /\ \A h \in Half : axi.hbm[<<core.r.addr.line, b>>][h] = host.memory[<<core.r.addr.line, b>>][h]
<1>1. /\ HbmAgrees /\ <<core.r.addr.line, b>> \in Line \X Half /\ ~Unwritten /\ ~Written
      /\ axi'.hbm = axi.hbm
  BY Entries, Channels, StepOfAxi DEF Unwritten, Writing, Written
<1>2. \A h \in Half : axi.hbm[<<core.r.addr.line, b>>][h] = Ahead(<<core.r.addr.line, b>>, h)
  BY <1>1 DEF HbmAgrees
<1>3. PICK q \in Line \X Half : q = <<core.r.addr.line, b>>
  BY <1>1
<1>4. \A h \in Half : Ahead(<<core.r.addr.line, b>>, h) = host.memory[<<core.r.addr.line, b>>][h]
  BY <1>1 DEF Ahead
<1>5. core'.r = core.r
  BY Entries, Goes DEF Waits
<1>6. \A h \in Half : Ahead(q, h)' = Ahead(q, h)
  BY AheadKept
<1>7. HasBeat(core.r.addr.line, b, axi.hbm[<<core.r.addr.line, b>>])
  BY <1>2 DEF HasBeat
<1>8. HasBeat(core.r.addr.line, b, axi.hbm[<<core.r.addr.line, b>>])'
  <2>1. SUFFICES ASSUME NEW h \in Half
                 PROVE  (axi.hbm[<<core.r.addr.line, b>>][h] = Ahead(<<core.r.addr.line, b>>, h))'
    BY DEF HasBeat
  <2>2. (<<core.r.addr.line, b>>)' = q
    BY <1>3, <1>5
  <2>3. axi'.hbm[q][h] = Ahead(q, h)'
    BY <1>1, <1>2, <1>3, <1>6
  <2>4. Ahead(<<core.r.addr.line, b>>, h)' = Ahead(q, h)'
    BY <2>2 DEF Ahead
  <2> QED BY <2>2, <2>3, <2>4
<1> QED BY <1>2, <1>4, <1>7, <1>8

\* The cache holds what is to be there: a hit is merged, a fill takes both beats from HBM.
Sound(i, e) ==
    e.tag # None => /\ index(e.tag) = i
                    /\ ~Filling(i) => \A b \in Half : HasBeat(e.tag, b, e.data[b])

LEMMA SoundIs == CacheAgrees <=> \A i \in 0 .. Indices - 1 : Sound(i, core.lines[i])
  BY DEF CacheAgrees, Sound, HasBeat

\* An entry that an edge leaves alone stays sound, unless its quadword is stored to.
LEMMA SoundKept ==
  ASSUME RunEdge, NEW i \in 0 .. Indices - 1, core'.lines[i] = core.lines[i],
         Filling(i) => Filling(i)',
         core.rs = "LOOKUP" /\ core.r.we = TRUE => core.lines[i].tag # core.r.addr.line
  PROVE  Sound(i, core.lines[i])'
<1>1. Sound(i, core.lines[i]) /\ core.lines[i] \in Entry
  BY Entries, SoundIs
<1>0. PICK e : e = core.lines[i]
  OBVIOUS
<1>2. Sound(i, core.lines[i])' <=> Sound(i, e)'
  BY <1>0 DEF Sound, HasBeat, Ahead
<1> SUFFICES ASSUME e.tag # None, ~Filling(i)', NEW b \in Half, NEW h \in Half
             PROVE  e.data[b][h] = Ahead(<<e.tag, b>>, h)'
  BY <1>0, <1>1, <1>2 DEF Sound, HasBeat
<1>3. PICK q \in Line \X Half : q = <<e.tag, b>>
  BY <1>0, <1>1, Entries DEF Entry
<1>6. e.data[b][h] = Ahead(q, h)
  BY <1>0, <1>1, <1>3 DEF Sound, HasBeat
<1>4. CASE ~(core.rs = "LOOKUP" /\ core.r.we = TRUE)
  BY <1>3, <1>4, <1>6, AheadKept
<1>5. CASE core.rs = "LOOKUP" /\ core.r.we = TRUE
  <2>1. Beat(core.r.addr) # q
    BY <1>0, <1>3, <1>5, Entries
  <2>2. Ahead(q, h) = host.memory[q][h] /\ Ahead(q, h)' = host.memory[q][h]
    BY <1>5, <2>1, AheadKept
  <2> QED BY <1>3, <1>6, <2>2
<1> QED BY <1>4, <1>5

\* A store that hits is merged into its beat of the line.
LEMMA MergeSound ==
  ASSUME RunEdge, core.rs = "LOOKUP", core.r.we = TRUE, Hit(core), core'.r = core.r,
         NEW k, k = index(core.r.addr.line),
         core'.lines = LinesWith(core, core.r.addr.beat, Merged(core))
  PROVE  Sound(k, core.lines[k])'
<1>1. /\ core.lines[k] \in Entry /\ core.q = core.lines[k] /\ Sound(k, core.lines[k])
      /\ k \in 0 .. Indices - 1
  BY Entries, SoundIs DEF Looked
<1>2. PICK L, m : L = LinesWith(core, core.r.addr.beat, m) /\ m = Merged(core)
  OBVIOUS
<1>3. /\ m \in Quads /\ m[core.r.addr.half] = core.r.data
      /\ \A h \in Half : h # core.r.addr.half => m[h] = core.q.data[core.r.addr.beat][h]
  BY <1>2, Entries, MergedIs
<1>4. /\ L[k].tag = core.lines[k].tag /\ L[k].data[core.r.addr.beat] = m
      /\ \A b \in Half : b # core.r.addr.beat => L[k].data[b] = core.lines[k].data[b]
  BY <1>2, <1>3, Entries, LinesWithIs
<1>5. core.lines[k].tag = core.r.addr.line /\ core'.lines = L
  BY <1>1, <1>2 DEF Hit
<1>6. ~Filling(k)
  BY DEF Filling
<1>0. PICK l \in Line : l = core.r.addr.line
  BY Entries
<1> SUFFICES ASSUME NEW b \in Half, NEW h \in Half
             PROVE  L[k].data[b][h] = Ahead(<<l, b>>, h)'
  <2>1. core'.lines[k].tag = l /\ core'.lines[k].data = L[k].data /\ index(l) = k
    BY <1>0, <1>4, <1>5
  <2>2. ASSUME NEW b \in Half, NEW h \in Half, L[k].data[b][h] = Ahead(<<l, b>>, h)'
        PROVE  (core.lines[k].data[b][h] = Ahead(<<core.lines[k].tag, b>>, h))'
    BY <2>1, <2>2 DEF Ahead
  <2> QED BY <2>1, <2>2 DEF Sound, HasBeat
<1>7. PICK q \in Line \X Half : q = <<l, b>>
  BY Entries
<1>8. core.lines[k].data[b][h] = Ahead(q, h)
  <2>1. core.lines[k].tag = l /\ l # None
    BY <1>0, <1>5, Entries DEF EeMemoryAssumption
  <2>2. HasBeat(core.lines[k].tag, b, core.lines[k].data[b])
    BY <1>1, <1>6, <2>1 DEF Sound
  <2>3. <<core.lines[k].tag, b>> = q
    BY <1>7, <2>1
  <2> QED BY <2>2, <2>3 DEF HasBeat
<1>9. /\ Ahead(q, h) = host.memory[q][h]
      /\ Ahead(q, h)' = IF Beat(core.r.addr) = q /\ core.r.addr.half = h THEN core.r.data
                        ELSE host.memory[q][h]
  BY AheadKept
<1>10. CASE b = core.r.addr.beat /\ h = core.r.addr.half
  BY <1>0, <1>3, <1>4, <1>7, <1>9, <1>10, Entries
<1>11. CASE b = core.r.addr.beat /\ h # core.r.addr.half
  <2>1. L[k].data[b][h] = core.lines[k].data[b][h]
    <3>1. m[h] = core.q.data[b][h]
      BY <1>3, <1>11
    <3>2. core.q = core.lines[k]
      BY <1>1
    <3>3. L[k].data[b] = m
      BY <1>4, <1>11
    <3> QED BY <3>1, <3>2, <3>3
  <2>2. Ahead(q, h)' = Ahead(q, h)
    BY <1>9, <1>11
  <2> QED BY <1>7, <1>8, <2>1, <2>2
<1>12. CASE b # core.r.addr.beat
  <2>1. Beat(core.r.addr) # q
    BY <1>7, <1>12, Entries
  <2> QED BY <1>4, <1>7, <1>8, <1>9, <1>12, <2>1
<1> QED BY <1>10, <1>11, <1>12

\* The last beat of a fill makes the line whole.
LEMMA FillSound ==
  ASSUME RunEdge, core.rs = "R", core.beat = 1, axi.r # <<>>, core'.rs = "IDLE",
         NEW k, k = index(core.r.addr.line),
         core'.lines = Tagged(LinesWith(core, core.beat, Head(axi.r).data), k, core.r.addr.line)
  PROVE  Sound(k, core.lines[k])'
<1>1. /\ Head(axi.r).data = axi.hbm[<<core.r.addr.line, 1>>] /\ 0 \in Half /\ 1 \in Half
      /\ core.lines[k].data[0] = axi.hbm[<<core.r.addr.line, 0>>]
  BY BurstMoments, Channels DEF Reading, Half
<1>2. PICK v, L : v = Head(axi.r).data /\ L = LinesWith(core, 1, v)
  OBVIOUS
<1>3. v \in Quads
  BY <1>1, <1>2, Channels, Entries DEF AxiType, Memory
<1>4. L[k].data[1] = v /\ L[k].data[0] = core.lines[k].data[0]
  BY <1>1, <1>2, <1>3, Entries, LinesWithIs
<1>5. Tagged(L, k, core.r.addr.line)[k].tag = core.r.addr.line
      /\ Tagged(L, k, core.r.addr.line)[k].data = L[k].data
  BY <1>1, <1>2, <1>3, Entries, LinesWithIs
<1>6. core'.lines[k].tag = core.r.addr.line /\ core'.lines[k].data = L[k].data
  BY <1>2, <1>5
<1>7. \A b \in Half : b = 0 \/ b = 1
  BY DEF Half
<1>8. \A b \in Half : L[k].data[b] = axi.hbm[<<core.r.addr.line, b>>]
  BY <1>1, <1>2, <1>4, <1>7
<1>9. \A b \in Half : HasBeat(core.r.addr.line, b, axi.hbm[<<core.r.addr.line, b>>])'
  BY FromHbm
<1>10. axi'.hbm = axi.hbm /\ core'.r = core.r
  BY Channels, StepOfAxi, Goes DEF Waits
<1>11. \A b \in Half : HasBeat(core.lines[k].tag, b, core.lines[k].data[b])'
  <2>1. SUFFICES ASSUME NEW b \in Half PROVE HasBeat(core.lines[k].tag, b, core.lines[k].data[b])'
    OBVIOUS
  <2>2. core'.lines[k].tag = core'.r.addr.line /\ core'.lines[k].data[b] = axi'.hbm[<<core'.r.addr.line, b>>]
    BY <1>6, <1>8, <1>10
  <2>3. HasBeat(core.r.addr.line, b, axi.hbm[<<core.r.addr.line, b>>])'
    BY <1>9
  <2> QED BY <2>2, <2>3 DEF HasBeat, Ahead
<1>12. index(core'.lines[k].tag) = k
  BY <1>6
<1> QED BY <1>11, <1>12 DEF Sound

\* Of another entry than the request's, and of a request that is not under way.
LEMMA CacheKept == ASSUME RunEdge PROVE CacheAgrees'
<1>1. /\ CacheStep(core, core') /\ \A i \in 0 .. Indices - 1 : Sound(i, core.lines[i])
      /\ \A i \in 0 .. Indices - 1 : core.lines[i] \in Entry
  BY Entries, SoundIs
<1>2. ASSUME core.rs = "LOOKUP" => core.r.we # TRUE, core.rs # "R", core'.lines = core.lines
      PROVE  CacheAgrees'
  <2>1. ASSUME NEW i \in 0 .. Indices - 1 PROVE Sound(i, core.lines[i])'
    <3>1. ~Filling(i) /\ core'.lines[i] = core.lines[i]
      BY <1>2 DEF Filling
    <3> QED BY <1>2, <3>1, SoundKept
  <2> QED BY <2>1 DEF CacheAgrees, Sound, HasBeat
<1>3. CASE Waits(core, core')
  BY <1>2, <1>3 DEF Waits, DataKept
<1>4. CASE Takes(core, core')
  BY <1>2, <1>4 DEF Takes, DataKept
<1>5. CASE Bursts(core, core')
  BY <1>2, <1>5 DEF Bursts, DataKept
<1>6. CASE Stores(core, core')
  BY <1>2, <1>6 DEF Stores, DataKept
<1>7. CASE LooksUp(core, core')
  <2>1. core.rs = "LOOKUP" /\ core'.r = core.r
    BY <1>7 DEF LooksUp, RequestKept
  <2>2. CASE core.r.we # TRUE
    BY <1>2, <1>7, <2>1, <2>2 DEF LooksUp
  <2>3. CASE core.r.we = TRUE
    <3>0. PICK k \in 0 .. Indices - 1 : k = index(core.r.addr.line)
      BY <2>1, Entries
    <3>1. core.q = core.lines[k] /\ \A i \in 0 .. Indices - 1 : ~Filling(i)
      BY <2>1, <3>0, Entries DEF Looked, Filling
    <3>2. ASSUME NEW i \in 0 .. Indices - 1, i # k \/ ~Hit(core)
          PROVE  Sound(i, core.lines[i])'
      <4>1. core'.lines[i] = core.lines[i]
        <5>1. CASE ~Hit(core)
          BY <1>7, <2>3, <5>1 DEF LooksUp
        <5>2. CASE Hit(core)
          <6>1. PICK L, m : L = LinesWith(core, core.r.addr.beat, m) /\ m = Merged(core)
            OBVIOUS
          <6>2. core'.lines = L /\ m \in Quads
            BY <1>7, <2>1, <2>3, <5>2, <6>1, Entries, MergedIs DEF LooksUp
          <6>3. L[i] = core.lines[i]
            BY <2>1, <3>0, <3>2, <5>2, <6>1, <6>2, Entries, LinesWithIs
          <6> QED BY <6>2, <6>3
        <5> QED BY <5>1, <5>2
      <4>2. core.lines[i].tag # core.r.addr.line
        <5>1. CASE i # k
          <6>1. core.lines[i].tag # None => index(core.lines[i].tag) = i
            BY <1>1 DEF Sound
          <6> QED BY <2>1, <3>0, <5>1, <6>1, Entries
        <5>2. CASE i = k
          BY <3>1, <3>2, <5>2 DEF Hit
        <5> QED BY <5>1, <5>2
      <4> QED BY <3>1, <4>1, <4>2, SoundKept
    <3>3. Hit(core) => Sound(k, core.lines[k])'
      BY <1>7, <2>1, <2>3, <3>0, MergeSound DEF LooksUp
    <3> QED BY <3>2, <3>3 DEF CacheAgrees, Sound, HasBeat
  <2> QED BY <2>2, <2>3
<1>8. CASE Fills(core, core')
  <2>1. core.rs = "R" /\ core'.r = core.r
    BY <1>8 DEF Fills, RequestKept
  <2>0. PICK k \in 0 .. Indices - 1 : k = index(core.r.addr.line)
    BY <2>1, Entries
  <2>2. CASE core'.lines = core.lines /\ core'.rs = "R"
    <3>1. ASSUME NEW i \in 0 .. Indices - 1 PROVE Sound(i, core.lines[i])'
      <4>1. Filling(i) => Filling(i)'
        BY <2>1, <2>2 DEF Filling
      <4> QED BY <2>1, <2>2, <4>1, SoundKept
    <3> QED BY <3>1 DEF CacheAgrees, Sound, HasBeat
  <2>3. PICK L, v : v = Head(axi.r).data /\ L = LinesWith(core, core.beat, v)
    OBVIOUS
  <2>4. axi.r # <<>> => /\ v \in Quads
                        /\ \A i \in 0 .. Indices - 1 : i # k => /\ L[i] = core.lines[i]
                                                                /\ Tagged(L, k, core.r.addr.line)[i] = core.lines[i]
                        /\ L[k].tag = core.lines[k].tag
    <3>1. core.beat \in Half
      BY <2>1, BurstMoments
    <3>2. axi.r # <<>> => v \in Quads
      BY <2>1, <2>3, BurstMoments, Channels, Entries DEF AxiType, Memory
    <3> QED BY <2>0, <2>1, <2>3, <3>1, <3>2, Entries, LinesWithIs
  <2>5. CASE axi.r # <<>> /\ core'.rs = "R" /\ core'.lines = L
    <3>1. ASSUME NEW i \in 0 .. Indices - 1 PROVE Sound(i, core.lines[i])'
      <4>1. CASE i # k
        <5>1. core'.lines[i] = core.lines[i] /\ ~Filling(i)
          BY <2>0, <2>4, <2>5, <4>1 DEF Filling
        <5> QED BY <2>1, <5>1, SoundKept
      <4>2. CASE i = k
        <5>1. Filling(k)'
          BY <2>0, <2>1, <2>5 DEF Filling
        <5>2. core'.lines[k].tag = core.lines[k].tag
          BY <2>4, <2>5
        <5>3. core'.lines[k].tag # None => index(core'.lines[k].tag) = k
          BY <1>1, <5>2 DEF Sound
        <5> QED BY <4>2, <5>1, <5>3 DEF Sound
      <4> QED BY <4>1, <4>2
    <3> QED BY <3>1 DEF CacheAgrees, Sound, HasBeat
  <2>6. CASE /\ axi.r # <<>> /\ Head(axi.r).last /\ core'.rs = "IDLE"
             /\ core'.lines = Tagged(L, k, core.r.addr.line)
    <3>1. ASSUME NEW i \in 0 .. Indices - 1 PROVE Sound(i, core.lines[i])'
      <4>1. CASE i # k
        <5>1. core'.lines[i] = core.lines[i] /\ ~Filling(i)
          BY <2>0, <2>4, <2>6, <4>1 DEF Filling
        <5> QED BY <2>1, <5>1, SoundKept
      <4>2. CASE i = k
        <5>1. core.beat = 1
          BY <2>1, <2>6, BurstMoments
        <5> QED BY <2>0, <2>1, <2>3, <2>6, <4>2, <5>1, FillSound
      <4> QED BY <4>1, <4>2
    <3> QED BY <3>1 DEF CacheAgrees, Sound, HasBeat
  <2> QED BY <1>8, <2>0, <2>2, <2>3, <2>5, <2>6 DEF Fills, DataKept
<1> QED BY <1>1, <1>3, <1>4, <1>5, <1>6, <1>7, <1>8 DEF CacheStep

\* The answer of the cache: of the line it hit, or of the beats HBM gave.
LEMMA RightKept == ASSUME RunEdge PROVE Right'
<1> SUFFICES ASSUME core'.ack = TRUE, core'.r.we = FALSE
             PROVE  core'.rdata = host'.memory[Beat(core'.r.addr)][core'.r.addr.half]
  BY DEF Right
<1>1. CacheStep(core, core') /\ Looked /\ CacheAgrees
  BY Entries
<1>2. CASE LooksUp(core, core')
  <2>1. /\ core.rs = "LOOKUP" /\ core'.r = core.r /\ core.r.we = FALSE /\ Hit(core)
        /\ core'.rdata = core.q.data[core.r.addr.beat][core.r.addr.half]
    BY <1>2 DEF LooksUp, RequestKept
  <2>2. PICK k \in 0 .. Indices - 1 : k = index(core.r.addr.line)
    BY <2>1, Entries
  <2>3. core.q = core.lines[k] /\ core.lines[k].tag = core.r.addr.line /\ core.r.addr.line # None
    BY <1>1, <2>1, <2>2, Entries DEF Looked, Hit
  <2>4. ~Filling(k) /\ ~Written
    BY <2>1 DEF Filling, Written, Writing
  <2>5. core.lines[k].data[core.r.addr.beat][core.r.addr.half] =
          Ahead(<<core.r.addr.line, core.r.addr.beat>>, core.r.addr.half)
    <3>1. Sound(k, core.lines[k]) /\ core.lines[k].tag # None
      BY <1>1, <2>3, SoundIs
    <3>2. core.r.addr.beat \in Half /\ core.r.addr.half \in Half
      BY <2>1, Entries
    <3>3. HasBeat(core.lines[k].tag, core.r.addr.beat, core.lines[k].data[core.r.addr.beat])
      BY <2>4, <3>1, <3>2 DEF Sound
    <3> QED BY <2>3, <3>2, <3>3 DEF HasBeat
  <2>6. Ahead(<<core.r.addr.line, core.r.addr.beat>>, core.r.addr.half) =
          host.memory[Beat(core.r.addr)][core.r.addr.half]
    BY <2>1, <2>4, Entries DEF Ahead
  <2> QED BY <2>1, <2>3, <2>5, <2>6, Entries
<1>3. CASE Fills(core, core')
  <2>1. /\ core.rs = "R" /\ core'.r = core.r /\ axi.r # <<>> /\ Head(axi.r).last
        /\ core'.rdata = Got(core)
    BY <1>3 DEF Fills, RequestKept
  <2>2. core.beat = 1 /\ Head(axi.r).data = axi.hbm[<<core.r.addr.line, 1>>]
    BY <2>1, BurstMoments
  <2>3. core.r.addr.beat = 0 => core.rdata = axi.hbm[<<core.r.addr.line, 0>>][core.r.addr.half]
    BY <2>1, <2>2, Channels DEF Reading
  <2>4. core.r.addr.beat = 0 \/ core.r.addr.beat = 1
    BY <2>1, Entries DEF Half
  <2>5. Got(core) = axi.hbm[<<core.r.addr.line, core.r.addr.beat>>][core.r.addr.half]
    BY <2>2, <2>3, <2>4 DEF Got
  <2>6. axi.hbm[<<core.r.addr.line, core.r.addr.beat>>][core.r.addr.half] =
          host.memory[<<core.r.addr.line, core.r.addr.beat>>][core.r.addr.half]
    BY <2>1, FromHbm, Entries
  <2> QED BY <2>1, <2>5, <2>6, Entries
<1>4. CASE Stores(core, core')
  BY <1>1, <1>4 DEF Stores, RequestKept, Looked, Writing
<1>5. ~Waits(core, core') /\ ~Takes(core, core') /\ ~Bursts(core, core')
  BY DEF Waits, Takes, Bursts
<1> QED BY <1>1, <1>2, <1>3, <1>4, <1>5 DEF CacheStep

\* The core is given what the cache answered, of the access or the fetch that is its turn.
LEMMA CurrentKept == ASSUME RunEdge PROVE Current'
<1>1. /\ Granted /\ Right /\ InOrder /\ Turned(core') /\ core.ack \in BOOLEAN
      /\ core.fq \in Seq(Where) /\ Pulse \in Seq(Where) /\ Pulse' \in Seq(Where)
  BY Entries, StepOfCore, StepOfCpu DEF RunEdge, Underway, Core
<1>2. core'.dready # None /\ ~cpu'.d.we =>
        core'.dready[1] = host'.memory[Beat(cpu'.d.addr)][cpu'.d.addr.half]
  <2> SUFFICES ASSUME core'.dready # None, ~cpu'.d.we
               PROVE  core'.dready[1] = host'.memory[Beat(cpu'.d.addr)][cpu'.d.addr.half]
    OBVIOUS
  <2>1. core.st = "DATA" /\ core.ack = TRUE /\ core'.dready = <<core.rdata>>
    BY <1>1 DEF Turned, Turn
  <2>2. core.dready = None /\ cpu.d # None /\ core.req = None /\ core.r = cpu.d
    BY <1>1, <2>1 DEF Granted, Asked
  <2>3. cpu'.d = cpu.d /\ cpu.d \in Request
    BY <2>2, StepOfCpu DEF RunEdge, Types, CpuType
  <2>4. cpu.d.we = FALSE
    BY <2>3 DEF Request
  <2>5. host'.memory = host.memory
    BY <2>4, StepOfHost DEF Answering
  <2>6. core.rdata = host.memory[Beat(core.r.addr)][core.r.addr.half]
    BY <1>1, <2>1, <2>2, <2>4 DEF Right
  <2>7. core'.dready[1] = core.rdata
    BY <2>1
  <2> QED BY <2>2, <2>3, <2>5, <2>6, <2>7
<1>3. core'.iready # None =>
        core'.iready[1] = host'.memory[Beat(Head(cpu'.wait))][Head(cpu'.wait).half]
  <2> SUFFICES ASSUME core'.iready # None
               PROVE  core'.iready[1] = host'.memory[Beat(Head(cpu'.wait))][Head(cpu'.wait).half]
    OBVIOUS
  <2>1. core.st = "INST" /\ core.ack = TRUE /\ core'.iready = <<core.rdata>>
    BY <1>1 DEF Turned, Turn
  <2>2. /\ core.iready = None /\ core.fq # <<>> /\ core.req = None
        /\ core.r = Asks(FALSE, Head(core.fq), None)
    BY <1>1, <2>1 DEF Granted, Asked
  <2>3. cpu'.wait = (core.fq \o Pulse) \o Pulse'
    BY <1>1, <2>2, StepOfCpu DEF InOrder
  <2>4. \A q \in Seq(Where), p \in Seq(Where) : q # <<>> => q \o p # <<>> /\ Head(q \o p) = Head(q)
    BY FrontStays
  <2>5. PICK q : q = core.fq \o Pulse
    OBVIOUS
  <2>6. q \in Seq(Where) /\ q # <<>> /\ Head(q) = Head(core.fq)
    BY <1>1, <2>2, <2>4, <2>5, ConcatProperties
  <2>7. Head(cpu'.wait) = Head(core.fq)
    BY <1>1, <2>3, <2>4, <2>5, <2>6
  <2>8. core.r.we = FALSE /\ core.r.addr = Head(core.fq)
    BY <2>2 DEF Asks
  <2>9. core.rdata = host.memory[Beat(Head(core.fq))][Head(core.fq).half]
    BY <1>1, <2>1, <2>8 DEF Right
  <2>10. host'.memory = host.memory
    BY <2>1, StepOfHost DEF Answering
  <2>11. core'.iready[1] = core.rdata
    BY <2>1
  <2> QED BY <2>7, <2>9, <2>10, <2>11
<1> QED BY <1>2, <1>3 DEF Current

\* An edge while the EE runs keeps all of it.
LEMMA EdgeRuns ==
  ASSUME RunEdge
  PROVE  Types' /\ Underway' /\ host'.reset = FALSE
<1>1. CoreType'
  BY StepOfCore DEF CoreType
<1>2. AxiType'
  BY Channels, StepOfAxi
<1>3. CpuType' /\ HostType' /\ host'.reset = FALSE
  BY StepOfCpu, StepOfHost
<1> QED BY <1>1, <1>2, <1>3, OrderKept, GrantKept, HbmKept, CacheKept, RightKept, LookedKept,
           ReadingKept, StoringKept, ValidsKept, CurrentKept DEF Types, Underway

-----------------------------------------------------------------------------
(* HBM serves: while the EE runs, and in reset. *)

LEMMA ReadServed ==
  ASSUME AxiType, ServeRead
  PROVE  /\ AxiType' /\ axi.ar # <<>> /\ core' = core /\ cpu' = cpu /\ host' = host
         /\ axi'.hbm = axi.hbm /\ axi'.aw = axi.aw /\ axi'.w = axi.w /\ axi'.b = axi.b
         /\ axi'.r = Append(axi.r, [data |-> axi.hbm[<<Head(axi.ar), axi.beat>>], last |-> axi.beat = 1])
         /\ axi'.beat = 1 - axi.beat
         /\ axi.beat = 1 => axi'.ar = Tail(axi.ar)
         /\ axi.beat # 1 => axi'.ar = axi.ar
<1> DEFINE v == [data |-> axi.hbm[<<Head(axi.ar), axi.beat>>], last |-> axi.beat = 1]
           ar == IF axi.beat = 1 THEN Tail(axi.ar) ELSE axi.ar
           r  == Append(axi.r, v)
           beat == 1 - axi.beat
<1>1. axi.ar # <<>> /\ core' = core /\ cpu' = cpu /\ host' = host
  BY DEF ServeRead
<1>2. axi' = [axi EXCEPT !.r = r, !.beat = beat, !.ar = ar]
  BY DEF ServeRead
<1>3. /\ axi.ar \in Seq(Line) /\ axi.beat \in Half /\ axi.r \in Seq(ReadBeat) /\ axi.hbm \in Memory
  BY DEF AxiType
<1>4. Head(axi.ar) \in Line /\ Tail(axi.ar) \in Seq(Line) /\ ar \in Seq(Line)
  BY <1>1, <1>3, HeadTailProperties
<1>5. v \in ReadBeat
  BY <1>3, <1>4 DEF Memory, ReadBeat
<1>6. r \in Seq(ReadBeat)
  BY <1>3, <1>5, AppendProperties
<1>7. beat \in Half
  BY <1>3 DEF Half
<1> HIDE DEF v, ar, r, beat
<1>8. /\ axi'.r = r /\ axi'.beat = beat /\ axi'.ar = ar
      /\ axi'.hbm = axi.hbm /\ axi'.aw = axi.aw /\ axi'.w = axi.w /\ axi'.b = axi.b
  BY <1>2 DEF AxiType
<1>9. AxiType'
  BY <1>2, <1>4, <1>6, <1>7 DEF AxiType
<1> QED BY <1>1, <1>8, <1>9 DEF v, ar, r, beat

\* A beat of a burst moves to the answers, and the address leaves with the last.
LEMMA ReadRuns ==
  ASSUME Types, Underway, ServeRead
  PROVE  Types' /\ Underway'
<1>1. Types'
  BY ReadServed DEF Types, CoreType, CpuType, HostType
<1>2. InOrder' /\ Granted' /\ Right' /\ Looked' /\ Valids' /\ Current'
  BY ReadServed
     DEF Types, Underway, InOrder, Pulse, Granted, Asked, Right, Looked, Writing, Valids, Current
<1>3. HbmAgrees' /\ CacheAgrees' /\ Storing'
  BY ReadServed
     DEF Types, Underway, HbmAgrees, Unwritten, Writing, Ahead, Written, CacheAgrees, Filling, Storing, Posted
<1>4. /\ core.rs = "R" /\ Reading
      /\ BeatOf(0)' = BeatOf(0) /\ BeatOf(1)' = BeatOf(1)
  BY ReadServed DEF Types, Underway, Reading, BeatOf
<1>5. \/ Burst(<<core.r.addr.line>>, 1, 0, <<BeatOf(0)>>)'
      \/ Burst(<<>>, 0, 0, <<BeatOf(0), BeatOf(1)>>)'
      \/ Burst(<<>>, 0, 1, <<BeatOf(1)>>)'
  <2>1. CASE Burst(<<core.r.addr.line>>, 0, 0, <<>>)
    <3>1. axi'.r = <<BeatOf(0)>> /\ axi'.beat = 1 /\ axi'.ar = axi.ar
      BY <2>1, ReadServed DEF Types, Burst, BeatOf
    <3> QED BY <1>4, <2>1, <3>1, ReadServed DEF Types, Burst
  <2>2. CASE Burst(<<core.r.addr.line>>, 1, 0, <<BeatOf(0)>>)
    <3>1. axi'.r = <<BeatOf(0), BeatOf(1)>> /\ axi'.beat = 0 /\ axi'.ar = <<>>
      BY <2>2, ReadServed DEF Types, Burst, BeatOf
    <3> QED BY <1>4, <2>2, <3>1, ReadServed DEF Types, Burst
  <2>3. CASE Burst(<<core.r.addr.line>>, 1, 1, <<>>)
    <3>1. axi'.r = <<BeatOf(1)>> /\ axi'.beat = 0 /\ axi'.ar = <<>>
      BY <2>3, ReadServed DEF Types, Burst, BeatOf
    <3> QED BY <1>4, <2>3, <3>1, ReadServed DEF Types, Burst
  <2> QED BY <1>4, <2>1, <2>2, <2>3, ReadServed DEF Types, Reading, Burst
<1>6. Reading'
  BY <1>4, <1>5, ReadServed DEF Types, Reading
<1> QED BY <1>1, <1>2, <1>3, <1>6 DEF Underway

LEMMA ReadDrains ==
  ASSUME Types, Drains, ServeRead
  PROVE  Types' /\ Drains' /\ (Blank => Blank') /\ host' = host
<1>1. Types' /\ host' = host /\ (Blank => Blank')
  BY ReadServed DEF Types, CoreType, CpuType, HostType, Blank
<1>2. axi'.ar = <<>> => axi'.beat = 0
  BY ReadServed DEF Types
<1>3. /\ core'.ar = None /\ core'.aw = None /\ core'.w = None /\ core'.rready = TRUE
      /\ axi'.aw # <<>> \/ axi'.w # <<>> \/ axi'.b > 0 => core'.bready = TRUE
      /\ Len(axi'.aw) = Len(axi'.w)
  BY ReadServed DEF Types, Drains
<1> QED BY <1>1, <1>2, <1>3 DEF Drains

LEMMA WriteServed ==
  ASSUME AxiType, ServeWrite
  PROVE  /\ AxiType' /\ axi.aw # <<>> /\ axi.w # <<>> /\ core' = core /\ cpu' = cpu /\ host' = host
         /\ axi'.ar = axi.ar /\ axi'.beat = axi.beat /\ axi'.r = axi.r
         /\ axi'.aw = Tail(axi.aw) /\ axi'.w = Tail(axi.w) /\ axi'.b = axi.b + 1
         /\ \A b \in Line \X Half, h \in Half :
              axi'.hbm[b][h] = IF b = Head(axi.aw) /\ h = Head(axi.w)[1] THEN Head(axi.w)[2] ELSE axi.hbm[b][h]
<1>1. axi.aw # <<>> /\ axi.w # <<>> /\ core' = core /\ cpu' = cpu /\ host' = host
  BY DEF ServeWrite
<1>2. /\ axi.aw \in Seq(Line \X Half) /\ axi.w \in Seq(Half \X Datum) /\ axi.b \in Nat /\ axi.hbm \in Memory
  BY DEF AxiType
<1>3. PICK to, half, datum : to = Head(axi.aw) /\ half = Head(axi.w)[1] /\ datum = Head(axi.w)[2]
  OBVIOUS
<1>4. /\ to \in Line \X Half /\ half \in Half /\ datum \in Datum
      /\ Tail(axi.aw) \in Seq(Line \X Half) /\ Tail(axi.w) \in Seq(Half \X Datum)
  BY <1>1, <1>2, <1>3, HeadTailProperties
<1> DEFINE q == [axi.hbm[to] EXCEPT ![half] = datum]
           m == [axi.hbm EXCEPT ![to] = q]
           b == axi.b + 1
<1>5. axi.hbm[to] \in Quads
  BY <1>2, <1>4 DEF Memory
<1>6. q \in Quads /\ \A h \in Half : q[h] = IF h = half THEN datum ELSE axi.hbm[to][h]
  BY <1>4, <1>5 DEF Quads
<1>7. axi' = [axi EXCEPT !.hbm = m, !.aw = Tail(@), !.w = Tail(@), !.b = b]
  BY <1>3 DEF ServeWrite
<1> HIDE DEF q
<1>8. /\ m \in Memory /\ m[to] = q
      /\ \A x \in Line \X Half : x # to => m[x] = axi.hbm[x]
  BY <1>2, <1>4, <1>6 DEF Memory
<1>9. b \in Nat
  BY <1>2
<1> HIDE DEF m, b
<1>10. /\ axi'.ar = axi.ar /\ axi'.beat = axi.beat /\ axi'.r = axi.r
       /\ axi'.aw = Tail(axi.aw) /\ axi'.w = Tail(axi.w) /\ axi'.b = b /\ axi'.hbm = m
  BY <1>7 DEF AxiType
<1>11. AxiType'
  BY <1>4, <1>7, <1>8, <1>9 DEF AxiType
<1> QED BY <1>1, <1>3, <1>6, <1>8, <1>10, <1>11 DEF b

\* The beat that is taken is the store under way: HBM has caught up.
LEMMA WriteRuns ==
  ASSUME Types, Underway, ServeWrite
  PROVE  Types' /\ Underway'
<1>1. Types'
  BY WriteServed DEF Types, CoreType, CpuType, HostType
<1>2. InOrder' /\ Granted' /\ Right' /\ Looked' /\ Valids' /\ Current'
  BY WriteServed
     DEF Types, Underway, InOrder, Pulse, Granted, Asked, Right, Looked, Writing, Valids, Current
<1>9. CacheAgrees'
  BY WriteServed DEF Types, Underway, CacheAgrees, Filling, Ahead, Written, Writing
<1>3. Storing /\ Reading /\ HbmAgrees
  BY DEF Underway
<1>4. /\ core.rs = "B" /\ core.bready = TRUE
      /\ Posted(<<Beat(core.r.addr)>>, <<<<core.r.addr.half, core.r.data>>>>, 0)
  BY <1>3, WriteServed DEF Types, Storing, Posted
<1>5. Reading'
  BY <1>3, <1>4, WriteServed DEF Types, Reading
<1>6. Head(axi.aw) = Beat(core.r.addr) /\ Head(axi.w)[1] = core.r.addr.half /\ Head(axi.w)[2] = core.r.data
      /\ Tail(axi.aw) = <<>> /\ Tail(axi.w) = <<>> /\ axi.b = 0
  BY <1>4 DEF Posted
<1>7. Storing'
  BY <1>4, <1>6, WriteServed DEF Types, Storing, Posted
<1>8. HbmAgrees'
  <2>1. Unwritten /\ ~Unwritten' /\ Written /\ Written'
    BY <1>4, <1>6, WriteServed DEF Types, Unwritten, Writing, Written
  <2>2. SUFFICES ASSUME NEW b \in Line \X Half, NEW h \in Half PROVE axi'.hbm[b][h] = Ahead(b, h)'
    BY <2>1 DEF HbmAgrees
  <2>3. axi.hbm[b][h] = host.memory[b][h]
    BY <1>3, <2>1 DEF HbmAgrees
  <2>4. Ahead(b, h)' = IF Beat(core.r.addr) = b /\ core.r.addr.half = h THEN core.r.data ELSE host.memory[b][h]
    BY <2>1, WriteServed DEF Types, Ahead
  <2> QED BY <1>6, <2>3, <2>4, WriteServed DEF Types
<1> QED BY <1>1, <1>2, <1>5, <1>7, <1>8, <1>9 DEF Underway

LEMMA WriteDrains ==
  ASSUME Types, Drains, ServeWrite
  PROVE  Types' /\ Drains' /\ (Blank => Blank') /\ host' = host
<1>1. Types' /\ host' = host /\ (Blank => Blank')
  BY WriteServed DEF Types, CoreType, CpuType, HostType, Blank
<1>2. Len(axi'.aw) = Len(axi'.w)
  <2>1. axi.aw \in Seq(Line \X Half) /\ axi.w \in Seq(Half \X Datum) /\ axi.aw # <<>> /\ axi.w # <<>>
    BY WriteServed DEF Types, AxiType
  <2>2. Len(Tail(axi.aw)) = Len(axi.aw) - 1 /\ Len(Tail(axi.w)) = Len(axi.w) - 1
    BY <2>1, HeadTailProperties
  <2> QED BY <2>2, WriteServed DEF Types, Drains
<1>3. /\ core'.ar = None /\ core'.aw = None /\ core'.w = None /\ core'.bready = TRUE
      /\ axi'.ar # <<>> \/ axi'.r # <<>> => core'.rready = TRUE
      /\ axi'.ar = <<>> => axi'.beat = 0
  BY WriteServed DEF Types, Drains
<1> QED BY <1>1, <1>2, <1>3 DEF Drains

-----------------------------------------------------------------------------
(* The host: reset, load and release. *)

LEMMA ColdIs ==
  ASSUME EeMemoryAssumption
  PROVE  Cold \in Lines /\ \A i \in 0 .. Indices - 1 : Cold[i].tag = None
<1>1. NoLine \in Entry /\ NoLine.tag = None
  BY NoneApart DEF NoLine, Entry, Quads
<1> QED BY <1>1 DEF Cold, Lines

LEMMA ImageIs ==
  ASSUME EeMemoryAssumption, NEW n \in 0 .. Runs
  PROVE  Image(n) \in Memory
<1>1. \A b \in Line \X Half, h \in Half : <<n, b, h>> \in Datum
  BY DEF Datum
<1> QED BY <1>1 DEF Image, Memory, Quads

\* In reset the arbiter, the cache and the core start again; the AXI signals stand.
LEMMA EdgeDrains ==
  ASSUME EeMemoryAssumption, Types, Drains, host.reset = TRUE, Edge
  PROVE  Types' /\ Drains' /\ Blank' /\ host'.reset = TRUE /\ host'.held = TRUE /\ host'.cut = host.cut
<1>1. /\ Handshakes /\ core' = Reset(core) /\ host' = [host EXCEPT !.held = TRUE]
      /\ cpu' = [cpu EXCEPT !.d = None, !.i = None, !.wait = <<>>]
  BY DEF Edge
<1>2. PICK l : l = Cold
  OBVIOUS
<1>3. l \in Lines
  BY <1>2, ColdIs
<1>4. core' = [core EXCEPT !.st = "IDLE", !.req = None, !.fq = <<>>, !.dready = None, !.iready = None,
                           !.rs = "IDLE", !.ack = FALSE, !.lines = l]
  BY <1>1, <1>2 DEF Reset
<1>5. /\ "IDLE" \in States /\ "IDLE" \in RamStates /\ None \in MaybeRequest /\ None \in MaybeAnswer
      /\ <<>> \in Seq(Where) /\ FALSE \in BOOLEAN
  BY EmptySeq DEF States, RamStates, MaybeRequest, MaybeAnswer
<1>6. core \in Core
  BY DEF Types, CoreType
<1>7. CoreType'
  BY <1>3, <1>4, <1>5, <1>6 DEF CoreType, Core
<1>8. /\ core'.st = "IDLE" /\ core'.req = None /\ core'.fq = <<>> /\ core'.dready = None /\ core'.iready = None
      /\ core'.rs = "IDLE" /\ core'.ack = FALSE /\ core'.lines = Cold
      /\ core'.ar = core.ar /\ core'.aw = core.aw /\ core'.w = core.w
      /\ core'.rready = core.rready /\ core'.bready = core.bready
  BY <1>2, <1>4, <1>6 DEF Core
<1>9. CpuType' /\ cpu'.d = None /\ cpu'.i = None /\ cpu'.wait = <<>>
  BY <1>1, <1>5 DEF Types, CpuType
<1>10. HostType' /\ host'.reset = TRUE /\ host'.held = TRUE /\ host'.cut = host.cut
  BY <1>1 DEF Types, HostType
<1>11. /\ AxiType' /\ axi'.ar = axi.ar /\ axi'.aw = axi.aw /\ axi'.w = axi.w /\ axi'.beat = axi.beat
       /\ axi.r = <<>> => axi'.r = <<>>
       /\ axi.b \in Nat /\ axi'.b \in Nat /\ (~(axi.b > 0) => axi'.b = axi.b)
  BY <1>1, StepOfAxi DEF Types, Drains, AxiType
<1>12. Drains'
  BY <1>8, <1>11 DEF Drains
<1>13. Blank'
  BY <1>8, <1>9 DEF Blank
<1> QED BY <1>7, <1>9, <1>10, <1>11, <1>12, <1>13 DEF Types

\* What is under way does not ask whether the reset is up.
LEMMA Stands ==
  ASSUME Underway, core' = core, cpu' = cpu, axi' = axi, host'.memory = host.memory
  PROVE  Underway'
<1>1. InOrder' /\ Granted' /\ Right' /\ Looked' /\ Valids' /\ Current'
  BY DEF Underway, InOrder, Pulse, Granted, Asked, Right, Looked, Writing, Valids, Current
<1>2. HbmAgrees' /\ CacheAgrees' /\ Storing' /\ Reading'
  BY DEF Underway, HbmAgrees, Unwritten, Writing, Ahead, Written, CacheAgrees, Filling, Storing,
         Posted, Reading, Burst, BeatOf
<1> QED BY <1>1, <1>2 DEF Underway

\* A reset that cuts no address and no beat off its ready leaves what HBM can finish.
LEMMA TakeDrains ==
  ASSUME Types, Underway, Take, ~Open
  PROVE  Types' /\ Drains' /\ Underway' /\ host'.reset = TRUE /\ host'.held = FALSE
<1>1. core' = core /\ cpu' = cpu /\ axi' = axi
  BY DEF Take
<1>2. host'.reset = TRUE /\ host'.held = FALSE /\ host'.memory = host.memory /\ HostType'
  <2>1. PICK c \in BOOLEAN : c = (host.cut \/ Open)
    BY DEF Types, HostType
  <2>2. host' = [host EXCEPT !.reset = TRUE, !.held = FALSE, !.cut = c]
    BY <2>1 DEF Take
  <2> QED BY <2>2 DEF Types, HostType
<1>3. Types'
  BY <1>1, <1>2 DEF Types, CoreType, CpuType, AxiType
<1>4. Valids /\ Reading /\ Storing /\ core.ar = None /\ core.aw = None /\ core.rs # "W"
  BY DEF Underway, Open
<1>5. core.w = None
  BY <1>4 DEF Valids
<1>6. axi.ar # <<>> \/ axi.r # <<>> => core.rready = TRUE
  BY <1>4 DEF Reading
<1>7. axi.ar = <<>> => axi.beat = 0
  <2>1. \A x : <<x>> # <<>>
    OBVIOUS
  <2> QED BY <1>4, <2>1 DEF Reading, Burst
<1>8. /\ axi.aw # <<>> \/ axi.w # <<>> \/ axi.b > 0 => core.bready = TRUE
      /\ Len(axi.aw) = Len(axi.w)
  <2>1. CASE core.rs = "B"
    <3>1. \A x, y : Len(<<x>>) = Len(<<y>>)
      OBVIOUS
    <3> QED BY <1>4, <2>1, <3>1 DEF Storing, Posted
  <2>2. CASE core.rs # "B"
    BY <1>4, <2>2 DEF Storing, Posted
  <2> QED BY <2>1, <2>2
<1>9. Underway'
  BY <1>1, <1>2, Stands
<1> QED BY <1>1, <1>2, <1>3, <1>4, <1>5, <1>6, <1>7, <1>8, <1>9 DEF Drains

\* What is quiet in reset is empty: every queue drains into a register that is ready.
LEMMA QuietIsEmpty ==
  ASSUME EeMemoryAssumption, Types, Drains, Quiet
  PROVE  axi.ar = <<>> /\ axi.beat = 0 /\ axi.r = <<>> /\ Posted(<<>>, <<>>, 0)
<1>1. /\ Room \in Nat \ {0} /\ axi.b \in Nat /\ axi.r \in Seq(ReadBeat)
      /\ axi.aw \in Seq(Line \X Half) /\ axi.w \in Seq(Half \X Datum) /\ Len(<<>>) = 0
  BY DEF EeMemoryAssumption, Types, AxiType
<1>2. axi.r = <<>>
  BY DEF Drains, Quiet
<1>3. axi.ar = <<>> /\ axi.beat = 0
  BY <1>1, <1>2 DEF Drains, Quiet
<1>4. axi.b = 0
  BY <1>1 DEF Drains, Quiet
<1>5. axi.aw = <<>> <=> axi.w = <<>>
  BY <1>1, EmptySeq DEF Drains
<1>6. axi.aw = <<>> /\ axi.w = <<>>
  BY <1>1, <1>4, <1>5 DEF Quiet
<1> QED BY <1>2, <1>3, <1>4, <1>6 DEF Posted

\* The image is loaded over an empty path: the EE starts with it, and nothing else.
LEMMA LoadRuns ==
  ASSUME EeMemoryAssumption, Types, Drains, Blank, Load
  PROVE  Types' /\ Underway' /\ host'.reset = FALSE
<1>1. PICK n, m : n = host.n + 1 /\ m = Image(n)
  OBVIOUS
<1>2. /\ host' = [host EXCEPT !.reset = FALSE, !.n = n, !.memory = m]
      /\ axi' = [axi EXCEPT !.hbm = m] /\ cpu' = [cpu EXCEPT !.accesses = 0, !.fetches = 0]
      /\ core' = core /\ host.n < Runs
  BY <1>1 DEF Load
<1>3. host.n \in 0 .. Runs /\ Runs \in Nat /\ Accesses \in Nat
  BY DEF Types, HostType, EeMemoryAssumption
<1>4. n \in 0 .. Runs
  BY <1>1, <1>2, <1>3
<1>5. m \in Memory
  BY <1>1, <1>4, ImageIs
<1>6. HostType' /\ host'.memory = m /\ host'.reset = FALSE
  BY <1>2, <1>4, <1>5 DEF Types, HostType
<1>7. /\ AxiType' /\ axi'.hbm = m /\ axi'.ar = axi.ar /\ axi'.beat = axi.beat /\ axi'.r = axi.r
      /\ axi'.aw = axi.aw /\ axi'.w = axi.w /\ axi'.b = axi.b
  BY <1>2, <1>5 DEF Types, AxiType
<1>8. 0 \in 0 .. Accesses /\ 0 \in Nat
  BY <1>3
<1>9. CpuType' /\ cpu'.d = None /\ cpu'.i = None /\ cpu'.wait = <<>>
  BY <1>2, <1>8 DEF Types, CpuType, Blank
<1>10. /\ core'.st = "IDLE" /\ core'.req = None /\ core'.fq = <<>> /\ core'.dready = None
       /\ core'.iready = None /\ core'.rs = "IDLE" /\ core'.ack = FALSE
       /\ \A i \in 0 .. Indices - 1 : core'.lines[i].tag = None
  BY <1>2, ColdIs DEF Blank
<1>11. core'.ar = None /\ core'.aw = None /\ core'.w = None
  BY <1>2 DEF Drains
<1>12. axi'.ar = <<>> /\ axi'.beat = 0 /\ axi'.r = <<>> /\ Posted(<<>>, <<>>, 0)'
  BY <1>7, QuietIsEmpty DEF Load, Posted
<1>13. InOrder'
  BY <1>9, <1>10, ConcatEmptySeq, EmptySeq DEF InOrder, Pulse
<1>14. Granted'
  BY <1>10 DEF Granted
<1>15. HbmAgrees' /\ CacheAgrees'
  BY <1>6, <1>7, <1>10 DEF HbmAgrees, CacheAgrees, Unwritten, Writing, Written, Ahead
<1>16. Right' /\ Looked' /\ Valids' /\ Current'
  BY <1>10, <1>11 DEF Right, Looked, Writing, Valids, Current
<1>17. Reading' /\ Storing'
  BY <1>10, <1>12 DEF Reading, Storing
<1>18. Types'
  BY <1>2, <1>6, <1>7, <1>9 DEF Types, CoreType
<1> QED BY <1>6, <1>13, <1>14, <1>15, <1>16, <1>17, <1>18 DEF Underway

-----------------------------------------------------------------------------
(* The theorems. *)

LEMMA InitKept == ASSUME EeMemoryAssumption, Init PROVE IInv
<1>1. PICK m, l : m = Image(0) /\ l = Cold
  OBVIOUS
<1>2. m \in Memory /\ l \in Lines
  <2>1. 0 \in 0 .. Runs
    BY DEF EeMemoryAssumption
  <2> QED BY <1>1, <2>1, ImageIs, ColdIs
<1>3. /\ core = [st |-> "IDLE", req |-> None, fq |-> <<>>, dready |-> None, iready |-> None,
                 rs |-> "IDLE", r |-> None, q |-> NoLine, beat |-> 0, ack |-> FALSE, rdata |-> None,
                 lines |-> l, ar |-> None, aw |-> None, w |-> None, rready |-> FALSE, bready |-> FALSE]
      /\ cpu = [d |-> None, i |-> None, wait |-> <<>>, accesses |-> 0, fetches |-> 0]
      /\ axi = [ar |-> <<>>, beat |-> 0, r |-> <<>>, aw |-> <<>>, w |-> <<>>, b |-> 0, hbm |-> m]
      /\ host = [reset |-> TRUE, n |-> 0, memory |-> m, held |-> FALSE, cut |-> FALSE]
  BY <1>1 DEF Init
<1>4. /\ "IDLE" \in States /\ "IDLE" \in RamStates /\ None \in MaybeRequest /\ None \in MaybeAnswer
      /\ None \in ArWire /\ None \in AwWire /\ None \in WWire /\ 0 \in Half /\ None \in Datum
      /\ NoLine \in Entry
  <2>1. None \in Datum
    BY NoneApart
  <2>2. NoLine \in Entry
    BY <2>1 DEF NoLine, Entry, Quads
  <2> QED BY <2>1, <2>2 DEF States, RamStates, MaybeRequest, MaybeAnswer, ArWire, AwWire, WWire, Half
<1>5. /\ \A S : <<>> \in Seq(S)
      /\ 0 \in 0 .. Accesses /\ 0 \in 0 .. Runs
  BY DEF EeMemoryAssumption
<1>6. CoreType
  BY <1>2, <1>3, <1>4, <1>5 DEF CoreType, Core
<1>7. CpuType /\ AxiType /\ HostType
  BY <1>2, <1>3, <1>4, <1>5 DEF CpuType, AxiType, HostType
<1>8. Drains
  BY <1>3 DEF Drains
<1>9. host.reset = TRUE /\ host.held = FALSE /\ host.cut = FALSE /\ HostShape
  BY <1>3 DEF HostShape
<1>10. \A i \in 0 .. Indices - 1 : core.lines[i].tag = None
  BY <1>1, <1>3, ColdIs
<1>11. InOrder /\ Granted /\ HbmAgrees /\ CacheAgrees
  BY <1>3, <1>10, ConcatEmptySeq, EmptySeq
     DEF InOrder, Pulse, Granted, HbmAgrees, CacheAgrees, Unwritten, Writing, Written, Ahead
<1>12. Right /\ Looked /\ Valids /\ Current /\ Reading /\ Storing
  BY <1>3 DEF Right, Looked, Writing, Valids, Current, Reading, Storing, Posted
<1> QED BY <1>6, <1>7, <1>8, <1>9, <1>11, <1>12 DEF IInv, Kept, Types, Underway

\* The fields of the host stay what they are, and a cut stays known.
LEMMA ShapeKept ==
  ASSUME HostShape, host.cut \in BOOLEAN, [Next]_vars
  PROVE  HostShape' /\ host'.cut \in BOOLEAN /\ (host.cut = TRUE => host'.cut = TRUE)
<1>1. CASE Edge
  <2>1. CASE host' = [host EXCEPT !.held = TRUE]
    BY <2>1 DEF HostShape
  <2>2. CASE host' = [host EXCEPT !.memory[Beat(cpu.d.addr)][cpu.d.addr.half] = cpu.d.data]
    <3>1. PICK m : m = [host.memory EXCEPT ![Beat(cpu.d.addr)][cpu.d.addr.half] = cpu.d.data]
      OBVIOUS
    <3>2. host' = [host EXCEPT !.memory = m]
      BY <2>2, <3>1
    <3> QED BY <3>2 DEF HostShape
  <2>3. CASE host' = host
    BY <2>3 DEF HostShape
  <2> QED BY <1>1, <2>1, <2>2, <2>3 DEF Edge
<1>2. CASE ServeRead \/ ServeWrite
  BY <1>2 DEF ServeRead, ServeWrite, HostShape
<1>3. CASE Take
  <2>1. PICK c \in BOOLEAN : c = (host.cut \/ Open)
    OBVIOUS
  <2>2. host' = [host EXCEPT !.reset = TRUE, !.held = FALSE, !.cut = c]
    BY <1>3, <2>1 DEF Take
  <2> QED BY <2>1, <2>2 DEF HostShape
<1>4. CASE Load
  <2>1. PICK n, m : host' = [host EXCEPT !.reset = FALSE, !.n = n, !.memory = m]
    BY <1>4 DEF Load
  <2> QED BY <2>1 DEF HostShape
<1>5. CASE UNCHANGED vars
  BY <1>5 DEF vars, HostShape
<1> QED BY <1>1, <1>2, <1>3, <1>4, <1>5 DEF Next

LEMMA NextKept == ASSUME EeMemoryAssumption, IInv, [Next]_vars PROVE IInv'
<1>1. HostShape' /\ host'.cut \in BOOLEAN /\ (host.cut = TRUE => host'.cut = TRUE)
  BY ShapeKept DEF IInv
<1> SUFFICES ASSUME host'.cut = FALSE PROVE Kept'
  BY <1>1 DEF IInv
<1>2. host.cut = FALSE /\ Kept /\ Types
  BY <1>1 DEF IInv, Kept
<1>3. host.reset \in BOOLEAN /\ host.held \in BOOLEAN
  BY <1>2 DEF Types, HostType
<1>4. CASE Edge
  <2>1. CASE host.reset = FALSE
    BY <1>2, <1>4, <2>1, EdgeRuns DEF RunEdge, Kept
  <2>2. CASE host.reset = TRUE
    BY <1>2, <1>4, <2>2, EdgeDrains DEF Kept
  <2> QED BY <1>3, <2>1, <2>2
<1>5. CASE ServeRead
  <2>1. host' = host
    BY <1>2, <1>5, ReadServed DEF Types
  <2>2. host.reset = FALSE \/ host.held = FALSE => Types' /\ Underway'
    BY <1>2, <1>5, ReadRuns DEF Kept
  <2>3. host.reset = TRUE => Types' /\ Drains' /\ (Blank => Blank')
    BY <1>2, <1>5, ReadDrains DEF Kept
  <2> QED BY <1>2, <1>3, <2>1, <2>2, <2>3 DEF Kept
<1>6. CASE ServeWrite
  <2>1. host' = host
    BY <1>2, <1>6, WriteServed DEF Types
  <2>2. host.reset = FALSE \/ host.held = FALSE => Types' /\ Underway'
    BY <1>2, <1>6, WriteRuns DEF Kept
  <2>3. host.reset = TRUE => Types' /\ Drains' /\ (Blank => Blank')
    BY <1>2, <1>6, WriteDrains DEF Kept
  <2> QED BY <1>2, <1>3, <2>1, <2>2, <2>3 DEF Kept
<1>7. CASE Take
  <2>1. host.reset = FALSE
    BY <1>3, <1>7 DEF Take
  <2>2. ~Open
    <3>1. PICK c \in BOOLEAN : c = (host.cut \/ Open)
      OBVIOUS
    <3>2. host' = [host EXCEPT !.reset = TRUE, !.held = FALSE, !.cut = c]
      BY <1>7, <3>1 DEF Take
    <3>3. host'.cut = c
      BY <1>2, <3>2 DEF Types, HostType
    <3> QED BY <3>1, <3>3
  <2> QED BY <1>2, <1>7, <2>1, <2>2, TakeDrains DEF Kept
<1>8. CASE Load
  BY <1>2, <1>3, <1>8, LoadRuns DEF Kept, Load
<1>9. CASE UNCHANGED vars
  <2>1. core' = core /\ cpu' = cpu /\ axi' = axi /\ host' = host
    BY <1>9 DEF vars
  <2>2. Types' /\ (Drains => Drains') /\ (Blank => Blank')
    BY <1>2, <2>1 DEF Types, CoreType, CpuType, AxiType, HostType, Drains, Blank
  <2>3. Underway => Underway'
    BY <2>1, Stands
  <2> QED BY <1>2, <2>1, <2>2, <2>3 DEF Kept
<1> QED BY <1>4, <1>5, <1>6, <1>7, <1>8, <1>9 DEF Next

\* What the invariant says of the two properties.
LEMMA KeptIsCurrent == ASSUME IInv PROVE MemoryCurrent
<1> SUFFICES ASSUME host.cut = FALSE PROVE Current
  BY DEF IInv, MemoryCurrent
<1>1. Kept /\ host.reset \in BOOLEAN /\ host.held \in BOOLEAN
  BY DEF IInv, Kept, Types, HostType
<1>2. CASE host.reset = FALSE \/ host.held = FALSE
  BY <1>1, <1>2 DEF Kept, Underway
<1>3. CASE host.reset = TRUE /\ host.held = TRUE
  BY <1>1, <1>3 DEF Kept, Blank, Current
<1> QED BY <1>1, <1>2, <1>3

LEMMA KeptIsCoherent == ASSUME EeMemoryAssumption, IInv PROVE Coherent
<1> SUFFICES ASSUME host.cut = FALSE, NEW i \in DOMAIN core.lines, NEW b \in Half, NEW h \in Half,
                    core.lines[i].tag # None, ~(core.rs = "R" /\ index(core.r.addr.line) = i)
             PROVE  \/ core.lines[i].data[b][h] = axi.hbm[<<core.lines[i].tag, b>>][h]
                    \/ /\ core.rs \in {"AW", "W", "B"}
                       /\ core.r.addr = [line |-> core.lines[i].tag, beat |-> b, half |-> h]
  BY DEF IInv, Coherent
<1>1. Kept /\ Types /\ host.reset \in BOOLEAN /\ host.held \in BOOLEAN
  BY DEF IInv, Kept, Types, HostType
<1>2. i \in 0 .. Indices - 1 /\ core.lines[i] \in Entry
  BY <1>1 DEF Types, CoreType, Core, Lines
<1>3. CASE host.reset = FALSE \/ host.held = FALSE
  <2>1. Underway
    BY <1>1, <1>3 DEF Kept
  <2>2. PICK q \in Line \X Half : q = <<core.lines[i].tag, b>>
    BY <1>2 DEF Entry
  <2>3. core.lines[i].data[b][h] = Ahead(q, h)
    BY <1>2, <2>1, <2>2 DEF Underway, CacheAgrees, Filling
  <2>4. axi.hbm[q][h] = IF Unwritten THEN host.memory[q][h] ELSE Ahead(q, h)
    BY <2>1 DEF Underway, HbmAgrees
  <2>5. CASE ~Unwritten \/ ~(Beat(core.r.addr) = q /\ core.r.addr.half = h)
    BY <2>2, <2>3, <2>4, <2>5 DEF Ahead
  <2>6. CASE Unwritten /\ Beat(core.r.addr) = q /\ core.r.addr.half = h
    <3>1. core.r \in Request
      BY <1>1, <2>1, <2>6, RequestHeld DEF Types, Underway, Unwritten, Writing
    <3>2. core.r.addr \in Address
      BY <3>1 DEF Request, EeMemoryAssumption
    <3>3. core.r.addr.line = core.lines[i].tag /\ core.r.addr.beat = b
      BY <2>2, <2>6 DEF Beat
    <3>4. core.r.addr = [line |-> core.lines[i].tag, beat |-> b, half |-> h]
      BY <2>6, <3>2, <3>3 DEF Address
    <3> QED BY <2>6, <3>4 DEF Unwritten, Writing
  <2> QED BY <2>5, <2>6
<1>4. CASE host.reset = TRUE /\ host.held = TRUE
  BY <1>1, <1>2, <1>4, ColdIs DEF Kept, Blank
<1> QED BY <1>1, <1>3, <1>4

\* The invariant holds of every run.
THEOREM Invariant == ASSUME EeMemoryAssumption PROVE Spec => []IInv
<1>1. Init => IInv
  BY InitKept
<1>2. IInv /\ [Next]_vars => IInv'
  BY NextKept
<1> QED BY <1>1, <1>2, PTL DEF Spec

\* The core is answered with what its image and its stores have put in memory, in
\* the order it asked, over any number of resets that cut nothing off its ready.
THEOREM AnswersCurrent == ASSUME EeMemoryAssumption PROVE Spec => []MemoryCurrent
<1>1. IInv => MemoryCurrent
  BY KeptIsCurrent
<1> QED BY <1>1, Invariant, PTL

\* The cache never holds what HBM does not, but for the store on its way there.
THEOREM CacheCoherent == ASSUME EeMemoryAssumption PROVE Spec => []Coherent
<1>1. IInv => Coherent
  BY KeptIsCoherent
<1> QED BY <1>1, Invariant, PTL
=============================================================================
