--------------------------- MODULE HbmDma_proofs ---------------------------
(***************************************************************************)
(* Proofs about HbmDma, for every length of a burst, of a ring and of an   *)
(* image, any number of runs and of aborts.                                *)
(***************************************************************************)
EXTENDS HbmDma, Integers, TLAPS

-----------------------------------------------------------------------------
(* Types, and what an edge does to each register. *)

Word == Nat \cup {None}
State == {"IDLE", "AW", "W", "B"}
Pc == {"off", "arm", "start", "on", "poll", "fail", "end"}

Engine ==
            [st : State, addr : Nat, remain : Nat, done : BOOLEAN, beat : Nat,
             acc : [1..2 -> Word], half : 0..1, full : BOOLEAN, aborting : BOOLEAN,
             base : Nat, length : Nat]
EngType == eng \in Engine
HostType ==
    prog \in [pc : Pc, sent : Nat, pos : Nat, on : BOOLEAN, session : Nat,
              aborts : Nat, killed : BOOLEAN]
SlaveType == slave \in [owed : Int, b : BOOLEAN]
HbmType == hbm \in [0 .. Beats - 1 -> [1..2 -> Word]]
Types == EngType /\ HostType /\ SlaveType /\ HbmType

Wires == [src : BOOLEAN, aw : BOOLEAN, w : BOOLEAN, b : BOOLEAN, start : BOOLEAN, abort : BOOLEAN]

LEMMA RingNat == DmaAssumption => ChunkBeats \in Nat /\ Beats \in Nat
  BY DEF DmaAssumption, ChunkBeats, Beats

LEMMA OfferedType == DmaAssumption /\ HostType => Offered \in Word
  BY RingNat DEF HostType, Offered, Word

LEMMA LinesBoolean ==
  ASSUME EngType, HostType, NEW io \in Wires
  PROVE  taken(io) \in BOOLEAN /\ accepted(io) \in BOOLEAN /\ flush(io) \in BOOLEAN
  BY DEF EngType, Engine, HostType, Wires, taken, accepted, flush

\* The registers with those of the packer, and those of the state machine, replaced.
Repacked(a, h, f) == [eng EXCEPT !.acc = a, !.half = h, !.full = f]
Moved(a, h, f, s, ad, r, d, bt) ==
    [eng EXCEPT !.acc = a, !.half = h, !.full = f, !.st = s, !.addr = ad, !.remain = r,
                !.done = d, !.beat = bt]

\* What the packer makes of its three registers: nothing, empty, one word more.
PackerStep(io, a, h, f) ==
    /\ flush(io) => a = eng.acc /\ h = 0 /\ ~f
    /\ ~flush(io) /\ accepted(io) => /\ a = [eng.acc EXCEPT ![eng.half + 1] = Offered]
                                     /\ h = (eng.half + 1) % 2
                                     /\ f <=> eng.half = 1
    /\ ~flush(io) /\ ~accepted(io) => a = eng.acc /\ h = eng.half /\ (f <=> eng.full /\ ~taken(io))

LEMMA PackedFields ==
  ASSUME DmaAssumption, EngType, HostType, NEW io \in Wires
  PROVE  \E a \in [1..2 -> Word], h \in 0..1, f \in BOOLEAN :
            /\ Packed(eng, io) = Repacked(a, h, f)
            /\ PackerStep(io, a, h, f)
<1>0. /\ eng.acc \in [1..2 -> Word] /\ eng.half \in 0..1 /\ eng.full \in BOOLEAN
      /\ eng = [eng EXCEPT !.acc = eng.acc, !.half = eng.half, !.full = eng.full]
  BY DEF EngType, Engine
<1>1. CASE flush(io)
  <2>1. Packed(eng, io) = [eng EXCEPT !.full = FALSE, !.half = 0]
    BY <1>1, Zenon DEF Packed
  <2>2. @ = Repacked(eng.acc, 0, FALSE)
    BY DEF EngType, Engine, Repacked
  <2>3. PackerStep(io, eng.acc, 0, FALSE) /\ 0 \in 0..1 /\ FALSE \in BOOLEAN
    BY <1>1 DEF PackerStep
  <2> QED BY <1>0, <2>1, <2>2, <2>3, Zenon
<1>2. CASE ~flush(io) /\ accepted(io)
  <2> DEFINE a == [eng.acc EXCEPT ![eng.half + 1] = Offered]
             h == (eng.half + 1) % 2
  <2>1. PICK f \in BOOLEAN : f <=> eng.half = 1
    OBVIOUS
  <2>2. a \in [1..2 -> Word] /\ h \in 0..1
    BY <1>0, OfferedType
  <2>3. Packed(eng, io) = [eng EXCEPT !.acc[eng.half + 1] = Offered, !.half = (@ + 1) % 2,
                                      !.full = f]
    BY <1>2, <2>1, Zenon DEF Packed
  <2>4. @ = Repacked(a, h, f)
    BY DEF EngType, Engine, Repacked
  <2>5. PackerStep(io, a, h, f)
    BY <1>2, <2>1 DEF PackerStep
  <2> QED BY <2>1, <2>2, <2>3, <2>4, <2>5, Zenon
<1>3. CASE ~flush(io) /\ ~accepted(io)
  <2>1. PICK f \in BOOLEAN : f <=> eng.full /\ ~taken(io)
    OBVIOUS
  <2>2. Packed(eng, io) = [eng EXCEPT !.full = f]
    BY <1>0, <1>3, <2>1, Zenon DEF Packed
  <2>3. @ = Repacked(eng.acc, eng.half, f)
    BY <1>0 DEF EngType, Engine, Repacked
  <2>4. PackerStep(io, eng.acc, eng.half, f)
    BY <1>3, <2>1 DEF PackerStep
  <2> QED BY <1>0, <2>1, <2>2, <2>3, <2>4, Zenon
<1> QED BY <1>1, <1>2, <1>3

\* What the state machine makes of its registers, state by state.
Same(ad, r, d, bt) == ad = eng.addr /\ r = eng.remain /\ (d <=> eng.done) /\ bt = eng.beat
FsmStep(io, s, ad, r, d, bt) ==
    \/ eng.st = "IDLE" /\ io.start /\ s = "AW" /\ ad = eng.base /\ r = eng.length /\ ~d /\ bt = eng.beat
    \/ eng.st = "IDLE" /\ ~io.start /\ s = "IDLE" /\ Same(ad, r, d, bt)
    \/ eng.st = "AW" /\ eng.aborting /\ s = "IDLE" /\ Same(ad, r, d, bt)
    \/ eng.st = "AW" /\ eng.remain = 0 /\ s = "IDLE" /\ d /\ Same(ad, r, eng.done, bt)
    \/ eng.st = "AW" /\ eng.remain # 0 /\ s = "W" /\ bt = 0 /\ Same(ad, r, d, eng.beat)
    \/ eng.st = "AW" /\ eng.remain # 0 /\ s = "AW" /\ Same(ad, r, d, bt)
    \/ eng.st = "W" /\ ~taken(io) /\ s = "W" /\ Same(ad, r, d, bt)
    \/ /\ eng.st = "W" /\ taken(io) /\ eng.beat = Burst - 1 /\ s = "B"
       /\ Same(ad, eng.remain, d, bt) /\ r = (IF eng.remain > 1 THEN eng.remain - 1 ELSE 0)
    \/ /\ eng.st = "W" /\ taken(io) /\ eng.beat # Burst - 1 /\ s = "W" /\ bt = eng.beat + 1
       /\ Same(ad, eng.remain, d, eng.beat) /\ r = (IF eng.remain > 1 THEN eng.remain - 1 ELSE 0)
    \/ eng.st = "B" /\ io.b /\ s = "AW" /\ ad = eng.addr + Burst /\ Same(eng.addr, r, d, bt)
    \/ eng.st = "B" /\ ~io.b /\ s = "B" /\ Same(ad, r, d, bt)

LEMMA FsmFields ==
  ASSUME DmaAssumption, EngType, NEW io \in Wires, NEW a \in [1..2 -> Word], NEW h \in 0..1,
         NEW f \in BOOLEAN
  PROVE  \E s \in State, ad \in Nat, r \in Nat, d \in BOOLEAN, bt \in Nat :
            /\ Fsm(Repacked(a, h, f), io) = Moved(a, h, f, s, ad, r, d, bt)
            /\ FsmStep(io, s, ad, r, d, bt)
<1> DEFINE p == Repacked(a, h, f)
           Is(s, ad, r, d, bt) == Moved(a, h, f, s, ad, r, d, bt)
<1> SUFFICES \E s \in State, ad \in Nat, r \in Nat, d \in BOOLEAN, bt \in Nat :
               Fsm(p, io) = Is(s, ad, r, d, bt) /\ FsmStep(io, s, ad, r, d, bt)
  OBVIOUS
<1>0. /\ eng.st \in State /\ eng.addr \in Nat /\ eng.remain \in Nat /\ eng.done \in BOOLEAN
      /\ eng.beat \in Nat /\ eng.base \in Nat /\ eng.length \in Nat /\ Burst \in Nat
      /\ p.addr = eng.addr /\ p.remain = eng.remain /\ p.beat = eng.beat
      /\ Same(eng.addr, eng.remain, eng.done, eng.beat)
      /\ \A r : Same(eng.addr, r, eng.done, eng.beat) <=> r = eng.remain
      /\ "IDLE" \in State /\ "AW" \in State /\ "W" \in State /\ "B" \in State
      /\ TRUE \in BOOLEAN /\ FALSE \in BOOLEAN /\ 0 \in Nat
  BY DEF EngType, Engine, DmaAssumption, Same, State, Repacked
<1> HIDE DEF p, Is
<1> DEFINE Some == \E s \in State, ad \in Nat, r \in Nat, d \in BOOLEAN, bt \in Nat :
                      Fsm(p, io) = Is(s, ad, r, d, bt) /\ FsmStep(io, s, ad, r, d, bt)
<1>6. ASSUME NEW s \in State, Fsm(p, io) = Is(s, eng.addr, eng.remain, eng.done, eng.beat),
             FsmStep(io, s, eng.addr, eng.remain, eng.done, eng.beat)
      PROVE  Some
  <2> USE <1>0
  <2> WITNESS s \in State, eng.addr \in Nat, eng.remain \in Nat, eng.done \in BOOLEAN,
              eng.beat \in Nat
  <2> QED BY <1>6
<1> SUFFICES Some
  OBVIOUS
<1> HIDE DEF Some
<1>1. CASE eng.st = "IDLE"
  <2>0. ~Quits
    BY <1>1 DEF Quits
  <2>1. CASE io.start
    <3>1. Fsm(p, io) = [p EXCEPT !.addr = eng.base, !.remain = eng.length, !.done = FALSE,
                                 !.st = "AW"]
      BY <1>1, <2>0, <2>1, Zenon DEF Fsm
    <3>2. @ = Is("AW", eng.base, eng.length, FALSE, eng.beat)
      BY DEF EngType, Engine, p, Is, Repacked, Moved
    <3>3. FsmStep(io, "AW", eng.base, eng.length, FALSE, eng.beat)
      BY <1>1, <2>1 DEF FsmStep
    <3> QED
      <4> USE <1>0 DEF Some
      <4> WITNESS "AW" \in State, eng.base \in Nat, eng.length \in Nat,
                  FALSE \in BOOLEAN, eng.beat \in Nat
      <4> QED BY <3>1, <3>2, <3>3, Zenon
  <2>2. CASE ~io.start
    <3>1. Fsm(p, io) = p
      BY <1>1, <2>0, <2>2, Zenon DEF Fsm
    <3>2. Fsm(p, io) = Is("IDLE", eng.addr, eng.remain, eng.done, eng.beat)
      BY <3>1, <1>1 DEF EngType, Engine, p, Is, Repacked, Moved
    <3>3. FsmStep(io, "IDLE", eng.addr, eng.remain, eng.done, eng.beat)
      BY <1>0, <1>1, <2>2 DEF FsmStep
    <3> QED BY <1>0, <1>6, <3>1, <3>2, <3>3, Zenon
  <2> QED BY <2>1, <2>2
<1>2. CASE eng.st = "AW" /\ eng.aborting
  <2>1. Fsm(p, io) = [p EXCEPT !.st = "IDLE"]
    BY <1>2, Zenon DEF Fsm, Quits
  <2>2. @ = Is("IDLE", eng.addr, eng.remain, eng.done, eng.beat)
    BY DEF EngType, Engine, p, Is, Repacked, Moved
  <2>3. FsmStep(io, "IDLE", eng.addr, eng.remain, eng.done, eng.beat)
    BY <1>0, <1>2 DEF FsmStep
  <2> QED BY <1>0, <1>6, <2>1, <2>2, <2>3, Zenon
<1>3. CASE eng.st = "AW" /\ ~eng.aborting
  <2>0. ~Quits /\ eng.st # "IDLE"
    BY <1>3 DEF Quits
  <2>1. CASE eng.remain = 0
    <3>1. Fsm(p, io) = [p EXCEPT !.done = TRUE, !.st = "IDLE"]
      BY <1>3, <2>0, <2>1, Zenon DEF Fsm
    <3>2. @ = Is("IDLE", eng.addr, eng.remain, TRUE, eng.beat)
      BY DEF EngType, Engine, p, Is, Repacked, Moved
    <3>3. FsmStep(io, "IDLE", eng.addr, eng.remain, TRUE, eng.beat)
      BY <1>0, <1>3, <2>1 DEF FsmStep
    <3> QED
      <4> USE <1>0 DEF Some
      <4> WITNESS "IDLE" \in State, eng.addr \in Nat, eng.remain \in Nat,
                  TRUE \in BOOLEAN, eng.beat \in Nat
      <4> QED BY <3>1, <3>2, <3>3, Zenon
  <2>2. CASE eng.remain # 0 /\ io.aw
    <3>1. Fsm(p, io) = [p EXCEPT !.beat = 0, !.st = "W"]
      BY <1>3, <2>0, <2>2, Zenon DEF Fsm
    <3>2. @ = Is("W", eng.addr, eng.remain, eng.done, 0)
      BY DEF EngType, Engine, p, Is, Repacked, Moved
    <3>3. FsmStep(io, "W", eng.addr, eng.remain, eng.done, 0)
      BY <1>0, <1>3, <2>2 DEF FsmStep
    <3> QED
      <4> USE <1>0 DEF Some
      <4> WITNESS "W" \in State, eng.addr \in Nat, eng.remain \in Nat,
                  eng.done \in BOOLEAN, 0 \in Nat
      <4> QED BY <3>1, <3>2, <3>3, Zenon
  <2>3. CASE eng.remain # 0 /\ ~io.aw
    <3>1. Fsm(p, io) = p
      BY <1>3, <2>0, <2>3, Zenon DEF Fsm
    <3>2. Fsm(p, io) = Is("AW", eng.addr, eng.remain, eng.done, eng.beat)
      BY <3>1, <1>3 DEF EngType, Engine, p, Is, Repacked, Moved
    <3>3. FsmStep(io, "AW", eng.addr, eng.remain, eng.done, eng.beat)
      BY <1>0, <1>3, <2>3 DEF FsmStep
    <3> QED BY <1>0, <1>6, <3>1, <3>2, <3>3, Zenon
  <2> QED BY <2>1, <2>2, <2>3
<1>4. CASE eng.st = "W"
  <2>0. ~Quits /\ eng.st # "IDLE" /\ eng.st # "AW"
    BY <1>4 DEF Quits
  <2> DEFINE less == IF eng.remain > 1 THEN eng.remain - 1 ELSE 0
  <2>1. less \in Nat
    BY <1>0
  <2>2. CASE ~taken(io)
    <3>1. Fsm(p, io) = p
      BY <1>4, <2>0, <2>2, Zenon DEF Fsm
    <3>2. Fsm(p, io) = Is("W", eng.addr, eng.remain, eng.done, eng.beat)
      BY <3>1, <1>4 DEF EngType, Engine, p, Is, Repacked, Moved
    <3>3. FsmStep(io, "W", eng.addr, eng.remain, eng.done, eng.beat)
      BY <1>0, <1>4, <2>2 DEF FsmStep
    <3> QED BY <1>0, <1>6, <3>1, <3>2, <3>3, Zenon
  <2>3. CASE taken(io) /\ eng.beat = Burst - 1
    <3>1. Fsm(p, io) = [p EXCEPT !.remain = IF @ > 1 THEN @ - 1 ELSE 0, !.st = "B", !.beat = @]
      BY <1>4, <2>0, <2>3, Zenon DEF Fsm
    <3>2. @ = Is("B", eng.addr, less, eng.done, eng.beat)
      BY <1>0 DEF EngType, Engine, p, Is, Repacked, Moved
    <3>3. FsmStep(io, "B", eng.addr, less, eng.done, eng.beat)
      BY <1>0, <1>4, <2>3 DEF FsmStep
    <3> QED
      <4> USE <1>0, <2>1 DEF Some
      <4> WITNESS "B" \in State, eng.addr \in Nat, less \in Nat,
                  eng.done \in BOOLEAN, eng.beat \in Nat
      <4> QED BY <3>1, <3>2, <3>3, Zenon
  <2>4. CASE taken(io) /\ eng.beat # Burst - 1
    <3>1. Fsm(p, io) = [p EXCEPT !.remain = IF @ > 1 THEN @ - 1 ELSE 0, !.st = "W", !.beat = @ + 1]
      BY <1>4, <2>0, <2>4, Zenon DEF Fsm
    <3>2. @ = Is("W", eng.addr, less, eng.done, eng.beat + 1)
      BY <1>0 DEF EngType, Engine, p, Is, Repacked, Moved
    <3>3. FsmStep(io, "W", eng.addr, less, eng.done, eng.beat + 1)
      BY <1>0, <1>4, <2>4 DEF FsmStep
    <3>4. eng.beat + 1 \in Nat
      BY <1>0
    <3> QED
      <4> USE <1>0, <2>1, <3>4 DEF Some
      <4> WITNESS "W" \in State, eng.addr \in Nat, less \in Nat,
                  eng.done \in BOOLEAN, eng.beat + 1 \in Nat
      <4> QED BY <3>1, <3>2, <3>3, Zenon
  <2> QED BY <2>2, <2>3, <2>4
<1>5. CASE eng.st = "B"
  <2>0. ~Quits /\ eng.st # "IDLE" /\ eng.st # "AW" /\ eng.st # "W"
    BY <1>5 DEF Quits
  <2>1. CASE io.b
    <3>1. Fsm(p, io) = [p EXCEPT !.addr = @ + Burst, !.st = "AW"]
      BY <1>5, <2>0, <2>1, Zenon DEF Fsm
    <3>2. @ = Is("AW", eng.addr + Burst, eng.remain, eng.done, eng.beat)
      BY <1>0 DEF EngType, Engine, p, Is, Repacked, Moved
    <3>3. FsmStep(io, "AW", eng.addr + Burst, eng.remain, eng.done, eng.beat)
      BY <1>0, <1>5, <2>1 DEF FsmStep
    <3>4. eng.addr + Burst \in Nat
      BY <1>0
    <3> QED
      <4> USE <1>0, <3>4 DEF Some
      <4> WITNESS "AW" \in State, eng.addr + Burst \in Nat, eng.remain \in Nat,
                  eng.done \in BOOLEAN, eng.beat \in Nat
      <4> QED BY <3>1, <3>2, <3>3, Zenon
  <2>2. CASE ~io.b
    <3>1. Fsm(p, io) = p
      BY <1>5, <2>0, <2>2, Zenon DEF Fsm
    <3>2. Fsm(p, io) = Is("B", eng.addr, eng.remain, eng.done, eng.beat)
      BY <3>1, <1>5 DEF EngType, Engine, p, Is, Repacked, Moved
    <3>3. FsmStep(io, "B", eng.addr, eng.remain, eng.done, eng.beat)
      BY <1>0, <1>5, <2>2 DEF FsmStep
    <3> QED BY <1>0, <1>6, <3>1, <3>2, <3>3, Zenon
  <2> QED BY <2>1, <2>2
<1> QED BY <1>0, <1>1, <1>2, <1>3, <1>4, <1>5 DEF State

LEMMA EdgeFields ==
  ASSUME DmaAssumption, EngType, HostType, NEW io \in Wires, Edge(io)
  PROVE  /\ EngType'
         /\ eng'.base = eng.base /\ eng'.length = eng.length
         /\ PackerStep(io, eng'.acc, eng'.half, eng'.full)
         /\ FsmStep(io, eng'.st, eng'.addr, eng'.remain, eng'.done, eng'.beat)
<1>1. PICK a \in [1..2 -> Word], h \in 0..1, f \in BOOLEAN :
        /\ Packed(eng, io) = Repacked(a, h, f)
        /\ PackerStep(io, a, h, f)
  BY PackedFields
<1>2. PICK s \in State, ad \in Nat, r \in Nat, d \in BOOLEAN, bt \in Nat :
        /\ Fsm(Repacked(a, h, f), io) = Moved(a, h, f, s, ad, r, d, bt)
        /\ FsmStep(io, s, ad, r, d, bt)
  BY <1>1, FsmFields
<1>3. PICK g \in BOOLEAN : g <=> (io.abort \/ (eng.aborting /\ eng.st # "IDLE"))
  OBVIOUS
<1> DEFINE e == Moved(a, h, f, s, ad, r, d, bt)
<1>4. e.aborting = eng.aborting /\ eng.aborting \in BOOLEAN
  BY DEF EngType, Engine, Moved
<1>5. eng' = Aborting(e, io)
  BY <1>1, <1>2, Zenon DEF Edge
<1> HIDE DEF e
<1>6. eng' = [e EXCEPT !.aborting = g]
  <2>1. CASE g
    <3>1. eng' = [e EXCEPT !.aborting = TRUE]
      BY <1>3, <1>4, <1>5, <2>1, Zenon DEF Aborting
    <3> QED BY <2>1, <3>1
  <2>2. CASE ~g
    <3>1. eng' = [e EXCEPT !.aborting = FALSE]
      BY <1>3, <1>4, <1>5, <2>2, Zenon DEF Aborting
    <3> QED BY <2>2, <3>1
  <2> QED BY <2>1, <2>2
<1>7. /\ eng' = [eng EXCEPT !.acc = a, !.half = h, !.full = f, !.st = s, !.addr = ad,
                           !.remain = r, !.done = d, !.beat = bt, !.aborting = g]
  BY <1>6 DEF e, Moved, EngType, Engine
<1>8. /\ eng'.acc = a /\ eng'.half = h /\ eng'.full = f /\ eng'.st = s /\ eng'.addr = ad
      /\ eng'.remain = r /\ eng'.done = d /\ eng'.beat = bt
      /\ eng'.base = eng.base /\ eng'.length = eng.length
      /\ EngType'
  BY <1>7 DEF EngType, Engine
<1> QED BY <1>1, <1>2, <1>8, Zenon

-----------------------------------------------------------------------------
(* Bursts.  What the slave waits for is what the writer has yet to give.   *)

BeatInBurst == eng.st = "W" => eng.beat < Burst
Bursts == Types /\ BurstsWhole /\ BeatInBurst

\* The slave is given a burst to wait for, a beat of it, or its answer is taken.
LEMMA SlaveFields ==
  ASSUME DmaAssumption, EngType, HostType, SlaveType, NEW io \in Wires, Edge(io)
  PROVE  /\ SlaveType'
         /\ eng.st = "AW" /\ eng'.st = "W" => slave'.owed = slave.owed + Burst /\ slave'.b
         /\ ~(eng.st = "AW" /\ eng'.st = "W") =>
              /\ slave'.owed = (IF taken(io) THEN slave.owed - 1 ELSE slave.owed)
              /\ slave'.b <=> slave.b /\ ~(eng.st = "B" /\ io.b)
<1>0. slave.owed \in Int /\ slave.b \in BOOLEAN /\ Burst \in Int
  BY DEF SlaveType, DmaAssumption
<1>1. CASE eng.st = "AW" /\ eng'.st = "W"
  <2>1. slave' = [owed |-> slave.owed + Burst, b |-> TRUE]
    BY <1>1, Zenon DEF Edge
  <2> QED BY <1>0, <1>1, <2>1 DEF SlaveType
<1>2. CASE ~(eng.st = "AW" /\ eng'.st = "W")
  <2>1. PICK n \in Int : n = (IF taken(io) THEN slave.owed - 1 ELSE slave.owed)
    BY <1>0
  <2>2. PICK q \in BOOLEAN : q <=> slave.b /\ ~(eng.st = "B" /\ io.b)
    OBVIOUS
  <2>3. slave' = [owed |-> n, b |-> q]
    <3>1. slave' = [owed |-> n, b |-> slave.b /\ ~(eng.st = "B" /\ io.b)]
      BY <1>2, <2>1, Zenon DEF Edge
    <3> QED BY <1>0, <2>2, <3>1, Zenon
  <2> QED BY <1>2, <2>1, <2>2, <2>3 DEF SlaveType
<1> QED BY <1>1, <1>2

LEMMA EdgeBursts ==
  ASSUME DmaAssumption, Bursts, NEW io \in Wires, Edge(io)
  PROVE  EngType' /\ SlaveType' /\ HbmType' /\ BurstsWhole' /\ BeatInBurst'
<1>1. EngType' /\ FsmStep(io, eng'.st, eng'.addr, eng'.remain, eng'.done, eng'.beat)
  BY EdgeFields DEF Bursts, Types
<1>2. /\ SlaveType'
      /\ eng.st = "AW" /\ eng'.st = "W" => slave'.owed = slave.owed + Burst /\ slave'.b
      /\ ~(eng.st = "AW" /\ eng'.st = "W") =>
           /\ slave'.owed = (IF taken(io) THEN slave.owed - 1 ELSE slave.owed)
           /\ slave'.b <=> slave.b /\ ~(eng.st = "B" /\ io.b)
  BY SlaveFields DEF Bursts, Types
<1>3. HbmType'
  <2>1. eng.acc \in [1..2 -> Word] /\ HbmType
    BY DEF Bursts, Types, EngType, Engine
  <2>2. CASE taken(io)
    BY <2>1, <2>2 DEF Edge, HbmType
  <2>3. CASE ~taken(io)
    BY <2>1, <2>3 DEF Edge, HbmType
  <2> QED BY <2>2, <2>3
<1>4. /\ eng.st \in State /\ eng.beat \in Nat /\ slave.owed \in Int /\ slave.b \in BOOLEAN
      /\ Burst \in Nat \ {0} /\ BurstsWhole /\ BeatInBurst
      /\ taken(io) => eng.st = "W"
      /\ io.b => slave.b /\ slave.owed = 0
  BY DEF Bursts, Types, EngType, Engine, SlaveType, DmaAssumption, taken, Edge
<1>5. BurstsWhole' /\ BeatInBurst'
  <2>1. CASE eng.st = "IDLE"
    BY <1>1, <1>2, <1>4, <2>1 DEF FsmStep, BurstsWhole, BeatInBurst
  <2>2. CASE eng.st = "AW"
    BY <1>1, <1>2, <1>4, <2>2 DEF FsmStep, BurstsWhole, BeatInBurst, Same
  <2>3. CASE eng.st = "W" /\ ~taken(io)
    BY <1>1, <1>2, <1>4, <2>3 DEF FsmStep, BurstsWhole, BeatInBurst, Same
  <2>4. CASE eng.st = "W" /\ taken(io)
    BY <1>1, <1>2, <1>4, <2>4 DEF FsmStep, BurstsWhole, BeatInBurst, Same
  <2>5. CASE eng.st = "B"
    BY <1>1, <1>2, <1>4, <2>5 DEF FsmStep, BurstsWhole, BeatInBurst, Same
  <2> QED BY <1>4, <2>1, <2>2, <2>3, <2>4, <2>5 DEF State
<1> QED BY <1>1, <1>2, <1>3, <1>5

LEMMA LinesAreWires ==
  /\ \A io \in Lines : io \in Wires /\ [io EXCEPT !.abort = TRUE] \in Wires
  /\ Quiet \in Wires /\ [Quiet EXCEPT !.start = TRUE] \in Wires
  BY DEF Lines, Wires, Quiet

\* An edge is an edge, whoever writes ctrl on it.
Edges == \E io \in Wires : Edge(io)
LEMMA EveryEdge == Clock \/ Start \/ Abort => Edges
<1>1. Clock => Edges
  BY LinesAreWires DEF Clock, Edges
<1>2. Start => Edges
  BY LinesAreWires DEF Start, Edges
<1>3. Abort => Edges
  BY LinesAreWires DEF Abort, Edges
<1> QED BY <1>1, <1>2, <1>3

LEMMA HostStep ==
  ASSUME DmaAssumption, Types, Next
  PROVE  HostType'
<1>0. /\ prog \in [pc : Pc, sent : Nat, pos : Nat, on : BOOLEAN, session : Nat,
                   aborts : Nat, killed : BOOLEAN]
      /\ ChunkBeats \in Nat /\ prog.pos \in Nat /\ prog.sent + ChunkBeats \in Nat
      /\ prog.aborts + 1 \in Nat /\ prog.session + 1 \in Nat /\ prog.pos + 1 \in Nat
  BY RingNat DEF Types, HostType
<1>1. CASE Clock
  <2>1. PICK n \in Nat : prog' = [prog EXCEPT !.pos = n]
    <3>1. PICK io \in Lines : prog' = [prog EXCEPT !.pos = IF accepted(io) THEN @ + 1 ELSE @]
      BY <1>1 DEF Clock
    <3>2. CASE accepted(io)
      BY <1>0, <3>1, <3>2
    <3>3. CASE ~accepted(io)
      BY <1>0, <3>1, <3>3
    <3> QED BY <3>2, <3>3
  <2> QED BY <1>0, <2>1 DEF HostType
<1>2. CASE Abort
  <2>1. PICK n \in Nat : prog' = [prog EXCEPT !.aborts = @ + 1, !.pos = n]
    <3>1. PICK io \in Lines :
            prog' = [prog EXCEPT !.aborts = @ + 1, !.pos = IF accepted(io) THEN @ + 1 ELSE @]
      BY <1>2 DEF Abort
    <3>2. CASE accepted(io)
      BY <1>0, <3>1, <3>2, Zenon
    <3>3. CASE ~accepted(io)
      BY <1>0, <3>1, <3>3, Zenon
    <3> QED BY <3>2, <3>3
  <2> DEFINE m == prog.aborts + 1
  <2>2. prog' = [prog EXCEPT !.aborts = m, !.pos = n] /\ m \in Nat
    BY <1>0, <2>1
  <2> HIDE DEF m
  <2> QED BY <1>0, <2>1, <2>2 DEF HostType
<1>3. CASE ReaderOff
  BY <1>0, <1>3 DEF ReaderOff, Goto, HostType, Pc
<1>4. CASE Arm \/ Start \/ ReaderOn
  BY <1>0, <1>4 DEF Arm, Start, ReaderOn, Goto, HostType, Pc
<1>5. CASE Poll
  <2> DEFINE m == prog.sent + ChunkBeats
  <2>1. prog' = [prog EXCEPT !.pc = "off", !.sent = m] /\ m \in Nat
    BY <1>0, <1>5 DEF Poll, Goto
  <2> HIDE DEF m
  <2> QED BY <1>0, <2>1 DEF HostType, Pc
<1>6. CASE Timeout
  BY <1>0, <1>6 DEF Timeout, Goto, HostType, Pc
<1>7. CASE Kill
  BY <1>0, <1>7 DEF Kill, Goto, HostType, Pc
<1>8. CASE Again
  <2> DEFINE m == prog.session + 1
  <2>1. prog' = [prog EXCEPT !.pc = "off", !.sent = 0, !.session = m] /\ m \in Nat
    BY <1>0, <1>8 DEF Again, Goto
  <2> HIDE DEF m
  <2> QED BY <1>0, <2>1 DEF HostType, Pc
<1> QED BY <1>1, <1>2, <1>3, <1>4, <1>5, <1>6, <1>7, <1>8 DEF Next, Program

\* Types and bursts together are inductive: an abort ends the writer between two
\* bursts only, and the slave owes an answer exactly until B has taken it.
LEMMA BurstsInductive ==
  ASSUME DmaAssumption, Bursts, [Next]_vars
  PROVE  Bursts'
<1>1. CASE Next
  <2>0. HostType'
    BY <1>1, HostStep DEF Bursts
  <2>1. CASE Clock \/ Start \/ Abort
    <3>1. PICK io \in Wires : Edge(io)
      BY <2>1, EveryEdge DEF Edges
    <3> QED BY <2>0, <3>1, EdgeBursts DEF Bursts, Types
  <2>2. CASE Arm
    <3>1. /\ eng' = [eng EXCEPT !.base = prog.sent, !.length = ChunkBeats]
          /\ prog.sent \in Nat /\ ChunkBeats \in Nat
      BY <2>2, RingNat DEF Arm, Bursts, Types, HostType
    <3>2. EngType' /\ eng'.st = eng.st /\ eng'.beat = eng.beat
      BY <3>1 DEF Bursts, Types, EngType, Engine
    <3> QED BY <2>0, <2>2, <3>2
            DEF Arm, Bursts, Types, SlaveType, HbmType, BurstsWhole, BeatInBurst
  <2>3. CASE ReaderOff \/ ReaderOn \/ Poll \/ Timeout \/ Kill \/ Again
    <3>1. UNCHANGED <<eng, slave, hbm>>
      BY <2>3 DEF ReaderOff, ReaderOn, Poll, Timeout, Kill, Again
    <3> QED BY <2>0, <3>1
            DEF Bursts, Types, EngType, SlaveType, HbmType, BurstsWhole, BeatInBurst
  <2> QED BY <1>1, <2>1, <2>2, <2>3 DEF Next, Program
<1>2. CASE UNCHANGED vars
  BY <1>2 DEF vars, Bursts, Types, EngType, HostType, SlaveType, HbmType, BurstsWhole, BeatInBurst
<1> QED BY <1>1, <1>2

LEMMA BurstsInitially == ASSUME DmaAssumption, Init PROVE Bursts
<1>1. EngType
  BY DEF Init, EngType, Engine, State, Word
<1>2. HostType /\ SlaveType
  BY DEF Init, HostType, SlaveType, Pc
<1>3. HbmType
  BY DEF Init, HbmType, Word
<1> QED BY <1>1, <1>2, <1>3 DEF Init, Bursts, Types, BurstsWhole, BeatInBurst

\* For every length of a burst, a ring and an image, and whatever is aborted or
\* killed: a burst the AXI slave was promised is given to it whole, and its answer
\* is taken before the writer does anything else (HBMDMAWriter's AW, W and B).
THEOREM BurstsCompleted == ASSUME DmaAssumption PROVE Spec => []BurstsWhole
<1>1. Init => Bursts
  BY BurstsInitially
<1>2. Bursts /\ [Next]_vars => Bursts'
  BY BurstsInductive
<1>3. Bursts => BurstsWhole
  BY DEF Bursts
<1> QED BY <1>1, <1>2, <1>3, PTL DEF Spec
-----------------------------------------------------------------------------
(* Staging.  Unless a run was killed, the program and the writer agree on  *)
(* how far the image is, and the packer on which words it holds.           *)

\* The word at place i of the ring that is on its way.
WordAt(i) == IF i < 2 * ChunkBeats THEN (2 * prog.sent) + i ELSE None

\* The first n beats of the image are where they belong.
Placed(n) == \A b \in 0 .. Beats - 1 : b < n => hbm[b] = <<2 * b, (2 * b) + 1>>

\* k beats of the ring were written: the packer has the next word, or two.
Packing(k) ==
    \/ ~eng.full /\ eng.half = 0 /\ prog.pos = 2 * k
    \/ ~eng.full /\ eng.half = 1 /\ prog.pos = (2 * k) + 1 /\ eng.acc[1] = WordAt(2 * k)
    \/ /\ eng.full /\ eng.half = 0 /\ prog.pos = (2 * k) + 2
       /\ eng.acc[1] = WordAt(2 * k) /\ eng.acc[2] = WordAt((2 * k) + 1)

\* ... which are j bursts, and what there is of the one under way.
Written(j, k) ==
    \/ eng.st = "AW" /\ k = j * Burst
    \/ eng.st = "W" /\ j < Chunk /\ k = (j * Burst) + eng.beat
    \/ eng.st = "B" /\ j < Chunk /\ k = (j * Burst) + Burst

Moving ==
    \E j \in 0 .. Chunk, k \in 0 .. ChunkBeats :
       /\ Written(j, k) /\ Packing(k) /\ Placed(prog.sent + k)
       /\ eng.addr = prog.sent + (j * Burst) /\ eng.remain = ChunkBeats - k

AtRest == eng.st = "IDLE"
Ring ==
    /\ \E m \in 0 .. Chunks : prog.sent = m * ChunkBeats
    /\ prog.pc \in {"arm", "start", "on", "poll"} => prog.sent + ChunkBeats =< Beats
    /\ prog.pc = "end" => prog.sent = Beats
    /\ prog.pc \notin {"on", "poll"} => AtRest
    /\ prog.pc \in {"arm", "start"} => prog.pos = 0 
    /\ prog.pc = "start" => eng.base = prog.sent /\ eng.length = ChunkBeats
    /\ prog.pc # "fail" => Placed(prog.sent)
    /\ eng.done => AtRest
    /\ prog.pc \in {"on", "poll"} /\ ~AtRest => Moving
    /\ prog.pc \in {"on", "poll"} /\ eng.done => Placed(prog.sent + ChunkBeats)
Staging == ~prog.killed => Ring

Follows(io) == /\ prog'.sent = prog.sent /\ prog'.pc = prog.pc
               /\ prog'.pos = (IF accepted(io) THEN prog.pos + 1 ELSE prog.pos)

\* A multiple and one more: the next burst is inside the ring, the next ring
\* inside the image.
LEMMA NextMultiple ==
  ASSUME NEW a \in Nat, NEW b \in Nat, NEW c \in Nat, a < b
  PROVE  a * c \in Nat /\ (a + 1) * c = (a * c) + c /\ (a * c) + c =< b * c
<1>1. (a + 1) * c = (a * c) + c /\ a * c \in Nat
  OBVIOUS
<1>2. PICK d \in Nat : b = (a + 1) + d
  <2>1. b - (a + 1) \in Nat /\ b = (a + 1) + (b - (a + 1))
    OBVIOUS
  <2> QED BY <2>1
<1>3. b * c = ((a + 1) * c) + (d * c) /\ d * c \in Nat /\ (a + 1) * c \in Nat
  BY <1>2
<1> QED BY <1>1, <1>3

LEMMA RingPositive == DmaAssumption => ChunkBeats # 0
<1> SUFFICES ASSUME DmaAssumption PROVE ChunkBeats # 0
  OBVIOUS
<1>1. 0 * Burst \in Nat /\ (0 * Burst) + Burst =< Chunk * Burst /\ Burst > 0
  BY NextMultiple DEF DmaAssumption
<1>2. Chunk * Burst \in Nat
  BY DEF DmaAssumption
<1> QED BY <1>1, <1>2 DEF ChunkBeats, DmaAssumption

\* The packer goes on to the next word, or the next beat when the port took one.
LEMMA PackingStep ==
  ASSUME DmaAssumption, Types, NEW io \in Wires, Edge(io), Follows(io), eng.st # "IDLE",
         NEW k \in Nat, Packing(k), NEW n \in Nat, n = (IF taken(io) THEN k + 1 ELSE k)
  PROVE  Packing(n)'
<1>1. /\ PackerStep(io, eng'.acc, eng'.half, eng'.full)
      /\ EngType'
  BY EdgeFields DEF Types
<1>2. /\ eng.acc \in [1..2 -> Word] /\ eng.half \in 0..1 /\ eng.full \in BOOLEAN
      /\ eng'.acc \in [1..2 -> Word] /\ eng'.half \in 0..1 /\ eng'.full \in BOOLEAN
      /\ prog.pos \in Nat
  BY <1>1 DEF Types, EngType, Engine, HostType
<1>3. /\ ~flush(io) /\ (taken(io) => eng.full)
      /\ (accepted(io) => ~eng.full \/ taken(io))
  BY DEF flush, taken, accepted
<1>4. /\ Offered = WordAt(prog.pos)
      /\ \A i \in Nat : WordAt(i)' = WordAt(i)
  BY DEF Offered, WordAt, Follows
<1>5. 2 * k \in Nat /\ (2 * k) + 1 \in Nat /\ 2 * (k + 1) = (2 * k) + 2
  OBVIOUS
<1>6. CASE accepted(io)
  <2>1. /\ eng'.acc = [eng.acc EXCEPT ![eng.half + 1] = WordAt(prog.pos)]
        /\ eng'.half = (eng.half + 1) % 2 /\ (eng'.full <=> eng.half = 1)
        /\ prog'.pos = prog.pos + 1
    BY <1>1, <1>3, <1>4, <1>6 DEF PackerStep, Follows
  <2>2. CASE eng.full
    <3>1. taken(io) /\ eng.half = 0 /\ prog.pos = (2 * k) + 2
      BY <1>2, <1>3, <1>6, <2>2 DEF Packing
    <3>2. /\ ~eng'.full /\ eng'.half = 1 /\ prog'.pos = (2 * (k + 1)) + 1
          /\ eng'.acc[1] = WordAt(2 * (k + 1))
      BY <1>2, <1>5, <2>1, <3>1
    <3>3. Packing(k + 1)'
      BY <1>4, <1>5, <3>2 DEF Packing
    <3> QED BY <3>1, <3>3
  <2>3. CASE ~eng.full /\ eng.half = 0
    <3>1. ~taken(io) /\ prog.pos = 2 * k
      BY <1>2, <1>3, <2>3 DEF Packing
    <3>2. /\ ~eng'.full /\ eng'.half = 1 /\ prog'.pos = (2 * k) + 1
          /\ eng'.acc[1] = WordAt(2 * k)
      BY <1>2, <1>5, <2>1, <2>3, <3>1
    <3>3. Packing(k)'
      BY <1>4, <1>5, <3>2 DEF Packing
    <3> QED BY <3>1, <3>3
  <2>4. CASE ~eng.full /\ eng.half = 1
    <3>1. ~taken(io) /\ prog.pos = (2 * k) + 1 /\ eng.acc[1] = WordAt(2 * k)
      BY <1>2, <1>3, <2>4 DEF Packing
    <3>2. /\ eng'.full /\ eng'.half = 0 /\ prog'.pos = (2 * k) + 2
          /\ eng'.acc[1] = WordAt(2 * k) /\ eng'.acc[2] = WordAt((2 * k) + 1)
      BY <1>2, <1>5, <2>1, <2>4, <3>1
    <3>3. Packing(k)'
      BY <1>4, <1>5, <3>2 DEF Packing
    <3> QED BY <3>1, <3>3
  <2> QED BY <1>2, <2>2, <2>3, <2>4
<1>7. CASE ~accepted(io)
  <2>1. /\ eng'.acc = eng.acc /\ eng'.half = eng.half /\ (eng'.full <=> eng.full /\ ~taken(io))
        /\ prog'.pos = prog.pos
    BY <1>1, <1>3, <1>7 DEF PackerStep, Follows
  <2>2. CASE taken(io)
    <3>1. ~eng'.full /\ eng'.half = 0 /\ prog'.pos = 2 * (k + 1)
      BY <1>2, <1>3, <1>5, <2>1, <2>2 DEF Packing
    <3>2. Packing(k + 1)'
      BY <1>4, <1>5, <3>1 DEF Packing
    <3> QED BY <2>2, <3>2
  <2>3. CASE ~taken(io)
    <3>1. Packing(k)'
      BY <1>2, <1>4, <1>5, <2>1, <2>3 DEF Packing
    <3> QED BY <2>3, <3>1
  <2> QED BY <2>2, <2>3
<1> QED BY <1>6, <1>7

\* The beat the port takes is the next of the image, at its place.
LEMMA PlacedStep ==
  ASSUME DmaAssumption, Types, NEW io \in Wires, Edge(io), Follows(io),
         NEW k \in Nat, Packing(k), Placed(prog.sent + k),
         taken(io) => k < ChunkBeats /\ eng.addr + eng.beat = prog.sent + k,
         NEW n \in Nat, n = (IF taken(io) THEN k + 1 ELSE k)
  PROVE  Placed(prog.sent + n)'
<1>1. /\ prog.sent \in Nat /\ prog'.sent = prog.sent /\ ChunkBeats \in Nat /\ Beats \in Nat
      /\ hbm \in [0 .. Beats - 1 -> [1..2 -> Word]] /\ eng.acc \in [1..2 -> Word]
  BY RingNat DEF Types, HostType, HbmType, Follows, EngType, Engine
<1>2. CASE taken(io)
  <2>1. hbm' = [hbm EXCEPT ![prog.sent + k] = eng.acc]
    BY <1>2 DEF Edge
  <2>2. eng.acc[1] = 2 * (prog.sent + k) /\ eng.acc[2] = (2 * (prog.sent + k)) + 1
    <3>1. eng.full /\ k < ChunkBeats
      BY <1>2 DEF taken
    <3> QED BY <1>1, <3>1 DEF Packing, WordAt
  <2>3. eng.acc = <<2 * (prog.sent + k), (2 * (prog.sent + k)) + 1>>
    BY <1>1, <2>2
  <2>4. ASSUME NEW b \in 0 .. Beats - 1, b < prog.sent + (k + 1)
        PROVE  hbm'[b] = <<2 * b, (2 * b) + 1>>
    <3>1. CASE b = prog.sent + k
      <4>1. hbm'[b] = eng.acc
        BY <1>1, <2>1, <3>1
      <4> QED BY <2>3, <3>1, <4>1
    <3>2. CASE b # prog.sent + k
      <4>1. hbm'[b] = hbm[b]
        BY <1>1, <2>1, <3>2
      <4>2. b < prog.sent + k
        BY <1>1, <2>4, <3>2
      <4> QED BY <4>1, <4>2 DEF Placed
    <3> QED BY <3>1, <3>2
  <2> QED BY <1>1, <1>2, <2>4 DEF Placed
<1>3. CASE ~taken(io)
  <2>1. hbm' = hbm /\ prog'.sent + n = prog.sent + k
    BY <1>1, <1>3 DEF Edge
  <2> QED BY <2>1 DEF Placed
<1> QED BY <1>2, <1>3

\* An edge while a ring is on its way: it stays so, or ends there with all of it
\* placed and done, or is aborted between two bursts.
LEMMA EdgeMoves ==
  ASSUME DmaAssumption, Bursts, NEW io \in Wires, Edge(io), Follows(io),
         eng.st # "IDLE", ~eng.done, Moving
  PROVE  /\ Placed(prog.sent)'
         /\ \/ eng'.st # "IDLE" /\ ~eng'.done /\ Moving'
            \/ eng'.st = "IDLE" /\ (eng'.done => Placed(prog.sent + ChunkBeats)')
<1>1. PICK j \in 0 .. Chunk, k \in 0 .. ChunkBeats :
       /\ Written(j, k) /\ Packing(k) /\ Placed(prog.sent + k)
       /\ eng.addr = prog.sent + (j * Burst) /\ eng.remain = ChunkBeats - k
  BY DEF Moving
<1>2. /\ FsmStep(io, eng'.st, eng'.addr, eng'.remain, eng'.done, eng'.beat)
      /\ EngType'
  BY EdgeFields DEF Bursts, Types
<1>3. /\ prog.sent \in Nat /\ prog'.sent = prog.sent /\ ChunkBeats \in Nat
      /\ ChunkBeats = Chunk * Burst /\ Burst \in Nat \ {0} /\ Chunk \in Nat /\ j \in Nat
      /\ k \in Nat /\ eng.beat \in Nat /\ j * Burst \in Nat /\ eng.done \in BOOLEAN
      /\ eng.remain \in Nat /\ eng'.done \in BOOLEAN
  <2>1. ChunkBeats \in Nat /\ ChunkBeats = Chunk * Burst /\ Burst \in Nat \ {0} /\ Chunk \in Nat
    BY RingNat DEF DmaAssumption, ChunkBeats
  <2>2. prog.sent \in Nat /\ prog'.sent = prog.sent
    BY DEF Bursts, Types, HostType, Follows
  <2>3. /\ eng.beat \in Nat /\ eng.done \in BOOLEAN /\ eng.remain \in Nat
        /\ eng'.done \in BOOLEAN
    BY <1>2 DEF Bursts, Types, EngType, Engine
  <2>4. j \in Nat /\ k \in Nat /\ j * Burst \in Nat
    BY <2>1
  <2> QED BY <2>1, <2>2, <2>3, <2>4
<1>4. /\ (j + 1) * Burst = (j * Burst) + Burst
      /\ j < Chunk => (j * Burst) + Burst =< ChunkBeats /\ j + 1 \in 0 .. Chunk
      /\ j = Chunk => j * Burst = ChunkBeats
  <2>1. (j + 1) * Burst = (j * Burst) + Burst
    BY <1>3
  <2>2. j < Chunk => (j * Burst) + Burst =< ChunkBeats
    BY <1>3, NextMultiple
  <2> QED BY <1>3, <2>1, <2>2
<1> DEFINE p == j * Burst
<1>11. PICK k2 \in Nat : k2 = IF taken(io) THEN k + 1 ELSE k
  BY <1>3
<1>5. taken(io) => k < ChunkBeats /\ eng.addr + eng.beat = prog.sent + k
  <2>1. taken(io) => eng.st = "W" /\ eng.beat < Burst
    BY DEF taken, Bursts, BeatInBurst
  <2>2. ASSUME eng.st = "W", eng.beat < Burst PROVE k < ChunkBeats /\ eng.addr + eng.beat = prog.sent + k
    <3>1. j < Chunk /\ k = p + eng.beat /\ eng.addr = prog.sent + p /\ p \in Nat
      BY <1>1, <1>3, <2>2 DEF Written
    <3>2. p + Burst =< ChunkBeats
      BY <1>4, <3>1
    <3> HIDE DEF p
    <3> QED BY <1>3, <2>2, <3>1, <3>2
  <2> QED BY <2>1, <2>2
<1>6. Packing(k2)' /\ Placed(prog.sent + k2)'
  <2>1. Packing(k2)'
    BY <1>1, <1>3, <1>11, PackingStep DEF Bursts
  <2>2. Placed(prog.sent + k2)'
    BY <1>1, <1>3, <1>5, <1>11, PlacedStep DEF Bursts
  <2> QED BY <2>1, <2>2
<1>12. Placed(prog.sent)'
  <2>1. prog'.sent + k2 >= prog'.sent /\ prog'.sent \in Nat /\ Beats \in Nat
    BY <1>3, RingNat
  <2> QED BY <1>6, <2>1 DEF Placed
<1> SUFFICES \/ eng'.st # "IDLE" /\ ~eng'.done /\ Moving'
             \/ eng'.st = "IDLE" /\ (eng'.done => Placed(prog.sent + ChunkBeats)')
  BY <1>12
<1>7. CASE eng.st = "AW"
  <2>1. ~taken(io) /\ k2 = k /\ k = j * Burst
    BY <1>1, <1>7, <1>11 DEF taken, Written
  <2>2. CASE eng'.st = "IDLE" /\ ~eng'.done
    BY <2>2
  <2>3. CASE eng.remain = 0 /\ eng'.st = "IDLE"
    <3>1. k = ChunkBeats
      BY <1>1, <1>3, <2>3
    <3> QED BY <1>6, <2>1, <2>3, <3>1
  <2>4. CASE /\ eng.remain # 0 /\ eng'.st = "W" /\ eng'.beat = 0 /\ ~eng'.done
             /\ eng'.addr = eng.addr /\ eng'.remain = eng.remain
    <3>1. j < Chunk
      BY <1>1, <1>3, <1>4, <2>1, <2>4
    <3>2. Written(j, k)'
      BY <1>3, <2>1, <2>4, <3>1 DEF Written
    <3> QED BY <1>1, <1>3, <1>6, <2>1, <2>4, <3>2 DEF Moving
  <2>5. CASE /\ eng'.st = "AW" /\ ~eng'.done
             /\ eng'.addr = eng.addr /\ eng'.remain = eng.remain
    <3>1. Written(j, k)'
      BY <2>1, <2>5 DEF Written
    <3> QED BY <1>1, <1>3, <1>6, <2>1, <2>5, <3>1 DEF Moving
  <2> QED BY <1>2, <1>7, <2>2, <2>3, <2>4, <2>5 DEF FsmStep, Same
<1>8. CASE eng.st = "W" /\ ~taken(io)
  <2>1. k2 = k /\ eng'.st = "W" /\ ~eng'.done /\ Same(eng'.addr, eng'.remain, eng'.done, eng'.beat)
    BY <1>2, <1>8, <1>11 DEF FsmStep, Same
  <2>2. Written(j, k)'
    BY <1>1, <1>8, <2>1 DEF Written, Same
  <2> QED BY <1>1, <1>3, <1>6, <2>1, <2>2 DEF Moving, Same
<1>9. CASE eng.st = "W" /\ taken(io)
  <2>1. j < Chunk /\ k = (j * Burst) + eng.beat /\ k < ChunkBeats /\ k2 = k + 1
    BY <1>1, <1>5, <1>9, <1>11 DEF Written
  <2>2. k + 1 \in 0 .. ChunkBeats /\ eng.remain = ChunkBeats - k
    BY <1>1, <1>3, <2>1
  <2>3. eng'.addr = eng.addr /\ eng'.remain = ChunkBeats - (k + 1) /\ ~eng'.done /\ eng'.st \in {"W", "B"}
    BY <1>2, <1>3, <1>9, <2>1, <2>2 DEF FsmStep, Same
  <2>4. Written(j, k + 1)'
    <3>1. CASE eng'.st = "W"
      <4>1. eng'.beat = eng.beat + 1
        BY <1>2, <1>9, <3>1 DEF FsmStep
      <4> QED BY <1>3, <2>1, <3>1, <4>1 DEF Written
    <3>2. CASE eng'.st = "B"
      <4>1. eng.beat = Burst - 1
        BY <1>2, <1>9, <3>2 DEF FsmStep
      <4> QED BY <1>3, <2>1, <3>2, <4>1 DEF Written
    <3> QED BY <2>3, <3>1, <3>2
  <2>5. eng'.addr = prog'.sent + (j * Burst)
    BY <1>1, <1>3, <2>3
  <2> QED BY <1>6, <2>1, <2>2, <2>3, <2>4, <2>5 DEF Moving
<1>10. CASE eng.st = "B"
  <2>1. ~taken(io) /\ k2 = k /\ j < Chunk /\ k = (j * Burst) + Burst
    BY <1>1, <1>10, <1>11 DEF taken, Written
  <2>2. CASE /\ eng'.st = "AW" /\ ~eng'.done /\ eng'.remain = eng.remain
             /\ eng'.addr = eng.addr + Burst
    <3>1. j + 1 \in 0 .. Chunk /\ k = (j + 1) * Burst
      BY <1>4, <2>1
    <3>2. Written(j + 1, k)'
      BY <2>2, <3>1 DEF Written
    <3>3. eng'.addr = prog'.sent + ((j + 1) * Burst)
      BY <1>1, <1>3, <1>4, <2>2
    <3> QED BY <1>1, <1>6, <2>1, <2>2, <3>1, <3>2, <3>3 DEF Moving
  <2>3. CASE eng'.st = "B" /\ Same(eng'.addr, eng'.remain, eng'.done, eng'.beat)
    <3>1. Written(j, k)'
      BY <2>1, <2>3 DEF Written
    <3> QED BY <1>1, <1>3, <1>6, <2>1, <2>3, <3>1 DEF Moving, Same
  <2> QED BY <1>2, <1>10, <2>2, <2>3 DEF FsmStep, Same
<1> QED BY <1>7, <1>8, <1>9, <1>10 DEF Bursts, Types, EngType, Engine, State

\* With the writer at rest an edge without a start moves nothing of this.
LEMMA EdgeAtRest ==
  ASSUME DmaAssumption, Types, NEW io \in Wires, Edge(io), Follows(io), AtRest, ~io.start
  PROVE  /\ eng'.st = "IDLE" /\ eng'.done = eng.done /\ hbm' = hbm /\ prog'.pos = prog.pos
         /\ eng'.base = eng.base /\ eng'.length = eng.length
<1>1. /\ eng'.base = eng.base /\ eng'.length = eng.length /\ EngType'
      /\ FsmStep(io, eng'.st, eng'.addr, eng'.remain, eng'.done, eng'.beat)
  BY EdgeFields DEF Types
<1>2. eng.st = "IDLE" /\ ~taken(io) /\ ~accepted(io)
  BY DEF AtRest, taken, accepted
<1>3. hbm' = hbm /\ prog'.pos = prog.pos
  BY <1>2 DEF Edge, Follows
<1>4. eng'.st = "IDLE" /\ eng'.done = eng.done
  BY <1>1, <1>2 DEF FsmStep, Same, Types, EngType, Engine
<1> QED BY <1>1, <1>3, <1>4

\* An edge on which the program does nothing.
LEMMA RingEdge ==
  ASSUME DmaAssumption, Bursts, Ring, NEW io \in Wires, Edge(io), Follows(io), ~io.start
  PROVE  Ring'
<1>0. prog'.sent = prog.sent /\ prog'.pc = prog.pc
  BY DEF Follows
<1>1. CASE AtRest
  <2>1. /\ eng'.st = "IDLE" /\ eng'.done = eng.done /\ hbm' = hbm /\ prog'.pos = prog.pos
        /\ eng'.base = eng.base /\ eng'.length = eng.length
    BY <1>1, EdgeAtRest DEF Bursts
  <2> QED BY <1>0, <2>1 DEF Ring, AtRest, Placed
<1>2. CASE ~AtRest
  <2>1. /\ prog.pc \in {"on", "poll"} /\ Moving /\ ~eng.done /\ eng.st # "IDLE"
    BY <1>2 DEF Ring, AtRest
  <2>2. /\ Placed(prog.sent)'
        /\ \/ eng'.st # "IDLE" /\ ~eng'.done /\ Moving'
           \/ eng'.st = "IDLE" /\ (eng'.done => Placed(prog.sent + ChunkBeats)')
    BY <2>1, EdgeMoves
  <2> QED BY <1>0, <2>1, <2>2 DEF Ring, AtRest
<1> QED BY <1>1, <1>2

\* The start of a ring: nothing of it is written, and the packer is empty.
LEMMA RingStart ==
  ASSUME DmaAssumption, Bursts, Ring, Start
  PROVE  Ring'
<1> DEFINE io == [Quiet EXCEPT !.start = TRUE]
<1>1. /\ io \in Wires /\ io.start /\ Edge(io) /\ prog.pc = "start"
  BY LinesAreWires DEF Start, Quiet
<1>2. /\ prog'.sent = prog.sent /\ prog'.pc = "on" /\ prog'.pos = prog.pos
  BY DEF Start, Goto, Bursts, Types, HostType
<1>3. /\ eng.st = "IDLE" /\ ~taken(io) /\ flush(io)
      /\ prog.pos = 0 /\ eng.base = prog.sent /\ eng.length = ChunkBeats /\ Placed(prog.sent)
  BY <1>1 DEF Ring, AtRest, taken, flush
<1> HIDE DEF io
<1>4. /\ EngType'
      /\ PackerStep(io, eng'.acc, eng'.half, eng'.full)
      /\ FsmStep(io, eng'.st, eng'.addr, eng'.remain, eng'.done, eng'.beat)
  BY <1>1, EdgeFields DEF Bursts, Types
<1>5. /\ eng'.st = "AW" /\ eng'.addr = prog.sent /\ eng'.remain = ChunkBeats /\ ~eng'.done
      /\ eng'.half = 0 /\ ~eng'.full /\ hbm' = hbm
  BY <1>1, <1>3, <1>4 DEF FsmStep, PackerStep, Edge
<1>6. /\ 0 \in 0 .. Chunk /\ 0 \in 0 .. ChunkBeats /\ 0 * Burst = 0 /\ prog.sent \in Nat
      /\ ChunkBeats \in Nat
  BY RingNat DEF DmaAssumption, Bursts, Types, HostType
<1>7. Written(0, 0)' /\ Packing(0)' /\ Placed(prog.sent + 0)'
  BY <1>2, <1>3, <1>5, <1>6 DEF Written, Packing, Placed
<1>8. Moving'
  BY <1>2, <1>5, <1>6, <1>7 DEF Moving
<1> QED BY <1>1, <1>2, <1>3, <1>5, <1>8 DEF Ring, AtRest, Placed

LEMMA RingProgram ==
  ASSUME DmaAssumption, Bursts, Ring, ReaderOff \/ Arm \/ ReaderOn \/ Poll \/ Timeout \/ Again
  PROVE  Ring'
<1>0. /\ prog \in [pc : Pc, sent : Nat, pos : Nat, on : BOOLEAN, session : Nat,
                   aborts : Nat, killed : BOOLEAN]
      /\ ChunkBeats \in Nat /\ Beats \in Nat /\ eng \in Engine /\ Chunks \in Nat
      /\ Beats = Chunks * ChunkBeats
  BY RingNat DEF Bursts, Types, HostType, EngType, DmaAssumption, Beats
<1>1. CASE ReaderOff
  <2>1. prog.pc = "off" /\ UNCHANGED <<eng, slave, hbm>>
    BY <1>1 DEF ReaderOff
  <2>2. CASE prog.sent = Beats
    <3>1. prog'.pc = "end" /\ prog'.sent = prog.sent
      BY <1>0, <1>1, <2>2 DEF ReaderOff, Goto
    <3> QED BY <2>1, <2>2, <3>1 DEF Ring, AtRest, Placed
  <2>3. CASE prog.sent # Beats
    <3>1. prog'.pc = "arm" /\ prog'.sent = prog.sent /\ prog'.pos = 0
      BY <1>0, <1>1, <2>3 DEF ReaderOff, Goto
    <3>2. prog.sent + ChunkBeats =< Beats
      <4>1. PICK m \in 0 .. Chunks : prog.sent = m * ChunkBeats
        BY DEF Ring
      <4>2. m < Chunks
        BY <1>0, <2>3, <4>1
      <4> QED BY <1>0, <4>1, <4>2, NextMultiple
    <3> QED BY <2>1, <3>1, <3>2 DEF Ring, AtRest, Placed
  <2> QED BY <2>2, <2>3
<1>2. CASE Arm
  <2>1. prog.pc = "arm" /\ prog'.pc = "start" /\ prog'.sent = prog.sent /\ prog'.pos = prog.pos
    BY <1>0, <1>2 DEF Arm, Goto
  <2>2. /\ eng'.base = prog.sent /\ eng'.length = ChunkBeats /\ eng'.st = eng.st
        /\ eng'.done = eng.done /\ hbm' = hbm
    BY <1>0, <1>2 DEF Arm, Engine
  <2> QED BY <2>1, <2>2 DEF Ring, AtRest, Placed
<1>3. CASE ReaderOn
  <2>1. /\ prog.pc = "on" /\ prog'.pc = "poll" /\ prog'.sent = prog.sent /\ prog'.pos = prog.pos
        /\ UNCHANGED <<eng, slave, hbm>>
    BY <1>0, <1>3 DEF ReaderOn, Goto
  <2> QED BY <2>1 DEF Ring, AtRest, Placed, Moving, Written, Packing, WordAt
<1>4. CASE Poll
  <2>1. /\ prog.pc = "poll" /\ prog'.pc = "off" /\ prog'.sent = prog.sent + ChunkBeats
        /\ UNCHANGED <<eng, slave, hbm>> /\ eng.done
    BY <1>0, <1>4 DEF Poll, Goto
  <2>2. \E m \in 0 .. Chunks : prog'.sent = m * ChunkBeats
    <3>1. PICK m \in 0 .. Chunks : prog.sent = m * ChunkBeats
      BY DEF Ring
    <3>2. prog.sent + ChunkBeats =< Beats
      BY <2>1 DEF Ring
    <3>3. m < Chunks
      <4>1. m # Chunks
        <5>1. SUFFICES ASSUME m = Chunks PROVE FALSE
          OBVIOUS
        <5>2. ChunkBeats = 0
          BY <1>0, <3>1, <3>2, <5>1
        <5> QED BY <5>2, RingPositive
      <4> QED BY <1>0, <4>1
    <3>4. m + 1 \in 0 .. Chunks /\ (m + 1) * ChunkBeats = prog.sent + ChunkBeats
      BY <1>0, <3>1, <3>3, NextMultiple
    <3> QED BY <2>1, <3>4
  <2>3. AtRest /\ Placed(prog.sent + ChunkBeats)
    BY <2>1 DEF Ring
  <2>4. Placed(prog.sent)'
    BY <2>1, <2>3 DEF Placed
  <2> QED BY <2>1, <2>2, <2>3, <2>4 DEF Ring, AtRest
<1>5. CASE Timeout
  <2>1. /\ prog'.pc = "fail" /\ prog'.sent = prog.sent /\ UNCHANGED <<eng, slave, hbm>>
        /\ eng.st = "IDLE"
    BY <1>0, <1>5 DEF Timeout, Goto
  <2> QED BY <2>1 DEF Ring, AtRest
<1>6. CASE Again
  <2>1. /\ prog.pc = "fail" /\ prog'.pc = "off" /\ prog'.sent = 0 /\ UNCHANGED <<eng, slave, hbm>>
    BY <1>0, <1>6 DEF Again, Goto
  <2>2. 0 \in 0 .. Chunks /\ 0 = 0 * ChunkBeats
    BY <1>0
  <2>3. Placed(prog.sent)'
    BY <1>0, <2>1 DEF Placed
  <2> QED BY <2>1, <2>2, <2>3 DEF Ring, AtRest
<1> QED BY <1>1, <1>2, <1>3, <1>4, <1>5, <1>6

LEMMA StagingInductive ==
  ASSUME DmaAssumption, Bursts, Staging, [Next]_vars
  PROVE  Staging'
<1>0. prog \in [pc : Pc, sent : Nat, pos : Nat, on : BOOLEAN, session : Nat,
                aborts : Nat, killed : BOOLEAN]
  BY DEF Bursts, Types, HostType
<1>1. CASE Clock
  <2>1. PICK io \in Lines : /\ Edge(io)
                            /\ prog' = [prog EXCEPT !.pos = IF accepted(io) THEN @ + 1 ELSE @]
    BY <1>1 DEF Clock
  <2>2. io \in Wires /\ ~io.start
    BY <2>1, LinesAreWires DEF Lines
  <2>3. Follows(io) /\ prog'.killed = prog.killed
    BY <1>0, <2>1 DEF Follows
  <2> QED BY <2>1, <2>2, <2>3, RingEdge DEF Staging
<1>2. CASE Abort
  <2>1. PICK ln \in Lines :
          /\ Edge([ln EXCEPT !.abort = TRUE])
          /\ prog' = [prog EXCEPT !.aborts = @ + 1, !.pos = IF accepted(ln) THEN @ + 1 ELSE @]
    BY <1>2 DEF Abort
  <2> DEFINE io == [ln EXCEPT !.abort = TRUE]
  <2>2. io \in Wires /\ ~io.start /\ Edge(io) /\ (accepted(io) <=> accepted(ln))
    BY <2>1, LinesAreWires DEF Lines, accepted, taken
  <2>3. Follows(io) /\ prog'.killed = prog.killed
    <3>1. CASE accepted(ln)
      <4>1. prog' = [prog EXCEPT !.aborts = prog.aborts + 1, !.pos = prog.pos + 1]
        BY <2>1, <3>1, Zenon
      <4> QED BY <1>0, <2>2, <3>1, <4>1 DEF Follows
    <3>2. CASE ~accepted(ln)
      <4>1. prog' = [prog EXCEPT !.aborts = prog.aborts + 1, !.pos = prog.pos]
        BY <2>1, <3>2, Zenon
      <4> QED BY <1>0, <2>2, <3>2, <4>1 DEF Follows
    <3> QED BY <3>1, <3>2
  <2> HIDE DEF io
  <2> QED BY <2>2, <2>3, RingEdge DEF Staging
<1>3. CASE Start
  <2>1. prog'.killed = prog.killed
    BY <1>0, <1>3 DEF Start, Goto
  <2> QED BY <1>3, <2>1, RingStart DEF Staging
<1>4. CASE ReaderOff \/ Arm \/ ReaderOn \/ Poll \/ Timeout \/ Again
  <2>1. prog'.killed = prog.killed
    BY <1>0, <1>4 DEF ReaderOff, Arm, ReaderOn, Poll, Timeout, Again, Goto
  <2> QED BY <1>4, <2>1, RingProgram DEF Staging
<1>5. CASE Kill
  BY <1>0, <1>5 DEF Kill, Goto, Staging
<1>6. CASE UNCHANGED vars
  BY <1>6 DEF vars, Staging, Ring, AtRest, Placed, Moving, Written, Packing, WordAt
<1> QED BY <1>1, <1>2, <1>3, <1>4, <1>5, <1>6 DEF Next, Program

LEMMA StagingInitially == ASSUME DmaAssumption, Init PROVE Staging
<1>1. /\ prog.pc = "off" /\ prog.sent = 0 /\ eng.st = "IDLE" /\ eng.done = FALSE
  BY DEF Init
<1>2. ChunkBeats \in Nat /\ Beats \in Nat /\ 0 \in 0 .. Chunks /\ 0 = 0 * ChunkBeats
  BY RingNat DEF DmaAssumption
<1>3. Placed(prog.sent)
  BY <1>1, <1>2 DEF Placed
<1> QED BY <1>1, <1>2, <1>3 DEF Staging, Ring, AtRest

\* For every length of a burst, a ring and an image: when the staging program says
\* the image is in HBM, each beat of it is where it belongs, whatever an abort or an
\* earlier run that gave up left in the packer (hbm_dma_stage.c over HBMDMAWriter);
\* unless a run was killed.
THEOREM ImageStaged == ASSUME DmaAssumption PROVE Spec => []StagedInPlace
<1>1. Init => Bursts /\ Staging
  BY BurstsInitially, StagingInitially
<1>2. Bursts /\ Staging /\ [Next]_vars => Bursts' /\ Staging'
  BY BurstsInductive, StagingInductive
<1>3. Bursts /\ Staging => StagedInPlace
  <2> SUFFICES ASSUME Bursts, Staging, prog.pc = "end", ~prog.killed,
                      NEW b \in 0 .. Beats - 1
               PROVE  hbm[b] = <<2 * b, (2 * b) + 1>>
    BY DEF StagedInPlace
  <2>1. prog.sent = Beats /\ Placed(prog.sent)
    BY DEF Staging, Ring
  <2>2. b < Beats
    BY RingNat
  <2> QED BY <2>1, <2>2 DEF Placed
<1> QED BY <1>1, <1>2, <1>3, PTL DEF Spec

=============================================================================
