------------------------ MODULE IopDmaSystem_proofs ------------------------
(***************************************************************************)
(* Proofs about IopDmaSystem, for every size of the address space, of the  *)
(* counters and of the FIFO, every content of RAM and of the SIF1 stream,  *)
(* every scenario, and any number of transfers and of resets.              *)
(***************************************************************************)
EXTENDS IopDmaSystem, Integers, SequenceTheorems, TLAPS

-----------------------------------------------------------------------------
(* Types. *)

RegType ==
  /\ madr \in [Channels -> Addr] /\ tadr \in [Channels -> Addr]
  /\ bcr \in [Channels -> Bcr] /\ chcr \in [Channels -> Chcr]
  /\ dpcr \subseteq Channels /\ dicr_master \in BOOLEAN
  /\ dicr_en \subseteq Channels /\ dicr_fl \subseteq Channels

Xfer == [ch : 0..12, addr : Addr, words : Count, decr : BOOLEAN]
State == {"IDLE", "RUN", "FINISH", "SIF0RUN", "SIF1RUN"}
EngineType ==
  /\ state \in State /\ xfer \in Xfer /\ s0 \in Sif0Reg /\ s1 \in Sif1Reg
  /\ state \in {"RUN", "FINISH"} => xfer.ch \in Channels \ {9, 10}
  /\ s0.issued /\ s0.phase => s0.words # 0

WireType ==
  /\ ram_req \in BOOLEAN /\ ram_rnw \in BOOLEAN /\ ram_addr \in Addr /\ ram_wdata \in Nat
  /\ sif0_we \in BOOLEAN /\ sif0_data \in Addr

EnvType ==
  /\ scenario \in Scenarios /\ reset \in BOOLEAN /\ reset_int \in BOOLEAN
  /\ port \in PortHolder /\ rd_addr \in Addr
  /\ sif1_pos \in Nat /\ sif1_sent \in Nat /\ sif1_pos <= sif1_sent /\ sif1_sent <= Sif1Total
  /\ sif0_fifo \in Seq(Addr) /\ ee_got \in Seq(Addr)
  /\ dev_valid \in BOOLEAN /\ dev_pos \in Nat

HistoryType ==
  /\ starts \in Nat /\ frame \in Frame
  /\ sif1_log \in Seq(Write) /\ run_log \in Seq(Write) /\ run_due \in Seq(Write)
  /\ sif0_due \in Seq(Addr)

TypeOK == RegType /\ EngineType /\ WireType /\ EnvType /\ HistoryType

-----------------------------------------------------------------------------
(* The inductive invariants, one for each user of the engine; all of them    *)
(* speak of a controller that is not in reset.                               *)

\* A request is on the wires only while the engine moves words, and never with
\* a word for the EE; it may be granted in this cycle when the port is free.
Requests == ram_req => state \in {"RUN", "SIF0RUN", "SIF1RUN"} /\ ~sif0_we
Grantable == ram_req /\ port = "free"

\* The counts the driver writes fit the word counter.
CountsFit ==
  /\ HalfSpace < CountSpace
  /\ \A n \in CountVals : DueCount(n, n.ba # 0) < CountSpace
BcrWritten ==
  \A c \in Channels : \/ bcr[c] = NoBcr
                      \/ \E n \in CountVals : bcr[c] = [bs |-> n.bs, ba |-> n.ba]

\* Write j of a transfer of n words from a, the device at word p.
RunAt(c, a, n, p, j) ==
  IF c = 6 THEN [addr |-> Below(a, j - 1), data |-> IF j = n THEN EndMarker ELSE Below(a, j)]
  ELSE [addr |-> (a + j - 1) % AddrSpace, data |-> p + j]

\* Of the writes due, those of log are made; the rest are those of a transfer of n
\* words from a.
Rest(log, due, c, a, n, p) ==
  /\ Len(log) + n = Len(due)
  /\ \A i \in 1..Len(log) : log[i] = due[i]
  /\ \A j \in 1..n : due[Len(log) + j] = RunAt(c, a, n, p, j)

\* What a transfer has still to write is what one started from its registers as
\* they are would write; a request that can be granted is for the first of it.
RunInv ==
  /\ BcrWritten
  /\ state = "FINISH" => run_log = run_due
  /\ state = "RUN" =>
       /\ xfer.ch \in {3, 6} \cap StartChannels /\ (xfer.decr <=> xfer.ch = 6)
       /\ Rest(run_log, run_due, xfer.ch, xfer.addr, xfer.words, dev_pos)
       /\ Grantable => /\ ~ram_rnw /\ xfer.words # 0 /\ HasWord(dev_valid)
                       /\ ram_addr = xfer.addr /\ ram_wdata = RunWord(dev_data)

\* No frame is open: the next word is the first of a tag.
Between == frame.tag = 0 \/ (frame.tag = 4 /\ frame.left = 0)

\* The registers of SIF1 are the open frame; it is armed by the driver or by the
\* host, never by both.
KickApart == \A s \in Scenarios : ~(s.kick /\ 10 \in s.start)
Sif1Inv ==
  /\ sif1_log = frame.log
  /\ s1.phase => frame.tag = 4 /\ s1.words = frame.left /\ s1.addr = frame.addr
  /\ ~s1.phase /\ s1.tagw = 0 => Between
  /\ ~s1.phase /\ s1.tagw # 0 => /\ frame.tag = s1.tagw /\ s1.addr = frame.addr
                                 /\ s1.tagw >= 2 => s1.words = frame.left
  /\ ~s1.armed => ~s1.phase /\ s1.tagw = 0
  /\ s1.armed => chcr[10].start \/ Kick
  /\ state = "SIF1RUN" =>
       /\ s1.armed
       /\ Grantable => /\ ~ram_rnw /\ s1.phase /\ s1.words # 0 /\ sif1_valid
                       /\ ram_addr = s1.addr /\ ram_wdata = sif1_data

\* The words on their way to the EE, the one at the FIFO's input included.
ToEe == (ee_got \o sif0_fifo) \o (IF sif0_we THEN <<sif0_data>> ELSE <<>>)

\* The words a transfer with the registers s has still to send: how many, and which.
Sif0Skip(s) == IF s.tw < 2 THEN 0 ELSE s.tw - 2
Sif0Len(t) == RamWord((t + 1) % AddrSpace) % LenSpace
RestLen(s) == IF ~s.armed THEN 0 ELSE IF s.phase THEN s.words ELSE (4 + Sif0Len(s.tadr)) - Sif0Skip(s)
RestWord(s, j) ==
  IF s.phase THEN (s.addr + j - 1) % AddrSpace ELSE Sif0Words(s.tadr)[Sif0Skip(s) + j]

\* Of the words due, those of q are sent; the rest are those of the transfer of s.
Owes(q, due, s) ==
  /\ Len(q) + RestLen(s) = Len(due)
  /\ \A i \in 1..Len(q) : q[i] = due[i]
  /\ \A j \in 1..RestLen(s) : due[Len(q) + j] = RestWord(s, j)

\* What a transfer has read of its tag.
TagRead(s) ==
  /\ ~s.phase /\ s.tw >= 1 => s.addr = RamWord(s.tadr) % AddrSpace
  /\ ~s.phase /\ s.tw >= 2 => s.words = Sif0Len(s.tadr)

\* The address of the read that comes next.
Sif0Next(s) == IF s.phase THEN s.addr ELSE (s.tadr + s.tw) % AddrSpace

\* A read of SIF0 is issued only from SIF0RUN and answered there, with no other word
\* for the EE pending and an entry free for its own; a request of SIF0 is for the word
\* that comes next, though it may be granted cycles after it was made.
Sif0Inv ==
  /\ Owes(ToEe, sif0_due, s0) /\ TagRead(s0)
  /\ ~s0.armed => ~s0.phase /\ ~s0.issued
  /\ s0.armed => chcr[9].start
  /\ s0.issued => /\ state = "SIF0RUN" /\ port = "dmard" /\ rd_addr = Sif0Next(s0)
                  /\ ~sif0_we /\ ~sif0_full
  /\ sif0_we => ~sif0_full
  /\ state = "SIF0RUN" =>
       /\ s0.armed
       /\ Grantable => ram_rnw /\ ram_addr = Sif0Next(s0)

-----------------------------------------------------------------------------
(* Remainders. *)

LEMMA ModUnique ==
  ASSUME NEW m \in Nat \ {0}, NEW q \in Nat, NEW r \in 0..m - 1
  PROVE  (m * q + r) % m = r
<1> DEFINE x == m * q + r
           p == x \div m
           t == x % m
<1>1. x \in Nat
  OBVIOUS
<1>2. p \in Nat /\ t \in 0..m - 1 /\ x = m * p + t
  BY <1>1
<1>3. m * q + r = m * p + t
  BY <1>2
<1> HIDE DEF p, t, x
<1>4. q = p
  <2>1. ASSUME q >= p + 1 PROVE FALSE
    <3>1. m * q >= m * (p + 1)
      BY <1>2, <2>1
    <3>2. m * (p + 1) = m * p + m
      BY <1>2
    <3> QED BY <1>2, <1>3, <3>1, <3>2
  <2>2. ASSUME p >= q + 1 PROVE FALSE
    <3>1. m * p >= m * (q + 1)
      BY <1>2, <2>2
    <3>2. m * (q + 1) = m * q + m
      BY <1>2
    <3> QED BY <1>2, <1>3, <3>1, <3>2
  <2> QED BY <1>2, <2>1, <2>2
<1>5. r = t
  BY <1>2, <1>3, <1>4
<1> QED BY <1>5 DEF t, x

\* Adding one, or the modulus, to a number and to its remainder.
LEMMA ModNext ==
  ASSUME NEW m \in Nat \ {0}, NEW x \in Nat
  PROVE  /\ (x + 1) % m = IF (x % m) + 1 = m THEN 0 ELSE (x % m) + 1
         /\ (m + x) % m = x % m
<1>1. PICK q \in Nat, r \in 0..m - 1 : x = m * q + r /\ x % m = r
  <2>1. x \div m \in Nat /\ x % m \in 0..m - 1 /\ x = m * (x \div m) + (x % m)
    OBVIOUS
  <2> QED BY <2>1
<1>2. m * (q + 1) = m * q + m /\ m * q \in Nat /\ q + 1 \in Nat
  OBVIOUS
<1>3. (m + x) % m = r
  <2>1. m + x = m * (q + 1) + r
    BY <1>1, <1>2
  <2> QED BY <1>2, <2>1, ModUnique
<1>4. CASE r + 1 = m
  <2>1. x + 1 = m * (q + 1) + 0 /\ 0 \in 0..m - 1
    BY <1>1, <1>2, <1>4
  <2>2. (x + 1) % m = 0
    BY <1>2, <2>1, ModUnique
  <2> QED BY <1>1, <1>3, <1>4, <2>2
<1>5. CASE r + 1 # m
  <2>1. x + 1 = m * q + (r + 1) /\ r + 1 \in 0..m - 1
    BY <1>1, <1>2, <1>5
  <2>2. (x + 1) % m = r + 1
    BY <1>2, <2>1, ModUnique
  <2> QED BY <1>1, <1>3, <1>5, <2>2
<1> QED BY <1>4, <1>5

LEMMA ModSmall ==
  ASSUME NEW m \in Nat \ {0}, NEW x \in 0..(m + m) - 1
  PROVE  x % m = IF x < m THEN x ELSE x - m
<1>1. CASE x < m
  <2>1. x % m = x
    BY <1>1
  <2> QED BY <1>1, <2>1
<1>2. CASE x >= m
  <2>1. PICK y \in 0..m - 1 : x = m + y
    <3>1. x - m \in 0..m - 1 /\ x = m + (x - m)
      BY <1>2
    <3> QED BY <3>1
  <2>2. y % m = y /\ y \in Nat
    OBVIOUS
  <2>3. (m + y) % m = y % m
    BY <2>2, ModNext, Zenon
  <2> QED BY <1>2, <2>1, <2>2, <2>3
<1> QED BY <1>1, <1>2

\* A walk over addresses from the next one is the rest of the walk.
LEMMA UpShift ==
  ASSUME NEW m \in Nat \ {0}, NEW a \in 0..m - 1, NEW j \in Nat
  PROVE  (((a + 1) % m) + j) % m = (a + j + 1) % m
<1>1. CASE a + 1 = m
  <2>1. (a + 1) % m = 0
    BY <1>1, ModSmall
  <2>2. a + j + 1 = m + j
    BY <1>1
  <2>3. (m + j) % m = j % m
    BY ModNext
  <2>4. 0 + j = j
    OBVIOUS
  <2> QED BY <2>1, <2>2, <2>3, <2>4
<1>2. CASE a + 1 # m
  <2>1. (a + 1) % m = a + 1
    <3>1. a + 1 \in 0..m - 1
      BY <1>2
    <3> QED BY <3>1
  <2>2. (a + 1) + j = a + j + 1
    OBVIOUS
  <2> QED BY <2>1, <2>2
<1> QED BY <1>1, <1>2

LEMMA DownShift ==
  ASSUME NEW m \in Nat \ {0}, NEW a \in 0..m - 1, NEW j \in Nat
  PROVE  LET d == (a + m - 1) % m
         IN  ((d + m) - (j % m)) % m = ((a + m) - ((j + 1) % m)) % m
<1> DEFINE d == (a + m - 1) % m
           r == j % m
<1>1. r \in 0..m - 1
  OBVIOUS
<1>2. (j + 1) % m = IF r + 1 = m THEN 0 ELSE r + 1
  BY ModNext
<1>3. d = IF a = 0 THEN m - 1 ELSE a - 1
  <2>1. a + m - 1 \in 0..(m + m) - 1
    OBVIOUS
  <2>2. d = IF a + m - 1 < m THEN a + m - 1 ELSE (a + m - 1) - m
    BY <2>1, ModSmall
  <2> QED BY <2>2
<1> HIDE DEF d, r
<1>4. ASSUME NEW x \in 0..(m + m) - 1, NEW y \in 0..(m + m) - 1, x = y \/ x = y + m \/ y = x + m
      PROVE  x % m = y % m
  <2>1. /\ x % m = IF x < m THEN x ELSE x - m
        /\ y % m = IF y < m THEN y ELSE y - m
    BY ModSmall
  <2> QED BY <1>4, <2>1
<1>5. /\ (d + m) - r \in 0..(m + m) - 1
      /\ (a + m) - (IF r + 1 = m THEN 0 ELSE r + 1) \in 0..(m + m) - 1
  BY <1>1, <1>3
<1>6. \/ (d + m) - r = (a + m) - (IF r + 1 = m THEN 0 ELSE r + 1)
      \/ (d + m) - r = ((a + m) - (IF r + 1 = m THEN 0 ELSE r + 1)) + m
      \/ (a + m) - (IF r + 1 = m THEN 0 ELSE r + 1) = ((d + m) - r) + m
  BY <1>1, <1>3
<1>7. ((d + m) - r) % m = ((a + m) - (IF r + 1 = m THEN 0 ELSE r + 1)) % m
  BY <1>4, <1>5, <1>6
<1> QED BY <1>2, <1>7 DEF d, r

-----------------------------------------------------------------------------
(* The driver. *)

WellFormed(w) ==
  /\ w.to \in {"none", "dpcr", "dicr", "ack", "madr", "bcr", "tadr", "chcr"}
  /\ reset_int => w.to = "none"
  /\ w.to = "dpcr" => w.val = StartChannels
  /\ w.to = "dicr" => w.val = [master |-> TRUE, en |-> StartChannels]
  /\ w.to \in {"madr", "bcr", "tadr", "chcr"} => w.ch \in StartChannels /\ ~chcr[w.ch].start
  /\ w.to = "madr" => w.val \in Addr
  /\ w.to = "bcr" => \E n \in CountVals : w.val = [bs |-> n.bs, ba |-> n.ba]
  /\ w.to = "tadr" => w.val \in Addr
  /\ w.to = "chcr" => w.val = [start |-> TRUE, block |-> bcr[w.ch].ba # 0, decr |-> w.ch = 6]

LEMMA ScenarioType ==
  ASSUME scenario \in Scenarios
  PROVE  StartChannels \subseteq Channels /\ Kick \in BOOLEAN /\ scenario.tadr \subseteq Addr
         /\ Sif1Total \in Nat
BY DmaSystemAssumption DEF Scenario, StartChannels, Kick, Sif1Total

LEMMA WriteFields ==
  ASSUME NEW t, NEW c, NEW v, NEW w, w = [to |-> t, ch |-> c, val |-> v]
  PROVE  w.to = t /\ w.ch = c /\ w.val = v
OBVIOUS

LEMMA DriverWrites ==
  ASSUME scenario \in Scenarios, NEW w \in BusWrites
  PROVE  WellFormed(w)
<1>1. CASE w = NoWrite
  BY <1>1 DEF WellFormed, NoWrite
<1>2. CASE ~reset_int /\ w \in Setup
  <2>1. CASE w = [to |-> "dpcr", ch |-> 0, val |-> StartChannels]
    <3>1. w.to = "dpcr" /\ w.val = StartChannels
      BY <2>1, WriteFields, Zenon
    <3> QED BY <1>2, <3>1 DEF WellFormed
  <2>2. CASE w = [to |-> "dicr", ch |-> 0, val |-> [master |-> TRUE, en |-> StartChannels]]
    <3>1. w.to = "dicr" /\ w.val = [master |-> TRUE, en |-> StartChannels]
      BY <2>2, WriteFields, Zenon
    <3> QED BY <1>2, <3>1 DEF WellFormed
  <2> QED BY <1>2, <2>1, <2>2, Zenon DEF Setup
<1>3. CASE ~reset_int /\ w \in Acks
  BY <1>3 DEF WellFormed, Acks
<1>4. CASE ~reset_int /\ w \in Programs /\ Idle(w.ch)
  <2>1. ASSUME NEW c \in StartChannels \cap {3, 6}, NEW a \in AddrVals,
               w = [to |-> "madr", ch |-> c, val |-> a]
        PROVE  WellFormed(w)
    <3>1. w.to = "madr" /\ w.ch = c /\ w.val = a
      BY <2>1, WriteFields, Zenon
    <3> QED BY <1>4, <3>1, DmaSystemAssumption DEF WellFormed, Idle
  <2>2. ASSUME NEW c \in StartChannels \cap {3, 6}, NEW n \in CountVals,
               w = [to |-> "bcr", ch |-> c, val |-> [bs |-> n.bs, ba |-> n.ba]]
        PROVE  WellFormed(w)
    <3>1. w.to = "bcr" /\ w.ch = c /\ w.val = [bs |-> n.bs, ba |-> n.ba]
      BY <2>2, WriteFields, Zenon
    <3> QED BY <1>4, <3>1 DEF WellFormed, Idle
  <2>3. ASSUME NEW c \in StartChannels \cap {9}, NEW a \in scenario.tadr,
               w = [to |-> "tadr", ch |-> c, val |-> a]
        PROVE  WellFormed(w)
    <3>1. w.to = "tadr" /\ w.ch = c /\ w.val = a
      BY <2>3, WriteFields, Zenon
    <3> QED BY <1>4, <3>1, ScenarioType DEF WellFormed, Idle
  <2>4. \/ \E c \in StartChannels \cap {3, 6}, a \in AddrVals : w = [to |-> "madr", ch |-> c, val |-> a]
        \/ \E c \in StartChannels \cap {3, 6}, n \in CountVals :
              w = [to |-> "bcr", ch |-> c, val |-> [bs |-> n.bs, ba |-> n.ba]]
        \/ \E c \in StartChannels \cap {9}, a \in scenario.tadr : w = [to |-> "tadr", ch |-> c, val |-> a]
    BY <1>4 DEF Programs
  <2> QED BY <2>1, <2>2, <2>3, <2>4
<1>5. CASE ~reset_int /\ w \in StartWrites /\ Idle(w.ch)
  <2>1. PICK c \in StartChannels :
          w = [to |-> "chcr", ch |-> c, val |-> [start |-> TRUE, block |-> bcr[c].ba # 0, decr |-> c = 6]]
    BY <1>5, Zenon DEF StartWrites
  <2>2. /\ w.to = "chcr" /\ w.ch = c
        /\ w.val = [start |-> TRUE, block |-> bcr[c].ba # 0, decr |-> c = 6]
    BY <2>1, WriteFields, Zenon
  <2> QED BY <1>5, <2>2 DEF WellFormed, Idle
<1> QED BY <1>1, <1>2, <1>3, <1>4, <1>5 DEF BusWrites

-----------------------------------------------------------------------------
(* Types are kept. *)

LEMMA Sizes ==
  /\ AddrSpace \in Nat \ {0} /\ CountSpace \in Nat \ {0} /\ HalfSpace \in Nat \ {0}
  /\ LenSpace \in Nat \ {0} /\ LenSpace <= CountSpace /\ 0 \in Addr /\ 0 \in Count
  /\ Channels \subseteq 0..12 /\ {9, 10} \subseteq Channels /\ Sif0Depth \in Nat \ {0}
BY DmaAssumption, DmaSystemAssumption DEF Addr, Count

LEMMA Remainders ==
  ASSUME NEW x \in Nat
  PROVE  /\ x % AddrSpace \in Addr /\ x % CountSpace \in Count
         /\ x % LenSpace \in Count /\ x % LenSpace \in Nat
<1>1. \A m \in Nat \ {0} : x % m \in 0..m - 1
  OBVIOUS
<1> QED BY <1>1, Sizes DEF Addr, Count

LEMMA Steps ==
  ASSUME NEW a \in Addr
  PROVE  Up(a) \in Addr /\ Down(a) \in Addr
<1>1. a + 1 \in Nat /\ a + AddrSpace - 1 \in Nat
  BY Sizes DEF Addr
<1> QED BY <1>1, Remainders DEF Up, Down

LEMMA OneLess ==
  ASSUME NEW n \in Count, n # 0
  PROVE  n - 1 \in Count
BY Sizes DEF Count

LEMMA TransferWords ==
  ASSUME NEW b \in Bcr, NEW c \in Chcr
  PROVE  transfer_words(b, c) \in Count
<1> DEFINE bs == IF b.bs = 0 THEN HalfSpace ELSE b.bs
           ba == IF b.ba = 0 THEN 1 ELSE b.ba
<1>1. bs \in Nat /\ ba \in Nat
  BY Sizes DEF Bcr
<1> HIDE DEF bs, ba
<1>2. bs * ba \in Nat
  BY <1>1
<1> QED BY <1>1, <1>2, Remainders DEF transfer_words, bs, ba

LEMMA RegisterTypes ==
  ASSUME RegType, EngineType, scenario \in Scenarios, NEW w, WellFormed(w)
  PROVE  /\ madrW(w) \in [Channels -> Addr] /\ tadrW(w) \in [Channels -> Addr]
         /\ chcrW(w) \in [Channels -> Chcr] /\ dicr_flW(w) \subseteq Channels
         /\ s0W(w) \in Sif0Reg /\ s1W(w) \in Sif1Reg /\ Armed1 \in Sif1Reg
         /\ w.to = "chcr" => w.ch \in Channels /\ w.val \in Chcr
<1>1. StartChannels \subseteq Channels
  BY ScenarioType
<1>2. w.to = "chcr" => w.ch \in Channels /\ w.val \in Chcr
  <2>1. ASSUME NEW b \in BOOLEAN, NEW d \in BOOLEAN PROVE [start |-> TRUE, block |-> b, decr |-> d] \in Chcr
    BY DEF Chcr
  <2>2. w.to = "chcr" => w.ch \in Channels
    BY <1>1 DEF WellFormed
  <2>3. w.to = "chcr" => w.val = [start |-> TRUE, block |-> bcr[w.ch].ba # 0, decr |-> w.ch = 6]
    BY DEF WellFormed
  <2>4. (bcr[w.ch].ba # 0) \in BOOLEAN /\ (w.ch = 6) \in BOOLEAN
    OBVIOUS
  <2> QED BY <2>1, <2>2, <2>3, <2>4, Zenon
<1>3. madrW(w) \in [Channels -> Addr]
  BY <1>1 DEF RegType, WellFormed, madrW, Written
<1>4. tadrW(w) \in [Channels -> Addr]
  BY <1>1 DEF RegType, WellFormed, tadrW, Written
<1>5. chcrW(w) \in [Channels -> Chcr]
  BY <1>2 DEF RegType, chcrW, Written
<1>6. dicr_flW(w) \subseteq Channels
  BY DEF RegType, dicr_flW
<1>7. tadr[9] \in Addr
  BY Sizes DEF RegType
<1>8. s0W(w) \in Sif0Reg
  <2>1. ASSUME NEW t \in Addr
        PROVE  [s0 EXCEPT !.armed = TRUE, !.phase = FALSE, !.issued = FALSE, !.tw = 0, !.tadr = t] \in Sif0Reg
    <3>1. 0 \in 0..5 /\ TRUE \in BOOLEAN /\ FALSE \in BOOLEAN
      OBVIOUS
    <3> QED BY <3>1 DEF EngineType, Sif0Reg
  <2> QED BY <1>7, <2>1 DEF EngineType, s0W
<1>9. Armed1 \in Sif1Reg
  <2>1. 0 \in 0..3 /\ TRUE \in BOOLEAN /\ FALSE \in BOOLEAN
    OBVIOUS
  <2> QED BY <2>1 DEF EngineType, Sif1Reg, Armed1
<1>10. s1W(w) \in Sif1Reg
  BY <1>9 DEF EngineType, s1W
<1> QED BY <1>2, <1>3, <1>4, <1>5, <1>6, <1>8, <1>9, <1>10

LEMMA BusTypes ==
  ASSUME RegType, scenario \in Scenarios, NEW w, WellFormed(w), BusRegisters(w)
  PROVE  /\ bcr' \in [Channels -> Bcr] /\ dpcr' \subseteq Channels
         /\ dicr_master' \in BOOLEAN /\ dicr_en' \subseteq Channels
<1>1. StartChannels \subseteq Channels
  BY ScenarioType
<1>2. w.to = "bcr" => w.ch \in Channels /\ w.val \in Bcr
  <2>1. ASSUME NEW n \in CountVals PROVE [bs |-> n.bs, ba |-> n.ba] \in Bcr
    BY DmaSystemAssumption DEF Bcr
  <2> QED BY <1>1, <2>1 DEF WellFormed
<1>3. bcr' \in [Channels -> Bcr]
  BY <1>2 DEF RegType, BusRegisters, Written
<1>4. dpcr' \subseteq Channels
  BY <1>1 DEF RegType, BusRegisters, WellFormed
<1>5. w.to = "dicr" => w.val.master = TRUE /\ w.val.en = StartChannels
  BY DEF WellFormed
<1>6. dicr_master' \in BOOLEAN /\ dicr_en' \subseteq Channels
  BY <1>1, <1>5 DEF RegType, BusRegisters
<1> QED BY <1>3, <1>4, <1>6

\* The three endings of an action: registers, request and push.
Regs == madr' \in [Channels -> Addr] /\ chcr' \in [Channels -> Chcr] /\ dicr_fl' \subseteq Channels
Request == ram_req' \in BOOLEAN /\ ram_rnw' \in BOOLEAN /\ ram_addr' \in Addr /\ ram_wdata' \in Nat
Pushed == sif0_we' \in BOOLEAN /\ sif0_data' \in Addr

LEMMA EndingTypes ==
  ASSUME RegType, EngineType, WireType, scenario \in Scenarios, NEW w, WellFormed(w)
  PROVE  /\ NoneCompletes(w) => Regs /\ tadr' \in [Channels -> Addr]
         /\ \A c \in Channels, a \in Addr : Completes(w, c, a) => Regs
         /\ NoRequest => Request
         /\ \A a \in Addr : ReadRequest(a) => Request
         /\ \A a \in Addr, d \in Nat : WriteRequest(a, d) => Request
         /\ NoPush => Pushed
         /\ \A d \in Addr : Push(d) => Pushed
<1>1. NoneCompletes(w) => Regs /\ tadr' \in [Channels -> Addr]
  BY RegisterTypes DEF NoneCompletes, Regs
<1>2. ASSUME NEW c \in Channels, NEW a \in Addr, Completes(w, c, a) PROVE Regs
  <2>1. [chcr[c] EXCEPT !.start = FALSE] \in Chcr
    <3>1. chcr[c] \in Chcr
      BY DEF RegType
    <3>2. ASSUME NEW r \in Chcr PROVE [r EXCEPT !.start = FALSE] \in Chcr
      BY DEF Chcr
    <3> QED BY <3>1, <3>2
  <2>2. madr' \in [Channels -> Addr] /\ dicr_fl' \subseteq Channels
    BY <1>2, RegisterTypes DEF Completes
  <2>3. chcr' \in [Channels -> Chcr]
    <3>1. chcr' = [chcrW(w) EXCEPT ![c] = [chcr[c] EXCEPT !.start = FALSE]]
      BY <1>2 DEF Completes
    <3>2. ASSUME NEW f \in [Channels -> Chcr], NEW r \in Chcr PROVE [f EXCEPT ![c] = r] \in [Channels -> Chcr]
      OBVIOUS
    <3> QED BY <2>1, <3>1, <3>2, RegisterTypes
  <2> QED BY <2>2, <2>3 DEF Regs
<1>3. /\ NoRequest => Request
      /\ \A a \in Addr : ReadRequest(a) => Request
      /\ \A a \in Addr, d \in Nat : WriteRequest(a, d) => Request
  BY DEF WireType, NoRequest, ReadRequest, WriteRequest, Request
<1>4. NoPush => Pushed
  BY DEF WireType, NoPush, Pushed
<1>5. \A d \in Addr : Push(d) => Pushed
  BY DEF Push, Pushed
<1> QED BY <1>1, <1>2, <1>3, <1>4, <1>5

\* Types of what the controller reads from its surroundings.
LEMMA InputTypes ==
  ASSUME EnvType
  PROVE  /\ sif1_data \in Nat /\ dev_data \in Nat /\ rd_addr \in Addr
         /\ sif1_valid => SifWord(sif1_data) \in Nat
         /\ RamWord(rd_addr) \in Nat
<1>1. sif1_valid => sif1_data \in 1..scenario.total
  BY ScenarioType DEF EnvType, sif1_valid, sif1_data, Sif1Total
<1>2. sif1_valid => SifWord(sif1_data) \in Nat
  BY <1>1, DmaSystemAssumption DEF EnvType
<1>3. RamWord(rd_addr) \in Nat
  BY DmaAssumption DEF EnvType, Addr
<1> QED BY <1>2, <1>3 DEF EnvType, sif1_data, dev_data

\* The action of the engine's cycle.
Engine(w, kick, gnt, rvalid) ==
  DmaRun(w, kick, gnt, rvalid, rd_addr, sif0_full, sif1_valid, sif1_data, dev_valid, dev_data)

LEMMA EngineTypes ==
  ASSUME RegType, EngineType, WireType, EnvType, NEW w, WellFormed(w),
         NEW kick \in BOOLEAN, NEW gnt \in BOOLEAN, NEW rvalid \in BOOLEAN,
         Engine(w, kick, gnt, rvalid)
  PROVE  RegType' /\ EngineType' /\ WireType'
<1> DEFINE Goal == /\ Regs /\ tadr' \in [Channels -> Addr] /\ Request /\ Pushed
                   /\ state' \in State /\ xfer' \in Xfer /\ s0' \in Sif0Reg /\ s1' \in Sif1Reg
                   /\ state' \in {"RUN", "FINISH"} => xfer'.ch \in Channels \ {9, 10}
                   /\ s0'.issued /\ s0'.phase => s0'.words # 0
<1>0. scenario \in Scenarios
  BY DEF EnvType
<1>1. /\ bcr' \in [Channels -> Bcr] /\ dpcr' \subseteq Channels
      /\ dicr_master' \in BOOLEAN /\ dicr_en' \subseteq Channels
  BY <1>0, BusTypes DEF Engine, DmaRun
<1> SUFFICES Goal
  BY <1>1 DEF Regs, Request, Pushed, RegType, EngineType, WireType
<1>2. /\ s0W(w) \in Sif0Reg /\ s1W(w) \in Sif1Reg /\ Armed1 \in Sif1Reg
      /\ tadrW(w) \in [Channels -> Addr] /\ s0 \in Sif0Reg /\ s1 \in Sif1Reg
      /\ w.to = "chcr" => w.ch \in Channels /\ w.val \in Chcr
      /\ s0W(w).issued /\ s0W(w).phase => s0W(w).words # 0
  <2>1. s0W(w).issued /\ s0W(w).phase => s0W(w).words # 0
    BY DEF EngineType, Sif0Reg, s0W
  <2> QED BY <1>0, <2>1, RegisterTypes DEF EngineType
<1>3. /\ state \in State /\ xfer \in Xfer
      /\ state \in {"RUN", "FINISH"} => xfer.ch \in Channels \ {9, 10}
  BY DEF EngineType
<1> HIDE DEF Goal
<1>4. CASE EngineTakesStart(w)
  <2>1. w.ch \in Channels \ {9, 10} /\ w.val \in Chcr
    BY <1>2, <1>4 DEF EngineTakesStart, EngineStart, Starts
  <2>2. madr[w.ch] \in Addr /\ transfer_words(bcr[w.ch], w.val) \in Count /\ w.val.decr \in BOOLEAN
    BY <2>1, TransferWords DEF RegType, Chcr
  <2>3. xfer' \in Xfer /\ xfer'.ch = w.ch
    BY <1>4, <2>1, <2>2, Sizes DEF EngineTakesStart, Xfer
  <2>4. state' \in State
    BY <1>4 DEF EngineTakesStart, State
  <2> QED BY <1>0, <1>2, <1>4, <2>1, <2>3, <2>4, EndingTypes DEF EngineTakesStart, Goal
<1>5. CASE EngineKicked(w, kick)
  BY <1>0, <1>2, <1>3, <1>5, EndingTypes DEF EngineKicked, Goal
<1>6. CASE EngineTurns(w, kick, sif1_valid, sif0_full)
  <2>1. state' \in State /\ state' \notin {"RUN", "FINISH"}
    BY <1>6 DEF EngineTurns, State
  <2> QED BY <1>0, <1>2, <1>3, <1>6, <2>1, EndingTypes DEF EngineTurns, Goal
<1>7. CASE Sif0Completes(w)
  <2>1. s0' \in Sif0Reg
    <3>1. ASSUME NEW r \in Sif0Reg
          PROVE  [r EXCEPT !.armed = FALSE, !.phase = FALSE, !.tw = 0] \in Sif0Reg
      <4>1. 0 \in 0..5 /\ FALSE \in BOOLEAN
        OBVIOUS
      <4> QED BY <4>1 DEF Sif0Reg
    <3> QED BY <1>2, <1>7, <3>1 DEF Sif0Completes
  <2>2. tadr' \in [Channels -> Addr]
    <3>1. s0.tadr + 4 \in Nat
      BY <1>2 DEF Sif0Reg, Addr
    <3>2. (s0.tadr + 4) % AddrSpace \in Addr
      BY <3>1, Remainders
    <3> QED BY <1>2, <1>7, <3>2, Sizes DEF Sif0Completes
  <2>3. s0.addr \in Addr /\ 9 \in Channels /\ state' = "IDLE" /\ "IDLE" \in State
    BY <1>2, <1>7, Sizes DEF Sif0Reg, Sif0Completes, State
  <2>4. Regs
    BY <1>0, <1>7, <2>3, EndingTypes DEF Sif0Completes
  <2> QED BY <1>0, <1>2, <1>3, <1>7, <2>1, <2>2, <2>3, <2>4, EndingTypes DEF Sif0Completes, Goal
<1>8. CASE Sif0Waits(w, rvalid)
  BY <1>0, <1>2, <1>3, <1>8, EndingTypes DEF Sif0Waits, Goal
<1>9. CASE Sif0Word(w, rvalid, rd_addr)
  <2>1. rd_addr \in Addr /\ RamWord(rd_addr) \in Nat
    BY InputTypes
  <2>2. Pushed
    BY <1>0, <1>9, <2>1, EndingTypes DEF Sif0Word
  <2>3. s0' \in Sif0Reg /\ ~s0'.issued
    <3>1. CASE ~s0.phase
      <4>1. RamWord(rd_addr) % AddrSpace \in Addr /\ RamWord(rd_addr) % LenSpace \in Count
        BY <2>1, Remainders
      <4>2. ASSUME NEW r \in Sif0Reg, NEW a \in Addr, NEW n \in Count, NEW p \in BOOLEAN, NEW t \in 0..5
            PROVE  LET q == [r EXCEPT !.issued = FALSE, !.addr = a, !.words = n, !.phase = p, !.tw = t]
                   IN  q \in Sif0Reg /\ ~q.issued
        BY DEF Sif0Reg
      <4> DEFINE r == s0W(w)
                 a == IF s0.tw = 0 THEN RamWord(rd_addr) % AddrSpace ELSE r.addr
                 n == IF s0.tw = 1 THEN RamWord(rd_addr) % LenSpace ELSE r.words
                 p == (s0.tw = 5 \/ r.phase)
                 t == IF s0.tw = 5 THEN r.tw ELSE s0.tw + 1
      <4>3. a \in Addr /\ n \in Count /\ p \in BOOLEAN /\ t \in 0..5
        <5>1. s0.tw \in 0..5 /\ r.tw \in 0..5 /\ r.addr \in Addr /\ r.words \in Count /\ r.phase \in BOOLEAN
          BY <1>2 DEF Sif0Reg
        <5> QED BY <4>1, <5>1
      <4>4. s0' = [r EXCEPT !.issued = FALSE, !.addr = a, !.words = n, !.phase = p, !.tw = t]
        BY <1>9, <3>1, Zenon DEF Sif0Word
      <4>5. r \in Sif0Reg
        BY <1>2
      <4> HIDE DEF r, a, n, p, t
      <4> QED BY <4>2, <4>3, <4>4, <4>5
    <3>2. CASE s0.phase
      <4>1. ASSUME NEW r \in Sif0Reg, NEW a \in Addr, NEW n \in Count
            PROVE  LET q == [r EXCEPT !.issued = FALSE, !.words = n, !.addr = a]
                   IN  q \in Sif0Reg /\ ~q.issued
        BY DEF Sif0Reg
      <4>2. s0.addr \in Addr /\ s0.words \in Count /\ s0.words # 0
        BY <1>2, <1>9, <3>2 DEF Sif0Reg, Sif0Word, EngineType
      <4>3. Up(s0.addr) \in Addr /\ s0.words - 1 \in Count
        BY <4>2, Steps, OneLess
      <4>4. s0' = [s0W(w) EXCEPT !.issued = FALSE, !.words = s0.words - 1, !.addr = Up(s0.addr)]
        BY <1>9, <3>2, Zenon DEF Sif0Word
      <4> QED BY <1>2, <4>1, <4>3, <4>4
    <3> QED BY <3>1, <3>2
  <2> QED BY <1>0, <1>2, <1>3, <1>9, <2>2, <2>3, EndingTypes DEF Sif0Word, Goal
<1>10. CASE Sif0Yields(w, sif0_full)
  <2>1. state' = "IDLE" /\ "IDLE" \in State
    BY <1>10 DEF Sif0Yields, State
  <2> QED BY <1>0, <1>2, <1>3, <1>10, <2>1, EndingTypes DEF Sif0Yields, Goal
<1>11. CASE Sif0Asks(w, gnt, sif0_full)
  <2>1. s0' \in Sif0Reg
    <3>1. ASSUME NEW r \in Sif0Reg, NEW i \in BOOLEAN PROVE [r EXCEPT !.issued = i] \in Sif0Reg
      BY DEF Sif0Reg
    <3>2. s0' = [s0W(w) EXCEPT !.issued = s0W(w).issued \/ gnt]
      BY <1>11 DEF Sif0Asks
    <3>3. (s0W(w).issued \/ gnt) \in BOOLEAN
      OBVIOUS
    <3> QED BY <1>2, <3>1, <3>2, <3>3
  <2>4. s0'.issued /\ s0'.phase => s0'.words # 0
    <3>1. s0'.phase = s0W(w).phase /\ s0'.words = s0W(w).words
      <4>1. \E i : s0' = [s0W(w) EXCEPT !.issued = i]
        BY <1>11, Zenon DEF Sif0Asks
      <4> QED BY <1>2, <4>1 DEF Sif0Reg
    <3>2. s0W(w).phase => s0W(w).words # 0
      BY <1>11 DEF Sif0Asks, Sif0Over, s0W, EngineType, Sif0Reg
    <3> QED BY <3>1, <3>2
  <2>2. s0.addr \in Addr /\ (s0.tadr + s0.tw) % AddrSpace \in Addr
    <3>1. s0.tadr + s0.tw \in Nat /\ s0.addr \in Addr
      BY <1>2 DEF Sif0Reg, Addr
    <3> QED BY <3>1, Remainders
  <2>3. Request
    BY <1>0, <1>11, <2>2, EndingTypes DEF Sif0Asks
  <2> QED BY <1>0, <1>2, <1>3, <1>11, <2>1, <2>3, <2>4, EndingTypes DEF Sif0Asks, Goal
<1>12. CASE Sif1Completes(w)
  <2>1. s1' \in Sif1Reg
    <3>1. ASSUME NEW r \in Sif1Reg
          PROVE  [r EXCEPT !.armed = FALSE, !.phase = FALSE, !.tagw = 0] \in Sif1Reg
      <4>1. 0 \in 0..3 /\ FALSE \in BOOLEAN
        OBVIOUS
      <4> QED BY <4>1 DEF Sif1Reg
    <3> QED BY <1>2, <1>12, <3>1 DEF Sif1Completes
  <2>2. s1.addr \in Addr /\ 10 \in Channels /\ state' = "IDLE" /\ "IDLE" \in State
    BY <1>2, <1>12, Sizes DEF Sif1Reg, Sif1Completes, State
  <2>3. Regs
    BY <1>0, <1>12, <2>2, EndingTypes DEF Sif1Completes
  <2> QED BY <1>0, <1>2, <1>3, <1>12, <2>1, <2>2, <2>3, EndingTypes DEF Sif1Completes, Goal
<1>13. CASE Sif1Yields(w, sif1_valid)
  <2>1. state' = "IDLE" /\ "IDLE" \in State
    BY <1>13 DEF Sif1Yields, State
  <2> QED BY <1>0, <1>2, <1>3, <1>13, <2>1, EndingTypes DEF Sif1Yields, Goal
<1>14. CASE Sif1Tag(w, sif1_valid, sif1_data)
  <2>1. s1' \in Sif1Reg
    <3> DEFINE v == SifWord(sif1_data)
               r == s1W(w)
               a == IF s1.tagw = 0 THEN v % AddrSpace ELSE r.addr
               n == IF s1.tagw = 1 THEN 4 * ((v % LenSpace) \div 4) ELSE r.words
               p == (s1.tagw = 3 \/ r.phase)
               t == IF s1.tagw = 3 THEN r.tagw ELSE s1.tagw + 1
    <3>1. v \in Nat
      BY <1>14, InputTypes DEF Sif1Tag
    <3>2. v % AddrSpace \in Addr /\ v % LenSpace \in Count
      BY <3>1, Remainders
    <3>3. \A x \in Count : 4 * (x \div 4) \in Count
      BY Sizes DEF Count
    <3>4. s1.tagw \in 0..3 /\ r.tagw \in 0..3 /\ r.addr \in Addr /\ r.words \in Count /\ r.phase \in BOOLEAN
      BY <1>2 DEF Sif1Reg
    <3> HIDE DEF v
    <3>5. a \in Addr /\ n \in Count /\ p \in BOOLEAN /\ t \in 0..3
      BY <3>2, <3>3, <3>4
    <3>6. ASSUME NEW q \in Sif1Reg, NEW b \in Addr, NEW c \in Count, NEW x \in BOOLEAN, NEW y \in 0..3
          PROVE  [q EXCEPT !.addr = b, !.words = c, !.phase = x, !.tagw = y] \in Sif1Reg
      BY DEF Sif1Reg
    <3>7. s1' = [r EXCEPT !.addr = a, !.words = n, !.phase = p, !.tagw = t]
      BY <1>14, Zenon DEF Sif1Tag, v
    <3>8. r \in Sif1Reg
      BY <1>2
    <3> HIDE DEF r, a, n, p, t
    <3> QED BY <3>5, <3>6, <3>7, <3>8
  <2> QED BY <1>0, <1>2, <1>3, <1>14, <2>1, EndingTypes DEF Sif1Tag, Goal
<1>15. CASE Sif1Data(w, gnt, sif1_valid, sif1_data)
  <2>1. s1' \in Sif1Reg
    <3>1. ASSUME NEW r \in Sif1Reg, NEW a \in Addr, NEW n \in Count
          PROVE  [r EXCEPT !.words = n, !.addr = a] \in Sif1Reg
      BY DEF Sif1Reg
    <3>2. Up(s1.addr) \in Addr /\ s1.words - 1 \in Count
      <4>1. s1.addr \in Addr /\ s1.words \in Count /\ s1.words # 0
        BY <1>2, <1>15 DEF Sif1Reg, Sif1Data, Sif1Over
      <4> QED BY <4>1, Steps, OneLess
    <3> QED BY <1>2, <1>15, <3>1, <3>2 DEF Sif1Data
  <2>2. s1.addr \in Addr
    BY <1>2 DEF Sif1Reg
  <2>3. Request
    BY <1>0, <1>15, <2>2, InputTypes, EndingTypes DEF Sif1Data
  <2> QED BY <1>0, <1>2, <1>3, <1>15, <2>1, <2>3, EndingTypes DEF Sif1Data, Goal
<1>16. CASE RunMoves(w, gnt, dev_valid, dev_data)
  <2>1. xfer.addr \in Addr /\ xfer.words - 1 \in Count
    <3>1. xfer.addr \in Addr /\ xfer.words \in Count /\ xfer.words # 0
      BY <1>3, <1>16 DEF Xfer, RunMoves
    <3> QED BY <3>1, OneLess
  <2>2. xfer' \in Xfer /\ xfer'.ch = xfer.ch
    <3>1. ASSUME NEW a \in Addr, NEW n \in Count
          PROVE  LET x == [xfer EXCEPT !.words = n, !.addr = a] IN x \in Xfer /\ x.ch = xfer.ch
      BY <1>3 DEF Xfer
    <3>2. Up(xfer.addr) \in Addr /\ Down(xfer.addr) \in Addr
      BY <2>1, Steps
    <3>3. xfer' = IF gnt THEN [xfer EXCEPT !.words = xfer.words - 1,
                                           !.addr = IF xfer.decr THEN Down(xfer.addr) ELSE Up(xfer.addr)]
                         ELSE xfer
      BY <1>3, <1>16 DEF RunMoves, Xfer
    <3> QED BY <1>3, <2>1, <3>1, <3>2, <3>3
  <2>3. RunWord(dev_data) \in Nat
    <3>1. Down(xfer.addr) \in Nat /\ EndMarker \in Nat
      BY <2>1, Steps, Sizes DEF Addr, EndMarker
    <3> QED BY <3>1, InputTypes DEF RunWord
  <2>4. Request
    BY <1>0, <1>16, <2>1, <2>3, EndingTypes DEF RunMoves
  <2> QED BY <1>0, <1>2, <1>3, <1>16, <2>2, <2>4, EndingTypes DEF RunMoves, Goal
<1>17. CASE RunWaits(w, dev_valid)
  BY <1>0, <1>2, <1>3, <1>17, EndingTypes DEF RunWaits, Goal
<1>18. CASE RunOver(w)
  <2>1. state' = "FINISH" /\ "FINISH" \in State
    BY <1>18 DEF RunOver, State
  <2> QED BY <1>0, <1>2, <1>3, <1>18, <2>1, EndingTypes DEF RunOver, Goal
<1>19. CASE Finish(w)
  <2>1. state' = "IDLE" /\ "IDLE" \in State /\ xfer.addr \in Addr
    BY <1>3, <1>19 DEF Finish, State, Xfer
  <2>2. Regs
    BY <1>0, <1>3, <1>19, <2>1, EndingTypes DEF Finish
  <2> QED BY <1>0, <1>2, <1>3, <1>19, <2>1, <2>2, EndingTypes DEF Finish, Goal
<1> QED BY <1>4, <1>5, <1>6, <1>7, <1>8, <1>9, <1>10, <1>11, <1>12, <1>13, <1>14, <1>15, <1>16, <1>17,
           <1>18, <1>19 DEF Engine, DmaRun

LEMMA ResetTypes ==
  ASSUME RegType, EngineType, WireType, DmaReset
  PROVE  RegType' /\ EngineType' /\ WireType'
<1>1. RegType'
  <2>1. NoBcr \in Bcr /\ NoChcr \in Chcr
    BY Sizes DEF NoBcr, Bcr, NoChcr, Chcr
  <2>2. madr' \in [Channels -> Addr] /\ tadr' \in [Channels -> Addr]
    BY Sizes DEF DmaReset
  <2>3. bcr' \in [Channels -> Bcr] /\ chcr' \in [Channels -> Chcr]
    BY <2>1 DEF DmaReset
  <2> QED BY <2>2, <2>3 DEF DmaReset, RegType
<1>2. s0' \in Sif0Reg /\ ~s0'.issued
  <2>1. 0 \in 0..5
    OBVIOUS
  <2> QED BY <2>1, Sizes DEF DmaReset, EngineType, Sif0Reg
<1>3. s1' \in Sif1Reg
  <2>1. 0 \in 0..3
    OBVIOUS
  <2> QED BY <2>1, Sizes DEF DmaReset, Sif1Reg
<1>4. state' = "IDLE" /\ xfer' = xfer /\ WireType'
  BY DEF DmaReset, NoRequest, NoPush, WireType
<1>5. EngineType'
  BY <1>2, <1>3, <1>4 DEF EngineType, State
<1> QED BY <1>1, <1>4, <1>5

LEMMA SurroundingTypes ==
  ASSUME EnvType, WireType, EngineType, NEW gnt \in BOOLEAN, NEW rvalid \in BOOLEAN,
         NEW drain \in BOOLEAN, Surroundings(gnt, rvalid, drain)
  PROVE  EnvType'
<1>1. scenario' \in Scenarios /\ reset' \in BOOLEAN /\ reset_int' \in BOOLEAN
  <2>1. scenario.reset \in BOOLEAN
    BY DmaSystemAssumption DEF EnvType, Scenario
  <2> QED BY <2>1 DEF EnvType, Surroundings, Resets
<1>2. port' \in PortHolder /\ rd_addr' \in Addr
  BY DEF EnvType, WireType, Surroundings, Serve, PortClk, PortReset, PortGrant, PortOther, PortServe,
         PortFinish, PortHolder
<1>3. /\ sif1_pos' \in Nat /\ sif1_sent' \in Nat /\ sif1_pos' <= sif1_sent'
      /\ sif1_sent' <= Sif1Total'
  <2>1. Sif1Total' = Sif1Total /\ Sif1Total \in Nat
    BY ScenarioType DEF EnvType, Surroundings, Resets, Sif1Total
  <2>2. sif1_sent' \in {sif1_sent, IF sif1_sent < Sif1Total THEN sif1_sent + 1 ELSE sif1_sent}
    BY DEF Surroundings, Stream
  <2>3. sif1_pos' = sif1_pos \/ (sif1_pos' = sif1_pos + 1 /\ sif1_pos < sif1_sent)
    BY DEF Surroundings, Stream, sif1_ready, sif1_valid
  <2>4. sif1_pos \in Nat /\ sif1_sent \in Nat /\ sif1_pos <= sif1_sent /\ sif1_sent <= Sif1Total
    BY DEF EnvType
  <2> QED BY <2>1, <2>2, <2>3, <2>4
<1>4. sif0_fifo' \in Seq(Addr) /\ ee_got' \in Seq(Addr)
  <2>1. sif0_fifo \in Seq(Addr) /\ ee_got \in Seq(Addr) /\ sif0_data \in Addr
    BY DEF EnvType, WireType
  <2>2. drain => Tail(sif0_fifo) \in Seq(Addr) /\ Head(sif0_fifo) \in Addr
    BY <2>1, HeadTailProperties DEF Surroundings, Sif0Fifo
  <2>3. \A q \in Seq(Addr) : \A x \in Addr : Append(q, x) \in Seq(Addr)
    BY AppendProperties
  <2> QED BY <2>1, <2>2, <2>3 DEF Surroundings, Sif0Fifo
<1>5. dev_valid' \in BOOLEAN /\ dev_pos' \in Nat
  <2>1. Device(gnt)
    BY DEF Surroundings
  <2>2. dev_valid \in BOOLEAN /\ dev_pos \in Nat
    BY DEF EnvType
  <2>3. CASE dev_valid /\ dev_ready(gnt)
    <3>1. dev_valid' = FALSE /\ dev_pos' = dev_pos + 1
      BY <2>1, <2>3, Zenon DEF Device
    <3>2. dev_valid' \in BOOLEAN
      BY <3>1, Zenon
    <3> QED BY <2>2, <3>1, <3>2
  <2>4. CASE ~(dev_valid /\ dev_ready(gnt))
    <3>1. dev_valid' \in {dev_valid, 3 \in StartChannels} /\ dev_pos' = dev_pos
      BY <2>1, <2>4, Zenon DEF Device
    <3>2. (3 \in StartChannels) \in BOOLEAN
      OBVIOUS
    <3>3. dev_valid' \in BOOLEAN
      BY <2>2, <3>1, <3>2, Zenon
    <3> QED BY <2>2, <3>1, <3>3
  <2> QED BY <2>3, <2>4
<1> QED BY <1>1, <1>2, <1>3, <1>4, <1>5 DEF EnvType

-----------------------------------------------------------------------------
(* What the history is made of. *)

LEMMA BelowType ==
  ASSUME NEW a \in Addr, NEW i \in Nat
  PROVE  Below(a, i) \in Addr
<1>1. i % AddrSpace \in Addr
  BY Remainders
<1>2. (a + AddrSpace) - (i % AddrSpace) \in Nat
  BY <1>1, Sizes DEF Addr
<1> QED BY <1>2, Remainders DEF Below

LEMMA FunctionIsSeq ==
  ASSUME NEW S, NEW n \in Nat, NEW f \in [1..n -> S]
  PROVE  f \in Seq(S) /\ Len(f) = n
BY SeqDef, LenProperties

LEMMA RunWritesType ==
  ASSUME NEW c, NEW a \in Addr, NEW n \in Nat, dev_pos \in Nat
  PROVE  RunWrites(c, a, n) \in Seq(Write) /\ Len(RunWrites(c, a, n)) = n
<1>1. ASSUME NEW i \in 1..n
      PROVE  (IF c = 6 THEN [addr |-> Below(a, i - 1), data |-> IF i = n THEN EndMarker ELSE Below(a, i)]
              ELSE [addr |-> (a + i - 1) % AddrSpace, data |-> dev_pos + i]) \in Write
  <2>1. i \in Nat /\ i - 1 \in Nat /\ a + i - 1 \in Nat /\ dev_pos + i \in Nat /\ EndMarker \in Nat
    BY Sizes DEF Addr, EndMarker
  <2>2. Below(a, i - 1) \in Addr /\ Below(a, i) \in Addr
    BY <2>1, BelowType
  <2>3. (a + i - 1) % AddrSpace \in Addr /\ Addr \subseteq Nat
    BY <2>1, Remainders DEF Addr
  <2> QED BY <2>1, <2>2, <2>3 DEF Write
<1>2. RunWrites(c, a, n) \in [1..n -> Write]
  BY <1>1, Zenon DEF RunWrites
<1> QED BY <1>2, FunctionIsSeq

LEMMA Sif0WordsType ==
  ASSUME NEW t \in Addr
  PROVE  LET n == RamWord((t + 1) % AddrSpace) % LenSpace
         IN  /\ n \in Nat /\ Sif0Words(t) \in Seq(Addr) /\ Len(Sif0Words(t)) = 4 + n
             /\ \A i \in 1..4 : Sif0Words(t)[i] = (t + 1 + i) % AddrSpace
             /\ \A i \in 1..n : Sif0Words(t)[4 + i] = ((RamWord(t) % AddrSpace) + i - 1) % AddrSpace
<1> DEFINE n == RamWord((t + 1) % AddrSpace) % LenSpace
           p == [i \in 1..4 |-> (t + 1 + i) % AddrSpace]
           q == [i \in 1..n |-> ((RamWord(t) % AddrSpace) + i - 1) % AddrSpace]
<1>1. \A a \in Addr : RamWord(a) \in Nat
  BY DmaAssumption DEF Addr
<1>2. n \in Nat
  <2>1. t + 1 \in Nat
    BY DEF Addr
  <2>2. (t + 1) % AddrSpace \in Addr
    BY <2>1, Remainders
  <2> QED BY <1>1, <2>2, Remainders
<1>3. RamWord(t) % AddrSpace \in Nat
  BY <1>1, Remainders DEF Addr
<1> HIDE DEF n
<1>4. p \in [1..4 -> Addr]
  <2>1. ASSUME NEW i \in 1..4 PROVE (t + 1 + i) % AddrSpace \in Addr
    <3>1. t + 1 + i \in Nat
      BY DEF Addr
    <3> QED BY <3>1, Remainders
  <2> QED BY <2>1
<1>5. q \in [1..n -> Addr]
  <2>1. ASSUME NEW i \in 1..n PROVE ((RamWord(t) % AddrSpace) + i - 1) % AddrSpace \in Addr
    <3>1. (RamWord(t) % AddrSpace) + i - 1 \in Nat
      BY <1>2, <1>3
    <3> QED BY <3>1, Remainders
  <2> QED BY <2>1
<1>6. Sif0Words(t) = p \o q
  BY DEF Sif0Words, n
<1>7. /\ \A i \in 1..4 : p[i] = (t + 1 + i) % AddrSpace
      /\ \A i \in 1..n : q[i] = ((RamWord(t) % AddrSpace) + i - 1) % AddrSpace
  OBVIOUS
<1> HIDE DEF p, q
<1>8. p \in Seq(Addr) /\ Len(p) = 4 /\ q \in Seq(Addr) /\ Len(q) = n
  <2>1. p \in Seq(Addr) /\ Len(p) = 4
    BY <1>4, FunctionIsSeq
  <2> QED BY <1>2, <1>5, <2>1, FunctionIsSeq
<1>9. /\ p \o q \in Seq(Addr) /\ Len(p \o q) = 4 + n
      /\ \A i \in 1..4 + n : (p \o q)[i] = IF i <= 4 THEN p[i] ELSE q[i - 4]
  <2>1. /\ p \o q \in Seq(Addr) /\ Len(p \o q) = Len(p) + Len(q)
        /\ \A i \in 1..Len(p) + Len(q) : (p \o q)[i] = IF i <= Len(p) THEN p[i] ELSE q[i - Len(p)]
    BY <1>8, ConcatProperties, Zenon
  <2> QED BY <1>8, <2>1
<1>10. \A i \in 1..4 : (p \o q)[i] = p[i]
  BY <1>2, <1>9
<1>11. ASSUME NEW i \in 1..n PROVE (p \o q)[4 + i] = q[i]
  <2>1. 4 + i \in 1..4 + n /\ ~(4 + i <= 4) /\ (4 + i) - 4 = i
    BY <1>2
  <2> QED BY <1>9, <2>1
<1> QED BY <1>2, <1>6, <1>7, <1>9, <1>10, <1>11 DEF n

LEMMA ParsedType ==
  ASSUME NEW f \in Frame, NEW n \in Nat, SifWord(n) \in Nat
  PROVE  Parsed(f, n) \in Frame
<1> DEFINE v == SifWord(n)
<1>1. v % AddrSpace \in Addr /\ v % LenSpace \in Nat
  BY Remainders
<1>2. (v % LenSpace) - ((v % LenSpace) % 4) \in Nat
  BY <1>1
<1> HIDE DEF v
<1>3. f.addr \in Addr /\ f.tag \in 0..4 /\ f.left \in Nat /\ f.log \in Seq(Write)
  BY DEF Frame
<1>4. CASE f.tag = 0 \/ (f.tag = 4 /\ f.left = 0)
  <2>1. Parsed(f, n) = [f EXCEPT !.tag = 1, !.addr = v % AddrSpace]
    BY <1>4, Zenon DEF Parsed, v
  <2>2. ASSUME NEW t \in 0..4, NEW a \in Addr PROVE [f EXCEPT !.tag = t, !.addr = a] \in Frame
    BY DEF Frame
  <2>3. 1 \in 0..4
    OBVIOUS
  <2> QED BY <1>1, <2>1, <2>2, <2>3, Zenon
<1>5. CASE f.tag = 1
  <2>1. Parsed(f, n) = [f EXCEPT !.tag = 2, !.left = (v % LenSpace) - ((v % LenSpace) % 4)]
    BY <1>5 DEF Parsed, v
  <2>2. ASSUME NEW t \in 0..4, NEW l \in Nat PROVE [f EXCEPT !.tag = t, !.left = l] \in Frame
    BY DEF Frame
  <2>3. 2 \in 0..4
    OBVIOUS
  <2> QED BY <1>2, <2>1, <2>2, <2>3, Zenon
<1>6. CASE f.tag \in {2, 3}
  <2>1. Parsed(f, n) = [f EXCEPT !.tag = f.tag + 1]
    BY <1>6 DEF Parsed, Frame
  <2>2. f.tag + 1 \in 0..4
    BY <1>6
  <2> QED BY <2>1, <2>2 DEF Frame
<1>7. CASE f.tag = 4 /\ f.left # 0
  <2>1. Parsed(f, n) = [f EXCEPT !.log = Append(f.log, [addr |-> f.addr, data |-> n]),
                                 !.addr = Up(f.addr), !.left = f.left - 1]
    BY <1>7 DEF Parsed, Frame
  <2>2. Up(f.addr) \in Addr /\ f.left - 1 \in Nat
    BY <1>3, <1>7, Steps
  <2>3. [addr |-> f.addr, data |-> n] \in Write
    BY <1>3 DEF Write
  <2>4. Append(f.log, [addr |-> f.addr, data |-> n]) \in Seq(Write)
    BY <1>3, <2>3, AppendProperties
  <2>5. ASSUME NEW g \in Seq(Write), NEW a \in Addr, NEW l \in Nat
        PROVE  [f EXCEPT !.log = g, !.addr = a, !.left = l] \in Frame
    BY DEF Frame
  <2> QED BY <2>1, <2>2, <2>4, <2>5
<1> QED BY <1>3, <1>4, <1>5, <1>6, <1>7

-----------------------------------------------------------------------------
(* The type invariant. *)

Granted(gnt) == IF gnt /\ ~ram_rnw THEN <<[addr |-> ram_addr, data |-> ram_wdata]>> ELSE <<>>

LEMMA GrantedType ==
  ASSUME WireType, NEW gnt
  PROVE  /\ Granted(gnt) \in Seq(Write)
         /\ gnt /\ ~ram_rnw => /\ Len(Granted(gnt)) = 1
                               /\ Granted(gnt)[1] = [addr |-> ram_addr, data |-> ram_wdata]
         /\ ~(gnt /\ ~ram_rnw) => Granted(gnt) = <<>>
<1>1. [addr |-> ram_addr, data |-> ram_wdata] \in Write
  BY DEF WireType, Write
<1>2. CASE gnt /\ ~ram_rnw
  <2>1. Granted(gnt) = <<[addr |-> ram_addr, data |-> ram_wdata]>>
    BY <1>2, Zenon DEF Granted
  <2>2. \A x \in Write : <<x>> \in Seq(Write) /\ Len(<<x>>) = 1 /\ <<x>>[1] = x
    OBVIOUS
  <2>3. /\ Granted(gnt) \in Seq(Write) /\ Len(Granted(gnt)) = 1
        /\ Granted(gnt)[1] = [addr |-> ram_addr, data |-> ram_wdata]
    BY <1>1, <2>1, <2>2, Zenon
  <2> QED BY <1>2, <2>3, Zenon
<1>3. CASE ~(gnt /\ ~ram_rnw)
  <2>1. Granted(gnt) = <<>>
    BY <1>3, Zenon DEF Granted
  <2>2. <<>> \in Seq(Write)
    BY EmptySeq
  <2> QED BY <1>3, <2>1, <2>2, Zenon
<1> QED BY <1>2, <1>3

\* The history of a cycle out of reset.
LEMMA HistoryRuns ==
  ASSUME NEW w, NEW kick, NEW gnt, History(w, kick, gnt), ~reset_int
  PROVE  /\ starts' = IF Starts(w) \/ kick THEN starts + 1 ELSE starts
         /\ sif1_log' = IF state = "SIF1RUN" THEN sif1_log \o Granted(gnt) ELSE sif1_log
         /\ EngineStart(w) /\ state = "IDLE" =>
              /\ run_log' = <<>>
              /\ run_due' = RunWrites(w.ch, madr[w.ch],
                              IF w.ch \in {3, 6} THEN DueCount(bcr[w.ch], w.val.block) ELSE 0)
         /\ ~(EngineStart(w) /\ state = "IDLE") =>
              /\ run_log' = IF state = "RUN" THEN run_log \o Granted(gnt) ELSE run_log
              /\ run_due' = run_due
         /\ sif0_due' = IF Starts(w) /\ w.ch = 9 THEN sif0_due \o Sif0Words(tadr[9]) ELSE sif0_due
         /\ frame' = IF sif1_ready(gnt, sif1_valid) THEN Parsed(frame, sif1_data) ELSE frame
BY Zenon DEF History, Granted

LEMMA HistoryTypes ==
  ASSUME TypeOK, EnvType', NEW w, WellFormed(w), NEW kick, NEW gnt, History(w, kick, gnt)
  PROVE  HistoryType'
<1>0. RegType /\ EngineType /\ WireType /\ EnvType /\ HistoryType /\ scenario \in Scenarios
  BY DEF TypeOK, EnvType
<1>1. CASE reset_int
  <2>1. ee_got' \o sif0_fifo' \in Seq(Addr)
    BY ConcatProperties DEF EnvType
  <2>2. NoFrame \in Frame
    <3>1. <<>> \in Seq(Write) /\ 0 \in 0..4
      BY EmptySeq
    <3> QED BY <3>1, Sizes DEF NoFrame, Frame
  <2>3. <<>> \in Seq(Write)
    BY EmptySeq
  <2> QED BY <1>0, <1>1, <2>1, <2>2, <2>3 DEF HistoryType, History
<1>2. CASE ~reset_int
  <2>1. Granted(gnt) \in Seq(Write) /\ <<>> \in Seq(Write)
    BY <1>0, GrantedType, EmptySeq
  <2>2. \A l \in Seq(Write) : l \o Granted(gnt) \in Seq(Write)
    BY <2>1, ConcatProperties
  <2>3. starts' \in Nat /\ sif1_log' \in Seq(Write)
    <3>1. starts' = starts \/ starts' = starts + 1
      BY <1>2, HistoryRuns, Zenon
    <3>2. sif1_log' = sif1_log \/ sif1_log' = sif1_log \o Granted(gnt)
      BY <1>2, HistoryRuns, Zenon
    <3>3. starts \in Nat /\ sif1_log \in Seq(Write)
      BY <1>0 DEF HistoryType
    <3>4. starts' \in Nat
      BY <3>1, <3>3
    <3> QED BY <2>2, <3>2, <3>3, <3>4, Zenon
  <2>4. frame' \in Frame
    <3>1. sif1_valid => Parsed(frame, sif1_data) \in Frame
      BY <1>0, InputTypes, ParsedType DEF HistoryType
    <3> QED BY <1>0, <1>2, <3>1, HistoryRuns DEF HistoryType, sif1_ready
  <2>5. sif0_due' \in Seq(Addr)
    <3>1. tadr[9] \in Addr
      BY <1>0, Sizes DEF RegType
    <3>2. Sif0Words(tadr[9]) \in Seq(Addr)
      BY <3>1, Sif0WordsType
    <3>3. sif0_due \o Sif0Words(tadr[9]) \in Seq(Addr)
      BY <1>0, <3>2, ConcatProperties DEF HistoryType
    <3> QED BY <1>0, <1>2, <3>3, HistoryRuns DEF HistoryType
  <2>6. run_log' \in Seq(Write) /\ run_due' \in Seq(Write)
    <3>1. CASE EngineStart(w) /\ state = "IDLE"
      <4> DEFINE n == IF w.ch \in {3, 6} THEN DueCount(bcr[w.ch], w.val.block) ELSE 0
      <4>1. w.ch \in Channels
        BY <1>0, <3>1, RegisterTypes DEF EngineStart, Starts
      <4>2. bcr[w.ch] \in Bcr /\ madr[w.ch] \in Addr
        BY <1>0, <4>1 DEF RegType
      <4>3. \A b \in Bcr : \A k : DueCount(b, k) \in Nat
        <5>1. ASSUME NEW b \in Bcr, NEW k PROVE DueCount(b, k) \in Nat
          <6> DEFINE bs == IF b.bs = 0 THEN HalfSpace ELSE b.bs
          <6>1. bs \in Nat /\ b.ba \in Nat
            BY Sizes DEF Bcr
          <6>2. DueCount(b, k) = IF k THEN bs * b.ba ELSE bs
            BY DEF DueCount
          <6> HIDE DEF bs
          <6> QED BY <6>1, <6>2
        <5> QED BY <5>1
      <4>4. n \in Nat
        BY <4>2, <4>3
      <4>5. run_log' = <<>> /\ run_due' = RunWrites(w.ch, madr[w.ch], n)
        BY <1>2, <3>1, HistoryRuns, Zenon
      <4> HIDE DEF n
      <4>6. RunWrites(w.ch, madr[w.ch], n) \in Seq(Write)
        BY <1>0, <4>2, <4>4, RunWritesType DEF EnvType
      <4> QED BY <2>1, <4>5, <4>6
    <3>2. CASE ~(EngineStart(w) /\ state = "IDLE")
      BY <1>0, <1>2, <2>2, <3>2, HistoryRuns DEF HistoryType
    <3> QED BY <3>1, <3>2
  <2> QED BY <2>3, <2>4, <2>5, <2>6 DEF HistoryType
<1> QED BY <1>1, <1>2

\* A clock edge: what the driver and the host of the kick do, and the wires.
Cycle(w, kick, gnt, rvalid, drain) ==
  /\ Surroundings(gnt, rvalid, drain)
  /\ Controller(w, kick, gnt, rvalid)
  /\ History(w, kick, gnt)

LEMMA InitType == Init => TypeOK
<1> SUFFICES ASSUME Init PROVE TypeOK
  OBVIOUS
<1> USE DEF Init
<1>1. RegType
  <2>1. NoBcr \in Bcr /\ NoChcr \in Chcr
    BY Sizes DEF NoBcr, Bcr, NoChcr, Chcr
  <2>2. madr \in [Channels -> Addr] /\ tadr \in [Channels -> Addr]
    BY Sizes DEF DmaInit
  <2>3. bcr \in [Channels -> Bcr] /\ chcr \in [Channels -> Chcr]
    BY <2>1 DEF DmaInit
  <2> QED BY <2>2, <2>3 DEF DmaInit, RegType
<1>2. EngineType
  <2>1. xfer \in Xfer
    BY Sizes DEF DmaInit, Xfer
  <2>2. s0 \in Sif0Reg /\ ~s0.issued
    BY Sizes DEF DmaInit, Sif0Reg
  <2>3. s1 \in Sif1Reg
    BY Sizes DEF DmaInit, Sif1Reg
  <2>4. state = "IDLE"
    BY DEF DmaInit
  <2> QED BY <2>1, <2>2, <2>3, <2>4 DEF EngineType, State
<1>3. WireType
  BY Sizes DEF DmaInit, WireType
<1>4. EnvType
  <2>1. sif1_sent <= Sif1Total
    BY ScenarioType
  <2>2. <<>> \in Seq(Addr)
    BY EmptySeq
  <2>3. /\ scenario \in Scenarios /\ port \in PortHolder /\ rd_addr \in Addr
        /\ sif1_pos \in Nat /\ sif1_sent \in Nat /\ sif1_pos <= sif1_sent /\ dev_pos \in Nat
    BY Sizes DEF PortInit, PortHolder
  <2>4. sif0_fifo \in Seq(Addr) /\ ee_got \in Seq(Addr)
    BY <2>2
  <2>5. reset \in BOOLEAN /\ reset_int \in BOOLEAN /\ dev_valid \in BOOLEAN
    BY Zenon
  <2> QED BY <2>1, <2>3, <2>4, <2>5 DEF EnvType
<1>5. HistoryType
  <2>1. <<>> \in Seq(Write) /\ <<>> \in Seq(Addr)
    BY EmptySeq
  <2>2. NoFrame \in Frame
    BY <2>1, Sizes DEF NoFrame, Frame
  <2> QED BY <2>1, <2>2 DEF HistoryType
<1> QED BY <1>1, <1>2, <1>3, <1>4, <1>5 DEF TypeOK

LEMMA CycleType ==
  ASSUME TypeOK, NEW w \in BusWrites, NEW kick \in Kicks, NEW gnt \in BOOLEAN,
         NEW rvalid \in BOOLEAN, NEW drain \in BOOLEAN, Cycle(w, kick, gnt, rvalid, drain)
  PROVE  TypeOK'
<1>0. RegType /\ EngineType /\ WireType /\ EnvType /\ scenario \in Scenarios
  BY DEF TypeOK, EnvType
<1>1. WellFormed(w) /\ kick \in BOOLEAN
  BY <1>0, DriverWrites DEF Kicks
<1>2. EnvType'
  BY <1>0, SurroundingTypes DEF Cycle
<1>3. RegType' /\ EngineType' /\ WireType'
  BY <1>0, <1>1, EngineTypes, ResetTypes DEF Cycle, Controller, Engine
<1>4. HistoryType'
  BY <1>1, <1>2, HistoryTypes DEF Cycle
<1> QED BY <1>2, <1>3, <1>4 DEF TypeOK

LEMMA StutterType == TypeOK /\ UNCHANGED vars => TypeOK'
BY DEF TypeOK, RegType, EngineType, WireType, EnvType, HistoryType, vars, dmaVars, envVars, historyVars,
       regVars, ramPortVars, sif0OutVars, Sif1Total

LEMMA NextCycle ==
  Next => \E w \in BusWrites, kick \in Kicks, gnt, rvalid, drain \in BOOLEAN :
             Cycle(w, kick, gnt, rvalid, drain)
BY DEF Next, Cycle

\* Every register, wire, queue and history keeps its type; in particular a SIF0 word
\* count is not taken below zero.
THEOREM TypesKept == Spec => []TypeOK
<1>1. TypeOK /\ [Next]_vars => TypeOK'
  BY CycleType, StutterType, NextCycle
<1> QED BY InitType, <1>1, PTL DEF Spec

-----------------------------------------------------------------------------
(* Completions. *)

\* Three actions complete a channel; the others leave the flags to the driver.
LEMMA Endings ==
  ASSUME NEW w, NEW kick, NEW gnt, NEW rvalid, Engine(w, kick, gnt, rvalid)
  PROVE  \/ NoneCompletes(w)
         \/ Sif0Completes(w) \/ Sif1Completes(w) \/ Finish(w)
BY Zenon DEF Engine, DmaRun, EngineTakesStart, EngineKicked, EngineTurns, Sif0Waits, Sif0Word, Sif0Yields,
             Sif0Asks, Sif1Yields, Sif1Tag, Sif1Data, RunMoves, RunWaits, RunOver

\* The driver writes CHCR of an idle channel only, and with start set.
LEMMA StartBits ==
  ASSUME RegType, EngineType, scenario \in Scenarios, NEW w, WellFormed(w), NEW c \in Channels
  PROVE  /\ chcr[c].start => chcrW(w)[c] = chcr[c]
         /\ w.to = "chcr" /\ w.ch = c => ~chcr[c].start /\ chcrW(w)[c].start
         /\ ~(w.to = "chcr" /\ w.ch = c) => chcrW(w)[c] = chcr[c]
<1>1. CASE w.to = "chcr"
  <2>1. /\ w.ch \in Channels /\ ~chcr[w.ch].start
        /\ w.val = [start |-> TRUE, block |-> bcr[w.ch].ba # 0, decr |-> w.ch = 6]
    BY <1>1, RegisterTypes DEF WellFormed
  <2>2. w.val.start
    BY <2>1
  <2>3. chcrW(w) = [chcr EXCEPT ![w.ch] = w.val]
    BY <1>1 DEF chcrW, Written
  <2>4. chcrW(w)[w.ch] = w.val /\ (c # w.ch => chcrW(w)[c] = chcr[c])
    BY <2>1, <2>3 DEF RegType
  <2> QED BY <1>1, <2>1, <2>2, <2>4, Zenon
<1>2. CASE w.to # "chcr"
  BY <1>2 DEF chcrW, Written
<1> QED BY <1>1, <1>2

LEMMA CycleFlags ==
  ASSUME TypeOK, NEW w \in BusWrites, NEW kick \in Kicks, NEW gnt \in BOOLEAN,
         NEW rvalid \in BOOLEAN, NEW drain \in BOOLEAN, Cycle(w, kick, gnt, rvalid, drain),
         NEW c \in Channels, ~reset_int, chcr[c].start, ~chcr'[c].start
  PROVE  c \in dicr_fl'
<1>0. RegType /\ EngineType /\ scenario \in Scenarios /\ WellFormed(w)
  BY DriverWrites DEF TypeOK, EnvType
<1>1. chcrW(w)[c] = chcr[c]
  BY <1>0, StartBits
<1>2. ASSUME NEW d, NEW a, Completes(w, d, a) PROVE c \in dicr_fl'
  <2>1. c # d => chcr'[c] = chcrW(w)[c]
    BY <1>2 DEF Completes
  <2>2. c = d
    BY <1>1, <2>1
  <2> QED BY <1>2, <2>2 DEF Completes
<1>3. ~NoneCompletes(w)
  BY <1>1 DEF NoneCompletes
<1> QED BY <1>2, <1>3, Endings DEF Cycle, Controller, Engine, Sif0Completes, Sif1Completes, Finish

\* No completion is lost, though the driver acknowledges flags in the same cycle: it
\* writes CHCR only of an idle channel, and a flag set in a cycle outlives the
\* acknowledgement of that cycle.
THEOREM CompletionsFlagged == Spec => CompletionFlagged
<1>1. TypeOK /\ [Next]_vars =>
        [\A c \in Channels : ~reset_int /\ chcr[c].start /\ ~chcr'[c].start => c \in dicr_fl']_vars
  BY CycleFlags, NextCycle
<1> QED BY <1>1, TypesKept, PTL DEF Spec, CompletionFlagged

-----------------------------------------------------------------------------
(* The port and the requests. *)

LEMMA PortFacts ==
  ASSUME NEW gnt \in BOOLEAN, NEW rvalid \in BOOLEAN, Serve(gnt, rvalid), ~reset
  PROVE  /\ gnt => /\ Grantable /\ ~rvalid /\ rd_addr' = ram_addr
                   /\ port' = IF ram_rnw THEN "dmard" ELSE "dmawr"
         /\ ~gnt => rd_addr' = rd_addr
         /\ rvalid => port = "dmard" /\ ~gnt
         /\ port = "dmard" /\ ~rvalid => port' = "dmard"
         /\ ~gnt /\ port' = "free" => port = "free" \/ ~Grantable
BY DEF Serve, PortClk, PortGrant, PortOther, PortServe, PortFinish, Grantable

\* A cycle that leaves the controller out of reset: an edge of the engine, unless
\* it is the last of the reset.
LEMMA OutOfReset ==
  ASSUME NEW w, NEW kick, NEW gnt \in BOOLEAN, NEW rvalid \in BOOLEAN, NEW drain \in BOOLEAN,
         Cycle(w, kick, gnt, rvalid, drain), ~reset_int'
  PROVE  /\ ~reset /\ scenario' = scenario
         /\ reset_int => DmaReset
         /\ ~reset_int => Engine(w, kick, gnt, rvalid)
BY DEF Cycle, Surroundings, Resets, Controller, Engine

LEMMA RequestsKept ==
  ASSUME NEW w, NEW kick, NEW gnt, NEW rvalid, Engine(w, kick, gnt, rvalid)
  PROVE  Requests'
<1>1. NoRequest => Requests'
  BY DEF NoRequest, Requests
<1>2. ASSUME NEW a, Sif0Asks(w, gnt, sif0_full) \/ Sif1Data(w, gnt, sif1_valid, sif1_data)
                    \/ RunMoves(w, gnt, dev_valid, dev_data)
      PROVE  Requests'
  BY <1>2 DEF Sif0Asks, Sif1Data, RunMoves, NoPush, Requests
<1> QED BY <1>1, <1>2, Zenon DEF Engine, DmaRun, EngineTakesStart, EngineKicked, EngineTurns, Sif0Completes,
             Sif0Waits, Sif0Word, Sif0Yields, Sif1Completes, Sif1Yields, Sif1Tag, RunWaits, RunOver,
             Finish

-----------------------------------------------------------------------------
(* The engine's own transfers. *)

LEMMA BelowZero ==
  ASSUME NEW a \in Addr
  PROVE  Below(a, 0) = a /\ Below(a, 1) = Down(a)
<1>1. 0 % AddrSpace = 0 /\ a + AddrSpace \in 0..(AddrSpace + AddrSpace) - 1 /\ a \in Nat
  BY Sizes DEF Addr
<1>2. (a + AddrSpace) % AddrSpace = a
  <2>1. (a + AddrSpace) % AddrSpace = IF a + AddrSpace < AddrSpace THEN a + AddrSpace
                                      ELSE (a + AddrSpace) - AddrSpace
    BY <1>1, Sizes, ModSmall
  <2> QED BY <1>1, <2>1, Sizes
<1>3. Below(a, 0) = a
  BY <1>1, <1>2, Sizes DEF Below
<1>4. Below(a, 1) = Down(a)
  <2>1. CASE AddrSpace = 1
    <3>1. a = 0 /\ 1 % AddrSpace = 0
      BY <2>1 DEF Addr
    <3> QED BY <2>1, <3>1 DEF Below, Down
  <2>2. CASE AddrSpace # 1
    <3>1. 1 % AddrSpace = 1
      BY <2>2, Sizes
    <3>2. (a + AddrSpace) - 1 = a + AddrSpace - 1
      BY <1>1, Sizes
    <3> QED BY <3>1, <3>2 DEF Below, Down
  <2> QED BY <2>1, <2>2
<1> QED BY <1>3, <1>4

\* The first write of a transfer, and those of the transfer that is left after it.
LEMMA RunFirst ==
  ASSUME NEW a \in Addr, NEW n \in Nat, NEW p \in Nat
  PROVE  /\ RunAt(3, a, n, p, 1) = [addr |-> a, data |-> p + 1]
         /\ RunAt(6, a, n, p, 1) = [addr |-> a, data |-> IF n = 1 THEN EndMarker ELSE Down(a)]
<1>1. a + 1 - 1 = a /\ a % AddrSpace = a /\ 1 - 1 = 0
  BY Sizes DEF Addr
<1>2. RunAt(3, a, n, p, 1) = [addr |-> a, data |-> p + 1]
  BY <1>1 DEF RunAt
<1>3. RunAt(6, a, n, p, 1) = [addr |-> a, data |-> IF n = 1 THEN EndMarker ELSE Down(a)]
  BY <1>1, BelowZero DEF RunAt
<1> QED BY <1>2, <1>3

LEMMA RunRest ==
  ASSUME NEW a \in Addr, NEW n \in Nat, NEW p \in Nat, NEW q \in Nat, NEW j \in Nat \ {0}
  PROVE  /\ RunAt(3, Up(a), n - 1, p + 1, j) = RunAt(3, a, n, p, j + 1)
         /\ RunAt(6, Down(a), n - 1, q, j) = RunAt(6, a, n, p, j + 1)
<1>1. a \in 0..AddrSpace - 1 /\ AddrSpace \in Nat \ {0} /\ j - 1 \in Nat /\ j \in Nat
  BY Sizes DEF Addr
<1>2. RunAt(3, Up(a), n - 1, p + 1, j) = RunAt(3, a, n, p, j + 1)
  <2>1. (((a + 1) % AddrSpace) + (j - 1)) % AddrSpace = (a + (j - 1) + 1) % AddrSpace
    BY <1>1, UpShift
  <2>2. /\ Up(a) + j - 1 = Up(a) + (j - 1)
        /\ a + (j + 1) - 1 = a + (j - 1) + 1 /\ (p + 1) + j = p + (j + 1)
    BY <1>1, Steps DEF Addr
  <2>3. (Up(a) + j - 1) % AddrSpace = (a + (j + 1) - 1) % AddrSpace
    BY <2>1, <2>2 DEF Up
  <2> QED BY <2>2, <2>3 DEF RunAt
<1>3. RunAt(6, Down(a), n - 1, q, j) = RunAt(6, a, n, p, j + 1)
  <2>1. \A i \in Nat : Below(Down(a), i) = Below(a, i + 1)
    BY <1>1, DownShift DEF Below, Down
  <2>2. /\ Below(Down(a), j - 1) = Below(a, (j - 1) + 1) /\ Below(Down(a), j) = Below(a, j + 1)
        /\ (j - 1) + 1 = (j + 1) - 1 /\ (j = n - 1 <=> j + 1 = n)
    BY <1>1, <2>1
  <2> QED BY <2>2 DEF RunAt
<1> QED BY <1>2, <1>3

\* The word counter is loaded with the length of the transfer.
LEMMA CountLoaded ==
  ASSUME CountsFit, BcrWritten, NEW c \in Channels, bcr[c] \in Bcr, NEW v, v.block <=> bcr[c].ba # 0
  PROVE  /\ transfer_words(bcr[c], v) = DueCount(bcr[c], v.block)
         /\ DueCount(bcr[c], v.block) \in Nat
<1> DEFINE b == bcr[c]
           bs == IF b.bs = 0 THEN HalfSpace ELSE b.bs
<1>1. bs \in Nat /\ b.ba \in Nat /\ CountSpace \in Nat \ {0}
  BY Sizes DEF Bcr
<1>2. DueCount(b, b.ba # 0) = IF b.ba # 0 THEN bs * b.ba ELSE bs
  BY DEF DueCount
<1>3. DueCount(b, v.block) = DueCount(b, b.ba # 0)
  BY DEF DueCount
<1>4. DueCount(b, b.ba # 0) < CountSpace
  <2>1. CASE b = NoBcr
    <3>1. DueCount(b, b.ba # 0) = HalfSpace
      BY <2>1 DEF NoBcr, DueCount
    <3> QED BY <3>1 DEF CountsFit
  <2>2. CASE \E n \in CountVals : b = [bs |-> n.bs, ba |-> n.ba]
    <3>1. PICK n \in CountVals : b = [bs |-> n.bs, ba |-> n.ba]
      BY <2>2
    <3>2. DueCount(b, b.ba # 0) = DueCount(n, n.ba # 0)
      BY <3>1 DEF DueCount
    <3> QED BY <3>2 DEF CountsFit
  <2> QED BY <2>1, <2>2 DEF BcrWritten
<1>5. transfer_words(b, v) = IF b.ba # 0 THEN (bs * b.ba) % CountSpace ELSE bs % CountSpace
  BY DEF transfer_words
<1> HIDE DEF b, bs
<1>6. bs * b.ba \in Nat /\ DueCount(b, b.ba # 0) \in Nat
  BY <1>1, <1>2
<1>7. \A x \in Nat : x < CountSpace => x % CountSpace = x
  BY <1>1
<1>8. transfer_words(b, v) = DueCount(b, b.ba # 0)
  BY <1>1, <1>2, <1>4, <1>5, <1>6, <1>7
<1> QED BY <1>3, <1>6, <1>8 DEF b

\* Outside RUN only the start of a transfer touches the engine's registers.
LEMMA RunElsewhere ==
  ASSUME NEW w, NEW kick, NEW gnt, NEW rvalid, Engine(w, kick, gnt, rvalid), state # "RUN"
  PROVE  \/ EngineTakesStart(w)
         \/ ~(EngineStart(w) /\ state = "IDLE") /\ state' \in {"IDLE", "SIF0RUN", "SIF1RUN"}
BY DEF Engine, DmaRun, EngineTakesStart, EngineKicked, EngineTurns, Sif0Completes, Sif0Waits, Sif0Word,
       Sif0Yields, Sif0Asks, Sif1Completes, Sif1Yields, Sif1Tag, Sif1Data, RunMoves, RunWaits, RunOver,
       Finish

LEMMA InRun ==
  ASSUME NEW w, NEW kick, NEW gnt, NEW rvalid, Engine(w, kick, gnt, rvalid), state = "RUN"
  PROVE  RunMoves(w, gnt, dev_valid, dev_data) \/ RunWaits(w, dev_valid) \/ RunOver(w)
BY DEF Engine, DmaRun, EngineTakesStart, EngineKicked, EngineTurns, Sif0Completes, Sif0Waits, Sif0Word,
       Sif0Yields, Sif0Asks, Sif1Completes, Sif1Yields, Sif1Tag, Sif1Data, RunMoves, RunWaits, RunOver,
       Finish

LEMMA BcrKept ==
  ASSUME RegType, EngineType, scenario \in Scenarios, NEW w, WellFormed(w), BcrWritten, BusRegisters(w)
  PROVE  BcrWritten'
<1>1. CASE w.to = "bcr"
  <2>1. PICK n \in CountVals : w.val = [bs |-> n.bs, ba |-> n.ba]
    BY <1>1 DEF WellFormed
  <2>2. bcr' = [bcr EXCEPT ![w.ch] = w.val] /\ bcr \in [Channels -> Bcr]
    BY <1>1 DEF BusRegisters, Written, RegType
  <2>3. \A c \in Channels : bcr'[c] = bcr[c] \/ bcr'[c] = w.val
    BY <2>2
  <2>4. \E m \in CountVals : w.val = [bs |-> m.bs, ba |-> m.ba]
    BY <2>1, Zenon
  <2> QED BY <2>3, <2>4, Zenon DEF BcrWritten
<1>2. CASE w.to # "bcr"
  BY <1>2 DEF BusRegisters, Written, BcrWritten
<1> QED BY <1>1, <1>2

LEMMA RestStarts ==
  ASSUME NEW c \in {3, 6}, NEW a \in Addr, NEW n \in Nat, dev_pos \in Nat
  PROVE  Rest(<<>>, RunWrites(c, a, n), c, a, n, dev_pos)
<1>1. Len(RunWrites(c, a, n)) = n
  BY RunWritesType
<1>2. \A j \in 1..n : RunWrites(c, a, n)[j] = RunAt(c, a, n, dev_pos, j)
  BY Zenon DEF RunWrites, RunAt
<1>3. Len(<<>>) = 0 /\ \A j \in 1..n : 0 + j = j
  OBVIOUS
<1> QED BY <1>1, <1>2, <1>3 DEF Rest

LEMMA RestTaken ==
  ASSUME NEW log \in Seq(Write), NEW due \in Seq(Write), NEW c \in {3, 6}, NEW a \in Addr,
         NEW n \in Nat \ {0}, NEW p \in Nat, Rest(log, due, c, a, n, p),
         NEW g \in Seq(Write), Len(g) = 1, g[1] = RunAt(c, a, n, p, 1),
         NEW b \in Addr, b = (IF c = 6 THEN Down(a) ELSE Up(a)),
         NEW q \in Nat, c = 3 => q = p + 1
  PROVE  Rest(log \o g, due, c, b, n - 1, q)
<1>1. /\ log \o g \in Seq(Write) /\ Len(log \o g) = Len(log) + 1 /\ Len(log) \in Nat /\ Len(due) \in Nat
      /\ \A i \in 1..Len(log) + 1 : (log \o g)[i] = IF i <= Len(log) THEN log[i] ELSE g[i - Len(log)]
  <2>1. /\ log \o g \in Seq(Write) /\ Len(log \o g) = Len(log) + Len(g)
        /\ \A i \in 1..Len(log) + Len(g) :
             (log \o g)[i] = IF i <= Len(log) THEN log[i] ELSE g[i - Len(log)]
    BY ConcatProperties, Zenon
  <2>2. Len(log) \in Nat /\ Len(due) \in Nat
    BY LenProperties
  <2> QED BY <2>1, <2>2
<1>2. /\ Len(log) + n = Len(due)
      /\ \A i \in 1..Len(log) : log[i] = due[i]
      /\ \A j \in 1..n : due[Len(log) + j] = RunAt(c, a, n, p, j)
  BY DEF Rest
<1> DEFINE l == Len(log)
<1>3. l \in Nat /\ l + n = Len(due)
  BY <1>1, <1>2
<1>4. ASSUME NEW i \in 1..l + 1 PROVE (log \o g)[i] = due[i]
  <2>1. CASE i <= l
    <3>1. i \in 1..l
      BY <1>3, <2>1
    <3> QED BY <1>1, <1>2, <2>1, <3>1
  <2>2. CASE ~(i <= l)
    <3>1. i = l + 1 /\ i - l = 1 /\ 1 \in 1..n
      BY <1>3, <2>2
    <3>2. due[l + 1] = RunAt(c, a, n, p, 1)
      BY <1>2, <3>1
    <3> QED BY <1>1, <2>2, <3>1, <3>2
  <2> QED BY <2>1, <2>2
<1>5. ASSUME NEW j \in 1..n - 1 PROVE due[(l + 1) + j] = RunAt(c, b, n - 1, q, j)
  <2>1. j + 1 \in 1..n /\ (l + 1) + j = l + (j + 1) /\ j \in Nat \ {0}
    BY <1>3
  <2>2. due[l + (j + 1)] = RunAt(c, a, n, p, j + 1)
    BY <1>2, <2>1
  <2>3. RunAt(c, b, n - 1, q, j) = RunAt(c, a, n, p, j + 1)
    <3>1. CASE c = 3
      BY <2>1, <3>1, RunRest
    <3>2. CASE c = 6
      BY <2>1, <3>2, RunRest
    <3> QED BY <3>1, <3>2
  <2> QED BY <2>1, <2>2, <2>3
<1>6. (l + 1) + (n - 1) = Len(due)
  BY <1>3
<1> QED BY <1>1, <1>4, <1>5, <1>6 DEF Rest

LEMMA RestNone ==
  ASSUME NEW log \in Seq(Write), NEW due \in Seq(Write), NEW c, NEW a, NEW p, Rest(log, due, c, a, 0, p)
  PROVE  log = due
<1>1. Len(log) = Len(due) /\ \A i \in 1..Len(log) : log[i] = due[i]
  BY LenProperties DEF Rest
<1> QED BY <1>1, SeqEqual

LEMMA RunKept ==
  ASSUME CountsFit, TypeOK, ~reset_int => RunInv,
         NEW w \in BusWrites, NEW kick \in Kicks, NEW gnt \in BOOLEAN,
         NEW rvalid \in BOOLEAN, NEW drain \in BOOLEAN, Cycle(w, kick, gnt, rvalid, drain), ~reset_int'
  PROVE  RunInv'
<1>0. /\ RegType /\ EngineType /\ WireType /\ EnvType /\ HistoryType /\ scenario \in Scenarios
      /\ WellFormed(w) /\ Serve(gnt, rvalid) /\ Device(gnt) /\ History(w, kick, gnt)
  BY DriverWrites DEF TypeOK, EnvType, Cycle, Surroundings
<1>1. CASE reset_int
  <2>1. state' = "IDLE" /\ bcr' = [c \in Channels |-> NoBcr]
    BY <1>1, OutOfReset DEF DmaReset
  <2> QED BY <2>1 DEF RunInv, BcrWritten
<1>2. CASE ~reset_int
  <2>0. /\ RunInv /\ BcrWritten /\ Engine(w, kick, gnt, rvalid) /\ ~reset /\ scenario' = scenario
        /\ StartChannels' = StartChannels
    BY <1>2, OutOfReset DEF RunInv, StartChannels
  <2>1. BcrWritten'
    BY <1>0, <2>0, BcrKept DEF Engine, DmaRun
  <2>2. gnt => Grantable /\ port' # "free"
    BY <1>0, <2>0, PortFacts
  <2>3. CASE state # "RUN"
    <3>1. CASE EngineTakesStart(w)
      <4>1. /\ state = "IDLE" /\ EngineStart(w) /\ w.ch \in Channels /\ w.val \in Chcr
            /\ xfer' = [ch |-> w.ch, addr |-> madr[w.ch],
                        words |-> transfer_words(bcr[w.ch], w.val), decr |-> w.val.decr]
            /\ state' = IF w.ch \in {3, 6} THEN "RUN" ELSE "FINISH"
            /\ ~ram_req'
        BY <1>0, <3>1, RegisterTypes DEF EngineTakesStart, EngineStart, Starts, NoRequest
      <4>2. /\ w.ch \in StartChannels
            /\ w.val = [start |-> TRUE, block |-> bcr[w.ch].ba # 0, decr |-> w.ch = 6]
        BY <1>0, <4>1 DEF EngineStart, Starts, WellFormed
      <4>3. /\ madr[w.ch] \in Addr /\ bcr[w.ch] \in Bcr
        BY <1>0, <4>1 DEF RegType
      <4>4. (w.val.block <=> bcr[w.ch].ba # 0) /\ (w.val.decr <=> w.ch = 6)
        <5>1. ASSUME NEW x, NEW y, NEW r, r = [start |-> TRUE, block |-> x # 0, decr |-> y = 6]
              PROVE  (r.block <=> x # 0) /\ (r.decr <=> y = 6)
          BY <5>1
        <5> QED BY <4>2, <5>1, Zenon
      <4>5. CASE w.ch \in {3, 6}
        <5> DEFINE n == DueCount(bcr[w.ch], w.val.block)
        <5>1. transfer_words(bcr[w.ch], w.val) = n /\ n \in Nat
          BY <2>0, <4>1, <4>3, <4>4, CountLoaded
        <5> HIDE DEF n
        <5>2. run_log' = <<>> /\ run_due' = RunWrites(w.ch, madr[w.ch], n)
          BY <1>0, <1>2, <4>1, <4>5, HistoryRuns, Zenon DEF n
        <5>3. dev_pos' = dev_pos /\ dev_pos \in Nat
          BY <1>0, <2>3 DEF Device, dev_ready, EnvType
        <5>4. Rest(<<>>, RunWrites(w.ch, madr[w.ch], n), w.ch, madr[w.ch], n, dev_pos)
          BY <4>3, <4>5, <5>1, <5>3, RestStarts
        <5>5. xfer'.ch = w.ch /\ xfer'.addr = madr[w.ch] /\ xfer'.words = n /\ (xfer'.decr <=> w.ch = 6)
          BY <4>1, <4>4, <5>1
        <5>6. Rest(run_log', run_due', xfer'.ch, xfer'.addr, xfer'.words, dev_pos')
          BY <5>2, <5>3, <5>4, <5>5
        <5>7. state' = "RUN"
          BY <4>1, <4>5
        <5> QED BY <2>0, <2>1, <4>1, <4>2, <4>5, <5>5, <5>6, <5>7 DEF RunInv, Grantable, Rest
      <4>6. CASE w.ch \notin {3, 6}
        <5>1. run_log' = <<>> /\ run_due' = RunWrites(w.ch, madr[w.ch], 0)
          BY <1>0, <1>2, <4>1, <4>6, HistoryRuns, Zenon
        <5>2. RunWrites(w.ch, madr[w.ch], 0) = <<>>
          BY <1>0, <4>3, RunWritesType, EmptySeq DEF EnvType
        <5> QED BY <2>1, <4>1, <4>6, <5>1, <5>2 DEF RunInv
      <4> QED BY <4>5, <4>6
    <3>2. CASE state' \in {"IDLE", "SIF0RUN", "SIF1RUN"}
      BY <2>1, <3>2 DEF RunInv
    <3> QED BY <2>0, <2>3, <3>1, <3>2, RunElsewhere
  <2>4. CASE state = "RUN"
    <3>0. /\ xfer.ch \in {3, 6} \cap StartChannels /\ (xfer.decr <=> xfer.ch = 6)
          /\ Rest(run_log, run_due, xfer.ch, xfer.addr, xfer.words, dev_pos)
          /\ Grantable => /\ ~ram_rnw /\ xfer.words # 0 /\ HasWord(dev_valid)
                          /\ ram_addr = xfer.addr /\ ram_wdata = RunWord(dev_data)
      BY <2>0, <2>4 DEF RunInv
    <3>1. /\ run_log' = run_log \o Granted(gnt) /\ run_due' = run_due
          /\ run_log \in Seq(Write) /\ run_due \in Seq(Write)
      BY <1>0, <1>2, <2>4, HistoryRuns DEF HistoryType
    <3>2. /\ xfer.addr \in Addr /\ xfer.words \in Nat /\ dev_pos \in Nat /\ xfer \in Xfer
      BY <1>0 DEF EngineType, Xfer, EnvType, Count
    <3>3. ASSUME ~gnt PROVE run_log' = run_log /\ dev_pos' = dev_pos
                            /\ (HasWord(dev_valid) => dev_valid' = dev_valid \/ xfer.ch = 6)
      <4>1. Granted(gnt) = <<>>
        BY <3>3 DEF Granted
      <4>2. run_log \o <<>> = run_log
        BY <3>1, ConcatEmptySeq
      <4>3. dev_pos' = dev_pos /\ dev_valid' \in {dev_valid, 3 \in StartChannels}
        BY <1>0, <3>3, Zenon DEF Device, dev_ready
      <4>4. xfer.ch = 3 => 3 \in StartChannels
        BY <3>0
      <4>5. HasWord(dev_valid) => dev_valid' = dev_valid \/ xfer.ch = 6
        BY <1>0, <4>3, <4>4 DEF HasWord, EnvType
      <4> QED BY <3>1, <4>1, <4>2, <4>3, <4>5, Zenon
    <3>4. CASE RunMoves(w, gnt, dev_valid, dev_data) /\ gnt
      <4>1. /\ xfer.words # 0 /\ ~ram_rnw /\ HasWord(dev_valid)
            /\ ram_addr = xfer.addr /\ ram_wdata = RunWord(dev_data)
        BY <2>2, <3>0, <3>4
      <4>2. /\ xfer'.ch = xfer.ch /\ xfer'.words = xfer.words - 1 /\ xfer'.decr = xfer.decr
            /\ xfer'.addr = IF xfer.ch = 6 THEN Down(xfer.addr) ELSE Up(xfer.addr)
            /\ state' = "RUN"
        BY <2>4, <3>0, <3>2, <3>4 DEF RunMoves, Xfer
      <4>3. dev_pos' \in Nat /\ (xfer.ch = 3 => dev_pos' = dev_pos + 1)
        <5>1. xfer.ch = 3 => dev_valid /\ dev_ready(gnt)
          BY <2>4, <3>4, <4>1 DEF HasWord, dev_ready
        <5>2. dev_valid /\ dev_ready(gnt) => dev_pos' = dev_pos + 1
          BY <1>0, Zenon DEF Device
        <5>3. ~(dev_valid /\ dev_ready(gnt)) => dev_pos' = dev_pos
          BY <1>0, Zenon DEF Device
        <5> QED BY <3>2, <5>1, <5>2, <5>3
      <4>4. /\ Granted(gnt) \in Seq(Write) /\ Len(Granted(gnt)) = 1
            /\ Granted(gnt)[1] = [addr |-> xfer.addr, data |-> RunWord(dev_data)]
        BY <1>0, <3>4, <4>1, GrantedType
      <4>5. RunAt(xfer.ch, xfer.addr, xfer.words, dev_pos, 1)
              = [addr |-> xfer.addr, data |-> RunWord(dev_data)]
        <5>1. CASE xfer.ch = 3
          BY <3>2, <5>1, RunFirst DEF RunWord, dev_data
        <5>2. CASE xfer.ch = 6
          <6>1. RunWord(dev_data) = IF xfer.words = 1 THEN EndMarker ELSE Down(xfer.addr)
            BY <5>2 DEF RunWord
          <6>2. RunAt(6, xfer.addr, xfer.words, dev_pos, 1)
                  = [addr |-> xfer.addr, data |-> IF xfer.words = 1 THEN EndMarker ELSE Down(xfer.addr)]
            BY <3>2, RunFirst
          <6> QED BY <5>2, <6>1, <6>2
        <5> QED BY <3>0, <5>1, <5>2
      <4>6. xfer'.addr \in Addr
        BY <3>2, <4>2, Steps
      <4>7. Rest(run_log \o Granted(gnt), run_due, xfer.ch, xfer'.addr, xfer.words - 1, dev_pos')
        BY <3>0, <3>1, <3>2, <4>1, <4>2, <4>3, <4>4, <4>5, <4>6, RestTaken
      <4>8. Rest(run_log', run_due', xfer'.ch, xfer'.addr, xfer'.words, dev_pos')
        BY <3>1, <4>2, <4>7
      <4> QED BY <2>0, <2>1, <2>2, <3>0, <3>4, <4>2, <4>8 DEF RunInv, Grantable, Rest
    <3>5. CASE RunMoves(w, gnt, dev_valid, dev_data) /\ ~gnt
      <4>1. /\ xfer' = xfer /\ state' = "RUN" /\ ~ram_rnw' /\ xfer.words # 0 /\ HasWord(dev_valid)
            /\ ram_addr' = xfer.addr /\ ram_wdata' = RunWord(dev_data)
        BY <2>4, <3>5 DEF RunMoves, WriteRequest
      <4>2. HasWord(dev_valid)' /\ RunWord(dev_data)' = RunWord(dev_data)
        BY <3>3, <3>5, <4>1 DEF HasWord, RunWord, dev_data
      <4> QED BY <2>0, <2>1, <3>0, <3>1, <3>3, <3>5, <4>1, <4>2 DEF RunInv, Rest
    <3>6. CASE RunWaits(w, dev_valid)
      <4>1. /\ xfer' = xfer /\ state' = "RUN" /\ ~ram_req' /\ ~gnt
        BY <2>2, <2>4, <3>0, <3>6 DEF RunWaits, NoRequest
      <4> QED BY <2>0, <2>1, <3>0, <3>1, <3>3, <4>1 DEF RunInv, Rest, Grantable
    <3>7. CASE RunOver(w)
      <4>1. /\ state' = "FINISH" /\ xfer.words = 0 /\ ~gnt
        BY <2>2, <3>0, <3>7 DEF RunOver
      <4>2. run_log = run_due
        BY <3>0, <3>1, <4>1, RestNone
      <4> QED BY <2>1, <3>1, <3>3, <4>1, <4>2 DEF RunInv
    <3> QED BY <2>0, <2>4, <3>4, <3>5, <3>6, <3>7, InRun
  <2> QED BY <2>3, <2>4
<1> QED BY <1>1, <1>2

LEMMA RunStutter == (~reset_int => RunInv) /\ UNCHANGED vars => (~reset_int => RunInv)'
BY DEF RunInv, BcrWritten, Rest, Grantable, HasWord, RunWord, dev_data, StartChannels, vars, dmaVars, envVars,
       historyVars, regVars, ramPortVars, sif0OutVars

\* The engine's own transfers write exactly what they were programmed to, to the last
\* word before the completion shows, if the driver programs no more words than the
\* counter holds.
THEOREM RunsComplete ==
  ASSUME CountsFit
  PROVE  Spec => []RunComplete
<1>1. Init => (~reset_int => RunInv)
  BY DEF Init
<1>2. TypeOK /\ (~reset_int => RunInv) /\ [Next]_vars => (~reset_int => RunInv)'
  BY CountsFit, RunKept, RunStutter, NextCycle
<1>3. (~reset_int => RunInv) => RunComplete
  BY DEF RunInv, RunComplete
<1> QED BY <1>1, <1>2, <1>3, TypesKept, PTL DEF Spec

-----------------------------------------------------------------------------
(* SIF1. *)

\* Nobody arms SIF1 while it is armed.
LEMMA ArmedOnce ==
  ASSUME KickApart, TypeOK, s1.armed => chcr[10].start \/ Kick, NEW w, WellFormed(w),
         NEW kick \in Kicks
  PROVE  /\ s1.armed => s1W(w) = s1 /\ ~kick
         /\ Starts(w) /\ w.ch = 10 => ~s1.armed /\ chcrW(w)[10].start
         /\ kick => ~s1.armed /\ Kick
         /\ s1.armed => chcrW(w)[10].start \/ Kick
<1>0. RegType /\ EngineType /\ scenario \in Scenarios /\ 10 \in Channels
  BY Sizes DEF TypeOK, EnvType
<1>1. kick => ~s1.armed /\ Kick
  BY DEF Kicks
<1>2. Starts(w) /\ w.ch = 10 => ~chcr[10].start /\ 10 \in StartChannels /\ chcrW(w)[10].start
  BY <1>0, StartBits DEF Starts, WellFormed
<1>3. 10 \in StartChannels => ~Kick
  BY <1>0 DEF KickApart, StartChannels, Kick
<1>4. Starts(w) /\ w.ch = 10 => ~s1.armed
  BY <1>2, <1>3
<1>5. chcr[10].start => chcrW(w)[10].start
  BY <1>0, StartBits
<1> QED BY <1>1, <1>2, <1>4, <1>5 DEF s1W

LEMMA Sif1Elsewhere ==
  ASSUME TypeOK, NEW w, WellFormed(w), NEW kick, NEW gnt, NEW rvalid, Engine(w, kick, gnt, rvalid),
         state # "SIF1RUN"
  PROVE  /\ s1' = s1W(w) \/ (kick /\ s1' = Armed1)
         /\ chcr'[10] = chcrW(w)[10]
         /\ state' = "SIF1RUN" => ~ram_req' /\ s1.armed
<1>0. EngineType /\ chcrW(w) \in [Channels -> Chcr] /\ 9 # 10
  BY RegisterTypes DEF TypeOK, EnvType
<1>1. s1' = s1W(w) \/ (kick /\ s1' = Armed1)
  BY Zenon DEF Engine, DmaRun, EngineTakesStart, EngineKicked, EngineTurns, Sif0Completes, Sif0Waits,
         Sif0Word, Sif0Yields, Sif0Asks, Sif1Completes, Sif1Yields, Sif1Tag, Sif1Data, RunMoves, RunWaits,
         RunOver, Finish
<1>2. chcr'[10] = chcrW(w)[10]
  <2>1. CASE NoneCompletes(w)
    BY <2>1 DEF NoneCompletes
  <2>2. ASSUME NEW c, NEW a, c # 10, Completes(w, c, a) PROVE chcr'[10] = chcrW(w)[10]
    BY <1>0, <2>2 DEF Completes
  <2>3. Sif0Completes(w) => chcr'[10] = chcrW(w)[10]
    BY <1>0, <2>2 DEF Sif0Completes
  <2>4. Finish(w) => chcr'[10] = chcrW(w)[10]
    <3>1. Finish(w) => xfer.ch # 10
      BY <1>0 DEF Finish, EngineType
    <3> QED BY <2>2, <3>1 DEF Finish
  <2> QED BY <2>1, <2>3, <2>4, Endings DEF Sif1Completes
<1>3. state' = "SIF1RUN" => ~ram_req' /\ s1.armed
  BY DEF Engine, DmaRun, EngineTakesStart, EngineKicked, EngineTurns, Sif0Completes, Sif0Waits,
         Sif0Word, Sif0Yields, Sif0Asks, Sif1Completes, Sif1Yields, Sif1Tag, Sif1Data, RunMoves, RunWaits,
         RunOver, Finish, NoRequest
<1> QED BY <1>1, <1>2, <1>3

LEMMA InSif1 ==
  ASSUME NEW w, NEW kick, NEW gnt, NEW rvalid, Engine(w, kick, gnt, rvalid), state = "SIF1RUN"
  PROVE  \/ Sif1Completes(w) \/ Sif1Yields(w, sif1_valid) \/ Sif1Tag(w, sif1_valid, sif1_data)
         \/ Sif1Data(w, gnt, sif1_valid, sif1_data)
BY DEF Engine, DmaRun, EngineTakesStart, EngineKicked, EngineTurns, Sif0Completes, Sif0Waits, Sif0Word,
       Sif0Yields, Sif0Asks, Sif1Completes, Sif1Yields, Sif1Tag, Sif1Data, RunMoves, RunWaits, RunOver,
       Finish

\* How the history parses a word, by the words of the tag it has.
LEMMA ParsedWord ==
  ASSUME NEW f \in Frame, NEW n \in Nat, SifWord(n) \in Nat
  PROVE  /\ f.tag = 0 \/ (f.tag = 4 /\ f.left = 0) =>
              /\ Parsed(f, n).tag = 1 /\ Parsed(f, n).addr = SifWord(n) % AddrSpace
              /\ Parsed(f, n).log = f.log
         /\ f.tag = 1 => /\ Parsed(f, n).tag = 2 /\ Parsed(f, n).addr = f.addr
                         /\ Parsed(f, n).log = f.log
                         /\ Parsed(f, n).left = 4 * ((SifWord(n) % LenSpace) \div 4)
         /\ f.tag \in {2, 3} =>
              /\ Parsed(f, n).tag = f.tag + 1 /\ Parsed(f, n).addr = f.addr
              /\ Parsed(f, n).left = f.left /\ Parsed(f, n).log = f.log
         /\ f.tag = 4 /\ f.left # 0 =>
              /\ Parsed(f, n).tag = 4 /\ Parsed(f, n).addr = Up(f.addr)
              /\ Parsed(f, n).left = f.left - 1
              /\ Parsed(f, n).log = Append(f.log, [addr |-> f.addr, data |-> n])
<1> DEFINE v == SifWord(n)
<1>1. v % LenSpace \in Nat
  BY Remainders
<1>2. \A x \in Nat : 4 * (x \div 4) = x - (x % 4)
  OBVIOUS
<1>3. 4 * ((v % LenSpace) \div 4) = (v % LenSpace) - ((v % LenSpace) % 4)
  BY <1>1, <1>2
<1> HIDE DEF v
<1>4. ASSUME f.tag = 0 \/ (f.tag = 4 /\ f.left = 0)
      PROVE  Parsed(f, n).tag = 1 /\ Parsed(f, n).addr = v % AddrSpace /\ Parsed(f, n).log = f.log
  <2>1. Parsed(f, n) = [f EXCEPT !.tag = 1, !.addr = v % AddrSpace]
    BY <1>4, Zenon DEF Parsed, v
  <2> QED BY <2>1 DEF Frame
<1>5. ASSUME f.tag = 1
      PROVE  /\ Parsed(f, n).tag = 2 /\ Parsed(f, n).addr = f.addr /\ Parsed(f, n).log = f.log
             /\ Parsed(f, n).left = 4 * ((v % LenSpace) \div 4)
  <2>1. Parsed(f, n) = [f EXCEPT !.tag = 2, !.left = (v % LenSpace) - ((v % LenSpace) % 4)]
    BY <1>5 DEF Parsed, v
  <2>2. ASSUME NEW l PROVE LET p == [f EXCEPT !.tag = 2, !.left = l]
                           IN  p.tag = 2 /\ p.addr = f.addr /\ p.log = f.log /\ p.left = l
    BY DEF Frame
  <2> QED BY <1>3, <2>1, <2>2
<1>6. ASSUME f.tag \in {2, 3}
      PROVE  /\ Parsed(f, n).tag = f.tag + 1 /\ Parsed(f, n).addr = f.addr
             /\ Parsed(f, n).left = f.left /\ Parsed(f, n).log = f.log
  <2>1. Parsed(f, n) = [f EXCEPT !.tag = f.tag + 1]
    BY <1>6 DEF Parsed, Frame
  <2> QED BY <2>1 DEF Frame
<1>7. ASSUME f.tag = 4, f.left # 0
      PROVE  /\ Parsed(f, n).tag = 4 /\ Parsed(f, n).addr = Up(f.addr)
             /\ Parsed(f, n).left = f.left - 1
             /\ Parsed(f, n).log = Append(f.log, [addr |-> f.addr, data |-> n])
  <2>1. Parsed(f, n) = [f EXCEPT !.log = Append(f.log, [addr |-> f.addr, data |-> n]),
                                 !.addr = Up(f.addr), !.left = f.left - 1]
    BY <1>7 DEF Parsed, Frame
  <2>2. ASSUME NEW g, NEW a, NEW l
        PROVE  LET p == [f EXCEPT !.log = g, !.addr = a, !.left = l]
               IN  p.tag = f.tag /\ p.addr = a /\ p.left = l /\ p.log = g
    BY DEF Frame
  <2> QED BY <1>7, <2>1, <2>2
<1> QED BY <1>4, <1>5, <1>6, <1>7 DEF v

LEMMA Sif1Kept ==
  ASSUME KickApart, TypeOK, ~reset_int => Sif1Inv,
         NEW w \in BusWrites, NEW kick \in Kicks, NEW gnt \in BOOLEAN,
         NEW rvalid \in BOOLEAN, NEW drain \in BOOLEAN, Cycle(w, kick, gnt, rvalid, drain), ~reset_int'
  PROVE  Sif1Inv'
<1>0. /\ RegType /\ EngineType /\ WireType /\ EnvType /\ HistoryType /\ scenario \in Scenarios
      /\ WellFormed(w) /\ Serve(gnt, rvalid) /\ Stream(gnt) /\ History(w, kick, gnt)
      /\ frame \in Frame /\ s1 \in Sif1Reg /\ sif1_log \in Seq(Write)
  BY DriverWrites DEF TypeOK, EnvType, EngineType, HistoryType, Cycle, Surroundings
<1>1. CASE reset_int
  <2>1. /\ state' = "IDLE" /\ s1' = [armed |-> FALSE, phase |-> FALSE, tagw |-> 0, addr |-> 0, words |-> 0]
    BY <1>1, OutOfReset DEF DmaReset
  <2>2. sif1_log' = <<>> /\ frame' = NoFrame
    BY <1>0, <1>1 DEF History
  <2> QED BY <2>1, <2>2 DEF Sif1Inv, Between, NoFrame
<1>2. CASE ~reset_int
  <2>0. /\ Sif1Inv /\ Engine(w, kick, gnt, rvalid) /\ ~reset /\ scenario' = scenario /\ Kick' = Kick
    BY <1>2, OutOfReset DEF Kick
  <2>1. /\ s1.armed => s1W(w) = s1 /\ ~kick
        /\ Starts(w) /\ w.ch = 10 => ~s1.armed /\ chcrW(w)[10].start
        /\ kick => ~s1.armed /\ Kick
        /\ s1.armed => chcrW(w)[10].start \/ Kick
    BY <1>0, <2>0, ArmedOnce DEF Sif1Inv
  <2>2. gnt => Grantable /\ port' # "free"
    BY <1>0, <2>0, PortFacts
  <2>3. /\ sif1_log' = IF state = "SIF1RUN" THEN sif1_log \o Granted(gnt) ELSE sif1_log
        /\ frame' = IF sif1_ready(gnt, sif1_valid) THEN Parsed(frame, sif1_data) ELSE frame
    BY <1>0, <1>2, HistoryRuns, Zenon
  <2>4. CASE state # "SIF1RUN"
    <3>1. sif1_log' = sif1_log /\ frame' = frame
      BY <2>3, <2>4 DEF sif1_ready
    <3>2. /\ s1' = s1W(w) \/ (kick /\ s1' = Armed1)
          /\ chcr'[10] = chcrW(w)[10]
          /\ state' = "SIF1RUN" => ~ram_req' /\ s1.armed
      BY <2>0, <1>0, <2>4, Sif1Elsewhere
    <3>3. CASE s1' = s1
      BY <2>0, <2>1, <3>1, <3>2, <3>3 DEF Sif1Inv, Between, Grantable
    <3>4. CASE s1' = Armed1 /\ ~s1.armed /\ (chcr'[10].start \/ Kick)
      <4>1. s1'.armed /\ ~s1'.phase /\ s1'.tagw = 0
        BY <1>0, <3>4 DEF Armed1, Sif1Reg
      <4>2. Between
        BY <2>0, <3>4 DEF Sif1Inv
      <4> QED BY <2>0, <3>1, <3>2, <3>4, <4>1, <4>2 DEF Sif1Inv, Between, Grantable
    <3> QED BY <2>1, <3>2, <3>3, <3>4 DEF s1W
  <2>5. CASE state = "SIF1RUN"
    <3>0. /\ s1.armed /\ s1W(w) = s1 /\ (chcrW(w)[10].start \/ Kick)
          /\ Grantable => /\ ~ram_rnw /\ s1.phase /\ s1.words # 0 /\ sif1_valid
                          /\ ram_addr = s1.addr /\ ram_wdata = sif1_data
          /\ sif1_log = frame.log
      BY <2>0, <2>1, <2>5 DEF Sif1Inv
    <3>1. ASSUME ~gnt PROVE sif1_log' = sif1_log
      <4>1. Granted(gnt) = <<>>
        BY <3>1 DEF Granted
      <4>2. sif1_log \o <<>> = sif1_log
        BY <1>0, ConcatEmptySeq
      <4> QED BY <2>3, <2>5, <4>1, <4>2, Zenon
    <3>2. NoneCompletes(w) => chcr'[10] = chcrW(w)[10]
      BY DEF NoneCompletes
    <3>3. CASE Sif1Completes(w)
      <4>1. s1.phase /\ s1.words = 0 /\ ~gnt /\ state' = "IDLE"
        BY <2>2, <3>0, <3>3 DEF Sif1Completes, Sif1Over
      <4>2. s1' = [s1 EXCEPT !.armed = FALSE, !.phase = FALSE, !.tagw = 0]
        BY <3>0, <3>3 DEF Sif1Completes
      <4>3. ~s1'.armed /\ ~s1'.phase /\ s1'.tagw = 0
        BY <1>0, <4>2 DEF Sif1Reg
      <4>4. frame' = frame /\ Between
        BY <2>0, <2>3, <4>1 DEF sif1_ready, Sif1Inv, Between
      <4> QED BY <3>0, <3>1, <4>1, <4>3, <4>4 DEF Sif1Inv, Between
    <3>4. CASE Sif1Yields(w, sif1_valid)
      <4>1. ~sif1_valid /\ ~gnt /\ state' = "IDLE" /\ s1' = s1 /\ chcr'[10] = chcrW(w)[10]
        BY <2>2, <3>0, <3>2, <3>4 DEF Sif1Yields
      <4>2. frame' = frame
        BY <2>3, <4>1 DEF sif1_ready
      <4> QED BY <2>0, <3>0, <3>1, <4>1, <4>2 DEF Sif1Inv, Between
    <3>5. CASE Sif1Tag(w, sif1_valid, sif1_data)
      <4>1. /\ sif1_valid /\ ~s1.phase /\ ~gnt /\ state' = "SIF1RUN" /\ ~ram_req'
            /\ chcr'[10] = chcrW(w)[10]
        BY <2>2, <2>5, <3>0, <3>2, <3>5 DEF Sif1Tag, NoRequest
      <4>2. sif1_data \in Nat /\ SifWord(sif1_data) \in Nat
        BY <1>0, <4>1, InputTypes
      <4>3. frame' = Parsed(frame, sif1_data)
        BY <2>3, <2>5, <4>1 DEF sif1_ready
      <4>4. /\ s1'.armed = s1.armed
            /\ s1'.addr = IF s1.tagw = 0 THEN SifWord(sif1_data) % AddrSpace ELSE s1.addr
            /\ s1'.words = IF s1.tagw = 1 THEN 4 * ((SifWord(sif1_data) % LenSpace) \div 4)
                                          ELSE s1.words
            /\ (s1'.phase <=> s1.tagw = 3)
            /\ s1'.tagw = IF s1.tagw = 3 THEN 3 ELSE s1.tagw + 1
        <5> DEFINE a == IF s1.tagw = 0 THEN SifWord(sif1_data) % AddrSpace ELSE s1.addr
                   n == IF s1.tagw = 1 THEN 4 * ((SifWord(sif1_data) % LenSpace) \div 4)
                                       ELSE s1.words
                   p == s1.tagw = 3 \/ s1.phase
                   t == IF s1.tagw = 3 THEN s1.tagw ELSE s1.tagw + 1
        <5>1. s1' = [s1 EXCEPT !.addr = a, !.words = n, !.phase = p, !.tagw = t]
          BY <3>0, <3>5, Zenon DEF Sif1Tag
        <5>2. p \in BOOLEAN /\ (p <=> s1.tagw = 3)
          BY <4>1
        <5>3. t = IF s1.tagw = 3 THEN 3 ELSE s1.tagw + 1
          OBVIOUS
        <5> HIDE DEF a, n, p, t
        <5>4. /\ s1'.armed = s1.armed /\ s1'.addr = a /\ s1'.words = n /\ s1'.tagw = t
              /\ s1'.phase = p
          BY <1>0, <5>1 DEF Sif1Reg
        <5>5. s1'.phase <=> s1.tagw = 3
          BY <5>2, <5>4, Zenon
        <5> QED BY <5>3, <5>4, <5>5, Zenon DEF a, n
      <4>5. s1.tagw \in 0..3
        BY <1>0 DEF Sif1Reg
      <4>6. /\ s1.tagw = 0 => Between
            /\ s1.tagw # 0 => /\ frame.tag = s1.tagw /\ s1.addr = frame.addr
                              /\ s1.tagw >= 2 => s1.words = frame.left
        BY <2>0, <4>1 DEF Sif1Inv
      <4>7. /\ Between => /\ frame'.tag = 1 /\ frame'.addr = SifWord(sif1_data) % AddrSpace
                          /\ frame'.log = frame.log
            /\ frame.tag = 1 => /\ frame'.tag = 2 /\ frame'.addr = frame.addr
                                /\ frame'.log = frame.log
                                /\ frame'.left = 4 * ((SifWord(sif1_data) % LenSpace) \div 4)
            /\ frame.tag \in {2, 3} => /\ frame'.tag = frame.tag + 1 /\ frame'.addr = frame.addr
                                       /\ frame'.left = frame.left /\ frame'.log = frame.log
        <5>1. Between => frame.tag = 0 \/ (frame.tag = 4 /\ frame.left = 0)
          BY DEF Between
        <5> QED BY <1>0, <4>2, <4>3, <5>1, ParsedWord, Zenon
      <4>8. sif1_log' = frame'.log /\ s1'.armed /\ (chcr'[10].start \/ Kick)
        <5>1. frame'.log = frame.log
          BY <4>5, <4>6, <4>7
        <5> QED BY <3>0, <3>1, <4>1, <4>4, <5>1
      <4>9. CASE s1.tagw = 0
        BY <2>0, <4>1, <4>4, <4>6, <4>7, <4>8, <4>9 DEF Sif1Inv, Grantable
      <4>10. CASE s1.tagw = 1
        BY <2>0, <4>1, <4>4, <4>6, <4>7, <4>8, <4>10 DEF Sif1Inv, Grantable
      <4>11. CASE s1.tagw \in {2, 3}
        BY <2>0, <4>1, <4>4, <4>6, <4>7, <4>8, <4>11 DEF Sif1Inv, Grantable
      <4> QED BY <4>5, <4>9, <4>10, <4>11
    <3>6. CASE Sif1Data(w, gnt, sif1_valid, sif1_data) /\ gnt
      <4>1. /\ s1.phase /\ s1.words # 0 /\ sif1_valid /\ ~ram_rnw /\ ram_addr = s1.addr
            /\ ram_wdata = sif1_data /\ state' = "SIF1RUN" /\ chcr'[10] = chcrW(w)[10]
        BY <2>2, <2>5, <3>0, <3>2, <3>6 DEF Sif1Data
      <4>2. frame.tag = 4 /\ s1.words = frame.left /\ s1.addr = frame.addr
        BY <2>0, <4>1 DEF Sif1Inv
      <4>3. frame' = Parsed(frame, sif1_data)
        BY <2>3, <2>5, <3>6, <4>1 DEF sif1_ready
      <4>4. sif1_data \in Nat /\ SifWord(sif1_data) \in Nat
        BY <1>0, <4>1, InputTypes
      <4>5. /\ frame'.tag = 4 /\ frame'.addr = Up(frame.addr) /\ frame'.left = frame.left - 1
            /\ frame'.log = Append(frame.log, [addr |-> frame.addr, data |-> sif1_data])
        BY <1>0, <4>1, <4>2, <4>3, <4>4, ParsedWord
      <4>6. /\ s1'.armed /\ s1'.phase /\ s1'.words = s1.words - 1 /\ s1'.addr = Up(s1.addr)
        <5>1. s1' = [s1 EXCEPT !.words = s1.words - 1, !.addr = Up(s1.addr)]
          BY <3>0, <3>6 DEF Sif1Data
        <5> QED BY <1>0, <3>0, <4>1, <5>1 DEF Sif1Reg
      <4>7. sif1_log' = frame'.log
        <5>1. Granted(gnt) = <<[addr |-> frame.addr, data |-> sif1_data]>>
          BY <3>6, <4>1, <4>2, Zenon DEF Granted
        <5>2. [addr |-> frame.addr, data |-> sif1_data] \in Write
          BY <1>0, <4>4 DEF Write, Frame
        <5>3. Append(sif1_log, [addr |-> frame.addr, data |-> sif1_data])
                = sif1_log \o <<[addr |-> frame.addr, data |-> sif1_data]>>
          BY <1>0, <5>2, AppendIsConcat, Zenon
        <5> QED BY <2>3, <2>5, <3>0, <4>5, <5>1, <5>3, Zenon
      <4> QED BY <2>0, <2>2, <3>0, <3>6, <4>1, <4>2, <4>5, <4>6, <4>7 DEF Sif1Inv, Grantable
    <3>7. CASE Sif1Data(w, gnt, sif1_valid, sif1_data) /\ ~gnt
      <4>1. /\ s1' = s1 /\ state' = "SIF1RUN" /\ chcr'[10] = chcrW(w)[10] /\ sif1_valid
            /\ s1.phase /\ s1.words # 0 /\ ~ram_rnw' /\ ram_addr' = s1.addr /\ ram_wdata' = sif1_data
        BY <2>5, <3>0, <3>2, <3>7 DEF Sif1Data, Sif1Over, WriteRequest
      <4>2. ~sif1_ready(gnt, sif1_valid)
        BY <3>7, <4>1 DEF sif1_ready
      <4>3. frame' = frame
        BY <2>3, <4>2
      <4>4. sif1_data' = sif1_data /\ sif1_valid'
        <5>1. sif1_pos' = sif1_pos /\ sif1_sent' >= sif1_sent /\ sif1_pos \in Nat /\ sif1_sent \in Nat
          BY <1>0, <4>2 DEF Stream, EnvType
        <5>2. sif1_sent' \in Nat
          BY <1>0, <5>1 DEF Stream
        <5> QED BY <4>1, <5>1, <5>2 DEF sif1_data, sif1_valid
      <4> QED BY <2>0, <3>0, <3>1, <3>7, <4>1, <4>3, <4>4 DEF Sif1Inv, Between
    <3> QED BY <2>0, <2>5, <3>3, <3>4, <3>5, <3>6, <3>7, InSif1
  <2> QED BY <2>4, <2>5
<1> QED BY <1>1, <1>2

LEMMA Sif1Stutter == (~reset_int => Sif1Inv) /\ UNCHANGED vars => (~reset_int => Sif1Inv)'
BY DEF Sif1Inv, Between, Grantable, Kick, sif1_valid, sif1_data, vars, dmaVars, envVars,
       historyVars, regVars, ramPortVars, sif0OutVars

-----------------------------------------------------------------------------
(* SIF0: what a transfer has still to send. *)

LEMMA Sif0WordAt ==
  ASSUME NEW t \in Addr
  PROVE  /\ Sif0Len(t) \in Nat /\ Sif0Words(t) \in Seq(Addr) /\ Len(Sif0Words(t)) = 4 + Sif0Len(t)
         /\ \A i \in 1..4 : Sif0Words(t)[i] = (t + 1 + i) % AddrSpace
         /\ \A i \in 1..Sif0Len(t) :
              Sif0Words(t)[4 + i] = ((RamWord(t) % AddrSpace) + i - 1) % AddrSpace
BY Sif0WordsType DEF Sif0Len

LEMMA RestNat ==
  ASSUME NEW s \in Sif0Reg
  PROVE  RestLen(s) \in Nat /\ Sif0Skip(s) \in 0..3
<1>1. s.tadr \in Addr /\ s.tw \in 0..5 /\ s.words \in Nat
  BY Sizes DEF Sif0Reg, Count
<1>2. Sif0Skip(s) \in 0..3
  BY <1>1 DEF Sif0Skip
<1>3. Sif0Len(s.tadr) \in Nat
  BY <1>1, Sif0WordAt
<1> QED BY <1>1, <1>2, <1>3 DEF RestLen

\* A transfer that starts owes its words after all the others.
LEMMA OwesStarts ==
  ASSUME NEW q \in Seq(Addr), NEW due \in Seq(Addr), NEW s \in Sif0Reg, NEW r \in Sif0Reg,
         Owes(q, due, s), ~s.armed, r.armed, ~r.phase, r.tw = 0
  PROVE  Owes(q, due \o Sif0Words(r.tadr), r)
<1> DEFINE v == Sif0Words(r.tadr)
           n == 4 + Sif0Len(r.tadr)
<1>1. r.tadr \in Addr
  BY DEF Sif0Reg
<1>2. v \in Seq(Addr) /\ Len(v) = n /\ n \in Nat
  <2>1. v \in Seq(Addr) /\ Len(v) = n /\ Sif0Len(r.tadr) \in Nat
    BY <1>1, Sif0WordAt, Zenon
  <2> QED BY <2>1
<1>3. RestLen(s) = 0 /\ RestLen(r) = n /\ Sif0Skip(r) = 0
  BY <1>2 DEF RestLen, Sif0Skip
<1>4. \A j \in 1..n : RestWord(r, j) = v[j]
  BY <1>2, <1>3 DEF RestWord
<1> HIDE DEF v, n
<1>5. Len(q) \in Nat /\ Len(q) = Len(due) /\ \A i \in 1..Len(q) : q[i] = due[i]
  BY <1>3, LenProperties DEF Owes
<1>6. /\ due \o v \in Seq(Addr) /\ Len(due \o v) = Len(due) + Len(v)
      /\ \A i \in 1..Len(due) + Len(v) : (due \o v)[i] = IF i <= Len(due) THEN due[i] ELSE v[i - Len(due)]
  BY <1>2, ConcatProperties, Zenon
<1>7. ASSUME NEW i \in 1..Len(q) PROVE q[i] = (due \o v)[i]
  <2>1. i \in 1..Len(due) + Len(v) /\ i <= Len(due)
    BY <1>2, <1>5
  <2> QED BY <1>5, <1>6, <2>1
<1>8. ASSUME NEW j \in 1..n PROVE (due \o v)[Len(q) + j] = RestWord(r, j)
  <2>1. /\ Len(q) + j \in 1..Len(due) + Len(v) /\ ~(Len(q) + j <= Len(due))
        /\ (Len(q) + j) - Len(due) = j
    BY <1>2, <1>5
  <2> QED BY <1>4, <1>6, <2>1
<1> QED BY <1>2, <1>3, <1>5, <1>6, <1>7, <1>8 DEF Owes, v

\* Sending the first word owed.
LEMMA OwesSent ==
  ASSUME NEW q \in Seq(Addr), NEW due \in Seq(Addr), NEW s \in Sif0Reg, NEW r \in Sif0Reg,
         NEW x \in Addr, Owes(q, due, s), RestLen(s) = RestLen(r) + 1, x = RestWord(s, 1),
         \A j \in 1..RestLen(r) : RestWord(r, j) = RestWord(s, j + 1)
  PROVE  Owes(q \o <<x>>, due, r)
<1>1. Len(q) \in Nat /\ RestLen(r) \in Nat
  BY LenProperties, RestNat
<1>2. <<x>> \in Seq(Addr) /\ Len(<<x>>) = 1 /\ <<x>>[1] = x
  OBVIOUS
<1>3. /\ Len(q \o <<x>>) = Len(q) + Len(<<x>>)
      /\ \A i \in 1..Len(q) + Len(<<x>>) : (q \o <<x>>)[i] = IF i <= Len(q) THEN q[i] ELSE <<x>>[i - Len(q)]
  BY <1>2, ConcatProperties, Zenon
<1>4. Len(q \o <<x>>) = Len(q) + 1
  BY <1>2, <1>3
<1>5. ASSUME NEW i \in 1..Len(q) + 1 PROVE (q \o <<x>>)[i] = due[i]
  <2>1. CASE i <= Len(q)
    <3>1. i \in 1..Len(q)
      BY <1>1, <2>1
    <3> QED BY <1>1, <1>2, <1>3, <2>1, <3>1 DEF Owes
  <2>2. CASE ~(i <= Len(q))
    <3>1. i = Len(q) + 1 /\ i - Len(q) = 1
      BY <1>1, <2>2
    <3>2. 1 \in 1..RestLen(s)
      BY <1>1
    <3>3. due[Len(q) + 1] = x
      BY <3>2 DEF Owes
    <3> QED BY <1>2, <1>3, <2>2, <3>1, <3>3
  <2> QED BY <2>1, <2>2
<1>6. ASSUME NEW j \in 1..RestLen(r) PROVE due[(Len(q) + 1) + j] = RestWord(r, j)
  <2>1. j + 1 \in 1..RestLen(s) /\ (Len(q) + 1) + j = Len(q) + (j + 1)
    BY <1>1
  <2> QED BY <2>1 DEF Owes
<1>7. (Len(q) + 1) + RestLen(r) = Len(due)
  BY <1>1 DEF Owes
<1> QED BY <1>4, <1>5, <1>6, <1>7 DEF Owes

\* The registers that tell what a transfer owes.
Alike(r, s) ==
  r.armed = s.armed /\ r.phase = s.phase /\ r.tw = s.tw /\ r.addr = s.addr /\ r.words = s.words
  /\ r.tadr = s.tadr

LEMMA OwesAlike ==
  ASSUME NEW q, NEW due, NEW s, NEW r, Alike(r, s)
  PROVE  /\ Owes(q, due, s) => Owes(q, due, r)
         /\ TagRead(s) => TagRead(r) /\ Sif0Next(r) = Sif0Next(s)
BY DEF Alike, Owes, TagRead, RestLen, RestWord, Sif0Skip, Sif0Next

\* The first two words of a tag are not for the EE.
LEMMA OwesTagRead ==
  ASSUME NEW q \in Seq(Addr), NEW due \in Seq(Addr), NEW s \in Sif0Reg, NEW r \in Sif0Reg,
         Owes(q, due, s), TagRead(s), s.armed, r.armed, ~s.phase, ~r.phase, s.tw \in {0, 1},
         r.tw = s.tw + 1, r.tadr = s.tadr,
         s.tw = 0 => r.addr = RamWord(s.tadr) % AddrSpace,
         s.tw = 1 => r.addr = s.addr /\ r.words = Sif0Len(s.tadr)
  PROVE  Owes(q, due, r) /\ TagRead(r)
<1>1. Sif0Skip(s) = 0 /\ Sif0Skip(r) = 0
  BY DEF Sif0Skip
<1>2. RestLen(r) = RestLen(s) /\ \A j : RestWord(r, j) = RestWord(s, j)
  BY <1>1 DEF RestLen, RestWord
<1> QED BY <1>2 DEF Owes, TagRead

\* The other four are.
LEMMA OwesTagSent ==
  ASSUME NEW q \in Seq(Addr), NEW due \in Seq(Addr), NEW s \in Sif0Reg, NEW r \in Sif0Reg,
         Owes(q, due, s), TagRead(s), s.armed, r.armed, ~s.phase, s.tw \in 2..5,
         r.phase <=> s.tw = 5, r.tw = IF s.tw = 5 THEN 5 ELSE s.tw + 1,
         r.tadr = s.tadr, r.addr = s.addr, r.words = s.words
  PROVE  Owes(q \o <<(s.tadr + s.tw) % AddrSpace>>, due, r) /\ TagRead(r)
<1> DEFINE t == s.tadr
           n == Sif0Len(t)
           x == (t + s.tw) % AddrSpace
<1>1. t \in Addr /\ t \in Nat
  BY Sizes DEF Sif0Reg, Addr
<1>2. /\ n \in Nat
      /\ \A i \in 1..4 : Sif0Words(t)[i] = (t + 1 + i) % AddrSpace
      /\ \A i \in 1..n : Sif0Words(t)[4 + i] = ((RamWord(t) % AddrSpace) + i - 1) % AddrSpace
  BY <1>1, Sif0WordAt
<1>3. x \in Addr
  <2>1. t + s.tw \in Nat
    BY <1>1
  <2> QED BY <2>1, Remainders
<1>4. s.addr = RamWord(t) % AddrSpace /\ s.words = n
  BY DEF TagRead
<1> HIDE DEF n, t, x
<1>5. RestLen(s) = RestLen(r) + 1
  <2>1. RestLen(s) = (4 + n) - (s.tw - 2)
    BY DEF RestLen, Sif0Skip, n, t
  <2>2. CASE s.tw = 5
    <3>1. RestLen(r) = n
      BY <1>4, <2>2 DEF RestLen
    <3> QED BY <1>2, <2>1, <2>2, <3>1
  <2>3. CASE s.tw # 5
    <3>1. RestLen(r) = (4 + n) - ((s.tw + 1) - 2)
      BY <2>3 DEF RestLen, Sif0Skip, n, t
    <3> QED BY <1>2, <2>1, <3>1
  <2> QED BY <2>2, <2>3
<1>6. \A j : RestWord(s, j) = Sif0Words(t)[(s.tw - 2) + j]
  BY DEF RestWord, Sif0Skip, t
<1>7. x = RestWord(s, 1)
  <2>1. (s.tw - 2) + 1 \in 1..4 /\ (t + 1) + ((s.tw - 2) + 1) = t + s.tw
    BY <1>1
  <2>2. RestWord(s, 1) = Sif0Words(t)[(s.tw - 2) + 1]
    BY <1>6, Zenon
  <2>3. Sif0Words(t)[(s.tw - 2) + 1] = ((t + 1) + ((s.tw - 2) + 1)) % AddrSpace
    BY <1>2, <2>1, Zenon
  <2> QED BY <2>1, <2>2, <2>3 DEF x
<1>8. ASSUME NEW j \in 1..RestLen(r) PROVE RestWord(r, j) = RestWord(s, j + 1)
  <2>1. RestWord(s, j + 1) = Sif0Words(t)[(s.tw - 2) + (j + 1)] /\ j \in Nat
    BY <1>6, RestNat
  <2>2. CASE s.tw = 5
    <3>1. RestLen(r) = n /\ RestWord(r, j) = (s.addr + j - 1) % AddrSpace
      BY <1>4, <2>2 DEF RestLen, RestWord
    <3>2. (s.tw - 2) + (j + 1) = 4 + j /\ j \in 1..n
      BY <2>1, <2>2, <3>1
    <3>3. Sif0Words(t)[4 + j] = (s.addr + j - 1) % AddrSpace
      BY <1>2, <1>4, <3>2
    <3> QED BY <2>1, <3>1, <3>2, <3>3
  <2>3. CASE s.tw # 5
    <3>1. RestWord(r, j) = Sif0Words(t)[((s.tw + 1) - 2) + j]
      BY <2>3 DEF RestWord, Sif0Skip, t
    <3>2. ((s.tw + 1) - 2) + j = (s.tw - 2) + (j + 1)
      BY <2>1
    <3> QED BY <2>1, <3>1, <3>2
  <2> QED BY <2>2, <2>3
<1>9. Owes(q \o <<x>>, due, r)
  BY <1>3, <1>5, <1>7, <1>8, OwesSent
<1>10. TagRead(r)
  BY DEF TagRead
<1> QED BY <1>9, <1>10 DEF x, t

LEMMA OwesDataSent ==
  ASSUME NEW q \in Seq(Addr), NEW due \in Seq(Addr), NEW s \in Sif0Reg, NEW r \in Sif0Reg,
         Owes(q, due, s), s.armed, r.armed, s.phase, r.phase, s.words # 0,
         r.words = s.words - 1, r.addr = Up(s.addr)
  PROVE  Owes(q \o <<s.addr>>, due, r) /\ TagRead(r)
<1>1. s.addr \in Addr /\ s.addr \in Nat /\ s.words \in Nat
  BY Sizes DEF Sif0Reg, Count, Addr
<1>2. RestLen(s) = s.words /\ RestLen(r) = s.words - 1
  BY DEF RestLen
<1>3. /\ \A j : RestWord(s, j) = (s.addr + j - 1) % AddrSpace
      /\ \A j : RestWord(r, j) = (Up(s.addr) + j - 1) % AddrSpace
  BY DEF RestWord
<1>4. s.addr = RestWord(s, 1)
  <2>1. s.addr + 1 - 1 = s.addr
    BY <1>1
  <2>2. s.addr % AddrSpace = s.addr
    <3>1. \A m \in Nat \ {0} : \A a \in 0..(m - 1) : a % m = a
      OBVIOUS
    <3> QED BY <1>1, <3>1, Sizes DEF Addr
  <2> QED BY <1>3, <2>1, <2>2
<1>5. ASSUME NEW j \in 1..RestLen(r) PROVE RestWord(r, j) = RestWord(s, j + 1)
  <2>1. j - 1 \in Nat
    BY <1>1, <1>2
  <2>2. Up(s.addr) \in Nat
    <3>1. Up(s.addr) \in Addr
      BY <1>1, Steps
    <3> QED BY <3>1 DEF Addr
  <2>3. s.addr \in 0..AddrSpace - 1
    BY <1>1 DEF Addr
  <2>4. (((s.addr + 1) % AddrSpace) + (j - 1)) % AddrSpace = (s.addr + (j - 1) + 1) % AddrSpace
    BY <2>1, <2>3, UpShift, Sizes
  <2>5. Up(s.addr) + j - 1 = Up(s.addr) + (j - 1) /\ s.addr + (j + 1) - 1 = s.addr + (j - 1) + 1
    BY <1>1, <2>1, <2>2
  <2> QED BY <1>3, <2>4, <2>5 DEF Up
<1>6. Owes(q \o <<s.addr>>, due, r)
  <2>1. RestLen(s) = RestLen(r) + 1
    BY <1>1, <1>2
  <2> QED BY <1>1, <1>4, <1>5, <2>1, OwesSent
<1> QED BY <1>6 DEF TagRead

\* Nothing is owed: everything is sent.
LEMMA OwesNothing ==
  ASSUME NEW q \in Seq(Addr), NEW due \in Seq(Addr), NEW s, Owes(q, due, s), RestLen(s) = 0
  PROVE  q = due
<1>1. Len(q) = Len(due)
  BY LenProperties DEF Owes
<1> QED BY <1>1, SeqEqual DEF Owes

LEMMA OwesIdle ==
  ASSUME NEW q \in Seq(Addr), NEW r, ~r.armed, ~r.phase, r.tw = 0
  PROVE  Owes(q, q, r) /\ TagRead(r)
<1>1. RestLen(r) = 0 /\ Len(q) \in Nat
  BY LenProperties DEF RestLen
<1> QED BY <1>1 DEF Owes, TagRead

-----------------------------------------------------------------------------
(* SIF0: the wires and the FIFO. *)

Pending == IF sif0_we THEN <<sif0_data>> ELSE <<>>

LEMMA ToEeType ==
  ASSUME WireType, EnvType
  PROVE  /\ ee_got \o sif0_fifo \in Seq(Addr) /\ Pending \in Seq(Addr)
         /\ ToEe = (ee_got \o sif0_fifo) \o Pending /\ ToEe \in Seq(Addr)
<1>1. ee_got \o sif0_fifo \in Seq(Addr)
  BY ConcatProperties DEF EnvType
<1>2. Pending \in Seq(Addr)
  <2>1. <<>> \in Seq(Addr) /\ <<sif0_data>> \in Seq(Addr)
    BY DEF WireType
  <2> QED BY <2>1 DEF Pending
<1>3. ToEe = (ee_got \o sif0_fifo) \o Pending
  BY DEF ToEe, Pending
<1> QED BY <1>1, <1>2, <1>3, ConcatProperties

\* The FIFO takes the word at its input, and the EE takes from its other end.
LEMMA FifoTakes ==
  ASSUME WireType, EnvType, NEW drain \in BOOLEAN, Sif0Fifo(drain), sif0_we => ~sif0_full
  PROVE  ee_got' \o sif0_fifo' = ToEe
<1> DEFINE left == IF drain THEN Tail(sif0_fifo) ELSE sif0_fifo
<1>0. ee_got \in Seq(Addr) /\ sif0_fifo \in Seq(Addr) /\ sif0_data \in Addr
  BY DEF WireType, EnvType
<1>5. \A a, b, c \in Seq(Addr) : (a \o b) \o c = a \o (b \o c)
  BY ConcatAssociative
<1>1. /\ drain => sif0_fifo # <<>>
      /\ ee_got' = IF drain THEN Append(ee_got, Head(sif0_fifo)) ELSE ee_got
      /\ sif0_fifo' = IF sif0_we THEN Append(left, sif0_data) ELSE left
  BY DEF Sif0Fifo
<1>2. ee_got' \in Seq(Addr) /\ left \in Seq(Addr) /\ ee_got' \o left = ee_got \o sif0_fifo
  <2>1. CASE drain
    <3>1. Head(sif0_fifo) \in Addr /\ left \in Seq(Addr) /\ <<Head(sif0_fifo)>> \in Seq(Addr)
      BY <1>0, <1>1, <2>1, HeadTailProperties
    <3>2. <<Head(sif0_fifo)>> \o left = sif0_fifo
      BY <1>0, <1>1, <2>1
    <3>3. ee_got' = ee_got \o <<Head(sif0_fifo)>>
      BY <1>0, <1>1, <2>1, <3>1, AppendIsConcat
    <3>4. (ee_got \o <<Head(sif0_fifo)>>) \o left = ee_got \o (<<Head(sif0_fifo)>> \o left)
      BY <1>0, <1>5, <3>1
    <3>5. ee_got' \in Seq(Addr)
      BY <1>0, <3>1, <3>3, ConcatProperties
    <3> QED BY <3>1, <3>2, <3>3, <3>4, <3>5
  <2>2. CASE ~drain
    BY <1>0, <1>1, <2>2
  <2> QED BY <2>1, <2>2
<1> HIDE DEF left
<1>3. CASE sif0_we
  <2>1. sif0_fifo' = left \o <<sif0_data>> /\ <<sif0_data>> \in Seq(Addr)
    BY <1>0, <1>1, <1>2, <1>3, AppendIsConcat
  <2>2. ee_got' \o (left \o <<sif0_data>>) = (ee_got' \o left) \o <<sif0_data>>
    BY <1>2, <1>5, <2>1
  <2>3. ToEe = (ee_got \o sif0_fifo) \o <<sif0_data>>
    BY <1>3 DEF ToEe
  <2> QED BY <1>2, <2>1, <2>2, <2>3
<1>4. CASE ~sif0_we
  <2>1. ToEe = (ee_got \o sif0_fifo) \o <<>>
    BY <1>4 DEF ToEe
  <2>2. ToEe = ee_got \o sif0_fifo
    BY <1>0, <2>1, ConcatProperties, ConcatEmptySeq
  <2>3. sif0_fifo' = left
    BY <1>1, <1>4
  <2> QED BY <1>2, <2>2, <2>3
<1> QED BY <1>3, <1>4

\* What is on its way after a cycle: a word more if the engine pushed one.
LEMMA ToEeSteps ==
  ASSUME WireType, EnvType, WireType', EnvType', NEW drain \in BOOLEAN, Sif0Fifo(drain),
         sif0_we => ~sif0_full
  PROVE  /\ ToEe' = ToEe \o Pending'
         /\ ~sif0_we' => ToEe' = ToEe
<1>1. ee_got' \o sif0_fifo' = ToEe
  BY FifoTakes
<1>2. ToEe' = (ee_got' \o sif0_fifo') \o Pending'
  BY DEF ToEe, Pending
<1>3. ~sif0_we' => Pending' = <<>>
  BY DEF Pending
<1>4. ToEe \o <<>> = ToEe
  BY ToEeType, ConcatEmptySeq
<1> QED BY <1>1, <1>2, <1>3, <1>4

\* With no word at its input the FIFO does not fill up.
LEMMA FifoRoom ==
  ASSUME EnvType, NEW drain \in BOOLEAN, Sif0Fifo(drain), ~sif0_we, ~sif0_full
  PROVE  ~sif0_full'
<1>1. sif0_fifo \in Seq(Addr)
  BY DEF EnvType
<1>2. sif0_fifo' = (IF drain THEN Tail(sif0_fifo) ELSE sif0_fifo) /\ (drain => sif0_fifo # <<>>)
  BY DEF Sif0Fifo
<1>3. Len(sif0_fifo') <= Len(sif0_fifo) /\ Len(sif0_fifo') \in Nat /\ Len(sif0_fifo) \in Nat
  BY <1>1, <1>2, HeadTailProperties, LenProperties
<1> QED BY <1>3, Sizes DEF sif0_full

LEMMA Sif0Elsewhere ==
  ASSUME TypeOK, NEW w, WellFormed(w), NEW kick, NEW gnt, NEW rvalid, Engine(w, kick, gnt, rvalid),
         state # "SIF0RUN"
  PROVE  /\ s0' = s0W(w) /\ chcr'[9] = chcrW(w)[9] /\ ~sif0_we'
         /\ state' = "SIF0RUN" => ~ram_req' /\ s0.armed
<1>0. EngineType /\ chcrW(w) \in [Channels -> Chcr] /\ 9 # 10
  BY RegisterTypes DEF TypeOK, EnvType
<1>1. s0' = s0W(w) /\ ~sif0_we'
  BY Zenon DEF Engine, DmaRun, EngineTakesStart, EngineKicked, EngineTurns, Sif0Completes, Sif0Waits,
         Sif0Word, Sif0Yields, Sif0Asks, Sif1Completes, Sif1Yields, Sif1Tag, Sif1Data, RunMoves, RunWaits,
         RunOver, Finish, NoPush
<1>2. chcr'[9] = chcrW(w)[9]
  <2>1. CASE NoneCompletes(w)
    BY <2>1 DEF NoneCompletes
  <2>2. ASSUME NEW c, NEW a, c # 9, Completes(w, c, a) PROVE chcr'[9] = chcrW(w)[9]
    BY <1>0, <2>2 DEF Completes
  <2>3. Sif1Completes(w) => chcr'[9] = chcrW(w)[9]
    BY <1>0, <2>2 DEF Sif1Completes
  <2>4. Finish(w) => chcr'[9] = chcrW(w)[9]
    <3>1. Finish(w) => xfer.ch # 9
      BY <1>0 DEF Finish, EngineType
    <3> QED BY <2>2, <3>1 DEF Finish
  <2> QED BY <2>1, <2>3, <2>4, Endings DEF Sif0Completes
<1>3. state' = "SIF0RUN" => ~ram_req' /\ s0.armed
  BY DEF Engine, DmaRun, EngineTakesStart, EngineKicked, EngineTurns, Sif0Completes, Sif0Waits,
         Sif0Word, Sif0Yields, Sif0Asks, Sif1Completes, Sif1Yields, Sif1Tag, Sif1Data, RunMoves, RunWaits,
         RunOver, Finish, NoRequest
<1> QED BY <1>1, <1>2, <1>3

LEMMA InSif0 ==
  ASSUME NEW w, NEW kick, NEW gnt, NEW rvalid, Engine(w, kick, gnt, rvalid), state = "SIF0RUN"
  PROVE  \/ Sif0Completes(w) \/ Sif0Waits(w, rvalid) \/ Sif0Word(w, rvalid, rd_addr)
         \/ Sif0Yields(w, sif0_full) \/ Sif0Asks(w, gnt, sif0_full)
BY DEF Engine, DmaRun, EngineTakesStart, EngineKicked, EngineTurns, Sif0Completes, Sif0Waits, Sif0Word,
       Sif0Yields, Sif0Asks, Sif1Completes, Sif1Yields, Sif1Tag, Sif1Data, RunMoves, RunWaits, RunOver,
       Finish

\* Nobody starts SIF0 while it is armed.
LEMMA Started0 ==
  ASSUME TypeOK, s0.armed => chcr[9].start, NEW w, WellFormed(w)
  PROVE  /\ s0.armed => s0W(w) = s0 /\ ~(Starts(w) /\ w.ch = 9) /\ chcrW(w)[9].start
         /\ ~(Starts(w) /\ w.ch = 9) => s0W(w) = s0
         /\ Starts(w) /\ w.ch = 9 =>
              /\ ~s0.armed /\ chcrW(w)[9].start
              /\ s0W(w).armed /\ ~s0W(w).phase /\ ~s0W(w).issued /\ s0W(w).tw = 0
              /\ s0W(w).tadr = tadr[9]
<1>0. RegType /\ EngineType /\ scenario \in Scenarios /\ 9 \in Channels /\ s0 \in Sif0Reg
  BY Sizes DEF TypeOK, EnvType, EngineType
<1>1. Starts(w) /\ w.ch = 9 => ~chcr[9].start /\ chcrW(w)[9].start
  BY <1>0, StartBits DEF Starts, WellFormed
<1>2. chcr[9].start => chcrW(w)[9].start
  BY <1>0, StartBits
<1>3. Starts(w) /\ w.ch = 9 =>
        /\ s0W(w).armed /\ ~s0W(w).phase /\ ~s0W(w).issued /\ s0W(w).tw = 0
        /\ s0W(w).tadr = tadr[9]
  BY <1>0 DEF s0W, Sif0Reg
<1> QED BY <1>1, <1>2, <1>3 DEF s0W

\* A word that comes back: the first two of a tag are kept, the others go on.
LEMMA Sif0WordSteps ==
  ASSUME TypeOK, NEW w, s0W(w) = s0, NEW rvalid, Sif0Word(w, rvalid, rd_addr),
         s0.armed, rd_addr = Sif0Next(s0), NEW q \in Seq(Addr), Owes(q, sif0_due, s0), TagRead(s0),
         s0' \in Sif0Reg
  PROVE  /\ Owes(q \o Pending', sif0_due, s0') /\ TagRead(s0')
         /\ s0'.armed /\ ~s0'.issued
<1>0. s0 \in Sif0Reg /\ sif0_due \in Seq(Addr) /\ rd_addr \in Addr /\ q \o <<>> = q
  BY ConcatEmptySeq DEF TypeOK, EngineType, HistoryType, EnvType
<1>1. CASE s0.phase
  <2>1. s0' = [s0 EXCEPT !.issued = FALSE, !.words = s0.words - 1, !.addr = Up(s0.addr)]
    BY <1>1 DEF Sif0Word
  <2>2. /\ s0'.armed /\ s0'.phase /\ ~s0'.issued /\ s0'.words = s0.words - 1
        /\ s0'.addr = Up(s0.addr)
    BY <1>0, <1>1, <2>1 DEF Sif0Reg
  <2>3. Pending' = <<s0.addr>>
    BY <1>1 DEF Sif0Word, Push, Pending, Sif0Next
  <2>4. s0.words # 0
    BY <1>1 DEF TypeOK, EngineType, Sif0Word
  <2>5. Owes(q \o <<s0.addr>>, sif0_due, s0') /\ TagRead(s0')
    BY <1>0, <1>1, <2>2, <2>4, OwesDataSent
  <2> QED BY <2>2, <2>3, <2>5
<1>2. CASE ~s0.phase
  <2> DEFINE a == IF s0.tw = 0 THEN RamWord(rd_addr) % AddrSpace ELSE s0.addr
             n == IF s0.tw = 1 THEN RamWord(rd_addr) % LenSpace ELSE s0.words
             p == s0.tw = 5 \/ s0.phase
             t == IF s0.tw = 5 THEN s0.tw ELSE s0.tw + 1
  <2>1. s0' = [s0 EXCEPT !.issued = FALSE, !.addr = a, !.words = n, !.phase = p, !.tw = t]
    BY <1>2, Zenon DEF Sif0Word
  <2>2. (p <=> s0.tw = 5) /\ t = (IF s0.tw = 5 THEN 5 ELSE s0.tw + 1)
    BY <1>2
  <2> HIDE DEF a, n, p, t
  <2>3. /\ s0'.armed = s0.armed /\ s0'.issued = FALSE /\ s0'.addr = a /\ s0'.words = n
        /\ s0'.phase = p /\ s0'.tw = t /\ s0'.tadr = s0.tadr
    BY <1>0, <2>1 DEF Sif0Reg
  <2>4. /\ s0'.armed /\ ~s0'.issued /\ (s0'.phase <=> s0.tw = 5)
        /\ s0'.tw = (IF s0.tw = 5 THEN 5 ELSE s0.tw + 1)
    BY <2>2, <2>3, Zenon
  <2>5. s0.tw \in 0..5 /\ rd_addr = (s0.tadr + s0.tw) % AddrSpace /\ s0.tadr \in Addr
    BY <1>0, <1>2 DEF Sif0Reg, Sif0Next
  <2>6. CASE s0.tw \in {0, 1}
    <3>1. Pending' = <<>>
      BY <1>2, <2>6 DEF Sif0Word, NoPush, Pending
    <3>2. s0.tw = 0 => s0'.addr = RamWord(s0.tadr) % AddrSpace
      <4>1. \A m \in Nat \ {0} : \A x \in 0..(m - 1) : (x + 0) % m = x
        OBVIOUS
      <4>2. s0.tw = 0 => rd_addr = s0.tadr
        BY <2>5, <4>1, Sizes DEF Addr
      <4> QED BY <2>3, <4>2 DEF a
    <3>3. s0.tw = 1 => s0'.addr = s0.addr /\ s0'.words = Sif0Len(s0.tadr)
      BY <2>3, <2>5 DEF a, n, Sif0Len
    <3>4. ~s0'.phase /\ s0'.tw = s0.tw + 1 /\ s0'.tadr = s0.tadr
      BY <2>3, <2>4, <2>6
    <3>5. Owes(q, sif0_due, s0') /\ TagRead(s0')
      BY <1>0, <1>2, <2>4, <2>6, <3>2, <3>3, <3>4, OwesTagRead
    <3> QED BY <1>0, <2>4, <3>1, <3>5
  <2>7. CASE s0.tw \in 2..5
    <3>1. Pending' = <<rd_addr>>
      BY <1>2, <2>7 DEF Sif0Word, Push, Pending
    <3>2. s0'.tadr = s0.tadr /\ s0'.addr = s0.addr /\ s0'.words = s0.words
      BY <2>3, <2>7 DEF a, n
    <3>3. Owes(q \o <<(s0.tadr + s0.tw) % AddrSpace>>, sif0_due, s0') /\ TagRead(s0')
      BY <1>0, <1>2, <2>4, <2>7, <3>2, OwesTagSent
    <3> QED BY <2>4, <2>5, <3>1, <3>3
  <2> QED BY <2>5, <2>6, <2>7
<1> QED BY <1>1, <1>2

LEMMA Sif0Same ==
  ASSUME s0' = s0, sif0_due' = sif0_due, ToEe' = ToEe, Owes(ToEe, sif0_due, s0), TagRead(s0)
  PROVE  Owes(ToEe, sif0_due, s0)' /\ TagRead(s0)' /\ Sif0Next(s0)' = Sif0Next(s0)
<1>1. Owes(ToEe', sif0_due', s0') /\ TagRead(s0') /\ Sif0Next(s0') = Sif0Next(s0)
  OBVIOUS
<1> QED BY <1>1 DEF Owes, TagRead, RestLen, RestWord, Sif0Skip, Sif0Next

LEMMA Sif0Kept ==
  ASSUME TypeOK, ~reset_int => Requests /\ Sif0Inv,
         NEW w \in BusWrites, NEW kick \in Kicks, NEW gnt \in BOOLEAN,
         NEW rvalid \in BOOLEAN, NEW drain \in BOOLEAN, Cycle(w, kick, gnt, rvalid, drain), ~reset_int'
  PROVE  Requests' /\ Sif0Inv'
<1>0. /\ RegType /\ EngineType /\ WireType /\ EnvType /\ HistoryType
      /\ WellFormed(w) /\ Serve(gnt, rvalid) /\ Sif0Fifo(drain) /\ History(w, kick, gnt)
      /\ s0 \in Sif0Reg /\ sif0_due \in Seq(Addr) /\ 9 \in Channels
  BY DriverWrites, Sizes DEF TypeOK, EnvType, EngineType, HistoryType, Cycle, Surroundings
<1>4. RegType' /\ EngineType' /\ WireType' /\ EnvType' /\ s0' \in Sif0Reg
  BY CycleType DEF TypeOK, EngineType
<1>5. ToEe \in Seq(Addr)
  BY <1>0, ToEeType
<1>1. CASE reset_int
  <2>1. /\ DmaReset /\ state' = "IDLE" /\ ~ram_req' /\ ~sif0_we'
    BY <1>1, OutOfReset DEF DmaReset, NoRequest, NoPush
  <2>2. ~s0'.armed /\ ~s0'.phase /\ ~s0'.issued /\ s0'.tw = 0
    BY <1>0, <2>1 DEF DmaReset, Sif0Reg
  <2>3. sif0_due' = ToEe'
    <3>1. sif0_due' = ee_got' \o sif0_fifo'
      BY <1>0, <1>1 DEF History
    <3>2. ee_got' \o sif0_fifo' \in Seq(Addr)
      BY <1>4, ConcatProperties DEF EnvType
    <3>3. ToEe' = (ee_got' \o sif0_fifo') \o <<>>
      BY <2>1 DEF ToEe
    <3> QED BY <3>1, <3>2, <3>3, ConcatEmptySeq
  <2>4. ToEe' \in Seq(Addr)
    <3>1. ee_got' \o sif0_fifo' \in Seq(Addr)
      BY <1>4, ConcatProperties DEF EnvType
    <3> QED BY <1>0, <1>1, <2>3, <3>1 DEF History
  <2>5. Owes(ToEe', sif0_due', s0') /\ TagRead(s0')
    BY <2>2, <2>3, <2>4, OwesIdle
  <2> QED BY <2>1, <2>2, <2>5 DEF Requests, Sif0Inv, TagRead, Owes, RestLen, RestWord, Sif0Skip
<1>2. CASE ~reset_int
  <2>0. /\ Requests /\ Sif0Inv /\ Engine(w, kick, gnt, rvalid) /\ ~reset
    BY <1>2, OutOfReset
  <2>1. Requests'
    BY <2>0, RequestsKept
  <2>2. /\ s0.armed => s0W(w) = s0 /\ ~(Starts(w) /\ w.ch = 9) /\ chcrW(w)[9].start
        /\ ~(Starts(w) /\ w.ch = 9) => s0W(w) = s0
        /\ Starts(w) /\ w.ch = 9 =>
             /\ ~s0.armed /\ chcrW(w)[9].start
             /\ s0W(w).armed /\ ~s0W(w).phase /\ ~s0W(w).issued /\ s0W(w).tw = 0
             /\ s0W(w).tadr = tadr[9]
    BY <1>0, <2>0, Started0 DEF Sif0Inv
  <2>3. /\ gnt => Grantable /\ ~rvalid /\ rd_addr' = ram_addr
                  /\ port' = IF ram_rnw THEN "dmard" ELSE "dmawr"
        /\ ~gnt => rd_addr' = rd_addr
        /\ rvalid => port = "dmard" /\ ~gnt
        /\ port = "dmard" /\ ~rvalid => port' = "dmard"
    BY <1>0, <2>0, PortFacts
  <2>4. sif0_due' = IF Starts(w) /\ w.ch = 9 THEN sif0_due \o Sif0Words(tadr[9]) ELSE sif0_due
    BY <1>0, <1>2, HistoryRuns, Zenon
  <2>5. ToEe' = ToEe \o Pending' /\ (~sif0_we' => ToEe' = ToEe)
    BY <1>0, <1>4, <2>0, ToEeSteps DEF Sif0Inv
  <2>6. CASE state # "SIF0RUN"
    <3>1. /\ s0' = s0W(w) /\ chcr'[9] = chcrW(w)[9] /\ ~sif0_we'
          /\ state' = "SIF0RUN" => ~ram_req' /\ s0.armed
      BY <2>0, <1>0, <2>6, Sif0Elsewhere
    <3>2. ~s0.issued
      BY <2>0, <2>6 DEF Sif0Inv
    <3>3. CASE Starts(w) /\ w.ch = 9
      <4>1. Owes(ToEe, sif0_due \o Sif0Words(s0'.tadr), s0')
        BY <1>0, <1>4, <1>5, <2>0, <2>2, <3>1, <3>3, OwesStarts DEF Sif0Inv
      <4>2. Owes(ToEe, sif0_due, s0)' /\ TagRead(s0)'
        <5>1. sif0_due' = sif0_due \o Sif0Words(s0'.tadr) /\ ToEe' = ToEe
          BY <2>2, <2>4, <2>5, <3>1, <3>3
        <5>2. Owes(ToEe', sif0_due', s0')
          BY <4>1, <5>1
        <5>3. TagRead(s0')
          BY <2>2, <3>1, <3>3 DEF TagRead
        <5> QED BY <5>2, <5>3 DEF Owes, TagRead, RestLen, RestWord, Sif0Skip
      <4> QED BY <2>1, <2>2, <3>1, <3>3, <4>2 DEF Sif0Inv
    <3>4. CASE ~(Starts(w) /\ w.ch = 9)
      <4>1. s0' = s0 /\ sif0_due' = sif0_due /\ ToEe' = ToEe
        BY <2>2, <2>4, <2>5, <3>1, <3>4
      <4>2. Owes(ToEe, sif0_due, s0)' /\ TagRead(s0)'
        <5>1. Owes(ToEe, sif0_due, s0) /\ TagRead(s0)
          BY <2>0 DEF Sif0Inv
        <5> QED BY <4>1, <5>1, Sif0Same
      <4>3. s0.armed => chcr'[9].start
        BY <2>2, <3>1
      <4> QED BY <2>0, <2>1, <3>1, <3>2, <4>1, <4>2, <4>3 DEF Sif0Inv, Grantable
    <3> QED BY <3>3, <3>4
  <2>7. CASE state = "SIF0RUN"
    <3>0. /\ s0.armed /\ s0W(w) = s0 /\ sif0_due' = sif0_due /\ chcrW(w)[9].start
      BY <2>0, <2>2, <2>4, <2>7 DEF Sif0Inv
    <3>1. NoneCompletes(w) => chcr'[9].start
      BY <3>0 DEF NoneCompletes
    <3>2. /\ Owes(ToEe, sif0_due, s0) /\ TagRead(s0)
          /\ sif0_we => ~sif0_full
      BY <2>0 DEF Sif0Inv
    <3>3. CASE Sif0Completes(w)
      <4>1. s0.phase /\ s0.words = 0 /\ ~s0.issued /\ ~sif0_we' /\ state' = "IDLE"
        BY <3>3 DEF Sif0Completes, Sif0Over, NoPush
      <4>2. s0' = [s0 EXCEPT !.armed = FALSE, !.phase = FALSE, !.tw = 0]
        BY <3>0, <3>3 DEF Sif0Completes
      <4>3. ~s0'.armed /\ ~s0'.phase /\ ~s0'.issued /\ s0'.tw = 0
        BY <1>0, <4>1, <4>2 DEF Sif0Reg
      <4>4. ToEe = sif0_due
        BY <1>0, <1>5, <3>0, <3>2, <4>1, OwesNothing DEF RestLen
      <4>5. Owes(ToEe', sif0_due', s0') /\ TagRead(s0')
        BY <1>5, <2>5, <3>0, <4>1, <4>3, <4>4, OwesIdle
      <4> QED BY <2>1, <4>1, <4>3, <4>5 DEF Sif0Inv, Owes, TagRead, RestLen, RestWord, Sif0Skip
    <3>4. CASE Sif0Waits(w, rvalid)
      <4>1. s0' = s0 /\ s0.issued /\ ~rvalid /\ state' = state /\ ~ram_req' /\ ~sif0_we' /\ chcr'[9].start
        BY <3>0, <3>1, <3>4 DEF Sif0Waits, NoRequest, NoPush
      <4>2. /\ port = "dmard" /\ rd_addr = Sif0Next(s0) /\ ~sif0_we /\ ~sif0_full
        BY <2>0, <4>1 DEF Sif0Inv
      <4>3. port' = "dmard" /\ ~gnt /\ rd_addr' = rd_addr /\ ~sif0_full'
        BY <1>0, <2>3, <4>1, <4>2, FifoRoom DEF Grantable
      <4>4. Owes(ToEe, sif0_due, s0)' /\ TagRead(s0)' /\ Sif0Next(s0)' = Sif0Next(s0)
        BY <2>5, <3>0, <3>2, <4>1, Sif0Same
      <4> QED BY <2>1, <2>7, <3>0, <4>1, <4>2, <4>3, <4>4 DEF Sif0Inv, Grantable
    <3>5. CASE Sif0Word(w, rvalid, rd_addr)
      <4>1. s0.issued /\ rvalid /\ state' = state /\ ~ram_req' /\ chcr'[9].start
        BY <3>1, <3>5 DEF Sif0Word, NoRequest
      <4>2. rd_addr = Sif0Next(s0) /\ ~sif0_we /\ ~sif0_full
        BY <2>0, <4>1 DEF Sif0Inv
      <4>3. ~sif0_full'
        BY <1>0, <4>2, FifoRoom
      <4>4. Owes(ToEe \o Pending', sif0_due, s0') /\ TagRead(s0') /\ s0'.armed /\ ~s0'.issued
        BY <1>4, <1>5, <3>0, <3>2, <3>5, <4>2, Sif0WordSteps
      <4>5. Owes(ToEe, sif0_due, s0)' /\ TagRead(s0)'
        BY <2>5, <3>0, <4>4 DEF Owes, TagRead, RestLen, RestWord, Sif0Skip
      <4> QED BY <2>1, <4>1, <4>3, <4>4, <4>5 DEF Sif0Inv, Grantable
    <3>6. CASE Sif0Yields(w, sif0_full)
      <4>1. s0' = s0 /\ ~s0.issued /\ state' = "IDLE" /\ ~sif0_we' /\ chcr'[9].start
        BY <3>0, <3>1, <3>6 DEF Sif0Yields, NoPush
      <4>2. Owes(ToEe, sif0_due, s0)' /\ TagRead(s0)'
        BY <2>5, <3>0, <3>2, <4>1, Sif0Same
      <4> QED BY <2>1, <3>0, <4>1, <4>2 DEF Sif0Inv
    <3>7. CASE Sif0Asks(w, gnt, sif0_full)
      <4>1. /\ ~s0.issued /\ ~sif0_full /\ state' = state /\ ~sif0_we' /\ chcr'[9].start
            /\ ram_req' /\ ram_rnw' /\ ram_addr' = Sif0Next(s0)
        BY <3>1, <3>7 DEF Sif0Asks, NoPush, ReadRequest, Sif0Next
      <4>2. s0' = [s0 EXCEPT !.issued = s0.issued \/ gnt]
        BY <3>0, <3>7, Zenon DEF Sif0Asks
      <4>3. Alike(s0', s0) /\ (s0'.issued <=> gnt)
        <5>1. (s0.issued \/ gnt) \in BOOLEAN /\ ((s0.issued \/ gnt) <=> gnt)
          BY <4>1
        <5>2. ASSUME NEW b \in BOOLEAN
              PROVE  Alike([s0 EXCEPT !.issued = b], s0) /\ [s0 EXCEPT !.issued = b].issued = b
          BY <1>0 DEF Alike, Sif0Reg
        <5> QED BY <4>2, <5>1, <5>2, Zenon
      <4>4. /\ Owes(ToEe, sif0_due, s0') /\ TagRead(s0') /\ Sif0Next(s0') = Sif0Next(s0)
        BY <3>2, <4>3, OwesAlike
      <4>5. Owes(ToEe, sif0_due, s0)' /\ TagRead(s0)' /\ Sif0Next(s0)' = Sif0Next(s0)
        BY <2>5, <3>0, <4>1, <4>4 DEF Owes, TagRead, RestLen, RestWord, Sif0Skip, Sif0Next
      <4>6. s0'.armed
        BY <3>0, <4>3 DEF Alike
      <4>7. gnt => /\ port' = "dmard" /\ rd_addr' = Sif0Next(s0) /\ ~sif0_full'
        <5>1. gnt => ram_req /\ ram_rnw /\ ram_addr = Sif0Next(s0) /\ ~sif0_we
          BY <2>0, <2>3, <2>7 DEF Sif0Inv, Grantable, Requests
        <5> QED BY <1>0, <2>3, <4>1, <5>1, FifoRoom
      <4> QED BY <2>1, <2>7, <4>1, <4>3, <4>5, <4>6, <4>7 DEF Sif0Inv
    <3> QED BY <2>0, <2>7, <3>3, <3>4, <3>5, <3>6, <3>7, InSif0
  <2> QED BY <2>6, <2>7
<1> QED BY <1>1, <1>2

LEMMA Sif0Stutter ==
  (~reset_int => Requests /\ Sif0Inv) /\ UNCHANGED vars => (~reset_int => Requests /\ Sif0Inv)'
<1> SUFFICES ASSUME ~reset_int, Requests, Sif0Inv, UNCHANGED vars
             PROVE  Requests' /\ Sif0Inv'
  BY DEF vars, envVars
<1>1. /\ UNCHANGED <<state, s0, chcr, ram_req, ram_rnw, ram_addr, sif0_we, sif0_data>>
      /\ UNCHANGED <<port, rd_addr, sif0_fifo, ee_got, sif0_due>>
  BY DEF vars, dmaVars, envVars, historyVars, regVars, ramPortVars, sif0OutVars
<1>2. ToEe' = ToEe /\ Owes(ToEe, sif0_due, s0) /\ TagRead(s0)
  BY <1>1 DEF ToEe, Sif0Inv
<1>3. Owes(ToEe, sif0_due, s0)' /\ TagRead(s0)' /\ Sif0Next(s0)' = Sif0Next(s0)
  BY <1>1, <1>2, Sif0Same
<1> QED BY <1>1, <1>3 DEF Sif0Inv, Requests, Grantable, sif0_full

Sif0Kind == ~reset_int => Requests /\ Sif0Inv

LEMMA Sif0Holds == Spec => []Sif0Kind
<1>1. Init => Sif0Kind
  BY DEF Init, Sif0Kind
<1>2. TypeOK /\ Sif0Kind /\ [Next]_vars => Sif0Kind'
  BY Sif0Kept, Sif0Stutter, NextCycle DEF Sif0Kind
<1> QED BY <1>1, <1>2, TypesKept, PTL DEF Spec

\* A SIF0 transfer ends in one action.
LEMMA Sif0Ending ==
  ASSUME TypeOK, Requests, Sif0Inv, NEW w \in BusWrites, NEW kick \in Kicks, NEW gnt \in BOOLEAN,
         NEW rvalid \in BOOLEAN, NEW drain \in BOOLEAN, Cycle(w, kick, gnt, rvalid, drain),
         ~reset_int, s0.armed, ~s0'.armed
  PROVE  ee_got' \o sif0_fifo' = sif0_due /\ tadr'[9] = (s0.tadr + 4) % AddrSpace
<1>0. /\ RegType /\ EngineType /\ WireType /\ EnvType /\ Sif0Fifo(drain) /\ WellFormed(w)
      /\ Engine(w, kick, gnt, rvalid) /\ s0 \in Sif0Reg /\ sif0_due \in Seq(Addr) /\ 9 \in Channels
      /\ scenario \in Scenarios
  BY DriverWrites, Sizes DEF TypeOK, EngineType, HistoryType, EnvType, Cycle, Surroundings, Controller, Engine
<1>1. s0W(w) = s0
  BY <1>0, Started0 DEF Sif0Inv
<1>2. state = "SIF0RUN"
  BY <1>0, <1>1, Sif0Elsewhere
<1>3. Sif0Completes(w)
  <2>1. Sif0Waits(w, rvalid) \/ Sif0Yields(w, sif0_full) => s0'.armed
    BY <1>1 DEF Sif0Waits, Sif0Yields
  <2>2. Sif0Asks(w, gnt, sif0_full) => s0'.armed
    <3>1. ASSUME NEW b PROVE [s0 EXCEPT !.issued = b].armed = s0.armed
      BY <1>0 DEF Sif0Reg
    <3>2. Sif0Asks(w, gnt, sif0_full) => s0' = [s0 EXCEPT !.issued = s0.issued \/ gnt]
      BY <1>1, Zenon DEF Sif0Asks
    <3> QED BY <3>1, <3>2
  <2>3. Sif0Word(w, rvalid, rd_addr) => s0'.armed
    <3> SUFFICES ASSUME Sif0Word(w, rvalid, rd_addr) PROVE s0'.armed
      OBVIOUS
    <3>1. s0.issued
      BY DEF Sif0Word
    <3>2. /\ rd_addr = Sif0Next(s0) /\ Owes(ToEe, sif0_due, s0) /\ TagRead(s0)
      BY <3>1 DEF Sif0Inv
    <3>3. ToEe \in Seq(Addr) /\ s0' \in Sif0Reg
      BY <1>0, ToEeType, CycleType DEF TypeOK, EngineType
    <3> QED BY <1>1, <3>2, <3>3, Sif0WordSteps
  <2> QED BY <1>0, <1>2, <2>1, <2>2, <2>3, InSif0
<1>4. ToEe = sif0_due
  <2>1. RestLen(s0) = 0
    BY <1>3 DEF Sif0Completes, Sif0Over, RestLen
  <2> QED BY <1>0, <2>1, ToEeType, OwesNothing DEF Sif0Inv
<1>5. ee_got' \o sif0_fifo' = ToEe
  BY <1>0, FifoTakes DEF Sif0Inv
<1>6. tadr'[9] = (s0.tadr + 4) % AddrSpace
  <2>1. tadrW(w) \in [Channels -> Addr]
    BY <1>0, RegisterTypes
  <2> QED BY <1>0, <1>3, <2>1 DEF Sif0Completes
<1> QED BY <1>4, <1>5, <1>6

\* A SIF0 transfer ends with all its words in the FIFO or with the EE, and TADR at the
\* tag after its own, though reads were granted late and it gave the engine away.
THEOREM Sif0Completed == Spec => Sif0Complete
<1>1. TypeOK /\ Sif0Kind /\ [Next]_vars =>
        [~reset_int /\ s0.armed /\ ~s0'.armed =>
           /\ ee_got' \o sif0_fifo' = sif0_due
           /\ tadr'[9] = (s0.tadr + 4) % AddrSpace]_vars
  BY Sif0Ending, NextCycle DEF Sif0Kind
<1> QED BY <1>1, TypesKept, Sif0Holds, PTL DEF Spec, Sif0Complete

-----------------------------------------------------------------------------
(* Both directions. *)

Begins(q, due) == Len(q) <= Len(due) /\ \A i \in 1..Len(q) : q[i] = due[i]

LEMMA BeginsPrefix ==
  ASSUME NEW q \in Seq(Addr), NEW due \in Seq(Addr), Begins(q, due)
  PROVE  IsPrefix(q, due)
<1>1. Len(q) \in Nat /\ Len(due) \in Nat
  BY LenProperties
<1>2. \A i \in 1..Len(q) : q[i] \in Addr /\ due[i] \in Addr
  BY <1>1, ElementOfSeq DEF Begins
<1>3. /\ SubSeq(q, 1, Len(q)) \in Seq(Addr) /\ Len(SubSeq(q, 1, Len(q))) = Len(q)
      /\ \A i \in 1..Len(q) : SubSeq(q, 1, Len(q))[i] = q[i]
  BY <1>1, <1>2, SubSeqProperties
<1>4. /\ SubSeq(due, 1, Len(q)) \in Seq(Addr) /\ Len(SubSeq(due, 1, Len(q))) = Len(q)
      /\ \A i \in 1..Len(q) : SubSeq(due, 1, Len(q))[i] = due[i]
  BY <1>1, <1>2, SubSeqProperties
<1>5. SubSeq(q, 1, Len(q)) = SubSeq(due, 1, Len(q))
  BY <1>3, <1>4, SeqEqual DEF Begins
<1> QED BY <1>5 DEF Begins, IsPrefix

LEMMA BeginsKept ==
  ASSUME TypeOK, Sif0Kind, NEW w \in BusWrites, NEW kick \in Kicks, NEW gnt \in BOOLEAN,
         NEW rvalid \in BOOLEAN, NEW drain \in BOOLEAN, Cycle(w, kick, gnt, rvalid, drain)
  PROVE  Begins(ee_got \o sif0_fifo, sif0_due)'
<1>0. /\ WireType /\ EnvType /\ Sif0Fifo(drain) /\ History(w, kick, gnt) /\ WellFormed(w)
      /\ sif0_due \in Seq(Addr) /\ RegType /\ s0 \in Sif0Reg /\ 9 \in Channels /\ EnvType'
  BY DriverWrites, CycleType, Sizes
  DEF TypeOK, EngineType, HistoryType, EnvType, Cycle, Surroundings
<1>1. CASE reset_int
  <2>1. sif0_due' = ee_got' \o sif0_fifo'
    BY <1>0, <1>1 DEF History
  <2>2. Len(ee_got' \o sif0_fifo') \in Nat
    BY <1>0, ConcatProperties, LenProperties DEF EnvType
  <2> QED BY <2>1, <2>2 DEF Begins
<1>2. CASE ~reset_int
  <2>1. ee_got' \o sif0_fifo' = ToEe /\ Owes(ToEe, sif0_due, s0) /\ ToEe \in Seq(Addr)
    BY <1>0, <1>2, FifoTakes, ToEeType DEF Sif0Kind, Sif0Inv
  <2>2. Begins(ToEe, sif0_due)
    <3>1. RestLen(s0) \in Nat /\ Len(ToEe) \in Nat
      BY <1>0, <2>1, RestNat, LenProperties
    <3> QED BY <2>1, <3>1 DEF Begins, Owes
  <2>3. CASE sif0_due' = sif0_due
    BY <2>1, <2>2, <2>3 DEF Begins
  <2>4. CASE sif0_due' = sif0_due \o Sif0Words(tadr[9])
    <3> DEFINE v == Sif0Words(tadr[9])
    <3>1. v \in Seq(Addr)
      BY <1>0, Sif0WordAt DEF RegType
    <3> HIDE DEF v
    <3>2. /\ Len(sif0_due \o v) = Len(sif0_due) + Len(v)
          /\ \A i \in 1..Len(sif0_due) + Len(v) :
               (sif0_due \o v)[i] = IF i <= Len(sif0_due) THEN sif0_due[i] ELSE v[i - Len(sif0_due)]
      BY <1>0, <3>1, ConcatProperties, Zenon
    <3>3. Len(v) \in Nat /\ Len(sif0_due) \in Nat /\ Len(ToEe) \in Nat
      BY <1>0, <2>1, <3>1, LenProperties
    <3>4. Begins(ToEe, sif0_due \o v)
      BY <2>2, <3>2, <3>3 DEF Begins
    <3> QED BY <2>1, <2>4, <3>4 DEF Begins, v
  <2> QED BY <1>0, <1>2, <2>3, <2>4, HistoryRuns
<1> QED BY <1>1, <1>2

\* SIF1 writes every word of data it takes from the stream to RAM, once, in order and
\* where its frame says; the EE gets the words of the SIF0 transfers started, in
\* order, none lost and none twice: if no scenario lets both the driver and the host
\* start channel 10, for a second start would cut a frame in two.
THEOREM WordsDelivered ==
  ASSUME KickApart
  PROVE  Spec => []SifDelivered
<1> DEFINE Sif1Kind == ~reset_int => Sif1Inv
           Begun == Begins(ee_got \o sif0_fifo, sif0_due)
<1>1. Init => Sif1Kind /\ Begun
  <2>1. Init => Begun
    <3>1. <<>> \o <<>> = <<>> /\ Len(<<>>) = 0
      OBVIOUS
    <3> QED BY <3>1 DEF Init, Begins
  <2> QED BY <2>1 DEF Init
<1>2. TypeOK /\ Sif1Kind /\ [Next]_vars => Sif1Kind'
  BY KickApart, Sif1Kept, Sif1Stutter, NextCycle
<1>3. TypeOK /\ Sif0Kind /\ Begun /\ [Next]_vars => Begun'
  <2>1. Begun /\ UNCHANGED vars => Begun'
    BY DEF vars, envVars, historyVars, Begins
  <2> QED BY <2>1, BeginsKept, NextCycle
<1>4. TypeOK /\ Sif1Kind /\ Begun => SifDelivered
  <2>1. TypeOK /\ Begun => IsPrefix(ee_got \o sif0_fifo, sif0_due)
    BY BeginsPrefix, ConcatProperties DEF TypeOK, EnvType, HistoryType
  <2>2. Sif1Kind => (~reset_int => sif1_log = frame.log)
    BY DEF Sif1Inv
  <2> QED BY <2>1, <2>2 DEF SifDelivered
<1> QED BY <1>1, <1>2, <1>3, <1>4, TypesKept, Sif0Holds, PTL DEF Spec
=============================================================================
