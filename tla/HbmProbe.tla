------------------------------- MODULE HbmProbe -------------------------------
(***************************************************************************)
(* HBMProbe (src/boards/hbm_common.py), one beat of HBM at a time on CSRs, *)
(* and the host that fills and checks memory through it: the loader of the *)
(* EE (src/tools/ee/eerun.py), hbm_stage.py and hbm_test.py, which make    *)
(* the same accesses.  A beat is two lanes here.  The engine is in the     *)
(* clock of AXI; a pulse starts it and a pulse ends it, and the address,   *)
(* the lanes and the answer cross through two flip-flops of their own.     *)
(* HBM itself is external: a memory that takes each handshake at once or   *)
(* after some edges, and answers okay, or an error having done nothing.    *)
(***************************************************************************)
EXTENDS Crossing

CONSTANTS Beats,      \* how many beats the loader writes and reads back
          Lead, Slow, \* edges between two of sys; edges HBM may make it wait
          None

HbmProbeAssumption == Beats \in Nat /\ Lead \in Nat /\ Slow \in Nat

VARIABLES sys, core, host, clk
vars == <<sys, core, host, clk>>

SysOut == [addr |-> sys.addr, w |-> sys.w, wr |-> sys.wr, rd |-> sys.rd]
CoreOut == [fin |-> core.fin, rbuf |-> core.rbuf, resp |-> core.resp]

Blank == <<0, 0>>

Init ==
    /\ sys  = [addr |-> 0, w |-> Blank, lane |-> 0, wr |-> FALSE, rd |-> FALSE,
               fin |-> Chain(FALSE), rbuf |-> Flops(Blank), resp |-> Flops("okay"),
               done |-> FALSE, rlane |-> 0]
    /\ core = [st |-> "IDLE", wr |-> Chain(FALSE), rd |-> Chain(FALSE),
               addr |-> Flops(0), w |-> Flops(Blank), rbuf |-> Blank,
               resp |-> "okay", fin |-> FALSE, wait |-> 0,
               mem |-> [a \in 0 .. Beats - 1 |-> Blank], held |-> 0,
               answer |-> "okay"]
    /\ host = [pc |-> "beat", n |-> 0, read |-> FALSE, lane |-> 0,
               call |-> None, told |-> None, got |-> Blank]
    /\ clk  = [sys |-> SysOut, core |-> CoreOut, ahead |-> 0, fresh |-> FALSE]

-----------------------------------------------------------------------------
\* The engine: AW, W and B of a write, AR and R of a read, then FIN.  A state
\* that waits for a handshake moves when HBM takes it.
Engine(c, k, resp) ==
    LET go(st) == [c EXCEPT !.st = st, !.wait = k] IN
    IF c.wait > 0 THEN [c EXCEPT !.wait = @ - 1]
    ELSE CASE c.st = "IDLE" -> (IF Pulse(c.wr) THEN go("AW")
                                ELSE IF Pulse(c.rd) THEN go("AR") ELSE c)
           [] c.st = "AW"  -> [go("W") EXCEPT !.held = Out(c.addr)]
           [] c.st = "W"   -> [go("B") EXCEPT
                                 !.mem[c.held] = IF resp = "okay" THEN Out(c.w) ELSE @,
                                 !.answer = resp]
           [] c.st = "B"   -> [c EXCEPT !.st = "FIN", !.resp = c.answer]
           [] c.st = "AR"  -> [go("R") EXCEPT !.held = Out(c.addr)]
           [] c.st = "R"   -> [c EXCEPT !.st = "FIN", !.resp = resp,
                                        !.rbuf = IF resp = "okay" THEN c.mem[c.held] ELSE Blank]
           [] c.st = "FIN" -> [c EXCEPT !.st = "IDLE", !.fin = ~@]

Latched(c, addr, w, wr, rd) ==
    [c EXCEPT !.addr = Clocked(@, addr), !.w = Clocked(@, w),
              !.wr = ClockedChain(@, wr), !.rd = ClockedChain(@, rd)]

CoreEdge ==
    /\ clk.ahead < Lead
    /\ \E addr \in Caught(clk.sys.addr, sys.addr), w \in Words(clk.sys.w, sys.w),
          wr \in Caught(clk.sys.wr, sys.wr), rd \in Caught(clk.sys.rd, sys.rd),
          k \in 0 .. Slow, resp \in {"okay", "error"} :
         /\ (core.wait > 0 \/ core.st \in {"B", "R", "FIN"}
             \/ (core.st = "IDLE" /\ ~Pulse(core.wr) /\ ~Pulse(core.rd))) => k = 0
         /\ (core.wait > 0 \/ core.st \notin {"W", "R"}) => resp = "okay"
         /\ core' = Latched(Engine(core, k, resp), addr, w, wr, rd)
    /\ clk' = [sys |-> SysOut, core |-> CoreOut, ahead |-> clk.ahead + 1, fresh |-> TRUE]
    /\ UNCHANGED <<sys, host>>

-----------------------------------------------------------------------------
Settled(s, c) ==
    [s EXCEPT !.fin = ClockedChain(@, c.fin), !.rbuf = Clocked(@, c.rbuf),
              !.resp = Clocked(@, c.resp), !.done = @ \/ Pulse(s.fin)]

Goto(pc) == [host EXCEPT !.pc = pc]

\* A strobe of ctrl: it starts a beat and clears done, unless one ends now.
Start(s) == [s EXCEPT !.done = Pulse(sys.fin)]

\* hbm_beat and hbm_read: the address, the lanes of a write behind a cleared
\* pointer, the strobe; then done, and the lanes of a read.
Access(s) ==
    \/ /\ host.pc = "beat" /\ host.n < Beats
       /\ sys' = [s EXCEPT !.addr = host.n]
       /\ host' = Goto(IF host.read THEN "read" ELSE "clear")
    \/ /\ host.pc = "clear"
       /\ sys' = [s EXCEPT !.lane = 0] /\ host' = [Goto("lane") EXCEPT !.lane = 0]
    \/ /\ host.pc = "lane" /\ host.lane < 2
       /\ sys' = [s EXCEPT !.w[s.lane + 1] = host.n + 1, !.lane = (@ + 1) % 2]
       /\ host' = [host EXCEPT !.lane = @ + 1]
    \/ /\ host.pc = "lane" /\ host.lane = 2
       /\ sys' = [Start(s) EXCEPT !.wr = ~@]
       /\ host' = [Goto("wait") EXCEPT !.call =
                     [op |-> "write", addr |-> <<"beat", host.n>>, data |-> <<host.n + 1, host.n + 1>>]]
    \/ /\ host.pc = "read"
       /\ sys' = [Start(s) EXCEPT !.rd = ~@]
       /\ host' = [Goto("wait") EXCEPT !.call = [op |-> "read", addr |-> <<"beat", host.n>>, data |-> <<>>]]
    \/ /\ host.pc = "wait" /\ sys.done
       /\ sys' = s
       /\ host' = IF Out(sys.resp) # "okay" THEN Goto("fail")
                  ELSE IF host.read THEN [Goto("rlane") EXCEPT !.lane = 0]
                  ELSE [Goto("beat") EXCEPT !.n = @ + 1, !.call = None, !.told = <<>>]
    \/ /\ host.pc = "rlane"
       /\ sys' = [s EXCEPT !.rlane = host.lane] /\ host' = Goto("rdata")
    \/ /\ host.pc = "rdata"
       /\ sys' = s
       /\ LET got == [host.got EXCEPT ![sys.rlane + 1] = Out(sys.rbuf)[sys.rlane + 1]]
          IN  host' = IF host.lane = 0 THEN [Goto("rlane") EXCEPT !.lane = 1, !.got = got]
                      ELSE [Goto("beat") EXCEPT !.n = @ + 1, !.call = None,
                                                !.told = got, !.got = got]
    \* load_hbm: every beat is written, then every beat is read back
    \/ /\ host.pc = "beat" /\ host.n = Beats /\ ~host.read
       /\ sys' = s /\ host' = [host EXCEPT !.n = 0, !.read = TRUE]

Tick(fresh) == clk' = [sys |-> SysOut, core |-> CoreOut, ahead |-> 0, fresh |-> fresh]

SysEdge ==
    /\ \E fin \in Caught(clk.core.fin, core.fin), resp \in Caught(clk.core.resp, core.resp),
          rbuf \in Words(clk.core.rbuf, core.rbuf) :
         LET c == [fin |-> fin, resp |-> resp, rbuf |-> rbuf]
         IN  \/ clk.fresh /\ Access(Settled(sys, c)) /\ Tick(FALSE)
             \/ sys' = Settled(sys, c) /\ UNCHANGED host /\ Tick(clk.fresh)
    /\ UNCHANGED core

Next == SysEdge \/ CoreEdge

-----------------------------------------------------------------------------
\* A write is performed at its W handshake, a read at its R handshake.
Strobed == (sys.wr # core.wr[3]) \/ (sys.rd # core.rd[3])

Busy == Strobed \/ core.st \in {"AW", "W", "AR", "R"}
Failed == core.answer # "okay" \/ core.resp # "okay"
reply == IF host.call = None \/ Busy \/ Failed THEN None
         ELSE IF host.call.op = "write" THEN <<>> ELSE core.rbuf
memory == [a \in {<<"beat", n>> : n \in 0 .. Beats - 1} |-> core.mem[a[2]]]
=============================================================================
