------------------------------- MODULE BoardEe --------------------------------
(***************************************************************************)
(* EEBringup (src/boards/c1100_ee.py), the R5900 and its on-chip memory on *)
(* CSRs, and the tool that drives it (src/tools/ee/eerun.py): the memory   *)
(* is loaded, and read, through a one-access port while the core is held   *)
(* in reset; the core is let go, runs until it parks, and its registers    *)
(* are read through the snapshot.  A line of memory, the status and a      *)
(* register are two words each.                                            *)
(*                                                                         *)
(* ee_bringup (src/rtl/ee/ee_bringup.vhd) is external: its memory belongs  *)
(* to the host while the core is in reset and is a registered read; the    *)
(* core retires up to Park instructions, and register n holds <<n, r>>     *)
(* once r of them have retired.                                            *)
(***************************************************************************)
EXTENDS Crossing

CONSTANTS Lines, Accesses,  \* lines of memory; accesses of the host to them
          Regs,             \* registers read
          Park, Period, Lead, None

\* The core parks before the first sleep is over.
BoardEeAssumption ==
    /\ Lines \subseteq Nat /\ 0 \in Lines /\ Accesses \in Nat /\ Regs \in Nat
    /\ SnapshotFits(Period, Lead) /\ Park \in Nat /\ Park <= Period

VARIABLES sys, core, host, clk
vars == <<sys, core, host, clk>>

SysOut == [reset |-> sys.reset, req |-> sys.req, we |-> sys.we,
           addr |-> sys.addr, w |-> sys.w, sel |-> sys.sel]
CoreOut == [ack |-> core.ack, hold |-> core.h_hold, tog |-> core.tog, snap |-> core.snap]

Line(i) == <<i, i>>

Init ==
    /\ sys  = [reset |-> TRUE, addr |-> 0, we |-> FALSE, w |-> Line(0),
               req |-> FALSE, ack |-> Flops(FALSE), sel |-> 0, tog |-> Flops(FALSE),
               tog_d |-> FALSE, hold |-> <<<<0, 0>>, 0>>]
    /\ core = [rst |-> Flops(TRUE), req |-> Flops(FALSE), ack |-> FALSE,
               pend |-> FALSE, h_we |-> FALSE, h_hold |-> Line(0),
               rdata |-> Line(0), mem |-> [a \in Lines |-> Line(0)],
               sel |-> Flops(0), cnt |-> 0, tog |-> FALSE,
               snap |-> <<<<0, 0>>, 0>>, retires |-> 0]
    /\ host = [pc |-> "reset", n |-> 0, call |-> None, told |-> None,
               got |-> Line(0), reg |-> 0, regs |-> <<>>, slept |-> 0]
    /\ clk  = [sys |-> SysOut, core |-> CoreOut, ahead |-> 0, fresh |-> FALSE]

-----------------------------------------------------------------------------
\* The status the snapshot is of: the selected register and the retire count.
Status == <<<<Out(core.sel), core.retires>>, core.retires>>

\* A sleep of the host outlasts two snapshots and their crossing.
Slept == (2 * Period) + (6 * Lead)

\* A mutant: the request is acknowledged as it is taken.
MemoryPort_early(c, we) ==
    IF Out(c.req) # c.ack THEN [c EXCEPT !.h_we = we, !.h_hold = c.rdata, !.ack = Out(c.req)]
    ELSE [c EXCEPT !.h_we = FALSE]
\* The request, one access: the memory is asked, and a cycle later its answer
\* is held and acknowledged.
MemoryPort(c, we) ==
    LET req == Out(c.req) IN
    CASE req # c.ack /\ ~c.pend -> [c EXCEPT !.h_we = we, !.pend = TRUE]
      [] c.pend                 -> [c EXCEPT !.h_we = FALSE, !.h_hold = c.rdata,
                                             !.pend = FALSE, !.ack = req]
      [] OTHER                  -> [c EXCEPT !.h_we = FALSE]

\* ee_bringup: port B is the host's in reset; out of it the core runs.
Bringup(c, p, addr, w) ==
    IF Out(c.rst)
    THEN [p EXCEPT !.rdata = c.mem[addr], !.retires = 0,
                   !.mem[addr] = IF c.h_we THEN w ELSE @]
    ELSE [p EXCEPT !.retires = IF @ < Park THEN @ + 1 ELSE @]

CoreEdge ==
    /\ clk.ahead < Lead
    /\ \E reset \in Caught(clk.sys.reset, sys.reset), req \in Caught(clk.sys.req, sys.req),
          we \in Caught(clk.sys.we, sys.we), addr \in Caught(clk.sys.addr, sys.addr),
          w \in Words(clk.sys.w, sys.w), sel \in Caught(clk.sys.sel, sys.sel) :
         LET snap == Snap(core, Status, Period)
         IN  core' = [Bringup(core, MemoryPort(core, we), addr, w)
                      EXCEPT !.rst = Clocked(@, reset), !.req = Clocked(@, req),
                             !.sel = Clocked(@, sel),
                             !.cnt = snap.cnt, !.snap = snap.snap, !.tog = snap.tog]
    /\ clk' = [sys |-> SysOut, core |-> CoreOut, ahead |-> clk.ahead + 1, fresh |-> TRUE]
    /\ host' = [host EXCEPT !.slept = IF @ < Slept /\ host.pc \in {"sleep", "settle"}
                                      THEN @ + 1 ELSE @]
    /\ UNCHANGED sys

-----------------------------------------------------------------------------
\* A mutant: the busy bit the other way round.
mem_busy_inverted == sys.req = Out(sys.ack)
mem_busy == sys.req # Out(sys.ack)

Settled(s, c) ==
    [s EXCEPT !.ack = Clocked(@, c.ack), !.tog = Clocked(@, c.tog),
              !.tog_d = Out(s.tog), !.hold = Held(s, c.snap)]

Goto(pc) == [host EXCEPT !.pc = pc]

\* mem_access: the address, the direction and the data, then busy, the
\* access, busy again, and the words of the answer.
MemAccess(s, c) ==
    \/ /\ host.pc = "access" /\ host.n < Accesses
       /\ \E a \in Lines : sys' = [s EXCEPT !.addr = a]
       /\ host' = Goto("we")
    \/ /\ host.pc = "we"
       /\ \E we \in BOOLEAN : /\ sys' = [s EXCEPT !.we = we]
                              /\ host' = Goto(IF we THEN "w0" ELSE "busy")
    \/ /\ host.pc = "w0"
       /\ sys' = [s EXCEPT !.w[1] = host.n + 1] /\ host' = Goto("w1")
    \/ /\ host.pc = "w1"
       /\ sys' = [s EXCEPT !.w[2] = host.n + 1] /\ host' = Goto("busy")
    \/ /\ host.pc = "busy" /\ ~mem_busy
       /\ sys' = s /\ host' = Goto("go")
    \/ /\ host.pc = "go"
       /\ sys' = [s EXCEPT !.req = IF mem_busy THEN @ ELSE ~@]
       /\ host' = [Goto("wait") EXCEPT !.call =
                     [op |-> IF s.we THEN "write" ELSE "read", addr |-> <<"line", s.addr>>,
                      data |-> IF s.we THEN Line(host.n + 1) ELSE <<>>]]
    \/ /\ host.pc = "wait" /\ ~mem_busy
       /\ sys' = s /\ host' = Goto("r0")
    \/ /\ host.pc = "r0"
       /\ sys' = s /\ host' = [Goto("r1") EXCEPT !.got[1] = c.hold[1]]
    \/ /\ host.pc = "r1"
       /\ sys' = s
       /\ host' = [Goto("access") EXCEPT
                     !.n = @ + 1, !.got[2] = c.hold[2], !.call = None,
                     !.told = IF host.call.op = "write" THEN <<>>
                              ELSE <<host.got[1], c.hold[2]>>]

\* main: reset, the accesses, the run, the retire count and the registers.
Main(s, c) ==
    \/ /\ host.pc = "reset"
       /\ sys' = [s EXCEPT !.reset = TRUE] /\ host' = Goto("access")
    \/ /\ host.pc = "access" /\ host.n = Accesses
       /\ sys' = [s EXCEPT !.reset = FALSE] /\ host' = [Goto("sleep") EXCEPT !.slept = 0]
    \/ /\ host.pc = "sleep" /\ host.slept = Slept
       /\ sys' = s /\ host' = Goto("sel")
    \/ /\ host.pc = "sel" /\ host.reg < Regs
       /\ sys' = [s EXCEPT !.sel = host.reg + 1]
       /\ host' = [Goto("settle") EXCEPT !.slept = 0]
    \/ /\ host.pc = "settle" /\ host.slept = Slept
       /\ sys' = s /\ host' = [Goto("g1") EXCEPT !.got[1] = s.hold[1][1]]
    \/ /\ host.pc = "g1"
       /\ sys' = s /\ host' = [Goto("sel") EXCEPT
                                 !.reg = @ + 1, !.regs = Append(@, <<host.got[1], s.hold[1][2]>>)]
    \/ /\ host.pc = "sel" /\ host.reg = Regs
       /\ sys' = [s EXCEPT !.reset = TRUE] /\ host' = Goto("end")

Tick(fresh) == clk' = [sys |-> SysOut, core |-> CoreOut, ahead |-> 0, fresh |-> fresh]

SysEdge ==
    /\ \E ack \in Caught(clk.core.ack, core.ack), tog \in Caught(clk.core.tog, core.tog),
          hold \in Words(clk.core.hold, core.h_hold), snap \in Words(clk.core.snap, core.snap) :
         LET c == [ack |-> ack, tog |-> tog, hold |-> hold, snap |-> snap]
         IN  \/ clk.fresh /\ (MemAccess(Settled(sys, c), c) \/ Main(Settled(sys, c), c)) /\ Tick(FALSE)
             \/ sys' = Settled(sys, c) /\ UNCHANGED host /\ Tick(clk.fresh)
    /\ UNCHANGED core

Next == SysEdge \/ CoreEdge

-----------------------------------------------------------------------------
reply == IF host.call = None \/ core.ack # sys.req THEN None
         ELSE IF host.call.op = "write" THEN <<>> ELSE core.h_hold
memory == [a \in {<<"line", n>> : n \in Lines} |-> core.mem[a[2]]]
=============================================================================
