------------------------------- MODULE BoardGs --------------------------------
(***************************************************************************)
(* GSBringup (src/boards/c1100_gs.py), gs_top on CSRs, and the tools that  *)
(* drive it (src/tools/gs/gsrun.py and gsgrab.py): a reset, a stream of    *)
(* quadwords, a wait for the GS to be idle, the pixel count, and words of  *)
(* local memory.  A quadword, a word of memory and the status are two      *)
(* words each, which cross or are read one at a time.                      *)
(*                                                                         *)
(* gs_top is external: it takes a quadword when its ready line is high,    *)
(* may then draw for up to Work edges, and answers a read of the host two  *)
(* edges after it, unless the rasteriser or the display wants the memory   *)
(* on the same edge (src/rtl/gs/gs_top.vhd): then the read is dropped.     *)
(***************************************************************************)
EXTENDS Crossing

CONSTANTS Quads, Reads,     \* how many quadwords are pushed and words read
          Work, Period,     \* the longest drawing; the edges of a snapshot
          Lead,             \* core edges between two edges of sys, at most
          Display,          \* whether the display is enabled
          None

BoardGsAssumption == Quads \in Nat /\ Reads \in Nat /\ Work \in Nat /\ SnapshotFits(Period, Lead)

VARIABLES sys,    \* the registers of the sys clock
          core,   \* the registers of the gs clock, and gs_top
          host,   \* the program that drives the board
          clk     \* what the clocks drove before their last edge

vars == <<sys, core, host, clk>>

\* What each clock drives into the other.
SysOut == [reset |-> sys.reset, w |-> sys.w, req |-> sys.req,
           addr |-> sys.addr, rreq |-> sys.rreq]
CoreOut == [ready |-> ~Out(core.rst) /\ core.work = 0, ack |-> core.ack,
            rack |-> core.rack, rhold |-> core.rhold, tog |-> core.tog,
            snap |-> core.snap]

Init ==
    /\ sys  = [reset |-> TRUE, w |-> <<0, 0>>, req |-> FALSE, ack |-> Flops(FALSE),
               ready |-> Flops(FALSE), addr |-> 0, rreq |-> FALSE,
               rack |-> Flops(FALSE), rd_done |-> FALSE, tog |-> Flops(FALSE),
               tog_d |-> FALSE, hold |-> <<0, 0>>]
    /\ core = [rst |-> Flops(TRUE), req |-> Flops(FALSE), ack |-> FALSE,
               rreq |-> Flops(FALSE), rack |-> FALSE, rd_en |-> FALSE,
               pend |-> FALSE, rhold |-> <<0, 0>>, own |-> <<None, None>>,
               cnt |-> 0, snap |-> <<0, 0>>, tog |-> FALSE,
               gif |-> <<>>, work |-> 0, drawn |-> 0]
    /\ host = [pc |-> "reset", sent |-> 0, reads |-> 0, call |-> None,
               got |-> <<0, 0>>, pixels |-> 0, told |-> None]
    /\ clk  = [sys |-> SysOut, core |-> CoreOut, ahead |-> 0, fresh |-> FALSE]

-----------------------------------------------------------------------------
(* One edge of the gs clock *)

\* gs_top at this edge: the quadword q it takes, if it does, and the edges k
\* it draws for; drawn counts what local memory has of the drawing.
Rasterise(c, take, q, k) ==
    LET idle == [c EXCEPT !.work = IF Out(c.rst) THEN 0 ELSE @] IN
    IF take THEN [idle EXCEPT !.gif = Append(@, q), !.work = k]
    ELSE IF idle.work = 0 THEN idle
    ELSE [idle EXCEPT !.work = @ - 1, !.drawn = IF idle.work = 1 THEN @ + 1 ELSE @]

\* The read port: a request is one cycle of h_rd_en, and the answer is that
\* of the read the memory did for the host two edges before.
ReadPort(c, rreq, addr, granted) ==
    LET asked == rreq # c.rack /\ ~c.pend
        valid == c.own[2] # None /\ ~Out(c.rst)
    IN  [c EXCEPT
          !.rd_en = asked,
          !.pend  = (@ \/ asked) /\ ~(c.pend /\ valid),
          !.rhold = IF c.pend /\ valid THEN c.own[2] ELSE @,
          !.rack  = IF c.pend /\ valid THEN rreq ELSE @,
          !.own   = IF Out(c.rst) THEN <<None, None>>
                    ELSE <<IF c.rd_en /\ granted THEN <<addr, c.drawn>> ELSE None, @[1]>>]

\* Whether the memory may go to the rasteriser or the display instead.
Grants == IF core.work > 0 \/ Display THEN BOOLEAN ELSE {TRUE}

CoreEdge ==
    /\ clk.ahead < Lead
    /\ \E reset \in Caught(clk.sys.reset, sys.reset), req \in Caught(clk.sys.req, sys.req),
          rreq \in Caught(clk.sys.rreq, sys.rreq), w \in Words(clk.sys.w, sys.w),
          addr \in Caught(clk.sys.addr, sys.addr), k \in 0 .. Work, granted \in Grants :
         LET take == Out(core.req) # core.ack /\ CoreOut.ready
             snap == Snap(core, <<core.drawn, core.drawn>>, Period)
         IN  /\ ~take => k = 0
             /\ core' = [Rasterise(ReadPort(core, Out(core.rreq), addr, granted), take, w, k)
                         EXCEPT !.rst  = Clocked(@, reset),
                                !.req  = Clocked(@, req),
                                !.rreq = Clocked(@, rreq),
                                !.ack  = IF take THEN Out(core.req) ELSE @,
                                !.cnt  = snap.cnt, !.snap = snap.snap, !.tog = snap.tog]
    /\ clk' = [sys |-> SysOut, core |-> CoreOut, ahead |-> clk.ahead + 1, fresh |-> TRUE]
    /\ UNCHANGED <<sys, host>>

-----------------------------------------------------------------------------
(* One edge of the sys clock, with at most one access of the host *)

busy == sys.req # Out(sys.ack)

\* The registers after an edge on which the host does nothing.
Settled(s, c) ==
    [s EXCEPT !.ack = Clocked(@, c.ack), !.ready = Clocked(@, c.ready),
              !.rack = Clocked(@, c.rack), !.tog = Clocked(@, c.tog),
              !.tog_d = Out(s.tog), !.hold = Held(s, c.snap),
              !.rd_done = @ \/ s.rreq = Out(s.rack)]

Quad(n) == <<n, n>>

\* The addresses HostPort knows the GIF and the words of local memory by.
Gif == <<"gif", 0>>
Word(n) == <<"word", n>>

\* One access of the host, on an edge that leaves the other registers s.
Access(s, c) ==
    CASE host.pc = "reset" ->
           /\ sys' = [s EXCEPT !.reset = TRUE]
           /\ host' = [host EXCEPT !.pc = "start"]
      [] host.pc = "start" ->
           /\ sys' = [s EXCEPT !.reset = FALSE]
           /\ host' = [host EXCEPT !.pc = "busy"]
      \* push: busy, then the words of the quadword, then the push itself;
      \* after the last one, drain: busy clear and ready set
      [] host.pc = "busy" ->
           /\ sys' = s
           /\ host' = IF busy THEN host
                      ELSE LET h == [host EXCEPT !.call = None,
                                                 !.told = IF host.call = None THEN @ ELSE <<>>]
                           IN  IF host.sent < Quads THEN [h EXCEPT !.pc = "w0"]
                               ELSE IF Out(sys.ready) THEN [h EXCEPT !.pc = "pixels"] ELSE h
      [] host.pc = "w0" ->
           /\ sys' = [s EXCEPT !.w[1] = host.sent + 1]
           /\ host' = [host EXCEPT !.pc = "w1"]
      [] host.pc = "w1" ->
           /\ sys' = [s EXCEPT !.w[2] = host.sent + 1]
           /\ host' = [host EXCEPT !.pc = "push"]
      [] host.pc = "push" ->
           /\ sys' = [s EXCEPT !.req = IF busy THEN @ ELSE ~@]
           /\ host' = [host EXCEPT !.pc = "busy", !.sent = @ + 1,
                          !.call = [op |-> "write", addr |-> Gif, data |-> Quad(host.sent + 1)]]
      [] host.pc = "pixels" ->
           /\ sys' = s
           /\ host' = [host EXCEPT !.pc = "read", !.pixels = sys.hold[1]]
      \* read_word: the address, done, then the words of the answer
      [] host.pc = "read" /\ host.reads < Reads ->
           /\ sys' = [s EXCEPT !.addr = host.reads, !.rreq = ~@, !.rd_done = FALSE]
           /\ host' = [host EXCEPT !.pc = "done",
                          !.call = [op |-> "read", addr |-> Word(host.reads), data |-> <<>>]]
      [] host.pc = "done" ->
           /\ sys' = s
           /\ host' = IF sys.rd_done THEN [host EXCEPT !.pc = "d0"] ELSE host
      [] host.pc = "d0" ->
           /\ sys' = s
           /\ host' = [host EXCEPT !.pc = "d1", !.got[1] = c.rhold[1]]
      [] host.pc = "d1" ->
           /\ sys' = s
           /\ host' = [host EXCEPT !.pc = "read", !.reads = @ + 1, !.call = None,
                                   !.got[2] = c.rhold[2], !.told = <<host.got[1], c.rhold[2]>>]
      [] OTHER -> FALSE

\* An access is a transaction of the bus: the core has an edge between two.
Tick(fresh) == clk' = [sys |-> SysOut, core |-> CoreOut, ahead |-> 0, fresh |-> fresh]

SysEdge ==
    /\ \E ready \in Caught(clk.core.ready, CoreOut.ready), ack \in Caught(clk.core.ack, core.ack),
          rack \in Caught(clk.core.rack, core.rack), tog \in Caught(clk.core.tog, core.tog),
          rhold \in Words(clk.core.rhold, core.rhold), snap \in Words(clk.core.snap, core.snap) :
         LET c == [ready |-> ready, ack |-> ack, rack |-> rack, tog |-> tog,
                   rhold |-> rhold, snap |-> snap]
         IN  \/ /\ clk.fresh
                /\ Access(Settled(sys, c), c)
                /\ Tick(FALSE)
             \/ /\ sys' = Settled(sys, c)
                /\ UNCHANGED host
                /\ Tick(clk.fresh)
    /\ UNCHANGED core

Next == SysEdge \/ CoreEdge

-----------------------------------------------------------------------------
(* What the host is promised of the two handshakes *)

reply == IF host.call = None THEN None
         ELSE IF host.call.op = "write" THEN IF core.ack = sys.req THEN <<>> ELSE None
         ELSE IF core.rack = sys.rreq THEN core.rhold
         ELSE IF core.own[2] # None THEN core.own[2] ELSE core.own[1]
memory == [a \in {Gif} \cup {Word(n) : n \in 0 .. Reads - 1} |->
             IF a = Gif THEN core.gif ELSE <<a[2], core.drawn>>]
=============================================================================
