-------------------------------- MODULE SifRpc --------------------------------
(***************************************************************************)
(* The host as the EE's RPC client: src/tools/ps2iop/sifrpc.py over        *)
(* sifcmd.py over sif1.py.  It pushes words into the SIF1 FIFO, where      *)
(* channel 10 takes four as a tag and what the tag counts as its data, and *)
(* takes the answers from the SIF0 FIFO, where nothing marks the beginning *)
(* of one.  Each command is a program of its own, a session, and leaves    *)
(* the FIFOs to the next as they are.                                      *)
(* A word stands for what it says of its call; a packet has four words     *)
(* (sixteen).  A tag that is not one counts no words.  The IOP's software  *)
(* is external: it arms channel 10 again when it is done, copies a packet, *)
(* and answers its packets in their order, at any time.                    *)
(***************************************************************************)
EXTENDS Naturals, Sequences

CONSTANTS Sessions,  \* bound: commands the user gives
          Depth,     \* words of the SIF1 FIFO (512)
          Limit,     \* words a drain takes at most (64)
          Names,     \* words of the names opened, with the mode before them
          Sizes,     \* words of the reads, a multiple of four
          None

VARIABLES iop,   \* channel 10 and the software of the IOP
          sif1, sif0, host
vars == <<iop, sif1, sif0, host>>

Least(a, b) == IF a <= b THEN a ELSE b
Drop(words, n) == SubSeq(words, n + 1, Len(words))

Zero == <<"zero">>
Zeros(n) == [i \in 1 .. n |-> Zero]

\* A mutant: the arguments are sent as they are.
Padded_not(words) == words
\* Words rounded up to a quadword.
Padded(words) == words \o Zeros((4 - (Len(words) % 4)) % 4)

tag(addr, n) == <<<<"addr", addr>>, <<"count", 4 * (n \div 4)>>, Zero, Zero>>
send(words) == tag("command", Len(Padded(words))) \o Padded(words)

Packet(call) == [i \in 1 .. 4 |-> <<"packet", call, i>>]
ArgSize(call) == IF call.op = "open" THEN call.size ELSE 4
Args(call) == [i \in 1 .. ArgSize(call) |-> <<"arg", call, i>>]

\* What a command pushes: a bind is its packet, a call its arguments before it.
Pushed(call) ==
    CASE call.op = "loopback" -> tag("scratch", call.size) \o Args([call EXCEPT !.op = "open"])
      [] call.op \in {"init", "bind"} -> send(Packet(call))
      [] OTHER -> LET arguments == Padded(Args(call))
                  IN  tag("buffer", Len(arguments)) \o arguments \o send(Packet(call))

\* What the IOP answers: transfers, each a tag of the EE and its words.
Transfer(dest, words) == <<<<"qwc", Len(words) \div 4>>, <<"dest", dest>>, Zero, Zero>> \o words
Said(what, call, n) == [i \in 1 .. n |-> <<what, call, i>>]
Transfers(call) ==
    CASE call.op = "init" -> <<[dest |-> "packets", body |-> Said("sreg", call, 4)]>>
      [] call.op = "bind" -> <<[dest |-> "packets", body |-> Said("rend", call, 4)]>>
      [] call.op = "open" -> <<[dest |-> "result", body |-> Said("fd", call, 4)],
                               [dest |-> "packets", body |-> Said("rend", call, 4)]>>
      [] call.op = "read" -> <<[dest |-> "buffer", body |-> Said("data", call, call.size)],
                               [dest |-> "result", body |-> Said("got", call, 4)],
                               [dest |-> "packets", body |-> Said("rend", call, 4)]>>
Reply(call) ==
    LET upTo[i \in 0 .. Len(Transfers(call))] ==
          IF i = 0 THEN <<>>
          ELSE upTo[i - 1] \o Transfer(Transfers(call)[i].dest, Transfers(call)[i].body)
    IN  upTo[Len(Transfers(call))]

Init ==
    /\ \E bios \in BOOLEAN :
         iop = [bios |-> bios, armed |-> bios, tag |-> <<>>, left |-> 0, pos |-> 0,
                taken |-> 0, mem |-> [a \in {"command", "buffer", "scratch"} |-> <<>>],
                todo |-> <<>>, out |-> <<>>, served |-> None]
    /\ sif1 = <<>> /\ sif0 = <<>>
    /\ host = [pc |-> "start", n |-> 0, call |-> None, then |-> <<>>, queue |-> <<>>,
               got |-> <<>>, room |-> 0, clean |-> TRUE, whole |-> TRUE]

-----------------------------------------------------------------------------
(* Channel 10, and the IOP's software *)

Named == iop.tag[1]
Area == IF Named[1] = "addr" THEN Named[2] ELSE "scratch"

TakeTag ==
    /\ iop.armed /\ iop.tag = <<>> /\ Len(sif1) >= 4
    /\ iop' = [iop EXCEPT !.tag = SubSeq(sif1, 1, 4), !.pos = 0, !.taken = @ + 4,
                          !.left = IF sif1[2][1] = "count" THEN sif1[2][2] ELSE 0]
    /\ sif1' = Drop(sif1, 4) /\ UNCHANGED <<sif0, host>>

\* Four words of data: what a tag counts is a multiple of that.
TakeData ==
    /\ iop.armed /\ iop.tag # <<>> /\ iop.left > 0 /\ Len(sif1) >= 4
    /\ iop' = [iop EXCEPT !.mem[Area] = SubSeq(@, 1, iop.pos) \o SubSeq(sif1, 1, 4) \o Drop(@, iop.pos + 4),
                          !.pos = @ + 4, !.left = @ - 4, !.taken = @ + 4]
    /\ sif1' = Drop(sif1, 4) /\ UNCHANGED <<sif0, host>>

\* The transfer ends; the interrupt copies a packet and arms the channel again.
Complete ==
    /\ iop.armed /\ iop.tag # <<>> /\ iop.left = 0
    /\ iop' = [iop EXCEPT !.armed = iop.bios, !.tag = <<>>,
                          !.todo = IF iop.bios /\ Area = "command" /\ iop.pos > 0
                                   THEN Append(@, iop.mem["command"]) ELSE @]
    /\ UNCHANGED <<sif1, sif0, host>>

\* The handler of the oldest packet runs, a call's with the arguments that are
\* in its buffer then; what is no packet is thrown away.
Serve ==
    /\ iop.todo # <<>> /\ iop.out = <<>>
    /\ LET first == Head(iop.todo)[1]
       IN  iop' = [iop EXCEPT !.todo = Tail(@),
                     !.out = IF first[1] = "packet" THEN Reply(first[2]) ELSE <<>>,
                     !.served = IF first[1] = "packet"
                                THEN [call |-> first[2], args |-> iop.mem["buffer"]] ELSE @]
    /\ UNCHANGED <<sif1, sif0, host>>

Answer ==
    /\ iop.out # <<>>
    /\ sif0' = sif0 \o SubSeq(iop.out, 1, 4) /\ iop' = [iop EXCEPT !.out = Drop(@, 4)]
    /\ UNCHANGED <<sif1, host>>

Iop == TakeTag \/ TakeData \/ Complete \/ Serve \/ Answer

\* The IOP has nothing left of what it was sent.
AtRest == sif1 = <<>> /\ iop.tag = <<>> /\ iop.todo = <<>> /\ iop.out = <<>>

-----------------------------------------------------------------------------
(* The commands *)

\* A command ends; clean: none has left words behind that its successor's drain
\* does not find, or does not find all of.
Exit(h) == [h EXCEPT !.pc = "start", !.call = None, !.queue = <<>>, !.got = <<>>,
                     !.clean = @ /\ AtRest /\ Len(sif0) <= Limit]

Ask(h, call, then) == [h EXCEPT !.pc = "push", !.call = call, !.then = then,
                                !.queue = Pushed(call), !.got = <<>>]
Call(h, op, size) == [session |-> h.n, op |-> op, size |-> size]
Opened == [host EXCEPT !.n = @ + 1]

\* An RPC command drains the stream first.
Begin == [Opened EXCEPT !.pc = "stale", !.got = <<>>, !.room = Limit]

\* The user gives a command: a loopback while no BIOS runs, else INIT_CMD of
\* sifcmd.py or an RPC exchange, of a bind, an open and at times a read.
Start ==
    /\ host.pc = "start" /\ host.n < Sessions
    /\ \/ /\ ~iop.bios
          /\ host' = Ask(Opened, Call(Opened, "loopback", 4), <<>>)
       \/ /\ iop.bios
          /\ host' = Ask(Opened, Call(Opened, "init", 0), <<>>)
       \/ /\ iop.bios
          /\ \E n \in Names, reads \in {<<>>} \cup {<<s>> : s \in Sizes} :
               host' = [Begin EXCEPT !.then = <<n>> \o reads]
    /\ UNCHANGED <<iop, sif1, sif0>>

\* drain: words, as long as there are any and the limit is not reached.
Pop ==
    /\ host.pc \in {"stale", "drain", "rest"} /\ host.room > 0 /\ sif0 # <<>>
    /\ LET n == Least(4, Least(host.room, Len(sif0)))
       IN  /\ host' = [host EXCEPT !.got = @ \o SubSeq(sif0, 1, n), !.room = @ - n]
           /\ sif0' = Drop(sif0, n)
    /\ UNCHANGED <<iop, sif1>>

\* Card.push: words, or the end of the program when the FIFO is full.
Push ==
    /\ host.pc = "push" /\ host.queue # <<>>
    /\ LET n == Least(4, Least(Depth - Len(sif1), Len(host.queue)))
       IN  IF n > 0
           THEN /\ sif1' = sif1 \o SubSeq(host.queue, 1, n)
                /\ host' = [host EXCEPT !.queue = Drop(@, n)]
           ELSE UNCHANGED sif1 /\ host' = [Exit(host) EXCEPT !.clean = FALSE, !.whole = FALSE]
    /\ UNCHANGED <<iop, sif0>>

\* All is pushed: the loopback starts the channel, the others wait.
Pushing ==
    /\ host.pc = "push" /\ host.queue = <<>>
    /\ IF host.call.op = "loopback"
       THEN iop' = [iop EXCEPT !.armed = TRUE, !.tag = IF iop.armed THEN @ ELSE <<>>]
            /\ host' = [host EXCEPT !.pc = "status"]
       ELSE UNCHANGED iop /\ host' = [host EXCEPT !.pc = "await"]
    /\ UNCHANGED <<sif1, sif0>>

\* The loopback is good when the channel has taken as many words as were
\* pushed: the count it reads is that of all words since the card was loaded.
Loopback ==
    /\ host.pc = "status"
    /\ host' = IF iop.taken < host.call.size + 4 THEN Exit(host)
               ELSE [host EXCEPT !.pc = "consumed"]
    /\ UNCHANGED <<iop, sif1, sif0>>
Consumed == host.pc = "consumed" /\ host' = Exit(host) /\ UNCHANGED <<iop, sif1, sif0>>

\* await_reply: a word is there, and after a sleep the drain begins; or the time
\* is up and the command ends.
Await ==
    /\ host.pc = "await"
    /\ host' = IF sif0 # <<>> THEN [host EXCEPT !.pc = "drain", !.room = Limit] ELSE Exit(host)
    /\ UNCHANGED <<iop, sif1, sif0>>

\* A drain is over: what it took is taken for the answer.  A read sleeps again
\* and drains the rest.
Drained ==
    /\ host.pc \in {"stale", "drain", "rest"}
    /\ host.room = 0 \/ sif0 = <<>>
    /\ host' = CASE host.pc = "stale" -> [host EXCEPT !.pc = "bound", !.got = <<>>]
                 [] host.pc = "drain" /\ host.call.op = "read" -> [host EXCEPT !.pc = "rest", !.room = Limit]
                 [] OTHER -> [host EXCEPT !.pc = "take",
                                          !.clean = @ /\ AtRest /\ (host.pc = "rest" \/ sif0 = <<>>)]
    /\ UNCHANGED <<iop, sif1, sif0>>

\* An answer to a bind has the server's buffer where a rend packet has it, one
\* to an open the descriptor in its fifth word, not negative.
Answers(what) == Len(host.got) >= 8 /\ host.got[5][1] = what

\* The next call of the command, or its end.
Take ==
    /\ \/ host.pc = "bound" /\ host' = Ask(host, Call(host, "bind", 0), host.then)
       \/ /\ host.pc = "take"
          /\ \/ host' = Exit(host)
             \/ /\ host.call.op = "bind" /\ Answers("rend")
                /\ host' = Ask(host, Call(host, "open", Head(host.then)), Tail(host.then))
             \/ /\ host.call.op = "open" /\ Answers("fd") /\ host.then # <<>>
                /\ host' = Ask(host, Call(host, "read", Head(host.then)), <<>>)
    /\ UNCHANGED <<iop, sif1, sif0>>

Host == Start \/ Pop \/ Push \/ Pushing \/ Loopback \/ Consumed \/ Await \/ Drained \/ Take

Next == Iop \/ Host

-----------------------------------------------------------------------------
\* The walk of sifrpc.py over the words of a read: a tag, what it counts, and on.
Walk(w) ==
    LET from[i \in 0 .. Len(w)] ==
          IF i + 4 > Len(w) THEN <<>>
          ELSE LET rest == Len(w) - i - 4
                   said == IF w[i + 1][1] = "qwc" THEN 4 * w[i + 1][2] ELSE 0
                   n    == IF said = 0 \/ said > rest THEN rest ELSE said
               IN  <<[dest |-> w[i + 2][2], body |-> SubSeq(w, i + 5, i + 4 + n)]>> \o from[i + 4 + n]
    IN  from[0]

\* A call is handled with the arguments it was made with, as long as no program
\* gave up on an earlier one: the arguments come first, and whole quadwords, so
\* that the channel reads no word of them as a tag (sifrpc.py:196-206).
ArgumentsFit ==
    /\ host.clean /\ iop.served # None /\ iop.served.call.op \in {"open", "read"} =>
         SubSeq(iop.served.args, 1, ArgSize(iop.served.call)) = Args(iop.served.call)
    /\ host.whole /\ iop.tag # <<>> => Named[1] = "addr"

\* What the client takes for the answer to a call is that answer, whole, unless a
\* command gave up before its answer had come: nothing else tells answers apart.
RepliesOwn ==
    host.pc = "take" /\ host.clean /\ host.call.op # "init" =>
      LET reply == Reply(host.call)
      IN  /\ Len(host.got) <= Len(reply) /\ host.got = SubSeq(reply, 1, Len(host.got))
          /\ host.call.op # "read" => host.got = reply
          /\ host.got = reply => Walk(host.got) = Transfers(host.call)

\* A loopback that is the first to be tried and found good has landed.
LoopbackLands ==
    host.pc = "consumed" /\ host.n = 1 => iop.mem["scratch"] = Args([host.call EXCEPT !.op = "open"])
=============================================================================
