------------------------------- MODULE Crossing -------------------------------
(***************************************************************************)
(* How a signal gets from one clock of a board to the other.  The boards   *)
(* (src/boards) have a "sys" clock, where the host's registers are, and    *)
(* the clock of the core they carry; an action of a board is one edge of   *)
(* one of the two.  A flip-flop that samples a signal of the other clock   *)
(* on an edge next to the one that changed it keeps the old value or the   *)
(* new one, each signal and each word of a bus on its own: a board keeps   *)
(* what a clock drove before its last edge beside what it drives now, and  *)
(* the other clock catches either.                                         *)
(***************************************************************************)
EXTENDS Naturals, Sequences

\* A MultiReg: two flip-flops of the destination, the first of which samples.
Flops(v) == <<v, v>>
Clocked(f, v) == <<v, f[1]>>
Out(f) == f[2]

\* A PulseSynchronizer: a pulse flips a toggle, which two flip-flops bring
\* over; a third tells a change of theirs from a level.
Chain(v) == <<v, v, v>>
ClockedChain(f, v) == <<v, f[1], f[2]>>
Pulse(f) == f[2] # f[3]

\* What the other clock may catch of a bit, and of a bus of two words.
Caught(was, now) == {was, now}
Words(was, now) == {<<x, y>> : x \in Caught(was[1], now[1]),
                               y \in Caught(was[2], now[2])}

(***************************************************************************)
(* The snapshot of free-running status.  Every Period edges the core       *)
(* copies it, and one edge later flips a toggle; the other side copies the *)
(* copy when it sees the toggle move.                                      *)
(***************************************************************************)
\* c.cnt, c.snap and c.tog after an edge of the core, whose status is now.
Snap(c, now, Period) ==
    [cnt  |-> (c.cnt + 1) % Period,
     snap |-> IF c.cnt = 0 THEN now ELSE c.snap,
     tog  |-> IF c.cnt = 1 THEN ~c.tog ELSE c.tog]

\* A copy outlasts the crossing of its toggle, where up to Lead edges of the
\* core pass between two of the other side.
SnapshotFits(Period, Lead) == Period \in Nat /\ Lead \in Nat \ {0} /\ (3 * Lead) + 2 <= Period

\* A mutant: the copy is made as long as the toggle is high.
Held_level(s, snap) == IF Out(s.tog) THEN snap ELSE s.hold
\* s.hold after an edge of the other clock, where the copy reads snap.
Held(s, snap) == IF Out(s.tog) # s.tog_d THEN snap ELSE s.hold
=============================================================================
