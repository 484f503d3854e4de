------------------------------- MODULE HostPort -------------------------------
(***************************************************************************)
(* What the host of a board is promised about a port that takes one        *)
(* operation at a time: each operation asked for is performed once, on the *)
(* address and with the data it was asked with, after it is asked for and  *)
(* before the host is told; and a read is told what the memory held when   *)
(* it was performed.  The memory may change by itself at the addresses in  *)
(* Drawn (the rasteriser draws) and nowhere else.                          *)
(***************************************************************************)
EXTENDS Naturals, Sequences

CONSTANTS None, Drawn, Streams
VARIABLES call,     \* the operation asked for, or None: [op, addr, data]
          reply,    \* None until it is performed, then its answer
          memory,   \* by address
          told      \* the last answer the host has

\* The operations of the boards, a word being two halves.
Reply == {<<>>} \cup (Nat \X Nat)
Operation == [op : {"read", "write"}, addr : {"gif", "word", "line", "beat"} \X Nat, data : Reply]

vars == <<call, reply, memory, told>>

\* A stream (an address of Streams) keeps every word written, a memory the last one.
Put(m, a, d) == [m EXCEPT ![a] = IF a \in Streams THEN Append(@, d) ELSE d]

Init == call = None /\ reply = None /\ told = None

Ask == /\ call = None
       /\ call' # None
       /\ reply' = None
       /\ UNCHANGED <<memory, told>>

Perform ==
    /\ call # None /\ reply = None
    /\ \/ /\ call.op = "write"
          /\ memory' = Put(memory, call.addr, call.data)
          /\ reply' = <<>>
       \/ /\ call.op = "read"
          /\ reply' = memory[call.addr]
          /\ \A a \in DOMAIN memory \ Drawn : memory'[a] = memory[a]
    /\ UNCHANGED <<call, told>>

Answer == /\ reply # None
          /\ told' = reply
          /\ call' = None /\ reply' = None
          /\ UNCHANGED memory

Own == /\ \A a \in DOMAIN memory \ Drawn : memory'[a] = memory[a]
       /\ UNCHANGED <<call, reply, told>>

Next == Ask \/ Perform \/ Answer \/ Own
Spec == Init /\ [][Next]_vars
=============================================================================
