---------------------------- MODULE MC_DmaSystem ----------------------------
(***************************************************************************)
(* Small instances of IopDmaSystem.                                        *)
(***************************************************************************)
EXTENDS IopDmaSystem

\* The SIF1 stream: a frame of four words for the last two addresses of the space
\* and the first two; a frame of no words (the low two bits of its length are
\* dropped); a frame of four words.
Stream1 == <<14, 4, 0, 0, 0, 0, 0, 0, 2, 3, 0, 0, 8, 5, 0, 0, 0, 0, 0, 0>>
McSifWord(p) == IF p \in 1..Len(Stream1) THEN Stream1[p] ELSE 0

\* RAM: a tag at 0 for three words at 10, a tag at 4 for none, else zeros.
McRamWord(a) == IF a = 0 THEN 10 ELSE IF a = 1 THEN 3 ELSE IF a = 4 THEN 12 ELSE 0

\* Counts of BCR: two blocks of one word; the zero that means the most.
McCounts == {[bs |-> 0, ba |-> 0, block |-> FALSE],
             [bs |-> 1, ba |-> 2, block |-> TRUE]}

\* SIF0 and SIF1 at once, a reset in between; the engine's own channels; SIF0
\* beside a SIF1 the host kicks; OTC and CDVD together.
Doing(s, k, r, a, n) == [start |-> s, kick |-> k, reset |-> r, tadr |-> a, total |-> n]
McScenarios == {Doing({9, 10}, FALSE, TRUE, {0, 4}, 8), Doing({3, 4, 6}, FALSE, FALSE, {}, 0),
                Doing({9}, TRUE, FALSE, {}, 5)}
McKicked == {Doing({9}, TRUE, FALSE, {}, 5)}
McTwoEngines == {Doing({3, 6}, FALSE, FALSE, {}, 0)}

McOneCount == {[bs |-> 1, ba |-> 0, block |-> FALSE]}
=============================================================================
