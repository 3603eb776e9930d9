------------------------------- MODULE MCCache -------------------------------
(* An instance of Cache for TLC: blocks with two keys, one of them twice;
   the lists hold one entry, or two, before they evict.                        *)
EXTENDS Cache

CONSTANTS k1, k2, g1, g2

Write(k, s) == [key |-> k, stamp |-> s]
One == {<<Write(k1, 1), Write(k2, 1), Write(k1, 2)>>}

\* Arguments and results of finished look-ups do not distinguish states.
Live == <<blocks, lists, at, raced, crashes, crashed,
          [g \in Getter |-> IF at[g] = "idle" THEN <<>> ELSE <<want[g], got[g], g \in met>>]>>

\* More than one look-up at a time only before the list of transactions has a
\* cell, or the other one three, and the
\* process has not been restarted.
Narrow ==
    Len(listIndex.key) > 2 \/ Len(listTx.key) > 0 \/ crashes > 0 =>
        \A g \in Getter \ {g1} : at[g] = "idle"
=============================================================================
