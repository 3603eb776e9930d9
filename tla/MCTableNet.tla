----------------------------- MODULE MCTableNet -----------------------------
(* An instance of TableNet for TLC: two nodes and one that joins.              *)
EXTENDS TableNet, TLC

CONSTANTS n1, n2, j, t1, t2, t3

Stamps == [t \in Tx |-> IF t = t1 THEN 1 ELSE IF t = t2 THEN 2 ELSE 3]
Alike == Permutations(Node \ Joiner)

\* What there is to see needs few blocks: two before a bookkeeper was set too early,
\* blocks were lost or two distributors met and somebody joins, or one; and one when a
\* process has ended, with no more of anything but the way back.  The third
\* transaction, which a pool may refuse, comes only early, before anyone joins.
Before == restarts = 0 /\ up = Node /\ \A n \in Joiner : phase[n] = "out"
Few == (Before /\ Len(made) <= 2 /\ turns <= 2) \/ (Len(made) <= 1 /\ turns <= 1)
Narrow ==
    /\ hasty \/ dropped # {} => Few
    /\ mixed => Few /\ Before /\ turns <= 1
    /\ telling[t3].by # NoNode => Before /\ Len(made) <= 1 /\ turns <= 1
    /\ up # Node \/ restarts > 0 => Len(made) <= 1 /\ turns + restarts <= 1
=============================================================================
