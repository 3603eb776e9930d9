---------------------------- MODULE MCDataLedger ----------------------------
(* An instance of DataLedger for TLC: two nodes and one that joins.      *)
EXTENDS DataLedger, TLC

CONSTANTS n1, n2, j, v, w, x, y, z

\* The transactions of the i-th block: an odd number, also one level up.
Holds == <<<<x, y, z>>, <<x, y, z, v, w>>, <<x, y, z, v, v>>>>
Payloads == {Holds[i] : i \in DOMAIN Holds}
\* Two of the nodes propose, at the same time only before there is more to see; and
\* two blocks are enough when two distributors have met, a process has ended or a node
\* has joined out of order.
Outside == \A n \in Joiner : phase[n] = "out"
Narrow ==
    /\ \A i \in DOMAIN made : made[i].payload = Holds[i]
    /\ \E n \in Node : at[n] = "idle" /\ \A b \in DOMAIN made : made[b].by # n
    /\ (Outside /\ down = {} /\ ~ mixed) \/ \E n \in Node : \A m \in Node \ {n} : at[m] = "idle"
    /\ mixed => Outside /\ down = {}
    /\ mixed \/ down \ seedless # {} \/ early \cup crossed # {} => Len(made) <= 2
Alike == Permutations(Node \ Joiner)
=============================================================================
