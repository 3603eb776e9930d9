----------------------------- MODULE MCCluster -----------------------------
(* An instance of Cluster for TLC: a founder, joiners and one without the key.  *)
EXTENDS Cluster, TLC

CONSTANTS f, a, b, c, s

Alike == Permutations(Node \ {Founder, s})
\* No more than two repeated entries; the one without the key tries while all is calm.
Short ==
    /\ phase[s] = "out" \/ (contact[s] = f /\ Calm = Node)
    /\ Cardinality(crossed) <= 1
    /\ \A n \in Node : Len(object[n]["start"].nodes) <= 4 /\ Len(LocalNode(n).nodes) <= 4
=============================================================================
