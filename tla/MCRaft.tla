------------------------------- MODULE MCRaft -------------------------------
(* Instances of Raft for TLC: a full mesh in which every node knows the size of
   the cluster; the nodes are interchangeable.                                 *)
EXTENDS Raft, TLC

CONSTANTS n1, n2, n3

Three == {n1, n2, n3}
Mesh == [n \in Node |-> Node \ {n}]
FullCount == [n \in Node |-> Cardinality(Node)]
Interchangeable == Permutations(Node)

\* OneBookkeeper and IInv say nothing after a node has voted twice.
VotesAreFinal == ~ recast
=============================================================================
