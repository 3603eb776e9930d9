----------------------------- MODULE Membership -----------------------------
(* Whom the nodes of a cluster call: Cluster.LocalNode.Node of each of them, as far
   as modules TableNet and DataLedger need it (module Cluster has the objects and
   files behind it).  Nobody but the contact of a joiner learns of it: BroadCast
   sends every other member that member's own address.                           *)
CONSTANTS Node, Joiner    \* the nodes; those that are not in the cluster at first

VARIABLES known,          \* the nodes in the list of a node, itself among them
          told            \* nodes that were told their own address

members == <<known, told>>
Others(n) == known[n] \ {n}

MembersOK == known \in [Node -> SUBSET Node] /\ told \subseteq Node

\* One node, or two of which the second has joined through the first, list each other.
MembersInit == known = [n \in Node |-> IF n \in Joiner THEN {} ELSE Node \ Joiner] /\ told = {}

\* JoinToCluster of n at c, and BroadCast: the contact adds n, and n takes over the
\* list of the contact.  (A node that was told its own address has it twice, and one
\* that joins through it would call it twice: this is left out.)
Enlist(n, c) ==
    /\ c \notin told
    /\ known' = [known EXCEPT ![c] = @ \cup {n}, ![n] = known[c] \cup {n}]
    /\ told' = told \cup (known[c] \ {c})
=============================================================================
