------------------------------- MODULE Merkle -------------------------------
(* The Merkle tree over the transactions of a block (MerkleTree/merkel.go).  A
   hash is the value that was hashed: md5 does not collide here.                *)
EXTENDS Integers, Sequences

Leaf(x) == [of |-> x]
Pair(l, r) == [left |-> l, right |-> r]

\* An odd number of nodes is filled up with the last one again.
Even(s) == IF Len(s) % 2 = 0 THEN s ELSE Append(s, s[Len(s)])
\* (The underscore marks a mutant, which leaves the odd node out.)
Above_DropOdd(s) == [i \in 1 .. Len(s) \div 2 |-> Pair(s[2 * i - 1], s[2 * i])]
Above(s) == LET e == Even(s) IN [i \in 1 .. Len(e) \div 2 |-> Pair(e[2 * i - 1], e[2 * i])]

\* GetMerkleNode, from the leaves up to a single node.  The leaves are filled up
\* before, so that one leaf has a node above it; of no leaf there is no end.
GetMerkleRoot(data) ==
    LET leaves == Even([i \in DOMAIN data |-> Leaf(data[i])])
        level[k \in 0 .. Len(data)] ==
            IF k = 0 THEN leaves
            ELSE LET below == level[k - 1] IN IF k > 1 /\ Len(below) = 1 THEN below ELSE Above(below)
    IN level[Len(data)][1]
=============================================================================
