----------------------------- MODULE MCFrontEnd -----------------------------
(* Instances of FrontEnd for TLC: two clients whose requests overlap.          *)
EXTENDS FrontEnd, TLC

CONSTANTS a1, a2, t1, k, p1, p2, h1, h2

Ask(c, a, p, t, g1, g2) ==
    [commands |-> c, uid |-> <<a, p>>, table |-> t, key |-> k,
     grants |-> [x \in Account |-> IF x = a1 THEN g1 ELSE g2]]
OnDisk == [a \in Account |-> IF a = a1 THEN p1 ELSE NoFile]

\* a1 is registered and comes back; a2 registers, twice at once.  Both make the same
\* table, and give each other too little to write; later a2 changes the level of a1,
\* and both write.
Requests ==
    {Ask({"login", "table"}, a1, p1, t1, 4, 2), Ask({"register"}, a2, p1, t1, 0, 0),
     Ask({"register"}, a2, p2, t1, 0, 0),
     Ask({"login", "table"}, a2, p1, t1, 0, 4), Ask({"table", "put"}, a2, p1, t1, 1, 0),
     Ask({"put"}, a1, p1, t1, 0, 0), Ask({"get", "logout"}, a1, p1, t1, 0, 0)}

\* After a start, or the last table block, one request at a time.
Narrow == restarts > 0 \/ Len(tableChain) = MaxTableBlocks =>
    \E h \in Handler : \A g \in Handler \ {h} : job[g] = Free

Alike == Permutations(Handler)
=============================================================================
