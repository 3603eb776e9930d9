------------------------------ MODULE MCLookUps ------------------------------
(* An instance of Cache for TLC in which a single goroutine looks values up, one
   after the other: what the pointers of a list become without any overlap.    *)
EXTENDS Cache

CONSTANTS k1, k2, k3, k4, k5, k6, k7, k8, g1

Write(k, s) == [key |-> k, stamp |-> s]
One == {<<Write(k1, 1), Write(k2, 1), Write(k3, 1), Write(k4, 1),
          Write(k5, 1), Write(k6, 1), Write(k7, 1), Write(k8, 1)>>}

\* Values are entered into the index in this order and visited so often there, the
\* first three before the fifth comes; in what order else is left open.
Order == <<k1, k2, k3, k4, k5, k6, k7, k8, k1, k4>>
Visits == <<1, 2, 3, 2, 2, 2, 1, 2, 1, 1>>
InOrder ==
    /\ listIndex.key = SubSeq(Order, 1, Len(listIndex.key))
    /\ \A c \in DOMAIN listIndex.count : listIndex.count[c] <= Visits[c]
    /\ Len(listIndex.key) > 4 => \A c \in 1 .. 3 : listIndex.count[c] = Visits[c]

\* Arguments and results of finished look-ups do not distinguish states.
Live == <<stage, lists, at, crashed, IF at[g1] = "idle" THEN <<>> ELSE <<want[g1], got[g1]>>>>

\* queueIn goes on in every state one look-up after the other can lead to.
NoNil == ~ crashed
==============================================================================
