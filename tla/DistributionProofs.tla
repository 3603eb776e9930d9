------------------------- MODULE DistributionProofs -------------------------
(* Theorems about how blocks get to the nodes.  First the shared tables of a
   cluster (TableNet), for any nodes, lists, transactions, stamps and bounds: no
   holes but the named ones, every transaction packed once, and the same last block
   at all nodes the blocks are for, with the inductive invariant they need.  Then the block queue and its distributors
   (BlockQueue), for every number of peers and of blocks: the first three hold for
   any set of distributors, the rest assume a single one.                      *)
EXTENDS TableNet, BlockQueue, WellFoundedInduction, FiniteSetTheorems, SequenceTheorems, TLAPS

-----------------------------------------------------------------------------
(* The pools.                                                                  *)

\* The cells of a pool, as a set.
Held(q) == {q[i] : i \in DOMAIN q}

\* No cell twice.
Once(q) == \A i, k \in DOMAIN q : q[i] = q[k] => i = k

\* The front of a queue, and what is behind it.
LEMMA Cut ==
  ASSUME NEW q \in Seq(Tx), NEW i \in 0 .. Len(q)
  PROVE  /\ SubSeq(q, 1, i) \in Seq(Tx) /\ Len(SubSeq(q, 1, i)) = i
         /\ \A k \in 1 .. i : SubSeq(q, 1, i)[k] = q[k]
         /\ SubSeq(q, i + 1, Len(q)) \in Seq(Tx) /\ Len(SubSeq(q, i + 1, Len(q))) = Len(q) - i
         /\ \A k \in 1 .. Len(q) - i : SubSeq(q, i + 1, Len(q))[k] = q[i + k]
<1> DEFINE a == SubSeq(q, 1, i)
           b == SubSeq(q, i + 1, Len(q))
<1>1. Len(q) \in Nat /\ i \in Nat /\ \A k \in 1 .. Len(q) : q[k] \in Tx
  BY LenProperties, ElementOfSeq
<1>2. /\ a \in Seq(Tx) /\ Len(a) = (IF 1 <= i THEN i - 1 + 1 ELSE 0)
      /\ \A k \in 1 .. i - 1 + 1 : a[k] = q[1 + k - 1]
  BY <1>1, SubSeqProperties
<1>3. /\ b \in Seq(Tx) /\ Len(b) = (IF i + 1 <= Len(q) THEN Len(q) - (i + 1) + 1 ELSE 0)
      /\ \A k \in 1 .. Len(q) - (i + 1) + 1 : b[k] = q[i + 1 + k - 1]
  BY <1>1, SubSeqProperties
<1> HIDE DEF a, b
<1>4. Len(a) = i /\ \A k \in 1 .. i : a[k] = q[k]
  BY <1>1, <1>2
<1>5. Len(b) = Len(q) - i /\ \A k \in 1 .. Len(q) - i : b[k] = q[i + k]
  BY <1>1, <1>3
<1> QED
  BY <1>2, <1>3, <1>4, <1>5 DEF a, b

\* A transaction goes into the queue exactly once, wherever its stamp puts it.
LEMMA PutIn ==
  ASSUME NEW q \in Seq(Tx), NEW t \in Tx
  PROVE  /\ in(q, t) \in Seq(Tx) /\ Len(in(q, t)) = Len(q) + 1
         /\ Held(in(q, t)) = Held(q) \cup {t}
         /\ Once(q) /\ t \notin Held(q) => Once(in(q, t))
<1> DEFINE J == {j \in DOMAIN q : \E l \in j .. Len(q) : Stamp[q[l]] <= Stamp[t]}
           i == Cardinality(J)
           a == SubSeq(q, 1, i)
           b == SubSeq(q, i + 1, Len(q))
<1>1. Len(q) \in Nat /\ DOMAIN q = 1 .. Len(q)
  BY LenProperties
<1>2. i \in 0 .. Len(q)
  <2>1. IsFiniteSet(1 .. Len(q)) /\ Cardinality(1 .. Len(q)) = Len(q)
    BY <1>1, FS_Interval
  <2>2. J \subseteq 1 .. Len(q)
    BY <1>1
  <2> HIDE DEF J
  <2>3. IsFiniteSet(J) /\ Cardinality(J) <= Len(q)
    BY <2>1, <2>2, FS_Subset
  <2>4. Cardinality(J) \in Nat
    BY <2>3, FS_CardinalityType
  <2> QED
    BY <1>1, <2>3, <2>4
<1>3. in(q, t) = InsertAt(q, i + 1, t)
  BY DEF in
<1> HIDE DEF i
<1>4. /\ a \in Seq(Tx) /\ Len(a) = i /\ \A k \in 1 .. i : a[k] = q[k]
      /\ b \in Seq(Tx) /\ Len(b) = Len(q) - i /\ \A k \in 1 .. Len(q) - i : b[k] = q[i + k]
  BY <1>2, Cut
<1> HIDE DEF a, b
<1>5. /\ <<t>> \in Seq(Tx) /\ Len(<<t>>) = 1 /\ <<t>>[1] = t
  OBVIOUS
<1> DEFINE c == a \o <<t>>
           d == c \o b
<1>6. /\ c \in Seq(Tx) /\ Len(c) = i + 1
      /\ \A k \in 1 .. i + 1 : c[k] = IF k <= i THEN q[k] ELSE t
  <2> DEFINE u == <<t>>
  <2>1. u \in Seq(Tx) /\ Len(u) = 1 /\ u[1] = t
    BY <1>5
  <2> HIDE DEF u
  <2>2. a \o u \in Seq(Tx) /\ Len(a \o u) = Len(a) + Len(u) /\ \A k \in 1 .. Len(a) + Len(u) : (a \o u)[k] = IF k <= Len(a) THEN a[k] ELSE u[k - Len(a)]
    BY <1>4, <2>1, ConcatProperties
  <2>3. c = a \o u
    BY DEF u
  <2> HIDE DEF c
  <2> QED
    BY <1>2, <1>4, <2>1, <2>2, <2>3
<1> HIDE DEF c
<1>7. /\ d \in Seq(Tx) /\ Len(d) = Len(q) + 1
      /\ \A k \in 1 .. Len(q) + 1 : d[k] = IF k <= i THEN q[k] ELSE IF k = i + 1 THEN t ELSE q[k - 1]
  <2>1. d \in Seq(Tx) /\ Len(d) = Len(c) + Len(b) /\ \A k \in 1 .. Len(c) + Len(b) : d[k] = IF k <= Len(c) THEN c[k] ELSE b[k - Len(c)]
    BY <1>4, <1>6, ConcatProperties
  <2> HIDE DEF d
  <2>2. Len(d) = Len(q) + 1
    BY <1>1, <1>2, <1>4, <1>6, <2>1
  <2>3. ASSUME NEW k \in 1 .. Len(q) + 1, k <= i + 1 PROVE d[k] = IF k <= i THEN q[k] ELSE t
    <3>1. k \in 1 .. Len(c) + Len(b) /\ k <= Len(c) /\ k \in 1 .. i + 1
      BY <1>1, <1>2, <1>4, <1>6, <2>3
    <3> QED
      BY <1>6, <2>1, <3>1
  <2>4. ASSUME NEW k \in 1 .. Len(q) + 1, k > i + 1 PROVE d[k] = q[k - 1]
    <3>1. k - (i + 1) \in 1 .. Len(q) - i /\ i + (k - (i + 1)) = k - 1
      BY <1>1, <1>2, <2>4
    <3>2. k \in 1 .. Len(c) + Len(b) /\ ~ (k <= Len(c)) /\ Len(c) = i + 1
      BY <1>1, <1>2, <1>4, <1>6, <2>4
    <3>3. d[k] = b[k - (i + 1)]
      BY <2>1, <3>2
    <3> QED
      BY <1>4, <3>1, <3>3
  <2> QED
    BY <1>2, <2>1, <2>2, <2>3, <2>4
<1>8. in(q, t) = d
  <2>1. (i + 1) - 1 = i
    BY <1>2
  <2>2. InsertAt(q, i + 1, t) = SubSeq(q, 1, (i + 1) - 1) \o <<t>> \o SubSeq(q, i + 1, Len(q))
    BY DEF InsertAt
  <2> QED
    BY <1>3, <2>1, <2>2 DEF a, b, c
<1> HIDE DEF d
<1>9. DOMAIN d = 1 .. Len(q) + 1
  BY <1>7, LenProperties
<1>10. Held(d) = Held(q) \cup {t}
  <2>1. \A k \in DOMAIN q : q[k] \in Held(d)
    <3> SUFFICES ASSUME NEW k \in DOMAIN q PROVE q[k] \in Held(d)
      OBVIOUS
    <3>1. q[k] = d[IF k <= i THEN k ELSE k + 1] /\ (IF k <= i THEN k ELSE k + 1) \in DOMAIN d
      BY <1>1, <1>2, <1>7, <1>9
    <3> QED
      BY <3>1 DEF Held
  <2>2. d[i + 1] = t /\ i + 1 \in DOMAIN d
    BY <1>1, <1>2, <1>7, <1>9
  <2>3. \A k \in DOMAIN d : d[k] \in Held(q) \cup {t}
    BY <1>1, <1>2, <1>7, <1>9 DEF Held
  <2> QED
    BY <2>1, <2>2, <2>3 DEF Held
<1>11. ASSUME Once(q), t \notin Held(q) PROVE Once(d)
  <2> SUFFICES ASSUME NEW k \in DOMAIN d, NEW m \in DOMAIN d, d[k] = d[m] PROVE k = m
    BY DEF Once
  <2> DEFINE at(z) == IF z <= i THEN z ELSE z - 1
  <2>1. \A z \in DOMAIN d : z # i + 1 => at(z) \in DOMAIN q /\ d[z] = q[at(z)]
    BY <1>1, <1>2, <1>7, <1>9
  <2>2. \A z \in DOMAIN d : z # i + 1 => d[z] # t
    BY <1>11, <2>1 DEF Held
  <2>3. d[i + 1] = t
    BY <1>1, <1>2, <1>7
  <2>4. CASE k # i + 1 /\ m # i + 1
    <3>1. at(k) = at(m)
      BY <1>11, <2>1, <2>4 DEF Once
    <3> QED
      BY <1>2, <1>9, <2>4, <3>1
  <2> QED
    BY <2>2, <2>3, <2>4
<1> QED
  BY <1>7, <1>8, <1>10, <1>11

\* One cell leaves the queue, and no other.
LEMMA TakenOut ==
  ASSUME NEW q \in Seq(Tx), NEW t \in Held(q), Once(q)
  PROVE  /\ out(q, t) \in Seq(Tx) /\ Len(out(q, t)) = Len(q) - 1
         /\ Held(out(q, t)) = Held(q) \ {t} /\ Once(out(q, t))
<1> DEFINE i == CHOOSE i \in DOMAIN q : q[i] = t
           a == SubSeq(q, 1, i - 1)
           b == SubSeq(q, i + 1, Len(q))
           d == a \o b
<1>1. Len(q) \in Nat /\ DOMAIN q = 1 .. Len(q)
  BY LenProperties
<1>2. i \in 1 .. Len(q) /\ q[i] = t
  BY <1>1 DEF Held
<1>3. out(q, t) = d
  BY DEF out, RemoveAt
<1> HIDE DEF i
<1>4. /\ a \in Seq(Tx) /\ Len(a) = i - 1 /\ \A k \in 1 .. i - 1 : a[k] = q[k]
      /\ b \in Seq(Tx) /\ Len(b) = Len(q) - i /\ \A k \in 1 .. Len(q) - i : b[k] = q[i + k]
  <2>1. i - 1 \in 0 .. Len(q) /\ i \in 0 .. Len(q)
    BY <1>1, <1>2
  <2> QED
    BY <2>1, Cut
<1> HIDE DEF a, b
<1>5. /\ d \in Seq(Tx) /\ Len(d) = Len(q) - 1
      /\ \A k \in 1 .. Len(q) - 1 : d[k] = IF k < i THEN q[k] ELSE q[k + 1]
  <2>1. d \in Seq(Tx) /\ Len(d) = Len(a) + Len(b) /\ \A k \in 1 .. Len(a) + Len(b) : d[k] = IF k <= Len(a) THEN a[k] ELSE b[k - Len(a)]
    BY <1>4, ConcatProperties
  <2> HIDE DEF d
  <2>2. Len(d) = Len(q) - 1
    BY <1>1, <1>2, <1>4, <2>1
  <2>3. ASSUME NEW k \in 1 .. Len(q) - 1, k < i PROVE d[k] = q[k]
    <3>1. k \in 1 .. Len(a) + Len(b) /\ k <= Len(a) /\ k \in 1 .. i - 1
      BY <1>1, <1>2, <1>4, <2>3
    <3> QED
      BY <1>4, <2>1, <3>1
  <2>4. ASSUME NEW k \in 1 .. Len(q) - 1, k >= i PROVE d[k] = q[k + 1]
    <3>1. k - (i - 1) \in 1 .. Len(q) - i /\ i + (k - (i - 1)) = k + 1
      BY <1>1, <1>2, <2>4
    <3>2. k \in 1 .. Len(a) + Len(b) /\ ~ (k <= Len(a)) /\ Len(a) = i - 1
      BY <1>1, <1>2, <1>4, <2>4
    <3>3. d[k] = b[k - (i - 1)]
      BY <2>1, <3>2
    <3> QED
      BY <1>4, <3>1, <3>3
  <2> QED
    BY <1>2, <2>1, <2>2, <2>3, <2>4
<1> HIDE DEF d
<1>6. DOMAIN d = 1 .. Len(q) - 1
  BY <1>5, LenProperties
<1>7. Held(d) = Held(q) \ {t}
  <2>1. \A k \in DOMAIN q : q[k] # t => q[k] \in Held(d)
    <3> SUFFICES ASSUME NEW k \in DOMAIN q, q[k] # t PROVE q[k] \in Held(d)
      OBVIOUS
    <3>1. q[k] = d[IF k < i THEN k ELSE k - 1] /\ (IF k < i THEN k ELSE k - 1) \in DOMAIN d
      BY <1>1, <1>2, <1>5, <1>6
    <3> QED
      BY <3>1 DEF Held
  <2>2. \A k \in DOMAIN d : d[k] \in Held(q) /\ d[k] # t
    BY <1>1, <1>2, <1>5, <1>6 DEF Held, Once
  <2> QED
    BY <2>1, <2>2 DEF Held
<1>8. Once(d)
  <2> SUFFICES ASSUME NEW k \in DOMAIN d, NEW m \in DOMAIN d, d[k] = d[m] PROVE k = m
    BY DEF Once
  <2> DEFINE at(z) == IF z < i THEN z ELSE z + 1
  <2>1. \A z \in DOMAIN d : at(z) \in DOMAIN q /\ d[z] = q[at(z)]
    BY <1>1, <1>2, <1>5, <1>6
  <2>2. at(k) = at(m)
    BY <2>1 DEF Once
  <2> QED
    BY <1>2, <1>6, <2>2
<1> QED
  BY <1>3, <1>5, <1>7, <1>8

\* The first cell leaves the queue.
LEMMA FirstOut ==
  ASSUME NEW q \in Seq(Tx), q # <<>>, Once(q)
  PROVE  /\ Tail(q) \in Seq(Tx) /\ Len(Tail(q)) = Len(q) - 1 /\ q[1] \in Held(q)
         /\ Held(Tail(q)) = Held(q) \ {q[1]} /\ Once(Tail(q))
<1> DEFINE d == Tail(q)
<1>1. /\ Len(q) \in Nat \ {0} /\ DOMAIN q = 1 .. Len(q)
  BY LenProperties, EmptySeq
<1>2. d \in Seq(Tx) /\ Len(d) = Len(q) - 1 /\ \A k \in 1 .. Len(d) : d[k] = q[k + 1]
  BY HeadTailProperties
<1> HIDE DEF d
<1>3. DOMAIN d = 1 .. Len(q) - 1
  BY <1>2, LenProperties
<1>4. \A k \in DOMAIN q : q[k] # q[1] => q[k] \in Held(d)
  <2> SUFFICES ASSUME NEW k \in DOMAIN q, q[k] # q[1] PROVE q[k] \in Held(d)
    OBVIOUS
  <2>1. k - 1 \in DOMAIN d /\ q[k] = d[k - 1]
    BY <1>1, <1>2, <1>3
  <2> QED
    BY <2>1 DEF Held
<1>5. \A k \in DOMAIN d : d[k] \in Held(q) /\ d[k] # q[1]
  BY <1>1, <1>2, <1>3 DEF Held, Once
<1>6. Held(d) = Held(q) \ {q[1]}
  BY <1>4, <1>5 DEF Held
<1>7. Once(d)
  BY <1>1, <1>2, <1>3 DEF Once
<1>8. q[1] \in Held(q)
  BY <1>1 DEF Held
<1> QED
  BY <1>2, <1>6, <1>7, <1>8 DEF d

-----------------------------------------------------------------------------
(* The block queues.                                                           *)

\* From the first block made to the last.
Sorted(q) == \A i, k \in DOMAIN q : i < k => q[i] < q[k]

\* The blocks behind the first one of a queue.
Rest(q) == {q[i] : i \in 2 .. Len(q)}

\* What a queue q, whose first block is served to s and on its way to c, owes to
\* the nodes O, which it is for: while none is served, all of it is still for all.
Owed(q, s, c, O) == IF s = {} THEN O \X Held(q) ELSE ((s \ {c}) \X {q[1]}) \cup O \X Rest(q)

\* What is pending at m is what its queue owes.
LEMMA PendingIs ==
  ASSUME NEW m \in Node, queue[m] \in Seq(Nat)
  PROVE  Pending(m) = Owed(queue[m], serving[m], call[m], Others(m))
<1>1. DOMAIN queue[m] = 1 .. Len(queue[m])
  BY LenProperties
<1>2. Waiting(m) = IF serving[m] = {} THEN Held(queue[m]) ELSE Rest(queue[m])
  BY <1>1 DEF Waiting, Held, Rest
<1> QED
  BY <1>2 DEF Pending, Owed

\* A block is put behind the others.
LEMMA Appending ==
  ASSUME NEW S \in SUBSET Nat, NEW q \in Seq(S), NEW b \in S
  PROVE  LET r == Append(q, b)
         IN /\ r \in Seq(S) /\ r # <<>> /\ Len(r) = Len(q) + 1 /\ r[Len(r)] = b
            /\ r[1] = IF q = <<>> THEN b ELSE q[1]
            /\ Held(r) = Held(q) \cup {b}
            /\ Rest(r) = IF q = <<>> THEN {} ELSE Rest(q) \cup {b}
            /\ Sorted(q) /\ (\A c \in Held(q) : c < b) => Sorted(r)
<1> DEFINE r == Append(q, b)
<1>1. /\ r \in Seq(S) /\ r # <<>> /\ Len(r) = Len(q) + 1 /\ r[Len(q) + 1] = b
      /\ \A i \in 1 .. Len(q) : r[i] = q[i]
  BY AppendProperties
<1>2. /\ Len(q) \in Nat /\ DOMAIN q = 1 .. Len(q) /\ (q = <<>> <=> Len(q) = 0)
  BY LenProperties, EmptySeq
<1>3. DOMAIN r = 1 .. Len(q) + 1
  BY <1>1, LenProperties
<1> HIDE DEF r
<1>4. r[1] = IF q = <<>> THEN b ELSE q[1]
  BY <1>1, <1>2
<1>5. Held(r) = Held(q) \cup {b}
  <2>1. \A i \in DOMAIN q : i \in DOMAIN r /\ r[i] = q[i]
    BY <1>1, <1>2, <1>3
  <2>2. Len(q) + 1 \in DOMAIN r
    BY <1>2, <1>3
  <2>3. \A i \in DOMAIN r : r[i] \in Held(q) \cup {b}
    BY <1>1, <1>2, <1>3 DEF Held
  <2> QED
    BY <1>1, <2>1, <2>2, <2>3 DEF Held
<1>6. Rest(r) = IF q = <<>> THEN {} ELSE Rest(q) \cup {b}
  <2>1. CASE q = <<>>
    BY <1>1, <1>2, <2>1 DEF Rest
  <2>2. CASE q # <<>>
    <3>1. \A i \in 2 .. Len(q) : i \in 2 .. Len(r) /\ r[i] = q[i]
      BY <1>1, <1>2
    <3>2. Len(q) + 1 \in 2 .. Len(r)
      BY <1>1, <1>2, <2>2
    <3>3. \A i \in 2 .. Len(r) : r[i] \in Rest(q) \cup {b}
      BY <1>1, <1>2 DEF Rest
    <3>4. Rest(r) = Rest(q) \cup {b}
      BY <1>1, <3>1, <3>2, <3>3 DEF Rest
    <3> QED
      BY <2>2, <3>4
  <2> QED
    BY <2>1, <2>2
<1>7. ASSUME Sorted(q), \A c \in Held(q) : c < b PROVE Sorted(r)
  <2> SUFFICES ASSUME NEW i \in DOMAIN r, NEW k \in DOMAIN r, i < k PROVE r[i] < r[k]
    BY DEF Sorted
  <2>1. i \in DOMAIN q /\ r[i] = q[i]
    BY <1>1, <1>2, <1>3
  <2>2. CASE k = Len(q) + 1
    BY <1>1, <1>7, <2>1, <2>2 DEF Held
  <2>3. CASE k # Len(q) + 1
    BY <1>1, <1>2, <1>3, <1>7, <2>1, <2>3 DEF Sorted
  <2> QED
    BY <2>2, <2>3
<1>8. r[Len(r)] = b
  BY <1>1
<1> QED
  BY <1>1, <1>4, <1>5, <1>6, <1>7, <1>8 DEF r

\* The first block leaves the queue.
LEMMA Shifting ==
  ASSUME NEW S \in SUBSET Nat, NEW q \in Seq(S), q # <<>>
  PROVE  LET r == Tail(q)
         IN /\ r \in Seq(S) /\ Len(q) \in Nat \ {0} /\ (r = <<>> <=> Len(q) = 1)
            /\ Held(r) = Rest(q) /\ Held(q) = {q[1]} \cup Rest(q)
            /\ Len(q) > 1 => Rest(q) = {r[1]} \cup Rest(r) /\ r[Len(r)] = q[Len(q)]
            /\ Len(q) = 1 => Rest(q) = {}
            /\ Sorted(q) => Sorted(r) /\ q[1] \notin Rest(q)
<1> DEFINE r == Tail(q)
<1>1. r \in Seq(S) /\ Len(r) = Len(q) - 1 /\ \A i \in 1 .. Len(r) : r[i] = q[i + 1]
  BY HeadTailProperties
<1>2. Len(q) \in Nat \ {0} /\ DOMAIN q = 1 .. Len(q)
  BY LenProperties, EmptySeq
<1>3. DOMAIN r = 1 .. Len(q) - 1 /\ (r = <<>> <=> Len(r) = 0)
  BY <1>1, LenProperties, EmptySeq
<1> HIDE DEF r
<1>4. Held(r) = Rest(q)
  <2>1. \A i \in DOMAIN r : i + 1 \in 2 .. Len(q) /\ r[i] = q[i + 1]
    BY <1>1, <1>2, <1>3
  <2>2. ASSUME NEW i \in 2 .. Len(q) PROVE i - 1 \in DOMAIN r /\ q[i] = r[i - 1]
    BY <1>1, <1>2, <1>3
  <2> QED
    BY <2>1, <2>2 DEF Held, Rest
<1>5. Held(q) = {q[1]} \cup Rest(q)
  <2>1. 1 \in DOMAIN q /\ \A i \in DOMAIN q : i = 1 \/ i \in 2 .. Len(q)
    BY <1>2
  <2>2. \A i \in 2 .. Len(q) : i \in DOMAIN q
    BY <1>2
  <2> QED
    BY <2>1, <2>2 DEF Held, Rest
<1>6. ASSUME Len(q) > 1 PROVE Rest(q) = {r[1]} \cup Rest(r) /\ r[Len(r)] = q[Len(q)]
  <2>1. 1 \in DOMAIN r /\ (\A i \in DOMAIN r : i = 1 \/ i \in 2 .. Len(r)) /\ \A i \in 2 .. Len(r) : i \in DOMAIN r
    BY <1>1, <1>2, <1>3, <1>6
  <2>2. Held(r) = {r[1]} \cup Rest(r)
    BY <2>1 DEF Held, Rest
  <2>3. Len(r) \in 1 .. Len(r) /\ Len(r) + 1 = Len(q)
    BY <1>1, <1>2, <1>6
  <2> QED
    BY <1>1, <1>4, <2>2, <2>3
<1>7. ASSUME Len(q) = 1 PROVE Rest(q) = {}
  BY <1>7 DEF Rest
<1>8. ASSUME Sorted(q) PROVE Sorted(r) /\ q[1] \notin Rest(q)
  <2>1. Sorted(r)
    <3> SUFFICES ASSUME NEW i \in DOMAIN r, NEW k \in DOMAIN r, i < k PROVE r[i] < r[k]
      BY DEF Sorted
    <3>1. i + 1 \in DOMAIN q /\ k + 1 \in DOMAIN q /\ i + 1 < k + 1
      BY <1>2, <1>3
    <3>2. q[i + 1] < q[k + 1]
      BY <1>8, <3>1 DEF Sorted
    <3> QED
      BY <1>1, <1>3, <3>2
  <2>2. ASSUME NEW i \in 2 .. Len(q), q[1] = q[i] PROVE FALSE
    <3>1. 1 \in DOMAIN q /\ i \in DOMAIN q /\ 1 < i
      BY <1>2
    <3>2. q[1] < q[i] /\ q[1] \in Nat
      BY <1>8, <3>1, ElementOfSeq, <1>2 DEF Sorted
    <3> QED
      BY <2>2, <3>2
  <2> QED
    BY <2>1, <2>2 DEF Rest
<1>9. r = <<>> <=> Len(q) = 1
  BY <1>1, <1>2, <1>3
<1> QED
  BY <1>1, <1>2, <1>4, <1>5, <1>6, <1>7, <1>8, <1>9 DEF r

\* The blocks of a queue.
LEMMA HeldIs == \A q \in Seq(Nat) : q # <<>> => Held(q) = {q[1]} \cup Rest(q)
<1> SUFFICES ASSUME NEW q \in Seq(Nat), q # <<>> PROVE Held(q) = {q[1]} \cup Rest(q)
  OBVIOUS
<1>1. Nat \in SUBSET Nat
  OBVIOUS
<1> QED
  BY <1>1, Shifting

\* An empty queue.
LEMMA NoBlocks == Held(<<>>) = {} /\ Rest(<<>>) = {} /\ Sorted(<<>>)
BY EmptySeq, LenProperties DEF Held, Rest, Sorted

\* A number that is not zero is one, or more than one.
LEMMA OneOrMore == \A l \in Nat \ {0} : l = 1 \/ l > 1
OBVIOUS

\* A new block is owed to every other node, besides what was owed before.
LEMMA OwedOfNew ==
  ASSUME NEW q \in Seq(Nat), NEW b \in Nat, NEW O, NEW s, NEW c, s # {} => q # <<>>
  PROVE  Owed(Append(q, b), s, c, O) = Owed(q, s, c, O) \cup O \X {b}
<1> DEFINE r == Append(q, b)
<1>1. /\ r # <<>> /\ (q # <<>> => r[1] = q[1] /\ Rest(r) = Rest(q) \cup {b})
      /\ Held(r) = Held(q) \cup {b}
  BY Appending
<1> HIDE DEF r
<1>2. Owed(r, s, c, O) = Owed(q, s, c, O) \cup O \X {b}
  BY <1>1 DEF Owed
<1> QED
  BY <1>2 DEF r

\* A block that is taken is owed to the same nodes.
LEMMA OwedOfTaken ==
  ASSUME NEW q \in Seq(Nat), q # <<>>, NEW O, NEW c, c \notin O
  PROVE  /\ O # {} => Owed(q, O, c, O) = Owed(q, {}, c, O)
         /\ O = {} => Owed(Tail(q), {}, c, O) = Owed(q, {}, c, O)
<1>1. Held(q) = {q[1]} \cup Rest(q) /\ O \ {c} = O
  BY Shifting
<1> QED
  BY <1>1 DEF Owed

\* A block that is on its way to p is not owed to p any more.
LEMMA OwedOfCalled ==
  ASSUME NEW q \in Seq(Nat), q # <<>>, Sorted(q), NEW O, NEW s \in SUBSET O,
         NEW p \in s, NEW c, c \notin s
  PROVE  Owed(q, s, p, O) = Owed(q, s, c, O) \ {<<p, q[1]>>}
<1>1. q[1] \notin Rest(q)
  BY Shifting
<1>2. s \ {c} = s /\ s # {}
  OBVIOUS
<1> QED
  BY <1>1, <1>2 DEF Owed

\* The end of a call changes nothing of what is owed.
LEMMA OwedOfServed ==
  ASSUME NEW q \in Seq(Nat), q # <<>>, NEW O, NEW s, s \subseteq O, NEW p, p \in s, NEW c, c \notin O
  PROVE  /\ s \ {p} # {} => Owed(q, s \ {p}, c, O) = Owed(q, s, p, O)
         /\ s \ {p} = {} => Owed(Tail(q), {}, c, O) = Owed(q, s, p, O)
<1>1. Held(Tail(q)) = Rest(q)
  BY Shifting
<1>2. (s \ {p}) \ {c} = s \ {p} /\ s # {}
  OBVIOUS
<1> QED
  BY <1>1, <1>2 DEF Owed

\* When all behind the first block is cut off, only the first is still owed.
LEMMA OwedOfCut ==
  ASSUME NEW q \in Seq(Nat), NEW O, NEW s \in SUBSET O, NEW c, s # {} => q # <<>>
  PROVE  LET r == IF s = {} THEN <<>> ELSE <<q[1]>>
             W == IF s = {} THEN Held(q) ELSE Rest(q)
         IN /\ Held(r) \subseteq Held(q) /\ Sorted(r) /\ (s # {} => r # <<>>)
            /\ Owed(r, s, c, O) \subseteq Owed(q, s, c, O)
            /\ Owed(q, s, c, O) \subseteq Owed(r, s, c, O) \cup O \X W
<1>1. CASE s = {}
  BY <1>1, NoBlocks DEF Owed
<1>2. CASE s # {}
  <2> DEFINE r == <<q[1]>>
  <2>1. /\ r # <<>> /\ Len(r) = 1 /\ r[1] = q[1] /\ DOMAIN r = 1 .. 1
    OBVIOUS
  <2>2. q[1] \in Held(q)
    BY <1>2, Shifting
  <2> HIDE DEF r
  <2>3. Held(r) = {q[1]} /\ Rest(r) = {} /\ Sorted(r)
    BY <2>1 DEF Held, Rest, Sorted
  <2>4. /\ Owed(r, s, c, O) \subseteq Owed(q, s, c, O)
        /\ Owed(q, s, c, O) \subseteq Owed(r, s, c, O) \cup O \X Rest(q)
    BY <1>2, <2>1, <2>3 DEF Owed
  <2> QED
    BY <1>2, <2>1, <2>2, <2>3, <2>4 DEF r
<1> QED
  BY <1>1, <1>2

-----------------------------------------------------------------------------
(* What has to be known besides the properties to prove them.                  *)

\* The blocks that are still to go to a node.
Due == UNION {Pending(m) : m \in Node}

\* A member is in its own list; lists are of members, and blocks are made by members.
Lists ==
    /\ \A n \in Node : known[n] \subseteq Member /\ (n \in Member => n \in known[n])
    /\ \A n \in Node : phase[n] = "out" => known[n] = {} /\ arrived[n] = {}
    /\ \A b \in 1 .. Len(made) : made[b].by \in Member
    /\ keeper \subseteq Member
    /\ \A x \in missed : x[2] \in 1 .. Len(made) /\ x[1] \in Member \ known[made[x[2]].by]

\* A queue holds blocks of its node in the order in which they were made; peers are
\* served and called only while there is a block.
QueuesSound ==
    \A m \in Node :
        /\ \A b \in Held(queue[m]) : b \in 1 .. Len(made) /\ made[b].by = m
        /\ Sorted(queue[m])
        /\ serving[m] \subseteq Others(m) /\ call[m] \in serving[m] \cup {NoNode, Failed}
        /\ serving[m] = {} => call[m] = NoNode
        /\ serving[m] # {} => queue[m] # <<>>

\* A handler runs for a block whose maker lists the node; while no two distributors of
\* a node were at work, the block is no longer in a queue, or its maker is calling with it.
CallsSound ==
    \A x \in handling :
        /\ x[2] \in 1 .. Len(made) /\ x[1] \in known[made[x[2]].by]
        /\ ~ mixed => \A m \in Node : x[2] \in Held(queue[m]) => x[2] = queue[m][1] /\ call[m] = x[1]

\* A block is behind an older one; the genesis block is everywhere; an answer waits only
\* while it is appended; and a transaction goes on only to members, from the node that
\* submits it.
BooksSound ==
    /\ \A b \in 1 .. Len(made) : made[b].prev < b
    /\ \A n \in Node :
          /\ 0 \in store[n] /\ 0 \notin answer[n]
          /\ phase[n] # "append" => answer[n] = {}
    /\ \A t \in Tx : telling[t].rest \subseteq Member /\ (telling[t].rest # {} => telling[t].by # NoNode)

\* A block is accounted for at a node.
Has(n, b) == b \in store[n] \cup answer[n] \/ <<n, b>> \in dropped \cup missed \cup Due

\* A node that synchronised in time has every block, or will have it, unless it was lost
\* or is not for it; one that did not yet has none but what it made itself.
Filled ==
    \A n \in Node \ early :
        /\ phase[n] \in {"out", "joined"} =>
              (store[n] = {0} \/ hasty) /\ \A b \in store[n] \ {0} : made[b].prev \in store[n]
        /\ phase[n] \in {"append", "in"} => \A b \in 1 .. Len(made) : Has(n, b)

\* The block in the making is of the first cell of the pool, and its maker is marked.
LockHeld ==
    \A n \in Node : packing[n] # None =>
        n \in keeper /\ pool[n] # <<>> /\ packing[n][1] = pool[n][1] /\ packing[n][2] \in store[n]

\* A bookkeeper that was not set too early has joined.
KeepersIn == ~ hasty => \A k \in keeper : phase[k] = "in"

\* While none was set too early, and no two distributors of a node were at work, there is
\* one bookkeeper, which has missed nothing; only it has blocks on their way, the newest at
\* the end; none is on its way to it, and its tail stands still while it makes one.
OneKeeper ==
    ~ hasty /\ ~ mixed =>
        /\ \A k \in keeper :
              /\ keeper = {k} /\ \A x \in handling : x[1] # k
              /\ \A x \in missed : x[1] # k
              /\ packing[k] # None => packing[k][2] = tail[k]
              /\ \A m \in Node : queue[m] # <<>> => m = k
        /\ \A m, k \in Node : queue[m] # <<>> /\ queue[k] # <<>> => m = k
        /\ \A m \in Node : queue[m] # <<>> => queue[m][Len(queue[m])] = Len(made)

\* A node that missed nothing and to which nothing is on its way has the newest block
\* last, or will.
AtEnd ==
    Calm => \A n \in Node \ (early \cup late) :
        (\A b \in 1 .. Len(made) : <<n, b>> \notin Due \cup missed) =>
            /\ phase[n] = "in" => tail[n] = Len(made)
            /\ phase[n] = "append" =>
                  IF answer[n] = {} THEN tail[n] = Len(made) ELSE Len(made) \in answer[n]

\* Blocks of makers that came in time are linked one to the other.
Linked ==
    Calm /\ (\A b \in 1 .. Len(made) : made[b].by \notin early \cup late) =>
        \A b \in 1 .. Len(made) : made[b].prev = b - 1

\* A pool holds a transaction once, of those that have come; a transaction that has
\* come to a node is not on its way there, and one in a block was submitted.
PoolsSound ==
    /\ \A n \in Node :
          /\ Once(pool[n]) /\ Held(pool[n]) \subseteq arrived[n]
          /\ \A t \in arrived[n] : telling[t].by # NoNode /\ n \notin telling[t].rest
          /\ \A t \in arrived[n] \ Held(pool[n]) : \E b \in 1 .. Len(made) : made[b].tx = t
    /\ \A b \in 1 .. Len(made) : telling[made[b].tx].by # NoNode

\* A transaction that is in a block, unless the block overtook it or is not for the node:
\* where it is in a pool, or still to come, the block is on its way; where it has come, it
\* is there until the handler of the block takes it out.
Follows(n, b) ==
    LET t == made[b].tx
    IN \/ t \in overtaken \/ <<n, b>> \in missed
       \/ /\ t \in Held(pool[n]) => <<n, b>> \in handling \cup Due
          /\ n \in telling[t].rest => <<n, b>> \in Due
          /\ <<n, b>> \in handling \cup Due /\ t \in arrived[n] => t \in Held(pool[n])
\* At every node, of every block.
InOrder == Calm => \A n \in Node : \A b \in 1 .. Len(made) : Follows(n, b)

\* The inductive invariant.
IInv ==
    /\ TypeOK /\ Lists /\ QueuesSound /\ CallsSound /\ BooksSound /\ Filled /\ LockHeld /\ KeepersIn
    /\ OneKeeper /\ AtEnd /\ Linked /\ PoolsSound /\ InOrder /\ PackedOnce

-----------------------------------------------------------------------------
(* What is on its way after a step.                                            *)

\* The types that the following needs.
LEMMA Typed ==
  ASSUME TypeOK
  PROVE  /\ Len(made) \in Nat /\ Block \in SUBSET Nat /\ made \in Seq(TableBlock)
         /\ NoNode \notin Node /\ Failed \notin Node /\ NoNode # Failed
         /\ queue \in [Node -> Seq(Block)] /\ serving \in [Node -> SUBSET Node]
         /\ call \in [Node -> Node \cup {NoNode, Failed}] /\ known \in [Node -> SUBSET Node]
         /\ phase \in [Node -> {"out", "joined", "append", "in"}]
         /\ \A m \in Node : queue[m] \in Seq(Block) /\ queue[m] \in Seq(Nat)
                            /\ Others(m) \in SUBSET Node /\ NoNode \notin Others(m)
<1>1. /\ Len(made) \in Nat /\ made \in Seq(TableBlock) /\ NoNode \notin Node /\ Failed \notin Node /\ NoNode # Failed
      /\ queue \in [Node -> Seq(Block)] /\ serving \in [Node -> SUBSET Node]
      /\ call \in [Node -> Node \cup {NoNode, Failed}] /\ known \in [Node -> SUBSET Node]
      /\ phase \in [Node -> {"out", "joined", "append", "in"}]
  BY NetAssumption, LenProperties DEF TypeOK, MembersOK, NoNode, Failed
<1>2. Block \in SUBSET Nat
  BY <1>1 DEF Block
<1>3. ASSUME NEW m \in Node
      PROVE  queue[m] \in Seq(Block) /\ queue[m] \in Seq(Nat) /\ Others(m) \in SUBSET Node /\ NoNode \notin Others(m)
  <2>1. queue[m] \in Seq(Block)
    BY <1>1
  <2> QED
    BY <1>1, <1>2, <2>1, SeqMonotonic DEF Others
<1> QED
  BY <1>1, <1>2, <1>3

\* What is pending at m after a step.
LEMMA PendingNext ==
  ASSUME NEW m \in Node, queue'[m] \in Seq(Nat)
  PROVE  Pending(m)' = Owed(queue'[m], serving'[m], call'[m], Others(m)')
<1>1. DOMAIN (queue'[m]) = 1 .. Len(queue'[m])
  BY LenProperties
<1>2. Waiting(m)' = IF serving'[m] = {} THEN Held(queue'[m]) ELSE Rest(queue'[m])
  BY <1>1 DEF Waiting, Held, Rest
<1> QED
  BY <1>2 DEF Pending, Owed

\* A step that leaves the queues, the calls and the lists leaves what is due.
LEMMA DueSame ==
  ASSUME UNCHANGED <<queue, serving, call, known>>
  PROVE  Due' = Due /\ \A m \in Node : Others(m)' = Others(m)
<1>1. \A m \in Node : Pending(m)' = Pending(m) /\ Others(m)' = Others(m)
  BY DEF Pending, Waiting, Others
<1> QED
  BY <1>1 DEF Due

\* What has not gone to a node yet is in the queue, and the node in the list.
LEMMA PendingOf ==
  ASSUME TypeOK, QueuesSound, NEW m \in Node, NEW n, NEW b, <<n, b>> \in Pending(m)
  PROVE  n \in Others(m) /\ b \in Held(queue[m]) /\ b \in 1 .. Len(made) /\ made[b].by = m
<1>1. /\ queue[m] \in Seq(Nat) /\ Nat \in SUBSET Nat
      /\ <<n, b>> \in Owed(queue[m], serving[m], call[m], Others(m))
  BY Typed, PendingIs
<1>2. serving[m] \subseteq Others(m) /\ (serving[m] # {} => queue[m] # <<>>)
  BY DEF QueuesSound
<1>3. queue[m] # <<>> => Held(queue[m]) = {queue[m][1]} \cup Rest(queue[m])
  BY <1>1, Shifting
<1>4. n \in Others(m) /\ b \in Held(queue[m])
  BY <1>1, <1>2, <1>3 DEF Owed
<1> QED
  BY <1>4 DEF QueuesSound

\* A block is owed by its maker only, to nodes that it lists.
LEMMA DueOf ==
  ASSUME TypeOK, Lists, QueuesSound, NEW n, NEW b, <<n, b>> \in Due
  PROVE  /\ b \in 1 .. Len(made) /\ made[b].by \in Node /\ n \in Member
         /\ n \in Others(made[b].by) /\ b \in Held(queue[made[b].by])
         /\ <<n, b>> \in Pending(made[b].by)
<1>1. PICK m \in Node : <<n, b>> \in Pending(m)
  BY DEF Due
<1>2. n \in Others(m) /\ b \in Held(queue[m]) /\ b \in 1 .. Len(made) /\ made[b].by = m
  BY <1>1, PendingOf
<1> QED
  BY <1>1, <1>2 DEF Others, Lists

\* A node that joins is owed what its contact still has to send.
LEMMA DueOfJoin ==
  ASSUME TypeOK, Lists, QueuesSound, NEW n \in Node, NEW c \in Node, Join(n, c)
  PROVE  Due \subseteq Due' /\ \A x \in Due' \ Due : x[1] = n
<1>1. /\ UNCHANGED <<queue, serving, call>> /\ phase[n] = "out"
      /\ known' = [known EXCEPT ![c] = @ \cup {n}, ![n] = known[c] \cup {n}]
  BY DEF Join, Enlist, sending
<1>2. /\ known \in [Node -> SUBSET Node] /\ \A m \in Node : queue[m] \in Seq(Nat)
      /\ NoNode \notin Node
  BY Typed
<1>3. Held(queue[n]) = {}
  BY <1>1 DEF QueuesSound, Lists, Member
<1>4. serving[n] = {}
  <2>1. queue[n] # <<>> => Held(queue[n]) = {queue[n][1]} \cup Rest(queue[n])
    BY <1>2, HeldIs
  <2> QED
    BY <1>3, <2>1 DEF QueuesSound
<1>5. ASSUME NEW m \in Node
      PROVE  Pending(m) \subseteq Pending(m)' /\ \A x \in Pending(m)' \ Pending(m) : x[1] = n
  <2>1. /\ Pending(m) = Owed(queue[m], serving[m], call[m], Others(m))
        /\ Pending(m)' = Owed(queue[m], serving[m], call[m], Others(m)')
    BY <1>1, <1>2, PendingIs, PendingNext
  <2>2. CASE m = n
    BY <1>3, <1>4, <2>1, <2>2 DEF Owed
  <2>3. CASE m # n
    <3>1. Others(m) \subseteq Others(m)' /\ Others(m)' \subseteq Others(m) \cup {n}
      BY <1>1, <1>2, <2>3 DEF Others
    <3> DEFINE O == Others(m)
               P == Others(m)'
    <3> HIDE DEF O, P
    <3> QED
      BY <2>1, <3>1 DEF Owed, O, P
  <2> QED
    BY <2>2, <2>3
<1> QED
  BY <1>5 DEF Due

\* A new block is owed by its maker to all in its list.
LEMMA DueOfBlock ==
  ASSUME TypeOK, QueuesSound, NEW n \in Node, AddBlock(n)
  PROVE  /\ Due' = Due \cup Others(n) \X {Len(made) + 1}
         /\ queue' \in [Node -> Seq(1 .. Len(made) + 1)] /\ QueuesSound'
         /\ \A m \in Node : Held(queue'[m]) \subseteq Held(queue[m]) \cup {Len(made) + 1}
         /\ \A m \in Node : queue[m] # <<>> => queue'[m] # <<>> /\ queue'[m][1] = queue[m][1]
         /\ \A m \in Node : m # n => queue'[m] = queue[m]
         /\ queue'[n] # <<>> /\ queue'[n][Len(queue'[n])] = Len(made) + 1
<1> DEFINE b == Len(made) + 1
           q == queue[n]
           O == Others(n)
           S == 1 .. b
           r == Append(q, b)
<1>1. /\ Len(made) \in Nat /\ b \in Nat /\ made \in Seq(TableBlock)
      /\ made' = Append(made, [tx |-> packing[n][1], prev |-> packing[n][2], by |-> n])
      /\ UNCHANGED <<serving, call, known>>
      /\ queue' = [queue EXCEPT ![n] = r]
  BY Typed DEF AddBlock, joining, members
<1>2. /\ Len(made') = b /\ \A c \in 1 .. Len(made) : made'[c] = made[c]
      /\ made'[b].by = n
  <2> DEFINE e == [tx |-> packing[n][1], prev |-> packing[n][2], by |-> n]
  <2>1. /\ Len(Append(made, e)) = b /\ Append(made, e)[b] = e
        /\ \A c \in 1 .. Len(made) : Append(made, e)[c] = made[c]
    BY <1>1
  <2>2. e.by = n
    OBVIOUS
  <2> QED
    BY <1>1, <2>1, <2>2
<1>3. \A m \in Node : Others(m)' = Others(m)
  BY <1>1 DEF Others
<1>4. \A m \in Node : queue[m] \in Seq(S) /\ \A c \in Held(queue[m]) : c \in 1 .. Len(made) /\ c < b
  <2> SUFFICES ASSUME NEW m \in Node PROVE queue[m] \in Seq(S) /\ \A c \in Held(queue[m]) : c \in 1 .. Len(made) /\ c < b
    OBVIOUS
  <2>1. queue[m] \in Seq(Block) /\ \A c \in Held(queue[m]) : c \in 1 .. Len(made)
    BY Typed DEF QueuesSound
  <2>2. \A i \in 1 .. Len(queue[m]) : queue[m][i] \in S
    <3>1. DOMAIN queue[m] = 1 .. Len(queue[m])
      BY <2>1, LenProperties
    <3>2. \A i \in 1 .. Len(queue[m]) : queue[m][i] \in 1 .. Len(made)
      BY <2>1, <3>1 DEF Held
    <3> QED
      BY <1>1, <3>2
  <2>3. queue[m] \in Seq(S)
    BY <2>1, <2>2, LenProperties, SeqDef
  <2> QED
    BY <1>1, <2>1, <2>3
<1>5. /\ queue \in [Node -> Seq(Block)] /\ \A m \in Node : queue[m] \in Seq(Nat)
      /\ Sorted(q) /\ (serving[n] # {} => q # <<>>)
  BY Typed DEF QueuesSound
<1>6. /\ r \in Seq(S) /\ r # <<>> /\ r[Len(r)] = b
      /\ r[1] = (IF q = <<>> THEN b ELSE q[1])
      /\ Held(r) = Held(q) \cup {b} /\ Sorted(r)
  <2>1. (\A c \in Held(q) : c < b) /\ S \in SUBSET Nat /\ b \in S /\ q \in Seq(S)
    BY <1>1, <1>4
  <2> HIDE DEF S, b, q
  <2> QED
    BY <1>5, <2>1, Appending
<1>7. Owed(r, serving[n], call[n], O) = Owed(q, serving[n], call[n], O) \cup O \X {b}
  <2> HIDE DEF b, q, O
  <2> QED
    BY <1>1, <1>5, OwedOfNew DEF q
<1> HIDE DEF O, S, q, r
<1>8. /\ queue'[n] = r /\ \A m \in Node : m # n => queue'[m] = queue[m]
      /\ queue' \in [Node -> Seq(S)]
  BY <1>1, <1>4, <1>5, <1>6
<1>9. \A m \in Node : queue'[m] \in Seq(Nat)
  <2>1. S \in SUBSET Nat
    BY <1>1 DEF S
  <2> QED
    BY <1>8, <2>1, SeqMonotonic
<1>10. Pending(n)' = Pending(n) \cup O \X {b}
  <2>1. /\ Pending(n)' = Owed(r, serving[n], call[n], O)
        /\ Pending(n) = Owed(q, serving[n], call[n], O)
    BY <1>1, <1>3, <1>5, <1>8, <1>9, PendingIs, PendingNext DEF q, O
  <2> QED
    BY <1>7, <2>1
<1>11. ASSUME NEW m \in Node, m # n PROVE Pending(m)' = Pending(m)
  <2>1. Pending(m)' = Owed(queue[m], serving[m], call[m], Others(m))
    BY <1>1, <1>3, <1>8, <1>9, <1>11, PendingNext
  <2> QED
    BY <1>5, <2>1, PendingIs
<1>12. Due' = Due \cup O \X {b}
  BY <1>10, <1>11 DEF Due
<1>13. QueuesSound'
  <2> SUFFICES ASSUME NEW m \in Node
               PROVE  /\ \A c \in Held(queue'[m]) : c \in 1 .. b /\ made'[c].by = m
                      /\ Sorted(queue'[m])
                      /\ serving[m] # {} => queue'[m] # <<>>
    BY <1>1, <1>2, <1>3 DEF QueuesSound
  <2>1. \A c \in Held(queue[m]) : c \in 1 .. b /\ made'[c].by = m
    BY <1>1, <1>2, <1>4 DEF QueuesSound
  <2>2. CASE m = n
    <3>1. \A c \in Held(r) : c \in 1 .. b /\ made'[c].by = n
      BY <1>1, <1>2, <1>6, <2>1, <2>2 DEF q
    <3> QED
      BY <1>6, <1>8, <2>2, <3>1
  <2>3. CASE m # n
    BY <1>8, <2>1, <2>3 DEF QueuesSound
  <2> QED
    BY <2>2, <2>3
<1> QED
  BY <1>6, <1>8, <1>12, <1>13 DEF O, S, q

\* What a step that is about the queue of m only leaves of the others.
LEMMA OthersSame ==
  ASSUME TypeOK, QueuesSound, NEW m \in Node, UNCHANGED <<made, known>>,
         queue' \in [Node -> Seq(Block)], serving'[m] \subseteq Others(m),
         call'[m] \in serving'[m] \cup {NoNode, Failed},
         serving'[m] = {} => call'[m] = NoNode, serving'[m] # {} => queue'[m] # <<>>,
         Held(queue'[m]) \subseteq Held(queue[m]), Sorted(queue'[m]),
         \A k \in Node : k # m => queue'[k] = queue[k] /\ serving'[k] = serving[k] /\ call'[k] = call[k]
  PROVE  /\ QueuesSound' /\ \A k \in Node : k # m => Pending(k)' = Pending(k)
         /\ \A k \in Node : queue'[k] \in Seq(Nat) /\ Others(k)' = Others(k)
<1>1. \A k \in Node : queue'[k] \in Seq(Nat) /\ queue[k] \in Seq(Nat) /\ Others(k)' = Others(k)
  BY Typed, SeqMonotonic DEF Others
<1>2. \A k \in Node : k # m => Pending(k)' = Pending(k)
  BY <1>1, PendingIs, PendingNext
<1>3. QueuesSound'
  <2> SUFFICES ASSUME NEW k \in Node
               PROVE  /\ \A c \in Held(queue'[k]) : c \in 1 .. Len(made) /\ made[c].by = k
                      /\ Sorted(queue'[k])
                      /\ serving'[k] \subseteq Others(k) /\ call'[k] \in serving'[k] \cup {NoNode, Failed}
                      /\ serving'[k] = {} => call'[k] = NoNode
                      /\ serving'[k] # {} => queue'[k] # <<>>
    BY <1>1 DEF QueuesSound
  <2>1. CASE k = m
    BY <2>1 DEF QueuesSound
  <2>2. CASE k # m
    BY <2>2 DEF QueuesSound
  <2> QED
    BY <2>1, <2>2
<1> QED
  BY <1>1, <1>2, <1>3

\* The distributor takes a block: it is owed to the same nodes.
LEMMA DueOfTake ==
  ASSUME TypeOK, QueuesSound, NEW m \in Node, TakeBlock(m)
  PROVE  /\ Due' = Due /\ QueuesSound'
         /\ queue' \in [Node -> Seq(Block)] /\ serving' \in [Node -> SUBSET Node]
         /\ \A k \in Node : k # m => queue'[k] = queue[k]
         /\ Held(queue'[m]) \subseteq Held(queue[m])
         /\ queue'[m] # <<>> => queue[m] # <<>> /\ queue'[m][Len(queue'[m])] = queue[m][Len(queue[m])]
         /\ call[m] = NoNode
<1> DEFINE q == queue[m]
           O == Others(m)
           r == IF O = {} THEN Tail(q) ELSE q
<1>1. /\ q # <<>> /\ serving[m] = {} /\ UNCHANGED <<made, known, call>>
      /\ serving' = [serving EXCEPT ![m] = O] /\ queue' = [queue EXCEPT ![m] = r]
  <2>1. /\ queue \in [Node -> Seq(Block)]
        /\ q # <<>> /\ serving[m] = {} /\ UNCHANGED <<made, known, call>>
        /\ serving' = [serving EXCEPT ![m] = O]
        /\ queue' = IF O = {} THEN [queue EXCEPT ![m] = Tail(@)] ELSE queue
    BY Typed DEF TakeBlock, ledger, joining, members
  <2> QED
    BY <2>1
<1>2. /\ queue \in [Node -> Seq(Block)] /\ serving \in [Node -> SUBSET Node] /\ Block \in SUBSET Nat
      /\ q \in Seq(Block) /\ q \in Seq(Nat) /\ O \in SUBSET Node /\ NoNode \notin O
  BY Typed
<1>3. Sorted(q) /\ call[m] = NoNode
  BY <1>1 DEF QueuesSound
<1>4. /\ r \in Seq(Block) /\ Held(r) \subseteq Held(q) /\ Sorted(r)
      /\ r # <<>> => r[Len(r)] = q[Len(q)]
  <2> HIDE DEF q
  <2>1. /\ Tail(q) \in Seq(Block) /\ Len(q) \in Nat \ {0} /\ (Tail(q) = <<>> <=> Len(q) = 1)
        /\ Held(Tail(q)) = Rest(q) /\ Held(q) = {q[1]} \cup Rest(q) /\ Sorted(Tail(q))
        /\ Len(q) > 1 => Tail(q)[Len(Tail(q))] = q[Len(q)]
    BY <1>1, <1>2, <1>3, Shifting
  <2>2. Len(q) = 1 \/ Len(q) > 1
    BY <2>1
  <2> QED
    BY <1>2, <1>3, <2>1, <2>2
<1>5. Owed(r, O, NoNode, O) = Owed(q, {}, NoNode, O)
  <2> HIDE DEF q, O
  <2> QED
    BY <1>1, <1>2, OwedOfTaken
<1> HIDE DEF r, q, O
<1>6. /\ queue'[m] = r /\ serving'[m] = O /\ queue' \in [Node -> Seq(Block)] /\ serving' \in [Node -> SUBSET Node]
      /\ \A k \in Node : k # m => queue'[k] = queue[k] /\ serving'[k] = serving[k] /\ call'[k] = call[k]
  BY <1>1, <1>2, <1>4
<1>7. O # {} => r # <<>>
  BY <1>1 DEF r
<1>8. /\ QueuesSound' /\ \A k \in Node : k # m => Pending(k)' = Pending(k)
      /\ \A k \in Node : queue'[k] \in Seq(Nat) /\ Others(k)' = Others(k)
  <2>1. /\ UNCHANGED <<made, known>> /\ queue' \in [Node -> Seq(Block)]
        /\ serving'[m] \subseteq Others(m) /\ call'[m] \in serving'[m] \cup {NoNode, Failed}
        /\ serving'[m] = {} => call'[m] = NoNode
        /\ serving'[m] # {} => queue'[m] # <<>>
        /\ Held(queue'[m]) \subseteq Held(queue[m]) /\ Sorted(queue'[m])
    BY <1>1, <1>3, <1>4, <1>6, <1>7 DEF q, O
  <2> QED
    BY <1>6, <2>1, OthersSame
<1>9. Pending(m)' = Pending(m)
  <2>1. /\ Pending(m)' = Owed(r, O, NoNode, O)
        /\ Pending(m) = Owed(q, {}, NoNode, O)
    BY <1>1, <1>2, <1>3, <1>6, <1>8, PendingIs, PendingNext DEF q, O
  <2> QED
    BY <1>5, <2>1
<1>10. Due' = Due
  BY <1>8, <1>9 DEF Due
<1> QED
  BY <1>1, <1>3, <1>4, <1>6, <1>8, <1>10 DEF q

\* The block that a peer is called with is owed to it no more.
LEMMA DueOfCall ==
  ASSUME TypeOK, QueuesSound, NEW m \in Node, NEW p \in Node,
         queue[m] # <<>>, p \in serving[m], call[m] = NoNode,
         call' = [call EXCEPT ![m] = p], UNCHANGED <<queue, serving, known, made>>
  PROVE  /\ Due' = Due \ {<<p, queue[m][1]>>} /\ <<p, queue[m][1]>> \in Due
         /\ queue[m][1] \in 1 .. Len(made) /\ made[queue[m][1]].by = m
         /\ p \in Others(m) /\ QueuesSound'
<1> DEFINE q == queue[m]
           x == <<p, q[1]>>
<1>1. /\ serving[m] \in SUBSET Others(m) /\ Sorted(q) /\ p \in Others(m)
      /\ call \in [Node -> Node \cup {NoNode, Failed}] /\ NoNode \notin Node
      /\ Others(m) \subseteq Node /\ q \in Seq(Nat) /\ queue \in [Node -> Seq(Block)]
  BY Typed DEF QueuesSound
<1>2. q[1] \in Held(q) /\ q[1] \in 1 .. Len(made) /\ made[q[1]].by = m
  <2>1. q[1] \in Held(q)
    BY <1>1, Shifting
  <2> QED
    BY <2>1 DEF QueuesSound
<1>3. call'[m] = p /\ \A k \in Node : k # m => call'[k] = call[k]
  BY <1>1
<1>4. /\ QueuesSound' /\ \A k \in Node : k # m => Pending(k)' = Pending(k)
      /\ \A k \in Node : queue'[k] \in Seq(Nat) /\ Others(k)' = Others(k)
  <2>1. /\ serving'[m] \subseteq Others(m) /\ call'[m] \in serving'[m] \cup {NoNode, Failed}
        /\ serving'[m] # {} /\ queue'[m] # <<>> /\ Held(queue'[m]) \subseteq Held(queue[m]) /\ Sorted(queue'[m])
    BY <1>1, <1>3
  <2> QED
    BY <1>1, <1>3, <2>1, OthersSame
<1>5. Pending(m)' = Pending(m) \ {x} /\ x \in Pending(m)
  <2>1. Owed(q, serving[m], p, Others(m)) = Owed(q, serving[m], NoNode, Others(m)) \ {x}
    <3> DEFINE s == serving[m]
               O == Others(m)
    <3>1. NoNode \notin s /\ s \in SUBSET O /\ p \in s /\ q # <<>> /\ q \in Seq(Nat) /\ Sorted(q)
      BY <1>1
    <3> HIDE DEF s, O, q
    <3>2. Owed(q, s, p, O) = Owed(q, s, NoNode, O) \ {<<p, q[1]>>}
      BY <3>1, OwedOfCalled
    <3> QED
      BY <3>2 DEF s, O, q
  <2>2. Pending(m)' = Owed(q, serving[m], p, Others(m))
    BY <1>1, <1>3, <1>4, PendingNext
  <2>3. Pending(m) = Owed(q, serving[m], NoNode, Others(m))
    BY <1>1, PendingIs
  <2>4. x \in Owed(q, serving[m], NoNode, Others(m))
    BY <1>1 DEF Owed
  <2> QED
    BY <2>1, <2>2, <2>3, <2>4
<1>6. ASSUME NEW k \in Node, k # m PROVE x \notin Pending(k)
  BY <1>2, <1>6, PendingOf
<1>7. Due' = Due \ {x} /\ x \in Due
  <2> HIDE DEF x
  <2> QED
    BY <1>4, <1>5, <1>6 DEF Due
<1> QED
  BY <1>1, <1>2, <1>4, <1>7

\* The end of a call: nobody is owed anything more or less.
LEMMA DueOfReturn ==
  ASSUME TypeOK, QueuesSound, NEW m \in Node, NEW p \in Node, call[m] = p,
         Served(m, p), UNCHANGED <<known, made>>
  PROVE  /\ Due' = Due /\ QueuesSound'
         /\ queue' \in [Node -> Seq(Block)] /\ serving' \in [Node -> SUBSET Node]
         /\ call' \in [Node -> Node \cup {NoNode, Failed}]
         /\ \A k \in Node : k # m => queue'[k] = queue[k] /\ call'[k] = call[k]
         /\ Held(queue'[m]) \subseteq Held(queue[m])
         /\ Sorted(queue[m]) /\ queue[m] # <<>> /\ (queue'[m] # <<>> /\ queue'[m] # queue[m] => Held(queue'[m]) = Rest(queue[m]))
         /\ queue'[m] # <<>> => queue'[m][Len(queue'[m])] = queue[m][Len(queue[m])]
<1> DEFINE q == queue[m]
           s == serving[m]
           O == Others(m)
           r == IF s \ {p} = {} THEN Tail(q) ELSE q
<1>1. /\ queue \in [Node -> Seq(Block)] /\ serving \in [Node -> SUBSET Node]
      /\ call \in [Node -> Node \cup {NoNode, Failed}]
      /\ NoNode \notin Node /\ Failed \notin Node /\ NoNode # Failed
      /\ O \in SUBSET Node /\ NoNode \notin O /\ Block \in SUBSET Nat
      /\ q \in Seq(Block) /\ q \in Seq(Nat)
  BY Typed
<1>2. /\ q # <<>> /\ Sorted(q) /\ s \in SUBSET O /\ p \in s
  BY <1>1 DEF QueuesSound
<1>3. /\ r \in Seq(Block) /\ Held(r) \subseteq Held(q) /\ Sorted(r)
      /\ r # <<>> => r[Len(r)] = q[Len(q)]
      /\ r # q => Held(r) = Rest(q)
  <2> HIDE DEF q
  <2>1. /\ Tail(q) \in Seq(Block) /\ Len(q) \in Nat \ {0} /\ (Tail(q) = <<>> <=> Len(q) = 1)
        /\ Held(Tail(q)) = Rest(q) /\ Held(q) = {q[1]} \cup Rest(q) /\ Sorted(Tail(q))
        /\ Len(q) > 1 => Tail(q)[Len(Tail(q))] = q[Len(q)]
    BY <1>1, <1>2, Shifting
  <2>2. Len(q) = 1 \/ Len(q) > 1
    BY <2>1
  <2> QED
    BY <1>1, <1>2, <2>1, <2>2
<1>4. Owed(r, s \ {p}, NoNode, O) = Owed(q, s, p, O)
  <2>1. q # <<>> /\ q \in Seq(Nat) /\ s \subseteq O /\ p \in s /\ NoNode \notin O
    BY <1>1, <1>2
  <2> HIDE DEF q, s, O, r
  <2>2. /\ s \ {p} # {} => Owed(q, s \ {p}, NoNode, O) = Owed(q, s, p, O)
        /\ s \ {p} = {} => Owed(Tail(q), {}, NoNode, O) = Owed(q, s, p, O)
    BY <2>1, OwedOfServed
  <2>3. r = IF s \ {p} = {} THEN Tail(q) ELSE q
    BY DEF r
  <2> QED
    BY <2>2, <2>3
<1>5. /\ queue' = [queue EXCEPT ![m] = r] /\ serving' = [serving EXCEPT ![m] = s \ {p}]
      /\ call' = [call EXCEPT ![m] = NoNode]
  <2>1. /\ queue' = IF s \ {p} = {} THEN [queue EXCEPT ![m] = Tail(@)] ELSE queue
        /\ serving' = [serving EXCEPT ![m] = s \ {p}] /\ call' = [call EXCEPT ![m] = NoNode]
    BY DEF Served
  <2> QED
    BY <1>1, <2>1
<1>6. s \ {p} # {} => r # <<>>
  BY <1>2
<1> HIDE DEF r, q, s, O
<1>7. /\ queue'[m] = r /\ serving'[m] = s \ {p} /\ call'[m] = NoNode
      /\ queue' \in [Node -> Seq(Block)] /\ serving' \in [Node -> SUBSET Node]
      /\ call' \in [Node -> Node \cup {NoNode, Failed}]
      /\ \A k \in Node : k # m => queue'[k] = queue[k] /\ serving'[k] = serving[k] /\ call'[k] = call[k]
  BY <1>1, <1>2, <1>3, <1>5
<1>8. /\ QueuesSound' /\ \A k \in Node : k # m => Pending(k)' = Pending(k)
      /\ \A k \in Node : queue'[k] \in Seq(Nat) /\ Others(k)' = Others(k)
  <2>1. /\ serving'[m] \subseteq Others(m) /\ call'[m] \in serving'[m] \cup {NoNode, Failed}
        /\ call'[m] = NoNode
        /\ serving'[m] # {} => queue'[m] # <<>>
        /\ Held(queue'[m]) \subseteq Held(queue[m]) /\ Sorted(queue'[m])
    BY <1>2, <1>3, <1>6, <1>7 DEF q, O
  <2> QED
    BY <1>7, <2>1, OthersSame
<1>9. Pending(m)' = Pending(m)
  <2>1. /\ Pending(m)' = Owed(r, s \ {p}, NoNode, O)
        /\ Pending(m) = Owed(q, s, p, O)
    BY <1>1, <1>7, <1>8, PendingIs, PendingNext DEF q, O, s
  <2> QED
    BY <1>4, <2>1
<1>10. Due' = Due
  BY <1>8, <1>9 DEF Due
<1> QED
  BY <1>2, <1>3, <1>7, <1>8, <1>10 DEF q

\* What is cut off is dropped, and nothing else that was owed.
LEMMA DueOfCut ==
  ASSUME TypeOK, QueuesSound, NEW m \in Node, CutOff(m)
  PROVE  /\ Due' \subseteq Due /\ Due \subseteq Due' \cup dropped' /\ QueuesSound'
         /\ queue' \in [Node -> Seq(Block)] /\ dropped' \subseteq Node \X Block /\ dropped \subseteq dropped'
         /\ \A k \in Node : Held(queue'[k]) \subseteq Held(queue[k])
<1> DEFINE q == queue[m]
           s == serving[m]
           O == Others(m)
           r == IF s = {} THEN <<>> ELSE <<q[1]>>
           W == IF s = {} THEN Held(q) ELSE Rest(q)
<1>1. /\ UNCHANGED <<made, known, serving, call>> /\ queue' = [queue EXCEPT ![m] = r]
      /\ dropped' = dropped \cup Others(m) \X Waiting(m)
  BY DEF CutOff, ledger, joining, members
<1>2. /\ queue \in [Node -> Seq(Block)] /\ serving \in [Node -> SUBSET Node]
      /\ O \in SUBSET Node /\ Block \in SUBSET Nat /\ q \in Seq(Block) /\ q \in Seq(Nat)
      /\ dropped \subseteq Node \X Block
  BY Typed DEF TypeOK
<1>3. s \in SUBSET O /\ (s # {} => q # <<>>) /\ \A b \in Held(q) : b \in 1 .. Len(made)
  BY DEF QueuesSound
<1>4. /\ Held(r) \subseteq Held(q) /\ Sorted(r) /\ (s # {} => r # <<>>)
      /\ Owed(r, s, call[m], O) \subseteq Owed(q, s, call[m], O)
      /\ Owed(q, s, call[m], O) \subseteq Owed(r, s, call[m], O) \cup O \X W
  <2> HIDE DEF q, s, O
  <2> QED
    BY <1>2, <1>3, OwedOfCut
<1>5. r \in Seq(Block) /\ W \subseteq Held(q) /\ W = Waiting(m)
  <2>1. s # {} => q[1] \in Block /\ Held(q) = {q[1]} \cup Rest(q)
    <3>1. s # {} => Held(q) = {q[1]} \cup Rest(q)
      BY <1>2, <1>3, HeldIs
    <3> HIDE DEF q, s
    <3>2. s # {} => q[1] \in 1 .. Len(made)
      BY <1>3, <3>1
    <3>3. \A b \in 1 .. Len(made) : b \in Block
      BY DEF Block
    <3> QED
      BY <3>1, <3>2, <3>3
  <2>2. r \in Seq(Block)
    <3>1. CASE s = {}
      BY <3>1, EmptySeq
    <3>2. CASE s # {}
      BY <2>1, <3>2
    <3> QED
      BY <3>1, <3>2
  <2>3. DOMAIN q = 1 .. Len(q)
    BY <1>2, LenProperties
  <2>4. W = Waiting(m)
    BY <2>3 DEF Waiting, Held, Rest
  <2> QED
    BY <2>1, <2>2, <2>4
<1> HIDE DEF r, q, s, O, W
<1>6. /\ queue'[m] = r /\ queue' \in [Node -> Seq(Block)] /\ \A k \in Node : k # m => queue'[k] = queue[k]
  BY <1>1, <1>2, <1>5
<1>7. /\ QueuesSound' /\ \A k \in Node : k # m => Pending(k)' = Pending(k)
      /\ \A k \in Node : queue'[k] \in Seq(Nat) /\ Others(k)' = Others(k)
  <2>1. /\ serving'[m] \subseteq Others(m) /\ call'[m] \in serving'[m] \cup {NoNode, Failed}
        /\ serving'[m] = {} => call'[m] = NoNode
        /\ serving'[m] # {} => queue'[m] # <<>>
        /\ Held(queue'[m]) \subseteq Held(queue[m]) /\ Sorted(queue'[m])
    <3>1. /\ serving[m] \subseteq Others(m) /\ call[m] \in serving[m] \cup {NoNode, Failed}
          /\ serving[m] = {} => call[m] = NoNode
      BY DEF QueuesSound
    <3> QED
      BY <1>1, <1>4, <1>6, <3>1 DEF q, s
  <2> QED
    BY <1>1, <1>6, <2>1, OthersSame
<1>8. Pending(m)' \subseteq Pending(m) /\ Pending(m) \subseteq Pending(m)' \cup dropped'
  <2>1. /\ Pending(m)' = Owed(r, s, call[m], O)
        /\ Pending(m) = Owed(q, s, call[m], O)
    BY <1>1, <1>2, <1>6, <1>7, PendingIs, PendingNext DEF q, O, s
  <2> QED
    BY <1>1, <1>4, <1>5, <2>1 DEF O
<1>9. Due' \subseteq Due /\ Due \subseteq Due' \cup dropped'
  BY <1>7, <1>8 DEF Due
<1>10. O \X W \subseteq Node \X Block
  BY <1>2, <1>3, <1>5 DEF Block
<1>11. \A k \in Node : Held(queue'[k]) \subseteq Held(queue[k])
  BY <1>4, <1>6 DEF q
<1> QED
  BY <1>1, <1>2, <1>5, <1>6, <1>7, <1>9, <1>10, <1>11 DEF O

\* When nodes end, what they owe is dropped; calls to them fail, and while nothing
\* is dropped nobody is owed less.
LEMMA DueOfDown ==
  ASSUME TypeOK, QueuesSound, NEW D \in SUBSET Node, Down(D)
  PROVE  /\ \A x \in Due : x \in Due' \/ x \in dropped'
         /\ \A x \in Due' \ Due : x[1] \in D
         /\ Calm' => Calm /\ Due \subseteq Due'
         /\ QueuesSound' /\ Member' = Member
<1>1. /\ phase \in [Node -> {"out", "joined", "append", "in"}] /\ queue \in [Node -> Seq(Block)]
      /\ serving \in [Node -> SUBSET Node] /\ call \in [Node -> Node \cup {NoNode, Failed}]
      /\ NoNode \notin Node /\ Failed \notin Node /\ \A k \in Node : queue[k] \in Seq(Nat)
      /\ \A k \in Node : Others(k) \subseteq Node
  BY Typed
<1>2. /\ UNCHANGED <<hasty, mixed, made, known>>
      /\ dropped' = dropped \cup UNION {Pending(k) : k \in D}
      /\ \A k \in D : queue'[k] = <<>> /\ serving'[k] = {} /\ call'[k] = NoNode
      /\ \A k \in Node \ D : /\ queue'[k] = queue[k] /\ serving'[k] = serving[k]
                             /\ call[k] \in D => call'[k] = Failed
                             /\ call[k] \notin D => call'[k] = call[k]
  BY DEF Down, ledger, members
<1>3. Member' = Member /\ \A k \in Node : Others(k)' = Others(k) /\ queue'[k] \in Seq(Nat)
  <2>1. \A k \in Node : phase'[k] = IF k \in D \cap Member THEN "in" ELSE phase[k]
    BY DEF Down
  <2>2. Member' = Member
    BY <2>1 DEF Member
  <2>3. <<>> \in Seq(Nat)
    BY EmptySeq
  <2> QED
    BY <1>1, <1>2, <2>2, <2>3 DEF Others
<1>4. ASSUME NEW k \in D PROVE Pending(k)' = {}
  <2>1. Pending(k)' = Owed(<<>>, {}, NoNode, Others(k))
    BY <1>2, <1>3, <1>4, PendingNext
  <2> QED
    BY <2>1, NoBlocks DEF Owed
<1>5. ASSUME NEW k \in Node \ D
      PROVE  Pending(k) \subseteq Pending(k)' /\ \A x \in Pending(k)' \ Pending(k) : x[1] \in D
  <2>1. /\ Pending(k)' = Owed(queue[k], serving[k], call'[k], Others(k))
        /\ Pending(k) = Owed(queue[k], serving[k], call[k], Others(k))
    BY <1>1, <1>2, <1>3, <1>5, PendingIs, PendingNext
  <2>2. CASE call[k] \notin D
    BY <1>2, <1>5, <2>1, <2>2
  <2>3. CASE call[k] \in D
    <3>1. call'[k] = Failed /\ Failed \notin serving[k]
      BY <1>1, <1>2, <1>5, <2>3
    <3> QED
      BY <2>1, <2>3, <3>1 DEF Owed
  <2> QED
    BY <2>2, <2>3
<1>6. \A x \in Due : x \in Due' \/ x \in dropped'
  <2> SUFFICES ASSUME NEW k \in Node, NEW x \in Pending(k) PROVE x \in Due' \/ x \in dropped'
    BY DEF Due
  <2>1. CASE k \in D
    BY <1>2, <2>1
  <2>2. CASE k \notin D
    BY <1>5, <2>2 DEF Due
  <2> QED
    BY <2>1, <2>2
<1>7. \A x \in Due' \ Due : x[1] \in D
  <2> SUFFICES ASSUME NEW k \in Node, NEW x \in Pending(k)', x \notin Due PROVE x[1] \in D
    BY DEF Due
  <2>1. x \notin Pending(k)
    BY DEF Due
  <2> QED
    BY <1>4, <1>5, <2>1
<1>8. Calm' => Calm /\ Due \subseteq Due'
  BY <1>2, <1>6 DEF Calm
<1>9. QueuesSound'
  <2> SUFFICES ASSUME NEW k \in Node
               PROVE  /\ \A c \in Held(queue'[k]) : c \in 1 .. Len(made) /\ made[c].by = k
                      /\ Sorted(queue'[k])
                      /\ serving'[k] \subseteq Others(k) /\ call'[k] \in serving'[k] \cup {NoNode, Failed}
                      /\ serving'[k] = {} => call'[k] = NoNode
                      /\ serving'[k] # {} => queue'[k] # <<>>
    BY <1>2, <1>3 DEF QueuesSound
  <2>1. CASE k \in D
    BY <1>2, <2>1, NoBlocks
  <2>2. CASE k \notin D
    <3>1. /\ queue'[k] = queue[k] /\ serving'[k] = serving[k]
          /\ call[k] \in D => call'[k] = Failed
          /\ call[k] \notin D => call'[k] = call[k]
      BY <1>2, <2>2
    <3>2. serving[k] = {} => call[k] = NoNode /\ call[k] \notin D
      BY <1>1 DEF QueuesSound
    <3> QED
      BY <3>1, <3>2 DEF QueuesSound
  <2> QED
    BY <2>1, <2>2
<1> QED
  BY <1>3, <1>6, <1>7, <1>8, <1>9

\* The parts of a block.
LEMMA BlockIs ==
  ASSUME TypeOK
  PROVE  /\ Len(made) \in Nat
         /\ \A b \in 1 .. Len(made) : made[b].tx \in Tx /\ made[b].prev \in Nat /\ made[b].by \in Node
<1>1. made \in Seq(TableBlock)
  BY DEF TypeOK
<1>2. \A b \in 1 .. Len(made) : made[b] \in TableBlock
  BY <1>1, ElementOfSeq
<1> QED
  BY <1>1, <1>2, LenProperties DEF TableBlock

\* What is due is blocks, to nodes.
LEMMA DueIsBlocks ==
  ASSUME TypeOK, QueuesSound
  PROVE  Due \subseteq Node \X Block /\ \A m \in Node : Pending(m) \subseteq Node \X Block
<1>1. ASSUME NEW m \in Node PROVE Pending(m) \subseteq Node \X Block
  <2>1. ASSUME NEW x \in Pending(m) PROVE x \in Node \X Block
    <3>1. PICK n, b : x = <<n, b>>
      BY DEF Pending
    <3>2. n \in Others(m) /\ b \in 1 .. Len(made) /\ Others(m) \subseteq Node
      BY <2>1, <3>1, PendingOf, Typed
    <3> QED
      BY <3>1, <3>2 DEF Block
  <2> QED
    BY <2>1
<1> QED
  BY <1>1 DEF Due

-----------------------------------------------------------------------------
(* The end of processes.                                                       *)

\* What Down leaves of the state.
LEMMA DownIs ==
  ASSUME TypeOK, NEW D \in SUBSET Node, Down(D)
  PROVE  /\ made' = made /\ store' = store /\ tail' = tail /\ hasty' = hasty /\ turns' = turns
         /\ restarts' = restarts /\ late' = late /\ overtaken' = overtaken
         /\ UNCHANGED <<known, told, missed, mixed>>
         /\ handling' = {x \in handling : x[1] \notin D} /\ keeper' = keeper \ D
         /\ early' = early \cup {k \in D : phase[k] \in {"joined", "append"}}
         /\ \A k \in D : /\ queue'[k] = <<>> /\ pool'[k] = <<>> /\ packing'[k] = None
                         /\ arrived'[k] = {} /\ answer'[k] = {}
                         /\ phase[k] # "out" => phase'[k] = "in"
                         /\ phase[k] = "out" => phase'[k] = "out"
         /\ \A k \in Node \ D : /\ queue'[k] = queue[k] /\ pool'[k] = pool[k] /\ packing'[k] = packing[k]
                                /\ arrived'[k] = arrived[k] /\ answer'[k] = answer[k]
                                /\ phase'[k] = phase[k]
         /\ \A t \in Tx : telling'[t].by = telling[t].by /\ telling'[t].rest \subseteq telling[t].rest
<1>1. /\ made' = made /\ store' = store /\ tail' = tail /\ hasty' = hasty /\ turns' = turns
      /\ restarts' = restarts /\ late' = late /\ overtaken' = overtaken
      /\ UNCHANGED <<known, told, missed, mixed>>
      /\ handling' = {x \in handling : x[1] \notin D} /\ keeper' = keeper \ D
      /\ early' = early \cup {k \in D : phase[k] \in {"joined", "append"}}
  BY DEF Down, ledger, members
<1>2. \A k \in D : /\ queue'[k] = <<>> /\ pool'[k] = <<>> /\ packing'[k] = None
                   /\ arrived'[k] = {} /\ answer'[k] = {}
                   /\ phase[k] # "out" => phase'[k] = "in"
                   /\ phase[k] = "out" => phase'[k] = "out"
  BY DEF Down, Member
<1>3. \A k \in Node \ D : /\ queue'[k] = queue[k] /\ pool'[k] = pool[k] /\ packing'[k] = packing[k]
                          /\ arrived'[k] = arrived[k] /\ answer'[k] = answer[k]
                          /\ phase'[k] = phase[k]
  BY DEF Down
<1>4. ASSUME NEW t \in Tx PROVE telling'[t].by = telling[t].by /\ telling'[t].rest \subseteq telling[t].rest
  <2>1. telling[t] \in [by : Node \cup {NoNode}, rest : SUBSET Node]
    BY DEF TypeOK
  <2>2. telling'[t] = IF telling[t].by \in D THEN [telling[t] EXCEPT !.rest = {}] ELSE telling[t]
    BY DEF Down
  <2>3. CASE telling[t].by \in D
    <3>1. telling'[t] = [telling[t] EXCEPT !.rest = {}]
      BY <2>2, <2>3
    <3> QED
      BY <2>1, <3>1
  <2>4. CASE telling[t].by \notin D
    BY <2>2, <2>4
  <2> QED
    BY <2>3, <2>4
<1> QED
  BY <1>1, <1>2, <1>3, <1>4

\* The types after the end of processes.
LEMMA DownTyped ==
  ASSUME TypeOK, QueuesSound, NEW D \in SUBSET Node, Down(D), crashes' \in 0 .. MaxCrashes, nil' \in SUBSET Tx
  PROVE  TypeOK'
<1>1. /\ made' \in Seq(TableBlock) /\ Block' = Block /\ store' \in [Node -> SUBSET Block]
      /\ tail' \in [Node -> Block] /\ \A n \in Node : tail'[n] \in store'[n]
      /\ turns' \in 0 .. MaxTurns /\ restarts' \in 0 .. MaxRestarts /\ hasty' \in BOOLEAN
      /\ MembersOK' /\ mixed' \in BOOLEAN /\ missed' \subseteq Node \X Block
      /\ overtaken' \subseteq Tx /\ early' \cup late' \subseteq Node /\ keeper' \subseteq Node
      /\ handling' \subseteq Node \X Block
  <2>1. /\ made' = made /\ store' = store /\ tail' = tail /\ hasty' = hasty /\ turns' = turns
        /\ restarts' = restarts /\ late' = late /\ overtaken' = overtaken
        /\ UNCHANGED <<known, told, missed, mixed>>
        /\ handling' = {x \in handling : x[1] \notin D} /\ keeper' = keeper \ D
        /\ early' = early \cup {k \in D : phase[k] \in {"joined", "append"}}
    BY DownIs
  <2>2. Block' = Block
    BY <2>1 DEF Block
  <2> QED
    BY <2>1, <2>2 DEF TypeOK, MembersOK
<1>2. dropped' \subseteq Node \X Block
  <2>1. \A m \in Node : Pending(m) \subseteq Node \X Block
    BY DueIsBlocks
  <2> QED
    BY <2>1 DEF Down, TypeOK
<1>3. /\ pool' \in [Node -> Seq(Tx)] /\ \A n \in Node : Len(pool'[n]) <= PoolMax
  <2>1. <<>> \in Seq(Tx) /\ Len(<<>>) = 0 /\ PoolMax \in Nat
    BY EmptySeq, NetAssumption
  <2>2. pool' \in [Node -> Seq(Tx)]
    BY <2>1 DEF Down, TypeOK
  <2>3. \A n \in Node : Len(pool'[n]) <= PoolMax
    <3>1. /\ \A n \in D : pool'[n] = <<>>
          /\ \A n \in Node \ D : pool'[n] = pool[n]
      BY DownIs
    <3>2. \A n \in Node : Len(pool[n]) <= PoolMax
      BY DEF TypeOK
    <3> QED
      BY <2>1, <3>1, <3>2
  <2> QED
    BY <2>2, <2>3
<1>4. queue' \in [Node -> Seq(Block)] /\ serving' \in [Node -> SUBSET Node]
  BY DEF Down, TypeOK
<1>5. packing' \in [Node -> {None} \cup Tx \X Block] /\ arrived' \in [Node -> SUBSET Tx] /\ answer' \in [Node -> SUBSET Block]
  BY DEF Down, TypeOK
<1>6. call' \in [Node -> Node \cup {NoNode, Failed}]
  <2>1. \A n \in Node : call[n] \in Node \cup {NoNode, Failed}
    BY DEF TypeOK
  <2>2. \A n \in Node : (IF n \in D THEN NoNode ELSE IF call[n] \in D THEN Failed ELSE call[n]) \in Node \cup {NoNode, Failed}
    BY <2>1
  <2> QED
    BY <2>2 DEF Down
<1>7. phase' \in [Node -> {"out", "joined", "append", "in"}]
  BY DEF Down, TypeOK
<1>8. telling' \in [Tx -> [by : Node \cup {NoNode}, rest : SUBSET Node]]
  <2>1. \A t \in Tx : telling[t] \in [by : Node \cup {NoNode}, rest : SUBSET Node]
    BY DEF TypeOK
  <2>2. \A t \in Tx : [telling[t] EXCEPT !.rest = {}] \in [by : Node \cup {NoNode}, rest : SUBSET Node]
    BY <2>1
  <2>3. \A t \in Tx : (IF telling[t].by \in D THEN [telling[t] EXCEPT !.rest = {}] ELSE telling[t]) \in [by : Node \cup {NoNode}, rest : SUBSET Node]
    BY <2>1, <2>2
  <2> QED
    BY <2>3 DEF Down
<1>9. up' \subseteq Node
  BY DEF Down, TypeOK
<1> QED
  BY <1>1, <1>2, <1>3, <1>4, <1>5, <1>6, <1>7, <1>8, <1>9 DEF TypeOK

\* Whatever processes end, the invariant is kept.
LEMMA DownKeeps ==
  ASSUME IInv, NEW D \in SUBSET Node, Down(D), crashes' \in 0 .. MaxCrashes,
         nil' \in SUBSET Tx, Calm => nil' \subseteq overtaken
  PROVE  IInv'
<1>1. /\ TypeOK /\ Lists /\ QueuesSound /\ CallsSound /\ BooksSound /\ Filled /\ LockHeld
      /\ KeepersIn /\ OneKeeper /\ AtEnd /\ Linked /\ PoolsSound /\ InOrder /\ PackedOnce
  BY DEF IInv
<1>2. /\ made' = made /\ store' = store /\ tail' = tail /\ hasty' = hasty
      /\ UNCHANGED <<known, missed, mixed>>
      /\ late' = late /\ overtaken' = overtaken
      /\ handling' = {x \in handling : x[1] \notin D} /\ keeper' = keeper \ D
      /\ early' = early \cup {k \in D : phase[k] \in {"joined", "append"}}
  BY <1>1, DownIs
<1>3. /\ \A k \in D : /\ queue'[k] = <<>> /\ pool'[k] = <<>> /\ packing'[k] = None
                      /\ arrived'[k] = {} /\ answer'[k] = {}
                      /\ phase[k] # "out" => phase'[k] = "in"
                      /\ phase[k] = "out" => phase'[k] = "out"
      /\ \A k \in Node \ D : /\ queue'[k] = queue[k] /\ pool'[k] = pool[k] /\ packing'[k] = packing[k]
                             /\ arrived'[k] = arrived[k] /\ answer'[k] = answer[k]
                             /\ phase'[k] = phase[k]
  BY <1>1, DownIs
<1>4. \A t \in Tx : telling'[t].by = telling[t].by /\ telling'[t].rest \subseteq telling[t].rest
  BY <1>1, DownIs
<1>5. /\ \A x \in Due : x \in Due' \/ x \in dropped'
      /\ \A x \in Due' \ Due : x[1] \in D
      /\ Calm' => Calm /\ Due \subseteq Due'
      /\ QueuesSound' /\ Member' = Member
  BY <1>1, DueOfDown
<1>6. TypeOK'
  BY <1>1, DownTyped
<1>7. Held(<<>>) = {} /\ Once(<<>>)
  BY EmptySeq, LenProperties DEF Held, Once
<1>8. dropped \subseteq dropped'
  BY DEF Down
<1>9. CallsSound'
  <2> SUFFICES ASSUME NEW x \in handling, x[1] \notin D, ~ mixed, NEW m \in Node, x[2] \in Held(queue'[m])
               PROVE  x[2] = queue'[m][1] /\ call'[m] = x[1]
    BY <1>1, <1>2 DEF CallsSound
  <2>1. m \notin D
    BY <1>3, <1>7
  <2>2. queue'[m] = queue[m] /\ x[2] = queue[m][1] /\ call[m] = x[1]
    BY <1>1, <1>3, <2>1 DEF CallsSound
  <2>3. call'[m] = call[m]
    BY <2>1, <2>2 DEF Down
  <2> QED
    BY <2>2, <2>3
<1>10. Lists'
  <2>1. \A k \in Node : phase'[k] = "out" => phase[k] = "out" /\ arrived'[k] \subseteq arrived[k]
    BY <1>1, <1>3 DEF TypeOK
  <2> QED
    BY <1>1, <1>2, <1>5, <2>1 DEF Lists
<1>11. KeepersIn'
  BY <1>1, <1>2, <1>3 DEF KeepersIn, TypeOK
<1>12. BooksSound'
  <2>1. \A k \in Node : /\ 0 \in store'[k] /\ 0 \notin answer'[k]
                        /\ phase'[k] # "append" => answer'[k] = {}
    <3> SUFFICES ASSUME NEW k \in Node
                 PROVE  /\ 0 \in store'[k] /\ 0 \notin answer'[k]
                        /\ phase'[k] # "append" => answer'[k] = {}
      OBVIOUS
    <3>1. CASE k \in D
      BY <1>1, <1>2, <1>3, <3>1 DEF BooksSound
    <3>2. CASE k \notin D
      BY <1>1, <1>2, <1>3, <3>2 DEF BooksSound
    <3> QED
      BY <3>1, <3>2
  <2>2. \A t \in Tx : telling'[t].rest \subseteq Member /\ (telling'[t].rest # {} => telling'[t].by # NoNode)
    BY <1>1, <1>4 DEF BooksSound
  <2> QED
    BY <1>1, <1>2, <1>5, <2>1, <2>2 DEF BooksSound
<1>13. Filled'
  <2> SUFFICES ASSUME NEW k \in Node, k \notin early'
               PROVE  /\ phase'[k] \in {"out", "joined"} =>
                           (store'[k] = {0} \/ hasty') /\ \A b \in store'[k] \ {0} : made[b].prev \in store'[k]
                      /\ phase'[k] \in {"append", "in"} =>
                            \A b \in 1 .. Len(made) : b \in store'[k] \cup answer'[k] \/ <<k, b>> \in dropped' \cup missed \cup Due'
    BY <1>2 DEF Filled, Has
  <2>1. k \notin early /\ (k \in D => phase[k] \notin {"joined", "append"}) /\ phase'[k] = phase[k]
    <3>1. k \notin early /\ (k \in D => phase[k] \notin {"joined", "append"})
      BY <1>2
    <3>2. phase[k] \in {"out", "joined", "append", "in"}
      BY <1>1 DEF TypeOK
    <3> QED
      BY <1>3, <3>1, <3>2
  <2>2. answer'[k] = answer[k]
    BY <1>1, <1>3, <2>1 DEF BooksSound
  <2>3. \A b \in 1 .. Len(made) : <<k, b>> \in dropped \cup Due => <<k, b>> \in dropped' \cup Due'
    BY <1>5, <1>8
  <2> QED
    BY <1>1, <1>2, <2>1, <2>2, <2>3 DEF Filled, Has
<1>14. LockHeld'
  BY <1>1, <1>2, <1>3 DEF LockHeld
<1>15. OneKeeper'
  <2>1. \A m \in Node : queue'[m] # <<>> => queue'[m] = queue[m] /\ m \notin D
    BY <1>3
  <2>2. \A k \in keeper' : k \in keeper /\ k \in Node \ D
    BY <1>1, <1>2 DEF TypeOK
  <2> SUFFICES ASSUME ~ hasty, ~ mixed
               PROVE  /\ \A k \in keeper' :
                            /\ keeper' = {k} /\ \A x \in handling' : x[1] # k
                            /\ \A x \in missed' : x[1] # k
                            /\ packing'[k] # None => packing'[k][2] = tail'[k]
                            /\ \A m \in Node : queue'[m] # <<>> => m = k
                      /\ \A m, k \in Node : queue'[m] # <<>> /\ queue'[k] # <<>> => m = k
                      /\ \A m \in Node : queue'[m] # <<>> => queue'[m][Len(queue'[m])] = Len(made')
    BY <1>2 DEF OneKeeper
  <2>3. ASSUME NEW k \in keeper'
        PROVE  /\ keeper' = {k} /\ \A x \in handling' : x[1] # k
               /\ \A x \in missed' : x[1] # k
               /\ packing'[k] # None => packing'[k][2] = tail'[k]
               /\ \A m \in Node : queue'[m] # <<>> => m = k
    <3>1. keeper = {k} /\ \A x \in missed : x[1] # k
      BY <1>1, <2>2 DEF OneKeeper
    <3>2. \A x \in handling : x[1] # k
      BY <1>1, <2>2 DEF OneKeeper
    <3>3. packing[k] # None => packing[k][2] = tail[k]
      BY <1>1, <2>2 DEF OneKeeper
    <3>4. \A m \in Node : queue[m] # <<>> => m = k
      BY <1>1, <2>2 DEF OneKeeper
    <3> QED
      BY <1>2, <1>3, <2>1, <2>2, <3>1, <3>2, <3>3, <3>4
  <2>4. \A m, k \in Node : queue'[m] # <<>> /\ queue'[k] # <<>> => m = k
    BY <1>1, <2>1 DEF OneKeeper
  <2>5. \A m \in Node : queue'[m] # <<>> => queue'[m][Len(queue'[m])] = Len(made')
    BY <1>1, <1>2, <2>1 DEF OneKeeper
  <2> QED
    BY <2>3, <2>4, <2>5
<1>16. AtEnd'
  <2> SUFFICES ASSUME Calm', NEW k \in Node, k \notin early' \cup late',
                      \A b \in 1 .. Len(made) : <<k, b>> \notin Due' \cup missed
               PROVE  /\ phase'[k] = "in" => tail'[k] = Len(made)
                      /\ phase'[k] = "append" =>
                           IF answer'[k] = {} THEN tail'[k] = Len(made) ELSE Len(made) \in answer'[k]
    BY <1>2 DEF AtEnd
  <2>1. k \notin early \cup late /\ (k \in D => phase[k] \notin {"joined", "append"}) /\ phase'[k] = phase[k]
    <3>1. k \notin early \cup late /\ (k \in D => phase[k] \notin {"joined", "append"})
      BY <1>2
    <3>2. phase[k] \in {"out", "joined", "append", "in"}
      BY <1>1 DEF TypeOK
    <3> QED
      BY <1>3, <3>1, <3>2
  <2>2. answer'[k] = answer[k]
    BY <1>1, <1>3, <2>1 DEF BooksSound
  <2>3. Calm /\ \A b \in 1 .. Len(made) : <<k, b>> \notin Due \cup missed
    BY <1>5
  <2> QED
    BY <1>1, <1>2, <2>1, <2>2, <2>3 DEF AtEnd
<1>17. Linked'
  BY <1>1, <1>2, <1>5 DEF Linked
<1>18. PoolsSound'
  <2>1. ASSUME NEW k \in Node
        PROVE  /\ Once(pool'[k]) /\ Held(pool'[k]) \subseteq arrived'[k]
               /\ \A t \in arrived'[k] : telling'[t].by # NoNode /\ k \notin telling'[t].rest
               /\ \A t \in arrived'[k] \ Held(pool'[k]) : \E b \in 1 .. Len(made) : made[b].tx = t
    <3>1. CASE k \in D
      BY <1>3, <1>7, <3>1
    <3>2. CASE k \notin D
      <4>1. arrived[k] \subseteq Tx
        BY <1>1 DEF TypeOK
      <4> QED
        BY <1>1, <1>3, <1>4, <3>2, <4>1 DEF PoolsSound
    <3> QED
      BY <3>1, <3>2
  <2>2. \A b \in 1 .. Len(made) : telling'[made[b].tx].by # NoNode
    <3>1. \A b \in 1 .. Len(made) : made[b].tx \in Tx
      BY <1>1, BlockIs
    <3> QED
      BY <1>1, <1>4, <3>1 DEF PoolsSound
  <2> QED
    BY <1>2, <2>1, <2>2 DEF PoolsSound
<1>19. InOrder'
  <2> SUFFICES ASSUME Calm', NEW k \in Node, NEW b \in 1 .. Len(made), made[b].tx \notin overtaken, <<k, b>> \notin missed
               PROVE  /\ made[b].tx \in Held(pool'[k]) => <<k, b>> \in handling' \cup Due'
                      /\ k \in telling'[made[b].tx].rest => <<k, b>> \in Due'
                      /\ <<k, b>> \in handling' \cup Due' /\ made[b].tx \in arrived'[k] => made[b].tx \in Held(pool'[k])
    <3> SUFFICES ASSUME Calm', NEW k \in Node, NEW b \in 1 .. Len(made) PROVE Follows(k, b)'
      BY <1>2 DEF InOrder
    <3> QED
      BY <1>2 DEF Follows
  <2>1. made[b].tx \in Tx
    BY <1>1, BlockIs
  <2>2. /\ made[b].tx \in Held(pool[k]) => <<k, b>> \in handling \cup Due
        /\ k \in telling[made[b].tx].rest => <<k, b>> \in Due
        /\ <<k, b>> \in handling \cup Due /\ made[b].tx \in arrived[k] => made[b].tx \in Held(pool[k])
    BY <1>1, <1>5 DEF InOrder, Follows
  <2>3. CASE k \in D
    BY <1>3, <1>4, <1>5, <1>7, <2>1, <2>2, <2>3
  <2>4. CASE k \notin D
    BY <1>2, <1>3, <1>4, <1>5, <2>1, <2>2, <2>4
  <2> QED
    BY <2>3, <2>4
<1>20. PackedOnce'
  BY <1>1, <1>2, <1>5 DEF PackedOnce, Calm
<1> QED
  BY <1>5, <1>6, <1>9, <1>10, <1>11, <1>12, <1>13, <1>14, <1>15, <1>16, <1>17, <1>18, <1>19, <1>20 DEF IInv

-----------------------------------------------------------------------------
(* The steps, one after the other.                                             *)

\* Nothing that the parts of the invariant speak of changes.
LEMMA RestartKeeps ==
  ASSUME IInv, NEW n \in Node, Restart(n)
  PROVE  IInv'
<1>1. /\ UNCHANGED <<made, store, tail, pool, packing, arrived, queue, serving, call, handling, dropped, missed, mixed>>
      /\ UNCHANGED <<known, told, overtaken, keeper, turns, hasty, phase, answer, early, late, crashes, nil, telling>>
      /\ up' = up \cup {n} /\ restarts' \in 0 .. MaxRestarts
  BY NetAssumption DEF Restart, ledger, pools, sending, roles, joining, members, IInv, TypeOK
<1>2. TypeOK'
  BY <1>1 DEF IInv, TypeOK, MembersOK, Block
<1>3. Due' = Due /\ Member' = Member /\ \A m \in Node : Others(m)' = Others(m)
  BY <1>1, DueSame DEF Member
<1>4. Lists' /\ QueuesSound' /\ CallsSound' /\ BooksSound' /\ LockHeld' /\ KeepersIn' /\ OneKeeper' /\ Linked'
  BY <1>1, <1>3 DEF IInv, Lists, KeepersIn, QueuesSound, CallsSound, BooksSound, LockHeld, OneKeeper, Linked, Calm
<1>5. Filled' /\ AtEnd' /\ InOrder'
  BY <1>1, <1>3 DEF IInv, Filled, Has, AtEnd, InOrder, Follows, Calm
<1>6. PoolsSound' /\ PackedOnce'
  BY <1>1 DEF IInv, PoolsSound, PackedOnce, Calm
<1> QED
  BY <1>2, <1>4, <1>5, <1>6 DEF IInv

\* The block in the making is of the first cell and of the tail, and nothing else changes.
LEMMA PackKeeps ==
  ASSUME IInv, NEW n \in Node, Pack(n)
  PROVE  IInv'
<1>1. /\ UNCHANGED <<made, store, tail, pool, arrived, queue, serving, call, handling, dropped, missed, mixed>>
      /\ UNCHANGED <<known, told, overtaken, keeper, turns, hasty, phase, answer, early, late, crashes, restarts, up, nil, telling>>
      /\ n \in keeper /\ pool[n] # <<>>
      /\ packing' = [packing EXCEPT ![n] = <<pool[n][1], tail[n]>>]
  BY DEF Pack, ledger, sending, roles, joining, members, faults
<1>2. TypeOK /\ pool[n] \in Seq(Tx) /\ tail[n] \in Block /\ packing \in [Node -> {None} \cup Tx \X Block]
  BY DEF IInv, TypeOK
<1>3. pool[n][1] \in Tx
  <2>1. 1 \in 1 .. Len(pool[n])
    BY <1>1, <1>2, EmptySeq
  <2> QED
    BY <1>2, <2>1, ElementOfSeq
<1>4. /\ packing'[n] = <<pool[n][1], tail[n]>> /\ packing' \in [Node -> {None} \cup Tx \X Block]
      /\ \A m \in Node \ {n} : packing'[m] = packing[m]
  BY <1>1, <1>2, <1>3
<1>5. TypeOK'
  <2>1. Block' = Block
    BY <1>1 DEF Block
  <2> QED
    BY <1>1, <1>2, <1>4, <2>1 DEF TypeOK, MembersOK
<1>6. Due' = Due /\ Member' = Member /\ \A m \in Node : Others(m)' = Others(m)
  BY <1>1, DueSame DEF Member
<1>7. Lists' /\ KeepersIn' /\ QueuesSound' /\ CallsSound' /\ BooksSound' /\ Linked'
  BY <1>1, <1>6 DEF IInv, Lists, KeepersIn, QueuesSound, CallsSound, BooksSound, Linked, Calm
<1>8. LockHeld'
  <2>1. \A m \in Node : m # n => packing'[m] = packing[m]
    BY <1>4
  <2>2. packing'[n][1] = pool[n][1] /\ packing'[n][2] = tail[n]
    BY <1>4
  <2>3. tail[n] \in store[n]
    BY <1>2 DEF TypeOK
  <2> QED
    BY <1>1, <2>1, <2>2, <2>3 DEF IInv, LockHeld
<1>9. OneKeeper'
  <2>1. \A m \in Node : m # n => packing'[m] = packing[m]
    BY <1>4
  <2>2. packing'[n][2] = tail[n]
    BY <1>4
  <2>3. keeper \subseteq Node
    BY <1>2 DEF TypeOK
  <2> QED
    BY <1>1, <2>1, <2>2, <2>3 DEF IInv, OneKeeper
<1>10. Filled' /\ AtEnd' /\ InOrder'
  BY <1>1, <1>6 DEF IInv, Filled, Has, AtEnd, InOrder, Follows, Calm
<1>11. PoolsSound' /\ PackedOnce'
  BY <1>1 DEF IInv, PoolsSound, PackedOnce, Calm
<1> QED
  BY <1>5, <1>7, <1>8, <1>9, <1>10, <1>11 DEF IInv

\* A bookkeeper that is set in time finds nothing under way.
LEMMA SetModKeeps ==
  ASSUME IInv, NEW n \in Node, SetMod(n)
  PROVE  IInv'
<1>1. /\ UNCHANGED <<made, store, tail, pool, packing, arrived, queue, serving, call, handling, dropped, missed, mixed>>
      /\ UNCHANGED <<known, told, overtaken, phase, answer, early, late, crashes, restarts, up, nil, telling>>
      /\ turns' \in 0 .. MaxTurns /\ n \in Member /\ packing[n] = None
      /\ keeper' = IF n \in keeper THEN keeper \ {n} ELSE keeper \cup {n}
      /\ hasty' = (hasty \/ (n \notin keeper /\ Unsettled(n)))
  BY NetAssumption DEF SetMod, ledger, pools, sending, joining, members, faults, IInv, TypeOK, Unlocked
<1>2. TypeOK'
  BY <1>1 DEF IInv, TypeOK, MembersOK, Block
<1>3. Due' = Due /\ Member' = Member /\ \A m \in Node : Others(m)' = Others(m)
  BY <1>1, DueSame DEF Member
<1>4. (Calm' => Calm) /\ (hasty => hasty')
  BY <1>1 DEF Calm
<1>5. Lists' /\ QueuesSound' /\ CallsSound' /\ BooksSound' /\ Linked'
  BY <1>1, <1>3, <1>4 DEF IInv, Lists, QueuesSound, CallsSound, BooksSound, Linked
<1>6. LockHeld'
  BY <1>1 DEF IInv, LockHeld
<1>7. n \notin keeper /\ ~ hasty' =>
        /\ keeper' = {n} /\ phase[n] = "in" /\ handling = {} /\ \A m \in Node : queue[m] = <<>>
        /\ \A x \in missed : x[1] # n
  <2> SUFFICES ASSUME n \notin keeper, ~ hasty'
               PROVE  /\ keeper' = {n} /\ phase[n] = "in" /\ handling = {} /\ \A m \in Node : queue[m] = <<>>
                      /\ \A x \in missed : x[1] # n
    OBVIOUS
  <2>1. ~ Unsettled(n)
    BY <1>1
  <2>2. keeper' = {n} /\ phase[n] = "in" /\ handling = {} /\ \A m \in Node : queue[m] = <<>>
    BY <1>1, <2>1 DEF Unsettled
  <2>3. ASSUME NEW x \in missed, x[1] = n PROVE FALSE
    <3>1. x = <<n, x[2]>> /\ x[2] \in Block
      BY <2>3 DEF IInv, TypeOK
    <3> QED
      BY <2>1, <3>1 DEF Unsettled
  <2> QED
    BY <2>2, <2>3
<1>8. KeepersIn'
  BY <1>1, <1>7 DEF IInv, KeepersIn
<1>9. OneKeeper'
  <2> SUFFICES ASSUME ~ hasty', ~ mixed
               PROVE  \A k \in keeper' :
                            /\ keeper' = {k} /\ \A x \in handling : x[1] # k
                            /\ \A x \in missed : x[1] # k
                            /\ packing[k] # None => packing[k][2] = tail[k]
                            /\ \A m \in Node : queue[m] # <<>> => m = k
    BY <1>1, <1>4 DEF IInv, OneKeeper
  <2>1. CASE n \in keeper
    <3>1. \A k \in keeper' : k \in keeper /\ k # n
      BY <1>1, <2>1
    <3>2. ASSUME NEW k \in keeper' PROVE FALSE
      BY <1>4, <2>1, <3>1 DEF IInv, OneKeeper
    <3> QED
      BY <3>2
  <2>2. CASE n \notin keeper
    BY <1>1, <1>7, <2>2
  <2> QED
    BY <2>1, <2>2
<1>10. Filled' /\ AtEnd' /\ InOrder'
  BY <1>1, <1>3, <1>4 DEF IInv, Filled, Has, AtEnd, InOrder, Follows
<1>11. PoolsSound' /\ PackedOnce'
  BY <1>1, <1>4 DEF IInv, PoolsSound, PackedOnce, Calm
<1> QED
  BY <1>2, <1>5, <1>6, <1>8, <1>9, <1>10, <1>11 DEF IInv

\* A node that joins has nothing yet, and is owed only what its contact has not sent.
LEMMA JoinKeeps ==
  ASSUME IInv, NEW n \in Node, NEW c \in Node, Join(n, c)
  PROVE  IInv'
<1>1. /\ UNCHANGED <<made, store, tail, pool, packing, arrived, queue, serving, call, handling, dropped, missed, mixed>>
      /\ UNCHANGED <<overtaken, keeper, turns, hasty, answer, late, crashes, restarts, nil, telling>>
      /\ phase[n] = "out" /\ c \in Member /\ n # c
      /\ known' = [known EXCEPT ![c] = @ \cup {n}, ![n] = known[c] \cup {n}]
      /\ told' = told \cup (known[c] \ {c}) /\ up' \subseteq up
      /\ \/ phase' = [phase EXCEPT ![n] = "joined"] /\ early' = early
         \/ phase' = [phase EXCEPT ![n] = "in"] /\ early' = early \cup {n}
  BY DEF Join, Enlist, ledger, pools, sending, roles, Member
<1>2. /\ TypeOK /\ Lists /\ QueuesSound /\ phase \in [Node -> {"out", "joined", "append", "in"}]
      /\ known \in [Node -> SUBSET Node] /\ told \subseteq Node /\ up \subseteq Node
  BY DEF IInv, TypeOK, MembersOK
<1>3. /\ \A k \in Node : k # n => phase'[k] = phase[k]
      /\ phase'[n] \in {"joined", "in"} /\ (n \notin early' => phase'[n] = "joined")
      /\ phase' \in [Node -> {"out", "joined", "append", "in"}] /\ early' \subseteq early \cup {n} /\ early \subseteq early'
  BY <1>1, <1>2
<1>4. /\ known'[c] = known[c] \cup {n} /\ known'[n] = known[c] \cup {n}
      /\ \A k \in Node : k # n /\ k # c => known'[k] = known[k]
      /\ known' \in [Node -> SUBSET Node]
  BY <1>1, <1>2
<1>5. TypeOK'
  <2>1. Block' = Block
    BY <1>1 DEF Block
  <2>2. early' \cup late' \subseteq Node
    BY <1>1, <1>2, <1>3 DEF TypeOK
  <2>3. MembersOK'
    BY <1>1, <1>2, <1>4 DEF MembersOK
  <2> QED
    BY <1>1, <1>2, <1>3, <2>1, <2>2, <2>3 DEF TypeOK
<1>6. Due \subseteq Due' /\ \A x \in Due' \ Due : x[1] = n
  BY <1>2, DueOfJoin
<1>7. Member' = Member \cup {n} /\ n \notin Member
  BY <1>1, <1>3 DEF Member
<1>8. known[n] = {} /\ arrived[n] = {} /\ \A k \in Node : known[k] \subseteq known'[k] /\ known'[k] \subseteq Member'
  BY <1>1, <1>2, <1>4, <1>7 DEF Lists
<1>9. \A m \in Node : Others(m) \subseteq Others(m)'
  BY <1>8 DEF Others
<1>10. Lists'
  <2>1. \A k \in Node : k \in Member' => k \in known'[k]
    BY <1>2, <1>4, <1>7, <1>8 DEF Lists
  <2>2. \A k \in Node : phase'[k] = "out" => known'[k] = {} /\ arrived[k] = {}
    BY <1>1, <1>2, <1>3, <1>4 DEF Lists, Member
  <2>3. \A b \in 1 .. Len(made) : made[b].by \in Member'
    BY <1>2, <1>7 DEF Lists
  <2>4. \A x \in missed : x[2] \in 1 .. Len(made) /\ x[1] \in Member' \ known'[made[x[2]].by]
    <3> SUFFICES ASSUME NEW x \in missed PROVE x[2] \in 1 .. Len(made) /\ x[1] \in Member' \ known'[made[x[2]].by]
      OBVIOUS
    <3>1. /\ x[2] \in 1 .. Len(made) /\ x[1] \in Member \ known[made[x[2]].by]
          /\ made[x[2]].by \in Member /\ made[x[2]].by \in Node
      BY <1>2 DEF Lists, Member
    <3> QED
      BY <1>4, <1>7, <3>1
  <2> QED
    BY <1>1, <1>2, <1>7, <1>8, <2>1, <2>2, <2>3, <2>4 DEF Lists
<1>11. QueuesSound'
  BY <1>1, <1>9 DEF IInv, QueuesSound
<1>12. CallsSound'
  <2>1. \A x \in handling : x[2] \in 1 .. Len(made) /\ made[x[2]].by \in Node
    BY <1>2, BlockIs DEF IInv, CallsSound
  <2> QED
    BY <1>1, <1>8, <2>1 DEF IInv, CallsSound
<1>13. LockHeld' /\ Linked'
  BY <1>1, <1>3 DEF IInv, LockHeld, Linked, Calm
<1>14. BooksSound'
  BY <1>1, <1>3, <1>7 DEF IInv, BooksSound
<1>15. KeepersIn' /\ OneKeeper'
  <2>1. n \notin keeper /\ keeper \subseteq Node
    BY <1>2, <1>7 DEF Lists, TypeOK
  <2>2. KeepersIn'
    BY <1>1, <1>3, <2>1 DEF IInv, KeepersIn
  <2> QED
    BY <1>1, <2>2 DEF IInv, OneKeeper
<1>16. Filled'
  <2> SUFFICES ASSUME NEW k \in Node, k \notin early'
               PROVE  /\ phase'[k] \in {"out", "joined"} =>
                           (store[k] = {0} \/ hasty) /\ \A b \in store[k] \ {0} : made[b].prev \in store[k]
                      /\ phase'[k] \in {"append", "in"} =>
                            \A b \in 1 .. Len(made) : b \in store[k] \cup answer[k] \/ <<k, b>> \in dropped \cup missed \cup Due'
    BY <1>1 DEF Filled, Has
  <2>1. CASE k = n
    BY <1>1, <1>3, <2>1 DEF IInv, Filled
  <2>2. CASE k # n
    BY <1>3, <1>6, <2>2 DEF IInv, Filled, Has
  <2> QED
    BY <2>1, <2>2
<1>17. AtEnd'
  <2> SUFFICES ASSUME Calm, NEW k \in Node, k \notin early' \cup late,
                      \A b \in 1 .. Len(made) : <<k, b>> \notin Due' \cup missed
               PROVE  /\ phase'[k] = "in" => tail[k] = Len(made)
                      /\ phase'[k] = "append" =>
                           IF answer[k] = {} THEN tail[k] = Len(made) ELSE Len(made) \in answer[k]
    BY <1>1 DEF AtEnd, Calm
  <2>1. CASE k = n
    BY <1>3, <2>1
  <2>2. CASE k # n
    BY <1>3, <1>6, <2>2 DEF IInv, AtEnd
  <2> QED
    BY <2>1, <2>2
<1>18. InOrder'
  <2> SUFFICES ASSUME Calm, NEW k \in Node, NEW b \in 1 .. Len(made), made[b].tx \notin overtaken, <<k, b>> \notin missed
               PROVE  /\ made[b].tx \in Held(pool[k]) => <<k, b>> \in handling \cup Due'
                      /\ k \in telling[made[b].tx].rest => <<k, b>> \in Due'
                      /\ <<k, b>> \in handling \cup Due' /\ made[b].tx \in arrived[k] => made[b].tx \in Held(pool[k])
    <3>1. (Calm' => Calm) /\ made' = made
      BY <1>1 DEF Calm
    <3> SUFFICES ASSUME Calm, NEW k \in Node, NEW b \in 1 .. Len(made) PROVE Follows(k, b)'
      BY <3>1 DEF InOrder
    <3> QED
      BY <1>1 DEF Follows
  <2>1. /\ made[b].tx \in Held(pool[k]) => <<k, b>> \in handling \cup Due
        /\ k \in telling[made[b].tx].rest => <<k, b>> \in Due
        /\ <<k, b>> \in handling \cup Due /\ made[b].tx \in arrived[k] => made[b].tx \in Held(pool[k])
    BY DEF IInv, InOrder, Follows
  <2>2. <<k, b>> \in Due' => <<k, b>> \in Due \/ k = n
    BY <1>6
  <2> QED
    BY <1>6, <1>8, <2>1, <2>2
<1>19. PoolsSound' /\ PackedOnce'
  BY <1>1 DEF IInv, PoolsSound, PackedOnce, Calm
<1> QED
  BY <1>5, <1>10, <1>11, <1>12, <1>13, <1>14, <1>15, <1>16, <1>17, <1>18, <1>19 DEF IInv

\* What EXCEPT makes of who is still to get a transaction.
LEMMA OneLess ==
  ASSUME NEW B, NEW R, NEW x \in [by : B, rest : R], NEW s
  PROVE  [x EXCEPT !.rest = @ \ s] = [by |-> x.by, rest |-> x.rest \ s]
OBVIOUS

\* A transaction comes to the pool of m, which may refuse it when it is full, and is to
\* go on to the nodes of r: it has come to none of them, and a block that has it is
\* still on its way to each of them, unless the block overtook it.
LEMMA TellKeeps ==
  ASSUME IInv, NEW t \in Tx, NEW m \in Member, NEW r \in [by : Node, rest : SUBSET Member],
         packing[m] = None, TxIn(m, t), telling' = [telling EXCEPT ![t] = r],
         UNCHANGED <<ledger, sending, roles, joining, faults>>,
         m \notin r.rest, t \notin arrived[m], \A k \in r.rest : t \notin arrived[k],
         Calm => \A k \in r.rest \cup {m}, b \in 1 .. Len(made) :
                    made[b].tx = t => t \in overtaken \/ <<k, b>> \in missed \cup Due
  PROVE  IInv'
<1>1. /\ UNCHANGED <<made, store, tail, packing, queue, serving, call, handling, dropped, missed, mixed>>
      /\ UNCHANGED <<known, told, overtaken, keeper, turns, hasty, phase, answer, early, late, crashes, restarts, up, nil>>
  BY DEF TxIn, ledger, sending, roles, joining, members, faults
<1>2. /\ TypeOK /\ m \in Node /\ phase[m] # "out" /\ NoNode \notin Node
      /\ pool \in [Node -> Seq(Tx)] /\ arrived \in [Node -> SUBSET Tx]
      /\ telling \in [Tx -> [by : Node \cup {NoNode}, rest : SUBSET Node]]
      /\ \A n \in Node : Len(pool[n]) <= PoolMax
      /\ PoolMax \in Nat
  BY NetAssumption DEF IInv, TypeOK, Member
<1>3. pool[m] \in Seq(Tx) /\ Len(pool[m]) \in Nat /\ Once(pool[m]) /\ Held(pool[m]) \subseteq arrived[m]
  BY <1>2, LenProperties DEF IInv, PoolsSound
<1>4. /\ in(pool[m], t) \in Seq(Tx) /\ Len(in(pool[m], t)) = Len(pool[m]) + 1
      /\ Held(in(pool[m], t)) = Held(pool[m]) \cup {t} /\ Once(in(pool[m], t))
  BY <1>3, PutIn
<1>5. /\ pool' \in [Node -> Seq(Tx)] /\ arrived' \in [Node -> SUBSET Tx]
      /\ \A n \in Node : n # m => pool'[n] = pool[n] /\ arrived'[n] = arrived[n]
      /\ \/ pool'[m] = pool[m] /\ arrived'[m] = arrived[m]
         \/ Held(pool'[m]) = Held(pool[m]) \cup {t} /\ arrived'[m] = arrived[m] \cup {t}
      /\ Once(pool'[m]) /\ Len(pool'[m]) <= PoolMax
  <2>1. CASE Full(m)
    <3>1. pool' = pool /\ arrived' = arrived
      BY <2>1 DEF TxIn
    <3> QED
      BY <1>2, <1>3, <3>1
  <2>2. CASE ~ Full(m)
    <3>1. /\ pool' = [pool EXCEPT ![m] = in(@, t)]
          /\ arrived' = [arrived EXCEPT ![m] = @ \cup {t}]
      BY <2>2 DEF TxIn
    <3>2. Len(pool[m]) + 1 <= PoolMax
      BY <1>2, <1>3, <2>2 DEF Full
    <3> QED
      BY <1>2, <1>4, <3>1, <3>2
  <2> QED
    BY <2>1, <2>2
<1>6. /\ telling'[t] = r /\ \A u \in Tx : u # t => telling'[u] = telling[u]
      /\ telling' \in [Tx -> [by : Node \cup {NoNode}, rest : SUBSET Node]]
      /\ r.by \in Node /\ r.rest \subseteq Member
  <2>1. r \in [by : Node \cup {NoNode}, rest : SUBSET Node] /\ r.by \in Node /\ r.rest \subseteq Member
    BY DEF Member
  <2> QED
    BY <1>2, <2>1
<1>7. TypeOK'
  <2>1. Block' = Block
    BY <1>1 DEF Block
  <2>2. \A n \in Node : Len(pool'[n]) <= PoolMax
    BY <1>2, <1>5
  <2> QED
    BY <1>1, <1>2, <1>5, <1>6, <2>1, <2>2 DEF TypeOK, MembersOK
<1>8. Due' = Due /\ Member' = Member /\ \A n \in Node : Others(n)' = Others(n)
  BY <1>1, DueSame DEF Member
<1>9. QueuesSound' /\ CallsSound' /\ KeepersIn' /\ OneKeeper' /\ Linked'
  BY <1>1, <1>8 DEF IInv, QueuesSound, CallsSound, KeepersIn, OneKeeper, Linked, Calm
<1>10. Filled' /\ AtEnd' /\ PackedOnce'
  BY <1>1, <1>8 DEF IInv, Filled, Has, AtEnd, PackedOnce, Calm
<1>11. Lists'
  <2>1. \A n \in Node : phase[n] = "out" => arrived'[n] = {}
    BY <1>2, <1>5 DEF IInv, Lists
  <2> QED
    BY <1>1, <1>8, <2>1 DEF IInv, Lists
<1>12. BooksSound'
  <2>1. \A u \in Tx : telling'[u].rest \subseteq Member /\ (telling'[u].rest # {} => telling'[u].by # NoNode)
    BY <1>2, <1>6 DEF IInv, BooksSound
  <2> QED
    BY <1>1, <1>8, <2>1 DEF IInv, BooksSound
<1>13. LockHeld'
  <2>1. \A n \in Node : packing[n] # None => pool'[n] = pool[n]
    BY <1>5
  <2> QED
    BY <1>1, <2>1 DEF IInv, LockHeld
<1>14. PoolsSound'
  <2>1. ASSUME NEW n \in Node
        PROVE  /\ Once(pool'[n]) /\ Held(pool'[n]) \subseteq arrived'[n]
               /\ \A u \in arrived'[n] : telling'[u].by # NoNode /\ n \notin telling'[u].rest
               /\ \A u \in arrived'[n] \ Held(pool'[n]) : \E b \in 1 .. Len(made) : made[b].tx = u
    <3>1. Once(pool'[n]) /\ Held(pool'[n]) \subseteq arrived'[n]
      BY <1>3, <1>5 DEF IInv, PoolsSound
    <3>2. ASSUME NEW u \in arrived'[n] PROVE telling'[u].by # NoNode /\ n \notin telling'[u].rest
      <4>1. CASE u = t
        <5>1. n = m \/ t \in arrived[n]
          BY <1>5, <3>2, <4>1
        <5> QED
          BY <1>2, <1>6, <4>1, <5>1
      <4>2. CASE u # t
        <5>1. u \in arrived[n] /\ u \in Tx
          BY <1>2, <1>5, <3>2, <4>2
        <5> QED
          BY <1>6, <4>2, <5>1 DEF IInv, PoolsSound
      <4> QED
        BY <4>1, <4>2
    <3>3. ASSUME NEW u \in arrived'[n], u \notin Held(pool'[n])
          PROVE  \E b \in 1 .. Len(made) : made[b].tx = u
      <4>1. u \in arrived[n] /\ u \notin Held(pool[n])
        BY <1>5, <3>3
      <4> QED
        BY <4>1 DEF IInv, PoolsSound
    <3> QED
      BY <3>1, <3>2, <3>3
  <2>2. \A b \in 1 .. Len(made) : telling'[made[b].tx].by # NoNode
    <3>1. \A b \in 1 .. Len(made) : made[b].tx \in Tx /\ telling[made[b].tx].by # NoNode
      BY <1>2, BlockIs DEF IInv, PoolsSound
    <3> QED
      BY <1>2, <1>6, <3>1
  <2> QED
    BY <1>1, <2>1, <2>2 DEF PoolsSound
<1>15. InOrder'
  <2> SUFFICES ASSUME Calm, NEW k \in Node, NEW b \in 1 .. Len(made), made[b].tx \notin overtaken, <<k, b>> \notin missed
               PROVE  /\ made[b].tx \in Held(pool'[k]) => <<k, b>> \in handling \cup Due
                      /\ k \in telling'[made[b].tx].rest => <<k, b>> \in Due
                      /\ <<k, b>> \in handling \cup Due /\ made[b].tx \in arrived'[k] => made[b].tx \in Held(pool'[k])
    <3>1. (Calm' => Calm) /\ made' = made
      BY <1>1 DEF Calm
    <3> SUFFICES ASSUME Calm, NEW k \in Node, NEW b \in 1 .. Len(made) PROVE Follows(k, b)'
      BY <3>1 DEF InOrder
    <3> QED
      BY <1>1, <1>8 DEF Follows
  <2>1. /\ made[b].tx \in Held(pool[k]) => <<k, b>> \in handling \cup Due
        /\ k \in telling[made[b].tx].rest => <<k, b>> \in Due
        /\ <<k, b>> \in handling \cup Due /\ made[b].tx \in arrived[k] => made[b].tx \in Held(pool[k])
    BY DEF IInv, InOrder, Follows
  <2>2. made[b].tx \in Tx
    BY <1>2, BlockIs
  <2>3. CASE made[b].tx # t
    <3>1. telling'[made[b].tx] = telling[made[b].tx]
      BY <1>6, <2>2, <2>3
    <3>2. /\ made[b].tx \in Held(pool'[k]) <=> made[b].tx \in Held(pool[k])
          /\ made[b].tx \in arrived'[k] <=> made[b].tx \in arrived[k]
      BY <1>5, <2>3
    <3> QED
      BY <2>1, <3>1, <3>2
  <2>4. CASE made[b].tx = t
    <3>1. k \in r.rest \cup {m} => <<k, b>> \in Due
      BY <2>4
    <3>2. k \in telling'[t].rest => <<k, b>> \in Due
      BY <1>6, <3>1
    <3>3. t \in Held(pool'[k]) => <<k, b>> \in handling \cup Due
      BY <1>5, <2>1, <2>4, <3>1
    <3>4. <<k, b>> \in handling \cup Due /\ t \in arrived'[k] => t \in Held(pool'[k])
      BY <1>5, <2>1, <2>4
    <3> QED
      BY <2>4, <3>2, <3>3, <3>4
  <2> QED
    BY <2>3, <2>4
<1> QED
  BY <1>7, <1>9, <1>10, <1>11, <1>12, <1>13, <1>14, <1>15 DEF IInv

\* A transaction that is submitted is in no pool and in no block yet.
LEMMA TableKeeps ==
  ASSUME IInv, NEW n \in Node, NEW t \in Tx, Table(n, t)
  PROVE  IInv'
<1> DEFINE r == [by |-> n, rest |-> Others(n)]
<1>1. /\ n \in Member /\ packing[n] = None /\ telling[t].by = NoNode /\ TxIn(n, t)
      /\ telling' = [telling EXCEPT ![t] = r]
      /\ UNCHANGED <<ledger, sending, roles, joining, faults>>
  BY DEF Table, Unlocked
<1>2. r \in [by : Node, rest : SUBSET Member] /\ n \notin r.rest /\ r.rest \subseteq Node
  BY DEF Others, Member, IInv, Lists
<1>3. \A k \in Node : t \notin arrived[k]
  BY <1>1 DEF IInv, PoolsSound
<1>4. \A b \in 1 .. Len(made) : made[b].tx # t
  BY <1>1 DEF IInv, PoolsSound
<1> HIDE DEF r
<1>5. \A k \in r.rest : t \notin arrived[k]
  BY <1>2, <1>3
<1> QED
  BY <1>1, <1>2, <1>3, <1>4, <1>5, TellKeeps

\* One that goes on to the next node has not come there, and a block with it is still to
\* come, too.
LEMMA TableTradingPoolKeeps ==
  ASSUME IInv, NEW m \in Node, NEW t \in Tx, TableTradingPool(t, m)
  PROVE  IInv'
<1> DEFINE r == [by |-> telling[t].by, rest |-> telling[t].rest \ {m}]
<1>1. m \in telling[t].rest /\ telling[t].rest \subseteq Member /\ telling[t].by \in Node
  <2>1. telling[t] \in [by : Node \cup {NoNode}, rest : SUBSET Node]
    BY DEF IInv, TypeOK
  <2> QED
    BY <2>1 DEF TableTradingPool, IInv, BooksSound
<1>2. CASE m \in up /\ ~ Full(m)
  <2>1. /\ packing[m] = None /\ TxIn(m, t) /\ telling' = [telling EXCEPT ![t].rest = @ \ {m}]
        /\ UNCHANGED <<ledger, sending, roles, joining, faults>>
    BY <1>2 DEF TableTradingPool, Unlocked
  <2>2. telling' = [telling EXCEPT ![t] = r]
    <3>1. telling \in [Tx -> [by : Node \cup {NoNode}, rest : SUBSET Node]]
      BY DEF IInv, TypeOK
    <3>2. [telling[t] EXCEPT !.rest = @ \ {m}] = r
      BY <3>1, OneLess
    <3> QED
      BY <2>1, <3>1, <3>2
  <2>3. r \in [by : Node, rest : SUBSET Member] /\ m \notin r.rest /\ r.rest \cup {m} \subseteq telling[t].rest
    BY <1>1
  <2>4. \A k \in telling[t].rest : k \in Node /\ t \notin arrived[k]
    BY <1>1 DEF IInv, PoolsSound, Member
  <2>5. Calm => \A k \in telling[t].rest, b \in 1 .. Len(made) :
                  made[b].tx = t => t \in overtaken \/ <<k, b>> \in missed \cup Due
    BY <2>4 DEF IInv, InOrder, Follows
  <2> HIDE DEF r
  <2>6. Calm => \A k \in r.rest \cup {m}, b \in 1 .. Len(made) :
                  made[b].tx = t => t \in overtaken \/ <<k, b>> \in missed \cup Due
    BY <2>3, <2>5
  <2>7. t \notin arrived[m] /\ (\A k \in r.rest : t \notin arrived[k]) /\ m \in Member
    BY <1>1, <2>3, <2>4
  <2> QED
    BY <2>1, <2>2, <2>3, <2>6, <2>7, TellKeeps
<1>3. CASE ~ (m \in up /\ ~ Full(m))
  <2>1. Down({telling[t].by}) /\ UNCHANGED <<crashes, nil>>
    BY <1>3 DEF TableTradingPool
  <2>2. crashes' \in 0 .. MaxCrashes /\ nil' \in SUBSET Tx /\ (Calm => nil' \subseteq overtaken)
    BY <2>1 DEF IInv, TypeOK, PackedOnce, Calm
  <2>3. {telling[t].by} \in SUBSET Node
    BY <1>1
  <2> QED
    BY <2>1, <2>2, <2>3, DownKeeps
<1> QED
  BY <1>2, <1>3

\* A node that called one that has ended ends as well.
LEMMA CallFailedKeeps ==
  ASSUME IInv, NEW m \in Node, CallFailed(m)
  PROVE  IInv'
<1>1. Down({m}) /\ UNCHANGED <<crashes, nil>>
  BY DEF CallFailed
<1>2. crashes' \in 0 .. MaxCrashes /\ nil' \in SUBSET Tx /\ (Calm => nil' \subseteq overtaken)
  BY <1>1 DEF IInv, TypeOK, PackedOnce, Calm
<1>3. {m} \in SUBSET Node
  OBVIOUS
<1> QED
  BY <1>1, <1>2, <1>3, DownKeeps

\* A crash is the end of one process.
LEMMA CrashKeeps ==
  ASSUME IInv, NEW n \in Node, Crash(n)
  PROVE  IInv'
<1>1. Down({n}) /\ UNCHANGED nil /\ crashes < MaxCrashes /\ crashes' = crashes + 1
  BY DEF Crash
<1>2. crashes' \in 0 .. MaxCrashes /\ nil' \in SUBSET Tx /\ (Calm => nil' \subseteq overtaken)
  BY <1>1, NetAssumption DEF IInv, TypeOK, PackedOnce, Calm
<1>3. {n} \in SUBSET Node
  OBVIOUS
<1> QED
  BY <1>1, <1>2, <1>3, DownKeeps

\* A new block is behind the tail of its maker, which has every other block, and all
\* others are owed it: while none was set too early, a transaction is in no other block.
LEMMA AddBlockKeeps ==
  ASSUME IInv, NEW n \in Node, AddBlock(n)
  PROVE  IInv'
<1> DEFINE b == Len(made) + 1
           t == packing[n][1]
           q == pool[n]
<1>1. /\ TypeOK /\ Lists /\ QueuesSound /\ CallsSound /\ BooksSound /\ Filled /\ LockHeld
      /\ KeepersIn /\ OneKeeper /\ AtEnd /\ Linked /\ PoolsSound /\ InOrder /\ PackedOnce
  BY DEF IInv
<1>2. /\ packing[n] # None /\ packing' = [packing EXCEPT ![n] = None]
      /\ made' = Append(made, [tx |-> t, prev |-> packing[n][2], by |-> n])
      /\ store' = [store EXCEPT ![n] = @ \cup {b}] /\ tail' = [tail EXCEPT ![n] = b]
      /\ pool' = [pool EXCEPT ![n] = Tail(@)]
      /\ missed' = missed \cup (Member \ known[n]) \X {b}
      /\ UNCHANGED <<arrived, serving, call, handling, dropped, mixed, overtaken, keeper, turns, hasty, telling>>
      /\ UNCHANGED <<known, told, phase, answer, early, late, up, crashes, restarts, nil>>
  BY DEF AddBlock, Unlocked, Appended, Packed, roles, joining, members, faults
<1>3. /\ Len(made) \in Nat /\ b \in Nat /\ \A c \in 1 .. Len(made) : c # b /\ c \in 1 .. b
      /\ b \in 1 .. b /\ \A c \in 1 .. b : c # b => c \in 1 .. Len(made)
      /\ \A c \in 1 .. Len(made) : made[c].tx \in Tx /\ made[c].prev \in Nat /\ made[c].by \in Node
  BY <1>1, BlockIs
<1>4. packing[n] \in Tx \X Block /\ t \in Tx /\ packing[n][2] \in Block /\ packing[n][2] \in 0 .. Len(made)
  BY <1>1, <1>2 DEF TypeOK, Block
<1>5. /\ n \in keeper /\ q # <<>> /\ t = q[1] /\ packing[n][2] \in store[n]
      /\ q \in Seq(Tx) /\ Once(q) /\ Len(q) <= PoolMax
  BY <1>1, <1>2 DEF LockHeld, TypeOK, PoolsSound
<1>6. /\ Tail(q) \in Seq(Tx) /\ Len(Tail(q)) = Len(q) - 1 /\ t \in Held(q)
      /\ Held(Tail(q)) = Held(q) \ {t} /\ Once(Tail(q))
  BY <1>5, FirstOut
<1>7. /\ Len(made') = b /\ \A c \in 1 .. Len(made) : made'[c] = made[c]
      /\ made'[b].tx = t /\ made'[b].prev = packing[n][2] /\ made'[b].by = n
      /\ made' \in Seq(TableBlock)
  <2> DEFINE e == [tx |-> t, prev |-> packing[n][2], by |-> n]
  <2>1. made \in Seq(TableBlock) /\ e \in TableBlock
    BY <1>1, <1>3, <1>4 DEF TypeOK, TableBlock
  <2>2. e.tx = t /\ e.prev = packing[n][2] /\ e.by = n
    OBVIOUS
  <2> HIDE DEF e
  <2>3. /\ Append(made, e) \in Seq(TableBlock) /\ Len(Append(made, e)) = b /\ Append(made, e)[b] = e
        /\ \A c \in 1 .. Len(made) : Append(made, e)[c] = made[c]
    BY <2>1, AppendProperties
  <2>4. made' = Append(made, e)
    BY <1>2 DEF e
  <2> QED
    BY <2>2, <2>3, <2>4
<1>8. /\ Due' = Due \cup Others(n) \X {b}
      /\ queue' \in [Node -> Seq(1 .. b)] /\ QueuesSound'
      /\ \A m \in Node : Held(queue'[m]) \subseteq Held(queue[m]) \cup {b}
      /\ \A m \in Node : queue[m] # <<>> => queue'[m] # <<>> /\ queue'[m][1] = queue[m][1]
      /\ \A m \in Node : m # n => queue'[m] = queue[m]
      /\ queue'[n] # <<>> /\ queue'[n][Len(queue'[n])] = b
  BY <1>1, DueOfBlock
<1>9. missed \subseteq missed' /\ \A k \in Member : k = n \/ <<k, b>> \in missed' \cup Due'
  BY <1>2, <1>8 DEF Others
<1>10. Member' = Member /\ Block' = 0 .. b /\ Block \subseteq 0 .. b
  BY <1>2, <1>3, <1>7 DEF Member, Block
<1>11. /\ store[n] \in SUBSET Block /\ store'[n] = store[n] \cup {b} /\ tail'[n] = b
       /\ pool'[n] = Tail(q) /\ packing'[n] = None
       /\ \A m \in Node : m # n => store'[m] = store[m] /\ tail'[m] = tail[m] /\ pool'[m] = pool[m] /\ packing'[m] = packing[m]
  BY <1>1, <1>2 DEF TypeOK
<1> HIDE DEF b, t, q
<1>12. TypeOK'
  <2>1. /\ store' \in [Node -> SUBSET (0 .. b)] /\ tail' \in [Node -> 0 .. b]
        /\ \A m \in Node : tail'[m] \in store'[m]
    <3>1. store \in [Node -> SUBSET (0 .. b)] /\ tail \in [Node -> 0 .. b] /\ b \in 0 .. b
      <4>1. store \in [Node -> SUBSET Block] /\ tail \in [Node -> Block]
        BY <1>1 DEF TypeOK
      <4>2. b \in 0 .. b
        BY <1>3
      <4> QED
        BY <1>10, <4>1, <4>2
    <3>2. store' \in [Node -> SUBSET (0 .. b)] /\ tail' \in [Node -> 0 .. b]
      BY <1>2, <3>1
    <3>3. \A m \in Node : tail'[m] \in store'[m]
      BY <1>1, <1>11 DEF TypeOK
    <3> QED
      BY <3>2, <3>3
  <2>2. pool' \in [Node -> Seq(Tx)] /\ \A m \in Node : Len(pool'[m]) <= PoolMax
    <3>1. pool' \in [Node -> Seq(Tx)]
      BY <1>1, <1>2, <1>6 DEF TypeOK, q
    <3>2. Len(Tail(q)) <= PoolMax
      BY <1>5, <1>6, NetAssumption, LenProperties
    <3> QED
      BY <1>1, <1>11, <3>1, <3>2 DEF TypeOK
  <2>3. packing' \in [Node -> {None} \cup Tx \X (0 .. b)]
    <3>1. packing \in [Node -> {None} \cup Tx \X (0 .. b)]
      BY <1>1, <1>10 DEF TypeOK
    <3> QED
      BY <1>2, <3>1
  <2>4. queue' \in [Node -> Seq(0 .. b)]
    <3>1. (1 .. b) \subseteq 0 .. b
      BY <1>3
    <3>2. Seq(1 .. b) \subseteq Seq(0 .. b)
      BY <3>1, SeqMonotonic
    <3> QED
      BY <1>8, <3>2
  <2>5. /\ handling' \subseteq Node \X (0 .. b) /\ dropped' \subseteq Node \X (0 .. b)
        /\ answer' \in [Node -> SUBSET (0 .. b)]
    BY <1>1, <1>2, <1>10 DEF TypeOK
  <2>6. missed' \subseteq Node \X (0 .. b)
    <3>1. missed \subseteq Node \X (0 .. b)
      BY <1>1, <1>10 DEF TypeOK
    <3>2. b \in 0 .. b
      BY <1>3
    <3> QED
      BY <1>2, <3>1, <3>2 DEF Member
  <2>7. MembersOK' /\ serving' \in [Node -> SUBSET Node]
    BY <1>1, <1>2 DEF TypeOK, MembersOK
  <2> QED
    BY <1>1, <1>2, <1>7, <1>8, <1>10, <2>1, <2>2, <2>3, <2>4, <2>5, <2>6, <2>7 DEF TypeOK
<1>13. Lists'
  <2>1. n \in Member
    BY <1>1, <1>5 DEF Lists
  <2>2. \A c \in 1 .. b : made'[c].by \in Member
    BY <1>1, <1>3, <1>7, <2>1 DEF Lists
  <2>3. ASSUME NEW x \in missed' PROVE x[2] \in 1 .. b /\ x[1] \in Member \ known[made'[x[2]].by]
    <3>1. CASE x \in missed
      BY <1>1, <1>3, <1>7, <3>1 DEF Lists
    <3>2. CASE x \notin missed
      <4>1. x \in (Member \ known[n]) \X {b}
        BY <1>2, <2>3, <3>2
      <4>2. x[2] = b /\ x[1] \in Member \ known[n]
        BY <4>1
      <4> QED
        BY <1>3, <1>7, <4>2
    <3> QED
      BY <3>1, <3>2
  <2> QED
    BY <1>1, <1>2, <1>7, <1>10, <2>2, <2>3 DEF Lists
<1>14. KeepersIn'
  BY <1>1, <1>2 DEF KeepersIn
<1>15. CallsSound'
  <2> SUFFICES ASSUME NEW x \in handling
               PROVE  /\ x[2] \in 1 .. b /\ x[1] \in known[made'[x[2]].by]
                      /\ ~ mixed => \A m \in Node : x[2] \in Held(queue'[m]) => x[2] = queue'[m][1] /\ call[m] = x[1]
    BY <1>2, <1>7 DEF CallsSound
  <2>1. x[2] \in 1 .. Len(made) /\ x[2] # b /\ x[2] \in 1 .. b /\ x[1] \in known[made'[x[2]].by]
    BY <1>1, <1>3, <1>7 DEF CallsSound
  <2>2. ASSUME ~ mixed, NEW m \in Node, x[2] \in Held(queue'[m]) PROVE x[2] = queue'[m][1] /\ call[m] = x[1]
    <3>1. x[2] \in Held(queue[m])
      BY <1>8, <2>1, <2>2
    <3>2. queue[m] # <<>>
      BY <3>1, EmptySeq, LenProperties DEF Held
    <3> QED
      BY <1>1, <1>8, <2>2, <3>1, <3>2 DEF CallsSound
  <2> QED
    BY <2>1, <2>2
<1>16. BooksSound'
  <2>1. \A c \in 1 .. b : made'[c].prev < c
    <3>1. packing[n][2] < b
      BY <1>3, <1>4 DEF b
    <3> QED
      BY <1>1, <1>3, <1>7, <3>1 DEF BooksSound
  <2>2. \A m \in Node : 0 \in store'[m]
    BY <1>1, <1>11 DEF BooksSound
  <2> QED
    BY <1>1, <1>2, <1>7, <1>10, <2>1, <2>2 DEF BooksSound
<1>17. Filled'
  <2> SUFFICES ASSUME NEW k \in Node, k \notin early
               PROVE  /\ phase[k] \in {"out", "joined"} =>
                           (store'[k] = {0} \/ hasty) /\ \A c \in store'[k] \ {0} : made'[c].prev \in store'[k]
                      /\ phase[k] \in {"append", "in"} =>
                            \A c \in 1 .. b : c \in store'[k] \cup answer[k] \/ <<k, c>> \in dropped \cup missed' \cup Due'
    BY <1>2, <1>7 DEF Filled, Has
  <2>1. store[k] \in SUBSET Block
    BY <1>1 DEF TypeOK
  <2>2. \A c \in store[k] \ {0} : c \in 1 .. Len(made)
    BY <1>3, <2>1 DEF Block
  <2>3. ASSUME phase[k] \in {"out", "joined"}
        PROVE  (store'[k] = {0} \/ hasty) /\ \A c \in store'[k] \ {0} : made'[c].prev \in store'[k]
    <3>1. (store[k] = {0} \/ hasty) /\ \A c \in store[k] \ {0} : made'[c].prev \in store[k]
      BY <1>1, <1>7, <2>2, <2>3 DEF Filled
    <3>2. CASE k # n
      BY <1>11, <3>1, <3>2
    <3>3. CASE k = n
      <4>1. hasty
        BY <1>1, <1>5, <2>3, <3>3 DEF KeepersIn
      <4> QED
        BY <1>5, <1>7, <1>11, <3>1, <3>3, <4>1
    <3> QED
      BY <3>2, <3>3
  <2>4. ASSUME phase[k] \in {"append", "in"}, NEW c \in 1 .. b
        PROVE  c \in store'[k] \cup answer[k] \/ <<k, c>> \in dropped \cup missed' \cup Due'
    <3>1. CASE c # b
      <4>1. c \in store[k] \cup answer[k] \/ <<k, c>> \in dropped \cup missed \cup Due
        BY <1>1, <1>3, <2>4, <3>1 DEF Filled, Has
      <4>2. store[k] \subseteq store'[k]
        BY <1>11
      <4> QED
        BY <1>8, <1>9, <4>1, <4>2
    <3>2. CASE c = b /\ k = n
      BY <1>11, <3>2
    <3>3. CASE c = b /\ k # n
      <4>1. k \in Member
        BY <2>4 DEF Member
      <4> QED
        BY <1>9, <3>3, <4>1
    <3> QED
      BY <3>1, <3>2, <3>3
  <2> QED
    BY <2>3, <2>4
<1>18. LockHeld'
  <2> SUFFICES ASSUME NEW m \in Node, packing'[m] # None
               PROVE  m \in keeper /\ pool'[m] # <<>> /\ packing'[m][1] = pool'[m][1] /\ packing'[m][2] \in store'[m]
    BY <1>2 DEF LockHeld
  <2>1. m # n
    BY <1>11
  <2> QED
    BY <1>1, <1>11, <2>1 DEF LockHeld
<1>19. ASSUME ~ hasty, ~ mixed
       PROVE  /\ keeper = {n} /\ phase[n] = "in" /\ packing[n][2] = tail[n]
              /\ \A x \in handling : x[1] # n
              /\ \A m \in Node : m # n => queue[m] = <<>>
              /\ \A c : <<n, c>> \notin Due \cup missed
  <2>1. /\ keeper = {n} /\ phase[n] = "in" /\ packing[n][2] = tail[n]
        /\ \A x \in handling : x[1] # n
        /\ \A x \in missed : x[1] # n
        /\ \A m \in Node : queue[m] # <<>> => m = n
    BY <1>1, <1>2, <1>5, <1>19 DEF OneKeeper, KeepersIn
  <2>2. ASSUME NEW c, <<n, c>> \in Due PROVE FALSE
    <3>1. /\ made[c].by \in Node /\ n \in Others(made[c].by) /\ c \in Held(queue[made[c].by])
      BY <1>1, <2>2, DueOf
    <3>2. queue[made[c].by] # <<>>
      BY <3>1, EmptySeq, LenProperties DEF Held
    <3> QED
      BY <2>1, <3>1, <3>2 DEF Others
  <2> QED
    BY <2>1, <2>2
<1>20. OneKeeper'
  <2> SUFFICES ASSUME ~ hasty, ~ mixed
               PROVE  /\ \A k \in keeper :
                            /\ keeper = {k} /\ \A x \in handling : x[1] # k
                            /\ \A x \in missed' : x[1] # k
                            /\ packing'[k] # None => packing'[k][2] = tail'[k]
                            /\ \A m \in Node : queue'[m] # <<>> => m = k
                      /\ \A m, k \in Node : queue'[m] # <<>> /\ queue'[k] # <<>> => m = k
                      /\ \A m \in Node : queue'[m] # <<>> => queue'[m][Len(queue'[m])] = b
    BY <1>2, <1>7 DEF OneKeeper
  <2>1. /\ keeper = {n} /\ \A x \in handling : x[1] # n
        /\ \A m \in Node : m # n => queue[m] = <<>>
    BY <1>19
  <2>4. \A x \in missed' : x[1] # n
    <3> SUFFICES ASSUME NEW x \in missed', x[1] = n PROVE FALSE
      OBVIOUS
    <3>1. n \in known[n]
      BY <1>1, <1>5 DEF Lists
    <3>2. CASE x \in missed
      <4>1. x = <<n, x[2]>>
        BY <1>1, <3>2 DEF TypeOK
      <4> QED
        BY <1>19, <3>2, <4>1
    <3>3. CASE x \notin missed
      <4>1. x \in (Member \ known[n]) \X {b}
        BY <1>2, <3>3
      <4> QED
        BY <3>1, <4>1
    <3> QED
      BY <3>2, <3>3
  <2>2. \A m \in Node : queue'[m] # <<>> => m = n
    BY <1>8, <2>1
  <2>3. \A m \in Node : queue'[m] # <<>> => queue'[m][Len(queue'[m])] = b
    BY <1>8, <2>2
  <2> QED
    BY <1>11, <2>1, <2>2, <2>3, <2>4
<1>21. AtEnd'
  <2> SUFFICES ASSUME Calm, NEW k \in Node, k \notin early \cup late,
                      \A c \in 1 .. b : <<k, c>> \notin Due' \cup missed'
               PROVE  /\ phase[k] = "in" => tail'[k] = b
                      /\ phase[k] = "append" => IF answer[k] = {} THEN tail'[k] = b ELSE b \in answer[k]
    BY <1>2, <1>7 DEF AtEnd, Calm
  <2>1. k = n \/ k \notin Member
    BY <1>3, <1>9
  <2>2. CASE k = n
    <3>1. phase[k] = "in"
      BY <1>19, <2>2 DEF Calm
    <3> QED
      BY <1>11, <2>2, <3>1
  <2>3. CASE k # n
    <3>1. phase[k] = "out"
      BY <2>1, <2>3 DEF Member
    <3> QED
      BY <3>1
  <2> QED
    BY <2>2, <2>3
<1>22. Linked'
  <2> SUFFICES ASSUME Calm, \A c \in 1 .. b : made'[c].by \notin early \cup late, NEW c \in 1 .. b
               PROVE  made'[c].prev = c - 1
    BY <1>2, <1>7 DEF Linked, Calm
  <2>1. CASE c # b
    <3>1. \A d \in 1 .. Len(made) : made[d].by \notin early \cup late
      BY <1>3, <1>7
    <3>2. c \in 1 .. Len(made) /\ made[c].prev = c - 1
      BY <1>1, <1>3, <2>1, <3>1 DEF Linked
    <3> QED
      BY <1>7, <3>2
  <2>2. CASE c = b
    <3>1. n \notin early \cup late
      BY <1>3, <1>7
    <3>2. tail[n] = Len(made)
      BY <1>1, <1>19, <3>1 DEF AtEnd, Calm
    <3>3. packing[n][2] = Len(made)
      BY <1>19, <3>2 DEF Calm
    <3> QED
      BY <1>3, <1>7, <2>2, <3>3 DEF b
  <2> QED
    BY <2>1, <2>2
<1>23. t \in arrived[n] /\ telling[t].by # NoNode /\ n \notin telling[t].rest
  BY <1>1, <1>6 DEF PoolsSound, q
<1>24. PoolsSound'
  <2>1. ASSUME NEW m \in Node
        PROVE  /\ Once(pool'[m]) /\ Held(pool'[m]) \subseteq arrived[m]
               /\ \A u \in arrived[m] : telling[u].by # NoNode /\ m \notin telling[u].rest
               /\ \A u \in arrived[m] \ Held(pool'[m]) : \E c \in 1 .. b : made'[c].tx = u
    <3>1. Once(pool'[m]) /\ Held(pool'[m]) \subseteq arrived[m] /\ Held(pool[m]) \ {t} \subseteq Held(pool'[m])
      BY <1>1, <1>6, <1>11 DEF PoolsSound, q
    <3>2. ASSUME NEW u \in arrived[m], u \notin Held(pool'[m]) PROVE \E c \in 1 .. b : made'[c].tx = u
      <4>1. CASE u = t
        BY <1>3, <1>7, <4>1
      <4>2. CASE u # t
        <5>1. PICK c \in 1 .. Len(made) : made[c].tx = u
          BY <1>1, <3>1, <3>2, <4>2 DEF PoolsSound
        <5> QED
          BY <1>3, <1>7, <5>1
      <4> QED
        BY <4>1, <4>2
    <3> QED
      BY <1>1, <3>1, <3>2 DEF PoolsSound
  <2>2. \A c \in 1 .. b : telling[made'[c].tx].by # NoNode
    BY <1>1, <1>3, <1>7, <1>23 DEF PoolsSound
  <2> QED
    BY <1>2, <1>7, <2>1, <2>2 DEF PoolsSound
<1>25. ASSUME Calm, NEW c \in 1 .. Len(made), made[c].tx = t, t \notin overtaken PROVE FALSE
  <2>2. <<n, c>> \notin handling \cup Due \cup missed
    BY <1>19, <1>25 DEF Calm
  <2>1. t \in Held(q) => <<n, c>> \in handling \cup Due
    BY <1>1, <1>25, <2>2 DEF InOrder, Follows, q
  <2> QED
    BY <1>6, <2>1, <2>2
<1>26. InOrder'
  <2> SUFFICES ASSUME Calm, NEW k \in Node, NEW c \in 1 .. b, made'[c].tx \notin overtaken, <<k, c>> \notin missed'
               PROVE  /\ made'[c].tx \in Held(pool'[k]) => <<k, c>> \in handling \cup Due'
                      /\ k \in telling[made'[c].tx].rest => <<k, c>> \in Due'
                      /\ <<k, c>> \in handling \cup Due' /\ made'[c].tx \in arrived[k] => made'[c].tx \in Held(pool'[k])
    <3>1. Calm' = Calm
      BY <1>2 DEF Calm
    <3> SUFFICES ASSUME Calm, NEW k \in Node, NEW c \in 1 .. b PROVE Follows(k, c)'
      BY <1>7, <3>1 DEF InOrder
    <3> QED
      BY <1>2, <1>7 DEF Follows
  <2>1. ~ hasty /\ ~ mixed
    BY DEF Calm
  <2>2. CASE c # b
    <3>1. c \in 1 .. Len(made) /\ made'[c] = made[c]
      BY <1>3, <1>7, <2>2
    <3>2. /\ made[c].tx \in Held(pool[k]) => <<k, c>> \in handling \cup Due
          /\ k \in telling[made[c].tx].rest => <<k, c>> \in Due
          /\ <<k, c>> \in handling \cup Due /\ made[c].tx \in arrived[k] => made[c].tx \in Held(pool[k])
      BY <1>1, <1>9, <3>1 DEF InOrder, Follows
    <3>3. <<k, c>> \in Due' <=> <<k, c>> \in Due
      BY <1>8, <2>2
    <3>4. Held(pool'[k]) \subseteq Held(pool[k])
      BY <1>6, <1>11 DEF q
    <3>5. k = n => <<k, c>> \notin handling \cup Due
      BY <1>19, <2>1
    <3>6. k # n => pool'[k] = pool[k]
      BY <1>11
    <3> QED
      BY <3>1, <3>2, <3>3, <3>4, <3>5, <3>6
  <2>3. CASE c = b
    <3>1. made'[c].tx = t /\ t \notin overtaken
      BY <1>7, <2>3
    <3>2. <<n, b>> \notin handling \cup Due'
      <4>1. n \notin Others(n)
        BY DEF Others
      <4> QED
        BY <1>8, <1>19, <2>1, <4>1
    <3>3. CASE k = n
      <4>1. t \notin Held(pool'[k])
        BY <1>6, <1>11, <3>3
      <4> QED
        BY <1>23, <2>3, <3>1, <3>2, <3>3, <4>1
    <3>4. CASE k # n
      <4>1. k \in Member => <<k, b>> \in Due'
        BY <1>9, <2>3, <3>4
      <4>2. t \in arrived[k] => k \in Member
        BY <1>1 DEF Lists, Member
      <4>3. Held(pool[k]) \subseteq arrived[k] /\ telling[t].rest \subseteq Member
        BY <1>1, <1>4 DEF PoolsSound, BooksSound
      <4>4. t \in arrived[k] => t \in Held(pool[k])
        BY <1>1, <1>25, <3>1 DEF PoolsSound
      <4>5. pool'[k] = pool[k]
        BY <1>11, <3>4
      <4> QED
        BY <2>3, <3>1, <4>1, <4>2, <4>3, <4>4, <4>5
    <3> QED
      BY <3>3, <3>4
  <2> QED
    BY <2>2, <2>3
<1>27. PackedOnce'
  <2>1. DOMAIN made = 1 .. Len(made) /\ DOMAIN made' = 1 .. b
    BY <1>1, <1>7, LenProperties DEF TypeOK
  <2> SUFFICES ASSUME Calm
               PROVE  /\ nil \subseteq overtaken
                      /\ \A i, k \in 1 .. b : made'[i].tx = made'[k].tx => i = k \/ made'[i].tx \in overtaken
    BY <1>2, <2>1 DEF PackedOnce, Calm
  <2>2. /\ nil \subseteq overtaken
        /\ \A i, k \in 1 .. Len(made) : made[i].tx = made[k].tx => i = k \/ made[i].tx \in overtaken
    BY <1>1, <2>1 DEF PackedOnce, Calm
  <2>3. ASSUME NEW i \in 1 .. b, NEW k \in 1 .. b, made'[i].tx = made'[k].tx, i # k
        PROVE  made'[i].tx \in overtaken
    <3>1. CASE i # b /\ k # b
      BY <1>3, <1>7, <2>2, <2>3, <3>1
    <3>2. CASE i = b
      BY <1>3, <1>7, <1>25, <2>3, <3>2
    <3>3. CASE k = b
      BY <1>3, <1>7, <1>25, <2>3, <3>3
    <3> QED
      BY <3>1, <3>2, <3>3
  <2> QED
    BY <2>2, <2>3
<1> QED
  BY <1>8, <1>12, <1>13, <1>14, <1>15, <1>16, <1>17, <1>18, <1>20, <1>21, <1>22, <1>24, <1>26, <1>27 DEF IInv

\* A block that comes to a node, for whatever reason: it gets into the file, the rest
\* stays as it is.
LEMMA ArrivesKeeps ==
  ASSUME IInv, NEW p \in Node, NEW b \in 1 .. Len(made), p \in Others(made[b].by), Arrives(p, b),
         call' \in [Node -> Node \cup {NoNode, Failed}], mixed' \in BOOLEAN, mixed => mixed',
         Due \subseteq Due' \cup {<<p, b>>},
         UNCHANGED <<pool, packing, arrived, queue, serving, dropped, missed, keeper, turns, hasty>>,
         UNCHANGED <<known, told, phase, answer, up, crashes, restarts, nil, telling>>
  PROVE  /\ TypeOK' /\ Lists' /\ BooksSound' /\ Filled' /\ LockHeld' /\ KeepersIn' /\ Linked' /\ PoolsSound'
         /\ PackedOnce' /\ \A x \in handling' : x[2] \in 1 .. Len(made) /\ x[1] \in known[made[x[2]].by]
<1>1. /\ TypeOK /\ Lists /\ CallsSound /\ BooksSound /\ Filled /\ LockHeld
      /\ KeepersIn /\ Linked /\ PoolsSound /\ PackedOnce
  BY DEF IInv
<1>2. /\ store' = [store EXCEPT ![p] = @ \cup {b}] /\ tail' = [tail EXCEPT ![p] = b] /\ made' = made
      /\ handling' = handling \cup {<<p, b>>}
      /\ early' = early \cup {x \in {p} : phase[p] = "joined"}
      /\ late' = late \cup {x \in {p} : phase[p] = "append"}
      /\ overtaken' = overtaken \cup ({made[b].tx} \ arrived[p])
  BY DEF Arrives, Appended
<1>3. /\ Len(made) \in Nat /\ made[b].tx \in Tx /\ made[b].by \in Node /\ b \in Block
      /\ p \in Member /\ p \in known[made[b].by] /\ Block' = Block /\ Member' = Member
  BY <1>1, <1>2, BlockIs DEF Block, Others, Member, Lists
<1>4. /\ store'[p] = store[p] \cup {b} /\ tail'[p] = b
      /\ \A k \in Node : k # p => store'[k] = store[k] /\ tail'[k] = tail[k]
      /\ \A k \in Node : store[k] \subseteq store'[k]
  BY <1>1, <1>2 DEF TypeOK
<1>5. TypeOK'
  <2>1. store' \in [Node -> SUBSET Block] /\ tail' \in [Node -> Block]
    BY <1>1, <1>2, <1>3 DEF TypeOK
  <2>2. \A k \in Node : tail'[k] \in store'[k]
    BY <1>1, <1>4 DEF TypeOK
  <2>3. handling' \subseteq Node \X Block /\ early' \cup late' \subseteq Node /\ overtaken' \subseteq Tx
    BY <1>1, <1>2, <1>3 DEF TypeOK
  <2>4. MembersOK'
    BY <1>1 DEF TypeOK, MembersOK
  <2> QED
    BY <1>1, <1>2, <1>3, <2>1, <2>2, <2>3, <2>4 DEF TypeOK
<1>6. Lists' /\ KeepersIn'
  BY <1>1, <1>2, <1>3 DEF Lists, KeepersIn
<1>7. BooksSound'
  BY <1>1, <1>2, <1>3, <1>4 DEF BooksSound
<1>8. Filled'
  <2> SUFFICES ASSUME NEW k \in Node, k \notin early'
               PROVE  /\ phase[k] \in {"out", "joined"} =>
                           (store'[k] = {0} \/ hasty) /\ \A c \in store'[k] \ {0} : made[c].prev \in store'[k]
                      /\ phase[k] \in {"append", "in"} =>
                            \A c \in 1 .. Len(made) : c \in store'[k] \cup answer[k] \/ <<k, c>> \in dropped \cup missed \cup Due'
    BY <1>2 DEF Filled, Has
  <2>1. k \notin early /\ (k = p => phase[k] \notin {"out", "joined"})
    BY <1>2, <1>3 DEF Member
  <2>2. ASSUME phase[k] \in {"append", "in"}, NEW c \in 1 .. Len(made)
        PROVE  c \in store'[k] \cup answer[k] \/ <<k, c>> \in dropped \cup missed \cup Due'
    <3>1. c \in store[k] \cup answer[k] \/ <<k, c>> \in dropped \cup missed \cup Due
      BY <1>1, <2>1, <2>2 DEF Filled, Has
    <3>2. CASE <<k, c>> = <<p, b>>
      BY <1>4, <3>2
    <3>3. CASE <<k, c>> # <<p, b>>
      BY <1>4, <3>1, <3>3
    <3> QED
      BY <3>2, <3>3
  <2>3. ASSUME phase[k] \in {"out", "joined"}
        PROVE  (store'[k] = {0} \/ hasty) /\ \A c \in store'[k] \ {0} : made[c].prev \in store'[k]
    <3>1. store'[k] = store[k]
      BY <1>4, <2>1, <2>3
    <3> QED
      BY <1>1, <2>1, <2>3, <3>1 DEF Filled
  <2> QED
    BY <2>2, <2>3
<1>9. LockHeld'
  BY <1>1, <1>4 DEF LockHeld
<1>10. Linked' /\ PoolsSound' /\ PackedOnce'
  BY <1>1, <1>2 DEF Linked, PoolsSound, PackedOnce, Calm
<1>11. \A x \in handling' : x[2] \in 1 .. Len(made) /\ x[1] \in known[made[x[2]].by]
  BY <1>1, <1>2, <1>3 DEF CallsSound
<1> QED
  BY <1>5, <1>6, <1>7, <1>8, <1>9, <1>10, <1>11

\* A distributor that sends a block again, or too soon: nothing is claimed any more
\* of the order of things.
LEMMA AgainKeeps ==
  ASSUME IInv, NEW m \in Node, NEW p \in Node, Again(m, p)
  PROVE  IInv'
<1>1. PICK b \in DOMAIN made : made[b].by = m /\ Arrives(p, b)
  BY DEF Again
<1>2. /\ p \in Others(m) /\ mixed' = TRUE
      /\ UNCHANGED <<pool, packing, arrived, queue, serving, call, dropped, missed, keeper, turns, hasty>>
      /\ UNCHANGED <<known, told, phase, answer, up, crashes, restarts, nil, telling>>
  BY DEF Again, pools, roles, members, faults
<1>3. b \in 1 .. Len(made) /\ made' = made
  <2>1. made \in Seq(TableBlock)
    BY DEF IInv, TypeOK
  <2>2. b \in 1 .. Len(made)
    BY <2>1, LenProperties
  <2> QED
    BY <1>1, <2>2 DEF Arrives
<1>4. Due' = Due /\ \A k \in Node : Others(k)' = Others(k)
  BY <1>2, DueSame
<1>5. call' \in [Node -> Node \cup {NoNode, Failed}]
  BY <1>2 DEF IInv, TypeOK
<1>6. Due \subseteq Due' \cup {<<p, b>>} /\ mixed' \in BOOLEAN /\ (mixed => mixed') /\ p \in Others(made[b].by)
  BY <1>1, <1>2, <1>4
<1>7. /\ TypeOK' /\ Lists' /\ BooksSound' /\ Filled' /\ LockHeld' /\ KeepersIn' /\ Linked' /\ PoolsSound'
      /\ PackedOnce' /\ \A x \in handling' : x[2] \in 1 .. Len(made) /\ x[1] \in known[made[x[2]].by]
  BY <1>1, <1>2, <1>3, <1>5, <1>6, ArrivesKeeps
<1>8. QueuesSound'
  BY <1>2, <1>3, <1>4 DEF IInv, QueuesSound
<1>9. CallsSound' /\ OneKeeper' /\ AtEnd' /\ InOrder'
  BY <1>2, <1>3, <1>7 DEF CallsSound, OneKeeper, AtEnd, InOrder, Calm
<1> QED
  BY <1>7, <1>8, <1>9 DEF IInv

\* A block that comes to a node from the queue is behind its tail, and in its pool its
\* transaction waits for the handler, unless the block is the first to come.
LEMMA DistributeKeeps ==
  ASSUME IInv, NEW m \in Node, NEW p \in Node, DistributeTableBlock(m, p)
  PROVE  IInv'
<1> DEFINE b == queue[m][1]
           t == made[b].tx
<1>1. /\ TypeOK /\ Lists /\ QueuesSound /\ CallsSound
      /\ OneKeeper /\ AtEnd /\ PoolsSound /\ InOrder
  BY DEF IInv
<1>2. CASE p \notin up
  <2>1. Down({m}) /\ UNCHANGED <<crashes, nil>>
    BY <1>2 DEF DistributeTableBlock
  <2>2. crashes' \in 0 .. MaxCrashes /\ nil' \in SUBSET Tx /\ (Calm => nil' \subseteq overtaken)
    BY <2>1 DEF IInv, TypeOK, PackedOnce, Calm
  <2>3. {m} \in SUBSET Node
    OBVIOUS
  <2> QED
    BY <2>1, <2>2, <2>3, DownKeeps
<1>3. CASE p \in up
  <2>1. /\ queue[m] # <<>> /\ p \in serving[m] /\ call[m] = NoNode /\ Arrives(p, b)
        /\ call' = [call EXCEPT ![m] = p]
        /\ UNCHANGED <<pool, packing, arrived, queue, serving, dropped, missed, mixed, keeper, turns, hasty>>
        /\ UNCHANGED <<known, told, phase, answer, up, crashes, restarts, nil, telling>>
    BY <1>3 DEF DistributeTableBlock, pools, roles, members, faults
  <2>2. /\ handling' = handling \cup {<<p, b>>} /\ made' = made /\ tail' = [tail EXCEPT ![p] = b]
        /\ early' = early \cup {x \in {p} : phase[p] = "joined"}
        /\ late' = late \cup {x \in {p} : phase[p] = "append"}
        /\ overtaken' = overtaken \cup ({t} \ arrived[p])
    BY <2>1 DEF Arrives, Appended
  <2>3. /\ Due' = Due \ {<<p, b>>} /\ <<p, b>> \in Due /\ QueuesSound'
        /\ b \in 1 .. Len(made) /\ made[b].by = m /\ p \in Others(m)
    BY <1>1, <2>1, <2>2, DueOfCall
  <2>4. /\ call'[m] = p /\ \A k \in Node : k # m => call'[k] = call[k]
        /\ call' \in [Node -> Node \cup {NoNode, Failed}] /\ Len(made) \in Nat
        /\ tail'[p] = b /\ \A k \in Node : k # p => tail'[k] = tail[k]
    BY <1>1, <2>1, <2>2, BlockIs DEF TypeOK
  <2> HIDE DEF b
  <2>5. mixed' \in BOOLEAN /\ (mixed => mixed') /\ p \in Others(made[b].by) /\ Due \subseteq Due' \cup {<<p, b>>}
    BY <1>1, <2>1, <2>3 DEF TypeOK
  <2>6. /\ TypeOK' /\ Lists' /\ BooksSound' /\ Filled' /\ LockHeld' /\ KeepersIn' /\ Linked' /\ PoolsSound'
        /\ PackedOnce' /\ \A x \in handling' : x[2] \in 1 .. Len(made) /\ x[1] \in known[made[x[2]].by]
    BY <2>1, <2>3, <2>4, <2>5, ArrivesKeeps
  <2>7. CallsSound'
    <3> SUFFICES ASSUME ~ mixed, NEW x \in handling', NEW k \in Node, x[2] \in Held(queue[k])
                 PROVE  x[2] = queue[k][1] /\ call'[k] = x[1]
      BY <2>1, <2>2, <2>6 DEF CallsSound
    <3>1. CASE x = <<p, b>>
      <4>1. made[b].by = k
        BY <1>1, <3>1 DEF QueuesSound
      <4> QED
        BY <2>3, <2>4, <3>1, <4>1 DEF b
    <3>2. CASE x \in handling
      <4>1. x[2] = queue[k][1] /\ call[k] = x[1] /\ x[1] \in Node
        BY <1>1, <3>2 DEF CallsSound, TypeOK
      <4>2. k # m
        BY <2>1, <4>1, NetAssumption
      <4> QED
        BY <2>4, <4>1, <4>2
    <3> QED
      BY <2>2, <3>1, <3>2
  <2>8. OneKeeper'
    <3> SUFFICES ASSUME ~ hasty, ~ mixed
                 PROVE  /\ \A k \in keeper :
                             /\ keeper = {k} /\ \A x \in handling' : x[1] # k
                             /\ \A x \in missed : x[1] # k
                             /\ packing[k] # None => packing[k][2] = tail'[k]
                             /\ \A l \in Node : queue[l] # <<>> => l = k
                        /\ \A l, k \in Node : queue[l] # <<>> /\ queue[k] # <<>> => l = k
                        /\ \A l \in Node : queue[l] # <<>> => queue[l][Len(queue[l])] = Len(made)
      BY <2>1, <2>2 DEF OneKeeper
    <3>1. ASSUME NEW k \in keeper
          PROVE  /\ keeper = {k} /\ \A x \in handling' : x[1] # k
                 /\ \A x \in missed : x[1] # k
                 /\ packing[k] # None => packing[k][2] = tail'[k]
                 /\ \A l \in Node : queue[l] # <<>> => l = k
      <4>1. /\ keeper = {k} /\ \A x \in handling : x[1] # k
            /\ \A x \in missed : x[1] # k /\ k \in Node
            /\ packing[k] # None => packing[k][2] = tail[k]
            /\ \A l \in Node : queue[l] # <<>> => l = k
        BY <1>1 DEF OneKeeper, TypeOK
      <4>2. k = m /\ p # m
        BY <2>1, <2>3, <4>1 DEF Others
      <4> QED
        BY <2>2, <2>4, <4>1, <4>2
    <3> QED
      BY <1>1, <3>1 DEF OneKeeper
  <2>9. AtEnd'
    <3> SUFFICES ASSUME Calm, NEW k \in Node, k \notin early' \cup late',
                        \A c \in 1 .. Len(made) : <<k, c>> \notin Due' \cup missed
                 PROVE  /\ phase[k] = "in" => tail'[k] = Len(made)
                        /\ phase[k] = "append" =>
                             IF answer[k] = {} THEN tail'[k] = Len(made) ELSE Len(made) \in answer[k]
      BY <2>1, <2>2 DEF AtEnd, Calm
    <3>1. k \notin early \cup late
      BY <2>2
    <3>2. CASE k # p
      <4>1. \A c \in 1 .. Len(made) : <<k, c>> \notin Due \cup missed
        BY <2>3, <3>2
      <4> QED
        BY <1>1, <2>4, <3>1, <3>2, <4>1 DEF AtEnd
    <3>3. CASE k = p
      <4>1. phase[p] # "append"
        BY <2>2, <3>3
      <4>2. tail'[p] = Len(made)
        <5> DEFINE q == queue[m]
        <5>1. q \in Seq(Block) /\ q # <<>> /\ Block \in SUBSET Nat /\ Len(q) \in Nat \ {0}
          BY <1>1, <2>1, Typed, EmptySeq, LenProperties
        <5>2. q[Len(q)] = Len(made)
          BY <1>1, <2>1 DEF OneKeeper, Calm
        <5>3. CASE Len(q) = 1
          BY <2>4, <5>2, <5>3 DEF b
        <5>4. CASE Len(q) > 1
          <6>1. Len(q) \in 2 .. Len(q)
            BY <5>1, <5>4
          <6>2. Len(made) \in Rest(q)
            BY <5>2, <6>1 DEF Rest
          <6>3. <<p, Len(made)>> \in Due'
            <7>1. q \in Seq(Nat) /\ queue' = queue /\ serving' = serving /\ serving[m] # {} /\ Others(m)' = Others(m)
              BY <1>1, <2>1, Typed DEF Others
            <7>2. Pending(m)' = Owed(q, serving[m], call'[m], Others(m))
              BY <7>1, PendingNext
            <7> HIDE DEF q
            <7>3. <<p, Len(made)>> \in Owed(q, serving[m], call'[m], Others(m))
              BY <2>3, <6>2, <7>1 DEF Owed
            <7> QED
              BY <7>2, <7>3 DEF Due
          <6>4. Len(made) \in 1 .. Len(made)
            BY <2>3, <2>4
          <6> QED
            BY <3>3, <6>3, <6>4
        <5>5. Len(q) = 1 \/ Len(q) > 1
          BY <5>1, OneOrMore
        <5> QED
          BY <5>3, <5>4, <5>5
      <4> QED
        BY <3>3, <4>1, <4>2
    <3> QED
      BY <3>2, <3>3
  <2>10. InOrder'
    <3> SUFFICES ASSUME Calm, NEW k \in Node, NEW c \in 1 .. Len(made), made[c].tx \notin overtaken', <<k, c>> \notin missed
                 PROVE  /\ made[c].tx \in Held(pool[k]) => <<k, c>> \in handling' \cup Due'
                        /\ k \in telling[made[c].tx].rest => <<k, c>> \in Due'
                        /\ <<k, c>> \in handling' \cup Due' /\ made[c].tx \in arrived[k] => made[c].tx \in Held(pool[k])
      <4>1. Calm' = Calm
        BY <2>1 DEF Calm
      <4> SUFFICES ASSUME Calm, NEW k \in Node, NEW c \in 1 .. Len(made) PROVE Follows(k, c)'
        BY <2>2, <4>1 DEF InOrder
      <4> QED
        BY <2>1, <2>2 DEF Follows
    <3>1. made[c].tx \notin overtaken
      BY <2>2
    <3>2. /\ made[c].tx \in Held(pool[k]) => <<k, c>> \in handling \cup Due
          /\ k \in telling[made[c].tx].rest => <<k, c>> \in Due
          /\ <<k, c>> \in handling \cup Due /\ made[c].tx \in arrived[k] => made[c].tx \in Held(pool[k])
      BY <1>1, <3>1 DEF InOrder, Follows
    <3>3. CASE <<k, c>> # <<p, b>>
      <4>1. (<<k, c>> \in Due' <=> <<k, c>> \in Due) /\ (<<k, c>> \in handling' <=> <<k, c>> \in handling)
        BY <2>2, <2>3, <3>3
      <4> QED
        BY <3>2, <4>1
    <3>4. CASE <<k, c>> = <<p, b>>
      <4>1. k = p /\ c = b /\ <<k, c>> \in handling' /\ t \in arrived[p]
        BY <2>2, <3>4
      <4>2. p \notin telling[t].rest
        BY <1>1, <4>1 DEF PoolsSound
      <4> QED
        BY <2>3, <3>2, <4>1, <4>2
    <3> QED
      BY <3>3, <3>4
  <2> QED
    BY <2>3, <2>6, <2>7, <2>8, <2>9, <2>10 DEF IInv
<1> QED
  BY <1>2, <1>3

\* The handler of a block takes its transaction out of the pool; where it is not there
\* any more though it had come, the block had overtaken it.
LEMMA OrdinaryRunKeeps ==
  ASSUME IInv, NEW p \in Node, NEW b \in Block, OrdinaryRun(p, b)
  PROVE  IInv'
<1> DEFINE t == made[b].tx
           m == made[b].by
           q == pool[p]
<1>1. /\ TypeOK /\ Lists /\ QueuesSound /\ CallsSound /\ BooksSound /\ Filled /\ LockHeld
      /\ KeepersIn /\ OneKeeper /\ AtEnd /\ Linked /\ PoolsSound /\ InOrder /\ PackedOnce
  BY DEF IInv
<1>2. /\ <<p, b>> \in handling /\ packing[p] = None /\ b \in 1 .. Len(made)
      /\ t \in Tx /\ m \in Node /\ Len(made) \in Nat /\ q \in Seq(Tx) /\ Once(q)
  <2>1. <<p, b>> \in handling /\ packing[p] = None /\ q \in Seq(Tx) /\ Once(q)
    BY <1>1 DEF OrdinaryRun, Unlocked, TypeOK, PoolsSound
  <2>2. b \in 1 .. Len(made)
    BY <1>1, <2>1 DEF CallsSound
  <2> QED
    BY <1>1, <2>1, <2>2, BlockIs
<1>3. t \in Held(q) <=> \E i \in DOMAIN pool[p] : pool[p][i] = t
  BY DEF Held
<1>4. CASE t \notin Held(q)
  <2>1. Down({p}) /\ nil' = nil \cup ({t} \cap arrived[p]) /\ UNCHANGED crashes
    BY <1>3, <1>4 DEF OrdinaryRun
  <2>2. crashes' \in 0 .. MaxCrashes /\ nil' \in SUBSET Tx
    BY <1>1, <1>2, <2>1 DEF TypeOK
  <2>3. ASSUME Calm PROVE nil' \subseteq overtaken
    <3>1. nil \subseteq overtaken
      BY <1>1, <2>3 DEF PackedOnce, Calm
    <3>2. t \in arrived[p] => t \in overtaken
      <4>1. <<p, b>> \notin missed
        BY <1>1, <1>2 DEF CallsSound, Lists
      <4> QED
        BY <1>1, <1>2, <1>4, <2>3, <4>1 DEF InOrder, Follows
    <3> QED
      BY <2>1, <3>1, <3>2
  <2>4. {p} \in SUBSET Node
    OBVIOUS
  <2> QED
    BY <2>1, <2>2, <2>3, <2>4, DownKeeps
<1>5. CASE t \in Held(q)
  <2>1. /\ pool' = [pool EXCEPT ![p] = out(@, t)] /\ handling' = handling \ {<<p, b>>}
        /\ UNCHANGED <<made, store, tail, packing, arrived, dropped, missed, mixed, overtaken, keeper, turns, hasty>>
        /\ UNCHANGED <<known, told, phase, answer, early, late, up, crashes, restarts, nil, telling>>
    BY <1>3, <1>5 DEF OrdinaryRun, ledger, roles, joining, members, faults
  <2>2. \/ call[m] = p /\ queue[m][1] = b /\ Served(m, p)
        \/ ~ (call[m] = p /\ queue[m][1] = b) /\ UNCHANGED <<queue, serving, call>>
    BY <1>3, <1>5 DEF OrdinaryRun
  <2>3. /\ out(q, t) \in Seq(Tx) /\ Len(out(q, t)) = Len(q) - 1
        /\ Held(out(q, t)) = Held(q) \ {t} /\ Once(out(q, t))
    BY <1>2, <1>5, TakenOut
  <2>4. /\ pool'[p] = out(q, t) /\ \A k \in Node : k # p => pool'[k] = pool[k]
        /\ pool' \in [Node -> Seq(Tx)] /\ \A k \in Node : Len(pool'[k]) <= PoolMax
    <3>1. pool \in [Node -> Seq(Tx)] /\ \A k \in Node : Len(pool[k]) <= PoolMax
      BY <1>1 DEF TypeOK
    <3>2. Len(out(q, t)) <= PoolMax
      BY <1>2, <2>3, <3>1, NetAssumption, LenProperties
    <3> QED
      BY <2>1, <2>3, <3>1, <3>2
  <2>5. Member' = Member /\ Block' = Block
    BY <2>1 DEF Member, Block
  <2>6. /\ Due' = Due /\ QueuesSound'
        /\ queue' \in [Node -> Seq(Block)] /\ serving' \in [Node -> SUBSET Node]
        /\ call' \in [Node -> Node \cup {NoNode, Failed}]
        /\ \A k \in Node : Held(queue'[k]) \subseteq Held(queue[k])
        /\ \A k \in Node : \/ queue'[k] = queue[k] /\ call'[k] = call[k]
                           \/ call[k] = p /\ queue[k][1] = b
        /\ \A k \in Node : queue'[k] # <<>> => queue[k] # <<>> /\ queue'[k][Len(queue'[k])] = queue[k][Len(queue[k])]
    <3>1. CASE call[m] = p /\ queue[m][1] = b /\ Served(m, p)
      <4>1. UNCHANGED <<known, made>>
        BY <2>1
      <4>2. /\ Due' = Due /\ QueuesSound'
            /\ queue' \in [Node -> Seq(Block)] /\ serving' \in [Node -> SUBSET Node]
            /\ call' \in [Node -> Node \cup {NoNode, Failed}]
            /\ \A k \in Node : k # m => queue'[k] = queue[k] /\ call'[k] = call[k]
            /\ Held(queue'[m]) \subseteq Held(queue[m])
            /\ queue[m] # <<>> /\ (queue'[m] # <<>> => queue'[m][Len(queue'[m])] = queue[m][Len(queue[m])])
        <5> HIDE DEF m
        <5> QED
          BY <1>1, <1>2, <3>1, <4>1, DueOfReturn
      <4> QED
        BY <3>1, <4>2
    <3>2. CASE UNCHANGED <<queue, serving, call>>
      <4>1. Due' = Due /\ \A k \in Node : Others(k)' = Others(k)
        BY <2>1, <3>2, DueSame
      <4>2. QueuesSound'
        BY <1>1, <2>1, <3>2, <4>1 DEF QueuesSound
      <4> QED
        BY <1>1, <3>2, <4>1, <4>2 DEF TypeOK
    <3> QED
      BY <2>2, <3>1, <3>2
  <2>7. ~ mixed => <<p, b>> \notin Due
    <3> SUFFICES ASSUME ~ mixed, <<p, b>> \in Due PROVE FALSE
      OBVIOUS
    <3>1. <<p, b>> \in Pending(m) /\ b \in Held(queue[m])
      BY <1>1, DueOf
    <3>2. b = queue[m][1] /\ call[m] = p
      BY <1>1, <1>2, <3>1 DEF CallsSound
    <3>3. queue[m] \in Seq(Nat) /\ Nat \in SUBSET Nat /\ queue[m] # <<>> /\ Sorted(queue[m]) /\ serving[m] # {}
      <4>1. queue[m] \in Seq(Nat) /\ Sorted(queue[m]) /\ NoNode \notin Node
        BY <1>1, <1>2, Typed DEF QueuesSound
      <4>2. queue[m] # <<>>
        BY <3>1, NoBlocks
      <4>3. serving[m] # {}
        BY <1>1, <1>2, <3>2, <4>1 DEF QueuesSound
      <4> QED
        BY <4>1, <4>2, <4>3
    <3>4. b \notin Rest(queue[m])
      BY <3>2, <3>3, Shifting
    <3>5. <<p, b>> \in Owed(queue[m], serving[m], call[m], Others(m))
      BY <1>2, <3>1, <3>3, PendingIs
    <3> QED
      BY <3>2, <3>3, <3>4, <3>5 DEF Owed
  <2>8. TypeOK'
    <3>1. handling' \subseteq Node \X Block
      BY <1>1, <2>1 DEF TypeOK
    <3>2. MembersOK'
      BY <1>1, <2>1 DEF TypeOK, MembersOK
    <3> QED
      BY <1>1, <2>1, <2>4, <2>5, <2>6, <3>1, <3>2 DEF TypeOK
  <2>9. CallsSound'
    <3> SUFFICES ASSUME ~ mixed, NEW x \in handling, x # <<p, b>>, NEW k \in Node, x[2] \in Held(queue'[k])
                 PROVE  x[2] = queue'[k][1] /\ call'[k] = x[1]
      BY <1>1, <2>1 DEF CallsSound
    <3>1. x[2] = queue[k][1] /\ call[k] = x[1] /\ x = <<x[1], x[2]>>
      BY <1>1, <2>6 DEF CallsSound, TypeOK
    <3>2. queue'[k] = queue[k] /\ call'[k] = call[k]
      BY <2>6, <3>1
    <3> QED
      BY <3>1, <3>2
  <2>10. Lists' /\ KeepersIn' /\ BooksSound' /\ Filled' /\ Linked' /\ PackedOnce'
    BY <1>1, <2>1, <2>5, <2>6 DEF Lists, KeepersIn, BooksSound, Filled, Has, Linked, PackedOnce, Calm
  <2>11. LockHeld'
    BY <1>1, <1>2, <2>1, <2>4 DEF LockHeld
  <2>12. OneKeeper'
    <3> SUFFICES ASSUME ~ hasty, ~ mixed
                 PROVE  /\ \A k \in keeper :
                              /\ keeper = {k} /\ \A x \in handling' : x[1] # k
                              /\ \A x \in missed : x[1] # k
                              /\ packing[k] # None => packing[k][2] = tail[k]
                              /\ \A l \in Node : queue'[l] # <<>> => l = k
                        /\ \A l, k \in Node : queue'[l] # <<>> /\ queue'[k] # <<>> => l = k
                        /\ \A l \in Node : queue'[l] # <<>> => queue'[l][Len(queue'[l])] = Len(made)
      BY <2>1 DEF OneKeeper
    <3>1. /\ \A k \in keeper :
               /\ keeper = {k} /\ \A x \in handling : x[1] # k
               /\ \A x \in missed : x[1] # k
               /\ packing[k] # None => packing[k][2] = tail[k]
               /\ \A l \in Node : queue[l] # <<>> => l = k
          /\ \A l, k \in Node : queue[l] # <<>> /\ queue[k] # <<>> => l = k
          /\ \A l \in Node : queue[l] # <<>> => queue[l][Len(queue[l])] = Len(made)
      BY <1>1 DEF OneKeeper
    <3> QED
      BY <2>1, <2>6, <3>1
  <2>13. AtEnd'
    BY <1>1, <2>1, <2>6 DEF AtEnd, Calm
  <2>14. PoolsSound'
    <3>1. ASSUME NEW k \in Node
          PROVE  /\ Once(pool'[k]) /\ Held(pool'[k]) \subseteq arrived[k]
                 /\ \A u \in arrived[k] \ Held(pool'[k]) : \E c \in 1 .. Len(made) : made[c].tx = u
      <4>1. CASE k # p
        BY <1>1, <2>4, <4>1 DEF PoolsSound
      <4>2. CASE k = p
        <5>1. Once(pool'[p]) /\ Held(pool'[p]) \subseteq arrived[p]
          BY <1>1, <2>3, <2>4 DEF PoolsSound
        <5>2. ASSUME NEW u \in arrived[p], u \notin Held(pool'[p]) PROVE \E c \in 1 .. Len(made) : made[c].tx = u
          <6>1. u = t \/ u \notin Held(q)
            BY <2>3, <2>4, <5>2
          <6> QED
            BY <1>1, <1>2, <6>1 DEF PoolsSound
        <5> QED
          BY <4>2, <5>1, <5>2
      <4> QED
        BY <4>1, <4>2
    <3> QED
      BY <1>1, <2>1, <3>1 DEF PoolsSound
  <2>15. InOrder'
    <3> SUFFICES ASSUME Calm, NEW k \in Node, NEW c \in 1 .. Len(made), made[c].tx \notin overtaken, <<k, c>> \notin missed
                 PROVE  /\ made[c].tx \in Held(pool'[k]) => <<k, c>> \in handling' \cup Due
                        /\ k \in telling[made[c].tx].rest => <<k, c>> \in Due
                        /\ <<k, c>> \in handling' \cup Due /\ made[c].tx \in arrived[k] => made[c].tx \in Held(pool'[k])
      <4>1. Calm' = Calm
        BY <2>1 DEF Calm
      <4> SUFFICES ASSUME Calm, NEW k \in Node, NEW c \in 1 .. Len(made) PROVE Follows(k, c)'
        BY <2>1, <4>1 DEF InOrder
      <4> QED
        BY <2>1, <2>6 DEF Follows
    <3>1. /\ made[c].tx \in Held(pool[k]) => <<k, c>> \in handling \cup Due
          /\ k \in telling[made[c].tx].rest => <<k, c>> \in Due
          /\ <<k, c>> \in handling \cup Due /\ made[c].tx \in arrived[k] => made[c].tx \in Held(pool[k])
      BY <1>1 DEF InOrder, Follows
    <3>2. CASE k # p
      <4>1. pool'[k] = pool[k] /\ (<<k, c>> \in handling' <=> <<k, c>> \in handling)
        BY <2>1, <2>4, <3>2
      <4> QED
        BY <3>1, <4>1
    <3>3. CASE k = p /\ made[c].tx # t
      <4>1. made[c].tx \in Held(pool'[k]) <=> made[c].tx \in Held(pool[k])
        BY <2>3, <2>4, <3>3
      <4>2. c # b
        BY <3>3
      <4>3. <<k, c>> \in handling' <=> <<k, c>> \in handling
        BY <2>1, <4>2
      <4> QED
        BY <3>1, <4>1, <4>3
    <3>4. CASE k = p /\ made[c].tx = t
      <4>1. c = b
        <5>1. DOMAIN made = 1 .. Len(made)
          BY <1>1, LenProperties DEF TypeOK
        <5> QED
          BY <1>1, <1>2, <3>4, <5>1 DEF PackedOnce, Calm
      <4>2. <<k, c>> \notin handling' \cup Due /\ made[c].tx \notin Held(pool'[k])
        BY <2>1, <2>3, <2>4, <2>7, <3>4, <4>1 DEF Calm
      <4> QED
        BY <3>1, <4>2
    <3> QED
      BY <3>2, <3>3, <3>4
  <2> QED
    BY <2>6, <2>8, <2>9, <2>10, <2>11, <2>12, <2>13, <2>14, <2>15 DEF IInv
<1> QED
  BY <1>4, <1>5

-----------------------------------------------------------------------------
(* The synchronisation.                                                        *)

\* A set of numbers that is not empty has a least member.
LEMMA Least ==
  ASSUME NEW T \in SUBSET Nat, T # {} PROVE \E x \in T : \A y \in T : x <= y
<1> DEFINE Before == {x \in Nat \X Nat : x[1] < x[2]}
<1>1. Before = OpToRel(<, Nat)
  BY DEF OpToRel
<1>2. IsWellFoundedOn(Before, Nat)
  BY <1>1, NatLessThanWellFounded
<1>3. \E x \in T : \A y \in T : <<y, x>> \notin Before
  <2> HIDE DEF Before
  <2> QED
    BY <1>2, WFMin
<1>4. \A x, y \in Nat : <<y, x>> \notin Before => x <= y
  OBVIOUS
<1> QED
  BY <1>3, <1>4

\* When every block is linked to the one made before it, the line of a block is that
\* block and all those before.
LEMMA LineOfLinked ==
  ASSUME TypeOK, \A b \in 1 .. Len(made) : made[b].prev = b - 1
  PROVE  \A b \in Block : Line[b] = 0 .. b
<1> DEFINE R(f) == [b \in Block |-> IF b = 0 THEN {0} ELSE {b} \cup f[made[b].prev]]
           g == [b \in Block |-> 0 .. b]
<1>1. Len(made) \in Nat /\ Block = 0 .. Len(made)
  BY BlockIs DEF Block
<1>2. \A b \in Block : b = 0 \/ (b \in 1 .. Len(made) /\ made[b].prev = b - 1 /\ b - 1 \in Block)
  BY <1>1
<1>3. g = R(g)
  <2>1. ASSUME NEW b \in Block PROVE 0 .. b = IF b = 0 THEN {0} ELSE {b} \cup g[made[b].prev]
    <3>1. CASE b = 0
      BY <3>1
    <3>2. CASE b # 0
      <4>1. b \in Nat /\ made[b].prev = b - 1 /\ b - 1 \in Block
        BY <1>1, <1>2, <3>2
      <4>2. g[made[b].prev] = 0 .. b - 1
        BY <4>1
      <4>3. 0 .. b = {b} \cup 0 .. b - 1
        BY <3>2, <4>1
      <4> QED
        BY <3>2, <4>2, <4>3
    <3> QED
      BY <3>1, <3>2
  <2> QED
    BY <2>1
<1>4. Line = CHOOSE f : f = R(f)
  BY DEF Line
<1> DEFINE h == Line
<1>5. h = R(h)
  <2> HIDE DEF g
  <2> QED
    BY <1>3, <1>4
<1> HIDE DEF h
<1>6. \A b \in Block : h[b] = IF b = 0 THEN {0} ELSE {b} \cup h[made[b].prev]
  BY <1>5
<1> SUFFICES ASSUME NEW c \in Block, h[c] # 0 .. c PROVE FALSE
  BY DEF h
<1> DEFINE T == {b \in Block : h[b] # 0 .. b}
<1>7. T \in SUBSET Nat /\ T # {}
  BY <1>1
<1>8. PICK b \in T : \A d \in T : b <= d
  <2> HIDE DEF T
  <2> QED
    BY <1>7, Least
<1>9. b # 0
  <2>1. 0 \in Block
    BY <1>1
  <2>2. h[0] = {0}
    BY <1>6, <2>1
  <2>3. 0 .. 0 = {0}
    OBVIOUS
  <2> QED
    BY <2>2, <2>3
<1>10. b \in Nat /\ b \in Block /\ made[b].prev = b - 1 /\ b - 1 \in Block /\ ~ (b <= b - 1)
  BY <1>1, <1>2, <1>9
<1>11. h[b - 1] = 0 .. b - 1
  BY <1>8, <1>10
<1>12. h[b] = {b} \cup 0 .. b - 1
  BY <1>6, <1>9, <1>10, <1>11
<1>13. {b} \cup 0 .. b - 1 = 0 .. b
  BY <1>9, <1>10
<1> QED
  BY <1>12, <1>13

\* The answer of a bookkeeper that is in step holds every block, the newest among them;
\* one that comes from another says nothing.
LEMMA SynchroniseKeeps ==
  ASSUME IInv, NEW n \in Node, NEW s \in Node, Synchronise(n, s)
  PROVE  IInv'
<1> DEFINE A == Behind(n, s)
<1>1. /\ TypeOK /\ Lists /\ QueuesSound /\ CallsSound /\ BooksSound /\ Filled /\ LockHeld
      /\ KeepersIn /\ OneKeeper /\ AtEnd /\ Linked /\ PoolsSound /\ InOrder /\ PackedOnce
  BY DEF IInv
<1>2. CASE ~ (s \in up /\ tail[n] \in Line[tail[s]] /\ A \subseteq store[s])
  <2>1. Down({n, s}) /\ UNCHANGED <<crashes, nil>>
    BY <1>2 DEF Synchronise
  <2>2. crashes' \in 0 .. MaxCrashes /\ nil' \in SUBSET Tx /\ (Calm => nil' \subseteq overtaken)
    BY <2>1 DEF IInv, TypeOK, PackedOnce, Calm
  <2>3. {n, s} \in SUBSET Node
    OBVIOUS
  <2> QED
    BY <2>1, <2>2, <2>3, DownKeeps
<1>3. CASE s \in up /\ tail[n] \in Line[tail[s]] /\ A \subseteq store[s]
  <2>1. /\ phase[n] = "joined" /\ s \in Others(n)
        /\ answer' = [answer EXCEPT ![n] = A] /\ phase' = [phase EXCEPT ![n] = "append"]
        /\ early' = early \cup {x \in {n} : ~ InStep(s)}
        /\ UNCHANGED <<made, store, tail, pool, packing, arrived, queue, serving, call, handling, dropped, missed>>
        /\ UNCHANGED <<known, told, mixed, overtaken, keeper, turns, hasty, late, up, crashes, restarts, nil, telling>>
    BY <1>3 DEF Synchronise, ledger, pools, sending, roles, members, faults
  <2>2. Len(made) \in Nat /\ Block = 0 .. Len(made)
    BY <1>1, BlockIs DEF Block
  <2>3. /\ phase'[n] = "append" /\ answer'[n] = A /\ A \subseteq Block
        /\ \A k \in Node : k # n => phase'[k] = phase[k] /\ answer'[k] = answer[k]
        /\ phase' \in [Node -> {"out", "joined", "append", "in"}] /\ answer' \in [Node -> SUBSET Block]
    <3>1. A \in SUBSET Block
      BY <1>1, <1>3 DEF TypeOK
    <3> HIDE DEF A
    <3> QED
      BY <1>1, <2>1, <3>1 DEF TypeOK
  <2>4. 0 \notin A
    <3>1. tail[n] \in Nat
      BY <1>1, <2>2 DEF TypeOK
    <3>2. A \subseteq {b \in Line[tail[s]] : b > tail[n]}
      BY DEF Behind
    <3> QED
      BY <3>1, <3>2
  <2>5. Member' = Member /\ Block' = Block
    BY <2>1, <2>3 DEF Member, Block
  <2>6. Due' = Due /\ \A k \in Node : Others(k)' = Others(k)
    BY <2>1, DueSame
  <2>7. TypeOK'
    BY <1>1, <2>1, <2>3, <2>5 DEF TypeOK, MembersOK
  <2>8. ASSUME n \notin early'
        PROVE  /\ ~ hasty /\ tail[n] = 0 /\ store[n] = {0}
               /\ A = 1 .. Len(made)
    <3>1. n \notin early /\ InStep(s)
      BY <2>1, <2>8
    <3>2. /\ keeper = {s} /\ ~ hasty /\ ~ mixed /\ dropped = {} /\ s \notin early \cup late
          /\ \A b \in 1 .. Len(made) : made[b].by \notin early \cup late
      <4>1. DOMAIN made = 1 .. Len(made)
        BY <1>1, LenProperties DEF TypeOK
      <4> QED
        BY <3>1, <4>1 DEF InStep
    <3>3. store[n] = {0} /\ tail[n] = 0
      BY <1>1, <2>1, <3>1, <3>2 DEF Filled, TypeOK
    <3>4. /\ phase[s] = "in" /\ \A k \in Node : queue[k] # <<>> => k = s
          /\ \A x \in missed : x[1] # s
      BY <1>1, <3>2 DEF OneKeeper, KeepersIn
    <3>5. ASSUME NEW b \in 1 .. Len(made), <<s, b>> \in Due \cup missed PROVE FALSE
      <4>1. <<s, b>> \in Due
        BY <3>4, <3>5
      <4>2. made[b].by \in Node /\ s \in Others(made[b].by) /\ b \in Held(queue[made[b].by])
        BY <1>1, <4>1, DueOf
      <4>3. queue[made[b].by] # <<>>
        BY <4>2, NoBlocks
      <4> QED
        BY <3>4, <4>2, <4>3 DEF Others
    <3>6. tail[s] = Len(made)
      BY <1>1, <3>2, <3>4, <3>5 DEF AtEnd, Calm
    <3>7. \A b \in 1 .. Len(made) : made[b].prev = b - 1
      BY <1>1, <3>2 DEF Linked, Calm
    <3>8. Line[Len(made)] = 0 .. Len(made)
      BY <1>1, <2>2, <3>7, LineOfLinked
    <3>9. A = {b \in 0 .. Len(made) : b > 0}
      BY <3>3, <3>6, <3>8 DEF Behind
    <3>10. {b \in 0 .. Len(made) : b > 0} = 1 .. Len(made)
      BY <2>2
    <3> QED
      BY <3>2, <3>3, <3>9, <3>10
  <2> HIDE DEF A
  <2>9. Lists' /\ QueuesSound' /\ CallsSound' /\ LockHeld' /\ PackedOnce'
    <3>1. \A k \in Node : phase'[k] = "out" => phase[k] = "out"
      BY <2>3
    <3> QED
      BY <1>1, <2>1, <2>5, <2>6, <3>1 DEF Lists, QueuesSound, CallsSound, LockHeld, PackedOnce, Calm
  <2>10. BooksSound'
    <3> SUFFICES ASSUME NEW k \in Node
                 PROVE  /\ 0 \in store[k] /\ 0 \notin answer'[k]
                        /\ phase'[k] # "append" => answer'[k] = {}
      BY <1>1, <2>1, <2>5 DEF BooksSound
    <3>1. CASE k = n
      BY <1>1, <2>3, <2>4, <3>1 DEF BooksSound
    <3>2. CASE k # n
      BY <1>1, <2>3, <3>2 DEF BooksSound
    <3> QED
      BY <3>1, <3>2
  <2>11. Filled'
    <3> SUFFICES ASSUME NEW k \in Node, k \notin early'
                 PROVE  /\ phase'[k] \in {"out", "joined"} =>
                             (store[k] = {0} \/ hasty) /\ \A c \in store[k] \ {0} : made[c].prev \in store[k]
                        /\ phase'[k] \in {"append", "in"} =>
                              \A c \in 1 .. Len(made) : c \in store[k] \cup answer'[k] \/ <<k, c>> \in dropped \cup missed \cup Due
      BY <2>1, <2>6 DEF Filled, Has
    <3>1. CASE k = n
      BY <2>3, <2>8, <3>1
    <3>2. CASE k # n
      <4>1. k \notin early
        BY <2>1
      <4> QED
        BY <1>1, <2>3, <3>2, <4>1 DEF Filled, Has
    <3> QED
      BY <3>1, <3>2
  <2>12. KeepersIn' /\ OneKeeper'
    <3>1. ~ hasty => \A k \in keeper : k # n /\ phase'[k] = phase[k]
      <4>1. keeper \subseteq Node
        BY <1>1 DEF TypeOK
      <4> QED
        BY <1>1, <2>1, <2>3, <4>1 DEF KeepersIn
    <3> QED
      BY <1>1, <2>1, <3>1 DEF KeepersIn, OneKeeper
  <2>13. AtEnd'
    <3> SUFFICES ASSUME Calm, NEW k \in Node, k \notin early' \cup late,
                        \A c \in 1 .. Len(made) : <<k, c>> \notin Due \cup missed
                 PROVE  /\ phase'[k] = "in" => tail[k] = Len(made)
                        /\ phase'[k] = "append" =>
                             IF answer'[k] = {} THEN tail[k] = Len(made) ELSE Len(made) \in answer'[k]
      BY <2>1, <2>6 DEF AtEnd, Calm
    <3>1. CASE k = n
      <4>1. A = 1 .. Len(made) /\ tail[n] = 0
        BY <2>8, <3>1
      <4>2. CASE Len(made) = 0
        <5>1. A = {}
          BY <4>1, <4>2
        <5> QED
          BY <2>3, <3>1, <4>1, <4>2, <5>1
      <4>3. CASE Len(made) # 0
        <5>1. Len(made) \in A
          BY <2>2, <4>1, <4>3
        <5> QED
          BY <2>3, <3>1, <5>1
      <4> QED
        BY <4>2, <4>3
    <3>2. CASE k # n
      <4>1. k \notin early \cup late
        BY <2>1
      <4> QED
        BY <1>1, <2>3, <3>2, <4>1 DEF AtEnd
    <3> QED
      BY <3>1, <3>2
  <2>14. Linked'
    <3>1. early \subseteq early'
      BY <2>1
    <3> QED
      BY <1>1, <2>1, <3>1 DEF Linked, Calm
  <2>15. PoolsSound'
    BY <1>1, <2>1 DEF PoolsSound
  <2>16. InOrder'
    <3> SUFFICES ASSUME Calm, NEW k \in Node, NEW c \in 1 .. Len(made) PROVE Follows(k, c)'
      BY <2>1 DEF InOrder, Calm
    <3> QED
      BY <1>1, <2>1, <2>6 DEF InOrder, Follows
  <2> QED
    BY <2>6, <2>7, <2>9, <2>10, <2>11, <2>12, <2>13, <2>14, <2>15, <2>16 DEF IInv
<1> QED
  BY <1>2, <1>3

\* The blocks of the answer are appended from the first on: the newest is the last.
LEMMA AppendAnswerKeeps ==
  ASSUME IInv, NEW n \in Node, AppendAnswer(n)
  PROVE  IInv'
<1> DEFINE A == answer[n]
           b == NextOf(A)
<1>1. /\ TypeOK /\ Lists /\ QueuesSound /\ CallsSound /\ BooksSound /\ Filled /\ LockHeld
      /\ KeepersIn /\ OneKeeper /\ AtEnd /\ Linked /\ PoolsSound /\ InOrder /\ PackedOnce
  BY DEF IInv
<1>2. /\ phase[n] = "append"
      /\ UNCHANGED <<pool, packing, arrived, queue, serving, call, handling, dropped, missed, mixed, overtaken>>
      /\ UNCHANGED <<known, told, telling, keeper, turns, hasty, early, late, up, crashes, restarts, nil, made>>
  BY DEF AppendAnswer, pools, sending, roles, members, faults, ledger
<1>3. Len(made) \in Nat /\ Block = 0 .. Len(made) /\ A \in SUBSET Block
  BY <1>1, BlockIs DEF Block, TypeOK
<1>4. \/ /\ A = {} /\ phase' = [phase EXCEPT ![n] = "in"] /\ UNCHANGED <<answer, store, tail>>
      \/ /\ A # {} /\ store' = [store EXCEPT ![n] = @ \cup {b}] /\ tail' = [tail EXCEPT ![n] = b]
         /\ answer' = [answer EXCEPT ![n] = A \ {b}] /\ phase' = phase
  BY DEF AppendAnswer, Appended, ledger
<1>5. A # {} => b \in A /\ \A c \in A : b <= c
  <2>1. A \in SUBSET Nat
    BY <1>3
  <2> HIDE DEF A
  <2>2. A # {} => \E x \in A : \A c \in A : x <= c
    BY <2>1, Least
  <2> QED
    BY <2>2 DEF NextOf
<1> HIDE DEF b
<1>6. /\ phase' \in [Node -> {"out", "joined", "append", "in"}] /\ answer' \in [Node -> SUBSET Block]
      /\ store' \in [Node -> SUBSET Block] /\ tail' \in [Node -> Block]
      /\ \A k \in Node : k # n => phase'[k] = phase[k] /\ answer'[k] = answer[k] /\ store'[k] = store[k] /\ tail'[k] = tail[k]
      /\ \A k \in Node : tail'[k] \in store'[k]
      /\ phase'[n] \in {"append", "in"} /\ store[n] \subseteq store'[n]
      /\ store[n] \cup answer[n] \subseteq store'[n] \cup answer'[n] /\ answer'[n] \subseteq answer[n]
      /\ phase'[n] # "append" => answer'[n] = {}
  <2>1. CASE A = {}
    BY <1>1, <1>2, <1>4, <2>1 DEF TypeOK
  <2>2. CASE A # {}
    <3>1. /\ store' = [store EXCEPT ![n] = @ \cup {b}] /\ tail' = [tail EXCEPT ![n] = b]
          /\ answer' = [answer EXCEPT ![n] = A \ {b}] /\ phase' = phase
      BY <1>4, <2>2
    <3>2. b \in Block
      BY <1>3, <1>5, <2>2
    <3> QED
      BY <1>1, <1>2, <1>3, <3>1, <3>2 DEF TypeOK
  <2> QED
    BY <2>1, <2>2
<1>7. Member' = Member /\ Block' = Block
  BY <1>2, <1>6 DEF Member, Block
<1>8. Due' = Due /\ \A k \in Node : Others(k)' = Others(k)
  BY <1>2, DueSame
<1>9. TypeOK'
  BY <1>1, <1>2, <1>6, <1>7 DEF TypeOK, MembersOK
<1>10. Lists' /\ QueuesSound' /\ CallsSound' /\ Linked' /\ PoolsSound' /\ PackedOnce'
  <2>1. \A k \in Node : phase'[k] = "out" => phase[k] = "out"
    BY <1>6
  <2> QED
    BY <1>1, <1>2, <1>7, <1>8, <2>1 DEF Lists, QueuesSound, CallsSound, Linked, PoolsSound, PackedOnce, Calm
<1>11. InOrder'
  <2> SUFFICES ASSUME Calm, NEW k \in Node, NEW c \in 1 .. Len(made) PROVE Follows(k, c)'
    BY <1>2 DEF InOrder, Calm
  <2> QED
    BY <1>1, <1>2, <1>8 DEF InOrder, Follows
<1>12. BooksSound'
  <2> SUFFICES ASSUME NEW k \in Node
               PROVE  /\ 0 \in store'[k] /\ 0 \notin answer'[k]
                      /\ phase'[k] # "append" => answer'[k] = {}
    BY <1>1, <1>2, <1>7 DEF BooksSound
  <2>1. CASE k = n
    BY <1>1, <1>6, <2>1 DEF BooksSound
  <2>2. CASE k # n
    BY <1>1, <1>6, <2>2 DEF BooksSound
  <2> QED
    BY <2>1, <2>2
<1>13. Filled'
  <2> SUFFICES ASSUME NEW k \in Node, k \notin early
               PROVE  /\ phase'[k] \in {"out", "joined"} =>
                           (store'[k] = {0} \/ hasty) /\ \A c \in store'[k] \ {0} : made[c].prev \in store'[k]
                      /\ phase'[k] \in {"append", "in"} =>
                            \A c \in 1 .. Len(made) : c \in store'[k] \cup answer'[k] \/ <<k, c>> \in dropped \cup missed \cup Due
    BY <1>2, <1>8 DEF Filled, Has
  <2>1. CASE k = n
    <3>1. \A c \in 1 .. Len(made) : c \in store[n] \cup answer[n] \/ <<n, c>> \in dropped \cup missed \cup Due
      BY <1>1, <1>2, <2>1 DEF Filled, Has
    <3> QED
      BY <1>6, <2>1, <3>1
  <2>2. CASE k # n
    BY <1>1, <1>6, <2>2 DEF Filled, Has
  <2> QED
    BY <2>1, <2>2
<1>14. LockHeld'
  <2>1. \A k \in Node : store[k] \subseteq store'[k]
    BY <1>6
  <2> QED
    BY <1>1, <1>2, <2>1 DEF LockHeld
<1>15. KeepersIn' /\ OneKeeper'
  <2>1. ~ hasty => \A k \in keeper : k # n /\ phase'[k] = phase[k] /\ tail'[k] = tail[k]
    <3>1. keeper \subseteq Node
      BY <1>1 DEF TypeOK
    <3> QED
      BY <1>1, <1>2, <1>6, <3>1 DEF KeepersIn
  <2> QED
    BY <1>1, <1>2, <2>1 DEF KeepersIn, OneKeeper
<1>16. AtEnd'
  <2> SUFFICES ASSUME Calm, NEW k \in Node, k \notin early \cup late,
                      \A c \in 1 .. Len(made) : <<k, c>> \notin Due \cup missed
               PROVE  /\ phase'[k] = "in" => tail'[k] = Len(made)
                      /\ phase'[k] = "append" =>
                           IF answer'[k] = {} THEN tail'[k] = Len(made) ELSE Len(made) \in answer'[k]
    BY <1>2, <1>8 DEF AtEnd, Calm
  <2>1. CASE k # n
    BY <1>1, <1>6, <2>1 DEF AtEnd
  <2>2. CASE k = n
    <3>1. /\ A = {} => tail[n] = Len(made)
          /\ A # {} => Len(made) \in A
      BY <1>1, <1>2, <2>2 DEF AtEnd
    <3>2. CASE A = {}
      <4>1. tail'[n] = tail[n] /\ answer'[n] = {}
        BY <1>4, <3>2
      <4> QED
        BY <2>2, <3>1, <3>2, <4>1
    <3>3. CASE A # {}
      <4>1. tail'[n] = b /\ answer'[n] = A \ {b} /\ phase'[n] = "append"
        BY <1>1, <1>2, <1>4, <3>3 DEF TypeOK
      <4>2. b \in A /\ Len(made) \in A /\ b \in Nat /\ \A c \in A : b <= c /\ c <= Len(made) /\ c \in Nat
        BY <1>3, <1>5, <3>1, <3>3
      <4>3. CASE b = Len(made)
        <5>1. \A c \in A : c = b
          BY <1>3, <4>2, <4>3
        <5>2. A \ {b} = {}
          BY <5>1
        <5> QED
          BY <2>2, <4>1, <4>3, <5>2
      <4>4. CASE b # Len(made)
        <5>1. Len(made) \in A \ {b}
          BY <4>2, <4>4
        <5> QED
          BY <2>2, <4>1, <5>1
      <4> QED
        BY <4>3, <4>4
    <3> QED
      BY <3>2, <3>3
  <2> QED
    BY <2>1, <2>2
<1> QED
  BY <1>8, <1>9, <1>10, <1>11, <1>12, <1>13, <1>14, <1>15, <1>16 DEF IInv


\* A node that has no bookkeeper in its list asks nobody: it has everything only when
\* there is nothing yet.
LEMMA NoSourceKeeps ==
  ASSUME IInv, NEW n \in Node, NoSource(n)
  PROVE  IInv'
<1>1. /\ phase[n] = "joined" /\ phase' = [phase EXCEPT ![n] = "in"]
      /\ early' = early \cup {x \in {n} : made # <<>>}
      /\ UNCHANGED <<made, store, tail, pool, packing, arrived, queue, serving, call, handling, dropped, missed>>
      /\ UNCHANGED <<known, told, mixed, overtaken, keeper, turns, hasty, late, answer, up, crashes, restarts, nil, telling>>
  BY DEF NoSource, ledger, pools, sending, roles, members, faults
<1>2. /\ TypeOK /\ Lists /\ QueuesSound /\ CallsSound /\ BooksSound /\ Filled /\ LockHeld
      /\ KeepersIn /\ OneKeeper /\ AtEnd /\ Linked /\ PoolsSound /\ InOrder /\ PackedOnce
  BY DEF IInv
<1>3. /\ phase'[n] = "in" /\ \A k \in Node : k # n => phase'[k] = phase[k]
      /\ phase' \in [Node -> {"out", "joined", "append", "in"}] /\ Len(made) \in Nat
  BY <1>1, <1>2, Typed
<1>4. Member' = Member /\ Block' = Block
  BY <1>1, <1>3 DEF Member, Block
<1>5. Due' = Due /\ \A k \in Node : Others(k)' = Others(k)
  BY <1>1, DueSame
<1>6. TypeOK'
  BY <1>1, <1>2, <1>3, <1>4 DEF TypeOK, MembersOK
<1>7. Lists' /\ QueuesSound' /\ CallsSound' /\ LockHeld' /\ PackedOnce' /\ PoolsSound'
  <2>1. \A k \in Node : phase'[k] = "out" => phase[k] = "out"
    BY <1>3
  <2> QED
    BY <1>1, <1>2, <1>4, <1>5, <2>1 DEF Lists, QueuesSound, CallsSound, LockHeld, PackedOnce, PoolsSound, Calm
<1>8. BooksSound'
  <2>1. \A k \in Node : phase'[k] # "append" => phase[k] # "append"
    BY <1>1, <1>3
  <2> QED
    BY <1>1, <1>2, <1>4, <2>1 DEF BooksSound
<1>9. KeepersIn' /\ OneKeeper'
  <2>1. ~ hasty => \A k \in keeper : phase'[k] = phase[k]
    <3>1. keeper \subseteq Node
      BY <1>2 DEF TypeOK
    <3> QED
      BY <1>1, <1>2, <1>3, <3>1 DEF KeepersIn
  <2> QED
    BY <1>1, <1>2, <2>1 DEF KeepersIn, OneKeeper
<1>10. ASSUME n \notin early' PROVE Len(made) = 0 /\ tail[n] = 0
  <2>1. made = <<>>
    BY <1>1, <1>10
  <2>2. Len(made) = 0
    BY <2>1
  <2>3. Block = 0 .. Len(made)
    BY DEF Block
  <2>4. tail[n] \in Block
    BY <1>2 DEF TypeOK
  <2> QED
    BY <2>2, <2>3, <2>4
<1>11. Filled'
  <2> SUFFICES ASSUME NEW k \in Node, k \notin early'
               PROVE  /\ phase'[k] \in {"out", "joined"} =>
                           (store[k] = {0} \/ hasty) /\ \A c \in store[k] \ {0} : made[c].prev \in store[k]
                      /\ phase'[k] \in {"append", "in"} =>
                            \A c \in 1 .. Len(made) : c \in store[k] \cup answer[k] \/ <<k, c>> \in dropped \cup missed \cup Due
    BY <1>1, <1>5 DEF Filled, Has
  <2>1. CASE k = n
    BY <1>3, <1>10, <2>1
  <2>2. CASE k # n
    BY <1>1, <1>2, <1>3, <2>2 DEF Filled, Has
  <2> QED
    BY <2>1, <2>2
<1>12. AtEnd'
  <2> SUFFICES ASSUME Calm, NEW k \in Node, k \notin early' \cup late,
                      \A c \in 1 .. Len(made) : <<k, c>> \notin Due \cup missed
               PROVE  /\ phase'[k] = "in" => tail[k] = Len(made)
                      /\ phase'[k] = "append" =>
                           IF answer[k] = {} THEN tail[k] = Len(made) ELSE Len(made) \in answer[k]
    BY <1>1, <1>5 DEF AtEnd, Calm
  <2>1. CASE k = n
    BY <1>3, <1>10, <2>1
  <2>2. CASE k # n
    BY <1>1, <1>2, <1>3, <2>2 DEF AtEnd
  <2> QED
    BY <2>1, <2>2
<1>13. Linked' /\ InOrder'
  <2>1. early \subseteq early'
    BY <1>1
  <2>2. Linked'
    BY <1>1, <1>2, <2>1 DEF Linked, Calm
  <2> SUFFICES ASSUME Calm, NEW k \in Node, NEW c \in 1 .. Len(made) PROVE Follows(k, c)'
    BY <1>1, <2>2 DEF InOrder, Calm
  <2> QED
    BY <1>1, <1>2, <1>5 DEF InOrder, Follows
<1> QED
  BY <1>5, <1>6, <1>7, <1>8, <1>9, <1>11, <1>12, <1>13 DEF IInv

\* A block that is taken for its peers is still for the same nodes.
LEMMA TakeKeeps ==
  ASSUME IInv, NEW m \in Node, TakeBlock(m)
  PROVE  IInv'
<1>1. /\ UNCHANGED <<made, store, tail, pool, packing, arrived, call, handling, dropped, missed, mixed, overtaken>>
      /\ UNCHANGED <<known, told, keeper, turns, hasty, phase, answer, early, late, up, crashes, restarts, nil, telling>>
  BY DEF TakeBlock, ledger, pools, roles, joining, members, faults
<1>2. /\ TypeOK /\ Lists /\ QueuesSound /\ CallsSound /\ BooksSound /\ Filled /\ LockHeld
      /\ KeepersIn /\ OneKeeper /\ AtEnd /\ Linked /\ PoolsSound /\ InOrder /\ PackedOnce
  BY DEF IInv
<1>3. /\ Due' = Due /\ QueuesSound'
      /\ queue' \in [Node -> Seq(Block)] /\ serving' \in [Node -> SUBSET Node]
      /\ \A k \in Node : k # m => queue'[k] = queue[k]
      /\ Held(queue'[m]) \subseteq Held(queue[m])
      /\ queue'[m] # <<>> => queue[m] # <<>> /\ queue'[m][Len(queue'[m])] = queue[m][Len(queue[m])]
      /\ call[m] = NoNode
  BY <1>2, DueOfTake
<1>4. Member' = Member /\ Block' = Block
  BY <1>1 DEF Member, Block
<1>5. TypeOK'
  BY <1>1, <1>2, <1>3, <1>4 DEF TypeOK, MembersOK
<1>6. CallsSound'
  <2> SUFFICES ASSUME ~ mixed, NEW x \in handling, NEW k \in Node, x[2] \in Held(queue'[k])
               PROVE  x[2] = queue'[k][1] /\ call[k] = x[1]
    BY <1>1, <1>2 DEF CallsSound
  <2>1. x[2] \in Held(queue[k])
    BY <1>3
  <2>2. call[k] = x[1] /\ x[2] = queue[k][1] /\ x[1] \in Node /\ NoNode \notin Node
    BY <1>2, <2>1, NetAssumption DEF CallsSound, TypeOK
  <2>3. k # m
    BY <1>3, <2>2
  <2> QED
    BY <1>3, <2>2, <2>3
<1>7. Lists' /\ BooksSound' /\ Filled' /\ LockHeld' /\ KeepersIn' /\ AtEnd' /\ Linked' /\ PoolsSound' /\ PackedOnce'
  <2>1. Lists' /\ BooksSound' /\ LockHeld' /\ KeepersIn'
    BY <1>1, <1>2, <1>4 DEF Lists, BooksSound, LockHeld, KeepersIn
  <2>2. Filled' /\ AtEnd'
    BY <1>1, <1>2, <1>3 DEF Filled, Has, AtEnd, Calm
  <2>3. Linked' /\ PoolsSound' /\ PackedOnce'
    BY <1>1, <1>2 DEF Linked, PoolsSound, PackedOnce, Calm
  <2> QED
    BY <2>1, <2>2, <2>3
<1>8. OneKeeper'
  <2>1. \A k \in Node : queue'[k] # <<>> => queue[k] # <<>> /\ queue'[k][Len(queue'[k])] = queue[k][Len(queue[k])]
    BY <1>3
  <2> QED
    BY <1>1, <1>2, <2>1 DEF OneKeeper
<1>9. InOrder'
  <2> SUFFICES ASSUME Calm, NEW k \in Node, NEW c \in 1 .. Len(made) PROVE Follows(k, c)'
    BY <1>1 DEF InOrder, Calm
  <2> QED
    BY <1>1, <1>2, <1>3 DEF InOrder, Follows
<1> QED
  BY <1>3, <1>5, <1>6, <1>7, <1>8, <1>9 DEF IInv

\* What a second distributor unlinks is lost, and nothing more is claimed of the order.
LEMMA CutOffKeeps ==
  ASSUME IInv, NEW m \in Node, CutOff(m)
  PROVE  IInv'
<1>1. /\ UNCHANGED <<made, store, tail, pool, packing, arrived, serving, call, handling, missed, overtaken>>
      /\ UNCHANGED <<known, told, keeper, turns, hasty, phase, answer, early, late, up, crashes, restarts, nil, telling>>
      /\ mixed' = TRUE
  BY DEF CutOff, ledger, pools, roles, joining, members, faults
<1>2. /\ TypeOK /\ Lists /\ QueuesSound /\ CallsSound /\ BooksSound /\ Filled /\ LockHeld
      /\ KeepersIn /\ PoolsSound /\ PackedOnce
  BY DEF IInv
<1>3. /\ Due' \subseteq Due /\ Due \subseteq Due' \cup dropped' /\ QueuesSound'
      /\ queue' \in [Node -> Seq(Block)] /\ dropped' \subseteq Node \X Block /\ dropped \subseteq dropped'
  BY <1>2, DueOfCut
<1>4. Member' = Member /\ Block' = Block
  BY <1>1 DEF Member, Block
<1>5. TypeOK'
  BY <1>1, <1>2, <1>3, <1>4 DEF TypeOK, MembersOK
<1>6. Lists' /\ CallsSound' /\ BooksSound' /\ LockHeld' /\ KeepersIn' /\ PoolsSound'
  BY <1>1, <1>2, <1>4 DEF Lists, CallsSound, BooksSound, LockHeld, KeepersIn, PoolsSound
<1>7. Filled'
  BY <1>1, <1>2, <1>3 DEF Filled, Has
<1>8. OneKeeper' /\ AtEnd' /\ Linked' /\ InOrder' /\ PackedOnce'
  BY <1>1 DEF OneKeeper, AtEnd, Linked, InOrder, PackedOnce, Calm
<1> QED
  BY <1>3, <1>5, <1>6, <1>7, <1>8 DEF IInv

\* A node whose second distributor finds no block ends.
LEMMA NilBlockKeeps ==
  ASSUME IInv, NEW m \in Node, NilBlock(m)
  PROVE  IInv'
<1>1. Down({m}) /\ UNCHANGED <<crashes, nil>>
  BY DEF NilBlock
<1>2. crashes' \in 0 .. MaxCrashes /\ nil' \in SUBSET Tx /\ (Calm => nil' \subseteq overtaken)
  BY <1>1 DEF IInv, TypeOK, PackedOnce, Calm
<1>3. {m} \in SUBSET Node
  OBVIOUS
<1> QED
  BY <1>1, <1>2, <1>3, DownKeeps

-----------------------------------------------------------------------------
(* The invariant.                                                              *)

\* At first the file of every node has the genesis block, and nothing is under way.
LEMMA InitHas == Init => IInv
<1> SUFFICES ASSUME Init PROVE IInv
  OBVIOUS
<1>1. /\ made = <<>> /\ Len(made) = 0 /\ made \in Seq(TableBlock) /\ Block = {0}
      /\ \A b : b \notin 1 .. Len(made)
  <2>1. made = <<>> /\ Len(made) = 0 /\ made \in Seq(TableBlock)
    BY EmptySeq DEF Init
  <2>2. 0 .. 0 = {0} /\ 1 .. 0 = {}
    OBVIOUS
  <2> QED
    BY <2>1, <2>2 DEF Block
<1>2. /\ store = Everywhere({0}) /\ tail = Everywhere(0)
      /\ pool = Everywhere(<<>>) /\ packing = Everywhere(None) /\ arrived = Everywhere({})
      /\ queue = Everywhere(<<>>) /\ serving = Everywhere({}) /\ call = Everywhere(NoNode)
      /\ handling = {} /\ dropped = {} /\ missed = {} /\ mixed = FALSE /\ overtaken = {}
      /\ keeper = {} /\ turns = 0 /\ hasty = FALSE
      /\ phase = [n \in Node |-> IF n \in Joiner THEN "out" ELSE "in"]
      /\ answer = Everywhere({}) /\ early = {} /\ late = {}
      /\ up = Node /\ crashes = 0 /\ restarts = 0 /\ nil = {}
      /\ telling = [t \in Tx |-> [by |-> NoNode, rest |-> {}]]
      /\ known = [n \in Node |-> IF n \in Joiner THEN {} ELSE Node \ Joiner] /\ told = {}
  BY DEF Init, MembersInit
<1>3. <<>> \in Seq(Tx) /\ <<>> \in Seq(Block) /\ Len(<<>>) = 0
  BY EmptySeq
<1>4. Held(<<>>) = {} /\ Once(<<>>) /\ Sorted(<<>>) /\ Rest(<<>>) = {}
  BY EmptySeq, LenProperties DEF Held, Once, Sorted, Rest
<1>5. \A n \in Node : /\ store[n] = {0} /\ tail[n] = 0 /\ pool[n] = <<>> /\ packing[n] = None
                      /\ arrived[n] = {} /\ queue[n] = <<>> /\ serving[n] = {} /\ call[n] = NoNode
                      /\ answer[n] = {} /\ phase[n] \in {"out", "in"}
                      /\ phase[n] = "out" => n \in Joiner /\ known[n] = {}
                      /\ phase[n] # "out" => n \notin Joiner /\ known[n] = Node \ Joiner
  BY <1>2 DEF Everywhere
<1>6. TypeOK
  <2>1. /\ store \in [Node -> SUBSET Block] /\ tail \in [Node -> Block]
        /\ pool \in [Node -> Seq(Tx)] /\ packing \in [Node -> {None} \cup Tx \X Block]
        /\ arrived \in [Node -> SUBSET Tx] /\ queue \in [Node -> Seq(Block)]
        /\ serving \in [Node -> SUBSET Node] /\ call \in [Node -> Node \cup {NoNode, Failed}]
        /\ answer \in [Node -> SUBSET Block]
    BY <1>1, <1>2, <1>3 DEF Everywhere
  <2>2. /\ \A n \in Node : tail[n] \in store[n] /\ Len(pool[n]) <= PoolMax
        /\ turns \in 0 .. MaxTurns /\ crashes \in 0 .. MaxCrashes /\ restarts \in 0 .. MaxRestarts
    BY <1>2, <1>3, <1>5, NetAssumption
  <2>3. /\ phase \in [Node -> {"out", "joined", "append", "in"}]
        /\ telling \in [Tx -> [by : Node \cup {NoNode}, rest : SUBSET Node]]
    BY <1>2
  <2>4. MembersOK
    BY <1>2 DEF MembersOK
  <2> QED
    BY <1>1, <1>2, <2>1, <2>2, <2>3, <2>4 DEF TypeOK
<1>13. Lists
  <2>1. Member = Node \ Joiner
    BY <1>5 DEF Member
  <2> QED
    BY <1>1, <1>2, <1>5, <2>1 DEF Lists
<1>7. QueuesSound
  BY <1>4, <1>5 DEF QueuesSound
<1>8. CallsSound /\ Linked /\ InOrder
  BY <1>1, <1>2 DEF CallsSound, Linked, InOrder
<1>9. BooksSound /\ PoolsSound
  <2>1. \A t \in Tx : telling[t].rest = {}
    BY <1>2
  <2> QED
    BY <1>1, <1>4, <1>5, <2>1 DEF BooksSound, PoolsSound
<1>10. Filled /\ LockHeld /\ KeepersIn /\ OneKeeper
  BY <1>1, <1>2, <1>5 DEF Filled, LockHeld, KeepersIn, OneKeeper
<1>11. AtEnd
  BY <1>1, <1>5 DEF AtEnd
<1>12. PackedOnce
  <2>1. DOMAIN made = {}
    BY <1>1, EmptySeq
  <2> QED
    BY <1>2, <2>1 DEF PackedOnce
<1> QED
  BY <1>6, <1>7, <1>8, <1>9, <1>10, <1>11, <1>12, <1>13 DEF IInv

\* A step that changes nothing.
LEMMA StutterKeeps == IInv /\ UNCHANGED vars => IInv'
<1> SUFFICES ASSUME IInv, UNCHANGED vars PROVE IInv'
  OBVIOUS
<1>1. /\ UNCHANGED <<made, store, tail, pool, packing, arrived, queue, serving, call, handling, dropped, missed>>
      /\ UNCHANGED <<mixed, overtaken, keeper, turns, hasty, known, told, phase, answer, early, late>>
      /\ UNCHANGED <<up, crashes, restarts, nil, telling>>
  BY DEF vars, ledger, pools, sending, roles, joining, members, faults
<1>2. TypeOK'
  BY <1>1 DEF IInv, TypeOK, MembersOK, Block
<1>3. Due' = Due /\ Member' = Member /\ \A m \in Node : Others(m)' = Others(m)
  BY <1>1, DueSame DEF Member
<1>4. Lists' /\ QueuesSound' /\ CallsSound' /\ BooksSound' /\ LockHeld' /\ KeepersIn' /\ OneKeeper'
  BY <1>1, <1>3 DEF IInv, Lists, QueuesSound, CallsSound, BooksSound, LockHeld, KeepersIn, OneKeeper
<1>5. Filled' /\ AtEnd' /\ InOrder'
  BY <1>1, <1>3 DEF IInv, Filled, Has, AtEnd, InOrder, Follows, Calm
<1>6. PoolsSound' /\ PackedOnce' /\ Linked'
  BY <1>1 DEF IInv, PoolsSound, PackedOnce, Linked, Calm
<1> QED
  BY <1>2, <1>4, <1>5, <1>6 DEF IInv

\* Every step keeps the invariant.
LEMMA NextKeeps == IInv /\ [Next]_vars => IInv'
<1> SUFFICES ASSUME IInv, Next PROVE IInv'
  BY StutterKeeps
<1>1. CASE \E t \in Tx : Submit(t)
  <2>1. PICK t \in Tx, n \in Node : Table(n, t) \/ TableTradingPool(t, n)
    BY <1>1 DEF Submit
  <2> QED
    BY <2>1, TableKeeps, TableTradingPoolKeeps
<1>2. CASE \E n \in Node : Keep(n) \/ Send(n) \/ Mix(n) \/ Receive(n) \/ Enter(n) \/ SetMod(n) \/ Crash(n) \/ Restart(n)
  <2>1. PICK n \in Node : Keep(n) \/ Send(n) \/ Mix(n) \/ Receive(n) \/ Enter(n) \/ SetMod(n) \/ Crash(n) \/ Restart(n)
    BY <1>2
  <2>2. CASE Keep(n)
    BY <2>2, PackKeeps, AddBlockKeeps DEF Keep
  <2>3. CASE Send(n)
    BY <2>3, TakeKeeps, DistributeKeeps, CallFailedKeeps DEF Send
  <2>7. CASE Mix(n)
    BY <2>7, AgainKeeps, CutOffKeeps, NilBlockKeeps DEF Mix
  <2>4. CASE Receive(n)
    BY <2>4, OrdinaryRunKeeps DEF Receive
  <2>5. CASE Enter(n)
    BY <2>5, JoinKeeps, SynchroniseKeeps, NoSourceKeeps, AppendAnswerKeeps DEF Enter
  <2>6. CASE SetMod(n) \/ Crash(n) \/ Restart(n)
    BY <2>6, SetModKeeps, CrashKeeps, RestartKeeps
  <2> QED
    BY <2>1, <2>2, <2>3, <2>4, <2>5, <2>6, <2>7
<1> QED
  BY <1>1, <1>2 DEF Next

\* The invariant of the shared tables, for any nodes, joiners, transactions and bounds.
THEOREM Invariance == Spec => []IInv
BY InitHas, NextKeeps, PTL DEF Spec

\* No node has a hole in its file that nothing will fill: the block before each of its
\* blocks is there, comes with the synchronisation, is still to be sent, was lost with its
\* maker or in its queue, or its maker had not the node in its list (GRPC/util.go:165-168),
\* unless the node was early.  It holds whoever keeps the books, and with any distributors.
THEOREM NoHoles == Spec => []Inv
<1>1. IInv => Inv
  <2> SUFFICES ASSUME IInv, NEW n \in Node, NEW b \in store[n] \ {0}, n \notin early
               PROVE  \/ made[b].prev \in store[n] \cup answer[n] \/ <<n, made[b].prev>> \in dropped \cup missed
                      \/ \E m \in Node : <<n, made[b].prev>> \in Pending(m)
    BY DEF Inv, NoHole, IInv
  <2>1. phase[n] \in {"out", "joined", "append", "in"} /\ Len(made) \in Nat /\ b \in 1 .. Len(made)
    <3>1. store[n] \in SUBSET Block /\ phase[n] \in {"out", "joined", "append", "in"} /\ Len(made) \in Nat
      BY BlockIs DEF IInv, TypeOK
    <3> QED
      BY <3>1 DEF Block
  <2>2. CASE phase[n] \in {"out", "joined"}
    BY <2>2 DEF IInv, Filled
  <2>3. CASE phase[n] \in {"append", "in"}
    <3>1. made[b].prev = 0 \/ made[b].prev \in 1 .. Len(made)
      <4>1. made[b].prev \in Nat /\ made[b].prev < b
        BY <2>1, BlockIs DEF IInv, BooksSound
      <4> QED
        BY <2>1, <4>1
    <3>2. 0 \in store[n]
      BY DEF IInv, BooksSound
    <3>3. \A c \in 1 .. Len(made) : c \in store[n] \cup answer[n] \/ <<n, c>> \in dropped \cup missed \cup Due
      BY <2>3 DEF IInv, Filled, Has
    <3> QED
      BY <3>1, <3>2, <3>3 DEF Due
  <2> QED
    BY <2>1, <2>2, <2>3
<1> QED
  BY <1>1, Invariance, PTL

\* While bookkeepers take turns in time, no block is lost, and no two distributors of a
\* node are at work at once, a transaction is packed into one block only, unless its block
\* overtook it, and out() finds every cell.
THEOREM PackedOnly == Spec => []PackedOnce
<1>1. IInv => PackedOnce
  BY DEF IInv
<1> QED
  BY <1>1, Invariance, PTL

\* When nothing is under way, all nodes that every bookkeeper had in its list have the
\* same last block, but for those a block came to while they synchronised or that
\* synchronised with none or with one that was not InStep, unless blocks were lost, a
\* bookkeeper was set too early or two distributors of a node were at work at once.
THEOREM SameEnd == Spec => []SameTail
<1>1. IInv => SameTail
  <2> SUFFICES ASSUME IInv, Settled, Calm, NEW n \in Reached \ (early \cup late) PROVE tail[n] = Len(made)
    BY DEF SameTail, Calm
  <2>1. n \in Node /\ phase[n] = "in"
    BY DEF IInv, TypeOK, Settled, Member, Reached
  <2>2. ASSUME NEW b, <<n, b>> \in Due PROVE FALSE
    <3>1. made[b].by \in Node /\ b \in Held(queue[made[b].by])
      BY <2>2, DueOf DEF IInv
    <3>2. queue[made[b].by] = <<>>
      BY <3>1 DEF Settled
    <3> QED
      BY <3>1, <3>2, EmptySeq, LenProperties DEF Held
  <2>3. \A b \in 1 .. Len(made) : b \in Block /\ <<n, b>> \notin missed
    BY BlockIs DEF IInv, Block, Reached
  <2> QED
    BY <2>1, <2>2, <2>3 DEF IInv, AtEnd
<1> QED
  BY <1>1, Invariance, PTL

-----------------------------------------------------------------------------
(* The queue of undistributed blocks and its distributors.                     *)

USE DEF NoCell, Queued, Cell

\* Every variable keeps its type, whatever the number of distributors.
THEOREM TypeCorrect == QueueSpec => []QueueTypeOK
<1>1. QueueInit => QueueTypeOK
  BY QueueAssumption DEF QueueInit, QueueTypeOK
<1>2. QueueTypeOK /\ [QueueNext]_queueVars => QueueTypeOK'
  <2> SUFFICES ASSUME QueueTypeOK, [QueueNext]_queueVars PROVE QueueTypeOK'
    OBVIOUS
  <2> USE QueueAssumption DEF QueueTypeOK, list
  <2>1. CASE Put
    <3>1. put + 1 \in Queued
      BY <2>1 DEF Put
    <3>2. head' \in Cell /\ link' \in [Queued -> Cell]
      BY <2>1, <3>1 DEF Put
    <3> QED
      BY <2>1, <3>1, <3>2 DEF Put
  <2>2. ASSUME NEW d \in Distributors, SizeCheck(d) PROVE QueueTypeOK'
    BY <2>2 DEF SizeCheck, Goto
  <2>3. ASSUME NEW d \in Distributors, HeadCheck(d) PROVE QueueTypeOK'
    BY <2>3 DEF HeadCheck, Goto, Panic
  <2>4. ASSUME NEW d \in Distributors, HeadRead(d) PROVE QueueTypeOK'
    BY <2>4 DEF HeadRead, Goto
  <2>5. ASSUME NEW d \in Distributors, Take(d) PROVE QueueTypeOK'
    <3>1. CASE Panic(d, "lock", "nil")
      BY <3>1 DEF Panic
    <3>2. CASE taking[d] # NoCell
      <4>1. /\ Unlink(taking[d]) /\ Goto(d, "lock", "send")
            /\ taken' = Append(taken, taking[d])
            /\ peer' = [peer EXCEPT ![d] = 1]
            /\ UNCHANGED <<link, put, taking, got, crashed>>
        BY <2>5, <3>2 DEF Take
      <4>2. taking[d] \in Queued
        BY <3>2
      <4>3. head' \in Cell /\ rear' \in Cell /\ size' \in Int
        BY <4>1, <4>2 DEF Unlink
      <4>4. taken' \in Seq(Queued)
        BY <4>1, <4>2
      <4>5. peer' \in [Distributors -> 1 .. Peers + 1]
        BY <4>1
      <4> QED
        BY <4>1, <4>2, <4>3, <4>4, <4>5 DEF Goto
    <3> QED
      BY <2>5, <3>1, <3>2 DEF Take
  <2>6. ASSUME NEW d \in Distributors, SendBlock(d) PROVE QueueTypeOK'
    <3>1. peer[d] \in 1 .. Peers /\ taking[d] \in Queued
      BY <2>6 DEF SendBlock, Goto
    <3>2. peer' \in [Distributors -> 1 .. Peers + 1]
      BY <2>6, <3>1 DEF SendBlock
    <3>3. got' \in [1 .. Peers -> Seq(Queued)]
      BY <2>6, <3>1 DEF SendBlock
    <3> QED
      BY <2>6, <3>2, <3>3 DEF SendBlock, Goto
  <2>7. ASSUME NEW d \in Distributors, SendDone(d) PROVE QueueTypeOK'
    BY <2>7 DEF SendDone, Goto
  <2>8. ASSUME NEW d \in Distributors, SendFail(d) PROVE QueueTypeOK'
    BY <2>8 DEF SendFail, Panic
  <2>9. CASE UNCHANGED queueVars
    BY <2>9 DEF queueVars
  <2> QED
    BY <2>1, <2>2, <2>3, <2>4, <2>5, <2>6, <2>7, <2>8, <2>9 DEF QueueNext, Step
<1> QED
  BY <1>1, <1>2, PTL DEF QueueSpec

-----------------------------------------------------------------------------
\* Size counts the calls of Get, however they interleave.
THEOREM SizeCorrect == QueueSpec => []SizeCountsCalls
<1>1. QueueInit => SizeCountsCalls
  <2> SUFFICES ASSUME QueueInit PROVE SizeCountsCalls
    OBVIOUS
  <2>1. Len(taken) = 0
    BY EmptySeq DEF QueueInit
  <2>2. size = 0 /\ put = 0
    BY DEF QueueInit
  <2> QED
    BY <2>1, <2>2 DEF SizeCountsCalls
<1>2. QueueTypeOK /\ SizeCountsCalls /\ [QueueNext]_queueVars => SizeCountsCalls'
  <2> SUFFICES ASSUME QueueTypeOK, SizeCountsCalls, [QueueNext]_queueVars PROVE SizeCountsCalls'
    OBVIOUS
  <2> USE DEF QueueTypeOK, SizeCountsCalls, list
  <2>1. CASE Put
    BY <2>1 DEF Put
  <2>2. ASSUME NEW d \in Distributors, Take(d) PROVE SizeCountsCalls'
    <3>1. CASE taking[d] # NoCell
      <4>1. size' = size - 1 /\ put' = put /\ taken' = Append(taken, taking[d])
        BY <2>2, <3>1 DEF Take, Unlink
      <4>2. Len(taken') = Len(taken) + 1
        BY <4>1, <3>1
      <4> QED
        BY <4>1, <4>2
    <3>2. CASE taking[d] = NoCell
      BY <2>2, <3>2 DEF Take, Panic
    <3> QED
      BY <3>1, <3>2
  <2>3. CASE UNCHANGED <<size, put, taken>>
    BY <2>3
  <2> QED
    BY <2>1, <2>2, <2>3
    DEF QueueNext, Step, SizeCheck, HeadCheck, HeadRead, SendBlock, SendDone, SendFail, Panic, queueVars
<1> QED
  BY <1>1, <1>2, TypeCorrect, PTL DEF QueueSpec

\* What keeps Put from cutting the list: rear, when set, is an allocated cell
\* without a successor, and no cell beyond put is linked to anything.
TailIsLast ==
    /\ rear # NoCell => rear <= put /\ link[rear] = NoCell
    /\ \A i \in Queued : i > put => link[i] = NoCell

\* The rear Put writes through is always the end of the chain.
LEMMA TailInvariant == QueueSpec => []TailIsLast
<1>1. QueueInit => TailIsLast
  BY QueueAssumption DEF QueueInit, TailIsLast
<1>2. QueueTypeOK /\ TailIsLast /\ [QueueNext]_queueVars => TailIsLast'
  <2> SUFFICES ASSUME QueueTypeOK, TailIsLast, [QueueNext]_queueVars PROVE TailIsLast'
    OBVIOUS
  <2> USE QueueAssumption DEF QueueTypeOK, TailIsLast, list
  <2>1. CASE Put
    BY <2>1 DEF Put
  <2>2. ASSUME NEW d \in Distributors, Take(d) PROVE TailIsLast'
    BY <2>2 DEF Take, Unlink, Panic
  <2>3. CASE UNCHANGED <<rear, put, link>>
    BY <2>3
  <2> QED
    BY <2>1, <2>2, <2>3
    DEF QueueNext, Step, SizeCheck, HeadCheck, HeadRead, SendBlock, SendDone, SendFail, Panic, queueVars
<1> QED
  BY <1>1, <1>2, TypeCorrect, PTL DEF QueueSpec

\* A next pointer that is set is never set again, however Put and Get interleave.
THEOREM LinksAreFinal == QueueSpec => LinkIsFinal
<1>1. QueueTypeOK /\ TailIsLast /\ [QueueNext]_queueVars
        => [\A i \in Queued : link[i] # NoCell => link'[i] = link[i]]_queueVars
  <2> SUFFICES ASSUME QueueTypeOK, TailIsLast, [QueueNext]_queueVars, NEW i \in Queued, link[i] # NoCell
               PROVE  link'[i] = link[i]
    OBVIOUS
  <2>1. CASE Put
    BY <2>1 DEF Put, QueueTypeOK, TailIsLast
  <2>2. CASE UNCHANGED link
    BY <2>2
  <2> QED
    BY <2>1, <2>2
    DEF QueueNext, Step, SizeCheck, HeadCheck, HeadRead, Take, SendBlock, SendDone, SendFail, Panic, queueVars, list
<1> QED
  BY <1>1, TypeCorrect, TailInvariant, PTL DEF QueueSpec, LinkIsFinal

-----------------------------------------------------------------------------
\* One goroutine drains the queue, as before the first command line.
SingleDistributor == \E d : Distributors = {d}

\* With a single distributor the queue, the broadcast and the process's
\* progress through them satisfy the inductive invariant QueueInv.
THEOREM SingleSafe == ASSUME SingleDistributor PROVE QueueSpec => []QueueInv
<1> PICK d : Distributors = {d}
  BY DEF SingleDistributor
<1>1. QueueInit => QueueInv
  <2> SUFFICES ASSUME QueueInit PROVE QueueInv
    OBVIOUS
  <2>1. QueueTypeOK
    BY QueueAssumption DEF QueueInit, QueueTypeOK
  <2>2. Len(taken) = 0 /\ \A p \in 1 .. Peers : Len(got[p]) = 0
    BY EmptySeq DEF QueueInit
  <2>3. ListIsPending
    <3>1. /\ head = NoCell /\ rear = NoCell /\ size = 0 /\ put = 0
          /\ link = [i \in Queued |-> NoCell]
      BY DEF QueueInit
    <3> QED
      BY <2>2, <3>1, QueueAssumption DEF ListIsPending
  <2>4. PeersBehind
    BY <2>2, QueueAssumption DEF QueueInit, PeersBehind
  <2> QED
    BY <2>1, <2>3, <2>4 DEF QueueInit, QueueInv, UnlinksTheHead
<1>2. QueueInv /\ QueueTypeOK' /\ [QueueNext]_queueVars => QueueInv'
  <2> SUFFICES ASSUME QueueInv, QueueTypeOK', [QueueNext]_queueVars PROVE QueueInv'
    OBVIOUS
  <2> USE QueueAssumption DEF QueueInv, QueueTypeOK, list
  <2>1. CASE Put
    <3>1. ListIsPending'
      <4>1. /\ put + 1 \in Queued /\ put' = put + 1 /\ taken' = taken /\ rear' = put + 1
            /\ size' = size + 1 /\ Len(taken) \in Nat
        BY <2>1 DEF Put
      <4>2. CASE Len(taken) < put
        <5>1. rear = put /\ rear \in Queued /\ head = Len(taken) + 1
          BY <4>2 DEF ListIsPending
        <5>2. head' = head /\ link' = [link EXCEPT ![put] = put + 1]
          BY <2>1, <5>1 DEF Put
        <5>3. \A i \in Queued : i > Len(taken') => link'[i] = IF i < put' THEN i + 1 ELSE NoCell
          BY <4>1, <4>2, <5>1, <5>2 DEF ListIsPending
        <5> QED
          BY <4>1, <4>2, <5>1, <5>2, <5>3 DEF ListIsPending
      <4>3. CASE ~ (Len(taken) < put)
        <5>1. Len(taken) = put /\ rear = NoCell
          BY <4>1, <4>3 DEF ListIsPending
        <5>2. head' = put + 1 /\ link' = link
          BY <2>1, <5>1 DEF Put
        <5> QED
          BY <4>1, <5>1, <5>2 DEF ListIsPending
      <4> QED
        BY <4>2, <4>3
    <3>2. UnlinksTheHead'
      BY <2>1 DEF Put, ListIsPending, UnlinksTheHead
    <3>3. PeersBehind'
      BY <2>1 DEF Put, PeersBehind
    <3> QED
      BY <2>1, <3>1, <3>2, <3>3 DEF Put
  <2>2. CASE SizeCheck(d)
    <3>1. Len(taken) < put
      BY <2>2 DEF SizeCheck, ListIsPending
    <3> QED
      BY <2>2, <3>1 DEF SizeCheck, Goto, ListIsPending, UnlinksTheHead, PeersBehind
  <2>3. CASE HeadCheck(d)
    <3>1. CASE Panic(d, "check", "nil") /\ head = NoCell
      BY <3>1 DEF Panic, UnlinksTheHead, ListIsPending
    <3>2. CASE Goto(d, "check", "read")
      BY <2>3, <3>2 DEF HeadCheck, Goto, Panic, ListIsPending, UnlinksTheHead, PeersBehind
    <3> QED
      BY <2>3, <3>1, <3>2 DEF HeadCheck
  <2>4. CASE HeadRead(d)
    BY <2>4 DEF HeadRead, Goto, ListIsPending, UnlinksTheHead, PeersBehind
  <2>5. CASE Take(d)
    <3>1. pc[d] = "lock" /\ taking[d] = head /\ Len(taken) < put
      BY <2>5 DEF Take, Goto, Panic, UnlinksTheHead
    <3>2. taking[d] = Len(taken) + 1 /\ taking[d] # NoCell /\ rear = put /\ taking[d] \in Queued
      BY <3>1 DEF ListIsPending
    <3>3. /\ Unlink(taking[d]) /\ Goto(d, "lock", "send")
          /\ taken' = Append(taken, taking[d])
          /\ peer' = [peer EXCEPT ![d] = 1]
          /\ UNCHANGED <<link, put, taking, got, crashed>>
      BY <2>5, <3>2 DEF Take
    <3>4. /\ Len(taken') = Len(taken) + 1
          /\ \A i \in 1 .. Len(taken') : taken'[i] = i
      BY <3>2, <3>3 DEF ListIsPending
    <3>5. link[taking[d]] = IF taking[d] < put THEN taking[d] + 1 ELSE NoCell
      BY <3>2 DEF ListIsPending
    <3>6. ListIsPending'
      <4>1. size' = put' - Len(taken') /\ Len(taken') <= put'
        BY <3>1, <3>3, <3>4 DEF Unlink, ListIsPending
      <4>2. \A i \in Queued : i > Len(taken') => link'[i] = IF i < put' THEN i + 1 ELSE NoCell
        BY <3>3, <3>4 DEF ListIsPending
      <4>3. IF Len(taken') < put' THEN head' = Len(taken') + 1 /\ rear' = put'
                                ELSE head' = NoCell /\ rear' = NoCell
        BY <3>1, <3>2, <3>3, <3>4, <3>5 DEF Unlink
      <4> QED
        BY <3>4, <4>1, <4>2, <4>3 DEF ListIsPending
    <3>7. UnlinksTheHead'
      BY <3>3 DEF Goto, UnlinksTheHead
    <3>8. PeersBehind'
      BY <3>1, <3>2, <3>3, <3>4 DEF Goto, PeersBehind
    <3> QED
      BY <3>3, <3>6, <3>7, <3>8
  <2>6. CASE SendBlock(d)
    <3>1. /\ pc[d] = "send" /\ pc' = pc /\ peer[d] \in 1 .. Peers
          /\ got' = [got EXCEPT ![peer[d]] = Append(@, taking[d])]
          /\ peer' = [peer EXCEPT ![d] = @ + 1]
          /\ UNCHANGED <<list, taking, taken, crashed>>
      BY <2>6 DEF SendBlock, Goto
    <3>2. /\ taking[d] = Len(taken) /\ Len(taken) > 0
          /\ Len(got[peer[d]]) = Len(taken) - 1
          /\ taking[d] \in Queued
      BY <3>1 DEF PeersBehind
    <3>3. /\ Len(got'[peer[d]]) = Len(taken)
          /\ \A i \in 1 .. Len(got'[peer[d]]) : got'[peer[d]][i] = i
      <4> DEFINE g == got[peer[d]]
      <4>1. got'[peer[d]] = Append(g, taking[d]) /\ g \in Seq(Queued)
        BY <3>1
      <4>2. /\ Len(Append(g, taking[d])) = Len(g) + 1
            /\ \A i \in 1 .. Len(g) : Append(g, taking[d])[i] = g[i]
            /\ Append(g, taking[d])[Len(g) + 1] = taking[d]
        <5>1. g \in Seq(Queued) /\ taking[d] \in Queued
          BY <3>2, <4>1
        <5> HIDE DEF g
        <5> QED
          BY <5>1, AppendProperties
      <4>3. Len(g) = Len(taken) - 1 /\ \A i \in 1 .. Len(g) : g[i] = i
        BY <3>1, <3>2 DEF PeersBehind
      <4>4. Len(taken) \in Nat
        BY LenProperties
      <4>5. taking[d] = Len(taken)
        BY <3>2
      <4> HIDE DEF g
      <4>6. \A i \in 1 .. Len(g) + 1 : Append(g, taking[d])[i] = i
        <5> SUFFICES ASSUME NEW i \in 1 .. Len(g) + 1 PROVE Append(g, taking[d])[i] = i
          OBVIOUS
        <5>1. CASE i = Len(g) + 1
          BY <4>2, <4>3, <4>4, <4>5, <5>1
        <5>2. CASE i # Len(g) + 1
          BY <4>2, <4>3, <4>4, <5>2
        <5> QED
          BY <5>1, <5>2
      <4>7. Len(got'[peer[d]]) = Len(g) + 1 /\ Len(g) + 1 = Len(taken)
        BY <4>1, <4>2, <4>3, <4>4
      <4> QED
        BY <4>1, <4>6, <4>7
    <3>4. \A p \in 1 .. Peers : p # peer[d] => got'[p] = got[p]
      BY <3>1
    <3>5. PeersBehind'
      <4> SUFFICES ASSUME NEW p \in 1 .. Peers
                   PROVE  /\ \A i \in 1 .. Len(got'[p]) : got'[p][i] = i
                          /\ Len(got'[p]) = IF peer'[d] <= p THEN Len(taken) - 1 ELSE Len(taken)
        BY <3>1, <3>2 DEF PeersBehind
      <4>1. peer'[d] = peer[d] + 1
        BY <3>1
      <4>2. CASE p = peer[d]
        BY <3>3, <4>1, <4>2
      <4>3. CASE p # peer[d]
        BY <3>1, <3>4, <4>1, <4>3 DEF PeersBehind
      <4> QED
        BY <4>2, <4>3
    <3> QED
      BY <3>1, <3>5 DEF ListIsPending, UnlinksTheHead
  <2>7. CASE SendDone(d)
    BY <2>7 DEF SendDone, Goto, ListIsPending, UnlinksTheHead, PeersBehind
  <2>8. CASE SendFail(d)
    BY <2>8 DEF SendFail, Panic, ListIsPending, UnlinksTheHead, PeersBehind
  <2>9. CASE UNCHANGED queueVars
    BY <2>9 DEF queueVars, ListIsPending, UnlinksTheHead, PeersBehind
  <2> QED
    BY <2>1, <2>2, <2>3, <2>4, <2>5, <2>6, <2>7, <2>8, <2>9 DEF QueueNext, Step
<1> QED
  BY <1>1, <1>2, TypeCorrect, PTL DEF QueueSpec

\* With a single distributor Get never returns nil to a caller that expects a block.
THEOREM SingleNoNilBlock == ASSUME SingleDistributor PROVE QueueSpec => []NoNilBlock
<1>1. QueueInv => NoNilBlock
  BY DEF QueueInv, NoNilBlock
<1> QED
  BY <1>1, SingleSafe, PTL

\* With a single distributor all peers are served the same blocks in the same
\* order, at most one block apart.
THEOREM SinglePeersInStep == ASSUME SingleDistributor PROVE QueueSpec => []PeersInStep
<1> PICK d : Distributors = {d}
  BY DEF SingleDistributor
<1>1. QueueInv => PeersInStep
  <2> SUFFICES ASSUME QueueInv, NEW p \in 1 .. Peers, NEW q \in 1 .. Peers, p < q
               PROVE  /\ Len(got[p]) - Len(got[q]) \in {0, 1}
                      /\ \A i \in 1 .. Len(got[q]) : got[q][i] = got[p][i]
    BY DEF PeersInStep
  <2>1. peer[d] \in Int /\ p \in Int /\ q \in Int /\ Len(taken) \in Nat
    BY QueueAssumption DEF QueueInv, QueueTypeOK
  <2>2. /\ Len(got[p]) = IF pc[d] = "send" /\ peer[d] <= p THEN Len(taken) - 1 ELSE Len(taken)
        /\ Len(got[q]) = IF pc[d] = "send" /\ peer[d] <= q THEN Len(taken) - 1 ELSE Len(taken)
        /\ \A i \in 1 .. Len(got[p]) : got[p][i] = i
        /\ \A i \in 1 .. Len(got[q]) : got[q][i] = i
    BY DEF QueueInv, PeersBehind
  <2> QED
    BY <2>1, <2>2
<1> QED
  BY <1>1, SingleSafe, PTL

\* With a single distributor the queue is a FIFO queue: Put maps to the abstract
\* Put of block put + 1, Take to the abstract Get, and every other step to a stutter.
THEOREM SingleFifo == ASSUME SingleDistributor PROVE QueueSpec => ImplementsFifo
<1> PICK d : Distributors = {d}
  BY DEF SingleDistributor
<1> DEFINE given == [i \in 1 .. put |-> i]
<1>1. QueueInit => Fifo!Init
  BY DEF QueueInit, Fifo!Init
<1>2. QueueInv /\ [QueueNext]_queueVars => [Fifo!Next]_<<given, taken>>
  <2> SUFFICES ASSUME QueueInv, [QueueNext]_queueVars PROVE [Fifo!Next]_<<given, taken>>
    OBVIOUS
  <2> USE QueueAssumption DEF QueueInv, QueueTypeOK, list
  <2>1. CASE Put
    <3>1. put + 1 \in Queued /\ put' = put + 1 /\ taken' = taken
      BY <2>1 DEF Put
    <3>2. given' = Append(given, put + 1)
      BY <3>1
    <3>3. \E b \in Queued : given' = Append(given, b) /\ UNCHANGED taken
      BY <3>1, <3>2
    <3> QED
      BY <3>3 DEF Fifo!Next, Fifo!Put
  <2>2. CASE Take(d)
    <3>1. taking[d] = Len(taken) + 1 /\ Len(taken) < put
      BY <2>2 DEF Take, Goto, Panic, UnlinksTheHead, ListIsPending
    <3>2. taken' = Append(taken, Len(taken) + 1) /\ put' = put
      BY <2>2, <3>1 DEF Take
    <3>3. Len(given) = put /\ given[Len(taken) + 1] = Len(taken) + 1
      BY <3>1
    <3>4. Fifo!Get
      BY <3>1, <3>2, <3>3 DEF Fifo!Get
    <3> QED
      BY <3>4 DEF Fifo!Next
  <2>3. CASE UNCHANGED <<put, taken>>
    BY <2>3
  <2> QED
    BY <2>1, <2>2, <2>3
    DEF QueueNext, Step, SizeCheck, HeadCheck, HeadRead, SendBlock, SendDone, SendFail, Panic, queueVars
<1> QED
  BY <1>1, <1>2, SingleSafe, PTL DEF QueueSpec, ImplementsFifo, Fifo!Spec
=============================================================================
