-------------------------- MODULE TxPoolDataProofs --------------------------
(* Theorems about TxPoolData, for every set of transactions, blocks and numbers
   per block and for every bound, as long as set-pkg_num keeps out of the runs of
   bookKeeperRun.                                                              *)
EXTENDS TxPoolData, WellFoundedInduction, FiniteSetTheorems, SequenceTheorems, TLAPS

-----------------------------------------------------------------------------
(* What has to be known besides IInv to prove it.                              *)

\* Cells are numbered from 1 on, in the list and in the blocks of this node.
CellsMade ==
    /\ Members(list) \subseteq 1 .. Len(tx)
    /\ \A i \in DOMAIN chain : Members(chain[i].cells) \subseteq 1 .. Len(tx)

\* A run packs packNumber transactions at a time, and only when it has counted them.
RunInv ==
    /\ pc = "select" => count >= packNumber
    /\ past > 0 => pc \in {"main", "spin"} /\ past = packNumber
    /\ pc = "main" => past > 0

\* What is in the batch is not in txMap any more.
BatchUnmapped ==
    past > 0 => \A i \in 1 .. past : txMap[tx[list[i]]] = 0

\* A handler appends its block before it takes the transactions out of the pool.
AppendedFirst ==
    \A b \in External : stage[b] \in {"check", "lock", "finish", "over"} =>
        \E i \in DOMAIN chain : chain[i].txs = Payload[b]

Strong == IInv /\ OwnOnce /\ CellsMade /\ RunInv /\ BatchUnmapped /\ AppendedFirst
-----------------------------------------------------------------------------
(* Numbers and sequences.                                                      *)

\* A set of numbers that is not empty has a least member: what stands for induction
\* over the positions of the list.
LEMMA Least ==
  ASSUME NEW T \in SUBSET Nat, T # {} PROVE \E x \in T : \A y \in T : x <= y
<1> DEFINE R == {p \in Nat \X Nat : p[1] < p[2]}
<1>1. OpToRel(<, Nat) = R
  BY DEF OpToRel
<1>2. IsWellFoundedOn(R, Nat)
  BY <1>1, NatLessThanWellFounded
<1>3. \E x \in T : \A y \in T : ~ (<<y, x>> \in R)
  <2> HIDE DEF R
  <2> QED BY <1>2, WFMin
<1>4. \A x, y \in Nat : ~ (<<y, x>> \in R) => x <= y
  OBVIOUS
<1> QED BY <1>3, <1>4

\* So a set with 0 and with the successor of each of its members holds every number.
LEMMA Induct ==
  ASSUME NEW T, 0 \in T, \A n \in Nat : n \in T => n + 1 \in T
  PROVE  Nat \subseteq T
<1> SUFFICES ASSUME Nat \ T # {} PROVE FALSE
  OBVIOUS
<1>1. PICK x \in Nat \ T : \A y \in Nat \ T : x <= y
  <2> DEFINE U == Nat \ T
  <2>1. U \in SUBSET Nat /\ U # {}
    OBVIOUS
  <2> HIDE DEF U
  <2>2. \E x \in U : \A y \in U : x <= y
    BY <2>1, Least
  <2> QED BY <2>2 DEF U
<1>2. x # 0 /\ x - 1 \in Nat /\ ~ (x <= x - 1) /\ (x - 1) + 1 = x
  BY <1>1
<1>3. x - 1 \in T
  BY <1>1, <1>2
<1> QED BY <1>1, <1>2, <1>3

\* The steps of Without (txQueue.out walks along the list): they can be taken for
\* every list, ...
Step(q, C, g, n) == IF n = 0 THEN <<>> ELSE IF q[n] \in C THEN g[n - 1] ELSE Append(g[n - 1], q[n])

LEMMA StepsExist ==
  ASSUME NEW q, NEW C, NEW n \in Nat PROVE \E g : g = [i \in 0 .. n |-> Step(q, C, g, i)]
<1> DEFINE T == {m \in Nat : \E g : g = [i \in 0 .. m |-> Step(q, C, g, i)]}
<1>1. 0 \in T
  <2> DEFINE g == [i \in 0 .. 0 |-> <<>>]
  <2>1. g = [i \in 0 .. 0 |-> Step(q, C, g, i)]
    BY DEF Step
  <2> QED BY <2>1
<1>2. ASSUME NEW m \in Nat, m \in T PROVE m + 1 \in T
  <2>1. PICK g : g = [i \in 0 .. m |-> Step(q, C, g, i)]
    BY <1>2
  <2> DEFINE h == [i \in 0 .. m + 1 |-> IF i = m + 1 THEN Step(q, C, g, m + 1) ELSE g[i]]
  <2>2. ASSUME NEW i \in 0 .. m + 1 PROVE h[i] = Step(q, C, h, i)
    <3>1. CASE i = 0
      BY <2>1, <3>1 DEF Step
    <3>2. CASE i \in 1 .. m
      <4>1. h[i] = g[i] /\ h[i - 1] = g[i - 1] /\ i # 0
        BY <3>2
      <4>2. g[i] = Step(q, C, g, i)
        BY <2>1, <3>2
      <4> HIDE DEF h
      <4> QED BY <4>1, <4>2 DEF Step
    <3>3. CASE i = m + 1
      <4>1. h[i] = Step(q, C, g, i) /\ h[i - 1] = g[i - 1] /\ i # 0
        BY <3>3
      <4> HIDE DEF h
      <4> QED BY <4>1 DEF Step
    <3> QED BY <3>1, <3>2, <3>3
  <2>3. h = [i \in 0 .. m + 1 |-> h[i]]
    OBVIOUS
  <2>4. h = [i \in 0 .. m + 1 |-> Step(q, C, h, i)]
    <3> HIDE DEF h
    <3> QED BY <2>2, <2>3
  <2>5. \E k : k = [i \in 0 .. m + 1 |-> Step(q, C, k, i)]
    <3> HIDE DEF h
    <3> QED BY <2>4
  <2> QED BY <2>5
<1>3. Nat \subseteq T
  <2> HIDE DEF T
  <2> QED BY <1>1, <1>2, Induct
<1> QED BY <1>3

\* ... and what is left is the list without the cells of C, in its order: e says
\* where each cell that is left came from.
Left(q, C, n, s, e) ==
    /\ e \in [1 .. Len(s) -> {i \in 1 .. n : q[i] \notin C}]
    /\ \A k \in 1 .. Len(s) : s[k] = q[e[k]]
    /\ \A k, l \in 1 .. Len(s) : k < l => e[k] < e[l]
    /\ \A i \in 1 .. n : q[i] \notin C => \E k \in 1 .. Len(s) : e[k] = i
    /\ IsFiniteSet({i \in 1 .. n : q[i] \in C})
    /\ Len(s) + Cardinality({i \in 1 .. n : q[i] \in C}) = n

\* After m steps what is left is the first m cells without those of C.
LEMMA StepsLeave ==
  ASSUME NEW S, NEW q \in Seq(S), NEW C, NEW g, g = [i \in 0 .. Len(q) |-> Step(q, C, g, i)],
         NEW m \in 0 .. Len(q)
  PROVE  g[m] \in Seq(S) /\ \E e : Left(q, C, m, g[m], e)
<1> DEFINE P(n) == g[n] \in Seq(S) /\ \E e : Left(q, C, n, g[n], e)
           T == {n \in Nat : n <= Len(q) => P(n)}
<1>1. 0 \in T
  <2>1. g[0] = <<>>
    BY DEF Step
  <2>2. {i \in 1 .. 0 : q[i] \in C} = {}
    OBVIOUS
  <2>3. Left(q, C, 0, <<>>, [k \in 1 .. 0 |-> 0])
    BY <2>2, FS_EmptySet DEF Left
  <2> QED BY <2>1, <2>3
<1>2. ASSUME NEW n \in Nat, n \in T, n + 1 <= Len(q) PROVE P(n + 1)
  <2> DEFINE out1 == {i \in 1 .. n : q[i] \in C}  out2 == {i \in 1 .. n + 1 : q[i] \in C}
  <2>s. PICK s : s = g[n]
    OBVIOUS
  <2>0. n <= Len(q)
    BY <1>2
  <2>1. s \in Seq(S) /\ Len(s) \in Nat /\ \E e : Left(q, C, n, s, e)
    BY <1>2, <2>0, <2>s
  <2>2. PICK e : Left(q, C, n, s, e)
    BY <2>1
  <2>3. g[n + 1] = IF q[n + 1] \in C THEN s ELSE Append(s, q[n + 1])
    <3>1. n + 1 \in 0 .. Len(q) /\ n + 1 # 0 /\ (n + 1) - 1 = n
      BY <1>2
    <3> QED BY <3>1, <2>s DEF Step
  <2>4. q[n + 1] \in S
    BY <1>2
  <2>5. IsFiniteSet(out1) /\ Cardinality(out1) \in Nat /\ Len(s) + Cardinality(out1) = n
    BY <2>2, FS_CardinalityType DEF Left
  <2>6. CASE q[n + 1] \in C
    <3>1. out2 = out1 \cup {n + 1} /\ n + 1 \notin out1
      BY <2>6
    <3>2. IsFiniteSet(out2) /\ Cardinality(out2) = Cardinality(out1) + 1
      <4> HIDE DEF out1, out2
      <4> QED BY <2>5, <3>1, FS_AddElement
    <3>3. Left(q, C, n + 1, s, e)
      <4>1. e \in [1 .. Len(s) -> {i \in 1 .. n + 1 : q[i] \notin C}]
        BY <2>2 DEF Left
      <4>2. \A i \in 1 .. n + 1 : q[i] \notin C => i \in 1 .. n
        BY <2>6
      <4>3. Len(s) + Cardinality(out2) = n + 1
        <5> HIDE DEF out1, out2
        <5> QED BY <2>1, <2>5, <3>2
      <4> QED BY <2>2, <3>2, <4>1, <4>2, <4>3 DEF Left
    <3> QED BY <2>1, <2>3, <2>6, <3>3
  <2>7. CASE q[n + 1] \notin C
    <3>r. PICK r : r = Append(s, q[n + 1])
      OBVIOUS
    <3> DEFINE f == [k \in 1 .. Len(r) |-> IF k = Len(r) THEN n + 1 ELSE e[k]]
    <3>1. out2 = out1
      BY <2>7
    <3>2. /\ r \in Seq(S) /\ Len(r) \in Nat /\ Len(r) = Len(s) + 1 /\ r[Len(r)] = q[n + 1]
          /\ \A k \in 1 .. Len(s) : r[k] = s[k]
      BY <2>1, <2>4, <3>r
    <3>3. e \in [1 .. Len(s) -> {i \in 1 .. n : q[i] \notin C}]
      BY <2>2 DEF Left
    <3>4. Left(q, C, n + 1, r, f)
      <4>1. f \in [1 .. Len(r) -> {i \in 1 .. n + 1 : q[i] \notin C}]
        BY <2>1, <2>7, <3>2, <3>3
      <4>2. \A k \in 1 .. Len(r) : r[k] = q[f[k]]
        <5> SUFFICES ASSUME NEW k \in 1 .. Len(r) PROVE r[k] = q[f[k]]
          OBVIOUS
        <5>1. CASE k = Len(r)
          BY <3>2, <5>1
        <5>2. CASE k # Len(r)
          <6>1. k \in 1 .. Len(s)
            BY <2>1, <3>2, <5>2
          <6> QED BY <2>2, <3>2, <5>2, <6>1 DEF Left
        <5> QED BY <5>1, <5>2
      <4>n. PICK ls, lr : ls = Len(s) /\ lr = Len(r)
        OBVIOUS
      <4>6. /\ ls \in Nat /\ lr = ls + 1 /\ f[lr] = n + 1
            /\ \A k \in 1 .. ls : f[k] = e[k] /\ e[k] \in 1 .. n
        <5>1. ls \in Nat /\ lr = ls + 1
          BY <2>1, <3>2, <4>n
        <5>2. \A k \in 1 .. ls : k \in 1 .. lr /\ k # lr
          BY <5>1
        <5>3. \A k \in 1 .. ls : e[k] \in 1 .. n
          BY <3>3, <4>n
        <5>4. lr \in 1 .. lr
          BY <5>1
        <5> QED BY <4>n, <5>1, <5>2, <5>3, <5>4
      <4>3. \A k, l \in 1 .. Len(r) : k < l => f[k] < f[l]
        <5> HIDE DEF f
        <5> SUFFICES ASSUME NEW k \in 1 .. lr, NEW l \in 1 .. lr, k < l PROVE f[k] < f[l]
          BY <4>n
        <5>1. k \in 1 .. ls
          BY <4>6
        <5>2. CASE l = lr
          BY <4>6, <5>1, <5>2
        <5>3. CASE l # lr
          <6>1. l \in 1 .. ls
            BY <4>6, <5>3
          <6>2. e[k] < e[l]
            BY <2>2, <4>n, <5>1, <6>1 DEF Left
          <6> QED BY <4>6, <5>1, <6>1, <6>2
        <5> QED BY <5>2, <5>3
      <4>4. ASSUME NEW i \in 1 .. n + 1, q[i] \notin C PROVE \E k \in 1 .. Len(r) : f[k] = i
        <5> HIDE DEF f
        <5>1. CASE i = n + 1
          <6>1. lr \in 1 .. lr /\ f[lr] = i
            BY <4>6, <5>1
          <6> QED BY <4>n, <6>1
        <5>2. CASE i \in 1 .. n
          <6>1. PICK k \in 1 .. ls : e[k] = i
            BY <2>2, <4>4, <4>n, <5>2 DEF Left
          <6>2. k \in 1 .. lr /\ f[k] = i
            BY <4>6, <6>1
          <6> QED BY <4>n, <6>2
        <5> QED BY <5>1, <5>2
      <4>5. Len(r) + Cardinality(out2) = n + 1
        <5> HIDE DEF out1, out2
        <5> QED BY <2>1, <2>5, <3>1, <3>2
      <4> HIDE DEF f
      <4> QED BY <2>5, <3>1, <4>1, <4>2, <4>3, <4>4, <4>5 DEF Left
    <3> QED BY <2>3, <2>7, <3>2, <3>4, <3>r
  <2> QED BY <2>6, <2>7
<1>3. Nat \subseteq T
  <2> HIDE DEF P
  <2>1. \A n \in Nat : n \in T => n + 1 \in T
    BY <1>2
  <2> HIDE DEF T
  <2> QED BY <1>1, <2>1, Induct
<1>4. P(m)
  <2> HIDE DEF P
  <2>1. m \in T /\ m <= Len(q)
    BY <1>3
  <2> QED BY <2>1
<1> QED BY <1>4

\* So Without is what out() leaves of the list.
LEMMA WithoutLeft ==
  ASSUME list \in Seq(Cell), NEW C
  PROVE  Without(C) \in Seq(Cell) /\ \E e : Left(list, C, Len(list), Without(C), e)
<1> DEFINE G == CHOOSE g : g = [i \in 0 .. Len(list) |-> Step(list, C, g, i)]
<1>1. \E g : g = [i \in 0 .. Len(list) |-> Step(list, C, g, i)]
  <2>1. Len(list) \in Nat
    OBVIOUS
  <2> QED BY <2>1, StepsExist
<1>2. G = [i \in 0 .. Len(list) |-> Step(list, C, G, i)]
  BY <1>1
<1>3. Without(C) = G[Len(list)]
  BY DEF Without, Step
<1> HIDE DEF G
<1> QED BY <1>2, <1>3, StepsLeave

-----------------------------------------------------------------------------
(* The places where the list is looked at.                                     *)

\* A set of numbers with a bound has a greatest member.
LEMMA Greatest ==
  ASSUME NEW n \in Nat, NEW T \in SUBSET (0 .. n), T # {} PROVE \E x \in T : \A y \in T : y <= x
<1> DEFINE U == {k \in Nat : \A y \in T : y <= k}
<1>1. n \in U
  OBVIOUS
<1>2. PICK m \in U : \A k \in U : m <= k
  <2>1. U \in SUBSET Nat /\ U # {}
    BY <1>1
  <2> HIDE DEF U
  <2> QED BY <2>1, Least
<1>3. CASE m \in T
  BY <1>2, <1>3
<1>4. CASE m \notin T
  <2>1. PICK y \in T : TRUE
    OBVIOUS
  <2>2. m # 0 /\ \A x \in T : x <= m - 1
    BY <1>2, <1>4, <2>1
  <2>3. m - 1 \in U
    BY <1>2, <2>2
  <2> QED BY <1>2, <2>3
<1> QED BY <1>3, <1>4

\* The old cells that Scan counts are the first ones of the list.
LEMMA Prefix ==
  ASSUME NEW n \in Nat, NEW T \in SUBSET (1 .. n), \A i \in T : \A j \in 1 .. i : j \in T
  PROVE  Cardinality(T) \in 0 .. n /\ \A i \in 1 .. Cardinality(T) : i \in T
<1>1. CASE T = {}
  BY <1>1, FS_EmptySet
<1>2. CASE T # {}
  <2>1. PICK m \in T : \A y \in T : y <= m
    <3>1. T \in SUBSET (0 .. n)
      OBVIOUS
    <3> QED BY <1>2, <3>1, Greatest
  <2>2. T = 1 .. m
    <3>1. \A j \in 1 .. m : j \in T
      BY <2>1
    <3>2. m \in Nat /\ \A x \in T : x \in 1 .. m
      BY <2>1
    <3> QED BY <3>1, <3>2
  <2>3. Cardinality(T) = m
    BY <2>1, <2>2, FS_Interval
  <2> QED BY <2>1, <2>2, <2>3
<1> QED BY <1>1, <1>2

\* What the list holds.
LEMMA ListTyped ==
  ASSUME TypeOK, CellsMade
  PROVE  /\ Len(list) \in Nat /\ Len(tx) \in Nat /\ DOMAIN list = 1 .. Len(list)
         /\ \A i \in 1 .. Len(list) : /\ list[i] \in 1 .. Len(tx) /\ list[i] \in Cell
                                      /\ tx[list[i]] \in Tx /\ StampAt(i) \in Nat
<1>1. Len(list) \in Nat /\ Len(tx) \in Nat /\ DOMAIN list = 1 .. Len(list)
  BY DEF TypeOK
<1>2. ASSUME NEW i \in 1 .. Len(list)
      PROVE  list[i] \in 1 .. Len(tx) /\ list[i] \in Cell /\ tx[list[i]] \in Tx /\ StampAt(i) \in Nat
  <2>1. list[i] \in 1 .. Len(tx) /\ list[i] \in Cell
    <3>1. list[i] \in Members(list)
      BY <1>1 DEF Members
    <3>2. list[i] \in Cell
      BY <1>1 DEF TypeOK
    <3> QED BY <3>1, <3>2 DEF CellsMade
  <2>2. tx[list[i]] \in Tx
    <3>1. tx \in Seq(Tx)
      BY DEF TypeOK
    <3> QED BY <2>1, <3>1
  <2> QED BY <2>1, <2>2, PoolAssumption DEF StampAt, PoolAssumption
<1> QED BY <1>1, <1>2

\* in() finds a place for every transaction.
LEMMA PlaceFits ==
  ASSUME TypeOK, CellsMade, NEW t \in Tx
  PROVE  /\ Place(t) \in 0 .. Len(list)
         /\ Place(t) # 0 => StampAt(Place(t)) <= Stamp[t]
         /\ \A i \in Place(t) + 1 .. Len(list) : StampAt(i) > Stamp[t]
<1> DEFINE T == {k \in 0 .. Len(list) : k = 0 \/ StampAt(k) <= Stamp[t]}
<1>1. T \in SUBSET (0 .. Len(list)) /\ T # {} /\ Len(list) \in Nat
  BY ListTyped
<1>2. PICK k \in T : \A y \in T : y <= k
  <2> HIDE DEF T
  <2> QED BY <1>1, Greatest
<1>3. \A i \in k + 1 .. Len(list) : StampAt(i) > Stamp[t]
  <2> SUFFICES ASSUME NEW i \in k + 1 .. Len(list) PROVE StampAt(i) > Stamp[t]
    OBVIOUS
  <2>1. i \in 0 .. Len(list) /\ i # 0 /\ ~ (i <= k) /\ StampAt(i) \in Nat /\ Stamp[t] \in Nat
    BY <1>1, <1>2, ListTyped, PoolAssumption
  <2>2. i \notin T
    BY <1>2, <2>1
  <2> QED BY <2>1, <2>2
<1>4. k \in 0 .. Len(list) /\ (k = 0 \/ StampAt(k) <= Stamp[t])
  BY <1>2
<1>5. \E p \in 0 .. Len(list) : /\ p = 0 \/ StampAt(p) <= Stamp[t]
                               /\ \A i \in p + 1 .. Len(list) : StampAt(i) > Stamp[t]
  BY <1>3, <1>4
<1> QED BY <1>5 DEF Place

-----------------------------------------------------------------------------
(* Every step keeps the invariant.                                             *)

\* The empty pool has it.
LEMMA InitHolds == Init => Strong
<1> SUFFICES ASSUME Init PROVE Strong
  OBVIOUS
<1>1. TypeOK
  <2>1. /\ list \in Seq(Cell) /\ tx \in Seq(Tx) /\ Len(tx) <= MaxCells
        /\ batch \in Seq(Cell \cup {0}) /\ chain \in Seq(Block)
    BY PoolAssumption DEF Init
  <2>2. /\ txMap \in [Tx -> Cell \cup {0}]
        /\ stage \in [External -> {"none", "won", "check", "lock", "finish", "over"}]
    BY DEF Init
  <2>3. curSize \in Int /\ curSize <= MaxSize /\ clock \in 0 .. MaxClock /\ packNumber \in PackNumbers
    BY PoolAssumption DEF Init
  <2> QED BY <2>1, <2>2, <2>3, PoolAssumption DEF Init, TypeOK
<1> QED BY <1>1 DEF Init, Strong, IInv, Sorted, MapInList, BatchIsHead, ChainLeft, CountedAreOld,
        NeverOverstates, OwnOnce, CellsMade, RunInv, BatchUnmapped, AppendedFirst, Members

\* What a step leaves alone keeps its properties: the list, ...
LEMMA SameList ==
  ASSUME UNCHANGED <<list, tx, txMap, curSize, past>>
  PROVE  /\ (Sorted => Sorted') /\ (MapInList => MapInList')
         /\ (NeverOverstates => NeverOverstates') /\ (BatchUnmapped => BatchUnmapped')
<1>1. Sorted => Sorted'
  BY DEF Sorted, StampAt
<1>2. MapInList => MapInList'
  BY DEF MapInList, Members
<1> QED BY <1>1, <1>2 DEF NeverOverstates, BatchUnmapped

\* ... the chain ...
LEMMA SameChain ==
  ASSUME UNCHANGED <<list, tx, chain>>
  PROVE  (ChainLeft => ChainLeft') /\ (OwnOnce => OwnOnce') /\ (CellsMade => CellsMade')
<1>1. ChainLeft => ChainLeft'
  <2> SUFFICES ASSUME ChainLeft, NEW i \in DOMAIN chain
               PROVE  (Members(chain[i].cells) \cap (Members(list) \cup {Len(tx) + 1}))' = {}
    BY DEF ChainLeft
  <2>1. Members(chain[i].cells) \cap (Members(list) \cup {Len(tx) + 1}) = {}
    BY DEF ChainLeft
  <2>2. Members(chain[i].cells)' = Members(chain[i].cells) /\ Members(list)' = Members(list)
    BY DEF Members
  <2> QED BY <2>1, <2>2
<1>2. OwnOnce => OwnOnce'
  BY DEF OwnOnce
<1>3. CellsMade => CellsMade'
  BY DEF CellsMade, Members
<1> QED BY <1>1, <1>2, <1>3

\* ... and the run.
LEMMA SameRun ==
  ASSUME UNCHANGED <<list, count, pc, batch, past, packNumber>>
  PROVE  (BatchIsHead => BatchIsHead') /\ (RunInv => RunInv')
<1>1. Batch(past)' = Batch(past)
  BY DEF Batch
<1> QED BY <1>1 DEF BatchIsHead, RunInv

\* The steps that leave the pool alone and go on only in bookKeeperRun, in a handler
\* or in the environment: the clock runs ...
LEMMA TickKeeps == ASSUME Strong, Tick PROVE Strong'
<1> USE DEF Strong, IInv
<1>0. /\ UNCHANGED <<list, tx, txMap, curSize, count, pc, batch, past, packNumber, chain, stage>>
      /\ UNCHANGED <<isDone, subUser, crashed>> /\ clock < MaxClock /\ clock' = clock + 1
  BY DEF Tick, queue, run, flags
<1>1. TypeOK'
  BY <1>0, PoolAssumption DEF TypeOK
<1>2. CountedAreOld'
  <2> SUFFICES ASSUME pc # "wait" PROVE past <= count /\ count <= Len(list) /\ \A i \in 1 .. count : Old(list[i])'
    BY <1>0 DEF CountedAreOld
  <2>1. past <= count /\ count <= Len(list) /\ \A i \in 1 .. count : Old(list[i])
    BY DEF CountedAreOld
  <2>2. ASSUME NEW i \in 1 .. count PROVE Old(list[i])'
    <3>1. i \in 1 .. Len(list) /\ clock \in Int
      BY <2>1, ListTyped DEF TypeOK
    <3>2. Stamp[tx[list[i]]] \in Nat /\ Stamp[tx[list[i]]] < clock - 2
      BY <2>1, <3>1, ListTyped DEF Old, StampAt
    <3> QED BY <1>0, <3>1, <3>2 DEF Old
  <2> QED BY <2>1, <2>2
<1> QED BY <1>0, <1>1, <1>2, SameList, SameChain, SameRun DEF AppendedFirst

\* ... set-pkg_num comes between two runs ...
LEMMA SettingKeeps == ASSUME Strong, pc = "wait", Setting PROVE Strong'
<1> USE DEF Strong, IInv
<1>0. /\ UNCHANGED <<list, tx, txMap, curSize, count, pc, batch, past, clock, chain, stage>>
      /\ UNCHANGED <<isDone, subUser, crashed>> /\ packNumber' \in PackNumbers
  BY DEF Setting, SetPackNumber, queue, run
<1>1. TypeOK'
  BY <1>0 DEF TypeOK
<1>2. CountedAreOld' /\ RunInv'
  BY <1>0 DEF CountedAreOld, RunInv, TypeOK
<1>3. BatchIsHead'
  BY <1>0 DEF BatchIsHead
<1> QED BY <1>0, <1>1, <1>2, <1>3, SameList, SameChain DEF AppendedFirst

\* ... and bookKeeperRun goes to its next line.
LEMMA GoingOnKeeps ==
  ASSUME Strong, Enough \/ TooFew \/ NotSelected \/ OtherWins \/ NobodyWins PROVE Strong'
<1> USE DEF Strong, IInv
<1>0. /\ UNCHANGED <<list, tx, txMap, curSize, count, batch, past, packNumber, isDone, chain, clock, crashed>>
      /\ \/ pc = "loop" /\ pc' = "select" /\ count >= packNumber
         \/ pc = "loop" /\ pc' = "wait"
         \/ pc = "select" /\ pc' = "loop"
         \/ pc = "main" /\ pc' = "spin"
  BY DEF Enough, TooFew, NotSelected, OtherWins, NobodyWins, Lose, Goto, queue, run, flags
<1>1. /\ subUser' \in Selections \cup {0}
      /\ stage' \in [External -> {"none", "won", "check", "lock", "finish", "over"}]
  BY DEF Enough, TooFew, NotSelected, OtherWins, NobodyWins, Lose, TypeOK, flags
<1>2. TypeOK'
  BY <1>0, <1>1 DEF TypeOK
<1>3. BatchIsHead' /\ CountedAreOld'
  <2>1. CountedAreOld'
    BY <1>0 DEF CountedAreOld, Old
  <2>2. Batch(past)' = Batch(past)
    BY <1>0 DEF Batch
  <2> QED BY <1>0, <2>1, <2>2 DEF BatchIsHead, RunInv, TypeOK
<1>4. AppendedFirst'
  <2>1. \A b \in External : stage'[b] = stage[b] \/ stage'[b] = "won"
    BY DEF Enough, TooFew, NotSelected, OtherWins, NobodyWins, Lose, TypeOK
  <2> QED BY <1>0, <2>1 DEF AppendedFirst
<1>5. RunInv'
  BY <1>0 DEF RunInv, TypeOK
<1> QED BY <1>0, <1>2, <1>3, <1>4, <1>5, SameList, SameChain

\* A handler that only goes on, or appends its block first, keeps the invariant.
LEMMA HandlerKeeps ==
  ASSUME Strong, NEW b \in External, Arrive(b) \/ CheckSub(b) \/ Done(b) PROVE Strong'
<1> USE DEF Strong, IInv
<1>0. /\ UNCHANGED <<list, tx, txMap, curSize, count, pc, batch, past, packNumber, clock, crashed, subUser>>
      /\ isDone' \in BOOLEAN
  BY DEF Arrive, CheckSub, Done, queue, run, flags, TypeOK
<1>1. PICK to \in {"check", "lock", "finish", "over"} : stage' = [stage EXCEPT ![b] = to]
  BY DEF Arrive, CheckSub, Done, Stage
<1>b. PICK new \in Block : /\ new = [cells |-> <<>>, txs |-> Payload[b]]
                           /\ new.txs = Payload[b] /\ DOMAIN new.cells = {}
  <2>1. <<>> \in Seq(Cell \cup {0}) /\ DOMAIN <<>> = {}
    OBVIOUS
  <2>2. [cells |-> <<>>, txs |-> Payload[b]] \in Block
    BY <2>1, PoolAssumption DEF Block
  <2> QED BY <2>1, <2>2
<1>2. \/ UNCHANGED chain /\ stage[b] \in {"check", "lock", "finish", "over"}
      \/ chain' = Append(chain, new)
  BY <1>b DEF Arrive, CheckSub, Done, Stage
<1>3. /\ chain' \in Seq(Block) /\ Len(chain) \in Nat /\ DOMAIN chain = 1 .. Len(chain)
      /\ DOMAIN chain' = 1 .. Len(chain') /\ Len(chain') \in {Len(chain), Len(chain) + 1}
      /\ \A i \in DOMAIN chain : i \in DOMAIN chain' /\ chain'[i] = chain[i]
      /\ \A i \in DOMAIN chain' \ DOMAIN chain : chain'[i] = new
      /\ (UNCHANGED chain) \/ Len(chain') \in DOMAIN chain' \ DOMAIN chain
  <2>1. chain \in Seq(Block)
    BY DEF TypeOK
  <2> QED BY <1>2, <2>1
<1>4. TypeOK'
  BY <1>0, <1>1, <1>3 DEF TypeOK
<1>5. CountedAreOld'
  BY <1>0 DEF CountedAreOld, Old
<1>6. AppendedFirst'
  <2> SUFFICES ASSUME NEW a \in External, stage'[a] \in {"check", "lock", "finish", "over"}
               PROVE  \E i \in DOMAIN chain' : chain'[i].txs = Payload[a]
    BY DEF AppendedFirst
  <2>1. CASE stage[a] \in {"check", "lock", "finish", "over"}
    <3>1. PICK i \in DOMAIN chain : chain[i].txs = Payload[a]
      BY <2>1 DEF AppendedFirst
    <3> QED BY <1>3, <3>1
  <2>2. CASE stage[a] \notin {"check", "lock", "finish", "over"}
    <3>1. a = b /\ ~ UNCHANGED chain
      BY <1>1, <1>2, <2>2 DEF TypeOK
    <3>2. Len(chain') \in DOMAIN chain' \ DOMAIN chain
      BY <1>3, <3>1
    <3>3. chain'[Len(chain')].txs = Payload[b]
      BY <1>3, <1>b, <3>2
    <3> QED BY <3>1, <3>2, <3>3
  <2> QED BY <2>1, <2>2
<1>7. \A i \in DOMAIN chain' \ DOMAIN chain : DOMAIN chain'[i].cells = {}
  BY <1>3, <1>b
<1>8. ChainLeft'
  <2> SUFFICES ASSUME NEW i \in DOMAIN chain'
               PROVE  Members(chain'[i].cells) \cap (Members(list) \cup {Len(tx) + 1})' = {}
    BY DEF ChainLeft
  <2>1. CASE i \in DOMAIN chain
    <3>1. Members(chain[i].cells) \cap (Members(list) \cup {Len(tx) + 1}) = {}
      BY <2>1 DEF ChainLeft
    <3>2. Members(list)' = Members(list)
      BY <1>0 DEF Members
    <3> QED BY <1>0, <1>3, <2>1, <3>1, <3>2
  <2>2. CASE i \notin DOMAIN chain
    BY <1>7, <2>2 DEF Members
  <2> QED BY <2>1, <2>2
<1>9. CellsMade'
  <2>1. Members(list)' \subseteq 1 .. Len(tx')
    BY <1>0 DEF CellsMade, Members
  <2>2. ASSUME NEW i \in DOMAIN chain' PROVE Members(chain'[i].cells) \subseteq 1 .. Len(tx')
    <3>1. CASE i \in DOMAIN chain
      BY <1>0, <1>3, <3>1 DEF CellsMade
    <3>2. CASE i \notin DOMAIN chain
      BY <1>7, <3>2 DEF Members
    <3> QED BY <3>1, <3>2
  <2> QED BY <2>1, <2>2 DEF CellsMade
<1>10. OwnOnce'
  <2>1. ASSUME NEW i \in DOMAIN chain', NEW k \in DOMAIN chain'[i].cells
        PROVE  i \in DOMAIN chain /\ chain'[i] = chain[i]
    BY <1>3, <1>7, <2>1
  <2> QED BY <2>1 DEF OwnOnce
<1> QED BY <1>0, <1>4, <1>5, <1>6, <1>8, <1>9, <1>10, SameList, SameRun

\* A run starts and counts the old cells.
LEMMA ScanKeeps == ASSUME Strong, Scan PROVE Strong'
<1> USE DEF Strong, IInv
<1>0. /\ UNCHANGED <<list, tx, txMap, curSize, batch, past, packNumber, subUser, chain, stage, clock, crashed>>
      /\ pc = "wait" /\ pc' = "loop" /\ isDone' = FALSE
  BY DEF Scan, Goto, queue
<1> DEFINE T == {i \in DOMAIN list : \A j \in 1 .. i : Old(list[j])}
<1>1. count' = Cardinality(T)
  BY DEF Scan
<1>2. Cardinality(T) \in 0 .. Len(list) /\ \A i \in 1 .. Cardinality(T) : i \in T
  <2>1. T \in SUBSET (1 .. Len(list)) /\ Len(list) \in Nat
    BY ListTyped
  <2>2. \A i \in T : \A j \in 1 .. i : j \in T
    BY ListTyped
  <2> HIDE DEF T
  <2> QED BY <2>1, <2>2, Prefix
<1>3. count' \in 0 .. Len(list) /\ \A i \in 1 .. count' : Old(list[i])
  <2>1. \A i \in T : i \in 1 .. i /\ Old(list[i])
    BY ListTyped
  <2> HIDE DEF T
  <2> QED BY <1>1, <1>2, <2>1
<1>4. past = 0
  BY <1>0 DEF RunInv, TypeOK
<1>5. TypeOK'
  <2>1. count' \in Nat
    BY <1>3
  <2> QED BY <1>0, <2>1 DEF TypeOK
<1>6. CountedAreOld'
  <2>1. \A i \in 1 .. count' : Old(list[i])'
    BY <1>0, <1>3 DEF Old
  <2> QED BY <1>0, <1>3, <1>4, <2>1, ListTyped DEF CountedAreOld
<1>7. BatchIsHead' /\ RunInv'
  BY <1>0, <1>4 DEF BatchIsHead, RunInv
<1>8. AppendedFirst'
  BY <1>0 DEF AppendedFirst
<1> QED BY <1>0, <1>5, <1>6, <1>7, <1>8, SameList, SameChain

\* The agreement is lost, and the wait for the other node's block is over.
LEMMA SpinDoneKeeps == ASSUME Strong, SpinDone PROVE Strong'
<1> USE DEF Strong, IInv
<1>0. /\ UNCHANGED <<list, tx, txMap, curSize, count, packNumber, isDone, subUser, chain, stage, clock, crashed>>
      /\ pc = "spin" /\ pc' = "loop" /\ batch' = <<>> /\ past' = 0
  BY DEF SpinDone, Goto, queue, flags
<1>1. TypeOK'
  <2>1. batch' \in Seq(Cell \cup {0})
    BY <1>0
  <2>2. UNCHANGED <<list, tx, txMap, curSize, count, packNumber, isDone, subUser, chain, stage, clock, crashed>>
    BY <1>0
  <2>3. pc' \in {"wait", "loop", "select", "main", "spin"} /\ past' \in Nat
    BY <1>0
  <2> QED BY <2>1, <2>2, <2>3 DEF TypeOK
<1>2. CountedAreOld'
  BY <1>0 DEF CountedAreOld, Old, TypeOK
<1>3. BatchIsHead' /\ RunInv' /\ BatchUnmapped' /\ AppendedFirst'
  BY <1>0 DEF BatchIsHead, RunInv, BatchUnmapped, AppendedFirst
<1>4. NeverOverstates'
  BY <1>0, ListTyped DEF NeverOverstates, TypeOK
<1>5. Sorted' /\ MapInList'
  BY <1>0 DEF Sorted, MapInList, StampAt, Members
<1> QED BY <1>0, <1>1, <1>2, <1>3, <1>4, <1>5, SameChain

\* A list that keeps some cells in their order is sorted again.
LEMMA SubList ==
  ASSUME Strong, UNCHANGED tx, list' \in Seq(Cell), NEW e \in [1 .. Len(list') -> 1 .. Len(list)],
         \A k \in 1 .. Len(list') : list'[k] = list[e[k]],
         \A k, l \in 1 .. Len(list') : k < l => e[k] < e[l]
  PROVE  Sorted' /\ Members(list)' \subseteq Members(list)
<1>0. DOMAIN list' = 1 .. Len(list') /\ DOMAIN list = 1 .. Len(list)
  BY ListTyped DEF Strong, IInv
<1>1. Sorted'
  <2> SUFFICES ASSUME NEW i \in 1 .. Len(list'), NEW j \in 1 .. Len(list'), i < j
               PROVE  StampAt(i)' <= StampAt(j)' /\ list'[i] # list'[j]
    BY <1>0 DEF Sorted
  <2>1. e[i] \in DOMAIN list /\ e[j] \in DOMAIN list /\ e[i] < e[j]
    BY <1>0
  <2>2. StampAt(e[i]) <= StampAt(e[j]) /\ list[e[i]] # list[e[j]]
    BY <2>1 DEF Strong, IInv, Sorted
  <2> QED BY <2>2 DEF StampAt
<1>2. Members(list)' \subseteq Members(list)
  BY <1>0 DEF Members
<1> QED BY <1>1, <1>2

\* The batch is unlinked: the list begins behind it.
LEMMA Unlinks ==
  ASSUME Strong, pc \in {"main", "spin"}, Unlink, UNCHANGED <<tx, txMap, curSize, clock, packNumber>>
  PROVE  /\ list' \in Seq(Cell) /\ count' \in Nat /\ past' = 0 /\ crashed' \in BOOLEAN /\ ~ crashed'
         /\ Sorted' /\ MapInList' /\ NeverOverstates' /\ CountedAreOld'
         /\ Members(list)' \subseteq Members(list)
         /\ past <= Len(list) /\ \A k \in 1 .. past : list[k] \notin Members(list)'
         /\ \A c \in Members(list) \ Members(list)' : \E k \in 1 .. past : list[k] = c
<1> USE DEF Strong, IInv
<1>0. past \in Nat /\ count \in Nat /\ packNumber \in Nat \ {0} /\ past <= count /\ count <= Len(list)
  BY PoolAssumption DEF TypeOK, CountedAreOld
<1>a. PICK p \in Nat : p = past
  BY <1>0
<1>b. p \in {0, packNumber}
  BY <1>0, <1>a DEF RunInv
<1>1. /\ list' \in Seq(Cell) /\ Len(list') = Len(list) - p /\ DOMAIN list' = 1 .. Len(list')
      /\ Len(list') \in Nat /\ Len(list) \in Nat /\ DOMAIN list = 1 .. Len(list) /\ p <= Len(list)
      /\ \A k \in 1 .. Len(list') : k + p \in 1 .. Len(list) /\ list'[k] = list[k + p]
  <2>1. list \in Seq(Cell) /\ Len(list) \in Nat /\ list' = SubSeq(list, p + 1, Len(list)) /\ p <= Len(list)
    BY <1>0, <1>a, ListTyped DEF Unlink, Drop, TypeOK
  <2>2. \A i \in p + 1 .. Len(list) : list[i] \in Cell
    BY <2>1
  <2>3. /\ list' \in Seq(Cell)
        /\ Len(list') = IF p + 1 <= Len(list) THEN Len(list) - (p + 1) + 1 ELSE 0
        /\ \A i \in 1 .. Len(list) - (p + 1) + 1 : list'[i] = list[(p + 1) + i - 1]
    BY <2>1, <2>2, SubSeqProperties
  <2> QED BY <2>1, <2>3
<1>2. count' \in Nat /\ past' = 0 /\ crashed' \in BOOLEAN /\ ~ crashed'
  <2>1. ~ (past > Len(list)) /\ count - packNumber \in Int /\ (count > packNumber => count - packNumber \in Nat)
    BY <1>0, <1>a, <1>1
  <2>2. count' \in Nat /\ past' = 0
    BY <1>0, <2>1 DEF Unlink
  <2>3. crashed' = (past > Len(list))
    BY DEF Unlink
  <2>4. ~ crashed'
    BY <2>1, <2>3
  <2>5. crashed' \in BOOLEAN
    BY <2>3
  <2> QED BY <2>2, <2>4, <2>5
<1>3. Sorted' /\ Members(list)' \subseteq Members(list)
  <2> DEFINE e == [k \in 1 .. Len(list') |-> k + p]
  <2>1. e \in [1 .. Len(list') -> 1 .. Len(list)]
    BY <1>1
  <2>2. \A k \in 1 .. Len(list') : list'[k] = list[e[k]]
    BY <1>1
  <2>3. \A k, l \in 1 .. Len(list') : k < l => e[k] < e[l]
    BY <1>1
  <2> HIDE DEF e
  <2> QED BY <1>1, <2>1, <2>2, <2>3, SubList
<1>4. \A k \in 1 .. p : list[k] \notin Members(list)'
  <2> SUFFICES ASSUME NEW k \in 1 .. p, NEW l \in 1 .. Len(list') PROVE list[k] # list'[l]
    BY <1>1 DEF Members
  <2>1. k \in DOMAIN list /\ l + p \in DOMAIN list /\ k < l + p
    BY <1>1
  <2> QED BY <1>1, <2>1 DEF Sorted
<1>5. \A c \in Members(list) \ Members(list)' : \E k \in 1 .. p : list[k] = c
  <2> SUFFICES ASSUME NEW i \in 1 .. Len(list), list[i] \notin Members(list)' PROVE i \in 1 .. p
    BY <1>1 DEF Members
  <2>1. CASE i > p
    <3>1. i - p \in DOMAIN list' /\ (i - p) + p = i
      BY <1>1, <2>1
    <3> QED BY <1>1, <3>1 DEF Members
  <2> QED BY <2>1
<1>6. MapInList'
  <2> SUFFICES ASSUME NEW t \in Tx, txMap[t] # 0 PROVE txMap[t] \in Members(list)' /\ tx[txMap[t]] = t
    BY DEF MapInList
  <2>1. txMap[t] \in Members(list) /\ tx[txMap[t]] = t
    BY DEF MapInList
  <2>2. \A k \in 1 .. p : list[k] # txMap[t]
    BY <1>0, <1>a, <2>1 DEF BatchUnmapped
  <2> QED BY <1>5, <2>1, <2>2
<1>7. NeverOverstates'
  BY <1>a, <1>1, <1>2 DEF NeverOverstates, TypeOK
<1>8. CountedAreOld'
  <2>1. count' <= Len(list') /\ \A i \in 1 .. count' : i \in 1 .. Len(list') /\ i + p \in 1 .. count
    BY <1>0, <1>a, <1>b, <1>1 DEF Unlink
  <2>2. ASSUME NEW i \in 1 .. count' PROVE Old(list[i])'
    <3>1. Old(list[i + p]) /\ list'[i] = list[i + p]
      BY <1>1, <2>1 DEF CountedAreOld
    <3> QED BY <3>1 DEF Old
  <2> QED BY <1>2, <2>1, <2>2 DEF CountedAreOld
<1> QED BY <1>0, <1>a, <1>1, <1>2, <1>3, <1>4, <1>5, <1>6, <1>7, <1>8

\* While bookKeeperRun waits for another node's block ...
LEMMA SpinKeeps == ASSUME Strong, Spin PROVE Strong'
<1> USE DEF Strong, IInv
<1>0. /\ UNCHANGED <<tx, txMap, curSize, batch, packNumber, isDone, subUser, chain, stage, clock>>
      /\ pc = "spin" /\ pc' = "spin" /\ Unlink
  BY DEF Spin, Goto, flags
<1>1. /\ list' \in Seq(Cell) /\ count' \in Nat /\ past' = 0 /\ crashed' \in BOOLEAN /\ ~ crashed'
      /\ Sorted' /\ MapInList' /\ NeverOverstates' /\ CountedAreOld'
      /\ Members(list)' \subseteq Members(list)
  BY <1>0, Unlinks
<1>2. TypeOK'
  BY <1>0, <1>1 DEF TypeOK
<1>3. BatchIsHead' /\ RunInv' /\ BatchUnmapped' /\ AppendedFirst'
  BY <1>0, <1>1 DEF BatchIsHead, RunInv, BatchUnmapped, AppendedFirst
<1>4. ChainLeft'
  <2> SUFFICES ASSUME NEW i \in DOMAIN chain
               PROVE  Members(chain[i].cells) \cap (Members(list)' \cup {Len(tx) + 1}) = {}
    BY <1>0 DEF ChainLeft
  <2>1. Members(chain[i].cells) \cap (Members(list) \cup {Len(tx) + 1}) = {}
    BY DEF ChainLeft
  <2> QED BY <1>1, <2>1
<1>5. CellsMade'
  BY <1>0, <1>1 DEF CellsMade
<1>6. OwnOnce'
  BY <1>0 DEF OwnOnce
<1> QED BY <1>1, <1>2, <1>3, <1>4, <1>5, <1>6

\* The batch that is proposed is the head of the list.
LEMMA BatchListed ==
  ASSUME Strong, past > 0
  PROVE  /\ past \in Nat /\ past <= count /\ count <= Len(list) /\ past = packNumber
         /\ DOMAIN batch = 1 .. past /\ \A k \in 1 .. past : batch[k] = list[k] /\ k \in 1 .. Len(list)
         /\ Mine \in Block
<1> USE DEF Strong, IInv
<1>1. /\ past \in Nat /\ past <= count /\ count <= Len(list) /\ past = packNumber
      /\ count \in Nat /\ Len(list) \in Nat /\ batch = Batch(past)
  BY ListTyped DEF TypeOK, CountedAreOld, RunInv, BatchIsHead
<1>2. DOMAIN batch = 1 .. past /\ \A k \in 1 .. past : batch[k] = list[k] /\ k \in 1 .. Len(list)
  BY <1>1 DEF Batch
<1>3. Named(batch) \subseteq Tx
  <2> SUFFICES ASSUME NEW k \in 1 .. past PROVE tx[batch[k]] \in Tx
    BY <1>2 DEF Named, Members
  <2> QED BY <1>2, ListTyped
<1> QED BY <1>1, <1>2, <1>3 DEF Mine, Block, TypeOK

\* ... and when its own block has won.
LEMMA OwnBlockKeeps == ASSUME Strong, OwnBlock PROVE Strong'
<1> USE DEF Strong, IInv
<1>0. /\ UNCHANGED <<tx, txMap, curSize, packNumber, isDone, subUser, stage, clock>>
      /\ pc = "main" /\ pc' = "loop" /\ Unlink /\ chain' = Append(chain, Mine) /\ batch' = <<>>
  BY DEF OwnBlock, Goto, flags
<1>1. /\ list' \in Seq(Cell) /\ count' \in Nat /\ past' = 0 /\ crashed' \in BOOLEAN /\ ~ crashed'
      /\ Sorted' /\ MapInList' /\ NeverOverstates' /\ CountedAreOld'
      /\ Members(list)' \subseteq Members(list)
      /\ \A k \in 1 .. past : list[k] \notin Members(list)'
  BY <1>0, Unlinks
<1>2. /\ past > 0 /\ past \in Nat /\ past <= Len(list) /\ DOMAIN batch = 1 .. past
      /\ \A k \in 1 .. past : batch[k] = list[k] /\ k \in 1 .. Len(list)
      /\ Mine \in Block
  <2>1. past > 0
    BY <1>0 DEF RunInv
  <2> QED BY <2>1, BatchListed, ListTyped DEF TypeOK
<1>b. PICK new \in Block : new = Mine /\ new.cells = batch
  BY <1>2 DEF Mine
<1>3. /\ chain' \in Seq(Block) /\ Len(chain) \in Nat /\ DOMAIN chain = 1 .. Len(chain)
      /\ Len(chain') = Len(chain) + 1 /\ DOMAIN chain' = 1 .. Len(chain) + 1
      /\ \A i \in DOMAIN chain : i \in DOMAIN chain' /\ chain'[i] = chain[i] /\ i # Len(chain) + 1
      /\ chain'[Len(chain) + 1] = new
  <2>1. chain \in Seq(Block) /\ chain' = Append(chain, new)
    BY <1>0, <1>b DEF TypeOK
  <2> QED BY <2>1
<1>4. TypeOK'
  <2>1. batch' \in Seq(Cell \cup {0})
    BY <1>0
  <2>2. pc' \in {"wait", "loop", "select", "main", "spin"} /\ past' \in Nat /\ crashed' \in BOOLEAN
    BY <1>0, <1>1
  <2>3. UNCHANGED <<tx, txMap, curSize, packNumber, isDone, subUser, stage, clock>>
    BY <1>0
  <2> QED BY <1>1, <1>3, <2>1, <2>2, <2>3 DEF TypeOK
<1>5. BatchIsHead' /\ RunInv' /\ BatchUnmapped'
  BY <1>0, <1>1 DEF BatchIsHead, RunInv, BatchUnmapped
<1>6. AppendedFirst'
  BY <1>0, <1>3 DEF AppendedFirst
<1>7. ASSUME NEW k \in DOMAIN new.cells
      PROVE  /\ new.cells[k] \in Members(list) /\ new.cells[k] \notin Members(list)' /\ new.cells[k] \in 1 .. Len(tx)
             /\ k \in DOMAIN list /\ new.cells[k] = list[k]
  BY <1>b, <1>1, <1>2, ListTyped DEF Members
<1>8. ChainLeft'
  <2> SUFFICES ASSUME NEW i \in DOMAIN chain'
               PROVE  Members(chain'[i].cells) \cap (Members(list)' \cup {Len(tx) + 1}) = {}
    BY <1>0 DEF ChainLeft
  <2>1. CASE i \in DOMAIN chain
    <3>1. Members(chain[i].cells) \cap (Members(list) \cup {Len(tx) + 1}) = {}
      BY <2>1 DEF ChainLeft
    <3> QED BY <1>1, <1>3, <2>1, <3>1
  <2>2. CASE i = Len(chain) + 1
    <3>1. \A c \in Members(new.cells) : c \notin Members(list)' /\ c \in 1 .. Len(tx)
      BY <1>7 DEF Members
    <3>2. Len(tx) + 1 \notin 1 .. Len(tx)
      BY ListTyped
    <3> QED BY <1>3, <2>2, <3>1, <3>2
  <2> QED BY <1>3, <2>1, <2>2
<1>9. CellsMade'
  <2>1. ASSUME NEW i \in DOMAIN chain' PROVE Members(chain'[i].cells) \subseteq 1 .. Len(tx)
    <3>1. CASE i \in DOMAIN chain
      BY <1>3, <3>1 DEF CellsMade
    <3>2. CASE i = Len(chain) + 1
      <4>1. Members(new.cells) \subseteq 1 .. Len(tx)
        BY <1>7 DEF Members
      <4> QED BY <1>3, <3>2, <4>1
    <3> QED BY <1>3, <3>1, <3>2
  <2> QED BY <1>0, <1>1, <2>1 DEF CellsMade
<1>10. OwnOnce'
  <2> SUFFICES ASSUME NEW i \in DOMAIN chain', NEW j \in DOMAIN chain',
                      NEW k \in DOMAIN chain'[i].cells, NEW l \in DOMAIN chain'[j].cells,
                      chain'[i].cells[k] = chain'[j].cells[l]
               PROVE  i = j /\ k = l
    BY DEF OwnOnce
  <2>1. ASSUME NEW h \in DOMAIN chain, NEW m \in DOMAIN chain[h].cells, NEW n \in DOMAIN new.cells
        PROVE  chain[h].cells[m] # new.cells[n]
    <3>1. chain[h].cells[m] \in Members(chain[h].cells)
      BY DEF Members
    <3> QED BY <1>7, <3>1 DEF ChainLeft
  <2>2. CASE i \in DOMAIN chain /\ j \in DOMAIN chain
    BY <1>3, <2>2 DEF OwnOnce
  <2>3. CASE i = Len(chain) + 1 /\ j = Len(chain) + 1
    <3>1. k \in DOMAIN new.cells /\ l \in DOMAIN new.cells /\ new.cells[k] = new.cells[l]
      BY <1>3, <2>3
    <3>2. k \in DOMAIN list /\ l \in DOMAIN list /\ list[k] = list[l]
      BY <1>7, <3>1
    <3> QED BY <2>3, <3>2, ListTyped DEF Sorted
  <2>4. CASE i \in DOMAIN chain /\ j = Len(chain) + 1
    BY <1>3, <2>1, <2>4
  <2>5. CASE i = Len(chain) + 1 /\ j \in DOMAIN chain
    BY <1>3, <2>1, <2>5
  <2> QED BY <1>3, <2>2, <2>3, <2>4, <2>5
<1> QED BY <1>1, <1>4, <1>5, <1>6, <1>8, <1>9, <1>10

\* The batch is built: there are enough cells, none of them behind the last.
LEMMA PackKeeps == ASSUME Strong, Pack PROVE Strong'
<1> USE DEF Strong, IInv
<1>0. /\ count \in Nat /\ packNumber \in Nat \ {0} /\ packNumber <= count /\ count <= Len(list)
      /\ Len(list) \in Nat /\ pc = "select" /\ past = 0
  BY PoolAssumption, ListTyped DEF Pack, TypeOK, CountedAreOld, RunInv
<1>1. /\ UNCHANGED <<list, tx, count, isDone, packNumber, chain, stage, clock, crashed>>
      /\ subUser' \in Selections /\ pc' = "main" /\ past' = packNumber
      /\ batch' = Batch(packNumber) /\ curSize' = curSize - packNumber
      /\ txMap' = [t \in Tx |-> IF t \in Named(batch') THEN 0 ELSE txMap[t]]
  <2>1. ~ (packNumber > Len(list) + 1)
    BY <1>0
  <2> QED BY <2>1 DEF Pack
<1>2. /\ DOMAIN batch' = 1 .. packNumber /\ batch' \in Seq(Cell \cup {0}) /\ Len(batch') = packNumber
      /\ \A i \in 1 .. packNumber : i \in 1 .. Len(list) /\ batch'[i] = list[i]
  <2>1. \A i \in 1 .. packNumber : i \in 1 .. Len(list) /\ i <= Len(list) /\ list[i] \in Cell
    BY <1>0, ListTyped
  <2>2. batch' = [i \in 1 .. packNumber |-> list[i]]
    BY <1>1, <2>1 DEF Batch
  <2> QED BY <1>0, <2>1, <2>2
<1>3. txMap' \in [Tx -> Cell \cup {0}] /\ \A t \in Tx : txMap'[t] # 0 => txMap'[t] = txMap[t]
  BY <1>1 DEF TypeOK
<1>4. TypeOK'
  BY <1>0, <1>1, <1>2, <1>3, PoolAssumption DEF TypeOK
<1>5. MapInList'
  BY <1>1, <1>3 DEF MapInList, Members
<1>6. BatchIsHead'
  <2>1. Batch(past)' = Batch(packNumber)
    BY <1>1 DEF Batch
  <2> QED BY <1>1, <1>2, <2>1 DEF BatchIsHead
<1>7. CountedAreOld'
  BY <1>0, <1>1 DEF CountedAreOld, Old
<1>8. NeverOverstates'
  BY <1>0, <1>1 DEF NeverOverstates, TypeOK
<1>9. BatchUnmapped'
  <2> SUFFICES ASSUME NEW i \in 1 .. packNumber PROVE txMap'[tx[list[i]]] = 0
    BY <1>1 DEF BatchUnmapped
  <2>1. i \in 1 .. Len(list) /\ batch'[i] = list[i] /\ i \in DOMAIN batch'
    BY <1>2
  <2>2. list[i] # 0 /\ tx[list[i]] \in Tx
    BY <2>1, ListTyped
  <2>3. tx[list[i]] \in Named(batch')
    BY <2>1, <2>2 DEF Named, Members
  <2> QED BY <1>1, <2>2, <2>3
<1>10. RunInv'
  BY <1>0, <1>1 DEF RunInv
<1>11. AppendedFirst'
  BY <1>1 DEF AppendedFirst
<1>12. Sorted'
  BY <1>1 DEF Sorted, StampAt
<1> QED BY <1>1, <1>4, <1>5, <1>6, <1>7, <1>8, <1>9, <1>10, <1>11, <1>12, SameChain

\* A list that has lost some cells keeps what the chain and the cells are about.
LEMMA FewerCells ==
  ASSUME Strong, UNCHANGED <<tx, chain>>, Members(list)' \subseteq Members(list)
  PROVE  ChainLeft' /\ CellsMade' /\ OwnOnce'
<1> USE DEF Strong, IInv
<1>1. ChainLeft'
  <2> SUFFICES ASSUME NEW i \in DOMAIN chain
               PROVE  Members(chain[i].cells) \cap (Members(list)' \cup {Len(tx) + 1}) = {}
    BY DEF ChainLeft
  <2>1. Members(chain[i].cells) \cap (Members(list) \cup {Len(tx) + 1}) = {}
    BY DEF ChainLeft
  <2> QED BY <2>1
<1>2. CellsMade'
  BY DEF CellsMade
<1>3. OwnOnce'
  BY DEF OwnOnce
<1> QED BY <1>1, <1>2, <1>3

\* out(): the list without the cells of T, which txMap has, is shorter by the number
\* of T at most.
LEMMA OutLeaves ==
  ASSUME Strong, NEW T \in SUBSET Tx, IsFiniteSet(T), \A t \in T : txMap[t] # 0, UNCHANGED tx,
         list' = Without({txMap[t] : t \in T})
  PROVE  /\ list' \in Seq(Cell) /\ Sorted' /\ Members(list)' \subseteq Members(list)
         /\ Len(list') \in Nat /\ Len(list) <= Len(list') + Cardinality(T)
         /\ \A t \in Tx \ T : txMap[t] # 0 => txMap[t] \in Members(list)'
         /\ \A c \in Members(list) \ Members(list)' : \E t \in T : txMap[t] = c /\ tx[c] = t
<1> USE DEF Strong, IInv
<1>c. PICK C : C = {txMap[t] : t \in T}
  OBVIOUS
<1>0. list \in Seq(Cell) /\ Len(list) \in Nat /\ DOMAIN list = 1 .. Len(list)
  BY DEF TypeOK
<1>1. list' \in Seq(Cell) /\ \E e : Left(list, C, Len(list), list', e)
  BY <1>c, <1>0, WithoutLeft
<1>2. PICK e : Left(list, C, Len(list), list', e)
  BY <1>1
<1>3. Len(list') \in Nat /\ DOMAIN list' = 1 .. Len(list')
  BY <1>1
<1>4. \A t \in T : txMap[t] \in C /\ txMap[t] \in Members(list) /\ tx[txMap[t]] = t
  BY <1>c DEF MapInList
<1>5. \A c \in C : \E t \in T : c = txMap[t] /\ tx[c] = t
  BY <1>c, <1>4
<1>6. Sorted' /\ Members(list)' \subseteq Members(list)
  <2>1. /\ e \in [1 .. Len(list') -> 1 .. Len(list)]
        /\ \A k \in 1 .. Len(list') : list'[k] = list[e[k]]
        /\ \A k, l \in 1 .. Len(list') : k < l => e[k] < e[l]
    BY <1>2, <1>3 DEF Left
  <2> QED BY <1>1, <2>1, SubList
<1>7. ASSUME NEW i \in 1 .. Len(list), list[i] \notin C PROVE list[i] \in Members(list)'
  <2>1. PICK k \in 1 .. Len(list') : e[k] = i
    BY <1>2, <1>7 DEF Left
  <2>2. list'[k] = list[i]
    BY <1>2, <2>1 DEF Left
  <2> QED BY <1>3, <2>2 DEF Members
<1>8. ASSUME NEW t \in Tx \ T, txMap[t] # 0 PROVE txMap[t] \in Members(list)'
  <2>1. txMap[t] \in Members(list) /\ tx[txMap[t]] = t
    BY <1>8 DEF MapInList
  <2>2. txMap[t] \notin C
    BY <1>5, <2>1
  <2>3. PICK i \in 1 .. Len(list) : list[i] = txMap[t]
    BY <1>0, <2>1 DEF Members
  <2> QED BY <1>7, <2>2, <2>3
<1>9. ASSUME NEW c \in Members(list) \ Members(list)' PROVE \E t \in T : txMap[t] = c /\ tx[c] = t
  <2>1. PICK i \in 1 .. Len(list) : list[i] = c
    BY <1>0 DEF Members
  <2>2. c \in C
    BY <1>7, <2>1
  <2> QED BY <1>5, <2>2
<1>10. Len(list) <= Len(list') + Cardinality(T)
  <2> DEFINE R == {i \in 1 .. Len(list) : list[i] \in C}
             f == [i \in R |-> tx[list[i]]]
  <2>1. Len(list') + Cardinality(R) = Len(list) /\ IsFiniteSet(R)
    BY <1>2 DEF Left
  <2>2. \A i \in R : tx[list[i]] \in T /\ list[i] = txMap[tx[list[i]]]
    BY <1>5
  <2>3. f \in Injection(R, T)
    <3>1. f \in [R -> T]
      BY <2>2
    <3>2. ASSUME NEW i \in R, NEW j \in R, f[i] = f[j] PROVE i = j
      <4>1. list[i] = list[j]
        BY <2>2, <3>2
      <4> QED BY <1>0, <4>1 DEF Sorted
    <3> HIDE DEF f
    <3> QED BY <3>1, <3>2 DEF Injection, IsInjective
  <2>4. Cardinality(R) <= Cardinality(T) /\ Cardinality(R) \in Nat /\ Cardinality(T) \in Nat
    <3> HIDE DEF R, f
    <3> QED BY <2>1, <2>3, FS_Injection, FS_CardinalityType
  <2> HIDE DEF R
  <2> QED BY <1>0, <1>3, <2>1, <2>4
<1> QED BY <1>1, <1>3, <1>6, <1>8, <1>9, <1>10

\* OrdinaryRun keeps the invariant: the block of another node takes its transactions
\* out of the pool between two runs of bookKeeperRun.
LEMMA OrdinaryRunKeeps == ASSUME Strong, NEW b \in External, OrdinaryRun(b) PROVE Strong'
<1> USE DEF Strong, IInv
<1>0. /\ UNCHANGED <<count, batch, past, packNumber, isDone, subUser, chain, clock, pc, tx>>
      /\ pc = "wait" /\ stage[b] = "lock" /\ stage' = [stage EXCEPT ![b] = "finish"]
  BY DEF OrdinaryRun, Stage, out, run, flags, queue
<1>1. past = 0
  BY <1>0 DEF RunInv, TypeOK
<1>2. Payload[b] \in SUBSET Tx /\ IsFiniteSet(Payload[b])
  BY PoolAssumption
<1>3. AppendedFirst'
  BY <1>0 DEF AppendedFirst, TypeOK
<1>4. stage' \in [External -> {"none", "won", "check", "lock", "finish", "over"}]
  BY <1>0 DEF TypeOK
<1>5. BatchIsHead' /\ RunInv' /\ CountedAreOld' /\ BatchUnmapped'
  BY <1>0, <1>1 DEF BatchIsHead, RunInv, CountedAreOld, BatchUnmapped
<1>6. CASE \E t \in Payload[b] : txMap[t] = 0
  <2>1. UNCHANGED <<list, tx, txMap, curSize>> /\ crashed' = TRUE
    BY <1>6 DEF OrdinaryRun, out, queue
  <2>2. TypeOK'
    BY <1>0, <1>4, <2>1 DEF TypeOK
  <2> QED BY <1>0, <1>3, <1>5, <2>1, <2>2, SameList, SameChain
<1>7. CASE \A t \in Payload[b] : txMap[t] # 0
  <2>1. /\ list' = Without({txMap[t] : t \in Payload[b]})
        /\ txMap' = [t \in Tx |-> IF t \in Payload[b] THEN 0 ELSE txMap[t]]
        /\ curSize' = curSize - Cardinality(Payload[b]) /\ UNCHANGED crashed
    BY <1>7 DEF OrdinaryRun, out
  <2>2. /\ list' \in Seq(Cell) /\ Sorted' /\ Members(list)' \subseteq Members(list)
        /\ Len(list') \in Nat /\ Len(list) <= Len(list') + Cardinality(Payload[b])
        /\ \A t \in Tx \ Payload[b] : txMap[t] # 0 => txMap[t] \in Members(list)'
    BY <1>0, <1>2, <1>7, <2>1, OutLeaves
  <2>3. Cardinality(Payload[b]) \in Nat
    BY <1>2, FS_CardinalityType
  <2>4. curSize' \in Int /\ curSize' <= MaxSize /\ curSize' + past' <= Len(list')
    BY <1>0, <1>1, <2>1, <2>2, <2>3, ListTyped, PoolAssumption DEF TypeOK, NeverOverstates
  <2>5. txMap' \in [Tx -> Cell \cup {0}]
    BY <2>1 DEF TypeOK
  <2>6. TypeOK'
    BY <1>0, <1>4, <2>1, <2>2, <2>4, <2>5 DEF TypeOK
  <2>7. MapInList'
    BY <1>0, <2>1, <2>2 DEF MapInList
  <2> QED BY <1>0, <1>3, <1>5, <2>2, <2>4, <2>6, <2>7, FewerCells DEF NeverOverstates
<1> QED BY <1>6, <1>7

\* in(): the list gets one cell more, at its place.
LEMMA InList ==
  ASSUME Strong, NEW t \in Tx, in(t), Len(tx) < MaxCells,
         NEW n, n = Len(tx) + 1, NEW p, p = Place(t)
  PROVE  /\ n \in Cell /\ Len(tx) \in Nat /\ tx' \in Seq(Tx) /\ Len(tx') = n /\ tx'[n] = t
         /\ \A c \in 1 .. Len(tx) : tx'[c] = tx[c] /\ c # n
         /\ p \in 0 .. Len(list) /\ list' \in Seq(Cell) /\ Len(list) \in Nat
         /\ Len(list') = Len(list) + 1
         /\ DOMAIN list' = 1 .. Len(list) + 1 /\ DOMAIN list = 1 .. Len(list)
         /\ \A k \in 1 .. Len(list) + 1 :
               /\ k <= p => k \in 1 .. Len(list) /\ list'[k] = list[k]
               /\ k = p + 1 => list'[k] = n
               /\ k > p + 1 => k - 1 \in 1 .. Len(list) /\ list'[k] = list[k - 1]
<1> USE DEF Strong, IInv
<1>1. /\ Len(tx) \in Nat /\ tx \in Seq(Tx) /\ Len(list) \in Nat /\ list \in Seq(Cell)
      /\ n \in Cell /\ p \in 0 .. Len(list)
  BY PlaceFits, PoolAssumption DEF TypeOK, Cell
<1>2. tx' \in Seq(Tx) /\ Len(tx') = n /\ tx'[n] = t /\ \A c \in 1 .. Len(tx) : tx'[c] = tx[c] /\ c # n
  BY <1>1 DEF in
<1>3. PICK front : front = SubSeq(list, 1, p)
  OBVIOUS
<1>4. PICK back : back = SubSeq(list, p + 1, Len(list))
  OBVIOUS
<1>5. front \in Seq(Cell) /\ Len(front) = p /\ \A k \in 1 .. p : front[k] = list[k]
  <2>1. \A i \in 1 .. p : list[i] \in Cell
    BY <1>1
  <2>2. /\ front \in Seq(Cell) /\ Len(front) = IF 1 <= p THEN p - 1 + 1 ELSE 0
        /\ \A i \in 1 .. p - 1 + 1 : front[i] = list[1 + i - 1]
    BY <1>1, <1>3, <2>1, SubSeqProperties
  <2> QED BY <1>1, <2>2
<1>6. /\ back \in Seq(Cell) /\ Len(back) = Len(list) - p
      /\ \A k \in 1 .. Len(list) - p : back[k] = list[p + k]
  <2>1. \A i \in p + 1 .. Len(list) : list[i] \in Cell
    BY <1>1
  <2>2. /\ back \in Seq(Cell) /\ Len(back) = IF p + 1 <= Len(list) THEN Len(list) - (p + 1) + 1 ELSE 0
        /\ \A i \in 1 .. Len(list) - (p + 1) + 1 : back[i] = list[(p + 1) + i - 1]
    BY <1>1, <1>4, <2>1, SubSeqProperties
  <2> QED BY <1>1, <2>2
<1>7. PICK mid : mid = <<n>>
  OBVIOUS
<1>8. mid \in Seq(Cell) /\ Len(mid) = 1 /\ mid[1] = n
  BY <1>1, <1>7
<1>9. PICK most : most = front \o mid
  OBVIOUS
<1>10. /\ most \in Seq(Cell) /\ Len(most) = p + 1 /\ most[p + 1] = n
       /\ \A k \in 1 .. p : most[k] = list[k]
  <2>1. /\ most \in Seq(Cell) /\ Len(most) = Len(front) + Len(mid)
        /\ \A k \in 1 .. Len(front) + Len(mid) : most[k] = IF k <= Len(front) THEN front[k] ELSE mid[k - Len(front)]
    BY <1>5, <1>8, <1>9, ConcatProperties
  <2> QED BY <1>1, <1>5, <1>8, <2>1
<1>11. list' = most \o back
  BY <1>1, <1>2, <1>3, <1>4, <1>7, <1>9 DEF in, Drop
<1>12. /\ list' \in Seq(Cell) /\ Len(list') = Len(most) + Len(back)
       /\ \A k \in 1 .. Len(most) + Len(back) : list'[k] = IF k <= Len(most) THEN most[k] ELSE back[k - Len(most)]
  BY <1>6, <1>10, <1>11, ConcatProperties
<1>13. Len(most) + Len(back) = Len(list) + 1
  BY <1>1, <1>6, <1>10
<1>14. ASSUME NEW k \in 1 .. Len(list) + 1
       PROVE  /\ k <= p => k \in 1 .. Len(list) /\ list'[k] = list[k]
              /\ k = p + 1 => list'[k] = n
              /\ k > p + 1 => k - 1 \in 1 .. Len(list) /\ list'[k] = list[k - 1]
  <2>1. CASE k <= p
    <3>1. k <= Len(most) /\ k \in 1 .. p /\ k \in 1 .. Len(list) /\ ~ (k = p + 1) /\ ~ (k > p + 1)
      BY <1>1, <1>10, <2>1
    <3> QED BY <1>10, <1>12, <1>13, <3>1
  <2>2. CASE k = p + 1
    BY <1>1, <1>10, <1>12, <1>13, <2>2
  <2>3. CASE k > p + 1
    <3>1. /\ ~ (k <= p + 1) /\ k - (p + 1) \in 1 .. Len(list) - p /\ p + (k - (p + 1)) = k - 1
          /\ k - 1 \in 1 .. Len(list) /\ ~ (k <= p) /\ ~ (k = p + 1)
      BY <1>1, <2>3
    <3>2. list'[k] = back[k - (p + 1)]
      BY <1>10, <1>12, <1>13, <3>1
    <3>3. back[k - (p + 1)] = list[k - 1]
      BY <1>6, <3>1
    <3> QED BY <3>1, <3>2, <3>3
  <2> QED BY <1>1, <2>1, <2>2, <2>3
<1>15. DOMAIN list' = 1 .. Len(list) + 1 /\ DOMAIN list = 1 .. Len(list) /\ Len(list') = Len(list) + 1
  BY <1>1, <1>12, <1>13
<1> QED BY <1>1, <1>2, <1>12, <1>14, <1>15

\* TxIn keeps the invariant: a new cell comes behind all that are not later.
LEMMA TxInKeeps == ASSUME Strong, NEW t \in Tx, TxIn(t) PROVE Strong'
<1> USE DEF Strong, IInv
<1>0. /\ UNCHANGED <<count, pc, batch, past, packNumber, isDone, subUser, chain, stage, clock, crashed>>
      /\ pc = "wait" /\ curSize # MaxSize /\ Len(tx) < MaxCells /\ in(t)
  BY DEF TxIn, run, flags
<1>1. past = 0
  BY <1>0 DEF RunInv, TypeOK
<1>n. PICK n : n = Len(tx) + 1
  OBVIOUS
<1>p. PICK p : p = Place(t)
  OBVIOUS
<1>2. /\ n \in Cell /\ Len(tx) \in Nat /\ tx' \in Seq(Tx) /\ Len(tx') = n /\ tx'[n] = t
      /\ \A c \in 1 .. Len(tx) : tx'[c] = tx[c] /\ c # n
      /\ p \in 0 .. Len(list) /\ list' \in Seq(Cell) /\ Len(list) \in Nat
      /\ Len(list') = Len(list) + 1
      /\ DOMAIN list' = 1 .. Len(list) + 1 /\ DOMAIN list = 1 .. Len(list)
      /\ \A k \in 1 .. Len(list) + 1 :
            /\ k <= p => k \in 1 .. Len(list) /\ list'[k] = list[k]
            /\ k = p + 1 => list'[k] = n
            /\ k > p + 1 => k - 1 \in 1 .. Len(list) /\ list'[k] = list[k - 1]
  BY <1>0, <1>n, <1>p, InList
<1>3. /\ p # 0 => StampAt(p) <= Stamp[t]
      /\ \A i \in p + 1 .. Len(list) : StampAt(i) > Stamp[t]
  BY <1>p, PlaceFits
<1>4. \A i \in 1 .. Len(list) : /\ list[i] \in 1 .. Len(tx) /\ tx'[list[i]] = tx[list[i]] /\ list[i] # n
                               /\ StampAt(i) \in Nat /\ StampAt(i) = Stamp[tx[list[i]]]
  BY <1>2, ListTyped DEF StampAt
<1>5. Stamp[t] \in Nat
  BY PoolAssumption
<1> DEFINE S(k) == Stamp[tx'[list'[k]]]
<1>s. \A k \in 1 .. Len(list) + 1 :
         /\ k <= p => k \in 1 .. Len(list) /\ list'[k] = list[k] /\ S(k) = StampAt(k)
         /\ k = p + 1 => list'[k] = n /\ S(k) = Stamp[t]
         /\ k > p + 1 => k - 1 \in 1 .. Len(list) /\ list'[k] = list[k - 1] /\ S(k) = StampAt(k - 1)
  <2> SUFFICES ASSUME NEW k \in 1 .. Len(list) + 1
               PROVE  /\ k <= p => k \in 1 .. Len(list) /\ list'[k] = list[k] /\ S(k) = StampAt(k)
                      /\ k = p + 1 => list'[k] = n /\ S(k) = Stamp[t]
                      /\ k > p + 1 => k - 1 \in 1 .. Len(list) /\ list'[k] = list[k - 1] /\ S(k) = StampAt(k - 1)
    OBVIOUS
  <2>1. ASSUME k <= p PROVE k \in 1 .. Len(list) /\ list'[k] = list[k] /\ S(k) = StampAt(k)
    <3>1. k \in 1 .. Len(list) /\ list'[k] = list[k]
      BY <1>2, <2>1
    <3> QED BY <1>4, <3>1
  <2>2. ASSUME k = p + 1 PROVE list'[k] = n /\ S(k) = Stamp[t]
    BY <1>2, <2>2
  <2>3. ASSUME k > p + 1 PROVE k - 1 \in 1 .. Len(list) /\ list'[k] = list[k - 1] /\ S(k) = StampAt(k - 1)
    <3>1. k - 1 \in 1 .. Len(list) /\ list'[k] = list[k - 1]
      BY <1>2, <2>3
    <3> QED BY <1>4, <3>1
  <2> QED BY <2>1, <2>2, <2>3
<1>o. ASSUME NEW k \in 1 .. Len(list), NEW l \in 1 .. Len(list), k < l
      PROVE  StampAt(k) <= StampAt(l) /\ list[k] # list[l]
  BY <1>2, <1>o DEF Sorted
<1>6. Sorted'
  <2> SUFFICES ASSUME NEW i \in 1 .. Len(list) + 1, NEW j \in 1 .. Len(list) + 1, i < j
               PROVE  S(i) <= S(j) /\ list'[i] # list'[j]
    BY <1>2 DEF Sorted, StampAt
  <2> HIDE DEF S
  <2>0. p \in Nat /\ Len(list) \in Nat /\ p <= Len(list)
    BY <1>2
  <2>2. CASE j <= p
    <3>1. i <= p /\ i \in 1 .. Len(list) /\ j \in 1 .. Len(list)
      BY <2>0, <2>2
    <3> QED BY <1>s, <1>o, <2>2, <3>1
  <2>3. CASE i > p + 1
    <3>1. j > p + 1 /\ i - 1 \in 1 .. Len(list) /\ j - 1 \in 1 .. Len(list) /\ i - 1 < j - 1
      BY <2>0, <2>3
    <3>2. StampAt(i - 1) <= StampAt(j - 1) /\ list[i - 1] # list[j - 1]
      BY <1>o, <3>1
    <3> QED BY <1>s, <2>3, <3>1, <3>2
  <2>4. CASE i <= p /\ j > p + 1
    <3>1. i \in 1 .. Len(list) /\ j - 1 \in 1 .. Len(list) /\ i < j - 1
      BY <2>0, <2>4
    <3>2. StampAt(i) <= StampAt(j - 1) /\ list[i] # list[j - 1]
      BY <1>o, <3>1
    <3> QED BY <1>s, <2>4, <3>2
  <2>5. CASE i <= p /\ j = p + 1
    <3>1. i \in 1 .. Len(list) /\ p \in 1 .. Len(list) /\ p # 0
      BY <2>0, <2>5
    <3>2. StampAt(p) <= Stamp[t]
      BY <1>3, <3>1
    <3>3. StampAt(i) <= Stamp[t]
      <4>1. CASE i = p
        BY <3>2, <4>1
      <4>2. CASE i < p
        <5>1. StampAt(i) <= StampAt(p) /\ StampAt(i) \in Nat /\ StampAt(p) \in Nat
          BY <1>o, <1>4, <3>1, <4>2
        <5> QED BY <1>5, <3>2, <5>1
      <4> QED BY <2>0, <2>5, <4>1, <4>2
    <3>4. list[i] # n
      BY <1>4, <3>1
    <3> QED BY <1>s, <2>5, <3>3, <3>4
  <2>6. CASE i = p + 1
    <3>1. j > p + 1 /\ j - 1 \in 1 .. Len(list) /\ j - 1 \in p + 1 .. Len(list)
      BY <2>0, <2>6
    <3>2. StampAt(j - 1) > Stamp[t] /\ StampAt(j - 1) \in Nat /\ list[j - 1] # n
      BY <1>3, <1>4, <3>1
    <3>3. Stamp[t] <= StampAt(j - 1)
      BY <1>5, <3>2
    <3> QED BY <1>s, <2>6, <3>1, <3>2, <3>3
  <2>7. i \in Int /\ j \in Int
    OBVIOUS
  <2>8. (j <= p) \/ (i > p + 1) \/ (i <= p /\ j > p + 1) \/ (i <= p /\ j = p + 1) \/ (i = p + 1)
    BY <2>0, <2>7
  <2> QED BY <2>2, <2>3, <2>4, <2>5, <2>6, <2>8
<1> HIDE DEF S
<1>7. /\ \A i \in 1 .. Len(list) : list[i] \in Members(list)'
      /\ n \in Members(list)'
      /\ \A c \in Members(list)' : c \in Members(list) \/ c = n
  <2>1. ASSUME NEW i \in 1 .. Len(list) PROVE \E k \in 1 .. Len(list) + 1 : list'[k] = list[i]
    <3>1. CASE i <= p
      BY <1>2, <3>1
    <3>2. CASE i > p
      <4>1. i + 1 \in 1 .. Len(list) + 1 /\ i + 1 > p + 1 /\ (i + 1) - 1 = i
        BY <1>2, <3>2
      <4> QED BY <1>2, <4>1
    <3> QED BY <1>2, <3>1, <3>2
  <2>2. p + 1 \in 1 .. Len(list) + 1 /\ list'[p + 1] = n
    BY <1>2
  <2>3. ASSUME NEW k \in 1 .. Len(list) + 1 PROVE list'[k] = n \/ \E i \in 1 .. Len(list) : list'[k] = list[i]
    <3>0. p \in Nat /\ Len(list) \in Nat
      BY <1>2
    <3>1. CASE k <= p
      <4>1. k \in 1 .. Len(list) /\ list'[k] = list[k]
        BY <1>2, <3>1
      <4> QED BY <4>1
    <3>2. CASE k = p + 1
      BY <1>2, <3>2
    <3>3. CASE k > p + 1
      <4>1. k - 1 \in 1 .. Len(list)
        BY <3>0, <3>3
      <4>2. list'[k] = list[k - 1]
        BY <1>2, <3>3
      <4> QED BY <4>1, <4>2
    <3>4. k <= p \/ k = p + 1 \/ k > p + 1
      BY <3>0
    <3> QED BY <3>1, <3>2, <3>3, <3>4
  <2>d. DOMAIN list' = 1 .. Len(list) + 1 /\ DOMAIN list = 1 .. Len(list)
    BY <1>2
  <2>4. \A i \in 1 .. Len(list) : list[i] \in Members(list)'
    BY <2>d, <2>1 DEF Members
  <2>5. n \in Members(list)'
    BY <2>d, <2>2 DEF Members
  <2>6. \A c \in Members(list)' : c \in Members(list) \/ c = n
    BY <2>d, <2>3 DEF Members
  <2> QED BY <2>4, <2>5, <2>6
<1>8. txMap' = [txMap EXCEPT ![t] = n] /\ curSize' = curSize + 1
  BY <1>0, <1>2 DEF in
<1>9. MapInList'
  <2> SUFFICES ASSUME NEW u \in Tx, txMap'[u] # 0 PROVE txMap'[u] \in Members(list)' /\ tx'[txMap'[u]] = u
    BY DEF MapInList
  <2>1. CASE u = t
    BY <1>2, <1>7, <1>8, <2>1 DEF TypeOK
  <2>2. CASE u # t
    <3>1. txMap'[u] = txMap[u]
      BY <1>8, <2>2 DEF TypeOK
    <3>2. txMap[u] \in Members(list) /\ tx[txMap[u]] = u
      BY <3>1 DEF MapInList
    <3>3. PICK i \in 1 .. Len(list) : list[i] = txMap[u]
      BY <1>2, <3>2 DEF Members
    <3> QED BY <1>4, <1>7, <3>1, <3>2, <3>3
  <2> QED BY <2>1, <2>2
<1>10. curSize' \in Int /\ curSize' <= MaxSize /\ NeverOverstates'
  BY <1>0, <1>1, <1>2, <1>8, PoolAssumption DEF TypeOK, NeverOverstates
<1>11. TypeOK'
  <2>1. txMap' \in [Tx -> Cell \cup {0}] /\ Len(tx') <= MaxCells
    BY <1>0, <1>2, <1>8, <1>n, PoolAssumption DEF TypeOK
  <2> QED BY <1>0, <1>2, <1>10, <2>1 DEF TypeOK
<1>12. \A i \in DOMAIN chain : \A c \in Members(chain[i].cells) : c \in 1 .. Len(tx) /\ c \notin Members(list)
  BY DEF CellsMade, ChainLeft
<1>13. \A c \in 1 .. Len(tx) : c # n /\ c # n + 1 /\ c \in 1 .. n
  BY <1>2, <1>n
<1>14. ChainLeft'
  <2> SUFFICES ASSUME NEW i \in DOMAIN chain, NEW c \in Members(chain[i].cells)
               PROVE  c \notin Members(list)' /\ c # n + 1
    BY <1>0, <1>2 DEF ChainLeft
  <2> QED BY <1>7, <1>12, <1>13
<1>15. CellsMade'
  <2>1. Members(list)' \subseteq 1 .. n
    BY <1>2, <1>7, <1>13, <1>n DEF CellsMade
  <2>2. \A i \in DOMAIN chain : Members(chain[i].cells) \subseteq 1 .. n
    BY <1>12, <1>13
  <2> QED BY <1>0, <1>2, <2>1, <2>2 DEF CellsMade
<1>16. BatchIsHead' /\ RunInv' /\ CountedAreOld' /\ BatchUnmapped'
  BY <1>0, <1>1 DEF BatchIsHead, RunInv, CountedAreOld, BatchUnmapped
<1>17. AppendedFirst' /\ OwnOnce'
  BY <1>0 DEF AppendedFirst, OwnOnce
<1> QED BY <1>6, <1>9, <1>10, <1>11, <1>14, <1>15, <1>16, <1>17

\* Every step does, and so does one that changes nothing.
LEMMA NextKeeps == ASSUME Strong, [CalmNext]_vars PROVE Strong'
<1>1. CASE UNCHANGED vars
  <2>1. /\ UNCHANGED <<list, tx, txMap, curSize, count, pc, batch, past, packNumber, chain, stage>>
        /\ UNCHANGED <<isDone, subUser, crashed, clock>>
    BY <1>1 DEF vars, queue, run, flags
  <2>2. TypeOK'
    BY <2>1 DEF Strong, IInv, TypeOK
  <2>3. CountedAreOld' /\ AppendedFirst'
    BY <2>1 DEF Strong, IInv, CountedAreOld, Old, AppendedFirst
  <2> QED BY <2>1, <2>2, <2>3, SameList, SameChain, SameRun DEF Strong, IInv
<1>2. CASE CalmNext
  BY <1>2, ScanKeeps, GoingOnKeeps, PackKeeps, OwnBlockKeeps, SpinKeeps, SpinDoneKeeps, TickKeeps,
     TxInKeeps, HandlerKeeps, OrdinaryRunKeeps, SettingKeeps DEF CalmNext, Keeper, Rest, Handler
<1> QED BY <1>1, <1>2

\* What the pool, its runs and the chain agree on holds in every state, however many
\* agreements of a run are won, lost or repeated and whatever handlers come in between
\* (bookKeeperRun, TxIn, DistributeDataBlock).
THEOREM Invariance == CalmSpec => []Strong
<1>1. Init => Strong
  BY InitHolds
<1>2. Strong /\ [CalmNext]_vars => Strong'
  BY NextKeeps
<1> QED BY <1>1, <1>2, PTL DEF CalmSpec

-----------------------------------------------------------------------------
(* What follows.                                                               *)

\* The list is sorted, txMap and the batch point into it, and curSize never counts more
\* than it holds (txpool_data.go in, out, bookKeeperRun).
THEOREM PoolIsConsistent == CalmSpec => []IInv
<1>1. Strong => IInv
  BY DEF Strong
<1> QED BY <1>1, Invariance, PTL

\* No cell is in two blocks of this node, or twice in one, although a batch may be
\* proposed again and again (bookKeeperRun).
THEOREM CellsOnce == CalmSpec => []OwnOnce
<1>1. Strong => OwnOnce
  BY DEF Strong
<1> QED BY <1>1, Invariance, PTL

\* What is proposed is two seconds old at least, whatever agreements were lost before
\* (bookKeeperRun's tspStand).
THEOREM ProposedIsOld == CalmSpec => []PackedAreOld
<1>1. ASSUME Strong PROVE PackedAreOld
  <2> SUFFICES ASSUME pc = "main", NEW c \in Members(batch) PROVE c # 0 /\ Old(c)
    BY DEF PackedAreOld
  <2>1. past > 0
    BY <1>1 DEF Strong, RunInv
  <2>2. PICK k \in 1 .. past : c = list[k] /\ k \in 1 .. count /\ k \in 1 .. Len(list)
    <3>1. /\ past \in Nat /\ past <= count /\ count \in Nat /\ DOMAIN batch = 1 .. past
          /\ \A k \in 1 .. past : batch[k] = list[k] /\ k \in 1 .. Len(list)
      BY <1>1, <2>1, BatchListed DEF Strong, IInv, TypeOK
    <3>2. PICK k \in 1 .. past : c = batch[k]
      BY <3>1 DEF Members
    <3>3. k \in 1 .. count
      BY <3>1
    <3> QED BY <3>1, <3>2, <3>3
  <2>3. Old(list[k])
    BY <1>1, <2>2 DEF Strong, IInv, CountedAreOld
  <2> QED BY <1>1, <2>2, <2>3, ListTyped DEF Strong, IInv
<1> QED BY <1>1, Invariance, PTL

\* But for the unlinking in the wait for another node's block, a transaction leaves the
\* list only when it is in the chain (bookKeeperRun, OrdinaryRun).
THEOREM NothingIsLost == CalmSpec => LeavesIntoChain
<1> DEFINE Step1 == pc # "spin" => \A c \in Members(list) \ Members(list') :
                                     \E i \in DOMAIN chain' : tx[c] \in chain'[i].txs
<1>1. ASSUME Strong, CalmNext PROVE Step1
  <2>1. CASE list' = list
    BY <2>1
  <2>2. CASE OwnBlock
    <3>1. /\ past > 0 /\ Mine \in Block /\ chain \in Seq(Block) /\ chain' = Append(chain, Mine)
          /\ DOMAIN batch = 1 .. past /\ \A k \in 1 .. past : batch[k] = list[k] /\ list[k] # 0
          /\ \A c \in Members(list) \ Members(list)' : \E k \in 1 .. past : list[k] = c
      <4>1. past > 0 /\ pc = "main" /\ chain \in Seq(Block)
        BY <1>1, <2>2 DEF OwnBlock, Goto, Strong, IInv, RunInv, TypeOK
      <4>2. UNCHANGED <<tx, txMap, curSize, clock, packNumber>> /\ Unlink /\ chain' = Append(chain, Mine)
        BY <2>2 DEF OwnBlock, flags
      <4>3. \A c \in Members(list) \ Members(list)' : \E k \in 1 .. past : list[k] = c
        BY <1>1, <4>1, <4>2, Unlinks
      <4> QED BY <1>1, <4>1, <4>2, <4>3, BatchListed, ListTyped DEF Strong, IInv
    <3>2. PICK new \in Block : new = Mine /\ new.txs = Named(batch)
      BY <3>1 DEF Mine
    <3>3. Len(chain) + 1 \in DOMAIN chain' /\ chain'[Len(chain) + 1] = new
      BY <3>1, <3>2
    <3>4. ASSUME NEW c \in Members(list) \ Members(list)' PROVE tx[c] \in Named(batch)
      BY <3>1 DEF Named, Members
    <3> QED BY <3>2, <3>3, <3>4
  <2>3. CASE \E b \in External : OrdinaryRun(b)
    <3>1. PICK b \in External : OrdinaryRun(b)
      BY <2>3
    <3>2. PICK i \in DOMAIN chain : chain[i].txs = Payload[b]
      BY <1>1, <3>1 DEF OrdinaryRun, Stage, Strong, AppendedFirst
    <3>3. CASE \E t \in Payload[b] : txMap[t] = 0
      BY <3>1, <3>3 DEF OrdinaryRun, out, queue
    <3>4. CASE \A t \in Payload[b] : txMap[t] # 0
      <4>1. list' = Without({txMap[t] : t \in Payload[b]}) /\ UNCHANGED <<tx, chain>>
        BY <3>1, <3>4 DEF OrdinaryRun, out
      <4>2. Payload[b] \in SUBSET Tx /\ IsFiniteSet(Payload[b])
        BY PoolAssumption
      <4>3. \A c \in Members(list) \ Members(list)' : \E t \in Payload[b] : txMap[t] = c /\ tx[c] = t
        BY <1>1, <3>4, <4>1, <4>2, OutLeaves
      <4> QED BY <3>2, <4>1, <4>3
    <3> QED BY <3>3, <3>4
  <2>4. CASE Spin
    BY <2>4 DEF Spin, Goto
  <2>5. CASE \E t \in Tx : TxIn(t)
    <3>1. PICK t \in Tx : TxIn(t)
      BY <2>5
    <3>2. PICK p : p = Place(t)
      OBVIOUS
    <3>3. PICK n : n = Len(tx) + 1
      OBVIOUS
    <3>4. /\ p \in 0 .. Len(list) /\ Len(list) \in Nat /\ DOMAIN list' = 1 .. Len(list) + 1
          /\ DOMAIN list = 1 .. Len(list)
          /\ \A k \in 1 .. Len(list) + 1 :
               /\ k <= p => k \in 1 .. Len(list) /\ list'[k] = list[k]
               /\ k > p + 1 => k - 1 \in 1 .. Len(list) /\ list'[k] = list[k - 1]
      BY <1>1, <3>1, <3>2, <3>3, InList DEF TxIn
    <3>5. ASSUME NEW i \in 1 .. Len(list) PROVE \E k \in 1 .. Len(list) + 1 : list'[k] = list[i]
      <4>1. CASE i <= p
        BY <3>4, <4>1
      <4>2. CASE i > p
        <5>1. i + 1 \in 1 .. Len(list) + 1 /\ i + 1 > p + 1 /\ (i + 1) - 1 = i
          BY <3>4, <4>2
        <5> QED BY <3>4, <5>1
      <4> QED BY <3>4, <4>1, <4>2
    <3>6. Members(list) \subseteq Members(list)'
      BY <3>4, <3>5 DEF Members
    <3> QED BY <3>6
  <2> QED BY <1>1, <2>1, <2>2, <2>3, <2>4, <2>5
         DEF CalmNext, Keeper, Rest, Handler, Scan, Enough, TooFew, NotSelected, Pack, OtherWins, NobodyWins,
             Lose, SpinDone, Tick, Arrive, CheckSub, Done, Setting, SetPackNumber, queue
<1>2. UNCHANGED vars => Step1
  BY DEF vars, queue
<1>3. Strong /\ [CalmNext]_vars => [Step1]_vars
  BY <1>1, <1>2
<1> QED BY <1>3, Invariance, PTL DEF CalmSpec, LeavesIntoChain
=============================================================================
