-------------------------- MODULE DataLedgerProofs --------------------------
(* Theorems about DataLedger, for every set of nodes, joiners and proposers, every
   set of lists of transactions as payloads, interval of seeds and number of blocks.  *)
EXTENDS DataLedger, WellFoundedInduction, SequenceTheorems, TLAPS

-----------------------------------------------------------------------------
(* What has to be known besides the properties to prove them.                  *)

\* A block was made after the one it is linked to, and has the root of its payload;
\* its round is the next one if its author's tail did not move meanwhile.
MadeOf(b) ==
    /\ made[b].prev < b /\ made[b].root = GetMerkleRoot(made[b].payload)
    /\ b \notin raced => made[b].round = RoundOf(made[b].prev) + 1
MadeInOrder == \A b \in 1 .. Len(made) : MadeOf(b)

\* A proposal has read what its node holds, and while the tail has not moved that is
\* the round and the link of the tail.
Reads(n) ==
    /\ draft[n].prev \in store[n] /\ 0 \in store[n]
    /\ at[n] \in {"seed", "init", "agree"} /\ n \notin moved => draft[n].round = Last(n) + 1
    /\ at[n] = "agree" /\ n \notin moved => draft[n].prev = tail[n]

\* Nodes list members only, and send a block to nodes of their list.
Lists(n) ==
    /\ known[n] \subseteq Member /\ (phase[n] = "out" => known[n] = {})
    /\ serving[n] \subseteq Others(n) /\ (serving[n] # {} => queue[n] # <<>>)

\* A node that was in step when it synchronised has every block or will, but for those its
\* author did not send it; one that is to synchronise yet has none but its own.
Everything(n) ==
    n \notin early =>
        /\ phase[n] \in {"append", "in"} => \A b \in Block : b \in store[n] \cup Coming(n) \/ <<n, b>> \in unsent
        /\ phase[n] \in {"out", "joined"} => \A b \in store[n] \ {0} : made[b].prev \in store[n]

\* While blocks are made one after the other, each is linked to the one before it.
LinkedTo(b) == made[b].prev = b - 1 /\ made[b].round = b
AllLinked == \A b \in 1 .. Len(made) : LinkedTo(b)

\* A queue ends with the newest block.
NewestLast(n) == queue[n] # <<>> => queue[n][Len(queue[n])] = Len(made)

\* A node that was sent every block, and to which nothing is on its way, has the newest block
\* as its tail, or as the last one of the answer.
NothingFor(n) == \A m \in Node, b \in Block : <<n, b>> \notin Pending(m)
NewestHere(n) ==
    n \notin early \cup crossed /\ Reached(n) /\ NothingFor(n) =>
        /\ phase[n] = "in" => tail[n] = Len(made)
        /\ phase[n] = "append" => IF answer[n] = {} THEN tail[n] = Len(made) ELSE Len(made) \in answer[n]
OneByOne == AllLinked /\ \A n \in Node : NewestLast(n) /\ NewestHere(n)

\* The blocks behind the tail of a node reach the genesis block without a hole; who ended
\* over a seed did not have that, or did not read one tail.
Whole(n) ==
    \E X \in SUBSET store[n] : tail[n] \in X /\ \A b \in X \ {0} : made[b].prev \in X
Excused(n) == n \in seedless => n \in moved \/ raced # {} \/ ~ Whole(n)

IInv ==
    /\ TypeOK /\ MadeInOrder
    /\ \A n \in Node : Reads(n) /\ Lists(n) /\ Everything(n) /\ Excused(n)
    /\ ~ lagging /\ ~ mixed => OneByOne

-----------------------------------------------------------------------------
(* Numbers and blocks.                                                         *)

\* A set of numbers that is not empty has a least member: what stands for induction
\* along the links, which lead to blocks made before.
LEMMA Least ==
  ASSUME NEW T \in SUBSET Nat, T # {} PROVE \E x \in T : \A y \in T : x <= y
<1> DEFINE Before == {p \in Nat \X Nat : p[1] < p[2]}
<1>1. OpToRel(<, Nat) = Before
  BY DEF OpToRel
<1>2. IsWellFoundedOn(Before, Nat)
  BY <1>1, NatLessThanWellFounded
<1>3. \E x \in T : \A y \in T : ~ (<<y, x>> \in Before)
  <2> HIDE DEF Before
  <2> QED BY <1>2, WFMin
<1>4. \A x, y \in Nat : ~ (<<y, x>> \in Before) => x <= y
  OBVIOUS
<1> QED BY <1>3, <1>4

\* So a set with 0 and with the successor of each of its members holds every number, ...
LEMMA Induct ==
  ASSUME NEW T, 0 \in T, \A n \in Nat : n \in T => n + 1 \in T
  PROVE  Nat \subseteq T
<1> SUFFICES ASSUME Nat \ T # {} PROVE FALSE
  OBVIOUS
<1>1. PICK x \in Nat \ T : \A y \in Nat \ T : x <= y
  <2> DEFINE U == Nat \ T
  <2>1. U \in SUBSET Nat /\ U # {}
    OBVIOUS
  <2> HIDE DEF U
  <2>2. \E x \in U : \A y \in U : x <= y
    BY <2>1, Least
  <2> QED BY <2>2 DEF U
<1>2. x # 0 /\ x - 1 \in Nat /\ ~ (x <= x - 1) /\ (x - 1) + 1 = x
  BY <1>1
<1>3. x - 1 \in T
  BY <1>1, <1>2
<1> QED BY <1>1, <1>2, <1>3

\* ... and one that holds a number once it holds the smaller ones.
LEMMA Downward ==
  ASSUME NEW T, NEW k \in Nat, \A b \in 0 .. k : (\A c \in 0 .. b - 1 : c \in T) => b \in T
  PROVE  \A b \in 0 .. k : b \in T
<1> SUFFICES ASSUME (0 .. k) \ T # {} PROVE FALSE
  OBVIOUS
<1>1. PICK x \in (0 .. k) \ T : \A y \in (0 .. k) \ T : x <= y
  <2> DEFINE U == (0 .. k) \ T
  <2>1. U \in SUBSET Nat /\ U # {}
    OBVIOUS
  <2> HIDE DEF U
  <2>2. \E x \in U : \A y \in U : x <= y
    BY <2>1, Least
  <2> QED BY <2>2 DEF U
<1>2. \A c \in 0 .. x - 1 : c \in 0 .. k /\ ~ (x <= c)
  BY <1>1
<1>3. \A c \in 0 .. x - 1 : c \in T
  BY <1>1, <1>2
<1> QED BY <1>1, <1>3

\* Blocks are numbers, and a link leads to an earlier one; none leads away from the genesis block.
LEMMA BlockIs ==
  ASSUME TypeOK
  PROVE  /\ Len(made) \in Nat /\ Block = 0 .. Len(made) /\ DOMAIN made = 1 .. Len(made)
         /\ \A b \in Block : b = 0 \/ b \in 1 .. Len(made)
         /\ \A b \in 1 .. Len(made) : b # 0 /\ b \in Block /\ made[b] \in DataBlock
                                     /\ made[b].prev \in Nat /\ made[b].round \in Nat
         /\ \A n \in Node : store[n] \subseteq Block /\ tail[n] \in Block /\ tail[n] \in store[n]
<1>1. made \in Seq(DataBlock)
  BY DEF TypeOK
<1>2. Len(made) \in Nat /\ DOMAIN made = 1 .. Len(made) /\ \A b \in 1 .. Len(made) : made[b] \in DataBlock
  BY <1>1
<1>3. \A x \in DataBlock : x.prev \in Nat /\ x.round \in Nat
  BY DEF DataBlock
<1> QED BY <1>2, <1>3 DEF Block, TypeOK

LEMMA NothingBeforeGenesis ==
  ASSUME TypeOK, NEW n \in Node PROVE PrevOf(0) \notin store[n]
BY BlockIs DEF PrevOf

LEMMA PrevEarlier ==
  ASSUME TypeOK, MadeInOrder, NEW b \in Block, NEW n \in Node
  PROVE  /\ b \in 1 .. Len(made) => PrevOf(b) = made[b].prev /\ PrevOf(b) \in 0 .. b - 1
         /\ PrevOf(b) \notin store[n] \/ (b \in 1 .. Len(made) /\ PrevOf(b) \in 0 .. b - 1)
<1>1. b \in 1 .. Len(made) => PrevOf(b) = made[b].prev /\ PrevOf(b) \in 0 .. b - 1
  BY BlockIs DEF PrevOf, MadeInOrder, MadeOf
<1>2. b = 0 => PrevOf(b) \notin store[n]
  BY NothingBeforeGenesis
<1> QED BY <1>1, <1>2, BlockIs

\* What the walks back from the first blocks meet is among these.
LEMMA Within ==
  ASSUME TypeOK, MadeInOrder, NEW m \in Nat, m + 1 <= Len(made), NEW b \in 0 .. m + 1, NEW n \in Node
  PROVE  PrevOf(b) \notin store[n] \/ PrevOf(b) \in 0 .. m
<1>1. b \in Block
  BY BlockIs
<1>2. PrevOf(b) \notin store[n] \/ PrevOf(b) \in 0 .. b - 1
  BY <1>1, PrevEarlier
<1>3. \A c \in 0 .. b - 1 : c \in 0 .. m
  OBVIOUS
<1> QED BY <1>2, <1>3

-----------------------------------------------------------------------------
(* The walks back along the links can be taken from every block.               *)

LineAt(g, n, b) == {b} \cup (IF PrevOf(b) \in store[n] THEN g[PrevOf(b)] ELSE {})
FoundAt(g, n, r, b) ==
    IF RoundOf(b) = r THEN b
    ELSE IF PrevOf(b) \notin store[n] THEN Missing
    ELSE IF RoundOf(PrevOf(b)) = 1 THEN NotFound
    ELSE g[PrevOf(b)]
BackAt(g, s, stop, b) ==
    IF b = stop THEN {} ELSE IF PrevOf(b) \in store[s] THEN {b} \cup g[PrevOf(b)] ELSE {Missing}

\* That of the iterator, as Line collects it; ...
LEMMA LineExists ==
  ASSUME TypeOK, MadeInOrder, NEW n \in Node, NEW k \in Nat, k <= Len(made)
  PROVE  \E g : g = [b \in 0 .. k |-> LineAt(g, n, b)]
<1> DEFINE T == {m \in Nat : m <= Len(made) => \E g : g = [b \in 0 .. m |-> LineAt(g, n, b)]}
<1>1. 0 \in T
  <2>1. PrevOf(0) \notin store[n]
    BY NothingBeforeGenesis
  <2> DEFINE g == [b \in 0 .. 0 |-> LineAt(<<>>, n, b)]
  <2>2. \A b \in 0 .. 0 : b = 0
    OBVIOUS
  <2>3. \A b \in 0 .. 0 : LineAt(<<>>, n, b) = LineAt(g, n, b)
    <3> HIDE DEF g
    <3> QED BY <2>1, <2>2 DEF LineAt
  <2>4. g = [b \in 0 .. 0 |-> LineAt(g, n, b)]
    BY <2>3
  <2> QED BY <2>4
<1>2. ASSUME NEW m \in Nat, m \in T PROVE m + 1 \in T
  <2> SUFFICES ASSUME m + 1 <= Len(made) PROVE \E g : g = [b \in 0 .. m + 1 |-> LineAt(g, n, b)]
    OBVIOUS
  <2>0. Len(made) \in Nat /\ m <= Len(made)
    BY DEF TypeOK
  <2>1. PICK g : g = [b \in 0 .. m |-> LineAt(g, n, b)]
    BY <1>2, <2>0
  <2> DEFINE h == [b \in 0 .. m + 1 |-> IF b = m + 1 THEN LineAt(g, n, m + 1) ELSE g[b]]
  <2>2. ASSUME NEW b \in 0 .. m + 1 PROVE h[b] = LineAt(h, n, b)
    <3>1. PrevOf(b) \notin store[n] \/ PrevOf(b) \in 0 .. m
      BY <2>0, Within
    <3>2. PrevOf(b) \in 0 .. m => h[PrevOf(b)] = g[PrevOf(b)]
      OBVIOUS
    <3>3. CASE b = m + 1
      <4>1. h[b] = LineAt(g, n, b)
        BY <3>3
      <4> HIDE DEF h
      <4> QED BY <3>1, <3>2, <4>1 DEF LineAt
    <3>4. CASE b \in 0 .. m
      <4>1. h[b] = g[b]
        BY <3>4
      <4>2. g[b] = LineAt(g, n, b)
        BY <2>1, <3>4
      <4> HIDE DEF h
      <4> QED BY <3>1, <3>2, <4>1, <4>2 DEF LineAt
    <3> QED BY <3>3, <3>4
  <2>3. h = [b \in 0 .. m + 1 |-> h[b]]
    OBVIOUS
  <2>4. h = [b \in 0 .. m + 1 |-> LineAt(h, n, b)]
    <3> HIDE DEF h
    <3> QED BY <2>2, <2>3
  <2> QED BY <2>4
<1>3. Nat \subseteq T
  <2> HIDE DEF T
  <2> QED BY <1>1, <1>2, Induct
<1> QED BY <1>3

\* ... that of GetByRound; ...
LEMMA FoundExists ==
  ASSUME TypeOK, MadeInOrder, NEW n \in Node, NEW r, NEW k \in Nat, k <= Len(made)
  PROVE  \E g : g = [b \in 0 .. k |-> FoundAt(g, n, r, b)]
<1> DEFINE T == {m \in Nat : m <= Len(made) => \E g : g = [b \in 0 .. m |-> FoundAt(g, n, r, b)]}
<1>1. 0 \in T
  <2>1. PrevOf(0) \notin store[n]
    BY NothingBeforeGenesis
  <2> DEFINE g == [b \in 0 .. 0 |-> FoundAt(<<>>, n, r, b)]
  <2>2. \A b \in 0 .. 0 : b = 0
    OBVIOUS
  <2>3. \A b \in 0 .. 0 : FoundAt(<<>>, n, r, b) = FoundAt(g, n, r, b)
    <3> HIDE DEF g
    <3> QED BY <2>1, <2>2 DEF FoundAt
  <2>4. g = [b \in 0 .. 0 |-> FoundAt(g, n, r, b)]
    BY <2>3
  <2> QED BY <2>4
<1>2. ASSUME NEW m \in Nat, m \in T PROVE m + 1 \in T
  <2> SUFFICES ASSUME m + 1 <= Len(made) PROVE \E g : g = [b \in 0 .. m + 1 |-> FoundAt(g, n, r, b)]
    OBVIOUS
  <2>0. Len(made) \in Nat /\ m <= Len(made)
    BY DEF TypeOK
  <2>1. PICK g : g = [b \in 0 .. m |-> FoundAt(g, n, r, b)]
    BY <1>2, <2>0
  <2> DEFINE h == [b \in 0 .. m + 1 |-> IF b = m + 1 THEN FoundAt(g, n, r, m + 1) ELSE g[b]]
  <2>2. ASSUME NEW b \in 0 .. m + 1 PROVE h[b] = FoundAt(h, n, r, b)
    <3>1. PrevOf(b) \notin store[n] \/ PrevOf(b) \in 0 .. m
      BY <2>0, Within
    <3>2. PrevOf(b) \in 0 .. m => h[PrevOf(b)] = g[PrevOf(b)]
      OBVIOUS
    <3>3. CASE b = m + 1
      <4>1. h[b] = FoundAt(g, n, r, b)
        BY <3>3
      <4> HIDE DEF h
      <4> QED BY <3>1, <3>2, <4>1 DEF FoundAt
    <3>4. CASE b \in 0 .. m
      <4>1. h[b] = g[b]
        BY <3>4
      <4>2. g[b] = FoundAt(g, n, r, b)
        BY <2>1, <3>4
      <4> HIDE DEF h
      <4> QED BY <3>1, <3>2, <4>1, <4>2 DEF FoundAt
    <3> QED BY <3>3, <3>4
  <2>3. h = [b \in 0 .. m + 1 |-> h[b]]
    OBVIOUS
  <2>4. h = [b \in 0 .. m + 1 |-> FoundAt(h, n, r, b)]
    <3> HIDE DEF h
    <3> QED BY <2>2, <2>3
  <2> QED BY <2>4
<1>3. Nat \subseteq T
  <2> HIDE DEF T
  <2> QED BY <1>1, <1>2, Induct
<1> QED BY <1>3

\* ... and that of DataBlockSynchronization.
LEMMA BackExists ==
  ASSUME TypeOK, MadeInOrder, NEW s \in Node, NEW stop, NEW k \in Nat, k <= Len(made)
  PROVE  \E g : g = [b \in 0 .. k |-> BackAt(g, s, stop, b)]
<1> DEFINE T == {m \in Nat : m <= Len(made) => \E g : g = [b \in 0 .. m |-> BackAt(g, s, stop, b)]}
<1>1. 0 \in T
  <2>1. PrevOf(0) \notin store[s]
    BY NothingBeforeGenesis
  <2> DEFINE g == [b \in 0 .. 0 |-> BackAt(<<>>, s, stop, b)]
  <2>2. \A b \in 0 .. 0 : b = 0
    OBVIOUS
  <2>3. \A b \in 0 .. 0 : BackAt(<<>>, s, stop, b) = BackAt(g, s, stop, b)
    <3> HIDE DEF g
    <3> QED BY <2>1, <2>2 DEF BackAt
  <2>4. g = [b \in 0 .. 0 |-> BackAt(g, s, stop, b)]
    BY <2>3
  <2> QED BY <2>4
<1>2. ASSUME NEW m \in Nat, m \in T PROVE m + 1 \in T
  <2> SUFFICES ASSUME m + 1 <= Len(made) PROVE \E g : g = [b \in 0 .. m + 1 |-> BackAt(g, s, stop, b)]
    OBVIOUS
  <2>0. Len(made) \in Nat /\ m <= Len(made)
    BY DEF TypeOK
  <2>1. PICK g : g = [b \in 0 .. m |-> BackAt(g, s, stop, b)]
    BY <1>2, <2>0
  <2> DEFINE h == [b \in 0 .. m + 1 |-> IF b = m + 1 THEN BackAt(g, s, stop, m + 1) ELSE g[b]]
  <2>2. ASSUME NEW b \in 0 .. m + 1 PROVE h[b] = BackAt(h, s, stop, b)
    <3>1. PrevOf(b) \notin store[s] \/ PrevOf(b) \in 0 .. m
      BY <2>0, Within
    <3>2. PrevOf(b) \in 0 .. m => h[PrevOf(b)] = g[PrevOf(b)]
      OBVIOUS
    <3>3. CASE b = m + 1
      <4>1. h[b] = BackAt(g, s, stop, b)
        BY <3>3
      <4> HIDE DEF h
      <4> QED BY <3>1, <3>2, <4>1 DEF BackAt
    <3>4. CASE b \in 0 .. m
      <4>1. h[b] = g[b]
        BY <3>4
      <4>2. g[b] = BackAt(g, s, stop, b)
        BY <2>1, <3>4
      <4> HIDE DEF h
      <4> QED BY <3>1, <3>2, <4>1, <4>2 DEF BackAt
    <3> QED BY <3>3, <3>4
  <2>3. h = [b \in 0 .. m + 1 |-> h[b]]
    OBVIOUS
  <2>4. h = [b \in 0 .. m + 1 |-> BackAt(h, s, stop, b)]
    <3> HIDE DEF h
    <3> QED BY <2>2, <2>3
  <2> QED BY <2>4
<1>3. Nat \subseteq T
  <2> HIDE DEF T
  <2> QED BY <1>1, <1>2, Induct
<1> QED BY <1>3

\* Line is the walk LineAt describes, ...
LEMMA LineIs ==
  ASSUME TypeOK, MadeInOrder, NEW n \in Node
  PROVE  \E g : g = [b \in Block |-> LineAt(g, n, b)] /\ Line(n) = g[tail[n]]
<1> DEFINE G == CHOOSE g : g = [b \in Block |-> LineAt(g, n, b)]
<1>1. \E g : g = [b \in Block |-> LineAt(g, n, b)]
  <2>1. Len(made) \in Nat /\ Len(made) <= Len(made) /\ Block = 0 .. Len(made)
    BY BlockIs
  <2>2. \E g : g = [b \in 0 .. Len(made) |-> LineAt(g, n, b)]
    BY <2>1, LineExists
  <2> QED BY <2>1, <2>2
<1>2. G = [b \in Block |-> LineAt(G, n, b)]
  BY <1>1
<1>3. Line(n) = G[tail[n]]
  BY DEF Line, LineAt
<1> QED BY <1>2, <1>3

\* ... GetByRound the one of FoundAt, ...
LEMMA FoundIs ==
  ASSUME TypeOK, MadeInOrder, NEW n \in Node, NEW r
  PROVE  \E g : /\ g = [b \in Block |-> FoundAt(g, n, r, b)]
                /\ GetByRound(n, r) = IF Last(n) < r THEN NotFound ELSE g[tail[n]]
<1> DEFINE G == CHOOSE g : g = [b \in Block |-> FoundAt(g, n, r, b)]
<1>1. \E g : g = [b \in Block |-> FoundAt(g, n, r, b)]
  <2>1. Len(made) \in Nat /\ Len(made) <= Len(made) /\ Block = 0 .. Len(made)
    BY BlockIs
  <2>2. \E g : g = [b \in 0 .. Len(made) |-> FoundAt(g, n, r, b)]
    BY <2>1, FoundExists
  <2> QED BY <2>1, <2>2
<1>2. G = [b \in Block |-> FoundAt(G, n, r, b)]
  BY <1>1
<1>3. GetByRound(n, r) = IF Last(n) < r THEN NotFound ELSE G[tail[n]]
  BY DEF GetByRound, FoundAt
<1> QED BY <1>2, <1>3

\* ... and Back that of BackAt.
LEMMA BackIs ==
  ASSUME TypeOK, MadeInOrder, NEW s \in Node, NEW stop
  PROVE  \E g : g = [b \in Block |-> BackAt(g, s, stop, b)] /\ Back(s, stop) = g[tail[s]]
<1> DEFINE G == CHOOSE g : g = [b \in Block |-> BackAt(g, s, stop, b)]
<1>1. \E g : g = [b \in Block |-> BackAt(g, s, stop, b)]
  <2>1. Len(made) \in Nat /\ Len(made) <= Len(made) /\ Block = 0 .. Len(made)
    BY BlockIs
  <2>2. \E g : g = [b \in 0 .. Len(made) |-> BackAt(g, s, stop, b)]
    BY <2>1, BackExists
  <2> QED BY <2>1, <2>2
<1>2. G = [b \in Block |-> BackAt(G, s, stop, b)]
  BY <1>1
<1>3. Back(s, stop) = G[tail[s]]
  BY DEF Back, BackAt
<1> QED BY <1>2, <1>3

\* A synchronisation is answered with blocks, unless one is missing.
LEMMA BackIsBlocks ==
  ASSUME TypeOK, MadeInOrder, NEW s \in Node, NEW stop PROVE Back(s, stop) \subseteq Block \cup {Missing}
<1>1. PICK g : g = [b \in Block |-> BackAt(g, s, stop, b)] /\ Back(s, stop) = g[tail[s]]
  BY BackIs
<1> DEFINE T == {b \in Block : g[b] \subseteq Block \cup {Missing}}
<1>2. ASSUME NEW b \in Block, \A c \in 0 .. b - 1 : c \in T PROVE b \in T
  <2>1. g[b] = BackAt(g, s, stop, b)
    BY <1>1
  <2>2. PrevOf(b) \in store[s] => g[PrevOf(b)] \subseteq Block \cup {Missing}
    BY <1>2, PrevEarlier
  <2> QED BY <2>1, <2>2 DEF BackAt
<1>3. \A b \in Block : b \in T
  <2> HIDE DEF T
  <2> QED BY <1>2, BlockIs, Downward
<1> QED BY <1>1, <1>3, BlockIs

\* The blocks behind the tail are in the store, and the line ends only where one is missing.
LEMMA LineOfStore ==
  ASSUME TypeOK, MadeInOrder, NEW n \in Node
  PROVE  /\ tail[n] \in Line(n) /\ Line(n) \subseteq store[n]
         /\ \A b \in Line(n) : PrevOf(b) \in store[n] => PrevOf(b) \in Line(n)
<1>1. PICK g : g = [b \in Block |-> LineAt(g, n, b)] /\ Line(n) = g[tail[n]]
  BY LineIs
<1> DEFINE Good(b) == /\ b \in g[b] /\ g[b] \subseteq store[n]
                      /\ \A c \in g[b] : PrevOf(c) \in store[n] => PrevOf(c) \in g[b]
<1> DEFINE T == {b \in Block : b \in store[n] => Good(b)}
<1>2. ASSUME NEW b \in Block, \A c \in 0 .. b - 1 : c \in T PROVE b \in T
  <2> SUFFICES ASSUME b \in store[n] PROVE Good(b)
    OBVIOUS
  <2>1. g[b] = {b} \cup (IF PrevOf(b) \in store[n] THEN g[PrevOf(b)] ELSE {})
    BY <1>1 DEF LineAt
  <2>2. PrevOf(b) \in store[n] => Good(PrevOf(b))
    BY <1>2, PrevEarlier
  <2> QED BY <2>1, <2>2
<1>3. \A b \in Block : b \in T
  <2> HIDE DEF T
  <2> QED BY <1>2, BlockIs, Downward
<1> QED BY <1>1, <1>3, BlockIs

\* The rounds of blocks.
LEMMA RoundIs ==
  ASSUME TypeOK, MadeInOrder, NEW b \in Block
  PROVE  /\ RoundOf(b) \in Nat /\ (b = 0 => RoundOf(b) = 0)
         /\ (b # 0 /\ raced = {} => RoundOf(b) = RoundOf(PrevOf(b)) + 1)
<1>1. b # 0 => b \in 1 .. Len(made)
  BY BlockIs
<1> QED BY <1>1, BlockIs DEF RoundOf, PrevOf, MadeInOrder, MadeOf

\* Back along the links the rounds get smaller.
LEMMA RoundsFall ==
  ASSUME TypeOK, MadeInOrder, raced = {}, NEW n \in Node,
         NEW g, g = [b \in Block |-> LineAt(g, n, b)]
  PROVE  \A b \in Block : \A c \in g[b] : c \in Block /\ (c = b \/ RoundOf(c) < RoundOf(b))
<1> DEFINE T == {b \in Block : \A c \in g[b] : c \in Block /\ (c = b \/ RoundOf(c) < RoundOf(b))}
<1>2. ASSUME NEW b \in Block, \A c \in 0 .. b - 1 : c \in T PROVE b \in T
  <2>1. g[b] = {b} \cup (IF PrevOf(b) \in store[n] THEN g[PrevOf(b)] ELSE {})
    BY DEF LineAt
  <2>2. SUFFICES ASSUME NEW c \in g[b], c # b PROVE c \in Block /\ RoundOf(c) < RoundOf(b)
    OBVIOUS
  <2>3. PrevOf(b) \in store[n] /\ c \in g[PrevOf(b)]
    BY <2>1, <2>2
  <2>4. b # 0 /\ PrevOf(b) \in T
    BY <1>2, <2>3, PrevEarlier
  <2>5. c \in Block /\ (c = PrevOf(b) \/ RoundOf(c) < RoundOf(PrevOf(b)))
    BY <2>3, <2>4
  <2>6. RoundOf(b) = RoundOf(PrevOf(b)) + 1 /\ RoundOf(PrevOf(b)) \in Nat /\ RoundOf(c) \in Nat
    <3>1. PrevOf(b) \in Block
      BY <2>4
    <3> QED BY <2>4, <2>5, <3>1, RoundIs
  <2> QED BY <2>5, <2>6
<1>3. \A b \in Block : b \in T
  <2> HIDE DEF T
  <2> QED BY <1>2, BlockIs, Downward
<1> QED BY <1>3

-----------------------------------------------------------------------------
(* What the invariant says of the properties.                                  *)

\* A walk back to round r ends with the only block of that round that it meets.
LEMMA FoundOnLine ==
  ASSUME TypeOK, MadeInOrder, raced = {}, NEW n \in Node, NEW r \in Nat, r >= 2,
         NEW g, g = [b \in Block |-> LineAt(g, n, b)],
         NEW f, f = [b \in Block |-> FoundAt(f, n, r, b)]
  PROVE  \A b \in Block : \A c \in g[b] : RoundOf(c) = r => f[b] = c
<1> DEFINE T == {b \in Block : \A c \in g[b] : RoundOf(c) = r => f[b] = c}
<1>1. ASSUME NEW b \in Block, \A c \in 0 .. b - 1 : c \in T PROVE b \in T
  <2>1. SUFFICES ASSUME NEW c \in g[b], RoundOf(c) = r PROVE f[b] = c
    OBVIOUS
  <2>2. g[b] = {b} \cup (IF PrevOf(b) \in store[n] THEN g[PrevOf(b)] ELSE {})
    BY DEF LineAt
  <2>3. f[b] = FoundAt(f, n, r, b)
    OBVIOUS
  <2>4. CASE c = b
    BY <2>1, <2>3, <2>4 DEF FoundAt
  <2>5. CASE c # b
    <3>1. PrevOf(b) \in store[n] /\ c \in g[PrevOf(b)]
      BY <2>1, <2>2, <2>5
    <3>2. PrevOf(b) \in T /\ PrevOf(b) \in Block
      BY <1>1, <3>1, PrevEarlier
    <3>3. f[PrevOf(b)] = c
      BY <2>1, <3>1, <3>2
    <3>4. RoundOf(b) # r
      <4>1. c \in Block /\ RoundOf(c) < RoundOf(b)
        BY <2>1, <2>5, RoundsFall
      <4>2. RoundOf(b) \in Nat
        BY RoundIs
      <4> QED BY <2>1, <4>1, <4>2
    <3>5. RoundOf(PrevOf(b)) # 1
      <4>1. c = PrevOf(b) \/ RoundOf(c) < RoundOf(PrevOf(b))
        BY <3>1, <3>2, RoundsFall
      <4>2. RoundOf(PrevOf(b)) \in Nat
        BY <3>2, RoundIs
      <4> QED BY <2>1, <4>1, <4>2
    <3> QED BY <2>3, <3>1, <3>3, <3>4, <3>5 DEF FoundAt
  <2> QED BY <2>4, <2>5
<1>2. \A b \in Block : b \in T
  <2> HIDE DEF T
  <2> QED BY <1>1, BlockIs, Downward
<1> QED BY <1>2

LEMMA FindsRoundHolds ==
  ASSUME LedgerAssumption, TypeOK, MadeInOrder PROVE FindsRound
<1> SUFFICES ASSUME NEW n \in Node, NEW r \in 2 .. MaxBlocks, raced = {},
                    NEW c \in Line(n), RoundOf(c) = r
             PROVE  GetByRound(n, r) = c
  BY DEF FindsRound
<1>0. r \in Nat /\ r >= 2
  BY DEF LedgerAssumption
<1>1. PICK g : g = [b \in Block |-> LineAt(g, n, b)] /\ Line(n) = g[tail[n]]
  BY LineIs
<1>2. PICK f : /\ f = [b \in Block |-> FoundAt(f, n, r, b)]
               /\ GetByRound(n, r) = IF Last(n) < r THEN NotFound ELSE f[tail[n]]
  BY FoundIs
<1>3. tail[n] \in Block
  BY BlockIs
<1>4. f[tail[n]] = c
  BY <1>0, <1>1, <1>2, <1>3, FoundOnLine
<1>5. ~ (Last(n) < r)
  <2>1. c = tail[n] \/ RoundOf(c) < Last(n)
    BY <1>1, <1>3, RoundsFall DEF Last
  <2>2. Last(n) \in Nat
    BY <1>3, RoundIs DEF Last
  <2> QED BY <1>0, <2>1, <2>2 DEF Last
<1> QED BY <1>2, <1>4, <1>5

\* Where no block is missing every round from the second on is found.
LEMMA WholeFinds ==
  ASSUME TypeOK, MadeInOrder, raced = {}, NEW n \in Node, Whole(n), NEW r \in Nat, r >= 2, r <= Last(n)
  PROVE  GetByRound(n, r) >= 0
<1>1. PICK X \in SUBSET store[n] : tail[n] \in X /\ \A b \in X \ {0} : made[b].prev \in X
  BY DEF Whole
<1>2. PICK f : /\ f = [b \in Block |-> FoundAt(f, n, r, b)]
               /\ GetByRound(n, r) = IF Last(n) < r THEN NotFound ELSE f[tail[n]]
  BY FoundIs
<1> DEFINE T == {b \in Block : b \in X /\ r <= RoundOf(b) => f[b] \in Block}
<1>3. ASSUME NEW b \in Block, \A c \in 0 .. b - 1 : c \in T PROVE b \in T
  <2>1. SUFFICES ASSUME b \in X, r <= RoundOf(b) PROVE f[b] \in Block
    OBVIOUS
  <2>2. f[b] = FoundAt(f, n, r, b)
    BY <1>2
  <2>3. CASE RoundOf(b) = r
    BY <2>2, <2>3 DEF FoundAt
  <2>4. CASE RoundOf(b) # r
    <3>1. b # 0 /\ RoundOf(b) \in Nat /\ RoundOf(b) = RoundOf(PrevOf(b)) + 1
      BY <2>1, RoundIs
    <3>2. PrevOf(b) = made[b].prev /\ PrevOf(b) \in 0 .. b - 1
      BY <3>1, BlockIs, PrevEarlier
    <3>3. PrevOf(b) \in X /\ PrevOf(b) \in store[n]
      BY <1>1, <2>1, <3>1, <3>2
    <3>4. PrevOf(b) \in T /\ PrevOf(b) \in Block
      BY <1>3, <3>2
    <3>5. RoundOf(PrevOf(b)) \in Nat
      BY <3>4, RoundIs
    <3>6. r <= RoundOf(PrevOf(b)) /\ RoundOf(PrevOf(b)) # 1
      BY <2>1, <2>4, <3>1, <3>5
    <3>7. f[PrevOf(b)] \in Block
      BY <3>3, <3>4, <3>6
    <3> QED BY <2>2, <2>4, <3>3, <3>6, <3>7 DEF FoundAt
  <2> QED BY <2>3, <2>4
<1>4. \A b \in Block : b \in T
  <2> HIDE DEF T
  <2> QED BY <1>3, BlockIs, Downward
<1>5. f[tail[n]] \in Block
  BY <1>1, <1>4, BlockIs DEF Last
<1>6. ~ (Last(n) < r)
  <2>1. Last(n) \in Nat
    BY BlockIs, RoundIs DEF Last
  <2> QED BY <2>1
<1>7. \A b \in Block : b >= 0
  BY BlockIs
<1> QED BY <1>2, <1>5, <1>6, <1>7

\* A search ends with a block or a number that is none.
LEMMA GetByRoundIs ==
  ASSUME TypeOK, MadeInOrder, NEW n \in Node, NEW r PROVE GetByRound(n, r) \in Int
<1>1. PICK f : /\ f = [b \in Block |-> FoundAt(f, n, r, b)]
               /\ GetByRound(n, r) = IF Last(n) < r THEN NotFound ELSE f[tail[n]]
  BY FoundIs
<1> DEFINE T == {b \in Block : f[b] \in Int}
<1>2. ASSUME NEW b \in Block, \A c \in 0 .. b - 1 : c \in T PROVE b \in T
  <2>1. f[b] = FoundAt(f, n, r, b) /\ b \in Int
    BY <1>1, BlockIs
  <2>2. PrevOf(b) \in store[n] => f[PrevOf(b)] \in Int
    BY <1>2, PrevEarlier
  <2> QED BY <2>1, <2>2 DEF FoundAt, Missing, NotFound
<1>3. \A b \in Block : b \in T
  <2> HIDE DEF T
  <2> QED BY <1>2, BlockIs, Downward
<1> QED BY <1>1, <1>3, BlockIs DEF NotFound

\* The tail has its own round.
LEMMA TailFound ==
  ASSUME TypeOK, MadeInOrder, NEW n \in Node PROVE GetByRound(n, Last(n)) >= 0
<1>1. PICK f : /\ f = [b \in Block |-> FoundAt(f, n, Last(n), b)]
               /\ GetByRound(n, Last(n)) = IF Last(n) < Last(n) THEN NotFound ELSE f[tail[n]]
  BY FoundIs
<1>2. tail[n] \in Block /\ tail[n] >= 0 /\ Last(n) \in Nat
  BY BlockIs, RoundIs DEF Last
<1>3. f[tail[n]] = tail[n]
  BY <1>1, <1>2 DEF FoundAt, Last
<1> QED BY <1>1, <1>2, <1>3

\* The round whose seed is renewed is never the first, which GetByRound does not reach.
LEMMA SeedRoundIs ==
  ASSUME LedgerAssumption, NEW x \in Nat, SeedRound(x + 1) > 0
  PROVE  SeedRound(x + 1) \in Nat /\ SeedRound(x + 1) >= 2 /\ SeedRound(x + 1) <= x
<1>1. R \in Nat /\ R > 2
  BY DEF LedgerAssumption
<1>2. (x + 1) % R \in 0 .. R - 1 /\ x + 1 = (R * ((x + 1) \div R)) + ((x + 1) % R) /\ (x + 1) \div R \in Int
  BY <1>1
<1>3. SeedRound(x + 1) = x - ((x + 1) % R)
  BY <1>2 DEF SeedRound
<1> DEFINE q == (x + 1) \div R
<1>4. R * q > 1
  BY <1>1, <1>2, <1>3
<1>5. q >= 1
  <2> HIDE DEF q
  <2>1. q \in Int
    BY <1>2 DEF q
  <2> QED BY <1>1, <1>4, <2>1
<1>6. R * q >= R
  <2> HIDE DEF q
  <2>1. q \in Int
    BY <1>2 DEF q
  <2> QED BY <1>1, <1>5, <2>1
<1> QED BY <1>1, <1>2, <1>3, <1>6

LEMMA SeedFoundHolds ==
  ASSUME TypeOK, MadeInOrder, \A n \in Node : Excused(n) PROVE SeedFound
<1> SUFFICES ASSUME NEW n \in seedless, n \notin moved, raced = {},
                    \A b \in Line(n) \ {0} : made[b].prev \in store[n]
             PROVE  FALSE
  BY DEF SeedFound
<1>1. n \in Node
  BY DEF TypeOK
<1>2. Line(n) \subseteq store[n] /\ tail[n] \in Line(n)
  BY <1>1, LineOfStore
<1>3. ASSUME NEW b \in Line(n) \ {0} PROVE made[b].prev \in Line(n)
  <2>1. b \in 1 .. Len(made)
    BY <1>1, <1>2, BlockIs
  <2>2. PrevOf(b) = made[b].prev
    BY <2>1, BlockIs DEF PrevOf
  <2> QED BY <1>1, <2>2, LineOfStore
<1>4. Whole(n)
  BY <1>2, <1>3 DEF Whole
<1> QED BY <1>1, <1>4 DEF Excused

\* What is known of a queue.
LEMMA QueueIs ==
  ASSUME TypeOK, NEW n \in Node
  PROVE  /\ queue[n] \in Seq(Block \ {0}) /\ Len(queue[n]) \in Nat /\ DOMAIN queue[n] = 1 .. Len(queue[n])
         /\ \A i \in 1 .. Len(queue[n]) : queue[n][i] \in Block \ {0}
         /\ queue[n] # <<>> <=> 1 \in 1 .. Len(queue[n])
         /\ Waiting(n) \subseteq Block /\ (queue[n] = <<>> => Waiting(n) = {})
<1> DEFINE q == queue[n]
<1>1. q \in Seq(Block \ {0})
  BY DEF TypeOK
<1>2. Waiting(n) = {q[i] : i \in (IF serving[n] = {} THEN 1 ELSE 2) .. Len(q)}
  BY DEF Waiting
<1> HIDE DEF q
<1>3. Len(q) \in Nat /\ DOMAIN q = 1 .. Len(q)
  BY <1>1, LenProperties
<1>4. \A i \in 1 .. Len(q) : q[i] \in Block \ {0}
  BY <1>1, <1>3, ElementOfSeq
<1>5. q # <<>> <=> Len(q) # 0
  BY <1>1, EmptySeq
<1>6. q # <<>> <=> 1 \in 1 .. Len(q)
  BY <1>3, <1>5
<1>7. Waiting(n) \subseteq Block
  BY <1>2, <1>3, <1>4
<1>8. q = <<>> => Waiting(n) = {}
  BY <1>2, <1>3, <1>5
<1> QED BY <1>1, <1>3, <1>4, <1>6, <1>7, <1>8 DEF q

\* What has not gone to a peer yet is a block for a node of the list.
LEMMA PendingIs ==
  ASSUME TypeOK, NEW n \in Node, Lists(n)
  PROVE  /\ Pending(n) \subseteq (Node \ {n}) \X Block
         /\ queue[n] = <<>> => Pending(n) = {}
         /\ \A m \in Node, b \in Block : <<m, b>> \in Pending(n) => m \in Member
<1>1. Others(n) \subseteq Member \ {n} /\ Member \subseteq Node /\ serving[n] \subseteq Others(n)
  BY DEF Lists, Others, Member
<1>2. serving[n] # {} => queue[n] # <<>> /\ queue[n][1] \in Block
  BY QueueIs DEF Lists
<1>3. Waiting(n) \subseteq Block /\ (queue[n] = <<>> => Waiting(n) = {})
  BY QueueIs
<1> QED BY <1>1, <1>2, <1>3 DEF Pending

\* A step may leave out of the queues only what never arrives.
PendingKept == unsent \subseteq unsent' /\ \A m \in Node : Pending(m) \subseteq Pending(m)' \cup unsent'

\* What is on its way to a node: in a queue, or in the answer.
LEMMA ComingKept ==
  ASSUME PendingKept, NEW n \in Node, NEW b \in Coming(n), Block' = Block
  PROVE  b \in answer[n] \/ b \in Coming(n)' \/ <<n, b>> \in unsent'
BY DEF Coming, PendingKept

LEMMA HoleIsComingHolds ==
  ASSUME TypeOK, MadeInOrder, \A n \in Node : Everything(n) PROVE HoleIsComing
<1> SUFFICES ASSUME NEW n \in Node \ early, NEW b \in store[n] \ {0}
             PROVE  made[b].prev \in store[n] \cup Coming(n) \/ <<n, made[b].prev>> \in unsent
  BY DEF HoleIsComing
<1>1. b \in 1 .. Len(made)
  BY BlockIs
<1>2. made[b].prev \in Block
  BY <1>1, BlockIs, PrevEarlier DEF PrevOf
<1>3. phase[n] \in {"out", "joined", "append", "in"}
  BY DEF TypeOK
<1>4. CASE phase[n] \in {"append", "in"}
  BY <1>2, <1>4 DEF Everything
<1>5. CASE phase[n] \in {"out", "joined"}
  BY <1>5 DEF Everything
<1> QED BY <1>3, <1>4, <1>5

\* The line of a node that holds all blocks, each linked to the one before it.
LEMMA LineOfAll ==
  ASSUME TypeOK, MadeInOrder, AllLinked, NEW n \in Node, Block \subseteq store[n], tail[n] = Len(made)
  PROVE  Line(n) = Block
<1>0. Len(made) \in Nat /\ Block = 0 .. Len(made)
  BY BlockIs
<1> DEFINE T == {k \in Nat : k <= Len(made) => Len(made) - k \in Line(n)}
<1>1. 0 \in T
  BY <1>0, LineOfStore
<1>2. ASSUME NEW k \in Nat, k \in T PROVE k + 1 \in T
  <2> SUFFICES ASSUME k + 1 <= Len(made) PROVE Len(made) - (k + 1) \in Line(n)
    OBVIOUS
  <2> DEFINE b == Len(made) - k
  <2>1. b \in 1 .. Len(made) /\ b - 1 = Len(made) - (k + 1) /\ b - 1 \in Block
    BY <1>0
  <2>2. b \in Line(n)
    BY <1>0, <1>2
  <2> HIDE DEF b
  <2>3. PrevOf(b) = b - 1
    BY <2>1 DEF PrevOf, AllLinked, LinkedTo
  <2> QED BY <2>1, <2>2, <2>3, LineOfStore
<1>3. Nat \subseteq T
  <2> HIDE DEF T
  <2> QED BY <1>1, <1>2, Induct
<1>4. ASSUME NEW b \in Block PROVE b \in Line(n)
  <2>1. Len(made) - b \in Nat /\ Len(made) - b <= Len(made) /\ Len(made) - (Len(made) - b) = b
    BY <1>0
  <2> DEFINE k == Len(made) - b
  <2>2. k \in T
    <3> HIDE DEF T, k
    <3> QED BY <1>3, <2>1 DEF k
  <2> QED BY <2>1, <2>2
<1>5. Line(n) \subseteq Block
  BY LineOfStore, BlockIs
<1> QED BY <1>4, <1>5

\* The newest block has the round of its number.
LEMMA NewestRound ==
  ASSUME TypeOK, AllLinked PROVE RoundOf(Len(made)) = Len(made)
BY BlockIs DEF RoundOf, AllLinked, LinkedTo

LEMMA OneLineHolds ==
  ASSUME IInv PROVE OneLine
<1> SUFFICES ASSUME \A n \in Node \ down : Coming(n) = {} /\ phase[n] # "joined", ~ lagging, ~ mixed,
                    NEW n \in Member \ (early \cup crossed \cup down), Reached(n)
             PROVE  tail[n] = Len(made) /\ Line(n) = Block /\ Last(n) = Len(made)
  BY DEF OneLine
<1>1. n \in Node /\ phase[n] \in {"append", "in"} /\ Coming(n) = {}
  BY DEF Member, IInv, TypeOK
<1>2. answer[n] = {} /\ NothingFor(n)
  BY <1>1 DEF Coming, NothingFor
<1>3. AllLinked /\ NewestHere(n)
  BY <1>1 DEF IInv, OneByOne
<1>4. tail[n] = Len(made)
  BY <1>1, <1>2, <1>3 DEF NewestHere
<1>5. Block \subseteq store[n]
  BY <1>1 DEF IInv, Everything, Reached
<1>6. Line(n) = Block
  BY <1>1, <1>3, <1>4, <1>5, LineOfAll DEF IInv
<1>7. Last(n) = Len(made)
  BY <1>3, <1>4, NewestRound DEF Last, IInv
<1> QED BY <1>4, <1>6, <1>7

-----------------------------------------------------------------------------
(* The steps.                                                                  *)

\* A step that keeps what a node waits for keeps that it has everything or will, ...
LEMMA StillEverything ==
  ASSUME IInv, PendingKept, NEW n \in Node, UNCHANGED <<made, phase[n], answer[n], store[n]>>, early \subseteq early'
  PROVE  Everything(n)'
<1>1. Block' = Block /\ Everything(n)
  BY DEF Block, IInv
<1>2. ASSUME NEW b \in Block, b \in store[n] \cup Coming(n) \/ <<n, b>> \in unsent
      PROVE  b \in store'[n] \cup Coming(n)' \/ <<n, b>> \in unsent'
  <2>1. answer'[n] \subseteq Coming(n)'
    BY DEF Coming
  <2> QED BY <1>1, <1>2, <2>1, ComingKept DEF PendingKept
<1> QED BY <1>1, <1>2 DEF Everything

\* ... and that it has the newest block once nothing is on its way.
LEMMA NothingBefore ==
  ASSUME IInv, PendingKept, NEW n \in Node, Block' = Block, NothingFor(n)', Reached(n)'
  PROVE  NothingFor(n) /\ Reached(n)
<1>1. Reached(n)
  BY DEF Reached, PendingKept
<1>2. NothingFor(n)
  BY DEF Reached, NothingFor, PendingKept
<1> QED BY <1>1, <1>2

LEMMA StillNewest ==
  ASSUME IInv, OneByOne, PendingKept, NEW n \in Node, UNCHANGED <<made, phase[n], answer[n], tail[n]>>,
         early \subseteq early', crossed \subseteq crossed'
  PROVE  NewestHere(n)'
<1>1. Block' = Block
  BY DEF Block
<1>2. NothingFor(n)' /\ Reached(n)' => NothingFor(n) /\ Reached(n)
  BY <1>1, NothingBefore
<1>3. NewestHere(n) /\ (n \notin early' \cup crossed' => n \notin early \cup crossed)
  BY DEF OneByOne
<1> QED BY <1>2, <1>3 DEF NewestHere

\* A step that makes no block leaves what was made, stored and read in order.
LEMMA NothingMade ==
  ASSUME IInv, UNCHANGED <<ledger, raced, lagging, joining>>, PendingKept,
         ~ mixed' => ~ mixed /\ \A n \in Node : NewestLast(n) => NewestLast(n)'
  PROVE  MadeInOrder' /\ (\A n \in Node : Everything(n)') /\ (~ lagging /\ ~ mixed => OneByOne)'
<1>0. UNCHANGED <<made, store, tail, raced, lagging, phase, answer, early, crossed>>
  BY DEF ledger, joining
<1>1. MadeInOrder'
  BY <1>0 DEF IInv, MadeInOrder, MadeOf, RoundOf
<1>2. ASSUME NEW n \in Node PROVE Everything(n)'
  BY <1>0, StillEverything
<1>3. ASSUME ~ lagging', ~ mixed' PROVE OneByOne'
  <2>1. OneByOne
    BY <1>0, <1>3 DEF IInv
  <2>2. AllLinked'
    BY <1>0, <2>1 DEF OneByOne, AllLinked, LinkedTo
  <2>3. ASSUME NEW n \in Node PROVE NewestLast(n)' /\ NewestHere(n)'
    BY <1>0, <1>3, <2>1, StillNewest DEF OneByOne
  <2> QED BY <2>2, <2>3 DEF OneByOne
<1> QED BY <1>1, <1>2, <1>3

\* Such are the steps that send nothing, ...
LEMMA NothingSent ==
  ASSUME IInv, UNCHANGED <<made, sending, known, phase>>
  PROVE  /\ PendingKept /\ \A n \in Node : Lists(n)' /\ (NewestLast(n) => NewestLast(n)')
         /\ mixed' = mixed /\ queue' = queue /\ \A n \in Node : Pending(n)' = Pending(n)
<1>0. UNCHANGED <<queue, serving, unsent, mixed>>
  BY DEF sending
<1>1. \A n \in Node : Pending(n)' = Pending(n)
  BY <1>0 DEF Pending, Waiting, Others
<1> QED BY <1>0, <1>1 DEF PendingKept, IInv, Lists, Member, Others, NewestLast

\* ... those with which processes end, ...
LEMMA EndsIs ==
  ASSUME IInv, NEW D \in SUBSET Node, Ends(D), UNCHANGED <<made, members, phase>>
  PROVE  /\ PendingKept /\ (\A n \in Node : Lists(n)' /\ (NewestLast(n) => NewestLast(n)')) /\ mixed' = mixed
         /\ down' = down \cup D /\ unsent' \subseteq Node \X Block
         /\ queue' \in [Node -> Seq(Block \ {0})] /\ serving' \in [Node -> SUBSET Node]
<1>0. /\ \A n \in Node : queue'[n] = (IF n \in D THEN <<>> ELSE queue[n])
                      /\ serving'[n] = (IF n \in D THEN {} ELSE serving[n])
      /\ UNCHANGED <<known, mixed, made, phase>> /\ down' = down \cup D
  BY DEF Ends, members
<1>1. unsent' = unsent \cup UNION {Pending(n) : n \in D}
  BY DEF Ends
<1>2. ASSUME NEW n \in Node PROVE Pending(n) \subseteq Pending(n)' \cup unsent'
  <2>1. CASE n \in D
    <3>1. Pending(n) \subseteq UNION {Pending(m) : m \in D}
      BY <2>1
    <3> QED BY <1>1, <3>1
  <2>2. CASE n \notin D
    BY <1>0, <2>2 DEF Pending, Waiting, Others
  <2> QED BY <2>1, <2>2
<1>3. ASSUME NEW n \in Node PROVE Lists(n)' /\ (NewestLast(n) => NewestLast(n)')
  BY <1>0 DEF IInv, Lists, Member, Others, NewestLast
<1>4. unsent' \subseteq Node \X Block
  <2>1. \A n \in D : Pending(n) \subseteq Node \X Block
    BY PendingIs DEF IInv
  <2>2. UNION {Pending(n) : n \in D} \subseteq Node \X Block
    BY <2>1
  <2> QED BY <1>1, <2>2 DEF IInv, TypeOK
<1>5. queue' \in [Node -> Seq(Block \ {0})] /\ serving' \in [Node -> SUBSET Node]
  <2>1. <<>> \in Seq(Block \ {0})
    BY EmptySeq
  <2> QED BY <2>1 DEF Ends, IInv, TypeOK
<1> QED BY <1>0, <1>1, <1>2, <1>3, <1>4, <1>5 DEF PendingKept

\* ... and the one that takes a block from a queue.
LEMMA TakeIs ==
  ASSUME IInv, NEW n \in Node, Take(n)
  PROVE  /\ PendingKept /\ (\A m \in Node : Lists(m)' /\ (NewestLast(m) => NewestLast(m)'))
         /\ queue' \in [Node -> Seq(Block \ {0})] /\ serving' \in [Node -> SUBSET Node]
<1>0. /\ UNCHANGED <<made, unsent, mixed, known, phase>> /\ queue[n] # <<>> /\ serving[n] = {}
      /\ serving' = [serving EXCEPT ![n] = Others(n)]
      /\ queue' = IF Others(n) = {} THEN [queue EXCEPT ![n] = Tail(@)] ELSE queue
  BY DEF Take, ledger, joining, members
<1>1. Others(n) \subseteq Node /\ \A m : Others(m)' = Others(m)
  BY <1>0 DEF Others, IInv, TypeOK, MembersOK
<1>2. /\ serving'[n] = Others(n) /\ \A m \in Node \ {n} : serving'[m] = serving[m] /\ queue'[m] = queue[m]
      /\ queue'[n] = IF Others(n) = {} THEN Tail(queue[n]) ELSE queue[n]
      /\ serving' \in [Node -> SUBSET Node]
  BY <1>0, <1>1 DEF IInv, TypeOK
<1> DEFINE q == queue[n]
<1>3. q \in Seq(Block \ {0}) /\ q # <<>>
  BY <1>0, QueueIs DEF IInv
<1>4. Tail(q) \in Seq(Block \ {0}) /\ (Tail(q) # <<>> => Tail(q)[Len(Tail(q))] = q[Len(q)])
  <2> HIDE DEF q
  <2> QED BY <1>3
<1>5. queue' \in [Node -> Seq(Block \ {0})]
  BY <1>0, <1>4 DEF IInv, TypeOK
<1>6. ASSUME NEW m \in Node PROVE Pending(m) = Pending(m)'
  <2>1. CASE m # n
    BY <1>1, <1>2, <2>1 DEF Pending, Waiting
  <2>2. CASE m = n /\ Others(n) = {}
    BY <1>0, <1>1, <1>2, <2>2 DEF Pending
  <2>3. CASE m = n /\ Others(n) # {}
    <3>1. Waiting(n) = {q[i] : i \in 1 .. Len(q)} /\ Waiting(n)' = {q[i] : i \in 2 .. Len(q)}
      BY <1>0, <1>2, <2>3 DEF Waiting
    <3>2. Len(q) \in Nat /\ 1 \in 1 .. Len(q)
      BY <1>0, QueueIs DEF IInv
    <3>3. Pending(n) = Others(n) \X Waiting(n) /\ Pending(n)' = Others(n) \X {q[1]} \cup Others(n) \X Waiting(n)'
      BY <1>0, <1>1, <1>2, <2>3 DEF Pending
    <3> HIDE DEF q
    <3>4. \A i \in 1 .. Len(q) : i = 1 \/ i \in 2 .. Len(q)
      BY <3>2
    <3>5. \A i \in 2 .. Len(q) : i \in 1 .. Len(q)
      BY <3>2
    <3>6. Waiting(n) = {q[1]} \cup Waiting(n)'
      BY <3>1, <3>2, <3>4, <3>5
    <3> QED BY <2>3, <3>3, <3>6
  <2> QED BY <2>1, <2>2, <2>3
<1>7. ASSUME NEW m \in Node PROVE Lists(m)' /\ (NewestLast(m) => NewestLast(m)')
  <2>1. Lists(m)'
    BY <1>0, <1>1, <1>2 DEF IInv, Lists, Member
  <2>2. NewestLast(m) => NewestLast(m)'
    BY <1>0, <1>2, <1>4 DEF NewestLast
  <2> QED BY <2>1, <2>2
<1> QED BY <1>0, <1>5, <1>6, <1>7, <1>2 DEF PendingKept

\* What a node has read stays so while its proposal and its tail do.
LEMMA SameReads ==
  ASSUME IInv, NEW n \in Node, UNCHANGED <<at[n], draft[n], tail[n]>>,
         \A b \in 1 .. Len(made) : made'[b] = made[b],
         store[n] \subseteq store'[n], n \in moved => n \in moved'
  PROVE  Reads(n)'
<1>1. tail[n] \in Block
  BY BlockIs DEF IInv
<1>2. Last(n)' = Last(n)
  BY <1>1, BlockIs DEF Last, RoundOf, IInv
<1> QED BY <1>2 DEF IInv, Reads

\* Who has ended over a seed keeps its store and its tail.
LEMMA StillExcused ==
  ASSUME IInv, NEW n \in Node, n \in seedless, UNCHANGED <<store[n], tail[n]>>,
         \A b \in 1 .. Len(made) : made'[b] = made[b], n \in moved => n \in moved', raced \subseteq raced'
  PROVE  Excused(n)'
<1>1. Whole(n)' => Whole(n)
  <2> SUFFICES ASSUME Whole(n)' PROVE Whole(n)
    OBVIOUS
  <2>1. PICK X \in SUBSET store[n] : tail[n] \in X /\ \A b \in X \ {0} : made'[b].prev \in X
    BY DEF Whole
  <2>2. \A b \in X \ {0} : made'[b] = made[b]
    BY BlockIs DEF IInv
  <2> QED BY <2>1, <2>2 DEF Whole
<1> QED BY <1>1 DEF IInv, Excused

\* A step in which processes end, and nothing else happens.
LEMMA EndKeeps ==
  ASSUME IInv, NEW D \in SUBSET Node, Ends(D), UNCHANGED <<ledger, proposing, joining>>,
         seedless \subseteq seedless', seedless' \subseteq down', \A n \in seedless' \ seedless : Excused(n)'
  PROVE  IInv'
<1>0. UNCHANGED <<made, store, tail, at, draft, moved, raced, lagging, members, known, told, phase, answer, early, crossed>>
  BY DEF ledger, proposing, joining, members
<1>1. /\ PendingKept /\ (\A n \in Node : Lists(n)' /\ (NewestLast(n) => NewestLast(n)')) /\ mixed' = mixed
      /\ down' = down \cup D /\ unsent' \subseteq Node \X Block
      /\ queue' \in [Node -> Seq(Block \ {0})] /\ serving' \in [Node -> SUBSET Node]
  BY <1>0, EndsIs
<1>2. TypeOK'
  BY <1>0, <1>1 DEF IInv, TypeOK, MembersOK, Block
<1>3. \A n \in Node : Reads(n)'
  BY <1>0, SameReads
<1>4. ASSUME NEW n \in Node PROVE Excused(n)'
  <2>1. CASE n \in seedless
    BY <1>0, <2>1, StillExcused
  <2>2. CASE n \notin seedless
    BY <2>2 DEF Excused
  <2> QED BY <2>1, <2>2
<1>5. MadeInOrder' /\ (\A n \in Node : Everything(n)') /\ (~ lagging /\ ~ mixed => OneByOne)'
  BY <1>0, <1>1, NothingMade DEF ledger, joining
<1> QED BY <1>1, <1>2, <1>3, <1>4, <1>5 DEF IInv

\* A step of a proposal of n that sends nothing and makes nothing.
LEMMA ProposalKeeps ==
  ASSUME IInv, UNCHANGED <<ledger, moved, raced, lagging, sending, joining, ending>>, NEW n \in Node,
         at' \in [Node -> {"idle", "round", "seed", "init", "agree"}],
         draft' \in [Node -> [round : Nat, prev : Nat]],
         \A m \in Node \ {n} : at'[m] = at[m] /\ draft'[m] = draft[m], Reads(n)'
  PROVE  IInv'
<1>0. /\ UNCHANGED <<made, store, tail, moved, raced, lagging, queue, serving, unsent, mixed>>
      /\ UNCHANGED <<members, known, told, phase, answer, early, crossed, down, seedless>>
  BY DEF ledger, sending, joining, members, ending
<1>1. /\ PendingKept /\ (\A m \in Node : Lists(m)' /\ (NewestLast(m) => NewestLast(m)'))
  BY <1>0, NothingSent
<1>2. TypeOK'
  BY <1>0 DEF IInv, TypeOK, MembersOK, Block
<1>3. ASSUME NEW m \in Node PROVE Reads(m)'
  BY <1>0, SameReads
<1>4. ASSUME NEW m \in Node PROVE Excused(m)'
  BY <1>0 DEF IInv, Excused, Whole
<1>5. MadeInOrder' /\ (\A m \in Node : Everything(m)') /\ (~ lagging /\ ~ mixed => OneByOne)'
  BY <1>0, <1>1, NothingMade
<1> QED BY <1>1, <1>2, <1>3, <1>4, <1>5 DEF IInv

\* The sortition: it may end the node, and if not the proposal begins.
LEMMA SortitionKeeps ==
  ASSUME LedgerAssumption, IInv, NEW n \in Node, Sortition(n) PROVE IInv'
<1>0. UNCHANGED <<ledger, draft, moved, raced, lagging, joining, made, store, tail>>
  BY DEF Sortition, ledger
<1>1. CASE SeedFails(n, Last(n) + 1)
  <2>1. Ends({n}) /\ seedless' = seedless \cup {n} /\ UNCHANGED at
    BY <1>1 DEF Sortition, Seedless
  <2>2. seedless' \subseteq down'
    BY <2>1 DEF Ends, IInv, TypeOK
  <2>3. Excused(n)'
    <3>1. Last(n) \in Nat
      BY BlockIs, RoundIs DEF Last, IInv
    <3> DEFINE r == SeedRound(Last(n) + 1)
    <3>2. r > 0 /\ GetByRound(n, r) < 0
      BY <1>1 DEF SeedFails
    <3>3. r \in Nat /\ r >= 2 /\ r <= Last(n)
      BY <3>1, <3>2, SeedRoundIs
    <3>4. raced # {} \/ ~ Whole(n)
      <4> HIDE DEF r
      <4>1. GetByRound(n, r) \in Int
        BY <3>3, GetByRoundIs DEF IInv
      <4>2. ~ (GetByRound(n, r) >= 0)
        BY <3>2, <4>1
      <4> QED BY <3>3, <4>2, WholeFinds DEF IInv
    <3>5. Whole(n)' => Whole(n)
      BY <1>0 DEF Whole
    <3> QED BY <1>0, <3>4, <3>5 DEF Excused
  <2> QED BY <1>0, <2>1, <2>2, <2>3, EndKeeps DEF proposing
<1>2. CASE ~ SeedFails(n, Last(n) + 1)
  <2>1. at' = [at EXCEPT ![n] = "round"] /\ UNCHANGED <<sending, ending>>
    BY <1>2 DEF Sortition, Step
  <2>2. at' \in [Node -> {"idle", "round", "seed", "init", "agree"}] /\ at'[n] = "round" /\ \A m \in Node \ {n} : at'[m] = at[m]
    BY <2>1 DEF IInv, TypeOK
  <2>3. Reads(n)'
    BY <1>0, <2>2 DEF IInv, Reads
  <2>4. draft' \in [Node -> [round : Nat, prev : Nat]]
    BY <1>0 DEF IInv, TypeOK
  <2> QED BY <1>0, <2>1, <2>2, <2>3, <2>4, ProposalKeeps
<1> QED BY <1>1, <1>2

\* The round the proposal has read is the one behind the tail.
LEMMA RoundKeeps ==
  ASSUME IInv, NEW n \in Node, Round(n) PROVE IInv'
<1>0. /\ UNCHANGED <<ledger, moved, raced, lagging, sending, joining, ending, made, store, tail>>
      /\ at' = [at EXCEPT ![n] = "seed"] /\ draft' = [draft EXCEPT ![n].round = Last(n) + 1]
  BY DEF Round, Step, ledger
<1>1. Last(n) + 1 \in Nat /\ draft \in [Node -> [round : Nat, prev : Nat]]
  BY BlockIs, RoundIs DEF Last, IInv, TypeOK
<1>2. /\ draft' \in [Node -> [round : Nat, prev : Nat]] /\ draft'[n].round = Last(n) + 1 /\ draft'[n].prev = draft[n].prev
      /\ at' \in [Node -> {"idle", "round", "seed", "init", "agree"}]
      /\ at'[n] = "seed" /\ \A m \in Node \ {n} : at'[m] = at[m] /\ draft'[m] = draft[m]
  <2>1. /\ at' \in [Node -> {"idle", "round", "seed", "init", "agree"}]
        /\ at'[n] = "seed" /\ \A m \in Node \ {n} : at'[m] = at[m]
    BY <1>0 DEF IInv, TypeOK
  <2> DEFINE e == [draft[n] EXCEPT !.round = Last(n) + 1]
  <2>2. e \in [round : Nat, prev : Nat] /\ e.round = Last(n) + 1 /\ e.prev = draft[n].prev
    BY <1>1
  <2>3. draft' = [draft EXCEPT ![n] = e]
    BY <1>0
  <2> HIDE DEF e
  <2> QED BY <1>1, <2>1, <2>2, <2>3
<1>3. Reads(n)'
  <2>1. Last(n)' = Last(n)
    BY <1>0 DEF Last, RoundOf
  <2> QED BY <1>0, <1>2, <2>1 DEF IInv, Reads
<1> QED BY <1>0, <1>2, <1>3, ProposalKeeps

\* The seed of that round is found, if the tail is still there.
LEMMA vrfSeedKeeps ==
  ASSUME IInv, NEW n \in Node, vrfSeed(n) PROVE IInv'
<1>0. UNCHANGED <<ledger, draft, moved, raced, lagging, joining, made, store, tail>>
  BY DEF vrfSeed, ledger
<1>1. CASE GetByRound(n, draft[n].round - 1) < 0
  <2>1. at[n] = "seed" /\ Ends({n}) /\ seedless' = seedless \cup {n} /\ UNCHANGED at
    BY <1>1 DEF vrfSeed, Seedless
  <2>2. seedless' \subseteq down'
    BY <2>1 DEF Ends, IInv, TypeOK
  <2>3. n \in moved
    <3> SUFFICES ASSUME n \notin moved PROVE FALSE
      OBVIOUS
    <3>1. draft[n].round = Last(n) + 1
      BY <2>1 DEF IInv, Reads
    <3>2. Last(n) \in Nat /\ draft[n].round - 1 = Last(n)
      BY <3>1, BlockIs, RoundIs DEF Last, IInv
    <3>3. GetByRound(n, Last(n)) >= 0 /\ GetByRound(n, Last(n)) < 0
      BY <1>1, <3>2, TailFound DEF IInv
    <3>4. GetByRound(n, Last(n)) \in Int
      BY <3>2, GetByRoundIs DEF IInv
    <3> QED BY <3>3, <3>4
  <2>4. Excused(n)'
    BY <1>0, <2>3 DEF Excused
  <2> QED BY <1>0, <2>1, <2>2, <2>4, EndKeeps DEF proposing
<1>2. CASE ~ (GetByRound(n, draft[n].round - 1) < 0)
  <2>1. at[n] = "seed" /\ at' = [at EXCEPT ![n] = "init"] /\ UNCHANGED <<sending, ending>>
    BY <1>2 DEF vrfSeed, Step
  <2>2. at' \in [Node -> {"idle", "round", "seed", "init", "agree"}] /\ at'[n] = "init" /\ \A m \in Node \ {n} : at'[m] = at[m]
    BY <2>1 DEF IInv, TypeOK
  <2>3. Reads(n)'
    <3>1. Last(n)' = Last(n)
      BY <1>0 DEF Last, RoundOf
    <3> QED BY <1>0, <2>1, <2>2, <3>1 DEF IInv, Reads
  <2>4. draft' \in [Node -> [round : Nat, prev : Nat]]
    BY <1>0 DEF IInv, TypeOK
  <2> QED BY <1>0, <2>1, <2>2, <2>3, <2>4, ProposalKeeps
<1> QED BY <1>1, <1>2

\* So is the link.
LEMMA InitBlockKeeps ==
  ASSUME IInv, NEW n \in Node, InitBlock(n) PROVE IInv'
<1>0. /\ UNCHANGED <<ledger, moved, raced, lagging, sending, joining, ending, made, store, tail>>
      /\ at[n] = "init" /\ at' = [at EXCEPT ![n] = "agree"] /\ draft' = [draft EXCEPT ![n].prev = tail[n]]
  BY DEF InitBlock, Step, ledger
<1>1. tail[n] \in Nat /\ tail[n] \in store[n] /\ draft \in [Node -> [round : Nat, prev : Nat]]
  BY BlockIs DEF IInv, TypeOK
<1>2. /\ draft' \in [Node -> [round : Nat, prev : Nat]] /\ draft'[n].prev = tail[n] /\ draft'[n].round = draft[n].round
      /\ at' \in [Node -> {"idle", "round", "seed", "init", "agree"}]
      /\ at'[n] = "agree" /\ \A m \in Node \ {n} : at'[m] = at[m] /\ draft'[m] = draft[m]
  <2>1. /\ at' \in [Node -> {"idle", "round", "seed", "init", "agree"}]
        /\ at'[n] = "agree" /\ \A m \in Node \ {n} : at'[m] = at[m]
    BY <1>0 DEF IInv, TypeOK
  <2> DEFINE e == [draft[n] EXCEPT !.prev = tail[n]]
  <2>2. e \in [round : Nat, prev : Nat] /\ e.prev = tail[n] /\ e.round = draft[n].round
    BY <1>1
  <2>3. draft' = [draft EXCEPT ![n] = e]
    BY <1>0
  <2> HIDE DEF e
  <2> QED BY <1>1, <2>1, <2>2, <2>3
<1>3. Reads(n)'
  <2>1. Last(n)' = Last(n)
    BY <1>0 DEF Last, RoundOf
  <2> QED BY <1>0, <1>1, <1>2, <2>1 DEF IInv, Reads
<1> QED BY <1>0, <1>2, <1>3, ProposalKeeps

\* A proposal that is over has read nothing.
LEMMA DoneIs ==
  ASSUME IInv, NEW n \in Node, Step(n, "agree", "idle"), Done(n)
  PROVE  /\ n \notin down /\ n \notin seedless /\ at[n] = "agree" /\ at'[n] = "idle" /\ draft'[n].prev = 0
         /\ at' \in [Node -> {"idle", "round", "seed", "init", "agree"}]
         /\ draft' \in [Node -> [round : Nat, prev : Nat]]
         /\ moved' = moved \ {n} /\ \A m \in Node \ {n} : at'[m] = at[m] /\ draft'[m] = draft[m]
<1>1. n \notin down /\ at[n] = "agree" /\ at' = [at EXCEPT ![n] = "idle"] /\ draft' = [draft EXCEPT ![n] = Unread] /\ moved' = moved \ {n}
  BY DEF Step, Done
<1>2. Unread \in [round : Nat, prev : Nat] /\ Unread.prev = 0
  BY DEF Unread
<1>3. draft' \in [Node -> [round : Nat, prev : Nat]] /\ draft'[n] = Unread /\ \A m \in Node \ {n} : draft'[m] = draft[m]
  BY <1>1, <1>2 DEF IInv, TypeOK
<1> QED BY <1>1, <1>2, <1>3 DEF IInv, TypeOK

LEMMA LoseKeeps ==
  ASSUME IInv, NEW n \in Node, Lose(n) PROVE IInv'
<1>0. /\ Step(n, "agree", "idle") /\ Done(n) /\ UNCHANGED <<ledger, raced, lagging, sending, joining, ending>>
      /\ UNCHANGED <<made, store, tail, queue, serving, unsent, mixed>>
      /\ UNCHANGED <<members, known, told, phase, answer, early, crossed, down, seedless>>
  BY DEF Lose, ledger, sending, joining, members, ending
<1>1. /\ n \notin seedless /\ at'[n] = "idle" /\ draft'[n].prev = 0
      /\ at' \in [Node -> {"idle", "round", "seed", "init", "agree"}]
      /\ draft' \in [Node -> [round : Nat, prev : Nat]]
      /\ moved' = moved \ {n} /\ \A m \in Node \ {n} : at'[m] = at[m] /\ draft'[m] = draft[m]
  BY <1>0, DoneIs
<1>2. TypeOK'
  BY <1>0, <1>1 DEF IInv, TypeOK, MembersOK, Block
<1>3. ASSUME NEW m \in Node PROVE Reads(m)'
  <2>1. CASE m # n
    BY <1>0, <1>1, <2>1, SameReads
  <2>2. CASE m = n
    BY <1>0, <1>1, <2>2 DEF IInv, Reads
  <2> QED BY <2>1, <2>2
<1>4. ASSUME NEW m \in Node PROVE Excused(m)'
  BY <1>0, <1>1 DEF IInv, Excused, Whole
<1>5. PendingKept /\ (\A m \in Node : Lists(m)' /\ (NewestLast(m) => NewestLast(m)'))
  BY <1>0, NothingSent
<1>6. MadeInOrder' /\ (\A m \in Node : Everything(m)') /\ (~ lagging /\ ~ mixed => OneByOne)'
  BY <1>0, <1>5, NothingMade
<1> QED BY <1>2, <1>3, <1>4, <1>5, <1>6 DEF IInv

\* What a win leaves: one more block, in the store and at the tail of its author, ...
WonBy(n, b) ==
    /\ n \notin seedless /\ at[n] = "agree" /\ at'[n] = "idle" /\ draft'[n].prev = 0
    /\ at' \in [Node -> {"idle", "round", "seed", "init", "agree"}] /\ draft' \in [Node -> [round : Nat, prev : Nat]]
    /\ moved' = moved \ {n} /\ \A m \in Node \ {n} : at'[m] = at[m] /\ draft'[m] = draft[m]
    /\ made' \in Seq(DataBlock) /\ Len(made') = b /\ \A c \in 1 .. Len(made) : made'[c] = made[c]
    /\ made'[b].round = draft[n].round /\ made'[b].prev = draft[n].prev
    /\ made'[b].root = GetMerkleRoot(made'[b].payload)
    /\ store' = [store EXCEPT ![n] = @ \cup {b}] /\ tail' = [tail EXCEPT ![n] = b]
    /\ raced' = raced \cup {x \in {b} : n \in moved}
    /\ lagging' = (lagging \/ n \in moved \/ ~ InStep(n) \/ \E m \in Node \ {n} : queue[m] # <<>>)
    /\ UNCHANGED <<members, known, told, phase, answer, early, crossed, down, seedless>>

\* ... and at the end of its queue, so on its way to every other member, or never sent.
SentBy(n, b) ==
    /\ PendingKept /\ \A m \in Member \ {n} : <<m, b>> \in Pending(n)' \cup unsent'
    /\ queue' \in [Node -> Seq((Block \ {0}) \cup {b})] /\ unsent' \subseteq Node \X (Block \cup {b})
    /\ queue'[n] # <<>> /\ queue'[n][Len(queue'[n])] = b /\ (\A m \in Node \ {n} : queue'[m] = queue[m])
    /\ UNCHANGED <<serving, mixed>>

LEMMA WinIs ==
  ASSUME IInv, NEW n \in Node, NEW p \in Payload, Win(n, p), NEW b, b = Len(made) + 1 PROVE WonBy(n, b)
<1> DEFINE e == [round |-> draft[n].round, prev |-> draft[n].prev, by |-> n, payload |-> p, root |-> GetMerkleRoot(p)]
<1>0. /\ Step(n, "agree", "idle") /\ Done(n) /\ made' = Append(made, e)
      /\ store' = [store EXCEPT ![n] = @ \cup {b}] /\ tail' = [tail EXCEPT ![n] = b]
      /\ raced' = raced \cup {x \in {b} : n \in moved}
      /\ lagging' = (lagging \/ n \in moved \/ ~ InStep(n) \/ \E m \in Node \ {n} : queue[m] # <<>>)
      /\ UNCHANGED <<members, known, told, phase, answer, early, crossed, down, seedless>>
  BY DEF Win, Appended, joining, members, ending
<1>1. e \in DataBlock /\ e.round = draft[n].round /\ e.prev = draft[n].prev /\ e.root = GetMerkleRoot(e.payload)
  <2>1. draft[n].round \in Nat /\ draft[n].prev \in Nat
    BY DEF IInv, TypeOK
  <2> QED BY <2>1 DEF DataBlock
<1>2. /\ made' \in Seq(DataBlock) /\ Len(made') = b /\ made'[b] = e /\ \A c \in 1 .. Len(made) : made'[c] = made[c]
  <2> HIDE DEF e
  <2>1. made \in Seq(DataBlock)
    BY DEF IInv, TypeOK
  <2> QED BY <1>0, <1>1, <2>1
<1> HIDE DEF e
<1> QED BY <1>0, <1>1, <1>2, DoneIs DEF WonBy

LEMMA WinSends ==
  ASSUME IInv, NEW n \in Node, NEW p \in Payload, Win(n, p), NEW b, b = Len(made) + 1 PROVE SentBy(n, b)
<1>0. /\ queue' = [queue EXCEPT ![n] = Append(@, b)] /\ unsent' = unsent \cup (Member \ known[n]) \X {b}
      /\ UNCHANGED <<serving, mixed, known, phase>>
  BY DEF Win, joining, members
<1> DEFINE q == queue[n]
           S == (Block \ {0}) \cup {b}
<1>1. q \in Seq(Block \ {0}) /\ Len(q) \in Nat
  BY QueueIs DEF IInv
<1>2. Append(q, b) \in Seq(S) /\ Len(Append(q, b)) = Len(q) + 1 /\ Append(q, b)[Len(q) + 1] = b
      /\ \A i \in 1 .. Len(q) : Append(q, b)[i] = q[i]
  <2> HIDE DEF q
  <2>1. q \in Seq(S)
    BY <1>1, SeqMonotonic
  <2> HIDE DEF S
  <2>2. b \in S
    BY DEF S
  <2> QED BY <2>1, <2>2, AppendProperties
<1>3. queue'[n] = Append(q, b) /\ \A m \in Node \ {n} : queue'[m] = queue[m]
  BY <1>0 DEF IInv, TypeOK
<1>4. queue' \in [Node -> Seq(S)]
  <2>1. ASSUME NEW m \in Node PROVE queue'[m] \in Seq(S)
    <3>1. queue[m] \in Seq(S)
      <4>1. queue[m] \in Seq(Block \ {0}) /\ Block \ {0} \subseteq S
        BY QueueIs DEF IInv
      <4> QED BY <4>1, SeqMonotonic
    <3> QED BY <1>2, <1>3, <3>1
  <2> QED BY <1>0, <2>1 DEF IInv, TypeOK
<1>5. Append(q, b) # <<>> /\ Append(q, b)[Len(Append(q, b))] = b
  <2> HIDE DEF q, S
  <2> QED BY <1>1, <1>2, EmptySeq
<1>6. /\ Waiting(n)' = Waiting(n) \cup {b} /\ (serving[n] # {} => queue'[n][1] = queue[n][1])
      /\ \A m \in Node \ {n} : Waiting(m)' = Waiting(m)
  <2> DEFINE k == IF serving[n] = {} THEN 1 ELSE 2
  <2>1. serving[n] # {} => 1 \in 1 .. Len(q)
    BY QueueIs DEF IInv, Lists
  <2>2. Waiting(n)' = {Append(q, b)[i] : i \in k .. Len(Append(q, b))} /\ Waiting(n) = {q[i] : i \in k .. Len(q)}
    BY <1>0, <1>3 DEF Waiting
  <2>3. k \in 1 .. Len(q) + 1 /\ k \in Nat
    BY <1>1, <2>1
  <2> HIDE DEF q, S, k
  <2>4. /\ \A i \in k .. Len(q) + 1 : i \in k .. Len(q) \/ i = Len(q) + 1
        /\ \A i \in k .. Len(q) : i \in 1 .. Len(q) /\ i \in k .. Len(q) + 1
        /\ Len(q) + 1 \in k .. Len(q) + 1
    BY <1>1, <2>3
  <2>5. \A i \in k .. Len(q) : Append(q, b)[i] = q[i]
    BY <1>2, <2>4
  <2>6. {Append(q, b)[i] : i \in k .. Len(q) + 1} = {q[i] : i \in k .. Len(q)} \cup {b}
    BY <1>2, <2>4, <2>5
  <2>7. Waiting(n)' = Waiting(n) \cup {b}
    BY <1>2, <2>2, <2>6
  <2>8. serving[n] # {} => Append(q, b)[1] = q[1]
    BY <1>2, <2>1
  <2>9. \A m \in Node \ {n} : Waiting(m)' = Waiting(m)
    BY <1>0, <1>3 DEF Waiting
  <2> QED BY <1>3, <2>7, <2>8, <2>9 DEF q
<1>7. Others(n)' = Others(n) /\ \A m : Others(m)' = Others(m)
  BY <1>0 DEF Others
<1>8. ASSUME NEW m \in Node PROVE Pending(m) \subseteq Pending(m)'
  <2>1. CASE m # n
    BY <1>0, <1>3, <1>6, <1>7, <2>1 DEF Pending
  <2>2. CASE m = n
    BY <1>0, <1>6, <1>7, <2>2 DEF Pending
  <2> QED BY <2>1, <2>2
<1>9. ASSUME NEW m \in Member \ {n} PROVE <<m, b>> \in Pending(n)' \cup unsent'
  <2>1. CASE m \in known[n]
    <3>1. m \in Others(n)' /\ b \in Waiting(n)'
      BY <1>6, <1>7, <2>1 DEF Others
    <3> QED BY <3>1 DEF Pending
  <2>2. CASE m \notin known[n]
    BY <1>0, <2>2
  <2> QED BY <2>1, <2>2
<1>10. unsent' \subseteq Node \X (Block \cup {b})
  BY <1>0 DEF IInv, TypeOK, Member
<1> QED BY <1>0, <1>3, <1>4, <1>5, <1>8, <1>9, <1>10 DEF SentBy, PendingKept

\* The author's block is the next one of the line it has, if that line was read at once.
LEMMA WinKeepsBlocks ==
  ASSUME IInv, NEW n \in Node, NEW b, b = Len(made) + 1, WonBy(n, b), SentBy(n, b)
  PROVE  TypeOK' /\ MadeInOrder'
<1>1. Len(made) \in Nat /\ Block' = Block \cup {b} /\ Block' = 0 .. b /\ b \notin Block /\ b \in Nat /\ b # 0
  BY BlockIs DEF WonBy, Block, IInv
<1>2. TypeOK'
  <2>1. store' \in [Node -> SUBSET Block'] /\ \A m \in Node : tail'[m] \in store'[m]
    BY <1>1, BlockIs DEF WonBy, IInv, TypeOK
  <2>2. tail' \in [Node -> Block']
    BY <1>1, BlockIs DEF WonBy, IInv, TypeOK
  <2>3. Block' \ {0} = (Block \ {0}) \cup {b}
    BY <1>1
  <2>4. made' \in Seq(DataBlock) /\ queue' \in [Node -> Seq(Block' \ {0})] /\ unsent' \subseteq Node \X Block'
    BY <1>1, <2>3 DEF WonBy, SentBy
  <2>5. answer' \in [Node -> SUBSET Block'] /\ raced' \subseteq Block' /\ lagging' \in BOOLEAN
    BY <1>1 DEF WonBy, IInv, TypeOK
  <2>6. MembersOK' /\ moved' \subseteq Node
    BY DEF WonBy, IInv, TypeOK, MembersOK
  <2> QED BY <2>1, <2>2, <2>4, <2>5, <2>6 DEF WonBy, SentBy, IInv, TypeOK
<1>3. ASSUME NEW c \in Block PROVE RoundOf(c)' = RoundOf(c)
  BY BlockIs DEF RoundOf, WonBy, IInv
<1>4. ASSUME NEW c \in 1 .. Len(made) PROVE MadeOf(c)'
  <2>1. MadeOf(c) /\ made'[c] = made[c]
    BY DEF IInv, MadeInOrder, WonBy
  <2>2. RoundOf(made[c].prev)' = RoundOf(made[c].prev)
    <3>1. made[c].prev \in Block
      BY BlockIs, PrevEarlier DEF PrevOf, IInv
    <3> QED BY <1>3, <3>1, <2>1
  <2>3. c \in raced => c \in raced'
    BY DEF WonBy
  <2> QED BY <2>1, <2>2, <2>3 DEF MadeOf
<1>5. MadeOf(b)'
  <2>1. draft[n].prev \in Block
    BY BlockIs DEF IInv, Reads
  <2>2. draft[n].prev < b
    BY <1>1, <2>1, BlockIs DEF IInv
  <2>3. b \notin raced' => draft[n].round = RoundOf(draft[n].prev) + 1
    <3> SUFFICES ASSUME b \notin raced' PROVE draft[n].round = RoundOf(draft[n].prev) + 1
      OBVIOUS
    <3>1. n \notin moved
      BY DEF WonBy
    <3> QED BY <3>1 DEF WonBy, IInv, Reads, Last
  <2> QED BY <1>3, <2>1, <2>2, <2>3 DEF MadeOf, WonBy
<1>6. 1 .. Len(made') = 1 .. Len(made) \cup {b}
  BY <1>1 DEF WonBy
<1> QED BY <1>2, <1>4, <1>5, <1>6 DEF MadeInOrder

\* It is in the author's store, and on its way to every other node, or never sent.
LEMMA WinKeepsNodes ==
  ASSUME IInv, NEW n \in Node, NEW b, b = Len(made) + 1, WonBy(n, b), SentBy(n, b), NEW m \in Node
  PROVE  Reads(m)' /\ Lists(m)' /\ Everything(m)' /\ Excused(m)'
<1>0. /\ \A c \in 1 .. Len(made) : made'[c] = made[c]
      /\ store[m] \subseteq store'[m] /\ (m # n => UNCHANGED <<store[m], tail[m], at[m], draft[m]>>) /\ at'[n] = "idle"
      /\ store'[n] = store[n] \cup {b} /\ draft'[n].prev = 0 /\ moved' = moved \ {n}
      /\ UNCHANGED <<known, phase, answer, early, crossed, down, seedless, serving>>
  BY DEF WonBy, SentBy, IInv, TypeOK
<1>1. Reads(m)'
  <2>1. CASE m = n
    BY <1>0, <2>1 DEF IInv, Reads
  <2>2. CASE m # n
    BY <1>0, <2>2, SameReads
  <2> QED BY <2>1, <2>2
<1>2. Lists(m)'
  <2>1. Lists(m) /\ (queue[m] # <<>> => queue'[m] # <<>>)
    BY DEF IInv, SentBy
  <2> QED BY <1>0, <2>1 DEF Lists, Member, Others
<1>3. Block' = Block \cup {b} /\ b \notin Block
  BY BlockIs DEF WonBy, Block, IInv
<1>4. ASSUME NEW c \in Coming(m) PROVE c \in Coming(m)' \/ <<m, c>> \in unsent'
  BY <1>0, <1>3 DEF Coming, SentBy, PendingKept
<1>5. ASSUME m \in Member \ {n} PROVE b \in Coming(m)' \/ <<m, b>> \in unsent'
  BY <1>3, <1>5 DEF Coming, SentBy
<1>6. Everything(m)'
  <2> SUFFICES ASSUME m \notin early
               PROVE  /\ phase[m] \in {"append", "in"} => \A c \in Block' : c \in store'[m] \cup Coming(m)' \/ <<m, c>> \in unsent'
                      /\ phase[m] \in {"out", "joined"} => \A c \in store'[m] \ {0} : made'[c].prev \in store'[m]
    BY <1>0 DEF Everything
  <2>1. Everything(m) /\ unsent \subseteq unsent'
    BY DEF IInv, SentBy, PendingKept
  <2>2. ASSUME phase[m] \in {"append", "in"}, NEW c \in Block' PROVE c \in store'[m] \cup Coming(m)' \/ <<m, c>> \in unsent'
    <3>1. CASE c \in Block
      BY <1>0, <1>4, <2>1, <2>2, <3>1 DEF Everything
    <3>2. CASE c = b
      <4>1. m # n => m \in Member \ {n}
        BY <2>2 DEF Member
      <4> QED BY <1>0, <1>5, <3>2, <4>1
    <3> QED BY <1>3, <3>1, <3>2
  <2>3. ASSUME phase[m] \in {"out", "joined"}, NEW c \in store'[m] \ {0} PROVE made'[c].prev \in store'[m]
    <3>1. CASE c \in store[m]
      <4>1. made'[c] = made[c]
        BY <1>0, <2>3, <3>1, BlockIs DEF IInv
      <4> QED BY <1>0, <2>1, <2>3, <3>1, <4>1 DEF Everything
    <3>2. CASE c \notin store[m]
      <4>1. m = n /\ c = b
        BY <1>0, <2>3, <3>2
      <4> QED BY <1>0, <4>1 DEF WonBy, IInv, Reads
    <3> QED BY <3>1, <3>2
  <2> QED BY <2>2, <2>3
<1>7. Excused(m)'
  <2>1. CASE m \in seedless
    <3>1. m # n /\ raced \subseteq raced'
      BY <2>1 DEF WonBy
    <3> QED BY <1>0, <2>1, <3>1, StillExcused
  <2>2. CASE m \notin seedless
    BY <1>0, <2>2 DEF Excused
  <2> QED BY <2>1, <2>2
<1> QED BY <1>1, <1>2, <1>6, <1>7

\* If the blocks are made one after the other, its author had the newest one as its tail,
\* and nothing else is on its way.
LEMMA WinKeepsLine ==
  ASSUME IInv, NEW n \in Node, NEW b, b = Len(made) + 1, WonBy(n, b), SentBy(n, b), ~ lagging', ~ mixed'
  PROVE  OneByOne'
<1>0. /\ ~ lagging /\ ~ mixed /\ n \notin moved /\ phase[n] = "in" /\ n \notin early \cup crossed /\ Reached(n)
      /\ \A m \in Node \ {n} : queue[m] = <<>>
      /\ at[n] = "agree" /\ OneByOne /\ Len(made) \in Nat
  BY BlockIs DEF WonBy, SentBy, InStep, IInv
<1>1. NothingFor(n)
  <2>1. \A m \in Node \ {n} : Pending(m) = {}
    BY <1>0, PendingIs DEF IInv
  <2>2. Pending(n) \subseteq (Node \ {n}) \X Block
    BY PendingIs DEF IInv
  <2> QED BY <2>1, <2>2 DEF NothingFor
<1>2. tail[n] = Len(made)
  BY <1>0, <1>1 DEF OneByOne, NewestHere
<1>3. draft[n].prev = Len(made) /\ draft[n].round = Len(made) + 1
  <2>1. draft[n].prev = tail[n] /\ draft[n].round = Last(n) + 1
    BY <1>0 DEF IInv, Reads
  <2>2. Last(n) = Len(made)
    BY <1>0, <1>2, NewestRound DEF Last, IInv, OneByOne
  <2> QED BY <1>2, <2>1, <2>2
<1>4. AllLinked'
  <2>1. 1 .. Len(made') = 1 .. Len(made) \cup {b}
    BY <1>0 DEF WonBy
  <2>2. ASSUME NEW c \in 1 .. Len(made) PROVE LinkedTo(c)'
    BY <1>0 DEF OneByOne, AllLinked, LinkedTo, WonBy
  <2>3. LinkedTo(b)'
    BY <1>0, <1>3 DEF LinkedTo, WonBy
  <2> QED BY <2>1, <2>2, <2>3 DEF AllLinked
<1>5. ASSUME NEW m \in Node PROVE NewestLast(m)'
  <2>1. CASE m = n
    BY <2>1 DEF NewestLast, SentBy, WonBy
  <2>2. CASE m # n
    BY <1>0, <2>2 DEF NewestLast, SentBy
  <2> QED BY <2>1, <2>2
<1>6. ASSUME NEW m \in Node PROVE NewestHere(m)'
  <2>1. CASE m = n
    <3>1. tail'[n] = b /\ phase'[n] = "in" /\ Len(made') = b
      BY <1>0 DEF WonBy, IInv, TypeOK
    <3> QED BY <2>1, <3>1 DEF NewestHere
  <2>2. CASE m # n /\ phase[m] = "out"
    BY <2>2 DEF NewestHere, WonBy
  <2>3. CASE m # n /\ phase[m] # "out"
    <3>1. <<m, b>> \in Pending(n)' \/ <<m, b>> \in unsent'
      BY <2>3 DEF SentBy, Member
    <3>2. b \in Block'
      BY <1>0 DEF Block, WonBy
    <3>3. ~ (NothingFor(m)' /\ Reached(m)')
      BY <3>1, <3>2 DEF NothingFor, Reached
    <3> QED BY <3>3 DEF NewestHere
  <2> QED BY <2>1, <2>2, <2>3
<1> QED BY <1>4, <1>5, <1>6 DEF OneByOne

LEMMA WinKeeps ==
  ASSUME IInv, NEW n \in Node, NEW p \in Payload, Win(n, p) PROVE IInv'
<1> DEFINE b == Len(made) + 1
<1>1. WonBy(n, b) /\ SentBy(n, b)
  <2> HIDE DEF b
  <2> QED BY WinIs, WinSends DEF b
<1> HIDE DEF b
<1>2. b = Len(made) + 1
  BY DEF b
<1>3. TypeOK' /\ MadeInOrder'
  BY <1>1, <1>2, WinKeepsBlocks
<1>4. \A m \in Node : Reads(m)' /\ Lists(m)' /\ Everything(m)' /\ Excused(m)'
  BY <1>1, <1>2, WinKeepsNodes
<1>5. ~ lagging' /\ ~ mixed' => OneByOne'
  BY <1>1, <1>2, WinKeepsLine
<1> QED BY <1>3, <1>4, <1>5 DEF IInv

-----------------------------------------------------------------------------
(* A block that arrives.                                                       *)

\* The calls change only whom they call, and it has not joined just now.
LEMMA ReceivesKeeps ==
  ASSUME IInv, NEW m \in Node, m \notin down, phase[m] # "out", NEW b \in Block, Receives(m, b),
         unsent \subseteq unsent', \A h \in Node : Pending(h) \subseteq Pending(h)' \cup unsent' \cup {<<m, b>>}
  PROVE  /\ MadeInOrder' /\ \A k \in Node : Reads(k)' /\ Everything(k)' /\ Excused(k)'
         /\ store' \in [Node -> SUBSET Block] /\ tail' \in [Node -> Block] /\ \A k \in Node : tail'[k] \in store'[k]
         /\ (early \cup crossed \cup moved)' \subseteq Node
<1>0. /\ UNCHANGED <<made, at, draft, raced, lagging, members, known, told, phase, answer, down, seedless>>
      /\ store' = [store EXCEPT ![m] = @ \cup {b}] /\ tail' = [tail EXCEPT ![m] = b]
      /\ moved' = moved \cup {x \in {m} : at[m] # "idle"}
      /\ early' = early \cup {x \in {m} : phase[m] = "joined"} /\ crossed' = crossed \cup {x \in {m} : phase[m] = "append"}
      /\ Block' = Block
  BY DEF Receives, Appended, Moved, members, ending, Block
<1>1. store'[m] = store[m] \cup {b} /\ tail'[m] = b /\ \A k \in Node \ {m} : store'[k] = store[k] /\ tail'[k] = tail[k]
  BY <1>0 DEF IInv, TypeOK
<1>2. MadeInOrder'
  BY <1>0 DEF IInv, MadeInOrder, MadeOf, RoundOf
<1>3. ASSUME NEW k \in Node PROVE Reads(k)'
  <2>1. CASE k # m
    BY <1>0, <1>1, <2>1, SameReads
  <2>2. CASE k = m
    <3>1. at[m] # "idle" => m \in moved'
      BY <1>0
    <3> QED BY <1>0, <1>1, <2>2, <3>1 DEF IInv, Reads
  <2> QED BY <2>1, <2>2
<1>4. ASSUME NEW k \in Node PROVE Excused(k)'
  <2>1. CASE k \in seedless
    <3>1. k # m
      BY <2>1 DEF IInv, TypeOK
    <3> QED BY <1>0, <1>1, <2>1, <3>1, StillExcused
  <2>2. CASE k \notin seedless
    BY <1>0, <2>2 DEF Excused
  <2> QED BY <2>1, <2>2
<1>5. ASSUME NEW k \in Node PROVE Everything(k)'
  <2> SUFFICES ASSUME k \notin early'
               PROVE  /\ phase[k] \in {"append", "in"} => \A c \in Block : c \in store'[k] \cup Coming(k)' \/ <<k, c>> \in unsent'
                      /\ phase[k] \in {"out", "joined"} => \A c \in store'[k] \ {0} : made[c].prev \in store'[k]
    BY <1>0 DEF Everything
  <2>1. Everything(k) /\ k \notin early
    BY <1>0 DEF IInv
  <2>2. ASSUME phase[k] \in {"append", "in"}, NEW c \in Block PROVE c \in store'[k] \cup Coming(k)' \/ <<k, c>> \in unsent'
    <3>1. c \in store[k] \cup Coming(k) \/ <<k, c>> \in unsent
      BY <2>1, <2>2 DEF Everything
    <3>2. CASE c \in store[k]
      BY <1>1, <3>2
    <3>3. CASE c \in Coming(k)
      <4>1. c \in Coming(k)' \/ <<k, c>> \in unsent' \/ (k = m /\ c = b)
        BY <1>0, <3>3 DEF Coming
      <4> QED BY <1>1, <4>1
    <3> QED BY <3>1, <3>2, <3>3
  <2>3. ASSUME phase[k] \in {"out", "joined"}, NEW c \in store'[k] \ {0} PROVE made[c].prev \in store'[k]
    <3>1. k # m
      BY <1>0, <2>3
    <3> QED BY <1>1, <2>1, <2>3, <3>1 DEF Everything
  <2> QED BY <2>2, <2>3
<1>6. /\ store' \in [Node -> SUBSET Block] /\ tail' \in [Node -> Block] /\ \A k \in Node : tail'[k] \in store'[k]
      /\ (early \cup crossed \cup moved)' \subseteq Node
  BY <1>0, <1>1 DEF IInv, TypeOK
<1> QED BY <1>2, <1>3, <1>4, <1>5, <1>6

\* What a call in turn leaves of the queue.
Served(n, m) ==
    /\ \A h \in Node : Lists(h)' /\ Pending(h) \subseteq Pending(h)' \cup {<<m, queue[n][1]>>}
    /\ \A h \in Node : NewestLast(h) => NewestLast(h)'
    /\ queue' \in [Node -> Seq(Block \ {0})] /\ serving' \in [Node -> SUBSET Node]
    /\ m \in Others(n)' /\ (Waiting(n)' = {} => Len(queue[n]) = 1) /\ queue[n][1] \in Block

LEMMA ServedIs ==
  ASSUME IInv, NEW n \in Node, NEW m \in serving[n], UNCHANGED <<made, known, phase>>,
         queue' = IF serving[n] \ {m} = {} THEN [queue EXCEPT ![n] = Tail(@)] ELSE queue,
         serving' = [serving EXCEPT ![n] = serving[n] \ {m}]
  PROVE  Served(n, m)
<1> DEFINE q == queue[n]
           rest == serving[n] \ {m}
<1>1. q \in Seq(Block \ {0}) /\ q # <<>> /\ Len(q) \in Nat /\ 1 \in 1 .. Len(q) /\ q[1] \in Block
  BY QueueIs DEF IInv, Lists
<1>2. /\ serving'[n] = rest /\ \A h \in Node \ {n} : serving'[h] = serving[h] /\ queue'[h] = queue[h]
      /\ queue'[n] = IF rest = {} THEN Tail(q) ELSE q
      /\ serving' \in [Node -> SUBSET Node]
  BY DEF IInv, TypeOK
<1>3. /\ Tail(q) \in Seq(Block \ {0}) /\ (Tail(q) # <<>> => Tail(q)[Len(Tail(q))] = q[Len(q)])
      /\ Len(Tail(q)) = Len(q) - 1 /\ \A i \in 1 .. Len(q) - 1 : Tail(q)[i] = q[i + 1]
  <2> HIDE DEF q
  <2> QED BY <1>1
<1>4. queue' \in [Node -> Seq(Block \ {0})]
  BY <1>3 DEF IInv, TypeOK
<1>5. \A h : Others(h)' = Others(h)
  BY DEF Others
<1>6. Waiting(n) = {q[i] : i \in 2 .. Len(q)} /\ Waiting(n)' = Waiting(n)
  <2>1. Waiting(n) = {q[i] : i \in 2 .. Len(q)}
    BY DEF Waiting
  <2>2. CASE rest # {}
    BY <1>2, <2>1, <2>2 DEF Waiting
  <2>3. CASE rest = {}
    <3>0. serving'[n] = {} /\ queue'[n] = Tail(q)
      BY <1>2, <2>3
    <3>1. Waiting(n)' = {Tail(q)[i] : i \in 1 .. Len(Tail(q))}
      <4>1. Waiting(n)' = {queue'[n][i] : i \in 1 .. Len(queue'[n])}
        BY <3>0 DEF Waiting
      <4> QED BY <3>0, <4>1
    <3> HIDE DEF q, rest
    <3>2. \A i \in 1 .. Len(q) - 1 : i + 1 \in 2 .. Len(q)
      BY <1>1
    <3>3. \A i \in 2 .. Len(q) : i - 1 \in 1 .. Len(q) - 1 /\ (i - 1) + 1 = i
      BY <1>1
    <3>4. {Tail(q)[i] : i \in 1 .. Len(q) - 1} \subseteq {q[i] : i \in 2 .. Len(q)}
      BY <1>3, <3>2
    <3>5. ASSUME NEW i \in 2 .. Len(q) PROVE q[i] \in {Tail(q)[j] : j \in 1 .. Len(q) - 1}
      <4>1. PICK j \in 1 .. Len(q) - 1 : j + 1 = i
        BY <3>3
      <4>2. Tail(q)[j] = q[i]
        BY <1>3, <4>1
      <4> QED BY <4>1, <4>2
    <3> QED BY <1>3, <2>1, <3>1, <3>4, <3>5
  <2> QED BY <2>2, <2>3, <2>1
<1>7. ASSUME NEW h \in Node PROVE Pending(h) \subseteq Pending(h)' \cup {<<m, q[1]>>}
  <2>1. CASE h # n
    BY <1>2, <1>5, <2>1 DEF Pending, Waiting
  <2>2. CASE h = n
    <3>1. Pending(n) = serving[n] \X {q[1]} \cup Others(n) \X Waiting(n)
      BY DEF Pending
    <3>2. rest # {} => Pending(n)' = rest \X {q[1]} \cup Others(n) \X Waiting(n)
      BY <1>2, <1>5, <1>6 DEF Pending
    <3>3. rest = {} => Pending(n)' = Others(n) \X Waiting(n)
      BY <1>2, <1>5, <1>6 DEF Pending
    <3> QED BY <2>2, <3>1, <3>2, <3>3
  <2> QED BY <2>1, <2>2
<1>8. ASSUME NEW h \in Node PROVE Lists(h)' /\ (NewestLast(h) => NewestLast(h)')
  <2>1. Lists(h)'
    <3>1. Lists(h)
      BY DEF IInv
    <3> QED BY <1>1, <1>2, <1>5, <3>1 DEF Lists, Member
  <2>2. NewestLast(h) => NewestLast(h)'
    BY <1>2, <1>3 DEF NewestLast
  <2> QED BY <2>1, <2>2
<1>9. m \in Others(n)' /\ (Waiting(n)' = {} => Len(q) = 1)
  <2>1. m \in Others(n)
    BY DEF IInv, Lists
  <2> HIDE DEF q
  <2>2. PICK l \in Nat : l = Len(q) /\ 1 \in 1 .. l
    BY <1>1
  <2>3. l # 1 => 2 \in 2 .. l
    BY <2>2
  <2> QED BY <1>5, <1>6, <2>1, <2>2, <2>3
<1> QED BY <1>1, <1>2, <1>4, <1>7, <1>8, <1>9 DEF Served

\* The last block to arrive is the newest.
LEMMA ServedKeepsLine ==
  ASSUME IInv, NEW n \in Node, NEW m \in Node, Served(n, m), Receives(m, queue[n][1]), unsent' = unsent,
         ~ lagging', mixed' = mixed, ~ mixed'
  PROVE  OneByOne'
<1> DEFINE b == queue[n][1]
<1>0. /\ UNCHANGED <<made, lagging, phase, answer>> /\ Block' = Block /\ b \in Block
      /\ tail'[m] = b /\ \A k \in Node \ {m} : tail'[k] = tail[k]
      /\ early' = early \cup {x \in {m} : phase[m] = "joined"} /\ crossed' = crossed \cup {x \in {m} : phase[m] = "append"}
  BY DEF Receives, Appended, Served, IInv, TypeOK, Block
<1>1. OneByOne
  BY <1>0 DEF IInv
<1>2. AllLinked' /\ \A h \in Node : NewestLast(h)'
  BY <1>0, <1>1 DEF OneByOne, AllLinked, LinkedTo, Served
<1>3. ASSUME NEW k \in Node PROVE NewestHere(k)'
  <2>1. CASE k # m
    <3>1. NothingFor(k)' => NothingFor(k)
      BY <1>0, <2>1 DEF NothingFor, Served
    <3>2. Reached(k)' => Reached(k)
      BY <1>0 DEF Reached
    <3>3. NewestHere(k)
      BY <1>1 DEF OneByOne
    <3> QED BY <1>0, <2>1, <3>1, <3>2, <3>3 DEF NewestHere
  <2>2. CASE k = m
    <3> SUFFICES ASSUME m \notin early' \cup crossed', NothingFor(m)'
                 PROVE  tail'[m] = Len(made) /\ phase[m] # "append"
      BY <1>0, <2>2 DEF NewestHere
    <3>1. phase[m] # "append"
      BY <1>0
    <3>2. Waiting(n)' = {}
      <4>1. \A c \in Waiting(n)' : <<m, c>> \in Pending(n)'
        BY DEF Served, Pending
      <4>2. Waiting(n)' \subseteq Block
        <5>1. queue'[n] \in Seq(Block \ {0})
          BY DEF Served
        <5> DEFINE q == queue'[n]
        <5>2. Waiting(n)' = {q[i] : i \in (IF serving'[n] = {} THEN 1 ELSE 2) .. Len(q)}
          BY DEF Waiting
        <5> HIDE DEF q
        <5>3. q \in Seq(Block \ {0})
          BY <5>1 DEF q
        <5>4. Len(q) \in Nat /\ \A i \in 1 .. Len(q) : q[i] \in Block
          BY <5>3, LenProperties, ElementOfSeq
        <5> QED BY <5>2, <5>4
      <4> QED BY <1>0, <4>1, <4>2 DEF NothingFor
    <3>3. NewestLast(n) /\ Len(queue[n]) = 1
      BY <1>1, <3>2 DEF OneByOne, Served
    <3>4. queue[n] # <<>>
      <4>1. Len(<<>>) = 0
        BY EmptySeq
      <4> QED BY <3>3, <4>1
    <3>5. b = Len(made)
      BY <3>3, <3>4 DEF NewestLast
    <3> QED BY <1>0, <3>1, <3>5
  <2> QED BY <2>1, <2>2
<1> QED BY <1>2, <1>3 DEF OneByOne

LEMMA DistributeKeeps ==
  ASSUME IInv, NEW n \in Node, NEW m \in Node, DistributeDataBlock(n, m) PROVE IInv'
<1> DEFINE b == queue[n][1]
<1>0. queue[n] # <<>> /\ m \in serving[n]
  BY DEF DistributeDataBlock
<1>1. CASE m \notin down /\ CheckDataBlock(b)
  <2>1. /\ Receives(m, b) /\ UNCHANGED <<unsent, mixed>>
        /\ queue' = IF serving[n] \ {m} = {} THEN [queue EXCEPT ![n] = Tail(@)] ELSE queue
        /\ serving' = [serving EXCEPT ![n] = serving[n] \ {m}]
    BY <1>1 DEF DistributeDataBlock
  <2>2. UNCHANGED <<made, at, draft, raced, lagging, members, known, told, phase, answer, down, seedless>> /\ Block' = Block
    BY <2>1 DEF Receives, members, ending, Block
  <2>3. Served(n, m)
    BY <1>0, <2>1, <2>2, ServedIs
  <2>4. phase[m] # "out"
    BY <1>0 DEF IInv, Lists, Others, Member
  <2>5. /\ MadeInOrder' /\ \A k \in Node : Reads(k)' /\ Everything(k)' /\ Excused(k)'
        /\ store' \in [Node -> SUBSET Block] /\ tail' \in [Node -> Block] /\ \A k \in Node : tail'[k] \in store'[k]
        /\ (early \cup crossed \cup moved)' \subseteq Node
    <3>1. b \in Block /\ \A h \in Node : Pending(h) \subseteq Pending(h)' \cup unsent' \cup {<<m, b>>}
      BY <2>3 DEF Served
    <3> HIDE DEF b
    <3> QED BY <1>1, <2>1, <2>4, <3>1, ReceivesKeeps
  <2>6. TypeOK'
    BY <2>1, <2>2, <2>3, <2>5 DEF Served, IInv, TypeOK, MembersOK
  <2>7. ~ lagging' /\ ~ mixed' => OneByOne'
    BY <2>1, <2>3, ServedKeepsLine
  <2> QED BY <2>3, <2>5, <2>6, <2>7 DEF Served, IInv
<1>2. CASE ~ (m \notin down /\ CheckDataBlock(b))
  <2>1. Ends({n, m}) /\ UNCHANGED <<ledger, proposing, joining, seedless>>
    BY <1>2 DEF DistributeDataBlock
  <2>2. seedless' \subseteq down'
    BY <2>1 DEF Ends, IInv, TypeOK
  <2> QED BY <2>1, <2>2, EndKeeps
<1> QED BY <1>1, <1>2

LEMMA TakeKeeps ==
  ASSUME IInv, NEW n \in Node, Take(n) PROVE IInv'
<1>0. /\ UNCHANGED <<ledger, proposing, joining, raced, lagging, unsent, mixed, down, seedless>>
      /\ UNCHANGED <<made, store, tail, at, draft, moved, known, told, phase, answer, early, crossed>>
  BY DEF Take, ledger, proposing, joining, members, ending
<1>1. /\ PendingKept /\ (\A m \in Node : Lists(m)' /\ (NewestLast(m) => NewestLast(m)'))
      /\ queue' \in [Node -> Seq(Block \ {0})] /\ serving' \in [Node -> SUBSET Node]
  BY TakeIs
<1>2. TypeOK'
  BY <1>0, <1>1 DEF IInv, TypeOK, MembersOK, Block
<1>3. \A m \in Node : Reads(m)'
  BY <1>0, SameReads
<1>4. \A m \in Node : Excused(m)'
  BY <1>0 DEF IInv, Excused, Whole
<1>5. MadeInOrder' /\ (\A m \in Node : Everything(m)') /\ (~ lagging /\ ~ mixed => OneByOne)'
  BY <1>0, <1>1, NothingMade
<1> QED BY <1>1, <1>2, <1>3, <1>4, <1>5 DEF IInv

\* What two distributors do to a queue.
LEMMA AgainKeeps ==
  ASSUME IInv, NEW n \in Node, NEW m \in Node, Again(n, m) PROVE IInv'
<1>0. m \in Others(n) \ down /\ mixed' = TRUE /\ UNCHANGED <<queue, serving, unsent>>
  BY DEF Again
<1>1. PICK b \in DOMAIN made : Receives(m, b)
  BY DEF Again
<1>2. UNCHANGED <<made, at, draft, raced, lagging, members, known, told, phase, answer, down, seedless>> /\ Block' = Block
  BY <1>1 DEF Receives, members, ending, Block
<1>3. b \in Block
  BY BlockIs DEF IInv
<1>4. phase[m] # "out"
  BY <1>0 DEF IInv, Lists, Others, Member
<1>5. \A h \in Node : Pending(h)' = Pending(h)
  BY <1>0, <1>2 DEF Pending, Waiting, Others
<1>6. /\ MadeInOrder' /\ \A k \in Node : Reads(k)' /\ Everything(k)' /\ Excused(k)'
      /\ store' \in [Node -> SUBSET Block] /\ tail' \in [Node -> Block] /\ \A k \in Node : tail'[k] \in store'[k]
      /\ (early \cup crossed \cup moved)' \subseteq Node
  BY <1>0, <1>1, <1>3, <1>4, <1>5, ReceivesKeeps
<1>7. TypeOK'
  BY <1>0, <1>2, <1>6 DEF IInv, TypeOK, MembersOK
<1>8. \A h \in Node : Lists(h)'
  BY <1>0, <1>2 DEF IInv, Lists, Member, Others
<1> QED BY <1>0, <1>6, <1>7, <1>8 DEF IInv

LEMMA CutOffKeeps ==
  ASSUME IInv, NEW n \in Node, CutOff(n) PROVE IInv'
<1>0. /\ UNCHANGED <<ledger, proposing, joining, raced, lagging, serving, down, seedless>>
      /\ UNCHANGED <<made, store, tail, at, draft, moved, known, told, phase, answer, early, crossed>>
      /\ Waiting(n) # {} /\ mixed' = TRUE /\ unsent' = unsent \cup Others(n) \X Waiting(n)
      /\ queue' = [queue EXCEPT ![n] = IF serving[n] = {} THEN <<>> ELSE <<@[1]>>]
  BY DEF CutOff, ledger, proposing, joining, members, ending
<1>1. queue[n] # <<>> /\ 1 \in 1 .. Len(queue[n]) /\ queue[n][1] \in Block \ {0} /\ Waiting(n) \subseteq Block
  BY <1>0, QueueIs DEF IInv
<1>2. /\ queue'[n] = (IF serving[n] = {} THEN <<>> ELSE <<queue[n][1]>>)
      /\ \A m \in Node \ {n} : queue'[m] = queue[m]
      /\ queue' \in [Node -> Seq(Block \ {0})]
  <2>1. <<>> \in Seq(Block \ {0}) /\ <<queue[n][1]>> \in Seq(Block \ {0})
    BY <1>1
  <2> QED BY <1>0, <2>1 DEF IInv, TypeOK
<1>3. \A m : Others(m)' = Others(m)
  BY <1>0 DEF Others
<1>4. ASSUME NEW m \in Node PROVE Pending(m) \subseteq Pending(m)' \cup unsent'
  <2>1. CASE m # n
    BY <1>0, <1>2, <1>3, <2>1 DEF Pending, Waiting
  <2>2. CASE m = n
    <3>1. serving[n] # {} => serving[n] \X {queue[n][1]} \subseteq Pending(n)'
      BY <1>0, <1>2 DEF Pending
    <3> QED BY <1>0, <2>2, <3>1 DEF Pending
  <2> QED BY <2>1, <2>2
<1>5. ASSUME NEW m \in Node PROVE Lists(m)'
  <2>1. Lists(m) /\ <<queue[n][1]>> # <<>>
    BY DEF IInv
  <2> QED BY <1>0, <1>2, <1>3, <2>1 DEF Lists, Member
<1>6. TypeOK'
  <2>1. unsent' \subseteq Node \X Block
    BY <1>0, <1>1 DEF IInv, TypeOK, MembersOK, Others
  <2> QED BY <1>0, <1>2, <2>1 DEF IInv, TypeOK, MembersOK, Block
<1>7. \A m \in Node : Reads(m)'
  BY <1>0, SameReads
<1>8. \A m \in Node : Excused(m)'
  BY <1>0 DEF IInv, Excused, Whole
<1>9. MadeInOrder' /\ (\A m \in Node : Everything(m)') /\ (~ lagging /\ ~ mixed => OneByOne)'
  <2>1. PendingKept
    BY <1>0, <1>4 DEF PendingKept
  <2> QED BY <1>0, <2>1, NothingMade
<1> QED BY <1>5, <1>6, <1>7, <1>8, <1>9 DEF IInv

LEMMA NilBlockKeeps ==
  ASSUME IInv, NEW n \in Node, NilBlock(n) PROVE IInv'
<1>1. Ends({n}) /\ UNCHANGED <<ledger, proposing, joining, seedless>>
  BY DEF NilBlock
<1>2. seedless' \subseteq down'
  BY <1>1 DEF Ends, IInv, TypeOK
<1> QED BY <1>1, <1>2, EndKeeps

-----------------------------------------------------------------------------
(* Joining.                                                                    *)

\* The contact sends to the joiner from now on, and the joiner to the list of the contact.
LEMMA JoinIs ==
  ASSUME IInv, NEW n \in Node, NEW c \in Node, Join(n, c)
  PROVE  /\ known' \in [Node -> SUBSET Node] /\ told' \subseteq Node /\ known'[n] = known[c] \cup {n} /\ c # n
         /\ (\A m \in Node \ {n} : known'[m] = known[m] \cup {x \in {n} : m = c})
         /\ PendingKept /\ \A m \in Node : Lists(m)'
<1>0. /\ phase[n] = "out" /\ phase[c] # "out" /\ phase' = [phase EXCEPT ![n] = "joined"]
      /\ known' = [known EXCEPT ![c] = @ \cup {n}, ![n] = known[c] \cup {n}]
      /\ told' = told \cup (known[c] \ {c}) /\ UNCHANGED <<queue, serving, unsent>>
  BY DEF Join, Enlist, Member, sending
<1>1. known \in [Node -> SUBSET Node] /\ told \subseteq Node /\ phase \in [Node -> {"out", "joined", "append", "in"}]
  BY DEF IInv, TypeOK, MembersOK
<1>2. /\ known' \in [Node -> SUBSET Node] /\ known'[n] = known[c] \cup {n} /\ c # n
      /\ \A m \in Node \ {n} : known'[m] = known[m] \cup {x \in {n} : m = c}
  BY <1>0, <1>1
<1>3. told' \subseteq Node
  BY <1>0, <1>1
<1>4. known[n] = {} /\ serving[n] = {}
  BY <1>0 DEF IInv, Lists, Others
<1>5. phase'[n] = "joined" /\ (\A m \in Node \ {n} : phase'[m] = phase[m]) /\ Member' = Member \cup {n}
  <2>1. phase'[n] = "joined" /\ \A m \in Node \ {n} : phase'[m] = phase[m]
    BY <1>0, <1>1
  <2> QED BY <2>1 DEF Member
<1>6. \A m \in Node : Others(m) \subseteq Others(m)'
  BY <1>2, <1>4 DEF Others
<1>7. ASSUME NEW m \in Node PROVE Pending(m) \subseteq Pending(m)'
  BY <1>0, <1>6 DEF Pending, Waiting
<1>8. ASSUME NEW m \in Node PROVE Lists(m)'
  <2>1. Lists(m) /\ known[c] \subseteq Member
    BY DEF IInv, Lists
  <2>2. CASE m = n
    BY <1>0, <1>2, <1>4, <1>5, <2>1, <2>2 DEF Lists
  <2>3. CASE m # n
    <3>1. known'[m] \subseteq Member' /\ (phase'[m] = "out" => known'[m] = {})
      BY <1>0, <1>2, <1>5, <2>1, <2>3 DEF Lists
    <3> QED BY <1>0, <1>6, <2>1, <3>1 DEF Lists
  <2> QED BY <2>2, <2>3
<1> QED BY <1>0, <1>2, <1>3, <1>7, <1>8 DEF PendingKept

LEMMA JoinKeeps ==
  ASSUME IInv, NEW n \in Node, NEW c \in Node, Join(n, c) PROVE IInv'
<1>0. /\ UNCHANGED <<made, store, tail, at, draft, moved, raced, lagging, queue, serving, unsent, mixed>>
      /\ UNCHANGED <<answer, early, crossed, seedless>> /\ Block' = Block
      /\ phase[n] = "out" /\ phase' = [phase EXCEPT ![n] = "joined"] /\ down \subseteq down' /\ down' \subseteq down \cup {n}
  BY DEF Join, ledger, proposing, sending, Block
<1>1. phase'[n] = "joined" /\ \A m \in Node \ {n} : phase'[m] = phase[m]
  BY <1>0 DEF IInv, TypeOK
<1>2. /\ PendingKept /\ (\A m \in Node : Lists(m)')
      /\ known' \in [Node -> SUBSET Node] /\ told' \subseteq Node
  BY JoinIs
<1>3. TypeOK' /\ MadeInOrder'
  BY <1>0, <1>2 DEF IInv, TypeOK, MembersOK, MadeInOrder, MadeOf, RoundOf
<1>4. ASSUME NEW m \in Node PROVE Reads(m)' /\ Excused(m)'
  BY <1>0 DEF IInv, Reads, Last, RoundOf, Excused, Whole
<1>5. ASSUME NEW m \in Node PROVE Everything(m)'
  <2>1. CASE m # n
    BY <1>0, <1>1, <1>2, <2>1, StillEverything
  <2>2. CASE m = n
    <3>1. Everything(n)
      BY DEF IInv
    <3> QED BY <1>0, <1>1, <2>2, <3>1 DEF Everything
  <2> QED BY <2>1, <2>2
<1>6. ASSUME ~ lagging', ~ mixed' PROVE OneByOne'
  <2>1. OneByOne
    BY <1>0, <1>6 DEF IInv
  <2>2. AllLinked' /\ \A m \in Node : NewestLast(m)'
    BY <1>0, <2>1 DEF OneByOne, AllLinked, LinkedTo, NewestLast
  <2>3. ASSUME NEW m \in Node PROVE NewestHere(m)'
    <3>1. CASE m # n
      BY <1>0, <1>1, <1>2, <2>1, <3>1, StillNewest
    <3>2. CASE m = n
      BY <1>1, <3>2 DEF NewestHere
    <3> QED BY <3>1, <3>2
  <2> QED BY <2>2, <2>3 DEF OneByOne
<1> QED BY <1>2, <1>3, <1>4, <1>5, <1>6 DEF IInv

\* A joiner that is given the blocks of the answer, or that has none to ask for.  The answer
\* to a node in step has every block, so the newest one.
LEMMA EnteredKeeps ==
  ASSUME IInv, NEW n \in Node, NEW behind \in SUBSET Block, NEW p \in {"append", "in"},
         UNCHANGED <<ledger, proposing, sending, members, crossed, ending>>, phase[n] = "joined",
         phase' = [phase EXCEPT ![n] = p], answer' = [answer EXCEPT ![n] = behind],
         early \subseteq early', early' \subseteq Node,
         n \notin early' => IF p = "in" THEN made = <<>> ELSE behind = Block \ {0}
  PROVE  IInv'
<1>0. /\ UNCHANGED <<made, store, tail, at, draft, moved, raced, lagging, queue, serving, unsent, mixed>>
      /\ UNCHANGED <<known, told, crossed, down, seedless>> /\ Block' = Block
  BY DEF ledger, proposing, sending, members, ending, Block
<1>1. /\ phase'[n] = p /\ answer'[n] = behind
      /\ \A m \in Node \ {n} : phase'[m] = phase[m] /\ answer'[m] = answer[m]
      /\ Member' = Member
  <2>1. phase'[n] = p /\ answer'[n] = behind /\ \A m \in Node \ {n} : phase'[m] = phase[m] /\ answer'[m] = answer[m]
    BY DEF IInv, TypeOK
  <2> QED BY <2>1 DEF Member
<1>2. \A m \in Node : Pending(m)' = Pending(m)
  BY <1>0 DEF Pending, Waiting, Others
<1>3. PendingKept
  BY <1>0, <1>2 DEF PendingKept
<1>4. TypeOK' /\ MadeInOrder'
  BY <1>0 DEF IInv, TypeOK, MembersOK, MadeInOrder, MadeOf, RoundOf
<1>5. ASSUME NEW m \in Node PROVE Reads(m)' /\ Excused(m)'
  BY <1>0 DEF IInv, Reads, Last, RoundOf, Excused, Whole
<1>6. ASSUME NEW m \in Node PROVE Lists(m)'
  BY <1>0, <1>1 DEF IInv, Lists, Others
<1>7. ASSUME NEW m \in Node PROVE Everything(m)'
  <2>1. CASE m # n
    BY <1>0, <1>1, <1>3, <2>1, StillEverything
  <2>2. CASE m = n
    <3>1. behind \subseteq Coming(n)' /\ 0 \in store[n]
      BY <1>1 DEF Coming, IInv, Reads
    <3>2. made = <<>> => Block = {0}
      <4>1. made = <<>> => Len(made) = 0
        BY EmptySeq
      <4> QED BY <4>1 DEF Block
    <3> QED BY <1>0, <1>1, <2>2, <3>1, <3>2 DEF Everything
  <2> QED BY <2>1, <2>2
<1>8. ASSUME ~ lagging', ~ mixed' PROVE OneByOne'
  <2>1. OneByOne
    BY <1>0, <1>8 DEF IInv
  <2>2. AllLinked' /\ \A m \in Node : NewestLast(m)'
    BY <1>0, <2>1 DEF OneByOne, AllLinked, LinkedTo, NewestLast
  <2>3. ASSUME NEW m \in Node PROVE NewestHere(m)'
    <3>1. CASE m # n
      BY <1>0, <1>1, <1>3, <2>1, <3>1, StillNewest
    <3>2. CASE m = n
      <4> SUFFICES ASSUME n \notin early'
                   PROVE  /\ p = "in" => tail[n] = Len(made)
                          /\ p = "append" => IF behind = {} THEN tail[n] = Len(made) ELSE Len(made) \in behind
        BY <1>0, <1>1, <3>2 DEF NewestHere
      <4>1. Len(made) \in Nat /\ Block = 0 .. Len(made) /\ tail[n] \in Block
        BY BlockIs DEF IInv
      <4>2. made = <<>> => Len(made) = 0
        BY EmptySeq
      <4>3. CASE p = "in"
        <5>1. Len(made) = 0 /\ tail[n] = 0
          BY <4>1, <4>2, <4>3
        <5> QED BY <4>3, <5>1
      <4>4. CASE p = "append" /\ Len(made) = 0
        <5>1. behind = {} /\ tail[n] = 0
          BY <4>1, <4>4
        <5> QED BY <4>4, <5>1
      <4>5. CASE p = "append" /\ Len(made) # 0
        <5>1. Len(made) \in behind
          BY <4>1, <4>5
        <5> QED BY <4>5, <5>1
      <4> QED BY <4>3, <4>4, <4>5
    <3> QED BY <3>1, <3>2
  <2> QED BY <2>2, <2>3 DEF OneByOne
<1> QED BY <1>4, <1>5, <1>6, <1>7, <1>8 DEF IInv

LEMMA SynchroniseKeeps ==
  ASSUME IInv, NEW n \in Node, NEW s \in Node, Synchronise(n, s) PROVE IInv'
<1> DEFINE behind == Back(s, tail[n])
<1>1. CASE s \in down \/ Missing \in behind
  <2>1. Ends({n, s}) /\ UNCHANGED <<ledger, proposing, joining, seedless>>
    BY <1>1 DEF Synchronise
  <2>2. seedless' \subseteq down'
    BY <2>1 DEF Ends, IInv, TypeOK
  <2> QED BY <2>1, <2>2, EndKeeps
<1>2. CASE ~ (s \in down \/ Missing \in behind)
  <2>1. /\ answer' = [answer EXCEPT ![n] = behind] /\ phase' = [phase EXCEPT ![n] = "append"]
        /\ early' = early \cup {x \in {n} : behind # Block \ {0}}
        /\ UNCHANGED <<ledger, proposing, sending, members, crossed, ending>> /\ phase[n] = "joined"
    BY <1>2 DEF Synchronise
  <2>2. behind \subseteq Block
    BY <1>2, BackIsBlocks DEF IInv
  <2> HIDE DEF behind
  <2>3. early \subseteq early' /\ early' \subseteq Node /\ (n \notin early' => behind = Block \ {0})
    BY <2>1 DEF IInv, TypeOK
  <2> QED BY <2>1, <2>2, <2>3, EnteredKeeps
<1> QED BY <1>1, <1>2

LEMMA NoSourceKeeps ==
  ASSUME IInv, NEW n \in Node, NoSource(n) PROVE IInv'
<1>1. /\ UNCHANGED <<ledger, proposing, sending, members, answer, crossed, ending>> /\ phase[n] = "joined"
      /\ phase' = [phase EXCEPT ![n] = "in"] /\ early' = early \cup {x \in {n} : made # <<>>}
  BY DEF NoSource
<1>2. answer' = [answer EXCEPT ![n] = answer[n]] /\ answer[n] \in SUBSET Block
  BY <1>1 DEF IInv, TypeOK
<1>3. early \subseteq early' /\ early' \subseteq Node /\ (n \notin early' => made = <<>>)
  BY <1>1 DEF IInv, TypeOK
<1>4. "in" \in {"append", "in"}
  OBVIOUS
<1> QED BY <1>1, <1>2, <1>3, <1>4, EnteredKeeps

\* The earliest block of an answer.
LEMMA FirstIs ==
  ASSUME NEW S \in SUBSET Nat, S # {} PROVE FirstOf(S) \in S /\ \A c \in S : FirstOf(S) <= c
<1>1. \E b \in S : \A c \in S : b <= c
  BY Least
<1> QED BY <1>1 DEF FirstOf

\* The blocks of the answer go to the store one by one, the newest last.
LEMMA AppendAnswerKeeps ==
  ASSUME IInv, NEW n \in Node, AppendAnswer(n) PROVE IInv'
<1>0. /\ UNCHANGED <<made, at, draft, raced, lagging, queue, serving, unsent, mixed>>
      /\ UNCHANGED <<members, known, told, early, crossed, down, seedless>>
      /\ n \notin down /\ phase[n] = "append" /\ Block' = Block
  BY DEF AppendAnswer, ending, ledger, sending, members, Block
<1>1. \A m \in Node : Pending(m)' = Pending(m)
  BY <1>0 DEF Pending, Waiting, Others
<1>2. PendingKept
  BY <1>0, <1>1 DEF PendingKept
<1>3. CASE answer[n] = {}
  <2>1. phase' = [phase EXCEPT ![n] = "in"] /\ UNCHANGED <<answer, store, tail, moved>>
    BY <1>3 DEF AppendAnswer, ledger
  <2>2. phase'[n] = "in" /\ (\A m \in Node \ {n} : phase'[m] = phase[m]) /\ Member' = Member
    <3>1. phase'[n] = "in" /\ \A m \in Node \ {n} : phase'[m] = phase[m]
      BY <2>1 DEF IInv, TypeOK
    <3> QED BY <1>0, <3>1 DEF Member
  <2>3. TypeOK' /\ MadeInOrder'
    BY <1>0, <2>1 DEF IInv, TypeOK, MembersOK, MadeInOrder, MadeOf, RoundOf
  <2>4. ASSUME NEW m \in Node PROVE Reads(m)' /\ Lists(m)' /\ Excused(m)'
    <3>1. Reads(m)' /\ Excused(m)'
      BY <1>0, <2>1 DEF IInv, Reads, Last, RoundOf, Excused, Whole
    <3>2. Lists(m)'
      BY <1>0, <2>2 DEF IInv, Lists, Others
    <3> QED BY <3>1, <3>2
  <2>5. ASSUME NEW m \in Node PROVE Everything(m)'
    <3>1. CASE m # n
      BY <1>0, <1>2, <2>1, <2>2, <3>1, StillEverything
    <3>2. CASE m = n
      <4>1. Coming(n)' = Coming(n) /\ Everything(n)
        BY <1>0, <1>1, <2>1 DEF Coming, IInv
      <4> QED BY <1>0, <2>1, <2>2, <3>2, <4>1 DEF Everything
    <3> QED BY <3>1, <3>2
  <2>6. ASSUME ~ lagging', ~ mixed' PROVE OneByOne'
    <3>1. OneByOne
      BY <1>0, <2>6 DEF IInv
    <3>2. AllLinked' /\ \A m \in Node : NewestLast(m)'
      BY <1>0, <3>1 DEF OneByOne, AllLinked, LinkedTo, NewestLast
    <3>3. ASSUME NEW m \in Node PROVE NewestHere(m)'
      <4>1. NewestHere(m) /\ (NothingFor(m)' => NothingFor(m)) /\ (Reached(m)' => Reached(m))
        BY <1>0, <1>1, <3>1 DEF OneByOne, NothingFor, Reached
      <4> QED BY <1>0, <1>3, <2>1, <2>2, <4>1 DEF NewestHere
    <3> QED BY <3>2, <3>3 DEF OneByOne
  <2> QED BY <2>3, <2>4, <2>5, <2>6 DEF IInv
<1>4. CASE answer[n] # {}
  <2> DEFINE b == FirstOf(answer[n])
  <2>1. /\ store' = [store EXCEPT ![n] = @ \cup {b}] /\ tail' = [tail EXCEPT ![n] = b]
        /\ UNCHANGED phase /\ answer' = [answer EXCEPT ![n] = @ \ {b}] /\ moved' = moved \cup {x \in {n} : at[n] # "idle"}
    BY <1>4 DEF AppendAnswer, Appended, Moved
  <2>2. b \in answer[n] /\ b \in Block /\ (\A c \in answer[n] : b <= c) /\ answer[n] \subseteq Block
    <3>1. answer[n] \subseteq Block /\ Block \subseteq Nat
      BY BlockIs DEF IInv, TypeOK
    <3> QED BY <1>4, <3>1, FirstIs
  <2> HIDE DEF b
  <2>3. /\ store'[n] = store[n] \cup {b} /\ tail'[n] = b /\ answer'[n] = answer[n] \ {b}
        /\ \A m \in Node \ {n} : store'[m] = store[m] /\ tail'[m] = tail[m] /\ answer'[m] = answer[m]
    BY <2>1 DEF IInv, TypeOK
  <2>4. TypeOK' /\ MadeInOrder'
    <3>1. TypeOK'
      BY <1>0, <2>1, <2>2 DEF IInv, TypeOK, MembersOK
    <3>2. MadeInOrder'
      BY <1>0 DEF IInv, MadeInOrder, MadeOf, RoundOf
    <3> QED BY <3>1, <3>2
  <2>5. ASSUME NEW m \in Node PROVE Reads(m)' /\ Lists(m)' /\ Excused(m)'
    <3>1. Lists(m)'
      BY <1>0, <2>1 DEF IInv, Lists, Member, Others
    <3>2. CASE m = n
      <4>1. (at[n] # "idle" => n \in moved') /\ n \notin seedless'
        BY <1>0, <2>1 DEF IInv, TypeOK
      <4> QED BY <1>0, <2>1, <2>3, <3>1, <3>2, <4>1 DEF IInv, Reads, Excused
    <3>3. CASE m # n
      <4>1. Reads(m)'
        BY <1>0, <2>1, <2>3, <3>3, SameReads
      <4>2. Excused(m)'
        <5>1. CASE m \in seedless
          BY <1>0, <2>1, <2>3, <3>3, <5>1, StillExcused
        <5>2. CASE m \notin seedless
          BY <1>0, <5>2 DEF Excused
        <5> QED BY <5>1, <5>2
      <4> QED BY <3>1, <4>1, <4>2
    <3> QED BY <3>2, <3>3
  <2>6. ASSUME NEW m \in Node PROVE Everything(m)'
    <3>1. CASE m # n
      BY <1>0, <1>2, <2>1, <2>3, <3>1, StillEverything
    <3>2. CASE m = n
      <4>1. Coming(n) \subseteq Coming(n)' \cup {b} /\ Everything(n)
        BY <1>0, <1>1, <2>3 DEF Coming, IInv
      <4> QED BY <1>0, <2>1, <2>3, <3>2, <4>1 DEF Everything
    <3> QED BY <3>1, <3>2
  <2>7. ASSUME ~ lagging', ~ mixed' PROVE OneByOne'
    <3>1. OneByOne /\ UNCHANGED <<phase, crossed, early, made>>
      BY <1>0, <2>1, <2>7 DEF IInv
    <3>2. AllLinked' /\ \A m \in Node : NewestLast(m)'
      BY <1>0, <3>1 DEF OneByOne, AllLinked, LinkedTo, NewestLast
    <3>3. ASSUME NEW m \in Node PROVE NewestHere(m)'
      <4>0. NewestHere(m) /\ (NothingFor(m)' => NothingFor(m)) /\ (Reached(m)' => Reached(m))
        BY <1>0, <1>1, <3>1 DEF OneByOne, NothingFor, Reached
      <4>1. CASE m = n
        <5> SUFFICES ASSUME n \notin early \cup crossed, NothingFor(n), Reached(n)
                     PROVE  IF answer[n] \ {b} = {} THEN b = Len(made) ELSE Len(made) \in answer[n] \ {b}
          BY <1>0, <2>3, <3>1, <4>0, <4>1 DEF NewestHere
        <5>1. Len(made) \in answer[n]
          BY <1>0, <1>4, <4>0, <4>1 DEF NewestHere
        <5>2. \A c \in answer[n] : c \in 0 .. Len(made) /\ b <= c /\ b \in Nat /\ Len(made) \in Nat
          BY <2>2, BlockIs DEF IInv
        <5>3. CASE b = Len(made)
          <6>1. \A c \in answer[n] : c = b
            BY <5>2, <5>3
          <6> QED BY <5>3, <6>1
        <5>4. CASE b # Len(made)
          BY <5>1, <5>4
        <5> QED BY <5>3, <5>4
      <4>2. CASE m # n
        <5>1. tail'[m] = tail[m] /\ answer'[m] = answer[m]
          BY <2>3, <4>2
        <5> QED BY <3>1, <4>0, <5>1 DEF NewestHere
      <4> QED BY <4>1, <4>2
    <3> QED BY <3>2, <3>3 DEF OneByOne
  <2> QED BY <2>4, <2>5, <2>6, <2>7 DEF IInv
<1> QED BY <1>3, <1>4

-----------------------------------------------------------------------------
(* The theorems.                                                               *)

LEMMA InitHas ==
  ASSUME LedgerAssumption, Init PROVE IInv
<1>1. Len(made) = 0 /\ Block = {0} /\ made \in Seq(DataBlock)
  <2>1. made = <<>>
    BY DEF Init
  <2>2. Len(made) = 0 /\ made \in Seq(DataBlock)
    BY <2>1, EmptySeq
  <2> QED BY <2>2 DEF Block
<1>2. ASSUME NEW n \in Node
      PROVE  /\ queue[n] = <<>> /\ serving[n] = {} /\ store[n] = {0} /\ tail[n] = 0 /\ draft[n].prev = 0 /\ at[n] = "idle"
             /\ phase[n] = (IF n \in Joiner THEN "out" ELSE "in") /\ known[n] = IF n \in Joiner THEN {} ELSE Node \ Joiner
  BY DEF Init, MembersInit, Unread
<1>3. TypeOK
  <2>1. queue \in [Node -> Seq(Block \ {0})]
    <3>1. <<>> \in Seq(Block \ {0})
      BY EmptySeq
    <3> QED BY <3>1 DEF Init
  <2>2. store \in [Node -> SUBSET Block] /\ tail \in [Node -> Block] /\ \A n \in Node : tail[n] \in store[n]
    BY <1>1 DEF Init
  <2>3. MembersOK
    BY DEF Init, MembersInit, MembersOK
  <2>4. draft \in [Node -> [round : Nat, prev : Nat]] /\ at \in [Node -> {"idle", "round", "seed", "init", "agree"}]
    BY DEF Init, Unread
  <2> QED BY <1>1, <2>1, <2>2, <2>3, <2>4 DEF Init, TypeOK
<1>4. MadeInOrder /\ AllLinked
  BY <1>1 DEF MadeInOrder, AllLinked
<1>5. ASSUME NEW n \in Node PROVE Reads(n) /\ Lists(n) /\ Everything(n) /\ Excused(n)
  <2>1. Reads(n) /\ Excused(n)
    BY <1>2 DEF Reads, Excused, Init
  <2>2. Everything(n)
    BY <1>1, <1>2 DEF Everything
  <2>3. Lists(n)
    BY <1>2 DEF Lists, Member
  <2> QED BY <2>1, <2>2, <2>3
<1>6. ASSUME NEW n \in Node PROVE NewestLast(n) /\ NewestHere(n)
  BY <1>1, <1>2 DEF NewestLast, NewestHere
<1> QED BY <1>3, <1>4, <1>5, <1>6 DEF IInv, OneByOne

\* A step that changes nothing.
LEMMA StutterKeeps ==
  ASSUME IInv, UNCHANGED vars PROVE IInv'
<1>0. /\ UNCHANGED <<made, store, tail, at, draft, moved, raced, lagging, queue, serving, unsent, mixed>>
      /\ UNCHANGED <<ledger, sending, joining, members, known, told, phase, answer, early, crossed, down, seedless>>
  BY DEF vars, ledger, proposing, sending, joining, members, ending
<1>1. TypeOK'
  BY <1>0 DEF IInv, TypeOK, MembersOK, Block
<1>2. \A n \in Node : Reads(n)' /\ Excused(n)'
  BY <1>0 DEF IInv, Reads, Last, RoundOf, Excused, Whole
<1>3. PendingKept /\ (\A n \in Node : Lists(n)' /\ (NewestLast(n) => NewestLast(n)'))
  BY <1>0, NothingSent
<1>4. MadeInOrder' /\ (\A n \in Node : Everything(n)') /\ (~ lagging /\ ~ mixed => OneByOne)'
  BY <1>0, <1>3, NothingMade
<1> QED BY <1>1, <1>2, <1>3, <1>4 DEF IInv

\* A ledger keeps what the walks along its links rely on: a block is linked to one made
\* before it, a node in step has every block or will, but for those it was not sent, and while
\* blocks are made one after the other the newest is the tail wherever none is on its way.
THEOREM Invariance == Spec => []IInv
<1>1. Init => IInv
  BY InitHas, LedgerAssumption
<1>2. IInv /\ [Next]_vars => IInv'
  <2> SUFFICES ASSUME IInv, [Next]_vars PROVE IInv'
    OBVIOUS
  <2> USE LedgerAssumption
  <2>1. CASE UNCHANGED vars
    BY <2>1, StutterKeeps
  <2>2. ASSUME NEW n \in Node, Propose(n) PROVE IInv'
    BY <2>2, SortitionKeeps, RoundKeeps, vrfSeedKeeps, InitBlockKeeps, LoseKeeps, WinKeeps DEF Propose
  <2>3. ASSUME NEW n \in Node, Enter(n) PROVE IInv'
    BY <2>3, JoinKeeps, SynchroniseKeeps, NoSourceKeeps, AppendAnswerKeeps DEF Enter
  <2>4. ASSUME NEW n \in Node, Send(n) PROVE IInv'
    BY <2>4, TakeKeeps, DistributeKeeps DEF Send
  <2>5. ASSUME NEW n \in Node, Mix(n) PROVE IInv'
    BY <2>5, AgainKeeps, CutOffKeeps, NilBlockKeeps DEF Mix
  <2> QED BY <2>1, <2>2, <2>3, <2>4, <2>5 DEF Next
<1> QED BY <1>1, <1>2, PTL DEF Spec

\* AddBlockToChain links nothing, and yet the block before one in a store is there or on
\* its way, wherever the node was in step and its author sent it.
THEOREM HolesAreFilled == Spec => []Inv
<1>1. IInv => Inv
  BY HoleIsComingHolds DEF IInv, Inv
<1> QED BY <1>1, Invariance, PTL

\* A proposer ends over a seed (vrfSeed, SortitionSeed) only if a tail moved while it was
\* read, or a block is missing.
THEOREM SeedsAreFound == Spec => []SeedFound
<1>1. IInv => SeedFound
  BY SeedFoundHolds DEF IInv
<1> QED BY <1>1, Invariance, PTL

\* GetByRound finds the block of every round from the second on that is on the line.
THEOREM RoundsAreFound == Spec => []FindsRound
<1>1. IInv => FindsRound
  BY FindsRoundHolds, LedgerAssumption DEF IInv
<1> QED BY <1>1, Invariance, PTL

\* Blocks that are made one after the other, by nodes in step, end in one line, the same
\* for all nodes that run and that every author had in its list, although no receiver looks
\* at a link; if no two distributors of a node were at its queue at once.
THEOREM LedgersAgree == Spec => []OneLine
<1>1. IInv => OneLine
  BY OneLineHolds
<1> QED BY <1>1, Invariance, PTL

-----------------------------------------------------------------------------
(* Merkle trees.                                                               *)

\* A list that is not empty.
List(a) == Len(a) \in Nat \ {0} /\ a = [i \in 1 .. Len(a) |-> a[i]]

\* Every function on a beginning of the numbers is one.
LEMMA ListOf ==
  ASSUME NEW n \in Nat \ {0}, NEW a, a = [i \in 1 .. n |-> a[i]]
  PROVE  List(a) /\ Len(a) = n
<1> DEFINE S == {a[i] : i \in 1 .. n}
<1>1. a \in [1 .. n -> S]
  <2> SUFFICES [i \in 1 .. n |-> a[i]] \in [1 .. n -> S]
    OBVIOUS
  <2> QED OBVIOUS
<1> HIDE DEF S
<1>2. a \in Seq(S) /\ DOMAIN a = 1 .. n
  BY <1>1, SeqDef
<1>3. Len(a) \in Nat /\ DOMAIN a = 1 .. Len(a)
  BY <1>2, LenProperties
<1>4. Len(a) = n
  <2>1. n \in 1 .. Len(a) /\ (Len(a) # 0 => Len(a) \in 1 .. n)
    BY <1>2, <1>3
  <2> QED BY <1>3, <2>1
<1> QED BY <1>4 DEF List

\* Halves.
LEMMA Halves ==
  /\ \A n \in Nat \ {0} : \E m \in Nat \ {0} : IF n % 2 = 0 THEN n = 2 * m ELSE n = 2 * m - 1
  /\ \A m \in Nat : (2 * m) % 2 = 0 /\ (2 * m) \div 2 = m
  /\ \A m \in Nat : \A j \in 1 .. 2 * m : \E i \in 1 .. m : j = 2 * i - 1 \/ j = 2 * i
<1>1. ASSUME NEW n \in Nat \ {0}, n % 2 = 0 PROVE \E m \in Nat \ {0} : n = 2 * m
  <2>1. n = 2 * (n \div 2) /\ n \div 2 \in Nat \ {0}
    BY <1>1
  <2> QED BY <2>1
<1>2. ASSUME NEW n \in Nat \ {0}, n % 2 # 0 PROVE \E m \in Nat \ {0} : n = 2 * m - 1
  <2>1. n = 2 * ((n + 1) \div 2) - 1 /\ (n + 1) \div 2 \in Nat \ {0}
    BY <1>2
  <2> QED BY <2>1
<1>3. ASSUME NEW m \in Nat PROVE (2 * m) % 2 = 0 /\ (2 * m) \div 2 = m
  OBVIOUS
<1>4. ASSUME NEW m \in Nat, NEW j \in 1 .. 2 * m PROVE \E i \in 1 .. m : j = 2 * i - 1 \/ j = 2 * i
  <2> DEFINE i == (j + 1) \div 2
  <2>1. i \in 1 .. m /\ (j = 2 * i - 1 \/ j = 2 * i)
    OBVIOUS
  <2> QED BY <2>1
<1> QED BY <1>1, <1>2, <1>3, <1>4

\* Even adds the last one again, at most.
LEMMA EvenIs ==
  ASSUME NEW a, List(a)
  PROVE  /\ List(Even(a)) /\ \A i \in 1 .. Len(a) : Even(a)[i] = a[i]
         /\ \E m \in Nat \ {0} :
                \/ Len(Even(a)) = 2 * m /\ Len(a) = 2 * m
                \/ Len(Even(a)) = 2 * m /\ Len(a) = 2 * m - 1 /\ Even(a)[2 * m] = a[Len(a)]
<1> DEFINE n == Len(a)
           S == {a[i] : i \in 1 .. n}
<1>1. n \in Nat \ {0} /\ a = [i \in 1 .. n |-> a[i]]
  BY DEF List
<1>2. CASE n % 2 = 0
  <2>1. PICK m \in Nat \ {0} : n = 2 * m
    BY <1>1, <1>2, Halves
  <2>2. Even(a) = a
    BY <1>2 DEF Even
  <2> HIDE DEF n
  <2>3. Len(a) = 2 * m
    BY <2>1 DEF n
  <2> QED BY <2>2, <2>3
<1>3. CASE n % 2 # 0
  <2>1. PICK m \in Nat \ {0} : n = 2 * m - 1
    BY <1>1, <1>3, Halves
  <2>2. a \in [1 .. n -> S]
    <3> SUFFICES [i \in 1 .. n |-> a[i]] \in [1 .. n -> S]
      BY <1>1
    <3> QED OBVIOUS
  <2>3. a[n] \in S
    BY <1>1
  <2> HIDE DEF S
  <2>4. a \in Seq(S)
    BY <1>1, <2>2, SeqDef
  <2>5. Even(a) = Append(a, a[n])
    BY <1>3 DEF Even
  <2>6. /\ Even(a) \in Seq(S) /\ Len(Even(a)) = n + 1
        /\ \A i \in 1 .. n : Even(a)[i] = a[i]
        /\ Even(a)[n + 1] = a[n]
    BY <2>3, <2>4, <2>5, AppendProperties
  <2>7. List(Even(a))
    <3>1. Even(a) = [i \in 1 .. Len(Even(a)) |-> Even(a)[i]]
      <4> DEFINE e == Even(a)
      <4>1. e \in Seq(S)
        BY <2>6
      <4> HIDE DEF e
      <4>2. e \in [1 .. Len(e) -> S]
        BY <4>1, LenProperties
      <4>3. e = [i \in 1 .. Len(e) |-> e[i]]
        BY <4>2
      <4> QED BY <4>3 DEF e
    <3> QED BY <1>1, <2>6, <3>1 DEF List
  <2>8. n + 1 = 2 * m
    BY <2>1
  <2> QED BY <2>1, <2>6, <2>7, <2>8
<1> QED BY <1>2, <1>3

\* Above pairs them.
LEMMA AboveIs ==
  ASSUME NEW a, List(a)
  PROVE  /\ List(Above(a)) /\ Len(Even(a)) = 2 * Len(Above(a))
         /\ Len(a) > 1 => Len(Above(a)) < Len(a)
         /\ Len(Above(a)) <= Len(a)
         /\ \A i \in 1 .. Len(Above(a)) : Above(a)[i] = Pair(Even(a)[2 * i - 1], Even(a)[2 * i])
<1>1. List(Even(a)) /\ Len(a) \in Nat \ {0}
  BY EvenIs DEF List
<1>2. PICK m \in Nat \ {0} : Len(Even(a)) = 2 * m /\ Len(a) \in {2 * m, 2 * m - 1}
  BY EvenIs
<1> DEFINE e == Even(a)
           b == Above(a)
<1>3. (2 * m) \div 2 = m
  BY Halves
<1>4. b = [i \in 1 .. m |-> Pair(e[2 * i - 1], e[2 * i])]
  BY <1>2, <1>3 DEF Above
<1> HIDE DEF e, b
<1>5. /\ b = [i \in 1 .. m |-> b[i]]
      /\ \A i \in 1 .. m : b[i] = Pair(e[2 * i - 1], e[2 * i])
  BY <1>4
<1>6. List(b) /\ Len(b) = m
  BY <1>5, ListOf
<1>7. m <= Len(a) /\ (Len(a) > 1 => m < Len(a))
  BY <1>1, <1>2
<1> QED BY <1>2, <1>5, <1>6, <1>7 DEF e, b

\* One list goes on where the other ends, with nothing new; that is how lists are to
\* each other that cannot be told apart further up in the tree.
GoesOn(a, b) ==
    /\ Len(b) <= Len(a) /\ \A i \in 1 .. Len(b) : a[i] = b[i]
    /\ \A i \in 1 .. Len(a) : \E k \in 1 .. Len(b) : a[i] = b[k]
OneGoesOn(a, b) == GoesOn(a, b) \/ GoesOn(b, a)

\* A list and what Even makes of it.
LEMMA EvenGoesOn ==
  ASSUME NEW a, List(a), NEW b, List(b), GoesOn(Even(a), Even(b)) PROVE OneGoesOn(a, b)
<1> DEFINE e == Even(a)
           f == Even(b)
<1>1. /\ Len(a) \in Nat \ {0} /\ Len(b) \in Nat \ {0}
      /\ \A i \in 1 .. Len(a) : e[i] = a[i]
      /\ \A i \in 1 .. Len(b) : f[i] = b[i]
  BY EvenIs DEF List
<1>2. PICK m \in Nat \ {0} : /\ Len(e) = 2 * m
                             /\ Len(a) = 2 * m \/ (Len(a) = 2 * m - 1 /\ e[2 * m] = a[Len(a)])
  BY EvenIs
<1>3. PICK n \in Nat \ {0} : /\ Len(f) = 2 * n
                             /\ Len(b) = 2 * n \/ (Len(b) = 2 * n - 1 /\ f[2 * n] = b[Len(b)])
  BY EvenIs
<1>4. /\ n <= m /\ \A i \in 1 .. 2 * n : e[i] = f[i]
      /\ \A i \in 1 .. 2 * m : \E k \in 1 .. 2 * n : e[i] = f[k]
  BY <1>2, <1>3 DEF GoesOn
<1> HIDE DEF e, f
<1>5. \A k \in 1 .. 2 * n : \E l \in 1 .. Len(b) : f[k] = b[l]
  <2> SUFFICES ASSUME NEW k \in 1 .. 2 * n PROVE \E l \in 1 .. Len(b) : f[k] = b[l]
    OBVIOUS
  <2>1. k \in 1 .. Len(b) \/ (k = 2 * n /\ f[k] = b[Len(b)] /\ Len(b) \in 1 .. Len(b))
    BY <1>1, <1>3
  <2> QED BY <1>1, <2>1
<1>6. CASE Len(b) <= Len(a)
  <2>1. \A i \in 1 .. Len(b) : a[i] = b[i]
    BY <1>1, <1>3, <1>4, <1>6
  <2>2. ASSUME NEW i \in 1 .. Len(a) PROVE \E k \in 1 .. Len(b) : a[i] = b[k]
    <3>1. i \in 1 .. 2 * m /\ e[i] = a[i]
      BY <1>1, <1>2
    <3>2. PICK k \in 1 .. 2 * n : e[i] = f[k]
      BY <1>4, <3>1
    <3> QED BY <1>5, <3>1, <3>2
  <2> QED BY <1>6, <2>1, <2>2 DEF OneGoesOn, GoesOn
<1>7. CASE Len(a) < Len(b)
  <2>1. m = n /\ Len(a) = 2 * m - 1 /\ Len(b) = 2 * m /\ e[2 * m] = a[Len(a)]
    BY <1>1, <1>2, <1>3, <1>4, <1>7
  <2>0. /\ 2 * m \in 1 .. 2 * n /\ 2 * m \in 1 .. Len(b) /\ Len(a) \in 1 .. Len(a)
        /\ \A i \in 1 .. Len(a) : i \in 1 .. 2 * n /\ i \in 1 .. Len(b)
    BY <1>1, <1>2, <2>1
  <2>2. ASSUME NEW i \in 1 .. Len(a) PROVE b[i] = a[i]
    <3>1. i \in 1 .. 2 * n /\ i \in 1 .. Len(b)
      BY <2>0
    <3>2. e[i] = a[i] /\ f[i] = b[i] /\ e[i] = f[i]
      BY <1>1, <1>4, <3>1
    <3> QED BY <3>2
  <2>3. b[2 * m] = a[Len(a)] /\ Len(a) \in 1 .. Len(a)
    <3>1. f[2 * m] = b[2 * m] /\ e[2 * m] = f[2 * m]
      BY <1>1, <1>4, <2>0
    <3> QED BY <2>0, <2>1, <3>1
  <2>4. ASSUME NEW i \in 1 .. Len(b) PROVE \E k \in 1 .. Len(a) : b[i] = a[k]
    <3>1. i \in 1 .. Len(a) \/ i = 2 * m
      BY <2>1
    <3> QED BY <2>2, <2>3, <3>1
  <2>5. Len(a) <= Len(b)
    BY <2>1, <1>1
  <2> QED BY <2>2, <2>4, <2>5 DEF OneGoesOn, GoesOn
<1> QED BY <1>1, <1>6, <1>7

\* Two pairs are the same only if their nodes are.
LEMMA PairsDiffer == \A l, r, k, s : Pair(l, r) = Pair(k, s) => l = k /\ r = s
<1> SUFFICES ASSUME NEW l, NEW r, NEW k, NEW s, Pair(l, r) = Pair(k, s) PROVE l = k /\ r = s
  OBVIOUS
<1>1. Pair(l, r).left = l /\ Pair(l, r).right = r /\ Pair(k, s).left = k /\ Pair(k, s).right = s
  BY DEF Pair
<1> QED BY <1>1

\* A leaf is no pair.
LEMMA LeavesDiffer ==
  /\ \A x, y : Leaf(x) = Leaf(y) => x = y
  /\ \A x, l, r : Leaf(x) # Pair(l, r)
<1>1. \A x : Leaf(x).of = x /\ DOMAIN Leaf(x) = {"of"}
  BY DEF Leaf
<1>2. \A l, r : DOMAIN Pair(l, r) = {"left", "right"}
  BY DEF Pair
<1>3. "left" \notin {"of"}
  OBVIOUS
<1>4. ASSUME NEW x, NEW y, Leaf(x) = Leaf(y) PROVE x = y
  BY <1>1, <1>4
<1>5. ASSUME NEW x, NEW l, NEW r, Leaf(x) = Pair(l, r) PROVE FALSE
  <2>1. DOMAIN Leaf(x) = DOMAIN Pair(l, r)
    BY <1>5
  <2>2. "left" \in DOMAIN Pair(l, r) /\ "left" \notin DOMAIN Leaf(x)
    BY <1>1, <1>2, <1>3
  <2> QED BY <2>1, <2>2
<1> QED BY <1>4, <1>5

\* What goes on further up goes on below.
LEMMA AboveGoesOn ==
  ASSUME NEW a, List(a), NEW b, List(b), OneGoesOn(Above(a), Above(b)) PROVE OneGoesOn(a, b)
<1>1. ASSUME NEW c, List(c), NEW d, List(d), GoesOn(Above(c), Above(d)) PROVE OneGoesOn(c, d)
  <2> DEFINE e == Even(c)
             f == Even(d)
             m == Len(Above(c))
             n == Len(Above(d))
  <2>1. /\ m \in Nat \ {0} /\ Len(e) = 2 * m
        /\ \A i \in 1 .. m : Above(c)[i] = Pair(e[2 * i - 1], e[2 * i])
    BY <1>1, AboveIs DEF List
  <2>2. /\ n \in Nat \ {0} /\ Len(f) = 2 * n
        /\ \A i \in 1 .. n : Above(d)[i] = Pair(f[2 * i - 1], f[2 * i])
    BY <1>1, AboveIs DEF List
  <2>3. /\ n <= m
        /\ \A i \in 1 .. n : Above(c)[i] = Above(d)[i]
        /\ \A i \in 1 .. m : \E k \in 1 .. n : Above(c)[i] = Above(d)[k]
    BY <1>1 DEF GoesOn
  <2> HIDE DEF e, f, m, n
  <2>4. \A i \in 1 .. n : e[2 * i - 1] = f[2 * i - 1] /\ e[2 * i] = f[2 * i]
    <3> SUFFICES ASSUME NEW i \in 1 .. n PROVE e[2 * i - 1] = f[2 * i - 1] /\ e[2 * i] = f[2 * i]
      OBVIOUS
    <3>1. i \in 1 .. m
      BY <2>1, <2>2, <2>3
    <3>2. Pair(e[2 * i - 1], e[2 * i]) = Pair(f[2 * i - 1], f[2 * i])
      BY <2>1, <2>2, <2>3, <3>1
    <3> QED BY <3>2, PairsDiffer
  <2>5. \A j \in 1 .. 2 * n : e[j] = f[j]
    <3> SUFFICES ASSUME NEW j \in 1 .. 2 * n PROVE e[j] = f[j]
      OBVIOUS
    <3>1. PICK i \in 1 .. n : j = 2 * i - 1 \/ j = 2 * i
      BY <2>2, Halves
    <3> QED BY <2>4, <3>1
  <2>6. \A j \in 1 .. 2 * m : \E k \in 1 .. 2 * n : e[j] = f[k]
    <3> SUFFICES ASSUME NEW j \in 1 .. 2 * m PROVE \E k \in 1 .. 2 * n : e[j] = f[k]
      OBVIOUS
    <3>1. PICK i \in 1 .. m : j = 2 * i - 1 \/ j = 2 * i
      BY <2>1, Halves
    <3>2. PICK k \in 1 .. n : Pair(e[2 * i - 1], e[2 * i]) = Pair(f[2 * k - 1], f[2 * k])
      <4>1. PICK k \in 1 .. n : Above(c)[i] = Above(d)[k]
        BY <2>3
      <4>2. Above(c)[i] = Pair(e[2 * i - 1], e[2 * i]) /\ Above(d)[k] = Pair(f[2 * k - 1], f[2 * k])
        BY <2>1, <2>2
      <4> QED BY <4>1, <4>2
    <3>3. e[2 * i - 1] = f[2 * k - 1] /\ e[2 * i] = f[2 * k]
      BY <3>2, PairsDiffer
    <3>4. 2 * k - 1 \in 1 .. 2 * n /\ 2 * k \in 1 .. 2 * n
      BY <2>2
    <3> QED BY <3>1, <3>3, <3>4
  <2>7. 2 * n <= 2 * m
    BY <2>1, <2>2, <2>3
  <2>8. GoesOn(e, f)
    BY <2>1, <2>2, <2>5, <2>6, <2>7 DEF GoesOn
  <2> QED BY <1>1, <2>8, EvenGoesOn DEF e, f
<1> QED BY <1>1 DEF OneGoesOn

\* The k-th level over a list, in GetMerkleRoot: the leaves, then pairs of what is below.
Leaves(data) == [i \in DOMAIN data |-> Leaf(data[i])]
LevelAt(g, data, k) ==
    IF k = 0 THEN Even(Leaves(data))
    ELSE IF k > 1 /\ Len(g[k - 1]) = 1 THEN g[k - 1] ELSE Above(g[k - 1])

LEMMA LevelsExist ==
  ASSUME NEW data, NEW n \in Nat PROVE \E g : g = [k \in 0 .. n |-> LevelAt(g, data, k)]
<1> DEFINE T == {m \in Nat : \E g : g = [k \in 0 .. m |-> LevelAt(g, data, k)]}
<1>1. 0 \in T
  <2> DEFINE g == [k \in 0 .. 0 |-> Even(Leaves(data))]
  <2>1. g = [k \in 0 .. 0 |-> LevelAt(g, data, k)]
    BY DEF LevelAt
  <2> QED BY <2>1
<1>2. ASSUME NEW m \in Nat, m \in T PROVE m + 1 \in T
  <2>1. PICK g : g = [k \in 0 .. m |-> LevelAt(g, data, k)]
    BY <1>2
  <2> DEFINE h == [k \in 0 .. m + 1 |-> IF k = m + 1 THEN LevelAt(g, data, m + 1) ELSE g[k]]
  <2>2. ASSUME NEW k \in 0 .. m + 1 PROVE h[k] = LevelAt(h, data, k)
    <3>1. CASE k = 0
      BY <2>1, <3>1 DEF LevelAt
    <3>2. CASE k \in 1 .. m
      <4>1. h[k] = g[k] /\ h[k - 1] = g[k - 1] /\ k # 0
        BY <3>2
      <4>2. g[k] = LevelAt(g, data, k)
        BY <2>1, <3>2
      <4> HIDE DEF h
      <4> QED BY <4>1, <4>2 DEF LevelAt
    <3>3. CASE k = m + 1
      <4>1. h[k] = LevelAt(g, data, k) /\ h[k - 1] = g[k - 1] /\ k # 0
        BY <3>3
      <4> HIDE DEF h
      <4> QED BY <4>1 DEF LevelAt
    <3> QED BY <3>1, <3>2, <3>3
  <2>3. h = [k \in 0 .. m + 1 |-> h[k]]
    OBVIOUS
  <2>4. h = [k \in 0 .. m + 1 |-> LevelAt(h, data, k)]
    <3> HIDE DEF h
    <3> QED BY <2>2, <2>3
  <2>5. \E f : f = [k \in 0 .. m + 1 |-> LevelAt(f, data, k)]
    <3> HIDE DEF h
    <3> QED BY <2>4
  <2> QED BY <2>5
<1>3. Nat \subseteq T
  <2> HIDE DEF T
  <2> QED BY <1>1, <1>2, Induct
<1> QED BY <1>3

\* (For the provers.)
LEMMA OneOrMore == \A x : x \in Nat \ {0} => x = 1 \/ (x > 1 /\ ~ (x <= 1))
OBVIOUS

\* A tree of height p over a list: one node is left at the top, and every node over a
\* leaf is a pair.
Tree(g, p, data) ==
    /\ p \in Nat \ {0} /\ \A k \in 0 .. p : List(g[k])
    /\ List(Leaves(data)) /\ g[0] = Even(Leaves(data)) /\ \A k \in 1 .. p : g[k] = Above(g[k - 1])
    /\ Len(g[p]) = 1

\* GetMerkleNode ends: every level has fewer nodes than the one below.
LEMMA RootIs ==
  ASSUME NEW S, NEW data \in Seq(S), data # <<>>
  PROVE  \E g, p : Tree(g, p, data) /\ GetMerkleRoot(data) = g[p][1]
<1> DEFINE G == CHOOSE g : g = [k \in 0 .. Len(data) |-> LevelAt(g, data, k)]
<1>1. PICK n \in Nat \ {0} : Len(data) = n /\ DOMAIN data = 1 .. n
  <2>1. Len(data) \in Nat \ {0} /\ DOMAIN data = 1 .. Len(data)
    BY LenProperties, EmptySeq
  <2> QED BY <2>1
<1>2. G = [k \in 0 .. n |-> LevelAt(G, data, k)]
  <2>1. \E g : g = [k \in 0 .. n |-> LevelAt(g, data, k)]
    <3>1. n \in Nat
      OBVIOUS
    <3> HIDE DEF G
    <3> QED BY <3>1, LevelsExist
  <2> QED BY <2>1
<1>3. GetMerkleRoot(data) = G[n][1]
  BY <1>1 DEF GetMerkleRoot, LevelAt, Leaves
<1> HIDE DEF G
<1>4. List(Leaves(data)) /\ Len(Leaves(data)) = n
  <2> DEFINE l == Leaves(data)
  <2>1. l = [i \in 1 .. n |-> Leaf(data[i])]
    BY <1>1 DEF Leaves
  <2> HIDE DEF l
  <2>2. l = [i \in 1 .. n |-> l[i]]
    BY <2>1
  <2>3. List(l) /\ Len(l) = n
    BY <1>1, <2>2, ListOf
  <2> QED BY <2>3 DEF l
<1>5. G[0] = Even(Leaves(data)) /\ List(G[0])
  BY <1>1, <1>2, <1>4, EvenIs DEF LevelAt
<1> DEFINE Up(k, p) ==
             /\ p \in 1 .. k /\ (\A l \in 0 .. p : List(G[l])) /\ \A l \in 1 .. p : G[l] = Above(G[l - 1])
             /\ G[k] = G[p] /\ (p = k \/ Len(G[p]) = 1)
           T == {m \in Nat : m + 1 <= n => Len(G[m + 1]) <= n - m /\ \E p \in Nat : Up(m + 1, p)}
<1>6. 0 \in T
  <2>1. G[1] = Above(G[0])
    BY <1>1, <1>2 DEF LevelAt
  <2>2. List(G[1]) /\ Len(G[1]) <= n
    <3>1. List(Above(Leaves(data))) /\ Len(Above(Leaves(data))) <= n /\ Len(Even(Leaves(data))) = 2 * Len(Above(Leaves(data)))
      BY <1>4, AboveIs
    <3>2. List(G[1]) /\ Len(Even(G[0])) = 2 * Len(G[1])
      BY <1>5, <2>1, AboveIs
    <3>3. Even(G[0]) = G[0]
      <4>1. Len(G[0]) % 2 = 0
        BY <1>5, <3>1, Halves DEF List
      <4> QED BY <4>1 DEF Even
    <3> QED BY <1>5, <3>1, <3>2, <3>3 DEF List
  <2>3. Up(1, 1)
    <3>1. \A l \in 0 .. 1 : l = 0 \/ l = 1
      OBVIOUS
    <3>2. \A l \in 1 .. 1 : l = 1 /\ l - 1 = 0
      OBVIOUS
    <3> QED BY <1>5, <2>1, <2>2, <3>1, <3>2
  <2> HIDE DEF Up
  <2>4. Len(G[1]) <= n - 0
    BY <1>1, <2>2
  <2> QED BY <2>3, <2>4
<1>7. ASSUME NEW m \in Nat, m \in T PROVE m + 1 \in T
  <2> SUFFICES ASSUME m + 2 <= n PROVE Len(G[m + 2]) <= n - (m + 1) /\ \E p \in Nat : Up(m + 2, p)
    BY <1>1
  <2>1. PICK p \in Nat : Up(m + 1, p)
    BY <1>1, <1>7
  <2>2. Len(G[m + 1]) <= n - m
    BY <1>1, <1>7
  <2>3. G[m + 2] = IF Len(G[m + 1]) = 1 /\ m + 2 > 1 THEN G[m + 1] ELSE Above(G[m + 1])
    <3>1. m + 2 \in 0 .. n /\ (m + 2) - 1 = m + 1 /\ m + 2 # 0
      BY <1>1
    <3>2. G[m + 2] = LevelAt(G, data, m + 2)
      BY <1>2, <3>1
    <3> QED BY <3>1, <3>2 DEF LevelAt
  <2>4. CASE Len(G[m + 1]) = 1
    <3>1. G[m + 2] = G[m + 1]
      BY <2>3, <2>4
    <3>2. Up(m + 2, p)
      BY <2>1, <2>4, <3>1
    <3>3. 1 <= n - (m + 1)
      BY <1>1
    <3> HIDE DEF Up
    <3> QED BY <2>4, <3>1, <3>2, <3>3
  <2>5. CASE Len(G[m + 1]) # 1
    <3>1. G[m + 2] = Above(G[m + 1]) /\ p = m + 1 /\ List(G[m + 1])
      BY <2>1, <2>3, <2>5
    <3>2. List(G[m + 2]) /\ Len(G[m + 2]) < Len(G[m + 1])
      <4>1. Len(G[m + 1]) > 1
        <5>1. Len(G[m + 1]) \in Nat \ {0}
          BY <3>1 DEF List
        <5> QED BY <2>5, <5>1, OneOrMore
      <4> QED BY <3>1, <4>1, AboveIs
    <3>3. Up(m + 2, m + 2)
      <4>1. \A l \in 0 .. m + 2 : l \in 0 .. m + 1 \/ l = m + 2
        OBVIOUS
      <4>2. \A l \in 1 .. m + 2 : l \in 1 .. m + 1 \/ (l = m + 2 /\ l - 1 = m + 1)
        OBVIOUS
      <4> QED BY <2>1, <3>1, <3>2, <4>1, <4>2
    <3>4. Len(G[m + 2]) <= n - (m + 1)
      BY <1>1, <2>2, <3>1, <3>2 DEF List
    <3> HIDE DEF Up
    <3> QED BY <3>3, <3>4
  <2> QED BY <2>4, <2>5
<1>8. Nat \subseteq T
  <2> HIDE DEF T
  <2> QED BY <1>6, <1>7, Induct
<1>9. Len(G[n]) <= 1 /\ \E p \in Nat : Up(n, p)
  <2>1. n - 1 \in Nat /\ (n - 1) + 1 = n /\ n - (n - 1) = 1 /\ n <= n
    BY <1>1
  <2> DEFINE m == n - 1
  <2> HIDE DEF Up, m
  <2>2. m \in T
    BY <1>8, <2>1 DEF m
  <2>3. m + 1 = n /\ n - m = 1
    BY <2>1 DEF m
  <2>4. m + 1 <= n => Len(G[m + 1]) <= n - m /\ \E p \in Nat : Up(m + 1, p)
    BY <2>2
  <2> QED BY <2>1, <2>3, <2>4
<1>10. PICK p \in Nat : Up(n, p)
  BY <1>9
<1>11. Tree(G, p, data) /\ G[n] = G[p]
  <2>1. p \in Nat \ {0} /\ List(G[p])
    BY <1>10
  <2>2. Len(G[p]) = 1
    <3>1. Len(G[p]) \in Nat \ {0}
      BY <2>1 DEF List
    <3>2. Len(G[p]) <= 1
      BY <1>9, <1>10
    <3> QED BY <3>1, <3>2, OneOrMore
  <2> QED BY <1>4, <1>5, <1>10, <2>1, <2>2 DEF Tree
<1> QED BY <1>3, <1>11

\* From the tops down: what is equal there goes on in the same way below.
LEMMA TreesGoOn ==
  ASSUME NEW g, NEW p, NEW s, Tree(g, p, s), NEW h, NEW q, NEW t, Tree(h, q, t),
         p <= q, g[p][1] = h[q][1]
  PROVE  p = q /\ OneGoesOn(Leaves(s), Leaves(t))
<1>1. p \in Nat \ {0} /\ q \in Nat \ {0} /\ Len(g[p]) = 1 /\ Len(h[q]) = 1
  BY DEF Tree
<1> DEFINE T == {d \in Nat : d <= p => OneGoesOn(g[p - d], h[q - d])}
<1>2. 0 \in T
  <2>1. \A i \in 1 .. 1 : i = 1
    OBVIOUS
  <2>2. GoesOn(g[p], h[q])
    BY <1>1, <2>1 DEF GoesOn
  <2>3. p - 0 = p /\ q - 0 = q
    BY <1>1
  <2> QED BY <2>2, <2>3 DEF OneGoesOn
<1>3. ASSUME NEW d \in Nat, d \in T PROVE d + 1 \in T
  <2> SUFFICES ASSUME d + 1 <= p PROVE OneGoesOn(g[p - (d + 1)], h[q - (d + 1)])
    OBVIOUS
  <2> DEFINE i == p - (d + 1)
             k == q - (d + 1)
  <2>1. /\ i \in 0 .. p /\ i + 1 \in 1 .. p /\ p - d = i + 1 /\ (i + 1) - 1 = i
        /\ k \in 0 .. q /\ k + 1 \in 1 .. q /\ q - d = k + 1 /\ (k + 1) - 1 = k
    BY <1>1
  <2> HIDE DEF i, k
  <2>2. OneGoesOn(g[i + 1], h[k + 1])
    BY <1>1, <1>3, <2>1
  <2>3. /\ List(g[i]) /\ g[i + 1] = Above(g[i])
        /\ List(h[k]) /\ h[k + 1] = Above(h[k])
    BY <2>1 DEF Tree
  <2>4. OneGoesOn(g[i], h[k])
    BY <2>2, <2>3, AboveGoesOn
  <2> QED BY <2>4 DEF i, k
<1>4. Nat \subseteq T
  <2> HIDE DEF T
  <2> QED BY <1>2, <1>3, Induct
<1>5. OneGoesOn(g[0], h[q - p])
  <2>1. p - p = 0 /\ p \in Nat /\ p <= p
    BY <1>1
  <2>2. p \in T
    BY <1>4, <2>1
  <2> QED BY <2>1, <2>2
<1>6. ASSUME p < q PROVE FALSE
  <2> DEFINE k == q - p
  <2>1. k \in 1 .. q /\ k - 1 \in 0 .. q
    BY <1>1, <1>6
  <2>2. OneGoesOn(g[0], h[k])
    BY <1>5
  <2> HIDE DEF k
  <2>3. h[k] = Above(h[k - 1]) /\ List(h[k - 1]) /\ List(h[k])
    BY <2>1 DEF Tree
  <2>4. PICK l, r : h[k][1] = Pair(l, r)
    <3>1. List(Above(h[k - 1]))
      BY <2>3
    <3>2. 1 \in 1 .. Len(Above(h[k - 1]))
      BY <3>1 DEF List
    <3>3. Above(h[k - 1])[1] = Pair(Even(h[k - 1])[2 * 1 - 1], Even(h[k - 1])[2 * 1])
      BY <2>3, <3>2, AboveIs
    <3> QED BY <2>3, <3>3
  <2>5. PICK x : g[0][1] = Leaf(x)
    <3>1. List(Leaves(s)) /\ g[0] = Even(Leaves(s))
      BY DEF Tree
    <3>2. 1 \in 1 .. Len(Leaves(s)) /\ DOMAIN Leaves(s) = 1 .. Len(Leaves(s))
      BY <3>1 DEF List
    <3>3. Even(Leaves(s))[1] = Leaves(s)[1]
      BY <3>1, <3>2, EvenIs
    <3>4. Leaves(s)[1] = Leaf(s[1])
      BY <3>2 DEF Leaves
    <3> QED BY <3>1, <3>3, <3>4
  <2>6. g[0][1] = h[k][1]
    <3>1. List(g[0])
      BY <1>1 DEF Tree
    <3>2. 1 \in 1 .. Len(g[0]) /\ 1 \in 1 .. Len(h[k])
      BY <2>3, <3>1 DEF List
    <3> QED BY <2>2, <3>2 DEF OneGoesOn, GoesOn
  <2> QED BY <2>4, <2>5, <2>6, LeavesDiffer
<1>7. p = q
  BY <1>1, <1>6
<1>8. OneGoesOn(Even(Leaves(s)), Even(Leaves(t)))
  <2>1. q - p = 0
    BY <1>1, <1>7
  <2> QED BY <1>5, <2>1 DEF Tree
<1>9. List(Leaves(s)) /\ List(Leaves(t))
  BY DEF Tree
<1>10. OneGoesOn(Leaves(s), Leaves(t))
  BY <1>8, <1>9, EvenGoesOn DEF OneGoesOn
<1> QED BY <1>7, <1>10

\* Leaves go on as their transactions do.
LEMMA LeavesGoOn ==
  ASSUME NEW S, NEW s \in Seq(S), s # <<>>, NEW t \in Seq(S), t # <<>>, GoesOn(Leaves(s), Leaves(t))
  PROVE  GoesOn(s, t)
<1>1. ASSUME NEW d \in Seq(S), d # <<>>
      PROVE  /\ Len(Leaves(d)) = Len(d) /\ Len(d) \in Nat \ {0}
             /\ \A i \in 1 .. Len(d) : Leaves(d)[i] = Leaf(d[i])
  <2>1. Len(d) \in Nat \ {0} /\ DOMAIN d = 1 .. Len(d)
    BY <1>1, LenProperties, EmptySeq
  <2>2. Leaves(d) = [i \in 1 .. Len(d) |-> Leaf(d[i])]
    BY <2>1 DEF Leaves
  <2> DEFINE l == Leaves(d)
  <2>3. l = [i \in 1 .. Len(d) |-> l[i]] /\ \A i \in 1 .. Len(d) : l[i] = Leaf(d[i])
    BY <2>2
  <2> HIDE DEF l
  <2>4. Len(l) = Len(d)
    BY <2>1, <2>3, ListOf
  <2> QED BY <2>1, <2>3, <2>4 DEF l
<1> DEFINE m == Len(s)
           n == Len(t)
<1>2. /\ m \in Nat /\ Len(Leaves(s)) = m /\ \A i \in 1 .. m : Leaves(s)[i] = Leaf(s[i])
      /\ n \in Nat /\ Len(Leaves(t)) = n /\ \A i \in 1 .. n : Leaves(t)[i] = Leaf(t[i])
  BY <1>1
<1> HIDE DEF m, n
<1>3. /\ n <= m /\ \A i \in 1 .. n : Leaves(s)[i] = Leaves(t)[i]
      /\ \A i \in 1 .. m : \E k \in 1 .. n : Leaves(s)[i] = Leaves(t)[k]
  BY <1>2 DEF GoesOn
<1>4. ASSUME NEW i \in 1 .. n PROVE s[i] = t[i]
  <2>1. i \in 1 .. m
    BY <1>2, <1>3
  <2>2. Leaf(s[i]) = Leaf(t[i])
    BY <1>2, <1>3, <2>1
  <2> QED BY <2>2, LeavesDiffer
<1>5. ASSUME NEW i \in 1 .. m PROVE \E k \in 1 .. n : s[i] = t[k]
  <2>1. PICK k \in 1 .. n : Leaves(s)[i] = Leaves(t)[k]
    BY <1>3
  <2>2. Leaf(s[i]) = Leaf(t[k])
    BY <1>2, <2>1
  <2> QED BY <2>2, LeavesDiffer
<1> QED BY <1>3, <1>4, <1>5 DEF GoesOn, m, n

\* Lists with one root are the same, or one goes on where the other ends.
LEMMA RootTells ==
  ASSUME NEW S, NEW s \in Seq(S), s # <<>>, NEW t \in Seq(S), t # <<>>,
         GetMerkleRoot(s) = GetMerkleRoot(t)
  PROVE  OneGoesOn(s, t)
<1>1. PICK g, p : Tree(g, p, s) /\ GetMerkleRoot(s) = g[p][1]
  BY RootIs
<1>2. PICK h, q : Tree(h, q, t) /\ GetMerkleRoot(t) = h[q][1]
  BY RootIs
<1>3. p \in Nat /\ q \in Nat
  BY <1>1, <1>2 DEF Tree
<1>4. OneGoesOn(Leaves(s), Leaves(t))
  <2>1. CASE p <= q
    BY <1>1, <1>2, <2>1, TreesGoOn
  <2>2. CASE q <= p
    <3>1. OneGoesOn(Leaves(t), Leaves(s))
      BY <1>1, <1>2, <2>2, TreesGoOn
    <3> QED BY <3>1 DEF OneGoesOn
  <2> QED BY <1>3, <2>1, <2>2
<1> QED BY <1>4, LeavesGoOn DEF OneGoesOn

\* A root stands for one list only, but for lists that go on where it ends with what
\* is there already: the copies of odd nodes (GetMerkleNode) are made of that.
THEOREM RootsBind == Spec => []RootBinds
<1>1. ASSUME IInv PROVE RootBinds
  <2> SUFFICES ASSUME NEW i \in DOMAIN made, NEW j \in DOMAIN made, made[i].root = made[j].root,
                      made[i].payload # made[j].payload
               PROVE  \/ Repeats(made[i].payload, made[j].payload)
                      \/ Repeats(made[j].payload, made[i].payload)
    BY DEF RootBinds
  <2>1. ASSUME NEW b \in DOMAIN made
        PROVE  /\ made[b].root = GetMerkleRoot(made[b].payload)
               /\ made[b].payload \in Seq(Tx) /\ made[b].payload # <<>>
    <3>1. made \in Seq(DataBlock)
      BY <1>1 DEF IInv, TypeOK
    <3>2. b \in 1 .. Len(made) /\ made[b] \in DataBlock
      BY <3>1, LenProperties, ElementOfSeq
    <3>3. made[b].payload \in Payload
      BY <3>2 DEF DataBlock
    <3> QED BY <1>1, <3>2, <3>3, LedgerAssumption DEF IInv, MadeInOrder, MadeOf
  <2>2. ASSUME NEW s \in Seq(Tx), NEW t \in Seq(Tx), t # <<>>, GoesOn(s, t), s # t
        PROVE  Repeats(s, t)
    <3>1. Len(s) \in Nat /\ Len(t) \in Nat /\ Len(t) <= Len(s)
      BY <2>2, LenProperties DEF GoesOn
    <3>2. Len(s) # Len(t)
      BY <2>2, <3>1, SeqEqual DEF GoesOn
    <3>3. SubSeq(s, 1, Len(t)) = t
      <4>1. /\ SubSeq(s, 1, Len(t)) \in Seq(Tx) /\ Len(SubSeq(s, 1, Len(t))) = Len(t)
            /\ \A x \in 1 .. Len(t) : SubSeq(s, 1, Len(t))[x] = s[x]
        <5> DEFINE n == Len(t)
        <5>1. n \in Nat \ {0} /\ n <= Len(s) /\ \A x \in 1 .. n : s[x] \in Tx
          BY <2>2, <3>1, EmptySeq, LenProperties, ElementOfSeq
        <5> HIDE DEF n
        <5>2. /\ SubSeq(s, 1, n) \in Seq(Tx) /\ Len(SubSeq(s, 1, n)) = IF 1 <= n THEN n - 1 + 1 ELSE 0
              /\ \A x \in 1 .. n - 1 + 1 : SubSeq(s, 1, n)[x] = s[1 + x - 1]
          BY <5>1, SubSeqProperties
        <5>3. 1 <= n /\ n - 1 + 1 = n /\ \A x \in 1 .. n : 1 + x - 1 = x
          BY <5>1
        <5> QED BY <5>2, <5>3 DEF n
      <4> QED BY <2>2, <4>1, SeqEqual DEF GoesOn
    <3> QED BY <2>2, <3>1, <3>2, <3>3 DEF Repeats, GoesOn
  <2>3. OneGoesOn(made[i].payload, made[j].payload)
    BY <2>1, RootTells
  <2> QED BY <2>1, <2>2, <2>3 DEF OneGoesOn
<1> QED BY <1>1, Invariance, PTL
=============================================================================
