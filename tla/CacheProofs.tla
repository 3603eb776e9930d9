---------------------------- MODULE CacheProofs ----------------------------
(* Theorems about Cache, for every set of keys, goroutines and blocks, every size
   of the lists and every bound: whatever the pointers of the lists have become,
   what a look-up returns is genuine, and it is the newest value unless the
   look-up overlapped the work on a block with the key.  What the pointers become
   comes after that: which of their uses can meet a nil.                       *)
EXTENDS Cache, WellFoundedInduction, SequenceTheorems, TLAPS

-----------------------------------------------------------------------------
(* What has to be known besides Fresh and Genuine to prove them.  Nothing is said
   of next, pre and curSize yet: toTail leaves them in disorder.               *)

\* A list has all its fields; its cells have a key and a transaction of it, and the
\* map knows cells of the right key.
Fields(l) ==
    l = [next |-> l.next, pre |-> l.pre, map |-> l.map, curSize |-> l.curSize,
         key |-> l.key, tx |-> l.tx, count |-> l.count]
KeyOf(t) == chain[t[1]][t[2]].key
Cells(l) ==
    /\ Fields(l)
    /\ l.map \in [Key -> {Nil} \cup Cell] /\ l.key \in Seq(Key)
    /\ l.tx \in Seq(Tx \ {Null}) /\ Len(l.tx) = Len(l.key)
    /\ \A k \in Key : l.map[k] # Nil => l.map[k] \in DOMAIN l.key /\ l.key[l.map[k]] = k
    /\ \A c \in DOMAIN l.key : KeyOf(l.tx[c]) = l.key[c]

\* The blocks and the hash chain.
Chained ==
    /\ chain \in Seq(Payload) /\ Len(chain) <= MaxBlocks
    /\ bucket \in Seq(DOMAIN chain)
    /\ stage \in [1 .. MaxBlocks -> {"none", "cache", "bucket", "over"}]
    /\ \A b \in 1 .. MaxBlocks : stage[b] = "none" <=> b \notin DOMAIN chain

\* A look-up has a transaction of its key in hand, and past the first tests it has one.
Place == {"idle", "tx", "txTail", "index", "indexTail", "check", "promote", "search", "scan", "enter"}
InHand ==
    /\ at \in [Getter -> Place]
    /\ want \in [Getter -> Key] /\ got \in [Getter -> Tx]
    /\ \A g \in Getter : got[g] # Null => KeyOf(got[g]) = want[g]
    /\ \A g \in Getter : at[g] \in {"promote", "enter", "check", "indexTail"} => got[g] # Null

\* t is a transaction of k with the latest stamp in the last block that has k.
Top(t, k) ==
    /\ t \in Tx \ {Null} /\ KeyOf(t) = k
    /\ \A b \in DOMAIN chain : Has(b, k) => b <= t[1]
    /\ \A i \in DOMAIN chain[t[1]] : chain[t[1]][i].key = k => chain[t[1]][i].stamp <= StampOf(t)

\* For a key that no look-up and no other block raced: the block with it that is being
\* worked in is the last one, and nobody looks the key up meanwhile; the lists have its
\* newest value from updateDataCache on, the hash chain has it at the end of the work,
\* and so has every look-up.
Working(k) == {b \in DOMAIN chain : Busy(b) /\ Has(b, k)}
LastAtWork(k) == \A b \in Working(k) : ~ Looked(k) /\ \A c \in DOMAIN chain : Has(c, k) => c <= b
ListsNew(k) ==
    (\A b \in Working(k) : stage[b] = "bucket") =>
        \A l \in {listTx, listIndex} : l.map[k] # Nil => Top(l.tx[l.map[k]], k)
BucketNew(k) ==
    Working(k) = {} /\ (\E b \in DOMAIN chain : Has(b, k)) =>
        \E i \in DOMAIN bucket :
            /\ Has(bucket[i], k) /\ \A j \in DOMAIN bucket : Has(bucket[j], k) => j <= i
            /\ \A c \in DOMAIN chain : Has(c, k) => c <= bucket[i]
HandsNew(k) == \A g \in Getter : at[g] # "idle" /\ want[g] = k /\ got[g] # Null => Top(got[g], k)
Unraced == \A k \in Key \ raced : LastAtWork(k) /\ ListsNew(k) /\ BucketNew(k) /\ HandsNew(k)

IInv == Chained /\ Cells(listTx) /\ Cells(listIndex) /\ InHand /\ Unraced

-----------------------------------------------------------------------------
(* Numbers, blocks and chains.                                                 *)

\* A set of numbers that is not empty has a least member, ...
LEMMA Least ==
  ASSUME NEW T \in SUBSET Nat, T # {} PROVE \E x \in T : \A y \in T : x <= y
<1> DEFINE R == {p \in Nat \X Nat : p[1] < p[2]}
<1>1. OpToRel(<, Nat) = R
  BY DEF OpToRel
<1>2. IsWellFoundedOn(R, Nat)
  BY <1>1, NatLessThanWellFounded
<1>3. \E x \in T : \A y \in T : ~ (<<y, x>> \in R)
  <2> HIDE DEF R
  <2> QED BY <1>2, WFMin
<1>4. \A x, y \in Nat : ~ (<<y, x>> \in R) => x <= y
  OBVIOUS
<1> QED BY <1>3, <1>4

\* ... and a greatest one when it has a bound: what the loops that go back find first.
LEMMA Greatest ==
  ASSUME NEW n \in Nat, NEW T \in SUBSET (1 .. n), T # {}
  PROVE  \E x \in T : \A y \in T : y <= x
<1> DEFINE U == {u \in Nat : \E x \in T : u = n - x}
<1>1. U \in SUBSET Nat /\ U # {}
  <2>1. PICK x \in T : TRUE
    OBVIOUS
  <2>2. n - x \in Nat
    OBVIOUS
  <2> QED BY <2>1, <2>2
<1>2. PICK u \in U : \A v \in U : u <= v
  <2> HIDE DEF U
  <2> QED BY <1>1, Least
<1>3. PICK x \in T : u = n - x
  BY <1>2
<1>4. ASSUME NEW y \in T PROVE y <= x
  <2>1. n - y \in U
    OBVIOUS
  <2>2. u <= n - y
    BY <1>2, <2>1
  <2> QED BY <1>3, <2>2
<1> QED BY <1>4

\* A transaction is a place in a block of the chain.
LEMMA TxIs ==
  ASSUME Chained
  PROVE  /\ \A b \in DOMAIN chain : \A i \in DOMAIN chain[b] : <<b, i>> \in Tx \ {Null}
         /\ \A t \in Tx \ {Null} : /\ t[1] \in DOMAIN chain /\ t[2] \in DOMAIN chain[t[1]]
                                   /\ t = <<t[1], t[2]>>
<1>1. chain \in Seq(Payload) /\ DOMAIN chain = 1 .. Len(chain) /\ Len(chain) \in Nat
  BY DEF Chained
<1>2. ASSUME NEW b \in DOMAIN chain, NEW i PROVE <<b, i>> # Null
  <2>1. b # 0
    BY <1>1
  <2> QED BY <2>1 DEF Null
<1> QED BY <1>2 DEF Tx

\* A block holds keys with stamps, in the order of the stamps.
LEMMA BlockIs ==
  ASSUME Chained, NEW b \in DOMAIN chain
  PROVE  /\ chain[b] \in Payload /\ Len(chain[b]) \in Nat
         /\ DOMAIN chain[b] = 1 .. Len(chain[b]) /\ DOMAIN chain[b] \subseteq Nat
         /\ \A i \in DOMAIN chain[b] : chain[b][i].key \in Key /\ chain[b][i].stamp \in Nat
         /\ \A i, j \in DOMAIN chain[b] : i <= j => chain[b][i].stamp <= chain[b][j].stamp
<1>p. PICK p : p = chain[b]
  OBVIOUS
<1>1. p \in Payload
  BY <1>p DEF Chained
<1>2. p \in Seq([key : Key, stamp : Nat \ {0}])
  BY <1>1, CacheAssumption DEF CacheAssumption
<1>3. \A i, j \in DOMAIN p : i < j => p[i].stamp <= p[j].stamp
  BY <1>1, CacheAssumption DEF CacheAssumption
<1>4. /\ Len(p) \in Nat /\ DOMAIN p = 1 .. Len(p)
      /\ \A i \in DOMAIN p : p[i].key \in Key /\ p[i].stamp \in Nat
  <2>1. \A i \in DOMAIN p : p[i] \in [key : Key, stamp : Nat \ {0}]
    <3> DEFINE S == [key : Key, stamp : Nat \ {0}]
    <3> SUFFICES ASSUME p \in Seq(S) PROVE \A i \in DOMAIN p : p[i] \in S
      BY <1>2
    <3> HIDE DEF S
    <3> QED OBVIOUS
  <2>2. Len(p) \in Nat /\ DOMAIN p = 1 .. Len(p)
    BY <1>2
  <2> QED BY <2>1, <2>2
<1>5. \A i, j \in DOMAIN p : i <= j => p[i].stamp <= p[j].stamp
  <2> SUFFICES ASSUME NEW i \in DOMAIN p, NEW j \in DOMAIN p, i <= j PROVE p[i].stamp <= p[j].stamp
    OBVIOUS
  <2>1. CASE i = j
    BY <1>4, <2>1
  <2>2. CASE i # j
    <3>1. i < j
      BY <1>4, <2>2
    <3> QED BY <1>3, <3>1
  <2> QED BY <2>1, <2>2
<1> QED BY <1>1, <1>4, <1>5, <1>p

\* t is a transaction of k with the latest stamp in block b.
TopIn(t, b, k) ==
    /\ t \in Tx \ {Null} /\ t[1] = b /\ KeyOf(t) = k
    /\ \A i \in DOMAIN chain[b] : chain[b][i].key = k => chain[b][i].stamp <= StampOf(t)

LEMMA TopInIs ==
  ASSUME Chained, NEW k, NEW b \in DOMAIN chain, NEW i \in DOMAIN chain[b], chain[b][i].key = k,
         \A j \in DOMAIN chain[b] : chain[b][j].key = k => chain[b][j].stamp <= chain[b][i].stamp
  PROVE  TopIn(<<b, i>>, b, k)
BY TxIs DEF TopIn, KeyOf, StampOf

\* The transaction that updateDataCache leaves in a cell is one of the latest of its
\* block, ...
LEMMA LastOfIs ==
  ASSUME Chained, NEW b \in DOMAIN chain, NEW k, Has(b, k) PROVE TopIn(LastOf(b, k), b, k)
<1> DEFINE of == {i \in DOMAIN chain[b] : chain[b][i].key = k}
<1>1. of # {} /\ of \in SUBSET (1 .. Len(chain[b])) /\ Len(chain[b]) \in Nat
  BY BlockIs DEF Has
<1>2. \E i \in of : \A j \in of : j <= i
  <2> HIDE DEF of
  <2> QED BY <1>1, Greatest
<1>i. PICK i : i = CHOOSE n \in of : \A j \in of : j <= n
  OBVIOUS
<1>3. i \in of /\ \A j \in of : j <= i
  BY <1>2, <1>i
<1>4. LastOf(b, k) = <<b, i>>
  BY <1>i DEF LastOf
<1>5. \A j \in of : chain[b][j].stamp <= chain[b][i].stamp
  BY <1>3, BlockIs
<1> QED BY <1>3, <1>4, <1>5, TopInIs

\* ... and so is the one that a look-up finds in the block.
LEMMA LatestIs ==
  ASSUME Chained, NEW b \in DOMAIN chain, NEW k, Has(b, k) PROVE TopIn(Latest(b, k), b, k)
<1> DEFINE of == {i \in DOMAIN chain[b] : chain[b][i].key = k}
           First(i) == \A j \in of : \/ chain[b][j].stamp < chain[b][i].stamp
                                     \/ chain[b][j].stamp = chain[b][i].stamp /\ i <= j
<1>1. of # {} /\ of \in SUBSET (1 .. Len(chain[b])) /\ Len(chain[b]) \in Nat /\ of \in SUBSET Nat
  BY BlockIs DEF Has
<1>2. PICK l \in of : \A j \in of : j <= l
  <2> HIDE DEF of
  <2> QED BY <1>1, Greatest
<1>3. \A j \in of : /\ chain[b][j].stamp <= chain[b][l].stamp
                    /\ chain[b][j].stamp \in Nat /\ chain[b][l].stamp \in Nat
  BY <1>2, BlockIs
<1> DEFINE late == {i \in of : chain[b][i].stamp = chain[b][l].stamp}
<1>4. late \in SUBSET Nat /\ late # {}
  BY <1>1, <1>2
<1>5. PICK f \in late : \A j \in late : f <= j
  <2> HIDE DEF late
  <2> QED BY <1>4, Least
<1>6. f \in of /\ First(f)
  BY <1>3, <1>5
<1>i. PICK i : i = CHOOSE n \in of : First(n)
  OBVIOUS
<1>7. i \in of /\ First(i)
  BY <1>6, <1>i
<1>8. Latest(b, k) = <<b, i>>
  BY <1>i DEF Latest
<1>9. \A j \in of : chain[b][j].stamp <= chain[b][i].stamp
  BY <1>3, <1>7
<1> QED BY <1>7, <1>8, <1>9, TopInIs

\* A loop that goes back finds none, or one of the latest of the last block with the key.
LEMMA FirstBackIs ==
  ASSUME Chained, NEW s \in Seq(DOMAIN chain), NEW k
  PROVE  \/ FirstBack(s, k) = Null /\ \A i \in DOMAIN s : ~ Has(s[i], k)
         \/ \E i \in DOMAIN s : /\ Has(s[i], k) /\ \A j \in DOMAIN s : Has(s[j], k) => j <= i
                                /\ TopIn(FirstBack(s, k), s[i], k)
<1> DEFINE hit == {i \in DOMAIN s : Has(s[i], k)}
<1>1. CASE hit = {}
  BY <1>1 DEF FirstBack
<1>2. CASE hit # {}
  <2>1. hit \in SUBSET (1 .. Len(s)) /\ Len(s) \in Nat
    OBVIOUS
  <2>2. \E i \in hit : \A j \in hit : j <= i
    <3> HIDE DEF hit
    <3> QED BY <1>2, <2>1, Greatest
  <2>i. PICK i : i = CHOOSE n \in hit : \A j \in hit : j <= n
    OBVIOUS
  <2>3. i \in hit /\ \A j \in hit : j <= i
    BY <2>2, <2>i
  <2>4. FirstBack(s, k) = Latest(s[i], k)
    BY <1>2, <2>i DEF FirstBack
  <2>5. s[i] \in DOMAIN chain
    BY <2>3
  <2>6. TopIn(Latest(s[i], k), s[i], k)
    BY <2>3, <2>5, LatestIs
  <2> QED BY <2>3, <2>4, <2>6
<1> QED BY <1>1, <1>2

\* getInBoltDb finds a newest transaction of a key that has one.
LEMMA BoltDbIs ==
  ASSUME Chained, NEW k
  PROVE  \/ getInBoltDb(k) = Null /\ \A b \in DOMAIN chain : ~ Has(b, k)
         \/ Top(getInBoltDb(k), k)
<1> DEFINE all == [b \in DOMAIN chain |-> b]
<1>1. all \in Seq(DOMAIN chain) /\ DOMAIN all = DOMAIN chain /\ \A b \in DOMAIN chain : all[b] = b
  <2>1. DOMAIN chain = 1 .. Len(chain) /\ Len(chain) \in Nat
    BY DEF Chained
  <2> QED BY <2>1, SeqDef
<1>2. getInBoltDb(k) = FirstBack(all, k)
  BY DEF getInBoltDb
<1>3. \/ FirstBack(all, k) = Null /\ \A i \in DOMAIN all : ~ Has(all[i], k)
      \/ \E i \in DOMAIN all : /\ Has(all[i], k) /\ \A j \in DOMAIN all : Has(all[j], k) => j <= i
                               /\ TopIn(FirstBack(all, k), all[i], k)
  <2> HIDE DEF all
  <2> QED BY <1>1, FirstBackIs
<1>4. \/ FirstBack(all, k) = Null /\ \A b \in DOMAIN chain : ~ Has(b, k)
      \/ \E b \in DOMAIN chain : /\ Has(b, k) /\ \A c \in DOMAIN chain : Has(c, k) => c <= b
                                 /\ TopIn(FirstBack(all, k), b, k)
  <2> HIDE DEF all
  <2> QED BY <1>1, <1>3
<1>5. ASSUME NEW t, NEW b \in DOMAIN chain, TopIn(t, b, k), \A c \in DOMAIN chain : Has(c, k) => c <= b
      PROVE  Top(t, k)
  BY <1>5 DEF Top, TopIn
<1> HIDE DEF all
<1> QED BY <1>2, <1>4, <1>5

\* A transaction of Top is what Fresh calls newest.
LEMMA TopIsNewest ==
  ASSUME Chained, NEW k, NEW t, Top(t, k) PROVE Newest(t, k)
<1>n. PICK now : now = getInBoltDb(k)
  OBVIOUS
<1>1. t[1] \in DOMAIN chain /\ t[2] \in DOMAIN chain[t[1]] /\ Has(t[1], k)
  BY TxIs DEF Top, KeyOf, Has
<1>2. Top(now, k)
  BY <1>1, <1>n, BoltDbIs
<1>3. now[1] \in DOMAIN chain /\ now[2] \in DOMAIN chain[now[1]] /\ Has(now[1], k)
  BY <1>2, TxIs DEF Top, KeyOf, Has
<1>4. DOMAIN chain \subseteq Nat
  BY DEF Chained
<1>5. t[1] = now[1]
  <2>1. now[1] <= t[1] /\ t[1] <= now[1]
    BY <1>1, <1>2, <1>3 DEF Top
  <2> QED BY <1>1, <1>3, <1>4, <2>1
<1>6. StampOf(t) \in Nat /\ StampOf(now) \in Nat
  BY <1>1, <1>3, BlockIs DEF StampOf
<1>7. StampOf(now) <= StampOf(t) /\ StampOf(t) <= StampOf(now)
  BY <1>1, <1>2, <1>3, <1>5 DEF Top, StampOf, KeyOf
<1>8. StampOf(t) = StampOf(now)
  BY <1>6, <1>7
<1> QED BY <1>n, <1>5, <1>8 DEF Newest, Top, KeyOf

\* The hash chain of the table gives a newest transaction of a key that nothing races.
LEMMA TableIs ==
  ASSUME Chained, NEW k, BucketNew(k), Working(k) = {}
  PROVE  /\ getInTableHashChain(k) # Null => Top(getInTableHashChain(k), k)
         /\ (\E b \in DOMAIN chain : Has(b, k)) => Top(getInTableHashChain(k), k)
<1>1. bucket \in Seq(DOMAIN chain) /\ DOMAIN bucket \subseteq Nat
  BY DEF Chained
<1>2. \/ getInTableHashChain(k) = Null /\ \A i \in DOMAIN bucket : ~ Has(bucket[i], k)
      \/ \E i \in DOMAIN bucket :
            /\ Has(bucket[i], k) /\ \A j \in DOMAIN bucket : Has(bucket[j], k) => j <= i
            /\ TopIn(getInTableHashChain(k), bucket[i], k)
  BY <1>1, FirstBackIs DEF getInTableHashChain
<1>3. ASSUME NEW i \in DOMAIN bucket, Has(bucket[i], k),
             \A j \in DOMAIN bucket : Has(bucket[j], k) => j <= i,
             TopIn(getInTableHashChain(k), bucket[i], k)
      PROVE  Top(getInTableHashChain(k), k)
  <2>1. bucket[i] \in DOMAIN chain
    BY <1>1
  <2>2. PICK n \in DOMAIN bucket :
            /\ Has(bucket[n], k) /\ \A j \in DOMAIN bucket : Has(bucket[j], k) => j <= n
            /\ \A c \in DOMAIN chain : Has(c, k) => c <= bucket[n]
    BY <1>3, <2>1 DEF BucketNew
  <2>3. n = i
    <3>1. n <= i /\ i <= n
      BY <1>3, <2>2
    <3> QED BY <1>1, <3>1
  <2> QED BY <1>3, <2>2, <2>3 DEF Top, TopIn
<1>4. ASSUME \E b \in DOMAIN chain : Has(b, k) PROVE \E i \in DOMAIN bucket : Has(bucket[i], k)
  BY <1>4 DEF BucketNew
<1> QED BY <1>2, <1>3, <1>4

\* So what IInv says of a list, the hash chain and the look-ups is Fresh and Genuine.
LEMMA IInvShows ==
  ASSUME IInv PROVE Fresh /\ Genuine
<1>1. Genuine
  BY DEF IInv, Genuine, InHand, Cells, KeyOf
<1>2. ASSUME NEW k \in Key, Calm(k)
      PROVE  /\ \A l \in {listTx, listIndex} : l.map[k] # Nil => Newest(l.tx[l.map[k]], k)
             /\ getInBoltDb(k) # Null => Newest(getInTableHashChain(k), k)
             /\ \A g \in Getter : at[g] # "idle" /\ want[g] = k /\ got[g] # Null => Newest(got[g], k)
  <2>1. k \in Key \ raced /\ Working(k) = {}
    BY <1>2 DEF Calm, Working
  <2>2. ListsNew(k) /\ BucketNew(k) /\ HandsNew(k) /\ Chained
    BY <2>1 DEF IInv, Unraced
  <2>3. \A l \in {listTx, listIndex} : l.map[k] # Nil => Newest(l.tx[l.map[k]], k)
    BY <2>1, <2>2, TopIsNewest DEF ListsNew
  <2>4. getInBoltDb(k) # Null => Newest(getInTableHashChain(k), k)
    <3>1. getInBoltDb(k) # Null => \E b \in DOMAIN chain : Has(b, k)
      <4> SUFFICES ASSUME getInBoltDb(k) # Null PROVE \E b \in DOMAIN chain : Has(b, k)
        OBVIOUS
      <4>t. PICK t : t = getInBoltDb(k)
        OBVIOUS
      <4>1. Top(t, k)
        BY <2>2, <4>t, BoltDbIs
      <4> QED BY <2>2, <4>1, TxIs DEF Top, KeyOf, Has
    <3> QED BY <2>1, <2>2, <3>1, TableIs, TopIsNewest
  <2>5. \A g \in Getter : at[g] # "idle" /\ want[g] = k /\ got[g] # Null => Newest(got[g], k)
    BY <2>2, TopIsNewest DEF HandsNew
  <2> QED BY <2>3, <2>4, <2>5
<1>3. Fresh
  BY <1>2 DEF Fresh
<1> QED BY <1>1, <1>3

-----------------------------------------------------------------------------
(* The lists.                                                                  *)

\* m is l with other pointers, and with some keys forgotten.
Fewer(l, m) ==
    /\ Fields(m) /\ m.key = l.key /\ m.tx = l.tx
    /\ m.map \in [Key -> {Nil} \cup Cell] /\ \A k \in Key : m.map[k] \in {Nil, l.map[k]}

LEMMA FewerCells ==
  ASSUME NEW l, NEW m, Cells(l), Fewer(l, m) PROVE Cells(m)
<1>1. ASSUME NEW k \in Key, m.map[k] # Nil PROVE m.map[k] \in DOMAIN m.key /\ m.key[m.map[k]] = k
  <2>1. m.map[k] = l.map[k]
    BY <1>1 DEF Fewer
  <2>2. l.map[k] \in DOMAIN l.key /\ l.key[l.map[k]] = k
    BY <1>1, <2>1 DEF Cells
  <2> QED BY <2>1, <2>2 DEF Fewer
<1>2. /\ m.key \in Seq(Key) /\ m.tx \in Seq(Tx \ {Null}) /\ Len(m.tx) = Len(m.key)
      /\ \A c \in DOMAIN m.key : KeyOf(m.tx[c]) = m.key[c]
  BY DEF Fewer, Cells
<1> QED BY <1>1, <1>2 DEF Cells, Fewer

\* Every newest transaction of a list is one that was in it, or is a newest one itself.
Carries(l, m) ==
    \A k \in Key \ raced : m.map[k] # Nil =>
        \/ l.map[k] # Nil /\ m.tx[m.map[k]] = l.tx[l.map[k]]
        \/ Top(m.tx[m.map[k]], k)

LEMMA FewerCarries ==
  ASSUME NEW l, NEW m, Fewer(l, m) PROVE Carries(l, m)
<1> SUFFICES ASSUME NEW k \in Key \ raced, m.map[k] # Nil
             PROVE  l.map[k] # Nil /\ m.tx[m.map[k]] = l.tx[l.map[k]]
  BY DEF Carries
<1> QED BY DEF Fewer

\* toTail moves a cell and changes no map, checkDel and queueIn make the map forget
\* a key; whatever cells their pointers name.
LEMMA SameFewer ==
  ASSUME NEW l, Cells(l) PROVE Fewer(l, l)
BY DEF Fewer, Cells

LEMMA ToTailFewer ==
  ASSUME NEW l, Cells(l), NEW k PROVE Fewer(l, toTail(l, k))
<1>1. ASSUME NEW m, NEW x, NEW y, m = [l EXCEPT !.next = x, !.pre = y] PROVE Fewer(l, m)
  <2>1. m = [next |-> x, pre |-> y, map |-> l.map, curSize |-> l.curSize,
             key |-> l.key, tx |-> l.tx, count |-> l.count]
    BY <1>1 DEF Cells, Fields
  <2>2. /\ m.map = l.map /\ m.key = l.key /\ m.tx = l.tx /\ m.next = x /\ m.pre = y
        /\ m.curSize = l.curSize /\ m.count = l.count
    BY <2>1
  <2>3. Fields(m)
    BY <2>1, <2>2 DEF Fields
  <2>4. l.map \in [Key -> {Nil} \cup Cell]
    BY DEF Cells
  <2> QED BY <2>2, <2>3, <2>4 DEF Fewer
<1>2. toTail(l, k) = l \/ \E x, y : toTail(l, k) = [l EXCEPT !.next = x, !.pre = y]
  BY DEF toTail
<1> QED BY <1>1, <1>2, SameFewer

LEMMA CountFewer ==
  ASSUME NEW l, Cells(l), NEW k, NEW m, m = [l EXCEPT !.count[k] = @ + 1] PROVE Fewer(l, m)
<1>c. PICK c : c = [l.count EXCEPT ![k] = @ + 1]
  OBVIOUS
<1>1. m = [next |-> l.next, pre |-> l.pre, map |-> l.map, curSize |-> l.curSize,
           key |-> l.key, tx |-> l.tx, count |-> c]
  BY <1>c DEF Cells, Fields
<1>2. /\ m.map = l.map /\ m.key = l.key /\ m.tx = l.tx /\ m.next = l.next /\ m.pre = l.pre
      /\ m.curSize = l.curSize /\ m.count = c
  BY <1>1
<1>3. Fields(m)
  BY <1>1, <1>2 DEF Fields
<1>4. l.map \in [Key -> {Nil} \cup Cell]
  BY DEF Cells
<1> QED BY <1>2, <1>3, <1>4 DEF Fewer

\* A list whose map forgets key k.
LEMMA ForgetFewer ==
  ASSUME NEW l, Cells(l), NEW k, NEW m, NEW x, NEW y, NEW n,
         m = [next |-> x, pre |-> y, map |-> [l.map EXCEPT ![k] = Nil], curSize |-> n,
              key |-> l.key, tx |-> l.tx, count |-> l.count]
  PROVE  Fewer(l, m)
<1>f. PICK f : f = [l.map EXCEPT ![k] = Nil]
  OBVIOUS
<1>1. /\ m.map = f /\ m.key = l.key /\ m.tx = l.tx /\ m.next = x /\ m.pre = y
      /\ m.curSize = n /\ m.count = l.count
  BY <1>f
<1>2. Fields(m)
  BY <1>1, <1>f DEF Fields
<1>3. l.map \in [Key -> {Nil} \cup Cell]
  BY DEF Cells
<1>4. f \in [Key -> {Nil} \cup Cell] /\ \A j \in Key : f[j] \in {Nil, l.map[j]}
  BY <1>3, <1>f
<1> QED BY <1>1, <1>2, <1>4 DEF Fewer

LEMMA UnlinkFewer ==
  ASSUME NEW l, Cells(l), NEW k PROVE Fewer(l, Unlink(l, k))
<1>x. PICK x : x = [l.next EXCEPT ![l.pre[l.map[k]]] = l.next[l.map[k]]]
  OBVIOUS
<1>y. PICK y : y = [l.pre EXCEPT ![l.next[l.map[k]]] = l.pre[l.map[k]]]
  OBVIOUS
<1>0. Unlink(l, k) = [l EXCEPT !.next = x, !.pre = y, !.map[k] = Nil, !.curSize = @ - 1]
  BY <1>x, <1>y DEF Unlink, Cells, Fields
<1>1. Unlink(l, k) = [next |-> x, pre |-> y, map |-> [l.map EXCEPT ![k] = Nil],
                      curSize |-> l.curSize - 1, key |-> l.key, tx |-> l.tx, count |-> l.count]
  BY <1>0 DEF Cells, Fields
<1> QED BY <1>1, ForgetFewer

LEMMA EvictFewer ==
  ASSUME NEW l, Cells(l) PROVE Fewer(l, Evict(l))
<1>p. PICK pg : pg = l.next[Head0]
  OBVIOUS
<1>y. PICK y : y = [l.pre EXCEPT ![l.next[pg]] = l.pre[pg]]
  OBVIOUS
<1>x. PICK x : x = [l.next EXCEPT ![y[pg]] = l.next[pg]]
  OBVIOUS
<1>1. Evict(l) = [l EXCEPT !.pre = y, !.next[y[pg]] = l.next[pg],
                           !.map[l.key[pg]] = Nil, !.curSize = @ - 1]
  BY <1>p, <1>y DEF Evict
<1>2. Evict(l) = [next |-> x, pre |-> y, map |-> [l.map EXCEPT ![l.key[pg]] = Nil],
                  curSize |-> l.curSize - 1, key |-> l.key, tx |-> l.tx, count |-> l.count]
  BY <1>1, <1>x DEF Cells, Fields
<1> QED BY <1>2, ForgetFewer

\* queueIn puts a transaction of key k in a cell of its own.
Puts(l, m, k, t) ==
    \A j \in Key : m.map[j] # Nil =>
        \/ l.map[j] # Nil /\ m.tx[m.map[j]] = l.tx[l.map[j]]
        \/ j = k /\ m.tx[m.map[j]] = t

LEMMA LinkCells ==
  ASSUME NEW l, Cells(l), NEW k \in Key, NEW t \in Tx \ {Null}, KeyOf(t) = k, Len(l.key) < MaxCells,
         NEW m, m = Link(l, k, t), CacheAssumption
  PROVE  Cells(m) /\ Puts(l, m, k, t)
<1>c. PICK c : c = Len(l.key) + 1
  OBVIOUS
<1>p. PICK ptag : ptag = l.pre[Tail0]
  OBVIOUS
<1>x. PICK x : x = [l.next EXCEPT ![c] = l.next[ptag], ![ptag] = c]
  OBVIOUS
<1>y. PICK y : y = [l.pre EXCEPT ![l.next[ptag]] = c, ![c] = ptag]
  OBVIOUS
<1>f. PICK f : f = [l.map EXCEPT ![k] = c]
  OBVIOUS
<1>q. PICK q : q = Append(l.key, k)
  OBVIOUS
<1>u. PICK u : u = Append(l.tx, t)
  OBVIOUS
<1>n. PICK n : n = Append(l.count, 1)
  OBVIOUS
<1>1. m = [next |-> x, pre |-> y, map |-> f, curSize |-> l.curSize + 1, key |-> q, tx |-> u, count |-> n]
  BY <1>c, <1>p, <1>x, <1>y, <1>f, <1>q, <1>u, <1>n DEF Link, Cells, Fields
<1>2. /\ m.map = f /\ m.key = q /\ m.tx = u /\ m.next = x /\ m.pre = y
      /\ m.curSize = l.curSize + 1 /\ m.count = n
  BY <1>1
<1>3. Fields(m)
  BY <1>1, <1>2 DEF Fields
<1>4. /\ l.map \in [Key -> {Nil} \cup Cell] /\ l.key \in Seq(Key)
      /\ l.tx \in Seq(Tx \ {Null}) /\ Len(l.tx) = Len(l.key)
      /\ \A j \in Key : l.map[j] # Nil => l.map[j] \in DOMAIN l.key /\ l.key[l.map[j]] = j
      /\ \A i \in DOMAIN l.key : KeyOf(l.tx[i]) = l.key[i]
  BY DEF Cells
<1>5. c \in Cell /\ c # Nil /\ c = Len(l.key) + 1 /\ Len(l.key) \in Nat
  BY <1>4, <1>c, CacheAssumption DEF Cell, CacheAssumption, Nil
<1>6. f \in [Key -> {Nil} \cup Cell] /\ f[k] = c /\ \A j \in Key \ {k} : f[j] = l.map[j]
  BY <1>4, <1>5, <1>f
<1>7. /\ q \in Seq(Key) /\ Len(q) = c /\ q[c] = k
      /\ \A i \in DOMAIN l.key : i \in DOMAIN q /\ q[i] = l.key[i]
      /\ DOMAIN q = DOMAIN l.key \cup {c} /\ c \notin DOMAIN l.key
  BY <1>4, <1>5, <1>q
<1>8. /\ u \in Seq(Tx \ {Null}) /\ Len(u) = c /\ u[c] = t
      /\ \A i \in DOMAIN l.key : u[i] = l.tx[i]
  <2> DEFINE S == Tx \ {Null}
  <2> HIDE DEF S
  <2>1. l.tx \in Seq(S) /\ t \in S
    BY <1>4 DEF S
  <2>2. /\ u \in Seq(S) /\ Len(u) = c /\ u[c] = t
        /\ \A i \in DOMAIN l.key : u[i] = l.tx[i]
    BY <1>4, <1>5, <1>u, <2>1
  <2> QED BY <2>2 DEF S
<1>9. \A j \in Key : f[j] # Nil => f[j] \in DOMAIN q /\ q[f[j]] = j
  BY <1>4, <1>6, <1>7
<1>10. \A i \in DOMAIN q : KeyOf(u[i]) = q[i]
  <2> SUFFICES ASSUME NEW i \in DOMAIN q PROVE KeyOf(u[i]) = q[i]
    OBVIOUS
  <2>1. CASE i = c
    BY <1>7, <1>8, <2>1
  <2>2. CASE i \in DOMAIN l.key
    BY <1>4, <1>7, <1>8, <2>2
  <2> QED BY <1>7, <2>1, <2>2
<1>11. Cells(m)
  BY <1>2, <1>3, <1>6, <1>7, <1>8, <1>9, <1>10 DEF Cells
<1>12. ASSUME NEW j \in Key, m.map[j] # Nil
       PROVE  \/ l.map[j] # Nil /\ m.tx[m.map[j]] = l.tx[l.map[j]]
              \/ j = k /\ m.tx[m.map[j]] = t
  <2>1. CASE j = k
    BY <1>2, <1>6, <1>8, <2>1
  <2>2. CASE j # k
    BY <1>2, <1>4, <1>6, <1>8, <1>12, <2>2
  <2> QED BY <2>1, <2>2
<1> QED BY <1>11, <1>12 DEF Puts

LEMMA QueueInCells ==
  ASSUME NEW l, Cells(l), NEW max, NEW k \in Key, NEW t \in Tx \ {Null}, KeyOf(t) = k,
         k \notin raced => Top(t, k), Len(l.key) < MaxCells, CacheAssumption
  PROVE  Cells(queueIn(l, max, k, t)) /\ Carries(l, queueIn(l, max, k, t))
<1>e. PICK e : e = IF Full(l, max) THEN Evict(l) ELSE l
  OBVIOUS
<1>m. PICK m : m = Link(e, k, t)
  OBVIOUS
<1>1. Fewer(l, e)
  BY <1>e, EvictFewer, SameFewer
<1>2. Cells(e) /\ Carries(l, e) /\ Len(e.key) < MaxCells
  BY <1>1, FewerCells, FewerCarries DEF Fewer
<1>3. Cells(m) /\ Puts(e, m, k, t)
  BY <1>2, <1>m, LinkCells
<1>4. Carries(l, m)
  <2> SUFFICES ASSUME NEW j \in Key \ raced, m.map[j] # Nil
               PROVE  \/ l.map[j] # Nil /\ m.tx[m.map[j]] = l.tx[l.map[j]]
                      \/ Top(m.tx[m.map[j]], j)
    BY DEF Carries
  <2>0. \/ e.map[j] # Nil /\ m.tx[m.map[j]] = e.tx[e.map[j]]
        \/ j = k /\ m.tx[m.map[j]] = t
    BY <1>3 DEF Puts
  <2>1. CASE e.map[j] # Nil /\ m.tx[m.map[j]] = e.tx[e.map[j]]
    BY <1>2, <2>1 DEF Carries
  <2>2. CASE j = k /\ m.tx[m.map[j]] = t
    BY <2>2
  <2> QED BY <2>0, <2>1, <2>2
<1>5. queueIn(l, max, k, t) = m
  BY <1>e, <1>m DEF queueIn
<1> QED BY <1>3, <1>4, <1>5

-----------------------------------------------------------------------------
(* The steps.  While the chain stays as it is, so does what is said of it.      *)

LEMMA SameChain ==
  ASSUME chain' = chain, NEW t, NEW k, NEW b
  PROVE  /\ Tx' = Tx /\ (KeyOf(t))' = KeyOf(t) /\ (Has(b, k))' = Has(b, k)
         /\ (Top(t, k))' = Top(t, k)
BY DEF Tx, KeyOf, Has, Top, StampOf

LEMMA SameCells ==
  ASSUME chain' = chain, NEW m, Cells(m) PROVE (Cells(m))'
BY SameChain DEF Cells

\* A step of GetOneValue takes g to another place with a transaction t in hand that is
\* of its key, and a newest one if nothing races the key; m1 and m2 are the lists after it.
LEMMA LookUpKeeps ==
  ASSUME IInv, NEW g \in Getter, at[g] # "idle",
         chain' = chain, bucket' = bucket, stage' = stage, want' = want, raced' = raced,
         NEW to \in Place, at' = [at EXCEPT ![g] = to],
         NEW t \in Tx, got' = [got EXCEPT ![g] = t],
         t # Null => KeyOf(t) = want[g], t # Null /\ want[g] \notin raced => Top(t, want[g]),
         to \in {"promote", "enter", "check", "indexTail"} => t # Null,
         NEW m1, listTx' = m1, Cells(m1), Carries(listTx, m1),
         NEW m2, listIndex' = m2, Cells(m2), Carries(listIndex, m2)
  PROVE  IInv'
<1>1. Chained'
  BY DEF IInv, Chained
<1>2. Cells(listTx)' /\ Cells(listIndex)'
  <2>1. (Cells(m1))' /\ (Cells(m2))'
    BY SameCells
  <2> QED BY <2>1 DEF Cells, Fields
<1>3. /\ at \in [Getter -> Place] /\ want \in [Getter -> Key] /\ got \in [Getter -> Tx]
      /\ \A h \in Getter : got[h] # Null => KeyOf(got[h]) = want[h]
      /\ \A h \in Getter : at[h] \in {"promote", "enter", "check", "indexTail"} => got[h] # Null
  BY DEF IInv, InHand
<1>4. /\ at' \in [Getter -> Place] /\ got' \in [Getter -> Tx]
      /\ at'[g] = to /\ got'[g] = t
      /\ \A h \in Getter \ {g} : at'[h] = at[h] /\ got'[h] = got[h]
  BY <1>3
<1>5. InHand'
  <2>1. \A h \in Getter : got'[h] # Null => KeyOf(got'[h]) = want[h]
    BY <1>3, <1>4
  <2>2. \A h \in Getter : got'[h] # Null => (KeyOf(got[h]))' = want'[h]
    <3> SUFFICES ASSUME NEW h \in Getter, got'[h] # Null PROVE (KeyOf(got[h]))' = want'[h]
      OBVIOUS
    <3>1. KeyOf(got'[h]) = want[h]
      BY <2>1
    <3> QED BY <3>1 DEF KeyOf
  <2>3. \A h \in Getter : at'[h] \in {"promote", "enter", "check", "indexTail"} => got'[h] # Null
    BY <1>3, <1>4
  <2>4. Tx' = Tx
    BY SameChain
  <2> QED BY <1>3, <1>4, <2>2, <2>3, <2>4 DEF InHand
<1>6. ASSUME NEW k \in Key \ raced
      PROVE  LastAtWork(k)' /\ ListsNew(k)' /\ BucketNew(k)' /\ HandsNew(k)'
  <2>1. LastAtWork(k) /\ ListsNew(k) /\ BucketNew(k) /\ HandsNew(k)
    BY DEF IInv, Unraced
  <2>2. Working(k)' = Working(k)
    BY DEF Working, Busy, Has
  <2>3. Looked(k)' => Looked(k)
    BY <1>4 DEF Looked
  <2>4. LastAtWork(k)'
    BY <2>1, <2>2, <2>3 DEF LastAtWork, Has
  <2>5. BucketNew(k)'
    BY <2>1, <2>2 DEF BucketNew, Has
  <2>6. HandsNew(k)'
    <3> SUFFICES ASSUME NEW h \in Getter, at'[h] # "idle", want[h] = k, got'[h] # Null
                 PROVE  (Top(got[h], k))'
      BY DEF HandsNew
    <3>x. PICK x : x = got'[h]
      OBVIOUS
    <3>1. Top(x, k)
      <4>1. CASE h = g
        BY <1>4, <3>x, <4>1
      <4>2. CASE h # g
        <5>1. at[h] # "idle" /\ got[h] = x /\ x # Null
          BY <1>4, <3>x, <4>2
        <5> QED BY <2>1, <5>1 DEF HandsNew
      <4> QED BY <4>1, <4>2
    <3>2. (Top(x, k))'
      BY <3>1, SameChain
    <3> QED BY <3>x, <3>2 DEF Top, KeyOf, StampOf
  <2>7. ListsNew(k)'
    <3> SUFFICES ASSUME \A b \in Working(k) : stage[b] = "bucket"
                 PROVE  \A l \in {listTx', listIndex'} : l.map[k] # Nil => (Top(l.tx[l.map[k]], k))'
      BY <2>2 DEF ListsNew, Top, KeyOf, StampOf, Has
    <3>1. \A l \in {listTx, listIndex} : l.map[k] # Nil => Top(l.tx[l.map[k]], k)
      BY <2>1 DEF ListsNew
    <3>2. \A m \in {m1, m2} : m.map[k] # Nil => Top(m.tx[m.map[k]], k)
      BY <3>1 DEF Carries
    <3> QED BY <3>2, SameChain
  <2> QED BY <2>4, <2>5, <2>6, <2>7
<1>7. Unraced'
  BY <1>6 DEF Unraced
<1> QED BY <1>1, <1>2, <1>5, <1>7 DEF IInv

\* What a look-up under way has in hand and finds in the lists.
LEMMA UnderWay ==
  ASSUME IInv, NEW g \in Getter, at[g] # "idle"
  PROVE  /\ at[g] \in Place /\ want[g] \in Key /\ got[g] \in Tx /\ got = [got EXCEPT ![g] = got[g]]
         /\ at = [at EXCEPT ![g] = at[g]]
         /\ got[g] # Null => KeyOf(got[g]) = want[g]
         /\ got[g] # Null /\ want[g] \notin raced => Top(got[g], want[g])
         /\ at[g] \in {"promote", "enter", "check", "indexTail"} => got[g] # Null
         /\ want[g] \notin raced => Working(want[g]) = {} /\ BucketNew(want[g])
         /\ \A l \in {listTx, listIndex} :
               /\ Cells(l) /\ Carries(l, l)
               /\ l.map[want[g]] # Nil =>
                     LET t == l.tx[l.map[want[g]]]
                     IN t \in Tx \ {Null} /\ KeyOf(t) = want[g] /\ (want[g] \notin raced => Top(t, want[g]))
<1>k. PICK k : k = want[g]
  OBVIOUS
<1>1. /\ at[g] \in Place /\ want[g] \in Key /\ got[g] \in Tx /\ got = [got EXCEPT ![g] = got[g]]
      /\ at = [at EXCEPT ![g] = at[g]]
      /\ got[g] # Null => KeyOf(got[g]) = want[g]
      /\ at[g] \in {"promote", "enter", "check", "indexTail"} => got[g] # Null
  BY DEF IInv, InHand
<1>2. ASSUME k \notin raced
      PROVE  LastAtWork(k) /\ ListsNew(k) /\ BucketNew(k) /\ HandsNew(k)
  BY <1>k, <1>1, <1>2 DEF IInv, Unraced
<1>3. Looked(k)
  BY <1>k DEF Looked
<1>4. k \notin raced => Working(k) = {} /\ BucketNew(k)
  BY <1>2, <1>3 DEF LastAtWork
<1>5. got[g] # Null /\ k \notin raced => Top(got[g], k)
  BY <1>k, <1>2 DEF HandsNew
<1>6. ASSUME NEW l \in {listTx, listIndex}
      PROVE  /\ Cells(l) /\ Carries(l, l)
             /\ l.map[k] # Nil =>
                   /\ l.tx[l.map[k]] \in Tx \ {Null} /\ KeyOf(l.tx[l.map[k]]) = k
                   /\ k \notin raced => Top(l.tx[l.map[k]], k)
  <2>1. Cells(l)
    BY DEF IInv
  <2>2. Carries(l, l)
    BY <2>1, SameFewer, FewerCarries
  <2>3. k \notin raced /\ l.map[k] # Nil => Top(l.tx[l.map[k]], k)
    BY <1>2, <1>4 DEF ListsNew
  <2>4. ASSUME l.map[k] # Nil PROVE l.tx[l.map[k]] \in Tx \ {Null} /\ KeyOf(l.tx[l.map[k]]) = k
    <3>1. l.map[k] \in DOMAIN l.key /\ l.key[l.map[k]] = k
      BY <1>k, <1>1, <2>1, <2>4 DEF Cells
    <3>2. KeyOf(l.tx[l.map[k]]) = k
      BY <2>1, <3>1 DEF Cells
    <3>3. l.map[k] \in DOMAIN l.tx
      <4>1. l.key \in Seq(Key) /\ Len(l.tx) = Len(l.key)
        BY <2>1 DEF Cells
      <4>2. l.tx \in Seq(Tx \ {Null})
        BY <2>1 DEF Cells
      <4>3. DOMAIN l.tx = DOMAIN l.key
        <5> DEFINE S == Tx \ {Null}
        <5> HIDE DEF S
        <5>1. l.tx \in Seq(S)
          BY <4>2 DEF S
        <5> QED BY <4>1, <5>1
      <4> QED BY <3>1, <4>3
    <3>4. l.tx[l.map[k]] \in Tx \ {Null}
      <4> DEFINE S == Tx \ {Null}
      <4> HIDE DEF S
      <4>1. l.tx \in Seq(S)
        BY <2>1 DEF Cells, S
      <4>2. l.tx[l.map[k]] \in S
        BY <3>3, <4>1
      <4> QED BY <4>2 DEF S
    <3> QED BY <3>2, <3>4
  <2> QED BY <2>1, <2>2, <2>3, <2>4
<1> QED BY <1>k, <1>1, <1>4, <1>5, <1>6

\* The look-up in a list, ...
LEMMA InListKeeps ==
  ASSUME IInv, NEW g \in Getter, getInTX(g) \/ getInIndex(g) PROVE IInv'
<1>1. ASSUME NEW l, l \in {listTx, listIndex}, NEW from \in Place, from # "idle",
             NEW to1 \in {"search", "index"}, NEW to2 \in {"txTail", "indexTail"},
             IF l.map[want[g]] = Nil THEN Go(g, from, to1) /\ UNCHANGED got
                                     ELSE Go(g, from, to2) /\ Found(g, l.tx[l.map[want[g]]]),
             UNCHANGED <<blocks, lists, want, met, raced, crashes, crashed>>
      PROVE  IInv'
  <2>0. at[g] # "idle" /\ to1 \in Place /\ to2 \in Place
    BY <1>1 DEF Go, Place
  <2>1. chain' = chain /\ bucket' = bucket /\ stage' = stage /\ want' = want /\ raced' = raced
        /\ listTx' = listTx /\ listIndex' = listIndex
    BY <1>1 DEF blocks, lists
  <2>2. Cells(listTx) /\ Carries(listTx, listTx) /\ Cells(listIndex) /\ Carries(listIndex, listIndex)
    BY <2>0, UnderWay
  <2>m. PICK m1, m2 : m1 = listTx /\ m2 = listIndex
    OBVIOUS
  <2>3. CASE l.map[want[g]] = Nil
    <3>t. PICK t : t = got[g]
      OBVIOUS
    <3>1. at' = [at EXCEPT ![g] = to1] /\ got' = [got EXCEPT ![g] = t] /\ t \in Tx
          /\ (t # Null => KeyOf(t) = want[g])
          /\ (t # Null /\ want[g] \notin raced => Top(t, want[g]))
      BY <1>1, <2>0, <2>3, <3>t, UnderWay DEF Go
    <3>2. to1 \notin {"promote", "enter", "check", "indexTail"}
      OBVIOUS
    <3>3. listTx' = m1 /\ Cells(m1) /\ Carries(listTx, m1) /\ listIndex' = m2 /\ Cells(m2)
          /\ Carries(listIndex, m2)
      BY <2>1, <2>2, <2>m
    <3> QED BY <2>0, <2>1, <3>1, <3>2, <3>3, LookUpKeeps
  <2>4. CASE l.map[want[g]] # Nil
    <3>t. PICK t : t = l.tx[l.map[want[g]]]
      OBVIOUS
    <3>1. t \in Tx \ {Null} /\ KeyOf(t) = want[g] /\ (want[g] \notin raced => Top(t, want[g]))
      BY <1>1, <2>0, <2>4, <3>t, UnderWay
    <3>2. at' = [at EXCEPT ![g] = to2] /\ got' = [got EXCEPT ![g] = t]
      BY <1>1, <2>4, <3>t DEF Go, Found
    <3>3. listTx' = m1 /\ Cells(m1) /\ Carries(listTx, m1) /\ listIndex' = m2 /\ Cells(m2)
          /\ Carries(listIndex, m2)
      BY <2>1, <2>2, <2>m
    <3> QED BY <2>0, <2>1, <3>1, <3>2, <3>3, LookUpKeeps
  <2> QED BY <2>3, <2>4
<1>2. CASE getInTX(g)
  <2>1. "tx" \in Place /\ "tx" # "idle"
    BY DEF Place
  <2> QED BY <1>1, <1>2, <2>1 DEF getInTX
<1>3. CASE getInIndex(g)
  <2>1. "index" \in Place /\ "index" # "idle"
    BY DEF Place
  <2> QED BY <1>1, <1>3, <2>1 DEF getInIndex
<1> QED BY <1>2, <1>3

\* ... and in the chains, ...
LEMMA InChainKeeps ==
  ASSUME IInv, NEW g \in Getter, InTable(g) \/ InBoltDb(g) PROVE IInv'
<1>1. ASSUME NEW from \in {"search", "scan"}, NEW otherwise \in {"scan", "idle"},
             NEW t, Search(g, from, t, otherwise),
             t = Null \/ (t \in Tx /\ KeyOf(t) = want[g] /\ (want[g] \notin raced => Top(t, want[g])))
      PROVE  IInv'
  <2>0. at[g] # "idle"
    BY <1>1 DEF Search, Go
  <2>1. chain' = chain /\ bucket' = bucket /\ stage' = stage /\ want' = want /\ raced' = raced
        /\ listTx' = listTx /\ listIndex' = listIndex
    BY <1>1 DEF Search, blocks, lists
  <2>2. Cells(listTx) /\ Carries(listTx, listTx) /\ Cells(listIndex) /\ Carries(listIndex, listIndex)
    BY <2>0, UnderWay
  <2>m. PICK m1, m2 : m1 = listTx /\ m2 = listIndex
    OBVIOUS
  <2>3. listTx' = m1 /\ Cells(m1) /\ Carries(listTx, m1) /\ listIndex' = m2 /\ Cells(m2)
        /\ Carries(listIndex, m2)
    BY <2>1, <2>2, <2>m
  <2>t. PICK to : to = IF t = Null THEN otherwise ELSE "enter"
    OBVIOUS
  <2>4. to \in Place /\ (to \in {"promote", "enter", "check", "indexTail"} => t # Null)
    BY <2>t DEF Place
  <2>5. at' = [at EXCEPT ![g] = to] /\ got' = [got EXCEPT ![g] = t]
    BY <1>1, <2>t DEF Search, Go, Found
  <2>6. t \in Tx
    BY <1>1 DEF Tx
  <2> QED BY <1>1, <2>0, <2>1, <2>3, <2>4, <2>5, <2>6, LookUpKeeps
<1>2. Chained
  BY DEF IInv
<1>3. ASSUME NEW k, NEW t, Top(t, k) PROVE t \in Tx /\ KeyOf(t) = k
  BY <1>3 DEF Top
<1>4. CASE InTable(g)
  <2>k. PICK k, t : k = want[g] /\ t = getInTableHashChain(k)
    OBVIOUS
  <2>0. at[g] # "idle"
    BY <1>4 DEF InTable, Search, Go
  <2>1. k \notin raced /\ t # Null => Top(t, k)
    BY <1>2, <2>0, <2>k, UnderWay, TableIs
  <2>2. t = Null \/ (t \in Tx /\ KeyOf(t) = k)
    <3>1. bucket \in Seq(DOMAIN chain)
      BY <1>2 DEF Chained
    <3>2. t = Null \/ \E i \in DOMAIN bucket : TopIn(t, bucket[i], k)
      BY <1>2, <2>k, <3>1, FirstBackIs DEF getInTableHashChain
    <3> QED BY <3>2 DEF TopIn
  <2>3. Search(g, "search", t, "scan")
    BY <1>4, <2>k DEF InTable
  <2> QED BY <1>1, <2>1, <2>2, <2>3, <2>k
<1>5. CASE InBoltDb(g)
  <2>k. PICK k, t : k = want[g] /\ t = getInBoltDb(k)
    OBVIOUS
  <2>1. t = Null \/ Top(t, k)
    BY <1>2, <2>k, BoltDbIs
  <2>2. t = Null \/ (t \in Tx /\ KeyOf(t) = k)
    BY <1>3, <2>1
  <2>3. Search(g, "scan", t, "idle")
    BY <1>5, <2>k DEF InBoltDb
  <2> QED BY <1>1, <2>1, <2>2, <2>3, <2>k
<1> QED BY <1>4, <1>5

\* ... the steps that move a cell or make the map forget a key, ...
LEMMA TouchKeeps ==
  ASSUME IInv, NEW g \in Getter, TxToTail(g) \/ IndexToTail(g) \/ checkDel(g) PROVE IInv'
<1>1. ASSUME NEW from \in {"txTail", "indexTail", "check"}, NEW to \in {"idle", "check", "promote"},
             NEW l, from = "txTail" => to = "idle", Touch(g, from, to, l),
             NEW m1, listTx' = m1, m1 = listTx \/ Fewer(listTx, m1),
             NEW m2, listIndex' = m2, m2 = listIndex \/ Fewer(listIndex, m2)
      PROVE  IInv'
  <2>1. at[g] = from /\ (at' = [at EXCEPT ![g] = from] \/ at' = [at EXCEPT ![g] = to])
    BY <1>1 DEF Touch, Go
  <2>2. from \in Place /\ to \in Place
    BY DEF Place
  <2>3. chain' = chain /\ bucket' = bucket /\ stage' = stage /\ want' = want /\ raced' = raced
        /\ got' = got
    BY <1>1 DEF Touch, blocks
  <2>t. PICK t : t = got[g]
    OBVIOUS
  <2>4. /\ t \in Tx /\ got' = [got EXCEPT ![g] = t]
        /\ t # Null => KeyOf(t) = want[g]
        /\ t # Null /\ want[g] \notin raced => Top(t, want[g])
        /\ from # "txTail" => t # Null
    BY <2>1, <2>3, <2>t, UnderWay
  <2>5. Cells(m1) /\ Carries(listTx, m1) /\ Cells(m2) /\ Carries(listIndex, m2)
    <3>1. Cells(listTx) /\ Cells(listIndex)
      BY DEF IInv
    <3>2. Fewer(listTx, m1) /\ Fewer(listIndex, m2)
      BY <1>1, <3>1, SameFewer
    <3> QED BY <3>1, <3>2, FewerCells, FewerCarries
  <2>6. ASSUME NEW w \in {from, to}, at' = [at EXCEPT ![g] = w] PROVE IInv'
    <3>1. w \in Place /\ (w \in {"promote", "enter", "check", "indexTail"} => t # Null)
      BY <1>1, <2>2, <2>4
    <3>2. at[g] # "idle"
      BY <2>1
    <3> QED BY <1>1, <2>3, <2>4, <2>5, <2>6, <3>1, <3>2, LookUpKeeps
  <2> QED BY <2>1, <2>6
<1>2. Cells(listTx) /\ Cells(listIndex)
  BY DEF IInv
<1>k. PICK k, p, m1, m2 : k = want[g] /\ p = listIndex.map[k] /\ m1 = listTx' /\ m2 = listIndex'
  OBVIOUS
<1>3. CASE TxToTail(g)
  <2>1. Touch(g, "txTail", "idle", listTx) /\ m2 = listIndex
    BY <1>3, <1>k DEF TxToTail
  <2>2. m1 = listTx \/ m1 = toTail(listTx, k)
    BY <1>3, <1>k DEF TxToTail
  <2>3. m1 = listTx \/ Fewer(listTx, m1)
    BY <1>2, <2>2, ToTailFewer
  <2> QED BY <1>1, <1>k, <2>1, <2>3
<1>4. CASE IndexToTail(g)
  <2>1. Touch(g, "indexTail", "check", listIndex) /\ m1 = listTx
    BY <1>4, <1>k DEF IndexToTail
  <2>c. PICK c : c = [listIndex EXCEPT !.count[p] = @ + 1]
    OBVIOUS
  <2>2. m2 = listIndex \/ m2 = toTail(c, k)
    BY <1>4, <1>k, <2>c DEF IndexToTail
  <2>3. Fewer(listIndex, c)
    BY <1>2, <2>c, CountFewer
  <2>4. Fewer(c, toTail(c, k))
    BY <1>2, <2>3, FewerCells, ToTailFewer
  <2>5. Fewer(listIndex, toTail(c, k))
    BY <2>3, <2>4 DEF Fewer
  <2>6. m2 = listIndex \/ Fewer(listIndex, m2)
    BY <2>2, <2>5
  <2> QED BY <1>1, <1>k, <2>1, <2>6
<1>5. CASE checkDel(g)
  <2>0. PICK to : to = IF listIndex.map[want[g]] # Nil /\ listIndex.count[listIndex.map[want[g]]] >= 3
                       THEN "promote" ELSE "idle"
    OBVIOUS
  <2>1. Touch(g, "check", to, listIndex) /\ m1 = listTx /\ to \in {"idle", "promote"}
    BY <1>5, <1>k, <2>0 DEF checkDel
  <2>2. m2 = listIndex \/ m2 = Unlink(listIndex, k)
    BY <1>5, <1>k DEF checkDel
  <2>3. m2 = listIndex \/ Fewer(listIndex, m2)
    BY <1>2, <2>2, UnlinkFewer
  <2> QED BY <1>1, <1>k, <2>1, <2>3
<1> QED BY <1>3, <1>4, <1>5

\* ... and queueIn, which puts in a list what the look-up has in hand.
LEMMA EnterKeeps ==
  ASSUME IInv, NEW g \in Getter, TxQueueIn(g) \/ IndexQueueIn(g) PROVE IInv'
<1>1. ASSUME NEW from \in {"promote", "enter"}, NEW l, l \in {listTx, listIndex}, NEW max,
             Enter(g, from, l, max),
             NEW m1, listTx' = m1, m1 = listTx \/ (l = listTx /\ m1 = queueIn(listTx, max, want[g], got[g])),
             NEW m2, listIndex' = m2,
             m2 = listIndex \/ (l = listIndex /\ m2 = queueIn(listIndex, max, want[g], got[g]))
      PROVE  IInv'
  <2>1. /\ at[g] = from /\ (at' = [at EXCEPT ![g] = from] \/ at' = [at EXCEPT ![g] = "idle"])
        /\ Len(l.key) < MaxCells
    BY <1>1 DEF Enter, Go
  <2>2. from \in Place /\ "idle" \in Place
    BY DEF Place
  <2>3. chain' = chain /\ bucket' = bucket /\ stage' = stage /\ want' = want /\ raced' = raced
        /\ got' = got
    BY <1>1 DEF Enter, blocks
  <2>t. PICK t, k : t = got[g] /\ k = want[g]
    OBVIOUS
  <2>4. /\ t \in Tx \ {Null} /\ got' = [got EXCEPT ![g] = t] /\ k \in Key
        /\ KeyOf(t) = k /\ (k \notin raced => Top(t, k))
    BY <2>1, <2>3, <2>t, UnderWay
  <2>5. Cells(listTx) /\ Cells(listIndex) /\ Carries(listTx, listTx) /\ Carries(listIndex, listIndex)
    BY SameFewer, FewerCarries DEF IInv
  <2>6. Cells(m1) /\ Carries(listTx, m1)
    <3>1. CASE m1 = listTx
      BY <2>5, <3>1
    <3>2. CASE l = listTx /\ m1 = queueIn(listTx, max, k, t)
      <4>1. Cells(queueIn(listTx, max, k, t)) /\ Carries(listTx, queueIn(listTx, max, k, t))
        BY <2>1, <2>4, <2>5, <3>2, QueueInCells, CacheAssumption
      <4> QED BY <3>2, <4>1
    <3> QED BY <1>1, <2>t, <3>1, <3>2
  <2>7. Cells(m2) /\ Carries(listIndex, m2)
    <3>1. CASE m2 = listIndex
      BY <2>5, <3>1
    <3>2. CASE l = listIndex /\ m2 = queueIn(listIndex, max, k, t)
      <4>1. Cells(queueIn(listIndex, max, k, t)) /\ Carries(listIndex, queueIn(listIndex, max, k, t))
        BY <2>1, <2>4, <2>5, <3>2, QueueInCells, CacheAssumption
      <4> QED BY <3>2, <4>1
    <3> QED BY <1>1, <2>t, <3>1, <3>2
  <2>8. ASSUME NEW w \in {from, "idle"}, at' = [at EXCEPT ![g] = w] PROVE IInv'
    <3>1. w \in Place /\ at[g] # "idle" /\ t \in Tx /\ t # Null /\ KeyOf(t) = want[g]
          /\ (want[g] \notin raced => Top(t, want[g]))
      BY <2>1, <2>2, <2>4, <2>t
    <3> QED BY <1>1, <2>3, <2>4, <2>6, <2>7, <2>8, <3>1, LookUpKeeps
  <2> QED BY <2>1, <2>8
<1>m. PICK m1, m2 : m1 = listTx' /\ m2 = listIndex'
  OBVIOUS
<1>2. CASE TxQueueIn(g)
  BY <1>1, <1>2, <1>m DEF TxQueueIn
<1>3. CASE IndexQueueIn(g)
  BY <1>1, <1>3, <1>m DEF IndexQueueIn
<1> QED BY <1>2, <1>3

\* A look-up of k begins: k is raced if a block with it is being worked in.
LEMMA CallKeeps ==
  ASSUME IInv, NEW g \in Getter, NEW k \in Key, Call(g, k) PROVE IInv'
<1>0. /\ chain' = chain /\ bucket' = bucket /\ stage' = stage
      /\ listTx' = listTx /\ listIndex' = listIndex
      /\ at[g] = "idle" /\ at' = [at EXCEPT ![g] = "tx"]
      /\ want' = [want EXCEPT ![g] = k] /\ got' = [got EXCEPT ![g] = Null]
      /\ raced' = raced \cup {x \in {k} : \E b \in DOMAIN chain : Busy(b) /\ Has(b, x)}
  BY DEF Call, Go, Found, blocks, lists
<1>1. Chained'
  BY <1>0 DEF IInv, Chained
<1>2. Cells(listTx)' /\ Cells(listIndex)'
  <2>m. PICK m1, m2 : m1 = listTx /\ m2 = listIndex
    OBVIOUS
  <2>1. (Cells(m1))' /\ (Cells(m2))'
    BY <1>0, <2>m, SameCells DEF IInv
  <2> QED BY <1>0, <2>1, <2>m DEF Cells, Fields
<1>3. /\ at \in [Getter -> Place] /\ want \in [Getter -> Key] /\ got \in [Getter -> Tx]
      /\ \A h \in Getter : got[h] # Null => KeyOf(got[h]) = want[h]
      /\ \A h \in Getter : at[h] \in {"promote", "enter", "check", "indexTail"} => got[h] # Null
  BY DEF IInv, InHand
<1>4. /\ at' \in [Getter -> Place] /\ got' \in [Getter -> Tx] /\ want' \in [Getter -> Key]
      /\ at'[g] = "tx" /\ got'[g] = Null /\ want'[g] = k
      /\ \A h \in Getter \ {g} : at'[h] = at[h] /\ got'[h] = got[h] /\ want'[h] = want[h]
  <2>1. "tx" \in Place /\ Null \in Tx
    BY DEF Place, Tx
  <2> QED BY <1>0, <1>3, <2>1
<1>5. InHand'
  <2>1. \A h \in Getter : got'[h] # Null => (KeyOf(got[h]))' = want'[h]
    <3> SUFFICES ASSUME NEW h \in Getter, got'[h] # Null PROVE (KeyOf(got[h]))' = want'[h]
      OBVIOUS
    <3>1. got'[h] = got[h] /\ want'[h] = want[h] /\ KeyOf(got[h]) = want[h]
      BY <1>3, <1>4
    <3> QED BY <1>0, <3>1 DEF KeyOf
  <2>2. \A h \in Getter : at'[h] \in {"promote", "enter", "check", "indexTail"} => got'[h] # Null
    <3> SUFFICES ASSUME NEW h \in Getter, at'[h] \in {"promote", "enter", "check", "indexTail"}
                 PROVE  got'[h] # Null
      OBVIOUS
    <3>1. h # g
      BY <1>4
    <3> QED BY <1>3, <1>4, <3>1
  <2>3. Tx' = Tx
    BY <1>0, SameChain
  <2> QED BY <1>4, <2>1, <2>2, <2>3 DEF InHand
<1>6. ASSUME NEW j \in Key \ raced'
      PROVE  LastAtWork(j)' /\ ListsNew(j)' /\ BucketNew(j)' /\ HandsNew(j)'
  <2>0. j \in Key \ raced
    BY <1>0
  <2>1. LastAtWork(j) /\ ListsNew(j) /\ BucketNew(j) /\ HandsNew(j)
    BY <2>0 DEF IInv, Unraced
  <2>2. Working(j)' = Working(j)
    BY <1>0 DEF Working, Busy, Has
  <2>3. Looked(j)' => Looked(j) \/ j = k
    BY <1>3, <1>4 DEF Looked
  <2>4. j = k => Working(j) = {}
    BY <1>0 DEF Working
  <2>5. LastAtWork(j)'
    BY <1>0, <2>1, <2>2, <2>3, <2>4 DEF LastAtWork, Has
  <2>6. BucketNew(j)'
    BY <1>0, <2>1, <2>2 DEF BucketNew, Has
  <2>7. ListsNew(j)'
    <3> SUFFICES ASSUME \A b \in Working(j) : stage[b] = "bucket"
                 PROVE  \A l \in {listTx, listIndex} : l.map[j] # Nil => (Top(l.tx[l.map[j]], j))'
      BY <1>0, <2>2 DEF ListsNew, Top, KeyOf, StampOf, Has
    <3>m. PICK m1, m2 : m1 = listTx /\ m2 = listIndex
      OBVIOUS
    <3>1. \A m \in {m1, m2} : m.map[j] # Nil => Top(m.tx[m.map[j]], j)
      BY <2>1, <3>m DEF ListsNew
    <3>2. \A m \in {m1, m2} : m.map[j] # Nil => (Top(m.tx[m.map[j]], j))'
      BY <1>0, <3>1, SameChain
    <3> QED BY <1>0, <3>2, <3>m DEF Top, KeyOf, StampOf, Has, Tx
  <2>8. HandsNew(j)'
    <3> SUFFICES ASSUME NEW h \in Getter, at'[h] # "idle", want'[h] = j, got'[h] # Null
                 PROVE  (Top(got[h], j))'
      BY DEF HandsNew
    <3>1. h # g /\ at[h] # "idle" /\ want[h] = j /\ got'[h] = got[h]
      BY <1>4
    <3>2. Top(got[h], j)
      BY <2>1, <3>1 DEF HandsNew
    <3> QED BY <1>0, <3>1, <3>2 DEF Top, KeyOf, StampOf, Has, Tx
  <2> QED BY <2>5, <2>6, <2>7, <2>8
<1>7. Unraced'
  BY <1>6 DEF Unraced
<1> QED BY <1>1, <1>2, <1>5, <1>7 DEF IInv

\* The end of the process: a block that is being worked in leaves its keys raced.
LEMMA RestartKeeps ==
  ASSUME IInv, Restart PROVE IInv'
<1>0. /\ chain' = chain /\ bucket' = bucket /\ want' = want
      /\ stage' = [b \in DOMAIN stage |-> IF Busy(b) THEN "over" ELSE stage[b]]
      /\ raced' = raced \cup UNION {KeysOf(b) : b \in {c \in DOMAIN chain : Busy(c)}}
      /\ listTx' = EmptyList /\ listIndex' = EmptyList /\ at' = Idle
      /\ got' = [g \in Getter |-> Null]
  BY DEF Restart
<1>1. Chained'
  BY <1>0 DEF IInv, Chained, Busy
<1>2. (Cells(EmptyList))'
  <2>e. PICK e : e = EmptyList
    OBVIOUS
  <2>1. /\ e.map = [k \in Key |-> Nil] /\ e.key = <<>> /\ e.tx = <<>> /\ Fields(e)
    BY <2>e DEF EmptyList, Fields
  <2>2. <<>> \in Seq(Key) /\ <<>> \in Seq(Tx' \ {Null}) /\ Len(<<>>) = Len(<<>>) /\ DOMAIN <<>> = {}
    OBVIOUS
  <2>3. [k \in Key |-> Nil] \in [Key -> {Nil} \cup Cell]
    OBVIOUS
  <2>4. (Cells(e))'
    BY <2>1, <2>2, <2>3 DEF Cells, Fields
  <2> QED BY <2>4, <2>e DEF Cells, Fields, EmptyList
<1>3. Cells(listTx)' /\ Cells(listIndex)'
  BY <1>0, <1>2 DEF Cells, Fields, EmptyList
<1>4. /\ \A g \in Getter : at'[g] = "idle" /\ got'[g] = Null
      /\ at' \in [Getter -> Place] /\ got' \in [Getter -> Tx']
  <2>1. "idle" \in Place /\ Null \in Tx'
    BY DEF Place, Tx
  <2> QED BY <1>0, <2>1 DEF Idle
<1>5. InHand'
  BY <1>0, <1>4 DEF IInv, InHand
<1>6. ASSUME NEW k \in Key \ raced'
      PROVE  LastAtWork(k)' /\ ListsNew(k)' /\ BucketNew(k)' /\ HandsNew(k)'
  <2>1. Working(k) = {} /\ k \in Key \ raced
    BY <1>0 DEF Working, KeysOf, Has
  <2>2. Working(k)' = {}
    <3>1. \A b \in DOMAIN chain : b \in DOMAIN stage
      BY CacheAssumption DEF IInv, Chained, CacheAssumption
    <3>2. \A b \in DOMAIN chain : stage'[b] \notin {"cache", "bucket"}
      BY <1>0, <3>1 DEF Busy
    <3> QED BY <1>0, <3>2 DEF Working, Busy
  <2>3. BucketNew(k)
    BY <2>1 DEF IInv, Unraced
  <2>4. LastAtWork(k)' /\ HandsNew(k)'
    BY <1>4, <2>2 DEF LastAtWork, HandsNew
  <2>5. ListsNew(k)'
    BY <1>0 DEF ListsNew, EmptyList
  <2>6. BucketNew(k)'
    BY <1>0, <2>1, <2>3 DEF BucketNew, Has
  <2> QED BY <2>4, <2>5, <2>6
<1>7. Unraced'
  BY <1>6 DEF Unraced
<1> QED BY <1>1, <1>3, <1>5, <1>7 DEF IInv

\* A block is appended: what was said of transactions is said of them still, and its keys
\* are raced if they are looked up or another block with them is being worked in.
LEMMA ArriveKeeps ==
  ASSUME IInv, NEW p \in Payload, Arrive(p) PROVE IInv'
<1>b. PICK b : b = Len(chain) + 1
  OBVIOUS
<1>d. PICK keys, disturbed : /\ keys = {p[i].key : i \in DOMAIN p}
                             /\ disturbed = {k \in keys : Looked(k) \/ \E c \in DOMAIN chain : Busy(c) /\ Has(c, k)}
  OBVIOUS
<1>0. /\ b <= MaxBlocks /\ stage[b] = "none" /\ stage' = [stage EXCEPT ![b] = "cache"]
      /\ chain' = Append(chain, p) /\ raced' = (raced \ keys) \cup disturbed
      /\ bucket' = bucket /\ listTx' = listTx /\ listIndex' = listIndex
      /\ at' = at /\ want' = want /\ got' = got
  BY <1>b, <1>d DEF Arrive, Move, lists, getters
<1>c. Chained
  BY DEF IInv
<1>1. /\ Len(chain) \in Nat /\ b \in Nat /\ b \in 1 .. MaxBlocks
      /\ DOMAIN chain = 1 .. Len(chain) /\ DOMAIN chain' = DOMAIN chain \cup {b} /\ b \notin DOMAIN chain
      /\ chain' \in Seq(Payload) /\ Len(chain') = b /\ chain'[b] = p
      /\ \A c \in DOMAIN chain : chain'[c] = chain[c] /\ c <= b
  BY <1>0, <1>b, <1>c, CacheAssumption DEF Chained, CacheAssumption
<1>2. /\ stage'[b] = "cache" /\ \A c \in 1 .. MaxBlocks : c # b => stage'[c] = stage[c]
      /\ stage' \in [1 .. MaxBlocks -> {"none", "cache", "bucket", "over"}]
      /\ DOMAIN chain \subseteq 1 .. MaxBlocks
  BY <1>0, <1>1, <1>c, CacheAssumption DEF Chained, CacheAssumption
<1>3. Chained'
  <2>1. bucket' \in Seq(DOMAIN chain')
    <3>1. bucket \in Seq(DOMAIN chain)
      BY <1>c DEF Chained
    <3>2. \A S, T : S \subseteq T => Seq(S) \subseteq Seq(T)
      OBVIOUS
    <3> QED BY <1>0, <1>1, <3>1, <3>2
  <2>2. \A c \in 1 .. MaxBlocks : stage'[c] = "none" <=> c \notin DOMAIN chain'
    BY <1>1, <1>2, <1>c DEF Chained
  <2> QED BY <1>0, <1>1, <1>2, <2>1, <2>2 DEF Chained
<1>4. ASSUME NEW t \in Tx \ {Null}
      PROVE  /\ t \in Tx' \ {Null} /\ (KeyOf(t))' = KeyOf(t) /\ (StampOf(t))' = StampOf(t)
             /\ t[1] \in DOMAIN chain /\ chain'[t[1]] = chain[t[1]]
  <2>1. t[1] \in DOMAIN chain /\ t[2] \in DOMAIN chain[t[1]] /\ t = <<t[1], t[2]>>
    BY <1>c, TxIs
  <2>2. t[1] \in DOMAIN chain' /\ chain'[t[1]] = chain[t[1]] /\ t[2] \in DOMAIN chain'[t[1]]
    BY <1>1, <2>1
  <2>3. t \in Tx'
    BY <2>1, <2>2 DEF Tx
  <2> QED BY <2>1, <2>2, <2>3 DEF KeyOf, StampOf
<1>5. Tx \subseteq Tx' /\ Seq(Tx \ {Null}) \subseteq Seq(Tx' \ {Null})
  <2>1. Null \in Tx'
    BY DEF Tx
  <2>2. \A t \in Tx : t \in Tx'
    BY <1>4, <2>1
  <2>3. Tx \ {Null} \subseteq Tx' \ {Null}
    BY <2>2
  <2>4. \A S, T : S \subseteq T => Seq(S) \subseteq Seq(T)
    OBVIOUS
  <2> QED BY <2>2, <2>3, <2>4
<1>6. ASSUME NEW l, Cells(l) PROVE (Cells(l))'
  <2>1. \A c \in DOMAIN l.key : l.tx[c] \in Tx \ {Null}
    <3> DEFINE S == Tx \ {Null}
    <3> HIDE DEF S
    <3>1. l.tx \in Seq(S)
      BY <1>6 DEF Cells, S
    <3>2. l.key \in Seq(Key) /\ Len(l.tx) = Len(l.key)
      BY <1>6 DEF Cells
    <3>3. \A c \in DOMAIN l.key : l.tx[c] \in S
      BY <3>1, <3>2
    <3> QED BY <3>3 DEF S
  <2>2. \A c \in DOMAIN l.key : (KeyOf(l.tx[c]))' = l.key[c]
    BY <1>4, <1>6, <2>1 DEF Cells
  <2> QED BY <1>5, <1>6, <2>2 DEF Cells, Fields
<1>7. Cells(listTx)' /\ Cells(listIndex)'
  <2>m. PICK m1, m2 : m1 = listTx /\ m2 = listIndex
    OBVIOUS
  <2>1. (Cells(m1))' /\ (Cells(m2))'
    BY <1>6, <2>m DEF IInv
  <2> QED BY <1>0, <2>1, <2>m DEF Cells, Fields
<1>8. InHand'
  <2>1. /\ at \in [Getter -> Place] /\ want \in [Getter -> Key] /\ got \in [Getter -> Tx]
        /\ \A h \in Getter : got[h] # Null => KeyOf(got[h]) = want[h]
        /\ \A h \in Getter : at[h] \in {"promote", "enter", "check", "indexTail"} => got[h] # Null
    BY DEF IInv, InHand
  <2>2. ASSUME NEW h \in Getter, got[h] # Null PROVE (KeyOf(got[h]))' = want'[h]
    <3>x. PICK x : x = got[h]
      OBVIOUS
    <3>1. x \in Tx \ {Null} /\ KeyOf(x) = want[h]
      BY <2>1, <2>2, <3>x
    <3>2. (KeyOf(x))' = want'[h]
      BY <1>0, <1>4, <3>1
    <3> QED BY <1>0, <3>2, <3>x DEF KeyOf
  <2> QED BY <1>0, <1>5, <2>1, <2>2 DEF InHand
<1>9. ASSUME NEW k \in Key \ raced'
      PROVE  LastAtWork(k)' /\ ListsNew(k)' /\ BucketNew(k)' /\ HandsNew(k)'
  <2>1. (Has(b, k))' <=> k \in keys
    BY <1>1, <1>d DEF Has
  <2>2. \A c \in DOMAIN chain : (Has(c, k))' <=> Has(c, k)
    BY <1>1 DEF Has
  <2>3. \A c \in DOMAIN chain : (Busy(c))' <=> Busy(c)
    BY <1>1, <1>2 DEF Busy
  <2>4. (Busy(b))'
    BY <1>2 DEF Busy
  <2>5. CASE k \in keys
    <3>1. ~ Looked(k) /\ Working(k) = {}
      BY <1>0, <1>d, <2>5 DEF Working
    <3>2. ~ Looked(k)'
      BY <1>0, <3>1 DEF Looked
    <3>3. Working(k)' = {b}
      <4>1. \A c : c \in Working(k)' => c = b
        BY <1>1, <2>2, <2>3, <3>1 DEF Working
      <4>2. b \in Working(k)'
        BY <1>1, <2>1, <2>4, <2>5 DEF Working
      <4> QED BY <4>1, <4>2
    <3>4. LastAtWork(k)'
      <4>1. \A c \in DOMAIN chain' : c <= b
        BY <1>1
      <4> QED BY <3>2, <3>3, <4>1 DEF LastAtWork
    <3>5. ListsNew(k)'
      BY <1>2, <3>3 DEF ListsNew
    <3>6. BucketNew(k)'
      BY <3>3 DEF BucketNew
    <3>7. HandsNew(k)'
      BY <3>2 DEF HandsNew, Looked
    <3> QED BY <3>4, <3>5, <3>6, <3>7
  <2>6. CASE k \notin keys
    <3>1. LastAtWork(k) /\ ListsNew(k) /\ BucketNew(k) /\ HandsNew(k)
      BY <1>0, <2>6 DEF IInv, Unraced
    <3>2. \A c \in DOMAIN chain' : (Has(c, k))' <=> c \in DOMAIN chain /\ Has(c, k)
      BY <1>1, <2>1, <2>2, <2>6
    <3>3. Working(k)' = Working(k)
      BY <1>1, <2>3, <3>2 DEF Working
    <3>4. Looked(k)' <=> Looked(k)
      BY <1>0 DEF Looked
    <3>5. LastAtWork(k)'
      BY <3>1, <3>2, <3>3, <3>4 DEF LastAtWork
    <3>6. BucketNew(k)'
      <4>1. bucket \in Seq(DOMAIN chain)
        BY <1>c DEF Chained
      <4>2. \A i \in DOMAIN bucket : bucket[i] \in DOMAIN chain /\ ((Has(bucket[i], k))' <=> Has(bucket[i], k))
        <5> SUFFICES ASSUME NEW i \in DOMAIN bucket
                     PROVE  bucket[i] \in DOMAIN chain /\ ((Has(bucket[i], k))' <=> Has(bucket[i], k))
          OBVIOUS
        <5>c. PICK c : c = bucket[i]
          OBVIOUS
        <5>1. c \in DOMAIN chain
          BY <4>1, <5>c
        <5> QED BY <1>0, <1>1, <5>1, <5>c DEF Has
      <4> QED BY <1>0, <3>1, <3>2, <3>3, <4>2 DEF BucketNew
    <3>7. ASSUME NEW t, Top(t, k) PROVE (Top(t, k))'
      <4>1. t \in Tx \ {Null} /\ KeyOf(t) = k
        BY <3>7 DEF Top
      <4>2. \A c \in DOMAIN chain' : (Has(c, k))' => c <= t[1]
        BY <3>2, <3>7 DEF Top
      <4>3. /\ t \in Tx' \ {Null} /\ (KeyOf(t))' = k /\ (StampOf(t))' = StampOf(t)
            /\ chain'[t[1]] = chain[t[1]]
        BY <1>4, <4>1
      <4>4. \A i \in DOMAIN chain[t[1]] : chain[t[1]][i].key = k => chain[t[1]][i].stamp <= StampOf(t)
        BY <3>7 DEF Top
      <4> QED BY <4>2, <4>3, <4>4 DEF Top
    <3>8. ListsNew(k)'
      <4> SUFFICES ASSUME \A c \in Working(k) : stage'[c] = "bucket"
                   PROVE  \A l \in {listTx, listIndex} : l.map[k] # Nil => (Top(l.tx[l.map[k]], k))'
        BY <1>0, <3>3 DEF ListsNew, Top, KeyOf, StampOf
      <4>1. \A c \in Working(k) : stage[c] = "bucket"
        BY <1>1, <1>2 DEF Working
      <4>m. PICK m1, m2 : m1 = listTx /\ m2 = listIndex
        OBVIOUS
      <4>2. \A m \in {m1, m2} : m.map[k] # Nil => Top(m.tx[m.map[k]], k)
        BY <3>1, <4>1, <4>m DEF ListsNew
      <4>3. \A m \in {m1, m2} : m.map[k] # Nil => (Top(m.tx[m.map[k]], k))'
        BY <3>7, <4>2
      <4> QED BY <1>0, <4>3, <4>m DEF Top, KeyOf, StampOf
    <3>9. HandsNew(k)'
      <4> SUFFICES ASSUME NEW h \in Getter, at[h] # "idle", want[h] = k, got[h] # Null
                   PROVE  (Top(got[h], k))'
        BY <1>0 DEF HandsNew
      <4>x. PICK x : x = got[h]
        OBVIOUS
      <4>1. Top(x, k)
        BY <3>1, <4>x DEF HandsNew
      <4>2. (Top(x, k))'
        BY <3>7, <4>1
      <4> QED BY <1>0, <4>2, <4>x DEF Top, KeyOf, StampOf
    <3> QED BY <3>5, <3>6, <3>8, <3>9
  <2> QED BY <2>5, <2>6
<1>10. Unraced'
  BY <1>9 DEF Unraced
<1> QED BY <1>3, <1>7, <1>8, <1>10 DEF IInv

\* updateDataCache gives a cell that the map knows one of the latest transactions of its
\* key in the block, and leaves the others alone.
LEMMA RefreshIs ==
  ASSUME Chained, NEW l, Cells(l), NEW b \in DOMAIN chain, NEW m, m = Refresh(l, b)
  PROVE  /\ Cells(m) /\ m.map = l.map
         /\ \A k \in Key : l.map[k] # Nil =>
               IF Has(b, k) THEN TopIn(m.tx[m.map[k]], b, k) ELSE m.tx[m.map[k]] = l.tx[l.map[k]]
<1>u. PICK u : u = [c \in DOMAIN l.tx |-> IF Has(b, l.key[c]) /\ l.map[l.key[c]] = c
                                          THEN LastOf(b, l.key[c]) ELSE l.tx[c]]
  OBVIOUS
<1>1. m = [next |-> l.next, pre |-> l.pre, map |-> l.map, curSize |-> l.curSize,
           key |-> l.key, tx |-> u, count |-> l.count]
  BY <1>u DEF Refresh, Cells, Fields
<1>2. /\ m.map = l.map /\ m.key = l.key /\ m.tx = u /\ m.next = l.next /\ m.pre = l.pre
      /\ m.curSize = l.curSize /\ m.count = l.count
  BY <1>1
<1>3. Fields(m)
  BY <1>1, <1>2 DEF Fields
<1> DEFINE S == Tx \ {Null}
<1>4. /\ l.map \in [Key -> {Nil} \cup Cell] /\ l.key \in Seq(Key)
      /\ l.tx \in Seq(S) /\ Len(l.tx) = Len(l.key)
      /\ \A k \in Key : l.map[k] # Nil => l.map[k] \in DOMAIN l.key /\ l.key[l.map[k]] = k
      /\ \A c \in DOMAIN l.key : KeyOf(l.tx[c]) = l.key[c]
  BY DEF Cells
<1>5. ASSUME NEW k, Has(b, k) PROVE TopIn(LastOf(b, k), b, k) /\ LastOf(b, k) \in S /\ KeyOf(LastOf(b, k)) = k
  BY <1>5, LastOfIs DEF TopIn
<1> HIDE DEF S
<1>6. /\ DOMAIN l.tx = DOMAIN l.key /\ DOMAIN u = DOMAIN l.tx
      /\ DOMAIN l.tx = 1 .. Len(l.tx) /\ Len(l.tx) \in Nat
      /\ \A c \in DOMAIN l.tx : l.tx[c] \in S
  BY <1>4, <1>u
<1>7. ASSUME NEW c \in DOMAIN l.tx PROVE u[c] \in S /\ KeyOf(u[c]) = l.key[c]
  <2>1. CASE Has(b, l.key[c]) /\ l.map[l.key[c]] = c
    BY <1>5, <1>u, <2>1
  <2>2. CASE ~ (Has(b, l.key[c]) /\ l.map[l.key[c]] = c)
    BY <1>4, <1>6, <1>u, <2>2
  <2> QED BY <2>1, <2>2
<1>8. u \in Seq(S) /\ Len(u) = Len(l.key)
  <2>1. u = [c \in 1 .. Len(l.tx) |-> u[c]]
    BY <1>6, <1>u
  <2>2. u \in [1 .. Len(l.tx) -> S]
    BY <1>6, <1>7, <2>1
  <2>3. u \in Seq(S)
    BY <1>6, <2>2, SeqDef
  <2>4. Len(u) = Len(l.tx)
    BY <1>6, <2>3
  <2> QED BY <1>4, <2>3, <2>4
<1>9. Cells(m)
  <2>1. \A c \in DOMAIN m.key : KeyOf(m.tx[c]) = m.key[c]
    BY <1>2, <1>6, <1>7
  <2>2. m.tx \in Seq(Tx \ {Null})
    BY <1>2, <1>8 DEF S
  <2> QED BY <1>2, <1>3, <1>4, <1>8, <2>1, <2>2 DEF Cells
<1>10. ASSUME NEW k \in Key, l.map[k] # Nil
       PROVE  IF Has(b, k) THEN TopIn(m.tx[m.map[k]], b, k) ELSE m.tx[m.map[k]] = l.tx[l.map[k]]
  <2>c. PICK c : c = l.map[k]
    OBVIOUS
  <2>1. c \in DOMAIN l.tx /\ l.key[c] = k
    BY <1>4, <1>6, <1>10, <2>c
  <2>2. m.tx[m.map[k]] = u[c]
    BY <1>2, <2>c
  <2>3. u[c] = IF Has(b, k) THEN LastOf(b, k) ELSE l.tx[c]
    BY <1>u, <2>1, <2>c
  <2>4. CASE Has(b, k)
    BY <1>5, <2>2, <2>3, <2>4
  <2>5. CASE ~ Has(b, k)
    BY <2>2, <2>3, <2>5, <2>c
  <2> QED BY <2>4, <2>5
<1> QED BY <1>2, <1>9, <1>10

\* The first half of UpdateByDataBlock.
LEMMA UpdateCacheKeeps ==
  ASSUME IInv, NEW b \in DOMAIN stage, updateDataCache(b) PROVE IInv'
<1>m. PICK l1, l2, m1, m2 : l1 = listTx /\ l2 = listIndex /\ m1 = listTx' /\ m2 = listIndex'
  OBVIOUS
<1>0. /\ stage[b] = "cache" /\ stage' = [stage EXCEPT ![b] = "bucket"]
      /\ chain' = chain /\ bucket' = bucket /\ at' = at /\ want' = want /\ got' = got /\ raced' = raced
      /\ m1 = Refresh(l1, b) /\ m2 = Refresh(l2, b)
  BY <1>m DEF updateDataCache, Move, getters
<1>c. Chained /\ Cells(l1) /\ Cells(l2)
  BY <1>m DEF IInv
<1>1. /\ b \in 1 .. MaxBlocks /\ b \in DOMAIN chain
      /\ DOMAIN chain \subseteq 1 .. MaxBlocks
      /\ stage' \in [1 .. MaxBlocks -> {"none", "cache", "bucket", "over"}]
      /\ stage'[b] = "bucket" /\ \A c \in 1 .. MaxBlocks : c # b => stage'[c] = stage[c]
  BY <1>0, <1>c, CacheAssumption DEF Chained, CacheAssumption
<1>2. Chained'
  <2>1. \A c \in 1 .. MaxBlocks : stage'[c] = "none" <=> c \notin DOMAIN chain
    BY <1>1, <1>c DEF Chained
  <2> QED BY <1>0, <1>1, <1>c, <2>1 DEF Chained
<1>3. ASSUME NEW l, Cells(l), NEW m, m = Refresh(l, b)
      PROVE  /\ Cells(m) /\ m.map = l.map
             /\ \A k \in Key : l.map[k] # Nil =>
                   IF Has(b, k) THEN TopIn(m.tx[m.map[k]], b, k) ELSE m.tx[m.map[k]] = l.tx[l.map[k]]
  BY <1>1, <1>3, <1>c, RefreshIs
<1>4. Cells(listTx)' /\ Cells(listIndex)'
  <2>1. (Cells(m1))' /\ (Cells(m2))'
    BY <1>0, <1>3, <1>c, SameCells
  <2> QED BY <1>m, <2>1 DEF Cells, Fields
<1>5. InHand'
  BY <1>0, SameChain DEF IInv, InHand, KeyOf
<1>6. ASSUME NEW k \in Key \ raced
      PROVE  LastAtWork(k)' /\ ListsNew(k)' /\ BucketNew(k)' /\ HandsNew(k)'
  <2>1. LastAtWork(k) /\ ListsNew(k) /\ BucketNew(k) /\ HandsNew(k)
    BY DEF IInv, Unraced
  <2>2. Working(k)' = Working(k)
    <3>1. \A c \in DOMAIN chain : (Busy(c))' <=> Busy(c)
      BY <1>0, <1>1 DEF Busy
    <3> QED BY <1>0, <3>1 DEF Working, Has
  <2>3. LastAtWork(k)' /\ BucketNew(k)'
    BY <1>0, <2>1, <2>2 DEF LastAtWork, BucketNew, Has, Looked
  <2>4. HandsNew(k)'
    BY <1>0, <2>1 DEF HandsNew, Top, KeyOf, StampOf, Has, Tx
  <2>5. ListsNew(k)'
    <3> SUFFICES ASSUME \A c \in Working(k) : stage'[c] = "bucket"
                 PROVE  \A m \in {m1, m2} : m.map[k] # Nil => Top(m.tx[m.map[k]], k)
      <4>1. \A m \in {m1, m2} : m.map[k] # Nil => (Top(m.tx[m.map[k]], k))' = Top(m.tx[m.map[k]], k)
        BY <1>0, SameChain
      <4> QED BY <1>m, <2>2, <4>1 DEF ListsNew, Top, KeyOf, StampOf
    <3>1. ASSUME NEW l, l \in {listTx, listIndex}, NEW m, m = Refresh(l, b), m.map[k] # Nil
          PROVE  Top(m.tx[m.map[k]], k)
      <4>1. Cells(l)
        BY <3>1 DEF IInv
      <4>2. l.map[k] # Nil
        BY <1>3, <3>1, <4>1
      <4>3. CASE Has(b, k)
        <5>1. TopIn(m.tx[m.map[k]], b, k)
          BY <1>3, <3>1, <4>1, <4>2, <4>3
        <5>2. \A c \in DOMAIN chain : Has(c, k) => c <= b
          <6>1. b \in Working(k)
            BY <1>0, <1>1, <4>3 DEF Working, Busy
          <6> QED BY <2>1, <6>1 DEF LastAtWork
        <5> QED BY <5>1, <5>2 DEF Top, TopIn
      <4>4. CASE ~ Has(b, k)
        <5>1. m.tx[m.map[k]] = l.tx[l.map[k]]
          BY <1>3, <3>1, <4>1, <4>2, <4>4
        <5>2. \A c \in Working(k) : stage[c] = "bucket"
          BY <1>1, <4>4 DEF Working
        <5>3. Top(l.tx[l.map[k]], k)
          BY <2>1, <3>1, <4>2, <5>2 DEF ListsNew
        <5> QED BY <5>1, <5>3
      <4> QED BY <4>3, <4>4
    <3> QED BY <1>0, <1>m, <3>1
  <2> QED BY <2>3, <2>4, <2>5
<1>7. Unraced'
  BY <1>0, <1>6 DEF Unraced
<1> QED BY <1>2, <1>4, <1>5, <1>7 DEF IInv

\* The second half: the block enters the hash chain of the table.
LEMMA UpdateBucketKeeps ==
  ASSUME IInv, NEW b \in DOMAIN stage, updateBucket(b) PROVE IInv'
<1>m. PICK m1, m2 : m1 = listTx /\ m2 = listIndex
  OBVIOUS
<1>0. /\ stage[b] = "bucket" /\ stage' = [stage EXCEPT ![b] = "over"]
      /\ chain' = chain /\ bucket' = Append(bucket, b)
      /\ at' = at /\ want' = want /\ got' = got /\ raced' = raced
      /\ listTx' = m1 /\ listIndex' = m2
  BY <1>m DEF updateBucket, Move, lists, getters
<1>c. Chained /\ Cells(m1) /\ Cells(m2)
  BY <1>m DEF IInv
<1>1. /\ b \in 1 .. MaxBlocks /\ b \in DOMAIN chain
      /\ DOMAIN chain \subseteq 1 .. MaxBlocks
      /\ stage' \in [1 .. MaxBlocks -> {"none", "cache", "bucket", "over"}]
      /\ stage'[b] = "over" /\ \A c \in 1 .. MaxBlocks : c # b => stage'[c] = stage[c]
  BY <1>0, <1>c, CacheAssumption DEF Chained, CacheAssumption
<1>2. /\ bucket \in Seq(DOMAIN chain) /\ bucket' \in Seq(DOMAIN chain)
      /\ Len(bucket) \in Nat /\ Len(bucket') = Len(bucket) + 1 /\ bucket'[Len(bucket) + 1] = b
      /\ DOMAIN bucket' = DOMAIN bucket \cup {Len(bucket) + 1}
      /\ Len(bucket) + 1 \notin DOMAIN bucket
      /\ \A i \in DOMAIN bucket : bucket'[i] = bucket[i] /\ i <= Len(bucket) + 1
  <2>1. bucket \in Seq(DOMAIN chain)
    BY <1>c DEF Chained
  <2> QED BY <1>0, <1>1, <2>1
<1>3. Chained'
  <2>1. \A c \in 1 .. MaxBlocks : stage'[c] = "none" <=> c \notin DOMAIN chain
    BY <1>0, <1>1, <1>c DEF Chained
  <2> QED BY <1>0, <1>1, <1>2, <1>c, <2>1 DEF Chained
<1>4. Cells(listTx)' /\ Cells(listIndex)'
  <2>1. (Cells(m1))' /\ (Cells(m2))'
    BY <1>0, <1>c, SameCells
  <2> QED BY <1>0, <2>1 DEF Cells, Fields
<1>5. InHand'
  BY <1>0, SameChain DEF IInv, InHand, KeyOf
<1>6. ASSUME NEW k \in Key \ raced
      PROVE  LastAtWork(k)' /\ ListsNew(k)' /\ BucketNew(k)' /\ HandsNew(k)'
  <2>1. LastAtWork(k) /\ ListsNew(k) /\ BucketNew(k) /\ HandsNew(k)
    BY DEF IInv, Unraced
  <2>2. Working(k)' = Working(k) \ {b}
    <3>1. ~ (Busy(b))' /\ \A c \in DOMAIN chain \ {b} : (Busy(c))' <=> Busy(c)
      BY <1>0, <1>1 DEF Busy
    <3> QED BY <1>0, <3>1 DEF Working, Has
  <2>3. LastAtWork(k)'
    BY <1>0, <2>1, <2>2 DEF LastAtWork, Has, Looked
  <2>4. HandsNew(k)'
    BY <1>0, <2>1 DEF HandsNew, Top, KeyOf, StampOf, Has, Tx
  <2>5. Has(b, k) => Working(k) = {b} /\ \A c \in DOMAIN chain : Has(c, k) => c <= b
    <3> SUFFICES ASSUME Has(b, k)
                 PROVE  Working(k) = {b} /\ \A c \in DOMAIN chain : Has(c, k) => c <= b
      OBVIOUS
    <3>1. b \in Working(k)
      BY <1>0, <1>1 DEF Working, Busy
    <3>2. \A c \in DOMAIN chain : Has(c, k) => c <= b
      BY <2>1, <3>1 DEF LastAtWork
    <3>3. ASSUME NEW c \in Working(k) PROVE c = b
      <4>1. c \in DOMAIN chain /\ c <= b
        BY <3>2 DEF Working
      <4>2. b <= c
        BY <1>1, <2>1 DEF LastAtWork
      <4> QED BY <1>1, <4>1, <4>2
    <3> QED BY <3>1, <3>2, <3>3
  <2>6. ListsNew(k)'
    <3> SUFFICES ASSUME \A c \in Working(k) \ {b} : stage'[c] = "bucket"
                 PROVE  \A m \in {m1, m2} : m.map[k] # Nil => Top(m.tx[m.map[k]], k)
      <4>1. \A m \in {m1, m2} : m.map[k] # Nil => (Top(m.tx[m.map[k]], k))' = Top(m.tx[m.map[k]], k)
        BY <1>0, SameChain
      <4> QED BY <1>0, <2>2, <4>1 DEF ListsNew, Top, KeyOf, StampOf
    <3>1. \A c \in Working(k) : stage[c] = "bucket"
      BY <1>0, <1>1 DEF Working
    <3> QED BY <1>m, <2>1, <3>1 DEF ListsNew
  <2>7. BucketNew(k)'
    <3> SUFFICES ASSUME Working(k) \ {b} = {}, \E c \in DOMAIN chain : Has(c, k)
                 PROVE  \E i \in DOMAIN bucket' :
                           /\ Has(bucket'[i], k) /\ \A j \in DOMAIN bucket' : Has(bucket'[j], k) => j <= i
                           /\ \A c \in DOMAIN chain : Has(c, k) => c <= bucket'[i]
      BY <1>0, <2>2 DEF BucketNew, Has
    <3>1. CASE Has(b, k)
      <4>n. PICK n : n = Len(bucket) + 1
        OBVIOUS
      <4>1. n \in DOMAIN bucket' /\ bucket'[n] = b /\ \A j \in DOMAIN bucket' : j <= n
        BY <1>2, <4>n
      <4> QED BY <2>5, <3>1, <4>1
    <3>2. CASE ~ Has(b, k)
      <4>1. b \notin Working(k)
        BY <3>2 DEF Working
      <4>2. PICK i \in DOMAIN bucket :
               /\ Has(bucket[i], k) /\ \A j \in DOMAIN bucket : Has(bucket[j], k) => j <= i
               /\ \A c \in DOMAIN chain : Has(c, k) => c <= bucket[i]
        BY <2>1, <4>1 DEF BucketNew
      <4>3. i \in DOMAIN bucket' /\ bucket'[i] = bucket[i]
        BY <1>2
      <4>4. \A j \in DOMAIN bucket' : Has(bucket'[j], k) => j <= i
        BY <1>2, <3>2, <4>2
      <4> QED BY <4>2, <4>3, <4>4
    <3> QED BY <3>1, <3>2
  <2> QED BY <2>3, <2>4, <2>6, <2>7
<1>7. Unraced'
  BY <1>0, <1>6 DEF Unraced
<1> QED BY <1>3, <1>4, <1>5, <1>7 DEF IInv

-----------------------------------------------------------------------------
(* The theorems.                                                               *)

\* The process starts with empty chains and empty lists.
LEMMA InitHolds ==
  ASSUME Init PROVE IInv
<1>1. Chained
  BY CacheAssumption DEF Init, Chained, CacheAssumption
<1>2. Cells(EmptyList)
  <2>e. PICK e : e = EmptyList
    OBVIOUS
  <2>1. /\ e.map = [k \in Key |-> Nil] /\ e.key = <<>> /\ e.tx = <<>> /\ Fields(e)
    BY <2>e DEF EmptyList, Fields
  <2>2. <<>> \in Seq(Key) /\ <<>> \in Seq(Tx \ {Null}) /\ Len(<<>>) = Len(<<>>) /\ DOMAIN <<>> = {}
    OBVIOUS
  <2>3. [k \in Key |-> Nil] \in [Key -> {Nil} \cup Cell]
    OBVIOUS
  <2>4. Cells(e)
    BY <2>1, <2>2, <2>3 DEF Cells
  <2> QED BY <2>4, <2>e
<1>3. Cells(listTx) /\ Cells(listIndex)
  BY <1>2 DEF Init
<1>4. at = Idle /\ \A g \in Getter : at[g] = "idle" /\ got[g] = Null
  BY DEF Init, Idle
<1>5. InHand
  <2>1. Null \in Tx /\ "idle" \in Place
    BY DEF Tx, Place
  <2>2. at \in [Getter -> Place] /\ got \in [Getter -> Tx]
    BY <2>1 DEF Init, Idle
  <2> QED BY <1>4, <2>2 DEF Init, InHand
<1>6. ASSUME NEW k \in Key PROVE LastAtWork(k) /\ ListsNew(k) /\ BucketNew(k) /\ HandsNew(k)
  <2>1. DOMAIN chain = {}
    BY DEF Init
  <2>2. ListsNew(k)
    BY DEF Init, EmptyList, ListsNew
  <2> QED BY <1>4, <2>1, <2>2 DEF LastAtWork, BucketNew, HandsNew, Working
<1> QED BY <1>1, <1>3, <1>5, <1>6 DEF IInv, Unraced

LEMMA SameVars ==
  ASSUME IInv, UNCHANGED vars PROVE IInv'
<1>m. PICK m1, m2 : m1 = listTx /\ m2 = listIndex
  OBVIOUS
<1>0. /\ chain' = chain /\ bucket' = bucket /\ stage' = stage
      /\ at' = at /\ want' = want /\ got' = got /\ raced' = raced
      /\ listTx' = m1 /\ listIndex' = m2
  BY <1>m DEF vars, blocks, lists, getters
<1>1. Chained' /\ InHand'
  BY <1>0, SameChain DEF IInv, Chained, InHand, KeyOf
<1>2. Cells(listTx)' /\ Cells(listIndex)'
  <2>1. (Cells(m1))' /\ (Cells(m2))'
    BY <1>0, <1>m, SameCells DEF IInv
  <2> QED BY <1>0, <2>1 DEF Cells, Fields
<1>3. ASSUME NEW k \in Key \ raced
      PROVE  LastAtWork(k)' /\ ListsNew(k)' /\ BucketNew(k)' /\ HandsNew(k)'
  <2>1. LastAtWork(k) /\ ListsNew(k) /\ BucketNew(k) /\ HandsNew(k)
    BY DEF IInv, Unraced
  <2>2. Working(k)' = Working(k)
    BY <1>0 DEF Working, Has, Busy
  <2>3. LastAtWork(k)' /\ BucketNew(k)'
    BY <1>0, <2>1, <2>2 DEF LastAtWork, BucketNew, Has, Looked
  <2>4. HandsNew(k)'
    BY <1>0, <2>1 DEF HandsNew, Top, KeyOf, StampOf, Has, Tx
  <2>5. ListsNew(k)'
    <3> SUFFICES ASSUME \A b \in Working(k) : stage[b] = "bucket"
                 PROVE  \A m \in {m1, m2} : m.map[k] # Nil => (Top(m.tx[m.map[k]], k))'
      BY <1>0, <2>2 DEF ListsNew, Top, KeyOf, StampOf
    <3>1. \A m \in {m1, m2} : m.map[k] # Nil => Top(m.tx[m.map[k]], k)
      BY <1>m, <2>1 DEF ListsNew
    <3> QED BY <1>0, <3>1, SameChain
  <2> QED BY <2>3, <2>4, <2>5
<1>4. Unraced'
  BY <1>0, <1>3 DEF Unraced
<1> QED BY <1>1, <1>2, <1>4 DEF IInv

\* What is said of the chains, the lists and the look-ups holds in every state of the
\* cache of cache.go and cache_lru.go.
THEOREM Invariance == Spec => []IInv
<1>1. Init => IInv
  BY InitHolds
<1>2. IInv /\ [Next]_vars => IInv'
  <2> SUFFICES ASSUME IInv, [Next]_vars PROVE IInv'
    OBVIOUS
  <2>1. ASSUME NEW g \in Getter, GetOneValue(g) PROVE IInv'
    <3>1. CASE \E k \in Key : Call(g, k)
      BY <3>1, CallKeeps
    <3>2. CASE getInTX(g) \/ getInIndex(g)
      BY <3>2, InListKeeps
    <3>3. CASE TxToTail(g) \/ IndexToTail(g) \/ checkDel(g)
      BY <3>3, TouchKeeps
    <3>4. CASE TxQueueIn(g) \/ IndexQueueIn(g)
      BY <3>4, EnterKeeps
    <3>5. CASE InTable(g) \/ InBoltDb(g)
      BY <3>5, InChainKeeps
    <3> QED BY <2>1, <3>1, <3>2, <3>3, <3>4, <3>5 DEF GetOneValue
  <2>2. CASE Update
    BY <2>2, ArriveKeeps, UpdateCacheKeeps, UpdateBucketKeeps DEF Update
  <2>3. CASE Restart
    BY <2>3, RestartKeeps
  <2>4. CASE UNCHANGED vars
    BY <2>4, SameVars
  <2> QED BY <2>1, <2>2, <2>3, <2>4 DEF Next
<1> QED BY <1>1, <1>2, PTL DEF Spec

\* Each level of GetOneValue has the newest value of a key or none, and a look-up that
\* did not overlap the work on a block with its key returns the newest, however
\* toTail, queueIn and checkDel of other look-ups left the pointers of the lists.
THEOREM NewestReturned == Spec => []Fresh
<1>1. IInv => Fresh
  BY IInvShows
<1> QED BY <1>1, Invariance, PTL

\* Whatever overlaps, getInTX, getInIndex and the loops over the chains return a
\* transaction that was written for the key they look up.
THEOREM NothingForeign == Spec => []Genuine
<1>1. IInv => Genuine
  BY IInvShows
<1> QED BY <1>1, Invariance, PTL
-----------------------------------------------------------------------------
(* The shape of the lists.  toTail leaves the cell behind the moved one with a wrong
   predecessor, so neither list is one chain from head to tail for long.  What stays
   true, of both:                                                              *)

\* Pointers of cells that were made lead to such cells, the head or the tail, never to nil.
Used(l) == DOMAIN l.key
Mapped(l) == {l.map[k] : k \in Key} \ {Nil}
Linked(l) ==
    /\ l.next \in [Node -> Node \cup {Nil}] /\ l.pre \in [Node -> Node \cup {Nil}]
    /\ Len(l.key) <= MaxCells
    /\ \A x \in {Head0} \cup Used(l) : l.next[x] \in Used(l) \cup {Tail0}
    /\ \A x \in Used(l) \cup {Tail0} : l.pre[x] \in {Head0} \cup Used(l)

\* Whoever in the map, or the tail, has the head before it is the first.
FirstKnown(l) == \A x \in {Tail0} \cup Mapped(l) : l.pre[x] = Head0 => l.next[Head0] = x

Counted(l, max) ==
    l.curSize \in Int /\ l.curSize <= max + 1 /\ l.count \in Seq(Nat) /\ Len(l.count) = Len(l.key)
Shape(l, max) == Linked(l) /\ FirstKnown(l) /\ Counted(l, max)

\* Of a list nothing is unlinked from: once it has had a cell it has a first one.  Either that one has
\* gone out and stays first for ever, or one cell at most has the tail behind it, and it is the
\* first only while the list counts one.
Stuck(l) == l.next[Head0] \in Used(l) \ Mapped(l) /\ l.pre[l.next[Head0]] # Head0
OneEnd(l) == \A x \in {Head0} \cup Used(l) : l.next[x] = Tail0 => l.pre[Tail0] = x
TwoUp(l) ==
    l.next[Head0] \in Used(l) /\ l.pre[l.next[Head0]] = Head0 /\ l.next[l.next[Head0]] = Tail0
        => l.curSize <= 1
Single(l) ==
    Len(l.key) > 0 =>
        /\ Mapped(l) \subseteq {Len(l.key)} /\ l.pre[Tail0] = Len(l.key) /\ l.next[Head0] = Len(l.key)
        /\ l.pre[Len(l.key)] = Head0 /\ l.next[Len(l.key)] = Tail0 /\ l.curSize = 1
NeverBare(l, max) ==
    /\ l.next[Head0] = Tail0 => Len(l.key) = 0 /\ l.curSize = 0
    /\ max = 0 => Single(l)
    /\ max > 0 => Stuck(l) \/ (OneEnd(l) /\ TwoUp(l))

\* The cells that were made are numbers between the head and the tail.
LEMMA CellsMade ==
  ASSUME NEW l, Cells(l), Len(l.key) <= MaxCells
  PROVE  /\ Used(l) = 1 .. Len(l.key) /\ Len(l.key) \in Nat /\ MaxCells \in Nat
         /\ Used(l) \subseteq Node \ {Head0, Tail0} /\ Nil \notin Node /\ Used(l) \subseteq Cell
         /\ Mapped(l) \subseteq Used(l) /\ Head0 # Tail0 /\ {Head0, Tail0} \subseteq Node
         /\ \A k \in Key : l.map[k] # Nil => l.map[k] \in Mapped(l)
         /\ \A x \in Used(l) : l.key[x] \in Key
         /\ \A x \in Mapped(l) : \E k \in Key : k = l.key[x] /\ l.map[k] = x
<1>1. MaxCells \in Nat
  BY CacheAssumption DEF CacheAssumption
<1>2. l.key \in Seq(Key) /\ \A k \in Key : l.map[k] # Nil => l.map[k] \in DOMAIN l.key /\ l.key[l.map[k]] = k
  BY DEF Cells
<1>3. Used(l) = 1 .. Len(l.key) /\ Len(l.key) \in Nat /\ \A x \in Used(l) : l.key[x] \in Key
  BY <1>2 DEF Used
<1>4. Mapped(l) \subseteq Used(l)
  BY <1>2 DEF Mapped, Used
<1>5. \A x \in Mapped(l) : \E k \in Key : k = l.key[x] /\ l.map[k] = x
  BY <1>2 DEF Mapped
<1>6. \A k \in Key : l.map[k] # Nil => l.map[k] \in Mapped(l)
  BY DEF Mapped
<1> QED BY <1>1, <1>3, <1>4, <1>5, <1>6 DEF Node, Head0, Tail0, Nil, Cell

\* toTail, pointer by pointer.
LEMMA ToTailIs ==
  ASSUME NEW l, Cells(l), Linked(l), NEW k \in Key, NEW p, p = l.map[k], p # Nil,
         NEW o, o = l.pre[Tail0], o # p,
         NEW b, b = IF o = l.pre[p] THEN l.next[p] ELSE l.next[o],
         NEW m, m = toTail(l, k)
  PROVE  /\ m.key = l.key /\ m.map = l.map /\ m.curSize = l.curSize /\ m.count = l.count
         /\ p \in Used(l) \cap Mapped(l) /\ o \in {Head0} \cup Used(l) /\ b \in Used(l) \cup {Tail0}
         /\ m.next \in [Node -> Node \cup {Nil}] /\ m.pre \in [Node -> Node \cup {Nil}]
         /\ \A x \in Node : m.next[x] = IF x = o THEN p ELSE IF x = p THEN b
                                        ELSE IF x = l.pre[p] THEN l.next[p] ELSE l.next[x]
         /\ \A x \in Node : m.pre[x] = IF x = p THEN o ELSE IF x = b THEN p ELSE l.pre[x]
<1>0. /\ Used(l) \subseteq Node \ {Head0, Tail0} /\ p \in Used(l) \cap Mapped(l) /\ {Head0, Tail0} \subseteq Node
      /\ Mapped(l) \subseteq Used(l)
  BY CellsMade DEF Linked
<1>1. /\ o \in {Head0} \cup Used(l) /\ l.pre[p] \in {Head0} \cup Used(l)
      /\ l.next[p] \in Used(l) \cup {Tail0} /\ l.next[o] \in Used(l) \cup {Tail0}
  BY <1>0 DEF Linked
<1>n. l.next \in [Node -> Node \cup {Nil}] /\ l.pre \in [Node -> Node \cup {Nil}]
  BY DEF Linked
<1>c. PICK cut : cut = [l.next EXCEPT ![l.pre[p]] = l.next[p]]
  OBVIOUS
<1>2. cut \in [Node -> Node \cup {Nil}] /\ \A x \in Node : cut[x] = IF x = l.pre[p] THEN l.next[p] ELSE l.next[x]
  BY <1>0, <1>1, <1>n, <1>c
<1>3. cut[o] = b
  BY <1>0, <1>1, <1>2
<1>x. PICK x : x = [cut EXCEPT ![p] = b, ![o] = p]
  OBVIOUS
<1>y. PICK y : y = [l.pre EXCEPT ![b] = p, ![p] = o]
  OBVIOUS
<1>4. m = [l EXCEPT !.next = x, !.pre = y]
  <2>1. toTail(l, k) = [l EXCEPT !.next = [cut EXCEPT ![p] = cut[o], ![o] = p],
                                 !.pre = [@ EXCEPT ![cut[o]] = p, ![p] = o]]
    BY <1>c DEF toTail
  <2> QED BY <2>1, <1>3, <1>x, <1>y DEF Cells, Fields
<1>5. m = [next |-> x, pre |-> y, map |-> l.map, curSize |-> l.curSize,
           key |-> l.key, tx |-> l.tx, count |-> l.count]
  BY <1>4 DEF Cells, Fields
<1>6. /\ m.next = x /\ m.pre = y /\ m.key = l.key /\ m.map = l.map /\ m.curSize = l.curSize /\ m.count = l.count
  BY <1>5
<1>7. /\ x \in [Node -> Node \cup {Nil}]
      /\ \A z \in Node : x[z] = IF z = o THEN p ELSE IF z = p THEN b
                                ELSE IF z = l.pre[p] THEN l.next[p] ELSE l.next[z]
  BY <1>0, <1>1, <1>2, <1>3, <1>x
<1>8. /\ y \in [Node -> Node \cup {Nil}]
      /\ \A z \in Node : y[z] = IF z = p THEN o ELSE IF z = b THEN p ELSE l.pre[z]
  BY <1>0, <1>1, <1>3, <1>n, <1>y
<1> QED BY <1>0, <1>1, <1>6, <1>7, <1>8

\* toTail keeps the shape, and takes nothing from the front of a list nothing is unlinked from.
LEMMA ToTailShape ==
  ASSUME NEW l, Cells(l), NEW max \in Nat, Shape(l, max), NEW k \in Key, l.map[k] # Nil
  PROVE  /\ Shape(toTail(l, k), max)
         /\ NeverBare(l, max) => NeverBare(toTail(l, k), max)
<1>m. PICK m : m = toTail(l, k)
  OBVIOUS
<1>p. PICK p : p = l.map[k]
  OBVIOUS
<1>o. PICK o : o = l.pre[Tail0]
  OBVIOUS
<1>b. PICK b : b = IF o = l.pre[p] THEN l.next[p] ELSE l.next[o]
  OBVIOUS
<1>1. CASE o = p
  BY <1>1, <1>m, <1>p, <1>o DEF toTail
<1>2. CASE o # p
  <2>1. /\ m.key = l.key /\ m.map = l.map /\ m.curSize = l.curSize /\ m.count = l.count
        /\ p \in Used(l) \cap Mapped(l) /\ o \in {Head0} \cup Used(l) /\ b \in Used(l) \cup {Tail0}
        /\ m.next \in [Node -> Node \cup {Nil}] /\ m.pre \in [Node -> Node \cup {Nil}]
        /\ \A x \in Node : m.next[x] = IF x = o THEN p ELSE IF x = p THEN b
                                        ELSE IF x = l.pre[p] THEN l.next[p] ELSE l.next[x]
        /\ \A x \in Node : m.pre[x] = IF x = p THEN o ELSE IF x = b THEN p ELSE l.pre[x]
    BY <1>2, <1>m, <1>p, <1>o, <1>b, ToTailIs DEF Shape
  <2>2. /\ Used(m) = Used(l) /\ Mapped(m) = Mapped(l) /\ Mapped(l) \subseteq Used(l)
        /\ Used(l) \subseteq Node \ {Head0, Tail0} /\ {Head0, Tail0} \subseteq Node /\ Head0 # Tail0
    BY <2>1, CellsMade DEF Shape, Linked, Used, Mapped
  <2>l. /\ \A x \in {Head0} \cup Used(l) : l.next[x] \in Used(l) \cup {Tail0}
        /\ \A x \in Used(l) \cup {Tail0} : l.pre[x] \in {Head0} \cup Used(l)
        /\ Len(l.key) <= MaxCells
    BY DEF Shape, Linked
  <2>f. \A x \in {Tail0} \cup Mapped(l) : l.pre[x] = Head0 => l.next[Head0] = x
    BY DEF Shape, FirstKnown
  <2>3. Linked(m)
    BY <2>1, <2>2, <2>l DEF Linked
  <2>4. FirstKnown(m)
    <3> SUFFICES ASSUME NEW x \in {Tail0} \cup Mapped(l), m.pre[x] = Head0 PROVE m.next[Head0] = x
      BY <2>2 DEF FirstKnown
    <3>1. CASE x = p
      BY <2>1, <2>2, <3>1
    <3>2. CASE x # p
      <4>1. x # b /\ l.pre[x] = Head0 /\ l.next[Head0] = x
        BY <2>1, <2>2, <2>f, <3>2, <2>l
      <4>2. CASE o = Head0
        <5>1. x = Tail0
          BY <4>1, <4>2, <1>o, <2>2, <2>f
        <5>2. l.pre[p] # Head0
          BY <2>1, <2>2, <2>f, <4>1, <3>2
        <5> QED BY <1>b, <4>1, <4>2, <5>1, <5>2
      <4>3. CASE o # Head0
        <5>1. l.pre[p] # Head0
          BY <2>1, <2>2, <2>f, <4>1, <3>2
        <5> QED BY <2>1, <2>2, <4>1, <4>3, <5>1
      <4> QED BY <4>2, <4>3
    <3> QED BY <3>1, <3>2
  <2>5. Counted(m, max)
    BY <2>1 DEF Shape, Counted
  <2>6. ASSUME NeverBare(l, max) PROVE NeverBare(m, max)
    <3>0. l.next[Head0] # Tail0 /\ o # Head0
      <4>1. Used(l) # {}
        BY <2>1
      <4>2. Len(l.key) # 0
        BY <4>1, <2>l, CellsMade
      <4> QED BY <2>6, <4>2, <2>f, <1>o DEF NeverBare
    <3>1. CASE max = 0
      BY <1>2, <1>o, <2>1, <2>2, <2>6, <2>l, <3>1, CellsMade DEF NeverBare, Single
    <3>2. CASE max > 0 /\ Stuck(l)
      <4>1. l.next[Head0] \in Used(l) \ Mapped(l) /\ l.pre[l.next[Head0]] # Head0
        BY <3>2 DEF Stuck
      <4>2. l.pre[p] # Head0
        BY <2>1, <2>f, <4>1
      <4>3. m.next[Head0] = l.next[Head0]
        BY <2>1, <2>2, <3>0, <4>2
      <4>4. m.pre[l.next[Head0]] # Head0
        BY <2>1, <2>2, <3>0, <4>1
      <4>5. Stuck(m)
        BY <2>2, <4>1, <4>3, <4>4 DEF Stuck
      <4> QED BY <2>2, <3>2, <4>1, <4>3, <4>5 DEF NeverBare
    <3>3. CASE max > 0 /\ OneEnd(l) /\ TwoUp(l)
      <4>1. l.next[p] # Tail0
        BY <1>2, <1>o, <2>1, <3>3 DEF OneEnd
      <4>2. \A x \in {Head0} \cup Used(l) : m.next[x] = Tail0 => x = p /\ b = Tail0
        BY <1>o, <2>1, <2>2, <3>3, <4>1 DEF OneEnd
      <4>3. OneEnd(m)
        BY <2>1, <2>2, <4>2 DEF OneEnd
      <4>4. m.pre[p] # Head0
        BY <2>1, <2>2, <3>0
      <4>5. TwoUp(m)
        BY <2>2, <4>2, <4>4 DEF TwoUp
      <4>6. m.next[Head0] # Tail0
        BY <2>1, <2>2, <4>2
      <4> QED BY <3>3, <4>3, <4>5, <4>6 DEF NeverBare
    <3> QED BY <2>6, <3>1, <3>2, <3>3 DEF NeverBare
  <2> QED BY <1>m, <2>3, <2>4, <2>5, <2>6 DEF Shape
<1> QED BY <1>1, <1>2

\* A list whose map forgets a key forgets the cell of that key, and no other.
LEMMA Forgotten ==
  ASSUME NEW l, Cells(l), Len(l.key) <= MaxCells, NEW j \in Key,
         NEW m, m.map = [l.map EXCEPT ![j] = Nil]
  PROVE  /\ Mapped(m) \subseteq Mapped(l) \ {l.map[j]}
         /\ \A x \in Mapped(m) : l.key[x] # j
<1>1. l.map \in [Key -> {Nil} \cup Cell]
  BY DEF Cells
<1>2. \A x \in Mapped(m) : \E k \in Key \ {j} : x = l.map[k] /\ x # Nil
  BY <1>1 DEF Mapped
<1>3. \A k \in Key : l.map[k] # Nil => l.key[l.map[k]] = k
  BY DEF Cells
<1>4. \A x \in Mapped(m) : l.key[x] # j /\ x \in Mapped(l)
  BY <1>2, <1>3 DEF Mapped
<1> QED BY <1>3, <1>4 DEF Mapped

\* Unlink and Evict, pointer by pointer: a cell that is forgotten is cut out.
Cut(l, m, p) ==
    /\ m.key = l.key /\ m.count = l.count /\ m.curSize = l.curSize - 1
    /\ Mapped(m) \subseteq Mapped(l) \ {p}
    /\ m.next \in [Node -> Node \cup {Nil}] /\ m.pre \in [Node -> Node \cup {Nil}]
    /\ \A x \in Node : m.next[x] = IF x = l.pre[p] THEN l.next[p] ELSE l.next[x]
    /\ \A x \in Node : m.pre[x] = IF x = l.next[p] THEN l.pre[p] ELSE l.pre[x]

LEMMA CutIs ==
  ASSUME NEW l, Cells(l), Linked(l), NEW p \in Used(l), NEW j \in Key, p \in Mapped(l) => j = l.key[p],
         NEW m, m = [next |-> [l.next EXCEPT ![l.pre[p]] = l.next[p]],
                     pre |-> [l.pre EXCEPT ![l.next[p]] = l.pre[p]],
                     map |-> [l.map EXCEPT ![j] = Nil], curSize |-> l.curSize - 1,
                     key |-> l.key, tx |-> l.tx, count |-> l.count]
  PROVE  Cut(l, m, p)
<1>0. Used(l) \subseteq Node \ {Head0, Tail0} /\ {Head0, Tail0} \subseteq Node
  BY CellsMade DEF Linked
<1>1. l.pre[p] \in {Head0} \cup Used(l) /\ l.next[p] \in Used(l) \cup {Tail0}
  BY <1>0 DEF Linked
<1>n. l.next \in [Node -> Node \cup {Nil}] /\ l.pre \in [Node -> Node \cup {Nil}]
  BY DEF Linked
<1>x. PICK x : x = [l.next EXCEPT ![l.pre[p]] = l.next[p]]
  OBVIOUS
<1>y. PICK y : y = [l.pre EXCEPT ![l.next[p]] = l.pre[p]]
  OBVIOUS
<1>f. PICK f : f = [l.map EXCEPT ![j] = Nil]
  OBVIOUS
<1>2. m.next = x /\ m.pre = y /\ m.map = f /\ m.key = l.key /\ m.count = l.count /\ m.curSize = l.curSize - 1
  BY <1>x, <1>y, <1>f
<1>3. x \in [Node -> Node \cup {Nil}] /\ \A z \in Node : x[z] = IF z = l.pre[p] THEN l.next[p] ELSE l.next[z]
  BY <1>0, <1>1, <1>n, <1>x
<1>4. y \in [Node -> Node \cup {Nil}] /\ \A z \in Node : y[z] = IF z = l.next[p] THEN l.pre[p] ELSE l.pre[z]
  BY <1>0, <1>1, <1>n, <1>y
<1>5. Mapped(m) \subseteq Mapped(l) /\ \A z \in Mapped(m) : l.key[z] # j
  <2>1. m.map = [l.map EXCEPT ![j] = Nil] /\ Len(l.key) <= MaxCells
    BY <1>2, <1>f DEF Linked
  <2> QED BY <2>1, Forgotten
<1>6. Mapped(m) \subseteq Mapped(l) \ {p}
  BY <1>5
<1> QED BY <1>2, <1>3, <1>4, <1>6 DEF Cut

LEMMA UnlinkIs ==
  ASSUME NEW l, Cells(l), Linked(l), NEW k \in Key, l.map[k] # Nil
  PROVE  Cut(l, Unlink(l, k), l.map[k])
<1>p. PICK p : p = l.map[k]
  OBVIOUS
<1>0. p \in Used(l) /\ l.key[p] = k
  BY <1>p DEF Cells, Used
<1>x. PICK x : x = [l.next EXCEPT ![l.pre[p]] = l.next[p]]
  OBVIOUS
<1>y. PICK y : y = [l.pre EXCEPT ![l.next[p]] = l.pre[p]]
  OBVIOUS
<1>1. Unlink(l, k) = [l EXCEPT !.next = x, !.pre = y, !.map[k] = Nil, !.curSize = @ - 1]
  BY <1>p, <1>x, <1>y DEF Unlink, Cells, Fields
<1>2. Unlink(l, k) = [next |-> x, pre |-> y, map |-> [l.map EXCEPT ![k] = Nil],
                      curSize |-> l.curSize - 1, key |-> l.key, tx |-> l.tx, count |-> l.count]
  BY <1>1 DEF Cells, Fields
<1> QED BY <1>0, <1>2, <1>p, <1>x, <1>y, CutIs

LEMMA EvictIs ==
  ASSUME NEW l, Cells(l), Linked(l), CanEvict(l)
  PROVE  l.next[Head0] \in Used(l) /\ Cut(l, Evict(l), l.next[Head0])
<1>p. PICK pg : pg = l.next[Head0]
  OBVIOUS
<1>0. Used(l) \subseteq Node \ {Head0, Tail0} /\ MaxCells \in Nat /\ \A x \in Used(l) : l.key[x] \in Key
  BY CellsMade DEF Linked
<1>1. pg \in Used(l)
  <2>1. pg \in Used(l) \cup {Tail0} /\ pg \in Cell
    BY <1>p DEF CanEvict, Linked
  <2> QED BY <2>1, <1>0 DEF Cell, Tail0
<1>n. l.next \in [Node -> Node \cup {Nil}] /\ l.pre \in [Node -> Node \cup {Nil}]
  BY DEF Linked
<1>y. PICK y : y = [l.pre EXCEPT ![l.next[pg]] = l.pre[pg]]
  OBVIOUS
<1>x. PICK x : x = [l.next EXCEPT ![l.pre[pg]] = l.next[pg]]
  OBVIOUS
<1>2. y[pg] = l.pre[pg]
  BY <1>0, <1>1, <1>n, <1>y
<1>3. Evict(l) = [l EXCEPT !.pre = y, !.next[y[pg]] = l.next[pg],
                           !.map[l.key[pg]] = Nil, !.curSize = @ - 1]
  BY <1>p, <1>y DEF Evict
<1>4. Evict(l) = [next |-> [l.next EXCEPT ![y[pg]] = l.next[pg]], pre |-> y,
                  map |-> [l.map EXCEPT ![l.key[pg]] = Nil],
                  curSize |-> l.curSize - 1, key |-> l.key, tx |-> l.tx, count |-> l.count]
  BY <1>3 DEF Cells, Fields
<1>5. Evict(l) = [next |-> x, pre |-> y, map |-> [l.map EXCEPT ![l.key[pg]] = Nil],
                  curSize |-> l.curSize - 1, key |-> l.key, tx |-> l.tx, count |-> l.count]
  BY <1>2, <1>4, <1>x
<1> QED BY <1>0, <1>1, <1>5, <1>p, <1>x, <1>y, CutIs

\* To cut out a cell the map knows, or the first cell, keeps the shape.
LEMMA CutShape ==
  ASSUME NEW l, Cells(l), NEW max \in Nat, Shape(l, max), NEW p \in Used(l), NEW m, Cut(l, m, p),
         p \in Mapped(l) \/ p = l.next[Head0]
  PROVE  Shape(m, max) /\ m.curSize <= max
<1>1. /\ Used(l) \subseteq Node \ {Head0, Tail0} /\ {Head0, Tail0} \subseteq Node /\ Mapped(l) \subseteq Used(l)
      /\ Head0 # Tail0
  BY CellsMade DEF Shape, Linked
<1>2. /\ \A x \in {Head0} \cup Used(l) : l.next[x] \in Used(l) \cup {Tail0}
      /\ \A x \in Used(l) \cup {Tail0} : l.pre[x] \in {Head0} \cup Used(l)
      /\ Len(l.key) <= MaxCells
  BY DEF Shape, Linked
<1>3. Used(m) = Used(l)
  BY DEF Cut, Used
<1>4. Linked(m)
  BY <1>1, <1>2, <1>3 DEF Linked, Cut
<1>5. FirstKnown(m)
  <2> SUFFICES ASSUME NEW x \in {Tail0} \cup Mapped(m), m.pre[x] = Head0 PROVE m.next[Head0] = x
    BY DEF FirstKnown
  <2>0. x \in {Tail0} \cup Mapped(l) /\ x # p /\ x \in Node
    BY <1>1 DEF Cut
  <2>1. l.pre[p] = Head0 => l.next[Head0] = p
    BY DEF Shape, FirstKnown
  <2>2. l.pre[x] = Head0 => l.next[Head0] = x
    BY <2>0 DEF Shape, FirstKnown
  <2>3. CASE x = l.next[p]
    BY <1>1, <2>0, <2>3 DEF Cut
  <2>4. CASE x # l.next[p]
    BY <1>1, <2>0, <2>1, <2>2, <2>4 DEF Cut
  <2> QED BY <2>3, <2>4
<1>6. Counted(m, max) /\ m.curSize <= max
  BY DEF Shape, Counted, Cut
<1> QED BY <1>4, <1>5, <1>6 DEF Shape

\* Before a new cell: a list of that sort is bare, or stuck, or has a first cell and one end.
Ready(l, max) ==
    \/ /\ l.next[Head0] = Tail0 /\ l.pre[Tail0] = Head0 /\ Mapped(l) = {} /\ l.curSize = 0
       /\ max > 0 => Len(l.key) = 0
    \/ max > 0 /\ (Stuck(l) \/ (OneEnd(l) /\ l.next[Head0] \in Used(l)))

LEMMA EvictReady ==
  ASSUME NEW l, Cells(l), NEW max \in Nat, Shape(l, max), NeverBare(l, max), Full(l, max)
  PROVE  CanEvict(l) /\ Ready(Evict(l), max)
<1>1. /\ Used(l) \subseteq Node \ {Head0, Tail0} /\ {Head0, Tail0} \subseteq Node /\ Mapped(l) \subseteq Used(l)
      /\ Head0 # Tail0 /\ Used(l) \subseteq Cell /\ Used(l) = 1 .. Len(l.key) /\ Len(l.key) \in Nat
  BY CellsMade DEF Shape, Linked
<1>2. /\ \A x \in {Head0} \cup Used(l) : l.next[x] \in Used(l) \cup {Tail0}
      /\ \A x \in Used(l) \cup {Tail0} : l.pre[x] \in {Head0} \cup Used(l)
  BY DEF Shape, Linked
<1>3. l.curSize = max + 1
  BY DEF Shape, Counted, Full
<1>p. PICK pg : pg = l.next[Head0]
  OBVIOUS
<1>4. pg \in Used(l)
  BY <1>2, <1>3, <1>p DEF NeverBare
<1>5. CanEvict(l)
  BY <1>1, <1>4, <1>p DEF CanEvict
<1>m. PICK m : m = Evict(l)
  OBVIOUS
<1>6. Cut(l, m, pg)
  BY <1>5, <1>p, <1>m, EvictIs DEF Shape
<1>7. Used(m) = Used(l) /\ pg \notin Mapped(m) /\ m.pre[pg] = l.pre[pg] /\ m.curSize = max
  BY <1>1, <1>3, <1>4, <1>6 DEF Cut, Used
<1>8. CASE max = 0
  <2>1. Single(l) /\ Len(l.key) > 0
    BY <1>1, <1>4, <1>8 DEF NeverBare
  <2>2. pg = Len(l.key) /\ l.pre[pg] = Head0 /\ l.next[pg] = Tail0 /\ Mapped(l) \subseteq {pg}
    BY <2>1, <1>p DEF Single
  <2>3. m.next[Head0] = Tail0 /\ m.pre[Tail0] = Head0 /\ Mapped(m) = {}
    BY <1>1, <1>6, <2>2 DEF Cut
  <2> QED BY <1>5, <1>7, <1>8, <1>m, <2>3 DEF Ready
<1>9. CASE max > 0 /\ l.pre[pg] # Head0
  <2>1. m.next[Head0] = pg
    BY <1>1, <1>6, <1>9, <1>p DEF Cut
  <2>2. Stuck(m)
    BY <1>4, <1>7, <1>9, <2>1 DEF Stuck
  <2> QED BY <1>5, <1>9, <1>m, <2>2 DEF Ready
<1>10. CASE max > 0 /\ l.pre[pg] = Head0
  <2>1. OneEnd(l) /\ TwoUp(l)
    BY <1>10, <1>p DEF NeverBare, Stuck
  <2>2. l.next[pg] \in Used(l)
    BY <1>2, <1>3, <1>4, <1>10, <1>p, <2>1 DEF TwoUp
  <2>3. m.next[Head0] = l.next[pg] /\ m.pre[Tail0] = l.pre[Tail0]
    BY <1>1, <1>6, <1>10, <2>2 DEF Cut
  <2>4. \A x \in Used(l) : m.next[x] = l.next[x]
    BY <1>1, <1>6, <1>10 DEF Cut
  <2>5. OneEnd(m)
    BY <1>1, <1>7, <2>1, <2>2, <2>3, <2>4 DEF OneEnd
  <2> QED BY <1>5, <1>7, <1>10, <1>m, <2>2, <2>3, <2>5 DEF Ready
<1> QED BY <1>8, <1>9, <1>10

\* Link, pointer by pointer.
LEMMA LinkIs ==
  ASSUME NEW l, Cells(l), Linked(l), Len(l.key) < MaxCells, NEW k \in Key, NEW t,
         NEW c, c = Len(l.key) + 1, NEW p, p = l.pre[Tail0], NEW m, m = Link(l, k, t)
  PROVE  /\ Used(m) = Used(l) \cup {c} /\ c \notin Used(l) /\ c \in Node \ {Head0, Tail0}
         /\ Len(m.key) = c /\ (l.count \in Seq(Nat) => m.count \in Seq(Nat) /\ Len(m.count) = Len(l.count) + 1)
         /\ m.curSize = l.curSize + 1 /\ Mapped(m) \subseteq Mapped(l) \cup {c}
         /\ p \in {Head0} \cup Used(l) /\ l.next[p] \in Used(l) \cup {Tail0}
         /\ m.next \in [Node -> Node \cup {Nil}] /\ m.pre \in [Node -> Node \cup {Nil}]
         /\ \A x \in Node : m.next[x] = IF x = p THEN c ELSE IF x = c THEN l.next[p] ELSE l.next[x]
         /\ \A x \in Node : m.pre[x] = IF x = c THEN p ELSE IF x = l.next[p] THEN c ELSE l.pre[x]
<1>0. /\ Used(l) = 1 .. Len(l.key) /\ Len(l.key) \in Nat /\ MaxCells \in Nat
      /\ Used(l) \subseteq Node \ {Head0, Tail0} /\ {Head0, Tail0} \subseteq Node
  BY CellsMade DEF Linked
<1>1. p \in {Head0} \cup Used(l) /\ l.next[p] \in Used(l) \cup {Tail0}
  BY DEF Linked
<1>2. c \notin Used(l) /\ c \in Node \ {Head0, Tail0}
  BY <1>0 DEF Node, Head0, Tail0
<1>n. l.next \in [Node -> Node \cup {Nil}] /\ l.pre \in [Node -> Node \cup {Nil}]
  BY DEF Linked
<1>x. PICK x : x = [l.next EXCEPT ![c] = l.next[p], ![p] = c]
  OBVIOUS
<1>y. PICK y : y = [l.pre EXCEPT ![l.next[p]] = c, ![c] = p]
  OBVIOUS
<1>f. PICK f : f = [l.map EXCEPT ![k] = c]
  OBVIOUS
<1>3. m = [l EXCEPT !.next = x, !.pre = y, !.map = f, !.curSize = @ + 1,
                    !.key = Append(@, k), !.tx = Append(@, t), !.count = Append(@, 1)]
  BY <1>x, <1>y, <1>f DEF Link, Cells, Fields
<1>4. m = [next |-> x, pre |-> y, map |-> f, curSize |-> l.curSize + 1,
           key |-> Append(l.key, k), tx |-> Append(l.tx, t), count |-> Append(l.count, 1)]
  BY <1>3 DEF Cells, Fields
<1>5. /\ m.next = x /\ m.pre = y /\ m.map = f /\ m.curSize = l.curSize + 1
      /\ m.key = Append(l.key, k) /\ m.count = Append(l.count, 1)
  BY <1>4
<1>6. Used(m) = Used(l) \cup {c} /\ Len(m.key) = c
  <2>1. l.key \in Seq(Key)
    BY DEF Cells
  <2>2. DOMAIN m.key = 1 .. Len(l.key) + 1 /\ Len(m.key) = Len(l.key) + 1
    BY <1>5, <2>1
  <2> QED BY <1>0, <2>2 DEF Used
<1>7. l.count \in Seq(Nat) => m.count \in Seq(Nat) /\ Len(m.count) = Len(l.count) + 1
  BY <1>5
<1>8. Mapped(m) \subseteq Mapped(l) \cup {c}
  <2>1. l.map \in [Key -> {Nil} \cup Cell]
    BY DEF Cells
  <2>2. \A j \in Key : f[j] \in {c, l.map[j]}
    BY <1>f, <2>1
  <2> QED BY <1>5, <2>2 DEF Mapped
<1>9. /\ x \in [Node -> Node \cup {Nil}]
      /\ \A z \in Node : x[z] = IF z = p THEN c ELSE IF z = c THEN l.next[p] ELSE l.next[z]
  BY <1>0, <1>1, <1>2, <1>n, <1>x
<1>10. /\ y \in [Node -> Node \cup {Nil}]
       /\ \A z \in Node : y[z] = IF z = c THEN p ELSE IF z = l.next[p] THEN c ELSE l.pre[z]
  BY <1>0, <1>1, <1>2, <1>n, <1>y
<1> QED BY <1>1, <1>2, <1>5, <1>6, <1>7, <1>8, <1>9, <1>10

\* A new cell before the tail of a list that has room keeps the shape, and makes a list that
\* was ready one that is never without a first cell.
LEMMA LinkShape ==
  ASSUME NEW l, Cells(l), NEW max \in Nat, Shape(l, max), l.curSize <= max, Len(l.key) < MaxCells,
         NEW k \in Key, NEW t
  PROVE  /\ Shape(Link(l, k, t), max)
         /\ Ready(l, max) => NeverBare(Link(l, k, t), max)
<1>m. PICK m : m = Link(l, k, t)
  OBVIOUS
<1>c. PICK c : c = Len(l.key) + 1
  OBVIOUS
<1>p. PICK p : p = l.pre[Tail0]
  OBVIOUS
<1>1. /\ Used(m) = Used(l) \cup {c} /\ c \notin Used(l) /\ c \in Node \ {Head0, Tail0}
      /\ Len(m.key) = c /\ (l.count \in Seq(Nat) => m.count \in Seq(Nat) /\ Len(m.count) = Len(l.count) + 1)
      /\ m.curSize = l.curSize + 1 /\ Mapped(m) \subseteq Mapped(l) \cup {c}
      /\ p \in {Head0} \cup Used(l) /\ l.next[p] \in Used(l) \cup {Tail0}
      /\ m.next \in [Node -> Node \cup {Nil}] /\ m.pre \in [Node -> Node \cup {Nil}]
      /\ \A x \in Node : m.next[x] = IF x = p THEN c ELSE IF x = c THEN l.next[p] ELSE l.next[x]
      /\ \A x \in Node : m.pre[x] = IF x = c THEN p ELSE IF x = l.next[p] THEN c ELSE l.pre[x]
  BY <1>m, <1>c, <1>p, LinkIs DEF Shape
<1>2. /\ Used(l) \subseteq Node \ {Head0, Tail0} /\ {Head0, Tail0} \subseteq Node /\ Mapped(l) \subseteq Used(l)
      /\ Head0 # Tail0 /\ Used(l) = 1 .. Len(l.key) /\ Len(l.key) \in Nat /\ MaxCells \in Nat
  BY CellsMade DEF Shape, Linked
<1>3. /\ \A x \in {Head0} \cup Used(l) : l.next[x] \in Used(l) \cup {Tail0}
      /\ \A x \in Used(l) \cup {Tail0} : l.pre[x] \in {Head0} \cup Used(l)
  BY DEF Shape, Linked
<1>f. \A x \in {Tail0} \cup Mapped(l) : l.pre[x] = Head0 => l.next[Head0] = x
  BY DEF Shape, FirstKnown
<1>4. Linked(m)
  <2>1. Len(m.key) <= MaxCells
    BY <1>1, <1>2, <1>c
  <2>2. \A x \in {Head0} \cup Used(m) : m.next[x] \in Used(m) \cup {Tail0}
    BY <1>1, <1>2, <1>3
  <2>3. \A x \in Used(m) \cup {Tail0} : m.pre[x] \in {Head0} \cup Used(m)
    BY <1>1, <1>2, <1>3
  <2> QED BY <1>1, <2>1, <2>2, <2>3 DEF Linked
<1>5. FirstKnown(m)
  <2> SUFFICES ASSUME NEW x \in {Tail0} \cup Mapped(m), m.pre[x] = Head0 PROVE m.next[Head0] = x
    BY DEF FirstKnown
  <2>1. CASE x = c
    BY <1>1, <1>2, <2>1
  <2>2. CASE x # c
    <3>1. x \in {Tail0} \cup Mapped(l) /\ x \in Node
      BY <1>1, <1>2, <2>2
    <3>2. x # l.next[p] /\ l.pre[x] = Head0
      BY <1>1, <2>2, <3>1
    <3>3. l.next[Head0] = x /\ p # Head0
      BY <1>f, <3>1, <3>2
    <3> QED BY <1>1, <1>2, <3>3
  <2> QED BY <2>1, <2>2
<1>6. Counted(m, max)
  BY <1>1, <1>2, <1>c DEF Shape, Counted
<1>7. ASSUME Ready(l, max) PROVE NeverBare(m, max)
  <2>1. CASE /\ l.next[Head0] = Tail0 /\ l.pre[Tail0] = Head0 /\ Mapped(l) = {} /\ l.curSize = 0
             /\ max > 0 => Len(l.key) = 0
    <3>1. /\ p = Head0 /\ m.next[Head0] = c /\ m.next[c] = Tail0 /\ m.pre[Tail0] = c /\ m.pre[c] = Head0
          /\ m.curSize = 1 /\ Mapped(m) \subseteq {c}
      BY <1>1, <1>2, <1>p, <2>1
    <3>2. Single(m)
      BY <1>1, <3>1 DEF Single
    <3>3. max > 0 => OneEnd(m) /\ TwoUp(m)
      BY <1>1, <1>2, <2>1, <3>1 DEF OneEnd, TwoUp
    <3> QED BY <1>1, <3>1, <3>2, <3>3 DEF NeverBare
  <2>2. CASE max > 0 /\ l.next[Head0] \in Used(l) /\ (Stuck(l) \/ OneEnd(l))
    <3>1. p # Head0
      BY <1>2, <1>f, <1>p, <2>2
    <3>2. m.next[Head0] = l.next[Head0] /\ m.next[Head0] # Tail0
      BY <1>1, <1>2, <2>2, <3>1
    <3>3. CASE Stuck(l)
      <4>1. m.pre[l.next[Head0]] # Head0
        BY <1>1, <1>2, <2>2, <3>3 DEF Stuck
      <4>2. Stuck(m)
        BY <1>1, <2>2, <3>2, <3>3, <4>1 DEF Stuck
      <4> QED BY <2>2, <3>2, <4>2 DEF NeverBare
    <3>4. CASE OneEnd(l)
      <4>1. \A x \in {Head0} \cup Used(m) : m.next[x] = Tail0 => x = c /\ l.next[p] = Tail0
        BY <1>1, <1>2, <1>p, <3>4 DEF OneEnd
      <4>2. OneEnd(m)
        BY <1>1, <1>2, <4>1 DEF OneEnd
      <4>3. TwoUp(m)
        BY <1>1, <1>2, <2>2, <3>2, <4>1 DEF TwoUp
      <4> QED BY <2>2, <3>2, <4>2, <4>3 DEF NeverBare
    <3> QED BY <2>2, <3>3, <3>4
  <2> QED BY <1>7, <2>1, <2>2 DEF Ready, Stuck
<1> QED BY <1>m, <1>4, <1>5, <1>6, <1>7 DEF Shape

\* queueIn keeps both, and of the second sort it never takes a cell that is not there.
LEMMA QueueInShape ==
  ASSUME NEW l, Cells(l), NEW max \in Nat, Shape(l, max), Len(l.key) < MaxCells,
         NEW k \in Key, NEW t, Full(l, max) => CanEvict(l)
  PROVE  /\ Shape(queueIn(l, max, k, t), max)
         /\ NeverBare(l, max) => NeverBare(queueIn(l, max, k, t), max)
<1>1. CASE Full(l, max)
  <2>1. l.next[Head0] \in Used(l) /\ Cut(l, Evict(l), l.next[Head0])
    BY <1>1, EvictIs DEF Shape
  <2>2. Cells(Evict(l))
    BY EvictFewer, FewerCells
  <2>3. Shape(Evict(l), max) /\ Evict(l).curSize <= max /\ Len(Evict(l).key) < MaxCells
    BY <2>1, CutShape DEF Cut
  <2>4. NeverBare(l, max) => Ready(Evict(l), max)
    BY <1>1, EvictReady
  <2>5. Shape(Link(Evict(l), k, t), max) /\ (Ready(Evict(l), max) => NeverBare(Link(Evict(l), k, t), max))
    BY <2>2, <2>3, LinkShape
  <2> QED BY <1>1, <2>4, <2>5 DEF queueIn
<1>2. CASE ~ Full(l, max)
  <2>1. l.curSize <= max
    BY <1>2 DEF Shape, Counted, Full
  <2>2. NeverBare(l, max) => Ready(l, max)
    <3> SUFFICES ASSUME NeverBare(l, max) PROVE Ready(l, max)
      OBVIOUS
    <3>1. /\ Used(l) = 1 .. Len(l.key) /\ Len(l.key) \in Nat /\ Mapped(l) \subseteq Used(l)
          /\ l.next[Head0] \in Used(l) \cup {Tail0} /\ l.pre[Tail0] \in {Head0} \cup Used(l)
      BY CellsMade DEF Shape, Linked
    <3>2. CASE l.next[Head0] = Tail0
      <4>1. Len(l.key) = 0 /\ l.curSize = 0
        BY <3>2 DEF NeverBare
      <4>2. l.pre[Tail0] = Head0 /\ Mapped(l) = {}
        BY <3>1, <4>1
      <4> QED BY <3>2, <4>1, <4>2 DEF Ready
    <3>3. CASE l.next[Head0] \in Used(l)
      <4>1. max # 0
        BY <2>1, <3>1, <3>3 DEF NeverBare, Single
      <4> QED BY <3>3, <4>1 DEF NeverBare, Ready
    <3> QED BY <3>1, <3>2, <3>3
  <2>3. Shape(Link(l, k, t), max) /\ (Ready(l, max) => NeverBare(Link(l, k, t), max))
    BY <2>1, LinkShape
  <2> QED BY <1>2, <2>2, <2>3 DEF queueIn
<1> QED BY <1>1, <1>2

-----------------------------------------------------------------------------
(* What the steps keep of it: the lists are in shape, and a look-up that overlaps no
   other finds the entries it has found still there.                            *)

Orderly == Shape(listTx, TxMax) /\ NeverBare(listTx, TxMax) /\ Shape(listIndex, IndexMax)
Ghosts == raced \subseteq Key /\ met \subseteq Getter /\ crashes \in 0 .. MaxCrashes /\ crashed \in BOOLEAN
Alone ==
    \A g \in Getter \ met : at[g] # "idle" =>
        /\ \A h \in Getter \ {g} : at[h] = "idle"
        /\ at[g] = "txTail" => listTx.map[want[g]] # Nil
        /\ at[g] \in {"indexTail", "check"} => listIndex.map[want[g]] # Nil
SInv == Orderly /\ Ghosts /\ Alone /\ AloneSafe

\* A list of which only transactions and visits change keeps its shape, and has the keys it had.
LEMMA SamePointers ==
  ASSUME NEW l, NEW m, NEW max, Shape(l, max), m.next = l.next, m.pre = l.pre, m.map = l.map,
         m.curSize = l.curSize, m.key = l.key, m.count \in Seq(Nat), Len(m.count) = Len(l.count)
  PROVE  Shape(m, max) /\ (NeverBare(l, max) => NeverBare(m, max))
<1>1. Used(m) = Used(l) /\ Mapped(m) = Mapped(l)
  BY DEF Used, Mapped
<1>2. Linked(m)
  BY <1>1 DEF Shape, Linked
<1>3. FirstKnown(m) /\ Counted(m, max)
  BY <1>1 DEF Shape, FirstKnown, Counted
<1>4. (Stuck(l) => Stuck(m)) /\ (OneEnd(l) => OneEnd(m)) /\ (TwoUp(l) => TwoUp(m))
  BY <1>1 DEF Stuck, OneEnd, TwoUp
<1>5. Single(l) => Single(m)
  BY <1>1 DEF Single
<1> QED BY <1>2, <1>3, <1>4, <1>5 DEF Shape, NeverBare

LEMMA EmptyShape ==
  ASSUME NEW max \in Nat PROVE Shape(EmptyList, max) /\ NeverBare(EmptyList, max)
<1>e. PICK e : e = EmptyList
  OBVIOUS
<1>0. MaxCells \in Nat /\ Head0 # Tail0 /\ {Head0, Tail0} \subseteq Node
  BY CacheAssumption DEF CacheAssumption, Head0, Tail0, Node
<1>1. /\ e.next = [n \in Node |-> IF n = Head0 THEN Tail0 ELSE Nil]
      /\ e.pre = [n \in Node |-> IF n = Tail0 THEN Head0 ELSE Nil]
      /\ e.map = [k \in Key |-> Nil] /\ e.curSize = 0 /\ e.key = <<>> /\ e.count = <<>>
  BY <1>e DEF EmptyList
<1>2. Used(e) = {} /\ Mapped(e) = {} /\ Len(e.key) = 0
  BY <1>1 DEF Used, Mapped
<1>3. e.next[Head0] = Tail0 /\ e.pre[Tail0] = Head0
  BY <1>0, <1>1
<1>4. Linked(e)
  <2>1. e.next \in [Node -> Node \cup {Nil}] /\ e.pre \in [Node -> Node \cup {Nil}]
    BY <1>0, <1>1
  <2> QED BY <1>0, <1>2, <1>3, <2>1 DEF Linked
<1>5. FirstKnown(e) /\ Counted(e, max)
  BY <1>1, <1>2, <1>3 DEF FirstKnown, Counted
<1>6. NeverBare(e, max)
  BY <1>0, <1>1, <1>2, <1>3 DEF NeverBare, Single, OneEnd, TwoUp
<1> QED BY <1>e, <1>4, <1>5, <1>6 DEF Shape

\* A step of a look-up under way that finds its entries, or is the end of the process, or
\* had overlapped.
LEMMA StepAlone ==
  ASSUME Alone, NEW g \in Getter, at[g] # "idle", at \in [Getter -> Place], NEW to, at' = [at EXCEPT ![g] = to],
         want' = want, met' = met,
         g \notin met /\ to = "txTail" => listTx'.map[want[g]] # Nil,
         g \notin met /\ to \in {"indexTail", "check"} => listIndex'.map[want[g]] # Nil
  PROVE  Alone'
<1>1. at'[g] = to /\ \A h \in Getter \ {g} : at'[h] = at[h]
  OBVIOUS
<1> SUFFICES ASSUME NEW h \in Getter \ met, at'[h] # "idle"
             PROVE  /\ \A i \in Getter \ {h} : at'[i] = "idle"
                    /\ at'[h] = "txTail" => listTx'.map[want[h]] # Nil
                    /\ at'[h] \in {"indexTail", "check"} => listIndex'.map[want[h]] # Nil
  BY DEF Alone
<1>2. h = g
  BY <1>1 DEF Alone
<1> QED BY <1>1, <1>2 DEF Alone

\* The steps that only look.
LEMMA LooksKeep ==
  ASSUME IInv, SInv, NEW g \in Getter, getInTX(g) \/ getInIndex(g) \/ InTable(g) \/ InBoltDb(g)
  PROVE  SInv'
<1>0. /\ ~ crashed /\ crashed' = crashed /\ raced' = raced /\ met' = met /\ crashes' = crashes
      /\ listTx' = listTx /\ listIndex' = listIndex /\ want' = want /\ at \in [Getter -> Place]
  BY DEF getInTX, getInIndex, InTable, InBoltDb, Search, Go, lists, IInv, InHand
<1>1. PICK from \in Place \ {"idle"}, to \in Place :
        /\ at[g] = from /\ at' = [at EXCEPT ![g] = to]
        /\ to = "txTail" => listTx.map[want[g]] # Nil
        /\ to \in {"indexTail", "check"} => listIndex.map[want[g]] # Nil
  BY DEF getInTX, getInIndex, InTable, InBoltDb, Search, Go, Place
<1>2. Alone'
  BY <1>0, <1>1, StepAlone DEF SInv
<1>3. Orderly' /\ Ghosts' /\ AloneSafe'
  BY <1>0 DEF SInv, Orderly, Ghosts, AloneSafe
<1> QED BY <1>2, <1>3 DEF SInv

\* toTail and checkDel meet a nil only when their look-up has overlapped another one.
LEMMA TouchSafe ==
  ASSUME IInv, SInv, NEW g \in Getter, NEW from \in {"txTail", "indexTail", "check"},
         NEW to \in {"idle", "check", "promote"}, NEW l, Touch(g, from, to, l),
         l = IF from = "txTail" THEN listTx ELSE listIndex,
         to = "check" /\ ~ crashed' => listIndex'.map[want[g]] # Nil, crashed' => listIndex' = listIndex,
         Orderly'
  PROVE  SInv'
<1>0. /\ at[g] = from /\ at' = [at EXCEPT ![g] = IF crashed' THEN from ELSE to]
      /\ crashed' = (l.map[want[g]] = Nil) /\ at \in [Getter -> Place]
      /\ want' = want /\ met' = met /\ raced' = raced /\ crashes' = crashes
  BY DEF Touch, Go, IInv, InHand
<1>1. g \notin met => ~ crashed'
  BY <1>0 DEF SInv, Alone
<1>2. Alone'
  <2>1. g \notin met /\ (IF crashed' THEN from ELSE to) \in {"indexTail", "check"} => listIndex'.map[want[g]] # Nil
    BY <1>1
  <2>2. ~ (g \notin met /\ (IF crashed' THEN from ELSE to) = "txTail")
    BY <1>1
  <2> QED BY <1>0, <2>1, <2>2, StepAlone DEF SInv
<1>3. Ghosts'
  BY <1>0 DEF SInv, Ghosts
<1>4. AloneSafe'
  <2>1. crashed' => at'[g] \in {"txTail", "indexTail", "check"} /\ g \in met'
    BY <1>0, <1>1
  <2> QED BY <2>1 DEF AloneSafe
<1> QED BY <1>2, <1>3, <1>4 DEF SInv

LEMMA ListsAre ==
  ASSUME IInv, SInv
  PROVE  /\ Cells(listTx) /\ Shape(listTx, TxMax) /\ NeverBare(listTx, TxMax) /\ TxMax \in Nat
         /\ Cells(listIndex) /\ Shape(listIndex, IndexMax) /\ IndexMax \in Nat
         /\ \A g \in Getter : want[g] \in Key
         /\ at \in [Getter -> Place] /\ want \in [Getter -> Key]
BY CacheAssumption DEF IInv, SInv, Orderly, InHand, CacheAssumption

LEMMA TxToTailSafe ==
  ASSUME IInv, SInv, NEW g \in Getter, TxToTail(g) PROVE SInv'
<1>1. Touch(g, "txTail", "idle", listTx) /\ listIndex' = listIndex
      /\ crashed' = (listTx.map[want[g]] = Nil)
  BY DEF TxToTail, Touch
<1>m. PICK m : m = listTx'
  OBVIOUS
<1>2. Shape(m, TxMax) /\ NeverBare(m, TxMax)
  <2>1. CASE m = listTx
    BY <2>1, ListsAre
  <2>2. CASE listTx.map[want[g]] # Nil /\ m = toTail(listTx, want[g])
    BY <2>2, ListsAre, ToTailShape
  <2> QED BY <1>1, <1>m, <2>1, <2>2 DEF TxToTail
<1>3. Orderly'
  BY <1>1, <1>2, <1>m, ListsAre DEF Orderly
<1> QED BY <1>1, <1>3, TouchSafe

\* One more visit of a cell.
LEMMA CountShape ==
  ASSUME NEW l, Cells(l), NEW max, Shape(l, max), NEW p \in DOMAIN l.key,
         NEW m, m = [l EXCEPT !.count[p] = @ + 1]
  PROVE  Shape(m, max) /\ Cells(m) /\ m.map = l.map
<1>c. PICK c : c = [l.count EXCEPT ![p] = @ + 1]
  OBVIOUS
<1>1. m = [next |-> l.next, pre |-> l.pre, map |-> l.map, curSize |-> l.curSize,
           key |-> l.key, tx |-> l.tx, count |-> c]
  BY <1>c DEF Cells, Fields
<1>2. /\ m.map = l.map /\ m.key = l.key /\ m.next = l.next /\ m.pre = l.pre
      /\ m.curSize = l.curSize /\ m.count = c
  BY <1>1
<1>3. l.count \in Seq(Nat) /\ Len(l.count) = Len(l.key) /\ l.key \in Seq(Key)
  BY DEF Shape, Counted, Cells
<1>4. p \in DOMAIN l.count
  BY <1>3
<1>5. c \in Seq(Nat) /\ Len(c) = Len(l.count)
  BY <1>3, <1>4, <1>c
<1>6. Cells(m)
  BY CountFewer, FewerCells
<1> QED BY <1>2, <1>5, <1>6, SamePointers

LEMMA IndexToTailSafe ==
  ASSUME IInv, SInv, NEW g \in Getter, IndexToTail(g) PROVE SInv'
<1>1. Touch(g, "indexTail", "check", listIndex) /\ listTx' = listTx
      /\ crashed' = (listIndex.map[want[g]] = Nil)
  BY DEF IndexToTail, Touch
<1>m. PICK m : m = listIndex'
  OBVIOUS
<1>2. Shape(m, IndexMax) /\ (~ crashed' => m.map[want[g]] # Nil) /\ (crashed' => m = listIndex)
  <2>1. CASE crashed'
    BY <1>m, <2>1, ListsAre DEF IndexToTail
  <2>2. CASE ~ crashed'
    <3>p. PICK p : p = listIndex.map[want[g]]
      OBVIOUS
    <3>c. PICK c : c = [listIndex EXCEPT !.count[p] = @ + 1]
      OBVIOUS
    <3>1. p \in DOMAIN listIndex.key /\ p # Nil
      BY <1>1, <2>2, <3>p, ListsAre DEF Cells
    <3>2. Shape(c, IndexMax) /\ Cells(c) /\ c.map = listIndex.map
      BY <3>1, <3>c, ListsAre, CountShape
    <3>3. m = toTail(c, want[g])
      BY <1>m, <2>2, <3>p, <3>c DEF IndexToTail
    <3>4. Shape(m, IndexMax)
      BY <3>1, <3>2, <3>3, <3>p, ListsAre, ToTailShape
    <3>5. m.map = c.map
      <4>1. CASE c.pre[Tail0] = c.map[want[g]]
        BY <3>3, <4>1 DEF toTail
      <4>2. CASE c.pre[Tail0] # c.map[want[g]]
        BY <3>1, <3>2, <3>3, <3>p, <4>2, ListsAre, ToTailIs DEF Shape
      <4> QED BY <4>1, <4>2
    <3> QED BY <2>2, <3>1, <3>2, <3>4, <3>5, <3>p
  <2> QED BY <2>1, <2>2
<1>3. Orderly'
  BY <1>1, <1>2, <1>m, ListsAre DEF Orderly
<1> QED BY <1>1, <1>2, <1>3, <1>m, TouchSafe

LEMMA CheckDelSafe ==
  ASSUME IInv, SInv, NEW g \in Getter, checkDel(g) PROVE SInv'
<1>1. PICK to \in {"idle", "promote"} : Touch(g, "check", to, listIndex)
  BY DEF checkDel
<1>2. listTx' = listTx /\ crashed' = (listIndex.map[want[g]] = Nil)
  BY <1>1 DEF checkDel, Touch
<1>m. PICK m : m = listIndex'
  OBVIOUS
<1>3. m = listIndex \/ (listIndex.map[want[g]] # Nil /\ m = Unlink(listIndex, want[g]))
  BY <1>2, <1>m DEF checkDel
<1>4. Shape(m, IndexMax)
  <2>1. CASE m = listIndex
    BY <2>1, ListsAre
  <2>2. CASE listIndex.map[want[g]] # Nil /\ m = Unlink(listIndex, want[g])
    <3>p. PICK p : p = listIndex.map[want[g]]
      OBVIOUS
    <3>1. Cut(listIndex, m, p)
      BY <2>2, <3>p, ListsAre, UnlinkIs DEF Shape
    <3>2. p \in Used(listIndex) /\ p \in Mapped(listIndex)
      BY <2>2, <3>p, ListsAre DEF Cells, Used, Mapped
    <3> QED BY <3>1, <3>2, ListsAre, CutShape
  <2> QED BY <1>3, <2>1, <2>2
<1>5. Orderly'
  BY <1>2, <1>4, <1>m, ListsAre DEF Orderly
<1>6. crashed' => listIndex' = listIndex
  BY <1>2, <1>3, <1>m
<1> QED BY <1>1, <1>5, <1>6, TouchSafe

\* queueIn meets a nil only in the index.
LEMMA EnterSafe ==
  ASSUME IInv, SInv, NEW g \in Getter, TxQueueIn(g) \/ IndexQueueIn(g) PROVE SInv'
<1>1. ASSUME NEW from \in {"promote", "enter"}, NEW l, NEW max, Enter(g, from, l, max), Orderly',
             from = "promote" => ~ crashed'
      PROVE  SInv'
  <2>1. /\ at[g] = from /\ (at' = [at EXCEPT ![g] = "idle"] \/ (crashed' /\ at' = [at EXCEPT ![g] = from]))
        /\ want' = want /\ met' = met /\ raced' = raced /\ crashes' = crashes
        /\ crashed' \in BOOLEAN
    BY <1>1 DEF Enter, Go
  <2>2. Alone'
    BY <2>1, ListsAre, StepAlone DEF SInv
  <2>3. Ghosts'
    BY <2>1 DEF SInv, Ghosts
  <2>4. crashed' => at'[g] = "enter"
    BY <1>1, <2>1, ListsAre DEF Enter, Go
  <2>5. AloneSafe'
    BY <2>4 DEF AloneSafe
  <2> QED BY <1>1, <2>2, <2>3, <2>5 DEF SInv
<1>2. CASE TxQueueIn(g)
  <2>1. /\ Enter(g, "promote", listTx, TxMax) /\ listIndex' = listIndex /\ Len(listTx.key) < MaxCells
        /\ crashed' = (Full(listTx, TxMax) /\ ~ CanEvict(listTx))
    BY <1>2 DEF TxQueueIn, Enter
  <2>2. Full(listTx, TxMax) => CanEvict(listTx)
    BY ListsAre, EvictReady
  <2>m. PICK m : m = listTx'
    OBVIOUS
  <2>3. m = queueIn(listTx, TxMax, want[g], got[g])
    BY <1>2, <2>1, <2>2, <2>m DEF TxQueueIn
  <2>4. Shape(m, TxMax) /\ NeverBare(m, TxMax)
    BY <2>1, <2>2, <2>3, ListsAre, QueueInShape
  <2>5. Orderly'
    BY <2>1, <2>4, <2>m, ListsAre DEF Orderly
  <2> QED BY <1>1, <2>1, <2>2, <2>5
<1>3. CASE IndexQueueIn(g)
  <2>1. /\ Enter(g, "enter", listIndex, IndexMax) /\ listTx' = listTx /\ Len(listIndex.key) < MaxCells
        /\ crashed' = (Full(listIndex, IndexMax) /\ ~ CanEvict(listIndex))
    BY <1>3 DEF IndexQueueIn, Enter
  <2>m. PICK m : m = listIndex'
    OBVIOUS
  <2>3. m = IF crashed' THEN listIndex ELSE queueIn(listIndex, IndexMax, want[g], got[g])
    BY <1>3, <2>m DEF IndexQueueIn
  <2>4. Shape(m, IndexMax)
    <3>1. CASE crashed'
      BY <2>3, <3>1, ListsAre
    <3>2. CASE ~ crashed'
      BY <2>1, <2>3, <3>2, ListsAre, QueueInShape
    <3> QED BY <3>1, <3>2
  <2>5. Orderly'
    BY <2>1, <2>4, <2>m, ListsAre DEF Orderly
  <2> QED BY <1>1, <2>1, <2>5
<1> QED BY <1>2, <1>3

LEMMA CallSafe ==
  ASSUME IInv, SInv, NEW g \in Getter, NEW k \in Key, Call(g, k) PROVE SInv'
<1>o. PICK others : others = {h \in Getter : at[h] # "idle"}
  OBVIOUS
<1>0. /\ ~ crashed /\ crashed' = crashed /\ crashes' = crashes /\ listTx' = listTx /\ listIndex' = listIndex
      /\ at[g] = "idle" /\ at' = [at EXCEPT ![g] = "tx"] /\ want' = [want EXCEPT ![g] = k]
      /\ raced' \subseteq raced \cup {k}
      /\ met' = IF others = {} THEN {} ELSE met \cup others \cup {g}
  BY <1>o DEF Call, Go, lists
<1>1. /\ at'[g] = "tx" /\ \A h \in Getter \ {g} : at'[h] = at[h]
  BY <1>0, ListsAre
<1>2. Alone'
  <2>1. ASSUME NEW h \in Getter \ met', at'[h] # "idle" PROVE h = g /\ others = {}
    BY <1>0, <1>1, <1>o, <2>1
  <2>2. others = {} => \A i \in Getter \ {g} : at'[i] = "idle"
    BY <1>1, <1>o
  <2> QED BY <1>1, <2>1, <2>2 DEF Alone
<1>3. Ghosts'
  BY <1>0, <1>o DEF SInv, Ghosts
<1>4. Orderly' /\ AloneSafe'
  BY <1>0 DEF SInv, Orderly, AloneSafe
<1> QED BY <1>2, <1>3, <1>4 DEF SInv

\* A block that arrives and what is done with it changes no pointer.
LEMMA RefreshShape ==
  ASSUME NEW l, Cells(l), NEW max, Shape(l, max), NEW b, NEW m, m = Refresh(l, b)
  PROVE  Shape(m, max) /\ (NeverBare(l, max) => NeverBare(m, max)) /\ m.map = l.map
<1>u. PICK u : u = [c \in DOMAIN l.tx |-> IF Has(b, l.key[c]) /\ l.map[l.key[c]] = c
                                          THEN LastOf(b, l.key[c]) ELSE l.tx[c]]
  OBVIOUS
<1>1. m = [next |-> l.next, pre |-> l.pre, map |-> l.map, curSize |-> l.curSize,
           key |-> l.key, tx |-> u, count |-> l.count]
  BY <1>u DEF Refresh, Cells, Fields
<1>2. /\ m.map = l.map /\ m.key = l.key /\ m.next = l.next /\ m.pre = l.pre
      /\ m.curSize = l.curSize /\ m.count = l.count
  BY <1>1
<1> QED BY <1>2, SamePointers DEF Shape, Counted

LEMMA UpdateSafe ==
  ASSUME IInv, SInv, Update PROVE SInv'
<1>1. /\ ~ crashed /\ crashed' = crashed /\ crashes' = crashes /\ at' = at /\ want' = want /\ met' = met
  BY DEF Update, Arrive, updateDataCache, updateBucket, Move, getters
<1>2. raced' \subseteq Key
  <2>1. CASE \E p \in Payload : Arrive(p)
    <3>1. PICK p \in Payload : Arrive(p)
      BY <2>1
    <3>2. {p[i].key : i \in DOMAIN p} \subseteq Key
      <4>1. p \in Seq([key : Key, stamp : Nat \ {0}])
        BY CacheAssumption DEF CacheAssumption
      <4>2. ASSUME NEW i \in DOMAIN p PROVE p[i].key \in Key
        <5> DEFINE S == [key : Key, stamp : Nat \ {0}]
        <5>1. p \in Seq(S) => p[i] \in S
          <6> HIDE DEF S
          <6> QED OBVIOUS
        <5> QED BY <4>1, <5>1
      <4> QED BY <4>2
    <3>3. raced' \subseteq raced \cup {p[i].key : i \in DOMAIN p}
      BY <3>1 DEF Arrive
    <3> QED BY <3>2, <3>3 DEF SInv, Ghosts
  <2>2. CASE \E b \in DOMAIN stage : updateDataCache(b) \/ updateBucket(b)
    BY <2>2 DEF updateDataCache, updateBucket, SInv, Ghosts
  <2> QED BY <2>1, <2>2 DEF Update
<1>3. PICK b : /\ listTx' = listTx \/ listTx' = Refresh(listTx, b)
               /\ listIndex' = listIndex \/ listIndex' = Refresh(listIndex, b)
  BY DEF Update, Arrive, updateDataCache, updateBucket, lists
<1>m. PICK m1, m2 : m1 = listTx' /\ m2 = listIndex'
  OBVIOUS
<1>4. /\ Shape(m1, TxMax) /\ NeverBare(m1, TxMax) /\ Shape(m2, IndexMax)
      /\ m1.map = listTx.map /\ m2.map = listIndex.map
  BY <1>3, <1>m, ListsAre, RefreshShape
<1>5. Orderly'
  BY <1>4, <1>m DEF Orderly
<1>6. Alone'
  BY <1>1, <1>4, <1>m DEF SInv, Alone
<1>7. Ghosts' /\ AloneSafe'
  BY <1>1, <1>2 DEF SInv, Ghosts, AloneSafe
<1> QED BY <1>5, <1>6, <1>7 DEF SInv

LEMMA RestartSafe ==
  ASSUME IInv, SInv, Restart PROVE SInv'
<1>1. /\ crashed' = FALSE /\ crashes < MaxCrashes /\ crashes' = crashes + 1 /\ at' = Idle /\ met' = {}
      /\ listTx' = EmptyList /\ listIndex' = EmptyList
      /\ raced' = raced \cup UNION {KeysOf(b) : b \in {c \in DOMAIN chain : Busy(c)}}
  BY DEF Restart
<1>2. raced' \subseteq Key
  <2>1. \A b \in DOMAIN chain : KeysOf(b) \subseteq Key
    BY BlockIs DEF KeysOf, IInv
  <2> QED BY <1>1, <2>1 DEF SInv, Ghosts
<1>3. Ghosts'
  <2>1. crashes' \in 0 .. MaxCrashes
    BY <1>1, CacheAssumption DEF SInv, Ghosts, CacheAssumption
  <2>2. met' \subseteq Getter /\ crashed' \in BOOLEAN
    BY <1>1
  <2> QED BY <1>2, <2>1, <2>2 DEF Ghosts
<1>4. Alone' /\ AloneSafe'
  BY <1>1 DEF Alone, AloneSafe, Idle
<1>5. Orderly'
  <2>m. PICK m : m = EmptyList
    OBVIOUS
  <2>1. Shape(m, TxMax) /\ NeverBare(m, TxMax) /\ Shape(m, IndexMax)
    BY <2>m, EmptyShape, CacheAssumption DEF CacheAssumption
  <2>2. listTx' = m /\ listIndex' = m
    BY <1>1, <2>m
  <2> QED BY <2>1, <2>2 DEF Orderly
<1> QED BY <1>3, <1>4, <1>5 DEF SInv

LEMMA SafeShows ==
  ASSUME IInv, SInv PROVE TypeOK
<1>1. ASSUME NEW l, NEW max, Cells(l), Shape(l, max) PROVE l \in List /\ l.curSize <= max + 1
  <2>1. l.next \in [Node -> Node \cup {Nil}] /\ l.pre \in [Node -> Node \cup {Nil}]
    BY <1>1 DEF Shape, Linked
  <2>2. l.curSize \in Int /\ l.curSize <= max + 1 /\ l.count \in Seq(Nat)
    BY <1>1 DEF Shape, Counted
  <2>3. l.map \in [Key -> {Nil} \cup Cell] /\ l.key \in Seq(Key)
    BY <1>1 DEF Cells
  <2>4. l.tx \in Seq(Tx)
    <3> DEFINE S == Tx \ {Null}
    <3>1. l.tx \in Seq(S) /\ S \subseteq Tx
      BY <1>1 DEF Cells
    <3> HIDE DEF S
    <3> QED BY <3>1
  <2>5. l = [next |-> l.next, pre |-> l.pre, map |-> l.map, curSize |-> l.curSize,
             key |-> l.key, tx |-> l.tx, count |-> l.count]
    BY <1>1 DEF Cells, Fields
  <2> QED BY <2>1, <2>2, <2>3, <2>4, <2>5 DEF List
<1>2. listTx \in List /\ listTx.curSize <= TxMax + 1 /\ listIndex \in List /\ listIndex.curSize <= IndexMax + 1
  BY <1>1, ListsAre
<1> QED BY <1>2 DEF TypeOK, IInv, SInv, Ghosts, Chained, InHand, Place

\* The lists stay in shape and look-ups that do not overlap keep what they have found.
THEOREM Orderliness == Spec => [](IInv /\ SInv)
<1>1. Init => SInv
  <2> SUFFICES ASSUME Init PROVE SInv
    OBVIOUS
  <2>1. Ghosts
    <3>1. crashes \in 0 .. MaxCrashes
      BY CacheAssumption DEF Init, CacheAssumption
    <3>2. raced \subseteq Key /\ met \subseteq Getter /\ crashed \in BOOLEAN
      BY DEF Init
    <3> QED BY <3>1, <3>2 DEF Ghosts
  <2>2. Alone /\ AloneSafe
    BY DEF Init, Alone, AloneSafe, Idle
  <2>3. Orderly
    BY EmptyShape, CacheAssumption DEF Init, Orderly, CacheAssumption
  <2> QED BY <2>1, <2>2, <2>3 DEF SInv
<1>2. IInv /\ SInv /\ [Next]_vars => SInv'
  <2> SUFFICES ASSUME IInv, SInv, [Next]_vars PROVE SInv'
    OBVIOUS
  <2>1. ASSUME NEW g \in Getter, GetOneValue(g) PROVE SInv'
    <3>1. CASE \E k \in Key : Call(g, k)
      BY <3>1, CallSafe
    <3>2. CASE getInTX(g) \/ getInIndex(g) \/ InTable(g) \/ InBoltDb(g)
      BY <3>2, LooksKeep
    <3>3. CASE TxToTail(g)
      BY <3>3, TxToTailSafe
    <3>4. CASE IndexToTail(g)
      BY <3>4, IndexToTailSafe
    <3>5. CASE checkDel(g)
      BY <3>5, CheckDelSafe
    <3>6. CASE TxQueueIn(g) \/ IndexQueueIn(g)
      BY <3>6, EnterSafe
    <3> QED BY <2>1, <3>1, <3>2, <3>3, <3>4, <3>5, <3>6 DEF GetOneValue
  <2>2. CASE Update
    BY <2>2, UpdateSafe
  <2>3. CASE Restart
    BY <2>3, RestartSafe
  <2>4. CASE UNCHANGED vars
    BY <2>4 DEF vars, lists, getters, SInv, Orderly, Ghosts, Alone, AloneSafe
  <2> QED BY <2>1, <2>2, <2>3, <2>4 DEF Next
<1> QED BY <1>1, <1>2, Invariance, PTL DEF Spec

\* Every variable of the cache keeps its type; the lists of lruTx and lruIndex never
\* count more than one cell above maxSize, and no pointer of a cell that was made is nil.
THEOREM TypeCorrect == Spec => []TypeOK
<1>1. IInv /\ SInv => TypeOK
  BY SafeShows
<1> QED BY <1>1, Orderliness, PTL

\* A look-up that overlaps no other meets no nil in toTail and checkDel, and no look-up
\* at all meets one in the queueIn of the list of transactions.
THEOREM OnlyByOverlap == Spec => []AloneSafe
<1>1. SInv => AloneSafe
  BY DEF SInv
<1> QED BY <1>1, Orderliness, PTL
=============================================================================
