------------------------------- MODULE Cache -------------------------------
(* The look-up of a value (cache/cache.go GetOneValue) in its four levels: the
   list of transactions, the list of index entries (cache/cache_lru.go), the
   chain of block hashes of the table (getInTableHashChain) and the data chain
   (getInBoltDb); and the update of the first three by a block that arrives
   (UpdateByDataBlock).  One table; module TableIndex has several.

   Look-ups run in the RPC handlers and the command line at once.  getInTX,
   getInIndex and updateDataCache hold the lock of lru3Query; toTail, queueIn and
   checkDel do not hold any, and each is one step here.

   Cells of a list are numbered in the order they are made.  A transaction is
   the pair of its block's number and its place in the block.                   *)
EXTENDS Integers, Sequences, FiniteSets

CONSTANTS Key, Getter,       \* data IDs; goroutines that look values up
          Payload,           \* what blocks may hold: sequences of [key, stamp]
          TxMax, IndexMax,   \* lruTx.maxSize, lruIndex.maxSize
          MaxBlocks, MaxCells, MaxCrashes  \* bounds: blocks; cells made in a list; restarts

\* The pool hands its transactions out in the order of their stamps, which are
\* positive (txpool_data.go in()).
ASSUME CacheAssumption ==
    /\ Payload \subseteq Seq([key : Key, stamp : Nat \ {0}])
    /\ \A p \in Payload : \A i, j \in DOMAIN p : i < j => p[i].stamp <= p[j].stamp
    /\ TxMax \in Nat /\ IndexMax \in Nat
    /\ MaxBlocks \in Nat /\ MaxCells \in Nat /\ MaxCrashes \in Nat

VARIABLES chain,        \* the data chain, from the block after the genesis block
          bucket,       \* the numbers of the blocks in the table's hash chain
          stage,        \* stage[b]: what is to be done next with block b
          listTx, listIndex,
          at,           \* at[g]: where the look-up of g is
          want, got,    \* its argument, and the transaction it has found
          raced,        \* keys looked up while a block with them was worked in
          met,          \* goroutines whose look-up overlapped another one
          crashes,
          crashed       \* nil was dereferenced

lists == <<listTx, listIndex>>
blocks == <<chain, bucket, stage>>
getters == <<at, want, got, met>>
vars == <<blocks, lists, getters, raced, crashes, crashed>>

Head0 == 0
Tail0 == MaxCells + 1
Nil == -1
Cell == 1 .. MaxCells
Node == Head0 .. Tail0
Null == <<0, 0>>
Tx == {Null} \cup UNION {{<<b, i>> : i \in DOMAIN chain[b]} : b \in DOMAIN chain}
List == [next : [Node -> Node \cup {Nil}], pre : [Node -> Node \cup {Nil}],
         map : [Key -> {Nil} \cup Cell], curSize : Int,
         key : Seq(Key), tx : Seq(Tx), count : Seq(Nat)]

TypeOK ==
    /\ chain \in Seq(Payload) /\ Len(chain) <= MaxBlocks
    /\ bucket \in Seq(DOMAIN chain)
    /\ stage \in [1 .. MaxBlocks -> {"none", "cache", "bucket", "over"}]
    /\ listTx \in List /\ listTx.curSize <= TxMax + 1
    /\ listIndex \in List /\ listIndex.curSize <= IndexMax + 1
    /\ at \in [Getter -> {"idle", "tx", "txTail", "index", "indexTail", "check",
                          "promote", "search", "scan", "enter"}]
    /\ want \in [Getter -> Key] /\ got \in [Getter -> Tx]
    /\ raced \subseteq Key /\ met \subseteq Getter /\ crashes \in 0 .. MaxCrashes /\ crashed \in BOOLEAN

\* lruTx.init and lruIndex.init
EmptyList ==
    [next |-> [n \in Node |-> IF n = Head0 THEN Tail0 ELSE Nil],
     pre |-> [n \in Node |-> IF n = Tail0 THEN Head0 ELSE Nil],
     map |-> [k \in Key |-> Nil], curSize |-> 0,
     key |-> <<>>, tx |-> <<>>, count |-> <<>>]

Idle == [g \in Getter |-> "idle"]

Init ==
    /\ chain = <<>> /\ bucket = <<>> /\ stage = [b \in 1 .. MaxBlocks |-> "none"]
    /\ listTx = EmptyList /\ listIndex = EmptyList
    /\ at = Idle /\ want \in [Getter -> Key] /\ got = [g \in Getter |-> Null]
    /\ raced = {} /\ met = {} /\ crashes = 0 /\ crashed = FALSE

-----------------------------------------------------------------------------
(* The lists.  An operator with an underscore in its name is a mutant: the
   definition that follows it, with a bug the properties below must catch.     *)

\* The first cell goes out when the list holds more than it should.  What its
\* neighbours are is read from the cell, in this order.
Evict(l) ==
    LET pg == l.next[Head0]
        pre == [l.pre EXCEPT ![l.next[pg]] = l.pre[pg]]
    IN [l EXCEPT !.pre = pre, !.next[pre[pg]] = l.next[pg],
                 !.map[l.key[pg]] = Nil, !.curSize = @ - 1]

\* A list from which nothing goes out is never empty: its first cell is one.
CanEvict(l) == l.next[Head0] \in Cell

Full_Late(l, max) == l.curSize > max + 1
Full_AtMax(l, max) == l.curSize >= max
Full(l, max) == l.curSize > max

\* A new cell before the tail; the map forgets an older cell of the same key.
Link(l, k, t) ==
    LET c == Len(l.key) + 1
        ptag == l.pre[Tail0]
    IN [l EXCEPT !.next = [@ EXCEPT ![c] = l.next[ptag], ![ptag] = c],
                 !.pre = [@ EXCEPT ![l.next[ptag]] = c, ![c] = ptag],
                 !.map[k] = c, !.curSize = @ + 1,
                 !.key = Append(@, k), !.tx = Append(@, t), !.count = Append(@, 1)]

queueIn(l, max, k, t) == Link(IF Full(l, max) THEN Evict(l) ELSE l, k, t)

\* The cell is moved to the tail, but p.next is overwritten before the cell
\* behind p learns its new predecessor.
toTail(l, k) ==
    LET p == l.map[k]
        ptag == l.pre[Tail0]
        cut == [l.next EXCEPT ![l.pre[p]] = l.next[p]]
        behind == cut[ptag]
    IN IF ptag = p THEN l
       ELSE [l EXCEPT !.next = [cut EXCEPT ![p] = behind, ![ptag] = p],
                      !.pre = [@ EXCEPT ![behind] = p, ![p] = ptag]]

Unlink(l, k) ==
    LET p == l.map[k]
    IN [l EXCEPT !.next[l.pre[p]] = l.next[p],
                 !.pre[l.next[p]] = l.pre[p], !.map[k] = Nil, !.curSize = @ - 1]

-----------------------------------------------------------------------------
(* What the chains hold.                                                       *)

Has(b, k) == \E i \in DOMAIN chain[b] : chain[b][i].key = k
KeysOf(b) == {chain[b][i].key : i \in DOMAIN chain[b]}
StampOf(t) == chain[t[1]][t[2]].stamp

\* The first of the transactions of k with the latest stamp in a block.
Latest(b, k) ==
    LET of == {i \in DOMAIN chain[b] : chain[b][i].key = k}
    IN <<b, CHOOSE i \in of : \A j \in of :
               \/ chain[b][j].stamp < chain[b][i].stamp
               \/ chain[b][j].stamp = chain[b][i].stamp /\ i <= j>>

\* The loops go back from the last block and stop at the first that has the key.
FirstBack(s, k) ==
    LET hit == {i \in DOMAIN s : Has(s[i], k)}
    IN IF hit = {} THEN Null
       ELSE Latest(s[CHOOSE i \in hit : \A j \in hit : j <= i], k)

getInTableHashChain(k) == FirstBack(bucket, k)
getInBoltDb(k) == FirstBack([b \in DOMAIN chain |-> b], k)

\* updateDataCache goes through the block in order: the last one stays.
LastOf_AnyKey(b, k) == <<b, Len(chain[b])>>
LastOf(b, k) ==
    LET of == {i \in DOMAIN chain[b] : chain[b][i].key = k}
    IN <<b, CHOOSE i \in of : \A j \in of : j <= i>>

-----------------------------------------------------------------------------
(* GetOneValue, step by step.                                                  *)

Go(g, from, to) == ~ crashed /\ at[g] = from /\ at' = [at EXCEPT ![g] = to]
Found(g, t) == got' = [got EXCEPT ![g] = t]
Busy(b) == stage[b] \in {"cache", "bucket"}

Call(g, k) ==
    /\ Go(g, "idle", "tx") /\ want' = [want EXCEPT ![g] = k] /\ Found(g, Null)
    /\ raced' = raced \cup {x \in {k} : \E b \in DOMAIN chain : Busy(b) /\ Has(b, x)}
    /\ LET others == {h \in Getter : at[h] # "idle"}
       IN met' = IF others = {} THEN {} ELSE met \cup others \cup {g}
    /\ UNCHANGED <<blocks, lists, crashes, crashed>>

getInTX(g) ==
    LET p == listTx.map[want[g]]
    IN /\ IF p = Nil THEN Go(g, "tx", "index") /\ UNCHANGED got
                     ELSE Go(g, "tx", "txTail") /\ Found(g, listTx.tx[p])
       /\ UNCHANGED <<blocks, lists, want, met, raced, crashes, crashed>>

\* toTail and checkDel of a key that has gone in the meantime are a nil pointer.
Touch(g, from, to, l) ==
    /\ crashed' = (l.map[want[g]] = Nil)
    /\ IF crashed' THEN Go(g, from, from) ELSE Go(g, from, to)
    /\ UNCHANGED <<blocks, want, got, met, raced, crashes>>

TxToTail(g) ==
    /\ Touch(g, "txTail", "idle", listTx)
    /\ listTx' = IF crashed' THEN listTx ELSE toTail(listTx, want[g])
    /\ UNCHANGED listIndex

getInIndex(g) ==
    LET p == listIndex.map[want[g]]
    IN /\ IF p = Nil THEN Go(g, "index", "search") /\ UNCHANGED got
                     ELSE Go(g, "index", "indexTail") /\ Found(g, listIndex.tx[p])
       /\ UNCHANGED <<blocks, lists, want, met, raced, crashes, crashed>>

\* Moving an entry counts as a visit.
IndexToTail(g) ==
    /\ Touch(g, "indexTail", "check", listIndex)
    /\ listIndex' =
          IF crashed' THEN listIndex
          ELSE toTail([listIndex EXCEPT !.count[listIndex.map[want[g]]] = @ + 1], want[g])
    /\ UNCHANGED listTx

\* With the third visit the entry leaves the index for the list of transactions.
checkDel(g) ==
    LET visits == listIndex.count[listIndex.map[want[g]]]
        third == ~ crashed' /\ visits >= 3
    IN /\ Touch(g, "check", IF listIndex.map[want[g]] # Nil /\ visits >= 3
                             THEN "promote" ELSE "idle", listIndex)
       /\ listIndex' = IF third THEN Unlink(listIndex, want[g]) ELSE listIndex
       /\ UNCHANGED listTx

\* The value found is put in a list; an eviction that finds none is a nil pointer.
Enter(g, from, l, max) ==
    /\ Len(l.key) < MaxCells
    /\ crashed' = (Full(l, max) /\ ~ CanEvict(l))
    /\ IF crashed' THEN Go(g, from, from) ELSE Go(g, from, "idle")
    /\ UNCHANGED <<blocks, want, got, met, raced, crashes>>
TxQueueIn(g) ==
    /\ Enter(g, "promote", listTx, TxMax)
    /\ listTx' = IF crashed' THEN listTx ELSE queueIn(listTx, TxMax, want[g], got[g])
    /\ UNCHANGED listIndex
IndexQueueIn(g) ==
    /\ Enter(g, "enter", listIndex, IndexMax)
    /\ listIndex' = IF crashed' THEN listIndex ELSE queueIn(listIndex, IndexMax, want[g], got[g])
    /\ UNCHANGED listTx

Search(g, from, t, otherwise) ==
    /\ Found(g, t)
    /\ Go(g, from, IF t = Null THEN otherwise ELSE "enter")
    /\ UNCHANGED <<blocks, lists, want, met, raced, crashes, crashed>>
InTable(g) == Search(g, "search", getInTableHashChain(want[g]), "scan")
InBoltDb(g) == Search(g, "scan", getInBoltDb(want[g]), "idle")

-----------------------------------------------------------------------------
(* A block is appended, then UpdateByDataBlock runs: lists first, then the hash
   chain of the table.  Handlers of two blocks may overlap.                    *)

Looked(k) == \E g \in Getter : at[g] # "idle" /\ want[g] = k
Move(b, from, to) == ~ crashed /\ stage[b] = from /\ stage' = [stage EXCEPT ![b] = to]

Arrive(p) ==
    LET b == Len(chain) + 1
        keys == {p[i].key : i \in DOMAIN p}
        disturbed == {k \in keys : Looked(k) \/ \E c \in DOMAIN chain : Busy(c) /\ Has(c, k)}
    IN /\ b <= MaxBlocks /\ Move(b, "none", "cache")
       /\ chain' = Append(chain, p)
       /\ raced' = (raced \ keys) \cup disturbed
       /\ UNCHANGED <<bucket, lists, getters, crashes, crashed>>

Refresh(l, b) ==
    [l EXCEPT !.tx = [c \in DOMAIN l.tx |->
        IF Has(b, l.key[c]) /\ l.map[l.key[c]] = c THEN LastOf(b, l.key[c]) ELSE l.tx[c]]]

\* An update that leaves the index entries as they are.
updateDataCache_TxOnly(b) ==
    /\ Move(b, "cache", "bucket")
    /\ listTx' = Refresh(listTx, b) /\ UNCHANGED listIndex
    /\ UNCHANGED <<chain, bucket, getters, raced, crashes, crashed>>
updateDataCache(b) ==
    /\ Move(b, "cache", "bucket")
    /\ listTx' = Refresh(listTx, b) /\ listIndex' = Refresh(listIndex, b)
    /\ UNCHANGED <<chain, bucket, getters, raced, crashes, crashed>>

updateBucket(b) ==
    /\ Move(b, "bucket", "over")
    /\ bucket' = Append(bucket, b)
    /\ UNCHANGED <<chain, lists, getters, raced, crashes, crashed>>

\* The process ends and starts again: chain and bucket are files, the lists are
\* empty again, and a block that was being worked in is not taken up any more.
Restart ==
    /\ crashes < MaxCrashes /\ crashes' = crashes + 1
    /\ stage' = [b \in DOMAIN stage |-> IF Busy(b) THEN "over" ELSE stage[b]]
    /\ raced' = raced \cup UNION {KeysOf(b) : b \in {c \in DOMAIN chain : Busy(c)}}
    /\ listTx' = EmptyList /\ listIndex' = EmptyList /\ at' = Idle /\ crashed' = FALSE
    /\ got' = [g \in Getter |-> Null] /\ met' = {} /\ UNCHANGED <<chain, bucket, want>>

GetOneValue(g) ==
    \/ \E k \in Key : Call(g, k)
    \/ getInTX(g) \/ TxToTail(g) \/ getInIndex(g) \/ IndexToTail(g) \/ checkDel(g)
    \/ TxQueueIn(g) \/ IndexQueueIn(g) \/ InTable(g) \/ InBoltDb(g)
Update == (\E p \in Payload : Arrive(p))
          \/ \E b \in DOMAIN stage : updateDataCache(b) \/ updateBucket(b)

Next == (\E g \in Getter : GetOneValue(g)) \/ Update \/ Restart
Spec == Init /\ [][Next]_vars

-----------------------------------------------------------------------------
\* t is a transaction of k in the last block that has k, with the latest stamp.
Newest(t, k) ==
    LET now == getInBoltDb(k)
    IN t # Null /\ chain[t[1]][t[2]].key = k /\ t[1] = now[1] /\ StampOf(t) = StampOf(now)

Calm(k) == k \notin raced /\ \A b \in DOMAIN chain : Has(b, k) => ~ Busy(b)

\* Each level of GetOneValue has the newest value of a key or none, and what a
\* look-up has in hand is the newest, unless a look-up of the key overlapped the
\* work on a block with the key, two such blocks overlapped, or the process
\* ended in that work; the next undisturbed block makes up for it.
Fresh ==
    \A k \in Key : Calm(k) =>
        /\ \A l \in {listTx, listIndex} : l.map[k] # Nil => Newest(l.tx[l.map[k]], k)
        /\ getInBoltDb(k) # Null => Newest(getInTableHashChain(k), k)
        /\ \A g \in Getter : at[g] # "idle" /\ want[g] = k /\ got[g] # Null => Newest(got[g], k)

\* Whatever overlaps, a look-up returns a value that was once written for its key.
Genuine ==
    /\ \A g \in Getter : got[g] # Null => chain[got[g][1]][got[g][2]].key = want[g]
    /\ \A l \in {listTx, listIndex} : \A c \in DOMAIN l.key : chain[l.tx[c][1]][l.tx[c][2]].key = l.key[c]

\* toTail and checkDel meet a nil only when their look-up overlapped another one: without, what it
\* has found is still there.  queueIn meets one in the index only, when that holds more than it
\* should and has no first cell; the list of transactions always has one, whatever overlaps.
AloneSafe ==
    crashed => \E g \in Getter : \/ at[g] \in {"txTail", "indexTail", "check"} /\ g \in met
                                 \/ at[g] = "enter"
=============================================================================
