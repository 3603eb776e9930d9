----------------------------- MODULE TableIndex -----------------------------
(* What a node keeps of its shared tables (cache/table-chain.go): the permissions
   in memory, read again from the table chain at a start, and for each table a
   bucket in the database with the hashes of the data blocks that touch it.

   A block is first appended to its chain (a file) and then worked into the
   permissions and the buckets, by the handler that received it or by the pool
   that made it; several may be at it at once, and a crash may come in between.

   A transaction of the table chain grants levels to accounts: level 0 stands for
   an account that the transaction does not name, and for the answer "-1".       *)
EXTENDS Integers, Sequences, FiniteSets

CONSTANTS Table, Account, Key,
          Level,       \* 0 and the levels in use
          Stamp,       \* time stamps, in seconds
          MaxTableBlocks, MaxDataBlocks, MaxInBlock, MaxRestarts  \* bounds

ASSUME IndexAssumption ==
    /\ Level \subseteq Nat /\ 0 \in Level /\ Stamp \subseteq Nat
    /\ MaxTableBlocks \in Nat /\ MaxDataBlocks \in Nat
    /\ MaxInBlock \in Nat /\ MaxRestarts \in Nat

VARIABLES tableChain,  \* the transactions of the table chain, one per block
          dataChain,   \* the data blocks: sequences of transactions
          known, perm, \* the keys of tableInfo.tables, and its levels
          bucket,      \* bucket[t]: numbers of data blocks, or NoBucket
          toDo,        \* blocks not worked in yet: <<chain, number, transaction>>
          torn,        \* tables with a block that a crash left half worked in
          crossed,     \* tables with two blocks that were at it together
          down,        \* the process has ended itself
          restarts

index == <<known, perm, bucket>>
chains == <<tableChain, dataChain>>
indexVars == <<chains, index, toDo, torn, crossed, down, restarts>>

NoBucket == <<0>>
Grants == [Account -> Level]
\* by and seen: who submitted it, and which table blocks the front end that
\* checked the permission had worked in (neither is in the code's transaction).
TableTx == [table : Table, grants : Grants, by : Account, seen : SUBSET (1 .. MaxTableBlocks)]
DataTx == [table : Table, key : Key, stamp : Stamp, by : Account, seen : SUBSET (1 .. MaxTableBlocks)]
Nobody == [a \in Account |-> 0]

TypeOK ==
    /\ tableChain \in Seq(TableTx) /\ Len(tableChain) <= MaxTableBlocks
    /\ dataChain \in Seq(Seq(DataTx)) /\ Len(dataChain) <= MaxDataBlocks
    /\ \A b \in DOMAIN dataChain : Len(dataChain[b]) <= MaxInBlock
    /\ known \subseteq Table /\ perm \in [Table -> Grants]
    /\ bucket \in [Table -> {NoBucket} \cup Seq(DOMAIN dataChain)]
    /\ toDo \subseteq ({"table"} \X (DOMAIN tableChain) \X {1}) \cup
                      ({"data"} \X (DOMAIN dataChain) \X (1 .. MaxInBlock))
    /\ \A w \in toDo : w[1] = "data" => w[3] \in DOMAIN dataChain[w[2]]
    /\ torn \subseteq Table /\ crossed \subseteq Table /\ down \in BOOLEAN /\ restarts \in 0 .. MaxRestarts

InitIndex ==
    /\ tableChain = <<>> /\ dataChain = <<>>
    /\ known = {} /\ perm = [t \in Table |-> Nobody] /\ bucket = [t \in Table |-> NoBucket]
    /\ toDo = {} /\ torn = {} /\ crossed = {} /\ down = FALSE /\ restarts = 0

-----------------------------------------------------------------------------
\* The numbers of the blocks of t in a table chain c.
OfIn(c, t) == {i \in DOMAIN c : c[i].table = t}
Of(t) == OfIn(tableChain, t)
Merge_Replace(old, new) == new
Merge(old, new) == [a \in Account |-> IF new[a] = 0 THEN old[a] ELSE new[a]]

\* What the table blocks S make of t when each is merged into the levels in turn.
MergedIn(c, t, S) ==
    [a \in Account |->
        LET naming == {i \in OfIn(c, t) \cap S : c[i].grants[a] # 0}
        IN IF naming = {} THEN 0
           ELSE c[CHOOSE i \in naming : \A j \in naming : j <= i].grants[a]]
Merged(t, S) == MergedIn(tableChain, t, S)
Newest(t) ==
    IF Of(t) = {} THEN Nobody
    ELSE tableChain[CHOOSE i \in Of(t) : \A j \in Of(t) : j <= i].grants

\* checkPermission: an error for a table that is not known.
Permission(a, t) == perm[t][a]
NoSuchTable(t) == t \notin known

\* The table of the transaction that is worked in next, and the tables that the
\* rest of the block touches; the work that is at t or still comes to it.
TableOf(w) == IF w[1] = "table" THEN tableChain[w[2]].table ELSE dataChain[w[2]][w[3]].table
Ahead(w) ==
    IF w[1] = "table" THEN {TableOf(w)}
    ELSE {dataChain[w[2]][i].table : i \in {j \in DOMAIN dataChain[w[2]] : j >= w[3]}}
Pending(t) == {w \in toDo : t \in Ahead(w)}

\* AddBlockToChain, in a handler or in the pool.  A second block of a table that
\* is being worked in may be worked in first.
AppendTable(tx) ==
    /\ ~ down /\ Len(tableChain) < MaxTableBlocks
    /\ tableChain' = Append(tableChain, tx)
    /\ toDo' = toDo \cup {<<"table", Len(tableChain'), 1>>}
    /\ crossed' = crossed \cup {t \in {tx.table} : Pending(t) # {}}
    /\ UNCHANGED <<dataChain, index, torn, down, restarts>>
AppendData(txs) ==
    /\ ~ down /\ Len(dataChain) < MaxDataBlocks
    /\ dataChain' = Append(dataChain, txs)
    /\ toDo' = toDo \cup {<<"data", Len(dataChain'), 1>>}
    /\ crossed' = crossed \cup {t \in {txs[i].table : i \in DOMAIN txs} : Pending(t) # {}}
    /\ UNCHANGED <<tableChain, index, torn, down, restarts>>

IsNew_Always(t) == TRUE
IsNew(t) == t \notin known

\* upDateByTables: a new table gets its bucket; one that is in the database
\* already is a panic.
upDateByTables(w) ==
    LET tx == tableChain[w[2]]
    IN /\ ~ down /\ w \in toDo /\ w[1] = "table"
       /\ IF IsNew(tx.table) /\ bucket[tx.table] # NoBucket
          THEN down' = TRUE /\ UNCHANGED <<index, toDo>>
          ELSE /\ toDo' = toDo \ {w}
               /\ known' = known \cup {tx.table}
               /\ bucket' = IF IsNew(tx.table) THEN [bucket EXCEPT ![tx.table] = <<>>] ELSE bucket
               /\ perm' = [perm EXCEPT ![tx.table] = Merge(@, tx.grants)]
               /\ UNCHANGED down
       /\ UNCHANGED <<chains, torn, crossed, restarts>>

\* The hash of a block is put at the end of the chain of the table, unless it is
\* the last one there.
Extended(s, b) == IF s # <<>> /\ s[Len(s)] = b THEN s ELSE Append(s, b)

\* The transaction behind this one in its block.
Following_PastEnd(w, txs) == {<<"data", w[2], w[3] + 1>>}
Following(w, txs) == {<<"data", w[2], i>> : i \in {w[3] + 1} \cap DOMAIN txs}

\* updateBucket, for one transaction of the block after the other; no bucket is
\* the end of the process.
updateBucket(w) ==
    LET txs == dataChain[w[2]]
        t == txs[w[3]].table
    IN /\ ~ down /\ w \in toDo /\ w[1] = "data"
       /\ IF bucket[t] = NoBucket
          THEN down' = TRUE /\ UNCHANGED <<index, toDo>>
          ELSE /\ bucket' = [bucket EXCEPT ![t] = Extended(@, w[2])]
               /\ toDo' = (toDo \ {w}) \cup Following(w, txs)
               /\ UNCHANGED <<known, perm, down>>
       /\ UNCHANGED <<chains, torn, crossed, restarts>>

\* The tables of the work that a crash drops.
Dropped == {t \in Table : Pending(t) # {}}

\* tableInfo.init goes back from the last table block and takes the first
\* transaction it meets of each table; no bucket is made or completed.
Reload ==
    /\ known' = {t \in Table : Of(t) # {}}
    /\ perm' = [t \in Table |-> Newest(t)]
    /\ UNCHANGED <<bucket, chains>>
RestartIndex ==
    /\ restarts < MaxRestarts /\ restarts' = restarts + 1
    /\ Reload
    /\ toDo' = {} /\ torn' = torn \cup Dropped /\ down' = FALSE
    /\ UNCHANGED crossed

Arriving == \E w \in toDo : upDateByTables(w) \/ updateBucket(w)

-----------------------------------------------------------------------------
(* What is read of a table: the data blocks in its bucket, from the newest back.  *)

Listed(t) == {bucket[t][i] : i \in DOMAIN bucket[t]}

\* The transactions of a block that have one of the data ids (table and key).
Matching(txs, ids) ==
    LET found[i \in 0 .. Len(txs)] ==
            IF i = 0 THEN <<>>
            ELSE IF <<txs[i].table, txs[i].key>> \in ids THEN Append(found[i - 1], txs[i]) ELSE found[i - 1]
    IN found[Len(txs)]
RowsOf(b, t, k) == Matching(dataChain[b], {<<t, k>>})

\* What is collected of each block, from the last one back.
Collected(rows) ==
    LET back[i \in 0 .. Len(rows)] == IF i = 0 THEN <<>> ELSE rows[i] \o back[i - 1]
    IN back[Len(rows)]

\* getHistoryInTableHashChain.
getHistory_FirstBlock(t, k) == IF bucket[t] = <<>> THEN <<>> ELSE RowsOf(bucket[t][Len(bucket[t])], t, k)
getHistory(t, k) == Collected([i \in DOMAIN bucket[t] |-> RowsOf(bucket[t][i], t, k)])

\* getTableData: of every key in these blocks, whatever the table, the row with the
\* newest stamp; of several the one that is met first.
Kept_FirstMet(rows, i) == i = 1
Kept(rows, i) ==
    \A j \in DOMAIN rows : rows[j].stamp <= rows[i].stamp /\ (j < i => rows[j].stamp < rows[i].stamp)
getTableData(t, k) ==
    LET rows == Collected([i \in DOMAIN bucket[t] |-> Matching(dataChain[bucket[t][i]], Table \X {k})])
    IN {rows[i] : i \in {l \in DOMAIN rows : Kept(rows, l)}}
Blocks(t) == {b \in DOMAIN dataChain : \E i \in DOMAIN dataChain[b] : dataChain[b][i].table = t}
InTurn(t) == t \notin crossed /\ t \notin Dropped

\* A table whose blocks were all worked in, one after the other, has exactly the
\* data blocks of the chain that touch it in its bucket, each once and in order
\* (upDateByData, whatever restarts there were in between).
HashChainComplete ==
    \A t \in known \ torn : InTurn(t) =>
        /\ bucket[t] # NoBucket
        /\ Listed(t) = Blocks(t)
        /\ \A i, j \in DOMAIN bucket[t] : i < j => bucket[t][i] < bucket[t][j]

\* The history of a key in such a table is what the data chain holds of it, all of it
\* and nothing twice; and if the key is used in no other table, the row of the table
\* is one of them that no other has a later stamp than, and of those with its stamp
\* the oldest in the newest block (getTableData does not look at the table of a row).
ChainOf(t, k) == Collected([b \in DOMAIN dataChain |-> RowsOf(b, t, k)])
IsLatest(all, rows) ==
    \E i \in DOMAIN all :
        /\ rows = {all[i]}
        /\ \A j \in DOMAIN all : all[j].stamp <= all[i].stamp /\ (all[j].stamp = all[i].stamp => i <= j)
HistoryComplete ==
    \A t \in known \ torn : InTurn(t) =>
        \A k \in Key :
            /\ getHistory(t, k) = ChainOf(t, k)
            /\ (\A u \in Table \ {t}, b \in Listed(t) : RowsOf(b, u, k) = <<>>) =>
                  IF ChainOf(t, k) = <<>> THEN getTableData(t, k) = {}
                  ELSE IsLatest(ChainOf(t, k), getTableData(t, k))

\* Both: what updateBucket has listed, and what the readers make of it.
IndexComplete == HashChainComplete /\ HistoryComplete

\* Levels come from the table chain: what the newest transaction of a table grants
\* is in force, and an account it does not name has what earlier ones granted, or
\* nothing if the node was started again (upDateByTables merges, init replaces).
PermissionsOfChain ==
    \A t \in Table : InTurn(t) =>
        \A a \in Account :
            /\ Newest(t)[a] # 0 => perm[t][a] = Newest(t)[a]
            /\ perm[t][a] \in {Merged(t, DOMAIN tableChain)[a], 0}
            /\ restarts = 0 => perm[t][a] = Merged(t, DOMAIN tableChain)[a]

\* The process ends itself only over a table whose first block was cut off by a crash
\* before its bucket was made, or which a data block names before a block of its own
\* was worked in (createBucket, updateBucket).
EndExplained ==
    down => \/ \E t \in torn : bucket[t] = NoBucket
            \/ \E w \in toDo : w[1] = "data" /\ TableOf(w) \notin known
=============================================================================
