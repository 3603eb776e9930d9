----------------------------- MODULE TxPoolData -----------------------------
(* The pool of data transactions of one node (txpool/txpool_data.go): the
   goroutine that packs them into blocks (bookKeeperRun), the RPC handlers that
   put transactions in (TxIn) and that receive the blocks of other nodes
   (GRPC/service.go DistributeDataBlock), and set-pkg_num.

   bookKeeperRun and the pool's handlers exclude each other with the pool's
   lock, which bookKeeperRun holds from its first line to its last, the whole of
   ProcessMain included: the lock is taken when pc is not "wait".  SubUser,
   IsDone, the chain and packNumber are shared without that lock.

   Cells (txNode) are numbered in the order they are made; 0 stands for nil, and
   for the zero transaction of the tail sentinel.  The outcome of the agreement
   (module BAStar) is a choice of the environment.                             *)
EXTENDS Integers, Sequences, FiniteSets

CONSTANTS Tx, Stamp,          \* transactions, and TimeStamp[t]
          External, Payload,  \* blocks of other nodes, and the set of their transactions
          PackNumbers,        \* the arguments of set-pkg_num, the initial 1 included
          Selections,         \* what the sortition of a proposer may select
          MaxSize,            \* txQueue.maxSize
          MaxCells, MaxClock  \* bounds: transactions put in; the clock

ASSUME PoolAssumption ==
    /\ Stamp \in [Tx -> Nat] /\ Payload \in [External -> SUBSET Tx]
    /\ \A b \in External : IsFiniteSet(Payload[b])
    /\ PackNumbers \subseteq Nat \ {0} /\ 1 \in PackNumbers
    /\ Selections \subseteq Nat
    /\ MaxSize \in Nat /\ MaxCells \in Nat /\ MaxClock \in Nat

VARIABLES list,        \* the cells between the sentinels head and tail
          tx,          \* tx[c]: the transaction of cell c
          txMap,       \* txMap[t]: the cell of t, or 0
          curSize, count, packNumber,
          pc,          \* where bookKeeperRun is; "wait": not running, lock free
          batch,       \* txs: the cells that are being proposed
          past,        \* p: how many cells of list are before it
          isDone, subUser,  \* util.IsDone, util.SubUser
          chain,       \* the data blocks appended since the start
          stage,       \* stage[b]: where the handler that received b is
          clock,       \* time.Now().Unix()
          crashed      \* a nil pointer was dereferenced

queue == <<list, tx, txMap, curSize>>
run == <<count, pc, batch, past>>
flags == <<isDone, subUser, packNumber>>
vars == <<queue, run, flags, chain, stage, clock, crashed>>

Cell == 1 .. MaxCells
Block == [cells : Seq(Cell \cup {0}), txs : SUBSET Tx]

TypeOK ==
    /\ list \in Seq(Cell) /\ tx \in Seq(Tx) /\ Len(tx) <= MaxCells
    /\ txMap \in [Tx -> Cell \cup {0}] /\ curSize \in Int /\ curSize <= MaxSize
    /\ count \in Nat /\ packNumber \in PackNumbers
    /\ pc \in {"wait", "loop", "select", "main", "spin"}
    /\ batch \in Seq(Cell \cup {0}) /\ past \in Nat
    /\ isDone \in BOOLEAN /\ subUser \in Selections \cup {0}
    /\ chain \in Seq(Block)
    /\ stage \in [External -> {"none", "won", "check", "lock", "finish", "over"}]
    /\ clock \in 0 .. MaxClock /\ crashed \in BOOLEAN

Init ==
    /\ list = <<>> /\ tx = <<>> /\ txMap = [t \in Tx |-> 0] /\ curSize = 0
    /\ count = 0 /\ packNumber = 1
    /\ pc = "wait" /\ batch = <<>> /\ past = 0
    /\ isDone = TRUE /\ subUser = 0
    /\ chain = <<>>
    /\ stage = [b \in External |-> "none"]
    /\ clock = 0 /\ crashed = FALSE

-----------------------------------------------------------------------------
(* An operator with an underscore in its name is a mutant: the definition that
   follows it, with a bug the properties below must catch.                     *)

Members(s) == {s[i] : i \in DOMAIN s}
StampAt(i) == Stamp[tx[list[i]]]
Drop(s, k) == SubSeq(s, k + 1, Len(s))

\* How many cells stay before a new cell of t: the search goes backwards from the
\* tail to the first transaction that is not later.
Place(t) ==
    CHOOSE k \in 0 .. Len(list) :
        /\ k = 0 \/ StampAt(k) <= Stamp[t]
        /\ \A i \in k + 1 .. Len(list) : StampAt(i) > Stamp[t]

\* A cell for t is linked into the list; txMap knows the last cell of t only.
in(t) ==
    /\ tx' = Append(tx, t)
    /\ list' = SubSeq(list, 1, Place(t)) \o <<Len(tx')>> \o Drop(list, Place(t))
    /\ txMap' = [txMap EXCEPT ![t] = Len(tx')]
    /\ curSize' = curSize + 1

\* A transaction comes in: refused when the pool is FULL.
TxIn(t) ==
    /\ pc = "wait" /\ ~ crashed
    /\ curSize # MaxSize /\ Len(tx) < MaxCells
    /\ in(t)
    /\ UNCHANGED <<run, flags, chain, stage, clock, crashed>>

\* set-pkg_num takes the lock of TxPool, which bookKeeperRun does not hold.
SetPackNumber(k) ==
    /\ ~ crashed /\ k # packNumber /\ packNumber' = k
    /\ UNCHANGED <<queue, run, isDone, subUser, chain, stage, clock, crashed>>

Tick ==
    /\ ~ crashed /\ clock < MaxClock /\ clock' = clock + 1
    /\ UNCHANGED <<queue, run, flags, chain, stage, crashed>>

-----------------------------------------------------------------------------
Goto(from, to) == ~ crashed /\ pc = from /\ pc' = to

\* Older than tspStand, two seconds before now.
Old(c) == Stamp[tx[c]] < clock - 2

\* bookKeeperRun starts and counts the old transactions from the head.
Scan ==
    /\ Goto("wait", "loop")
    /\ isDone' = FALSE
    /\ count' = Cardinality({i \in DOMAIN list : \A j \in 1 .. i : Old(list[j])})
    /\ UNCHANGED <<queue, batch, past, subUser, packNumber, chain, stage, clock, crashed>>

Enough == Goto("loop", "select") /\ count >= packNumber
          /\ UNCHANGED <<queue, count, batch, past, flags, chain, stage, clock, crashed>>
TooFew == Goto("loop", "wait") /\ count < packNumber
          /\ UNCHANGED <<queue, count, batch, past, flags, chain, stage, clock, crashed>>

\* Not selected: the loop starts again at once.
NotSelected ==
    /\ Goto("select", "loop")
    /\ 0 \in Selections /\ subUser' = 0
    /\ UNCHANGED <<queue, count, batch, past, isDone, packNumber, chain, stage, clock, crashed>>

\* The batch and the end of the loop that builds it, k transactions long: the
\* sentinel behind the last cell gives one more, and then a nil pointer.
Batch(k) == [i \in 1 .. k |-> IF i <= Len(list) THEN list[i] ELSE 0]
Named(cells) == {tx[c] : c \in Members(cells) \ {0}}

\* Selected: the batch leaves txMap and curSize but not yet the list.
Pack ==
    /\ pc = "select" /\ ~ crashed
    /\ subUser' \in Selections \ {0}
    /\ IF packNumber > Len(list) + 1
       THEN crashed' = TRUE /\ UNCHANGED <<pc, queue, batch, past>>
       ELSE /\ pc' = "main"
            /\ batch' = Batch(packNumber) /\ past' = packNumber
            /\ txMap' = [t \in Tx |-> IF t \in Named(batch') THEN 0 ELSE txMap[t]]
            /\ curSize' = curSize - packNumber
            /\ UNCHANGED <<list, tx, crashed>>
    /\ UNCHANGED <<count, isDone, packNumber, chain, stage, clock>>

\* Unlinking one cell too many, or without count -= packNumber.
Unlink_OneMore ==
    /\ list' = Drop(list, past + 1) /\ past' = 0
    /\ count' = IF count > packNumber THEN count - packNumber ELSE 0
    /\ crashed' = (past > Len(list))
Unlink_KeepCount ==
    /\ list' = Drop(list, past) /\ past' = 0
    /\ crashed' = (past > Len(list)) /\ UNCHANGED count

\* head.next = p, and count -= packNumber: below 1 all counts are alike, as no
\* packNumber is.
Unlink ==
    /\ list' = Drop(list, past) /\ past' = 0
    /\ count' = IF count > packNumber THEN count - packNumber ELSE 0
    /\ crashed' = (past > Len(list))

Mine == [cells |-> batch, txs |-> Named(batch)]

\* The block is appended and the batch stays in the list.
OwnBlock_KeepList ==
    /\ Goto("main", "loop") /\ UNCHANGED <<list, past, crashed>>
    /\ count' = IF count > packNumber THEN count - packNumber ELSE 0
    /\ chain' = Append(chain, Mine) /\ batch' = <<>>
    /\ UNCHANGED <<tx, txMap, curSize, flags, stage, clock>>

\* The agreement returned the node's own block.
OwnBlock ==
    /\ Goto("main", "loop") /\ Unlink
    /\ chain' = Append(chain, Mine) /\ batch' = <<>>
    /\ UNCHANGED <<tx, txMap, curSize, flags, stage, clock>>

\* The agreement returned a block that another node is going to distribute, or
\* one nobody will distribute: an empty one, or one that is here already.
Lose == Goto("main", "spin")
        /\ UNCHANGED <<queue, count, batch, past, flags, chain, clock, crashed>>
OtherWins == Lose /\ \E b \in External : stage[b] = "none" /\ stage' = [stage EXCEPT ![b] = "won"]
NobodyWins == Lose /\ UNCHANGED stage

\* The loop that waits for IsDone, and unlinks the batch in each turn.
Spin ==
    /\ Goto("spin", "spin") /\ ~ isDone /\ (past > 0 \/ count > 0) /\ Unlink
    /\ UNCHANGED <<tx, txMap, curSize, batch, flags, chain, stage, clock>>
SpinDone ==
    /\ Goto("spin", "loop") /\ isDone
    /\ batch' = <<>> /\ past' = 0
    /\ UNCHANGED <<queue, count, flags, chain, stage, clock, crashed>>

-----------------------------------------------------------------------------
Stage(b, from, to) == ~ crashed /\ stage[b] = from /\ stage' = [stage EXCEPT ![b] = to]

\* DistributeDataBlock appends the block, whatever CheckDataBlock says.
Arrive(b) ==
    /\ Stage(b, "none", "check") \/ Stage(b, "won", "check")
    /\ chain' = Append(chain, [cells |-> <<>>, txs |-> Payload[b]])
    /\ UNCHANGED <<queue, run, flags, clock, crashed>>

\* Only who is not a proposer updates its pool.
CheckSub(b) ==
    /\ Stage(b, "check", IF subUser = 0 THEN "lock" ELSE "finish")
    /\ UNCHANGED <<queue, run, flags, chain, clock, crashed>>

\* The list without the cells C.
Without(C) ==
    LET left[i \in 0 .. Len(list)] ==
            IF i = 0 THEN <<>>
            ELSE IF list[i] \in C THEN left[i - 1] ELSE Append(left[i - 1], list[i])
    IN left[Len(list)]

\* The cells of the transactions T are unlinked; one that txMap does not have is
\* a nil pointer.
out(T) ==
    IF \E t \in T : txMap[t] = 0
    THEN crashed' = TRUE /\ UNCHANGED queue
    ELSE /\ list' = Without({txMap[t] : t \in T})
         /\ txMap' = [t \in Tx |-> IF t \in T THEN 0 ELSE txMap[t]]
         /\ curSize' = curSize - Cardinality(T)
         /\ UNCHANGED <<tx, crashed>>

\* OrdinaryRun without the lock.
OrdinaryRun_Unlocked(b) ==
    /\ Stage(b, "lock", "finish")
    /\ out(Payload[b])
    /\ UNCHANGED <<run, flags, chain, clock>>

\* OrdinaryRun: the transactions of the block go out of the pool.
OrdinaryRun(b) ==
    /\ pc = "wait" /\ Stage(b, "lock", "finish")
    /\ out(Payload[b])
    /\ UNCHANGED <<run, flags, chain, clock>>

\* A handler that does not set IsDone.
Done_KeepFlag(b) ==
    /\ Stage(b, "finish", "over")
    /\ UNCHANGED <<queue, run, flags, chain, clock, crashed>>

\* The end of DistributeDataBlock.
Done(b) ==
    /\ Stage(b, "finish", "over") /\ isDone' = TRUE
    /\ UNCHANGED <<queue, run, subUser, packNumber, chain, clock, crashed>>

-----------------------------------------------------------------------------
Keeper == Scan \/ Enough \/ TooFew \/ NotSelected \/ Pack
          \/ OwnBlock \/ OtherWins \/ Spin \/ SpinDone
Handler(b) == Arrive(b) \/ CheckSub(b) \/ OrdinaryRun(b) \/ Done(b)
Rest == Tick \/ (\E t \in Tx : TxIn(t)) \/ \E b \in External : Handler(b)
Setting == \E k \in PackNumbers : SetPackNumber(k)

Next == Keeper \/ NobodyWins \/ Rest \/ Setting

\* set-pkg_num comes only between two runs of bookKeeperRun.
CalmNext == Keeper \/ NobodyWins \/ Rest \/ (pc = "wait" /\ Setting)
CalmSpec == Init /\ [][CalmNext]_vars

\* The scheduler runs every goroutine, the agreement ends, and a handler that
\* waits for the lock gets it when it is free again and again (sync.Mutex).
HandlersRun == \A b \in External : SF_vars(Handler(b))
Spec == Init /\ [][Next]_vars /\ WF_vars(Keeper \/ NobodyWins) /\ HandlersRun

\* Every agreement this node loses is won by a block that is on its way.
GoodSpec == Init /\ [][Keeper \/ Rest \/ Setting]_vars /\ WF_vars(Keeper) /\ HandlersRun

-----------------------------------------------------------------------------
\* The list is in the order of the time stamps, and no cell is in it twice.
Sorted == \A i, j \in DOMAIN list : i < j => StampAt(i) <= StampAt(j) /\ list[i] # list[j]

\* What txMap has is in the list, so out() always unlinks a cell that is linked
\* (txpool_data.go out, bookKeeperRun's delete).
MapInList == \A t \in Tx : txMap[t] # 0 => txMap[t] \in Members(list) /\ tx[txMap[t]] = t

\* While the agreement runs the batch is still the head of the list, and what
\* is in a block of this node is not in the list any more.
BatchIsHead == pc \in {"main", "spin"} /\ past > 0 => past = Len(batch) /\ batch = Batch(past)
ChainLeft ==
    \A i \in DOMAIN chain : Members(chain[i].cells) \cap (Members(list) \cup {Len(tx) + 1}) = {}

\* The cells counted are old; there is nothing to pack behind the last of them.
CountedAreOld ==
    pc # "wait" => /\ past <= count /\ count <= Len(list)
                   /\ \A i \in 1 .. count : Old(list[i])

\* The pool never counts more transactions than it holds, so it is never FULL
\* while it has room (TxIn), although a batch that is proposed twice is
\* subtracted from curSize twice (bookKeeperRun).
NeverOverstates == curSize + past <= Len(list)

\* bookKeeperRun's promise for its delay of two seconds: what is proposed is old,
\* whatever agreements were lost before.
PackedAreOld == pc = "main" => \A c \in Members(batch) : c # 0 /\ Old(c)

\* What holds between any two steps while set-pkg_num keeps out of the runs.
IInv == TypeOK /\ Sorted /\ MapInList /\ BatchIsHead /\ ChainLeft /\ CountedAreOld /\ NeverOverstates

\* No transaction cell is in two blocks of this node or twice in one, although
\* a batch can be proposed again and again (bookKeeperRun's loop).
OwnOnce ==
    \A i, j \in DOMAIN chain :
        \A k \in DOMAIN chain[i].cells, l \in DOMAIN chain[j].cells :
            chain[i].cells[k] = chain[j].cells[l] => i = j /\ k = l

\* A transaction leaves the list only because it is in the chain, or because it
\* was in the batch when another node's block won (bookKeeperRun, OrdinaryRun).
LeavesIntoChain ==
    [][pc # "spin" => \A c \in Members(list) \ Members(list') :
                          \E i \in DOMAIN chain' : tx[c] \in chain'[i].txs]_vars

\* "The pool checks the state of the local node periodically" (txpool.go:15): the
\* goroutine of the pool comes back to its ticker again and again.
PeriodicCheck == []<>(pc = "wait" \/ crashed)

\* Every block that arrives is worked off, or the process has ended.
HandlerReturns == \A b \in External : stage[b] = "check" ~> (stage[b] = "over" \/ crashed)
=============================================================================
