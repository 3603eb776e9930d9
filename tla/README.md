# alg_bcDB in TLA+

alg_bcDB is a replicated, permissioned key-value store kept in two blockchains: a
chain of *data* blocks and a chain of *table* blocks (table creation and
permissions). A node accepts transactions into pools, packs them into blocks,
agrees on a data block with BA\* (package `algorand`), elects a bookkeeper with a
small Raft (package `Raft`), and hands finished blocks to every other node over
gRPC. This directory holds TLA+ modules of its concurrent and distributed parts,
TLC configurations that check them on small instances, and TLAPS proofs for every
value of the constants.

```
tlc -workers 2 -config BAPair.cfg MCBAStar.tla       # a run: see "Runs"
tlapm RaftProofs.tla                                 # a proof module
```

`PROJECT.json` says, definition by definition, which lines of `src/` a module
stands for, which mutant (a plausible bug) each property catches, and which hazard
of the code each property is aimed at.

## 1. Inventory

The repository has no documentation and no test beyond a load generator
(`test/test.go`); the comments in the code (Chinese, quoted here in translation)
are the only statement of what it should do. About 7000 lines are written by hand,
3600 are generated protobuf code. Each node is one process; everything named
`Local...` is a package-level variable that handlers, timers and the command line
share.

| Part | Source | State | Operations | Modelled |
|---|---|---|---|---|
| BA\* agreement | `algorand/`, `util/parameter.go`, `util/binomial.go` | per round: step, local hashes, `incomingVotes` boxes, proposals, block cache | `ProcessMain`: proposal, reduction, binaryBA, FINAL count; `Gossip`, `Handle` | **BAStar**, **BASync** (one round) |
| Bookkeeper election | `Raft/` | role, `votedFor`, `currentLeader`, vote count, heartbeat clock | campaign, `Vote`, `ConfirmationLeader`, heartbeats, time-outs, `SetAccount` | **Raft** |
| Block queue and distributors | `blockqueue/`, `GRPC/util.go` 300-370 | linked list, size | `Put`, `Get`, the broadcast to all peers | **BlockQueue**, **FifoQueue** |
| Data pool | `txpool/txpool_data.go`, `txpool.go` | sorted list, `txMap`, `curSize`, `count`, `packNumber`; flags `SubUser`, `IsDone` | `TxIn`, `bookKeeperRun`, `OrdinaryRun`, `SetPackNumber` | **TxPoolData** |
| Table pool | `txpool/txpool_table.go` | as the data pool, one transaction per block | the same without the agreement; `SetMod` | **TableNet** |
| Data ledger | `blockchain/blockchain_data/` | bolt file, `TailHash`, `LastID` | `AddBlockToChain`, `CheckDataBlock`, `GetByRound`, iterator | **DataLedger** (the file as a set of blocks; signatures always hold) |
| Table ledger | `blockchain/blockchain_table/` | the same | the same | **TableNet** |
| Cache | `cache/` | two LRU lists, table index in bolt, permissions in memory | look-up in four levels, `UpdateByDataBlock`, `UpdateByTableBlock`, permissions | **Cache** (lists, one table), **TableIndex** (index and permissions, many tables) |
| Joining and synchronisation | `GRPC/service.go`, `GRPC/util.go` | none of its own | `JoinCluster`, `BroadcastNode`, `DataBlockSynchronization`, `TableBlockSynchronization` | **Membership**, **Cluster**, **DataLedger**, **TableNet** |
| Cluster file | `Cluster/` | list of nodes with a bookkeeper flag, file | load, save, add a node, periodic `UpdateClusterFile`, file transfer | **Cluster**; the flags in **Raft** |
| User management | `userManage/` | signed-in accounts, key files | `Register`, `SignIn`, `SignOut` | **FrontEnd** |
| Merkle tree | `MerkleTree/` | none | root, proof | **Merkle** (the root; nothing calls `GetProve`) |
| Front ends | `server/`, `serverExec/`, `client/`, `main.go` | sessions, requests | execute the commands of a request: permission, transaction, look-up | **FrontEnd** (the commands that change or depend on state) |
| Cryptography, conversions, generated code | `util/`, `common/`, `Proto/`, `*.pb.go` | none | hashing, keys, VRF, marshalling | no: data without control |

### How they interact

* `main` starts the Raft goroutines, the pool ticker, the RPC server and the
  command line. `server/cmd.go:47-49` starts two more distributors *each time it
  waits for a command line*.
* The pool goroutine (`TxPool.run`, a ticker) runs `bookKeeperRun` with the pool's
  lock held. If enough old transactions wait, it draws a sortition; a proposer
  builds a block from the head of the list and runs the whole agreement
  (`ProcessMain`) inside the lock. If the block agreed on is its own, it appends it,
  updates the cache, puts it in the block queue and unlinks the batch; else it
  spins on `util.IsDone`.
* A distributor takes a block out of the queue and calls `DistributeDataBlock` on
  every other node, one after the other; an error ends the process.
* `DistributeDataBlock` (the handler at the receiver) appends the block, takes its
  transactions out of the pool *unless* the node drew a positive sortition last
  time (`util.SubUser`), updates the cache, and sets `IsDone`.
* Raft decides `util.LocalIsAccount`, which `SetAccount` copies into the pool
  twice a second; it governs the table pool. No term is exchanged and nothing is
  persisted except the bookkeeper flags of the cluster file.

### What is hard, and what must hold

* **BA\***: delays decide which votes a count sees; a count looks once, after a
  sleep. A node does not receive its own votes. A block that arrives in the middle
  changes the tail against which votes are compared. Correct means: final results
  agree; a single proposal given to all is the only block that can come out; in the
  good case everybody adopts the best proposal and the round ends.
* **Raft**: several campaign goroutines of one node share fields that are locked
  one assignment at a time; answers of an old broadcast reach a newer election;
  restarts forget votes. Correct means: one bookkeeper; counts backed by votes; no
  node stuck as a candidate.
* **Queue**: `Get` reads the head before it locks; the consumer asserts that what
  it gets is a block. Correct means: FIFO, no loss, no duplicate, every peer sees
  the same sequence.
* **Data pool**: an agreement that can be won, lost, or repeated in one run, with
  handlers waiting for the lock. Correct means: what is packed is old enough; a
  transaction is packed once and leaves the pool only into the chain; the pool
  returns to its ticker and the handlers return.
* **Table blocks**: one bookkeeper at a time packs; a block may overtake its transaction,
  a bookkeeper may be set while blocks of the last one are under way. Correct means: no
  transaction in two blocks, no hole in a chain, one tail when all is quiet.
* **Data ledger**: a proposal reads the tail several times and holds no lock that a handler
  takes; a receiver appends whatever comes. Correct means: one line of blocks with rounds
  that count up; `GetByRound` finds what a seed needs.
* **Joining**: a joiner is in the list of its contact, and of nobody else, before it asks for the
  chains, so blocks of the contact come before or in the middle of the answer, and those of others not at
  all. Correct means: whoever was sent every block has the same line, and a hole has a reason.
* **Cache**: list surgery without the lock; a look-up carries a value from one level to
  another while a block brings a newer one; a crash between append and update. Correct
  means: a look-up returns the newest value, or the overlap that spoiled it has a name.
* **Index and permissions**: two handlers may work blocks in in another order than they
  were appended; permissions are checked when the command comes. Correct means: index and
  levels say what the chains say, and only who had the level has altered a table.
* **Cluster file**: joins, broadcasts and a periodic save share a pointer and a file without
  a lock. Correct means: members stay members, and only who has the key becomes one.

The hazards, each at its line with the properties aimed at it, are in `PROJECT.json`.

## 2. Modules

In every module an operator with an underscore in its name (`Unlink_Skip`,
`Phase1_Own`) is a *mutant*: a copy of the definition after it with a plausible bug,
which some property must catch. Mutants are used by no specification.

### FifoQueue, BlockQueue

`FifoQueue` is the promise: what was handed out is a prefix of what was put in.
`BlockQueue` has `head`, `rear`, `size` and the `next` pointers of the cells (`link`), and per
distributor its place `pc`, its local `n` (`taking`) and the peer it serves. Its names differ from those of
`TableNet`, because `DistributionProofs` extends both: `QueueInit`, `QueueNext`, `QueueSpec`, `SendBlock`. `Put` and the locked
part of `Get` (`Take`) are one step each; the reads of `Size` (GRPC/util.go:309) and of
`Head` (queue.go:71 and 74), made without the lock, are steps of their own
(`SizeCheck`, `HeadCheck`, `HeadRead`). A failed call is `SendFail`, a panic that ends
the process. The same module stands for the data and the table queue.

### Raft

One function per field of the `Raft` struct; campaign goroutines are counted by where
they are (`sleeping`, `passed`, `electing`, `winning`), because a node can have several.
`poll[n][t]` is the goroutine that broadcasts `Raft.Vote` for term `t`: it stays blocked on
`voteChan` until *any* election loop of `n` receives. `account` is the cluster file. The
history variables `castFor` and `recast` record who voted for whom. Restarts, time-outs,
failed calls and lost answers are counted by `faults`. Abstractions: assignments that
follow each other without a test or call between them are one step; time-outs may fire
whenever their timer runs (no RPC has a deadline); the heartbeat broadcast is split into
one step per peer and the stamp of the sender's own clock. A node is identified by its
IP, as in `raft.go`.

### BAStar, BASync

One round at every node, from `blockProposal` to the append at the author and at the
receivers. A count (`countVotes`) sleeps for its whole time-out and then looks once, so it
sees any subset of the sent votes in any order: `Handle` moves votes into the box of
their step, and the phase actions evaluate the box. What the model keeps of the code, and
a textbook BA\* would not have:

* a node's own votes are not counted by itself (`Gossip` leaves the sender out);
* the *last* hash over the threshold wins a count (algorand.go:487 does not return);
* a count with votes and no winner returns a nil hash without an error; only an empty
  box is a time-out; a nil hash in a vote makes `BytesToInt32` panic at the receiver;
* `commonCoin` is always 0, because the list it reads is never filled;
* the third phase does not advance `step`, so the next first phase votes and counts under
  the same key;
* `binaryBA` returns every non-empty hash, whichever it was given;
* `BA` writes to the result of `getBlock`, nil when the block did not come. Whether it came
  is not tracked: a node whose result is not its own block may go either way
  (`Finish`, `FinishPanic`);
* a block that arrives in mid-round changes the tail, against which later votes are
  compared.

A sortition is a function of key, round and step: the weight drawn in `Sortition` is
random, but the distribution (`ApproxBinomial`) is a Poisson that hardly depends on it and
the result of `VerifyVRF` is ignored, so only "which weight" is left, a choice that
is repeated when the same step votes again. Weight 0 stands for "not selected": the vote
is recorded but never delivered. The threshold is 2 for every step
(`uint64(10*0.2)`, `uint64(20*0.1)`).

One step of the model may stand for several lines that read the tail or the box: that a
handler changes them between two of these lines is a coarsening.

`BASync` restricts `BAStar` to a network that keeps its promise (`InTime`: nobody counts
before all have voted and everything sent arrived); in `GoodSpec` besides everybody has
the best block when it chooses, and every node is scheduled.

### TxPoolData

The list is a sequence of *cells* (`txNode`); `txMap` maps a transaction to its last cell.
`pc` says where `bookKeeperRun` is; the lock is held unless `pc = "wait"`. `stage[b]` says
where the handler is that received block `b`. The agreement is a choice: own block
(`OwnBlock`), a block that another node will distribute (`OtherWins`, each block wins once),
or a block nobody distributes (`NobodyWins`: an empty one has no author). Further
conventions: `count` is kept at 0 from below, since every value under the smallest
`packNumber` behaves alike; `packNumber` is read once per batch; a batch longer than the
list takes the zero transaction of the tail sentinel and then dereferences nil.
`curSize` drifts below the length of the list when a batch is proposed again; `Drift`
bounds that in the runs. Not modelled: with set-pkg_num in mid-run, an earlier own block that
wins again in the same round would carry its earlier, shorter batch.

`Spec` allows everything; `CalmSpec` lets set-pkg_num come only between two runs;
`GoodSpec` leaves out `NobodyWins`. `out` walks along the list (`Without`), as the loop in the code does.

### TableIndex, FrontEnd

`TableIndex` has both chains of one node, the permissions in memory (`perm`), and the
*bucket* of each table: the numbers of the data blocks that touch it. A block is appended
(`AppendTable`, `AppendData`) and leaves work in `toDo`; `Arriving` takes any
piece of it, as the handlers do. `RestartIndex` loses the open work and reads the levels
again as `init` does: the newest transaction of each table only. A handler works a data block in
table by table; `Ahead(w)` are the tables a piece of work has still to come to, the ones later in
its block included. Tables that two blocks had ahead of them together are noted in `crossed`, those
a crash cut off in `torn`. `getHistory` collects the rows of a key from the newest block back, `getTableData` keeps of each key
the row with the latest stamp, and of several with that stamp the one it meets first. A stamp is a second of the submitter's
clock (`SubmitPut` takes any), so neither the newest block nor the last row of a block need have the latest one.

`FrontEnd` adds accounts and requests. `Cmd` executes the commands of a request in the
fixed order `Commands`, whatever the client wrote first; a refused one does not keep the following from being executed
(`Over` goes on to the next). A step is what happens
between two calls that take a lock: `Register` writes the file in two steps under its
lock; the permission is checked in one step (`base` remembers the table blocks behind it)
and the transaction is submitted in another. `by` and `seen` in a transaction are notes for the
properties, not fields of the code. Transactions that were submitted get into blocks in any order.
Keys and addresses are the name of the account; passwords are model values.

### Cache

The two lists with their cells, `next` and `pre` pointers and the map, as `lruTx` and
`lruIndex` have them. A look-up goes through `getInTX`, `getInIndex`, `getInTableHashChain` and
`getInBoltDb`; what runs without the lock (`toTail`, `checkDel`, `queueIn`) is a step of its own,
so that a cell found in one step may have gone in the next. A block (`Arrive`)
goes through `updateDataCache` and then into the hash chain; `Restart` loses the lists and the work.
`raced` and `met` note which keys and goroutines overlapped. A race *inside* one of these
functions is not modelled: each is one step. `crashed` is a nil that was dereferenced: by `toTail` or `checkDel`
of a key that has gone (`Touch`), or by `queueIn` of a list that has no first cell when one has to go out (`Enter`).
`MCLookUps` is an instance with a single goroutine and one block with eight keys; its `InOrder` leads to the state in question by fixing in
which order values are entered into the index and how often they are visited.

### Membership

Whom a node calls: `Cluster.LocalNode.Node` of each node, `known[n]`, where modules TableNet and DataLedger need no more of
it (Cluster has objects and files). `Enlist` is a join: the contact adds the joiner and the joiner takes over the
contact's list. The *other* members are told their own addresses (GRPC/util.go:165), so the joiner is in nobody else's list:
blocks and transactions of those nodes never go to it.

### TableNet

Several nodes: the sorted pool, `bookKeeperRun` (`Pack` under the lock, then append, queue and unlink: `AddBlock`),
the distributor (`TakeBlock` looks up the peers of a block when it takes it, then one call after the other), the
handler (append, then `OrdinaryRun`), `SetMod`, `JoinCluster` with the synchronisation, crash and
restart. A node that is down loses pool, queue and handlers and keeps its chain; a call to it ends the caller. Where
the synchronisation walks into the genesis block both processes end; where no node of the list is marked as bookkeeper
nothing is asked (`NoSource`).

`server/cmd.go:47` starts a further distributor for every command line. Several of them are like one until two are at the queue at
once; then the queue may hand out a block again or out of order (`Again`), lose what it holds (`CutOff`), or have none, which ends the
node (`NilBlock`): the steps that lead there are those of BlockQueue.

What the code does not guard against has names, which only the properties read: a property that leaves such a case out says that
nothing *else* goes wrong, and the run reaches each of them. `hasty`: a bookkeeper was set that had not every block;
`dropped`: a block was lost before it went to a node; `missed`: its maker had not the node in its list; `mixed`: two
distributors met; `overtaken`: a transaction came after its block; `late`: a block came while the answer was appended; `early`: a block
came before the answer, or the answer came from none or from a node that was not `InStep` (the one
bookkeeper, in a cluster where nothing was lost, neither it nor a maker of a block being `early` or `late` itself).

### DataLedger, Merkle

The data chain on several nodes. `proposeBlock` reads the tail for the round (`"round"`), for the
seed (`"seed"`) and for the link (`"init"`), and handlers may append in between; who wins the
agreement is left open here, several may. `store[n]` is the bolt file, `tail[n]` the `TailHash`;
`GetByRound` walks back exactly as the code does, with its two returns. `CheckDataBlock` recomputes
the Merkle root (`Merkle!GetMerkleRoot`) and ends the process if it differs. Lists, distributors (`Take`, `DistributeDataBlock`,
`Again`, `CutOff`, `NilBlock`) and joins are as in TableNet; a node that has ended (`down`) sends and appends nothing more, and a call to it
ends the caller. A bookkeeper's mark decides nothing here, so any node of its list may answer a joiner. `unsent` are blocks
that never went to a node (not listed, or the author ended or lost them); `lagging` notes that a block was made while another was under way, or
by a node that was not `InStep`; only properties read them.
`Merkle` writes the recursion over levels as a recursive function; a hash is the value that was hashed.

### Cluster

`LocalNode` is a pointer: `object[n]` has the objects it may point to and `local[n]` says which. A
handler is `"loaded"` (between `LoadClusterFile` and the assignment of `LocalNode`), `"writing"` (the file
is truncated, not yet written) or `"done"` (the caller may go on). `UpdateClusterFile` assigns the
list the node was started with, whose array later ones also append to, without the key.
`JoinToCluster` receives the file of its contact as it is at that moment (`Sent`), torn ones included, and
tells everybody in it: `BroadCast` has a `length`, read once, and a `turn`, and reads `LocalNode` again for each
call (`Callee`), which a handler may have replaced meanwhile (`InRange`). `delRepeatElem` is its loop (`loopTurn`), as
often as it can turn. `Calm` are the nodes where no handlers crossed and no update ran; the `Path` of a node are
those through which it came.

## 3. Runs

| Run | Instance | Shows |
|---|---|---|
| queue_single | 1 distributor, 2 peers, 5 blocks; 675 states | the inductive invariant (no nil among it), the FIFO refinement, peers in step, every block reaches everybody or the process ends |
| raft_election | 3 nodes, 2 campaigns each, 1 fault; 854 288 states | one bookkeeper as long as no node votes twice; the inductive invariant; no stranded candidate |
| ba_pair | 2 nodes, 5 steps, weights 1 or 2 in step 1; 374 038 states | the inductive invariant (`FinalIsSeconded` among it), `Unanimity` and `FinalAgreement` under every delay |
| ba_good | 3 nodes, `GoodSpec`; 332 states | `EveryoneAdopts` |
| pool_run | 3 transactions in 4 cells, 1 foreign block; 658 050 states | the pool's invariant, `PackedAreOld`, `OwnOnce`, `LeavesIntoChain` |
| pool_good | 2 transactions, 2 foreign blocks; 178 604 states | the pool returns to its ticker, the handlers return |
| cache | 2 look-ups, 2 keys, 2 blocks of 3 transactions, lists of 1 and 2 cells, 1 restart; 1 565 636 states | `Fresh`: every level has the newest value or none; `Genuine`; `AloneSafe`: where a nil may be met |
| front_end | 7 requests of 2 accounts in 2 goroutines, levels 0 to 4, stamps that agree or differ, 3 table and 2 data blocks, 1 restart; 2 049 846 states | index and levels follow the chains; who altered and who wrote; accounts survive |
| table_unique | the same | **violated**: two requests make the same table |
| table_net | 2 nodes and a joiner through one of them, 3 transactions in pools of 2, 3 turns, 1 crash, 1 restart, second distributors; 628 342 states | no hole, nothing packed twice, one tail, or a named reason |
| data_ledger | 2 nodes and a joiner through one of them, two of them propose, 3 blocks, interval 3, second distributors; 287 576 states | links, rounds, seeds, one line, Merkle roots |
| cluster | a founder, 3 joiners and one without the key, 1 restart; 367 087 states | who is in whose list and file, and where the key stays |

### Bounds

* Queue: five blocks are more than the two cells `Get` looks at, so the list is empty, has
  one cell, and more than one, several times.
* Raft: two campaigns per node are what it takes for an old broadcast to meet a newer
  election loop and for two campaigns of one node to overlap; with three nodes one vote
  can be split. `VotesAreFinal` stops a behaviour after a node has voted twice, where
  `OneBookkeeper` and `IInv` claim nothing; nodes are interchangeable (symmetry).
* BA\*: with `MaxSteps` 5 the three phases are entered twice and the hanging end is reached;
  weight 1 against 2 makes a count fall short of the threshold of 2. In a run of the code
  votes mostly weigh 2 or more, so one voter decides; weight 2 (`Heavy`) stands for these.
  `OnlyWhatIsRead` delays a vote until the count that may read it: a vote handled earlier is
  in the box as well, in the same order, and one handled later is never read. With two
  nodes a final result needs both, so `FinalAgreement` is checked where it is hardest to keep;
  the theorem is for up to three.
* Pool: `Stamps` has an early and two simultaneous transactions; `packNumber` 1 or 2 with four
  cells makes batches that fit, that exhaust the list and that follow each other; the clock
  runs far enough for all to become old.
* Cache: a block with two keys, one of them twice, is what it takes for the order inside a
  block to matter; lists of one and two cells evict at once. `Narrow` lets a second look-up overlap only while the lists
  are young and nothing was restarted (what two look-ups do to each other is reached before that), and
  the view `Live` forgets arguments of finished look-ups.
* Front end: the seven requests make a table twice, take a level away and write with the old one,
  register one name twice at once, and write with levels 2 and 3. Stamps are 1 or 2, so two rows of a key agree, or the newer row has the
  earlier one. Three table blocks are the first, the second (merged)
  and one that crosses; one restart separates the merged levels from the newest. `Narrow` lets one request run at a
  time after a restart and after the last table block, where no new overlap can come.
* TableNet: two transactions are sorted, a third meets a FULL pool (it comes only early: `Narrow`); three turns
  set a bookkeeper, take the books from it, and give them to another. `Narrow` allows only the blocks it takes to see the case where `hasty`, `dropped` or `mixed` make the
  properties silent, and one block with a crash or a node that has ended.
* DataLedger: with `R` 3 the third block is the first whose seed is looked for behind it; payloads of
  three and five transactions are odd at the leaves and one level up; `Narrow` gives the i-th block the i-th payload,
  which loses nothing, because payloads decide nothing but the root, and lets two nodes propose, any two: the joiner as well. It allows two
  blocks once two distributors have met, a process has ended or a node has joined out of order.
* Cluster: three joiners are what it takes for two to overlap at one contact and a third to come by
  way of one of them. `Short` bounds repeated entries of a list and lets the one without the key try while all is
  calm (it is refused before it changes anything).
* Nodes that are alike, and goroutines, are interchangeable (symmetry) in all of these.

### Fairness

* `BlockQueue`: weak fairness of each distributor's steps. A goroutine that can run is
  scheduled and the polling sleep ends; nothing is assumed of `Put` or of failures.
* `BASync!GoodSpec`: weak fairness of each node: every goroutine is scheduled, sleeps end,
  calls return.
* `TxPoolData`: weak fairness of the pool's goroutine (in `Spec`, of the agreement however it
  ends), strong fairness of each handler: it waits for a `sync.Mutex`, which in starvation mode is handed
  to the longest waiter, and the pool waits on its ticker between two runs. `IsDone` is read
  without synchronisation; the model assumes it is read again in each turn of the loop.
  In pool_good every draw selects (`Selections = {1}`): a node that is not
  selected draws again at once with the same seed (`NotSelected`), and would turn in its
  loop until a foreign block changes the round, which is a hazard of its own.
* `Raft`: none: a split vote can leave the cluster without a leader (raft.go:226), so no election is
  certain to succeed.
* The other modules: none. What they claim is safety; nothing in the code makes a
  synchronisation or a join end when a peer does not answer.

## 4. What the code does against its comments

The run marked **violated** is the finding of `PROJECT.json`: blockchain_table/transaction.go:126 says that a database holds
no two tables of one name, but `Table` asks only whether *its own node knows* the table *when the command comes*. While modelling, TLC, a proof or a reading of
the code also showed the following (no run repeats them):

* blockchain_table/transaction.go:129 calls level 2 read-write; `Put` (serverFuncs_cmd_bk1.go:115) refuses all below 3. The run has
  accounts of level 2, and `WritesPermitted` says what `Put` does.
* `gettable` keeps the row with the latest stamp, `get` takes it from the newest block that has the key: they disagree when clocks of submitters
  differ. Within one second the row met first stays: of two rows of one block that is the older one.
* A level is checked when the command comes; it may have been taken away when its transaction gets into a block. Two
  table blocks worked in in the wrong order leave the older levels (table-chain.go:93), and a restart those of the newest transaction only
  (table-chain.go:47): an account that it does not name loses its level.
* Two nodes may end a round of BA\* *tentatively* with different blocks when a proposal comes too late at one of them.
  algorand.go:199 does not claim otherwise; what is claimed here is about final results and a block given to all.
* A restarted node that votes again can make a second bookkeeper next to one that is still there.
* Only the contact of a joiner lists it (GRPC/util.go:165 sends each member its own address; service.go:201). Blocks made by others never
  come to it, transactions packed by others stay in its pool and are packed again if it becomes bookkeeper
  (`missed`, `unsent`; `hasty` counts such a bookkeeper as set too early).
* Each command line starts two more distributors (cmd.go:47). Two at one queue may send a block again, out of
  order or not at all, and a `Get` that finds nothing ends the node (`mixed`).
* Two distributors can hand out one block twice and lose the next (queue.go:74 reads the head again
  after the test, before the lock; queue.go:69 says "get and remove the element at the head"). With one distributor TLAPS proves the contrary.
* Two overlapping campaigns of one node count its own vote twice (raft.go:152 against raft.go:183).
* After an agreement nobody distributes, the pool waits for ever with its lock held
  (txpool_data.go:157); txpool.go:15 promises a periodic check.
* A deposed leader never stops its heartbeat loop (raft.go:128); rpc.go:64 says the sender
  of a heartbeat is certainly the leader.
* A vote that falls between the test and the assignments of `becomeCandidate` (raft.go:146) is
  overwritten; raft.go:145 says the node has not voted for another.
* `binaryBA` can return a hash that is neither the one given nor the empty one
  (algorand.go:414); its comment (algorand.go:397) says one of the two.
* set-pkg_num during a run makes the pool pack transactions it has not counted, the zero
  transaction of the sentinel included (txpool_data.go:132 reads `packNumber` again;
  txpool_data.go:121 says "if there are enough, pack these").
* `SubUser` keeps the value of the last sortition, so a node that proposes nothing any more
  skips the update of its pool (service.go:41; service.go:40 says only proposers skip it).

* A node that is not selected draws the sortition again at once, with the same result
  (txpool_data.go:128). `packNumber` 0 builds an empty batch whose Merkle tree has no root: `GetMerkleNode`
  recurses without end (merkel.go:53).
* A list that repeats its last transaction has the same Merkle root as the one without the
  repetition, when that has an odd number (merkel.go:53). As the copying goes on level by level, so may one that
  repeats a longer end (6 and 8 transactions) or several ends of different lengths (11 and 16). `RootBinds` excepts the lists
  that go on where the other ends with transactions already in it; lists in which nothing occurs twice never share a root.
* A joiner that proposes before it has appended its answer, or that was given blocks in the wrong order, links its block to an
  old one, and the receivers append it: the line of everybody is cut (`OneLine` excepts it through `lagging`).
* `CheckDataBlock` and `CheckTableBlock` end the process when the root differs; what else they return
  is not looked at by the handler, the block is appended all the same (service.go:38).
* `Seed`, `Proof` and `Author` of a block are dropped by its conversion for the network, so an author and a receiver
  compute different seeds once a seed is looked for in an older block. `GetByRound` gives up at rounds 0 and 1 (util.go:82).
* Blocks that fork a line stay in the file; a joiner that synchronises from such a node gets only the line of the tail.
* `getTableData` returns rows of other tables when a block holds several (`IndexComplete` excepts shared keys).
* `toTail` leaves the cell behind the moved one with its old predecessor (cache_lru.go:157 and 177, which assign `p.next` where
  `p.next.pre` would be needed). So what `toTail` has moved need not be at the tail, as cache_lru.go:189 says it is ("应为已经是移动到了 tail").
  When an eviction or `checkDel` follows such a pointer, cells are cut off whose keys stay in the map. In the index it comes to a
  nil: after enough look-ups, *one at a time*, `head.next` is the tail although more than `maxSize` are counted, and `queueIn` (cache_lru.go:125)
  ends the process. `tlc -config LookUps.cfg MCLookUps.tla` shows it after 16 look-ups of a single goroutine in an index of three
  (`NoNil` is violated). In the list of transactions, from which nothing is unlinked, the worst is a first cell that has gone out and stays the first: every
  eviction takes it once more and the map grows without a limit (`Stuck` and `OnlyByOverlap` in CacheProofs).
* A joiner can be behind for as long as it lives and pass that on: a block reaches it while it appends the answer, or it
  synchronises with a bookkeeper that was behind itself (or with none), is given the books, and the next joiner synchronises with *it*.
  `SameTail` excepts these (`late`, `InStep`, `NoSource`), and who was not in the list of a bookkeeper.
* `LastID` starts at 1 again after a restart; one transaction submitted twice within a second has one TxID.
* `UpdateClusterFile` puts back the list of the start, loses joins in between and the key (cluster.go:102); `BroadCast` tells a
  member its own address instead of the joiner's (hence repeated entries); of two joins at one node
  one may be lost; a joiner that receives a file in the middle of a write ends itself; the test for a duplicate in `JoinCluster`
  compares an IP with an address and is never true.
* `ConfirmationLeader` compares IPs only (rpc.go:112): two nodes on one host are both marked.
  `ConstructVoteKey` joins two numbers without a separator (peer.go:220): round 1 step 11 and round 11 step 1 share a box.

## 5. Proofs

TLAPS checks these for every value of the constants that meets the named assumptions
(`QueueAssumption`, `RaftAssumption`, `BAAssumption`, `PoolAssumption`, `CacheAssumption`, `IndexAssumption`,
`FrontEndAssumption`, `RequestAssumption`, `ClusterAssumption`, `LedgerAssumption`, `NetAssumption`), which TLC evaluates in the runs: sizes are natural numbers, bounds are
positive, names that stand for nothing are no values, a block holds at least one transaction. What is proved
and implied by a stronger property of a run (type invariants, `SizeCountsCalls`, `LinkIsFinal`,
`NoNilBlock`, `FinalIsSeconded`) is not repeated there. Each inductive invariant was checked by TLC on the run's
instance before it was proved.

**DistributionProofs**: how blocks get from their maker to all nodes. It has the theorems of two modules, `BlockQueue` and `TableNet`,
which share no state: one is the queue between a pool and its distributor, the other what a cluster makes of the
blocks that come through it.

*The queue.* For any number of distributors: `TypeCorrect`; `SizeCorrect`
(`size = put - Len(taken)`, inductive as it stands); `LinksAreFinal`, from the invariant
`TailIsLast`: `rear`, when set, is an allocated cell without a successor, so `Put` never
overwrites a link. For one distributor (`SingleDistributor`): `SingleSafe`, the inductive
invariant `QueueInv`. It says what the list is (from `head` to `rear` without a gap exactly the
blocks put and not handed out), what a distributor between its unlocked reads and the lock
knows (the cell it is about to unlink is still the head), and how far each peer is; neither
`NoNilBlock` nor `PeersInStep` is inductive without the other parts. `SingleFifo` is the
refinement of `FifoQueue`: every step is a `Put`, a `Get` or a stutter.

*The table blocks of a cluster.* All three properties of the run (`NoHoles`, `PackedOnly`, `SameEnd`), for any number of nodes,
joiners, transactions, turns of the bookkeeper, crashes and restarts, any stamps and any limit of the pools. `Invariance` is
about `IInv`; everything in it turns on `Due`, the blocks that some queue still owes to some node: what a distributor has not
called yet of its first block, and all of the blocks behind it for everyone in the list of the node (`Pending`). A lemma for each
kind of step says how `Due` changes (`DueOfBlock`, `DueOfTake`, `DueOfCall`, `DueOfReturn`, `DueOfCut`, `DueOfJoin`, `DueOfDown`). The
parts of `IInv` are:

* `Lists`: a member is in its own list, lists are of members, and what a node missed is of a maker that does not list it;
* `Filled`, stronger than `NoHole`: a node in step has *every* block, or it is in its answer, due, lost with its maker, or missed (`Has`).
  `NoHole` alone is not inductive, because the link of a block that comes may be on its way too;
* `OneKeeper`, with `KeepersIn`: while no bookkeeper was set too early and no two distributors met, it has missed nothing, only it has blocks under way, the newest at the end of its queue, and none is on its way to
  it, so its tail stands still between the reads of a block in the making;
* `AtEnd` and `Linked`: who missed nothing and is owed nothing has the newest block last; and then blocks are linked in the order in which they were
  made, so that the line behind a tail is all blocks up to it (`LineOfLinked`) and a synchronisation answers all that was missing;
* `InOrder`: of each block and node that it is for (`Follows`), where the transaction still is in the pool or on its way, the block is on its way too. This is
  what keeps the next bookkeeper from packing it again, and `out` from a cell that is not there;
* `QueuesSound`, `CallsSound`, `BooksSound`, `LockHeld`, `PoolsSound`: what a queue, a handler, the books of a node, the lock held during `bookKeeperRun`
  and a pool may be. `PutIn` and `TakenOut` are the two operations of the pool; `ArrivesKeeps`, what a block does at a node, serves the
  distributor and the second one (`DistributeKeeps`, `AgainKeeps`).

A node that goes down takes its queue with it, and ends the calls of others; `DownKeeps` says once what that leaves, for the
crash as for the nil answers that end a process. `TypeOK` with `store` and `tail` as functions was added for the proof. The proof also found a
fault: until then a joiner counted as in step when it synchronised with the only bookkeeper, whatever had become of that.
With two joiners `SameTail` then failed after 20 steps (one synchronises while a block is distributed, is given the books,
and the other synchronises with it), which the run, with one joiner, could not reach. `InStep` is the correction.

**RaftProofs.** `TypeCorrect` and `NobodyStranded` (inductive together: a candidate has a loop in
`election`), without any restriction. `ElectionInvariant`: until some node votes twice,
a count is at most the number of voters whose yes has been received (`CountIsBacked`),
and everything that names a leader names a node most nodes voted for
(`LeadersAreElected`). The argument is the usual one of majorities, but through state
the code keeps carelessly: a count is not tied to a term, and answers of an earlier broadcast arrive later,
so the invariant counts yes-answers on their way by peer, over all broadcasts of a node.
`OneElected` is the intersection of majorities. `AtMostOneBookkeeper` follows. Its two
premises are exactly what the code does not ensure: a restarted or timed-out node votes
again, and `nodeCount` is read once at the start.

**BAStarProofs.** `TypeCorrect` and `RoundInvariant`. `IInv` says that a vote in a box was sent by
its voter; that a FINAL vote is cast only for what its voter returned in its first step
(`FinalVotes`); and that while a single block was given to everybody who entered
`binaryBA`, no vote of its steps is for another (`OneBlockVotes`). `CountIsAVote` is the
lemma about `countVotes` on which everything rests: what a count returns is nil or was
in a vote it read. `FinalSeconded`, `OneBlock` and `FinalAgrees` (for at most three nodes: four nodes
could form two pairs that second each other) follow.

**FrontEndProofs** (of FrontEnd and the TableIndex under it). `Invariance` is about `IInv`: a table is known
exactly when one of its blocks was worked in (`KnownWorkedIn`); work that is still open at a table that was not
crossed is at the table's *last* block (`LastPending`); the levels in memory are the merge of the blocks worked in, or after
a restart at least the newest of them (`LevelsWorkedIn`); a block is in the bucket or on its way there, and the
bucket is in order (`ListedOrPending`); a level in memory was granted by some block that was worked in, in whatever order
(`LevelsGranted`, for the tables that crossed); one handler at a time writes an account file, under the lock (`OneWriter`); and
what a permission was granted on still holds over the *same* blocks when the transaction is submitted, packed and
in the chain (`Checked`, `Granted`). None of the properties is inductive alone: `PermissionsOfChain` needs that blocks
are merged in the order of the chain, which is what `LastPending` says of tables nobody crossed, and `WritesPermitted` needs
`CheckedAt` to survive every block that is merged between the look-up and the submission. From it:
`FrontTypeCorrect`, `EndIsExplained`, `LevelsFollowTheChain`, `NobodyUsurps`, `WritersHadTheLevel`, `BucketsComplete`,
`IndexIsComplete` and the action property `AccountsAreKept`. `IndexIsComplete` follows `BucketsComplete` with what the readers do: the walk
along a block finds transactions of the id, and some only if there are any (`MatchingFinds`); the walk along a bucket with all blocks of a
table, in order, collects what a walk along the whole chain would, as the other blocks add nothing (`CollectedSame`, `HistoryIs`); and
where no other table in these blocks uses the key, the row that is kept is the first with the latest stamp in that walk (`FirstKept`, `RowIs`). The attempt to prove `LastPending` for two tables in
one block showed that an earlier form of the model noted a crossing only at the table a handler was *at*, not at those it still
had to come to; on an instance with two tables TLC then found the bucket out of order. `Ahead` is the correction.

**TxPoolDataProofs** (under `CalmSpec`: with set-pkg_num in the middle of a run `PoolIsConsistent` does not hold, see 4).
`Strong` adds to `IInv` and `OwnOnce` that cells are numbered by `tx` (`CellsMade`), that a run packs exactly what it
counted (`RunInv`: the batch is the prefix of the list that was old at the count, which is why `ProposedIsOld` survives
agreements that are lost), that the batch has left `txMap` (`BatchUnmapped`: so a handler that takes a block out of the pool cannot
meet it), and that a handler has appended before it takes out (`AppendedFirst`, for `NothingIsLost`). `Place` and `Scan`,
which search the list, and `Without`, which walks along it, are handled by lemmas of their own.

**CacheProofs.** `NewestReturned` and `NothingForeign`, for lists of any size and any number of look-ups and blocks. `IInv` says
*nothing* of `next`, `pre` and `curSize`: `toTail` leaves them in disorder, and neither theorem depends on
them, since a value is read through the map and the cell. `Cells`: the map leads to a cell of its key that holds a transaction of
it. `Unraced`, for each key no look-up and no second block overlapped: the block being worked in is the last with the key and nobody looks the key
up (`LastAtWork`); the lists hold its newest value from `updateDataCache` on (`ListsNew`), the hash chain from the end of the work
on (`BucketNew`), and every look-up has it in hand or nothing (`HandsNew`). The four parts carry each other through the levels of
`GetOneValue` (a list, the other list, the hash chain, the chain).

`TypeCorrect` and `OnlyByOverlap` are about that disorder. `Shape` is what is left of a list, whatever overlaps: pointers of cells that
were made are never nil (`Linked`), the number of cells counted stays within the size (`Counted`), and whoever *in the map* has the head
before it is what the head has behind it (`FirstKnown`). The last is what keeps the eviction from being followed by a link to a
cell that is gone, and it survives all of `Link`, `Evict`, `Unlink` and `toTail`. For the list of transactions, from which nothing is unlinked, `NeverBare`
adds that it has a first cell as soon as it has had one: either the first cell is one that has gone out and stays (`Stuck`), or only the last cell has the tail
behind it (`OneEnd`) and a first cell that has is counted alone (`TwoUp`). It was found by an attempt to prove more. An earlier `AloneSafe`
said that without an overlap no nil is met at all; the run agreed, with three cells. The proof would not go through for the index, and the counterexample, built by hand from
the case that was left and confirmed by TLC, takes 16 look-ups (`MCLookUps`, see 4). `Alone` is the other half: a
look-up that overlaps no other still has the entry it found.

**ClusterProofs.** All four properties of the run, for any number of nodes, joiners, strangers and restarts. `IInv` says of each node by
itself (`Good`): while no handlers crossed, there is one at a time, what it loaded is what the file holds, what it writes is what
`LocalNode` holds, and the file is torn exactly while it writes (`OneByOne`). Of nodes together: contacts are or were in
the cluster (`Contacts`), so the path of one that is in it never changes (`PathSteady`); a joiner is in the list of its contact *before*
it receives that (`AddedFirst`), which is what `KeptByContact` and `JoinerKnows` start from; and where no update ran on a path, everything
`LocalNode` and the file may become has the key (`AllKeyed`). `Step` says once what a step on one node may do to keep all this; each
action is then a lemma of its own. `Fewer` is about `delRepeatElem`: what the loop leaves holds nobody new.

**DataLedgerProofs.** All five properties of the run, for any number of nodes, joiners, proposers and blocks and any
interval above two. `IInv` does not speak of lines at all. A block is linked to one made before it, and its round is the next one
unless its author's tail moved (`MadeOf`); what a proposal has read is the tail's while that has not moved (`Reads`); a node
in step has every block or will, but for those that its author never sent it (`Everything`, which is stronger than `HoleIsComing` and, unlike it, inductive: the link of a block
that comes may itself be on its way); and, until something lags or two distributors meet, blocks are linked one to the next, each queue ends
with the newest, and where nothing was left out and nothing is on its way that is the tail (`OneByOne`). `PendingKept` says what most steps do to what is
on its way: nothing of it vanishes but into `unsent`. Who ended over a seed had no closed set of blocks
behind its tail (`Excused`, `Whole`): closed sets are what is preserved, the walk along them is not needed for the step. The walks
come in afterwards. Links lead to earlier blocks, so by induction on the number of a block the recursive functions in `Line`, `GetByRound`
and `Back` exist (`LineExists`, `FoundExists`, `BackExists`) and do what is said of them: rounds fall along a line
(`RoundsFall`), `GetByRound` ends at the only block of its round (`FoundOnLine`), and never in the file's end where no block is
missing (`WholeFinds`); the seed's round is a multiple of the interval less one, hence not the first (`SeedRoundIs`). `RootsBind` is about trees: `Above` makes a level from the one below (`AboveIs`), and the levels of a list end in one node, its root
(`LevelsExist`, `TreesGoOn`). Read downwards from a common root, one level goes on where the other ends with nodes already
in it (`GoesOn`), because a pair has one left and one right part and a copy repeats its left one (`EvenGoesOn`, `AboveGoesOn`); and as a
transaction is no pair (`LeavesDiffer`), both trees come to their leaves at once. Trying to prove more found two faults:
`OneLine` did not hold if a joiner proposes (the run's joiner never did; now it may, and `lagging` says so), and the exception in `RootBinds` was
too small, and then again, for lists longer than the run's: first it had only the last transaction, then a single end repeated over and over,
until the step from one level to the next would not go through; TLC confirms the lists of 11 and 16 transactions.

What a loop computes is not always out of reach. The induction theorems of the library take an operator and cannot be used, but that a
set of numbers has a least member can (`Least`, from `WFMin`), hence `Induct` for a *set*; with it a recursive function over
naturals can be shown to exist (`StepsExist`, `TurnsExist`, `LineExists`, `FoundExists` and `LevelsExist`, and `Line` of TableNet in `LineOfLinked`) and to keep what each step keeps. That is how `Without`,
`delRepeatElem`, `GetByRound`, the Merkle tree and the readers of a bucket are proved about. These readers
and `ChainOf` are written with functions (`Matching`, `Collected`) and not with `SelectSeq`, whose definition the prover cannot expand.

Only model-checked:

* liveness (`AllDistributed`, `EveryoneAdopts`, `PeriodicCheck`, `HandlerReturns`): fairness and ENABLED are out of the prover's reach.

## 6. Plan

Done: the queue, Raft, BA\*; the data pool; the cache; index, permissions and
accounts; the table pool, ledgers and synchronisation; the cluster file; proofs about all of them. Left:

1. **BARounds**: two rounds in flight (keys of `ConstructVoteKey`, the round computed twice).

### Not modelled

* Several BA\* rounds at once: see 1 above; DataLedger has what a block that comes in between does to a proposal.
* Joining through a node that was told its own address (its list then has it twice, and a joiner calls it twice); in Cluster this is there.
* Of several distributors, in TableNet and DataLedger, only what they may do to the queue and the peers; their steps are in BlockQueue. Two handlers of one
  block at one node count as one.
* Races inside a single function of the cache (a torn pointer or map): each function is one step.
* Signatures, VRF, hashes, keys and the generated gRPC code: data without control. The models take
  hashes as injective and signatures as valid.
* `GetProve` of the Merkle tree: nothing calls it.
* Commands that only print or list (addresses, history, streams), `client/`, and the argument parser: no state of
  their own.
* The on-disk format of bolt and its transactions: a block is in the file or not.
