------------------------------ MODULE TableNet ------------------------------
(* The shared tables of a cluster: the table transaction pools of its nodes
   (txpool/txpool_table.go), their table chains (blockchain/blockchain_table),
   and the calls between them: transactions to every node, blocks from the
   bookkeeper to every node, and the chain to a node that joins (GRPC/util.go,
   GRPC/service.go).

   The transactions and blocks of a node go to the nodes in its own list (module
   Membership).  Blocks are numbered in the order in which they are made; a number stands for
   the hash, and 0 is the genesis block, which is the same at every node.  Every
   transaction is submitted once.  Whether a transaction is two seconds old for
   the clock of a bookkeeper is left open: its stamp comes from another clock.  *)
EXTENDS Integers, Sequences, FiniteSets, SequencesExt, Membership

CONSTANTS Tx, Stamp,      \* table transactions and their time stamps
          PoolMax,        \* tableQueue.maxSize
          MaxTurns, MaxCrashes, MaxRestarts   \* bounds: SetMod calls; crashes; restarts

None == <<>>
NoNode == "none"
Failed == "failed"

ASSUME NetAssumption ==
    /\ Joiner \subseteq Node /\ {NoNode, Failed} \cap Node = {} /\ Stamp \in [Tx -> Nat] /\ PoolMax \in Nat
    /\ MaxTurns \in Nat /\ MaxCrashes \in Nat /\ MaxRestarts \in Nat

VARIABLES made,           \* the blocks: transaction, previous block and maker
          store, tail,    \* the block bucket of a node, and its TailHash
          pool,           \* the queue of a table pool, from head to tail
          keeper,         \* nodes whose pool is set to bookkeeper
          packing,        \* the block a bookkeeper is making, under the lock of its pool
          queue,          \* LocalTableBlockQueue of a node, behind the block being sent
          serving, call,  \* of that block: peers without it, and the one called
          handling,       \* handlers of DistributeTableBlock that have appended: <<node, block>>
          telling,        \* telling[t]: who submits t, and to whom it has not gone yet
          up, phase,      \* running nodes; how far a node is with joining
          answer,         \* blocks of the synchronisation still to be appended
          turns, crashes, restarts,
          \* what happened so far, for the properties only:
          hasty,          \* a bookkeeper was set before it had the blocks of another
          dropped,        \* <<node, block>>: lost with its maker or in the queue, before it went there
          missed,         \* <<node, block>>: the maker had not the node in its list
          mixed,          \* two distributors of a node were at its queue at the same time
          arrived,        \* transactions that came to the pool since the node started
          early,          \* joiners given a block before the answer of the synchronisation,
                          \* or whose answer did not come from a bookkeeper that is InStep
          late,           \* joiners given a block while they appended the answer
          overtaken,      \* transactions that came to a node after their block
          nil             \* transactions that had come, but out() found no cell

ledger == <<made, store, tail>>
pools == <<pool, packing, arrived>>
sending == <<queue, serving, call, handling, dropped, missed, mixed, overtaken>>
roles == <<keeper, turns, hasty>>
joining == <<members, phase, answer, early, late>>
faults == <<up, crashes, restarts, nil>>
vars == <<ledger, pools, sending, roles, joining, faults, telling>>

Block == 0 .. Len(made)
Member == {n \in Node : phase[n] # "out"}

\* A block as it is sent.
TableBlock == [tx : Tx, prev : Nat, by : Node]

TypeOK ==
    /\ MembersOK
    /\ made \in Seq(TableBlock)
    /\ store \in [Node -> SUBSET Block] /\ tail \in [Node -> Block]
    /\ pool \in [Node -> Seq(Tx)]
    /\ \A n \in Node : tail[n] \in store[n] /\ Len(pool[n]) <= PoolMax
    /\ keeper \subseteq Node /\ up \subseteq Node
    /\ packing \in [Node -> {None} \cup Tx \X Block]
    /\ queue \in [Node -> Seq(Block)] /\ serving \in [Node -> SUBSET Node]
    /\ call \in [Node -> Node \cup {NoNode, Failed}]
    /\ handling \subseteq Node \X Block /\ dropped \cup missed \subseteq Node \X Block
    /\ telling \in [Tx -> [by : Node \cup {NoNode}, rest : SUBSET Node]]
    /\ phase \in [Node -> {"out", "joined", "append", "in"}] /\ answer \in [Node -> SUBSET Block]
    /\ turns \in 0 .. MaxTurns /\ crashes \in 0 .. MaxCrashes /\ restarts \in 0 .. MaxRestarts
    /\ hasty \in BOOLEAN /\ mixed \in BOOLEAN /\ arrived \in [Node -> SUBSET Tx] /\ early \cup late \subseteq Node
    /\ overtaken \subseteq Tx /\ nil \subseteq Tx

Everywhere(x) == [n \in Node |-> x]

Init ==
    /\ MembersInit
    /\ made = <<>> /\ store = Everywhere({0}) /\ tail = Everywhere(0)
    /\ pool = Everywhere(<<>>) /\ packing = Everywhere(None) /\ arrived = Everywhere({})
    /\ queue = Everywhere(<<>>) /\ serving = Everywhere({}) /\ call = Everywhere(NoNode)
    /\ handling = {} /\ dropped = {} /\ missed = {} /\ mixed = FALSE /\ overtaken = {}
    /\ keeper = {} /\ turns = 0 /\ hasty = FALSE
    /\ phase = [n \in Node |-> IF n \in Joiner THEN "out" ELSE "in"]
    /\ answer = Everywhere({}) /\ early = {} /\ late = {}
    /\ up = Node /\ crashes = 0 /\ restarts = 0 /\ nil = {}
    /\ telling = [t \in Tx |-> [by |-> NoNode, rest |-> {}]]

-----------------------------------------------------------------------------
(* An operator with an underscore in its name is a mutant: the definition that
   follows it, with a bug the properties below must catch.                     *)

Unlocked(n) == packing[n] = None
Full(n) == Len(pool[n]) = PoolMax

\* tableQueue.in: behind the last cell with a stamp that is not later.
in(q, t) ==
    LET i == Cardinality({j \in DOMAIN q : \E l \in j .. Len(q) : Stamp[q[l]] <= Stamp[t]})
    IN InsertAt(q, i + 1, t)

\* tableQueue.out
out(q, t) == RemoveAt(q, CHOOSE i \in DOMAIN q : q[i] = t)

\* TxIn: a FULL pool refuses.
TxIn(n, t) ==
    /\ pool' = IF Full(n) THEN pool ELSE [pool EXCEPT ![n] = in(@, t)]
    /\ arrived' = IF Full(n) THEN arrived ELSE [arrived EXCEPT ![n] = @ \cup {t}]
    /\ UNCHANGED packing

\* AddBlockToChain, whatever the block is linked to.
Appended(n, b) ==
    /\ store' = [store EXCEPT ![n] = @ \cup {b}]
    /\ tail' = [tail EXCEPT ![n] = b]

\* The blocks of m that are still in its queue, and all that have not gone to a peer yet.
Waiting(m) == {queue[m][i] : i \in (IF serving[m] = {} THEN 1 ELSE 2) .. Len(queue[m])}
Pending(m) ==
    (IF serving[m] = {} THEN {} ELSE (serving[m] \ {call[m]}) \X {queue[m][1]})
    \cup Others(m) \X Waiting(m)

\* The processes of D end: their calls, handlers, pools and block queues with them.
\* Those that were calling them get an error.
Down(D) ==
    /\ up' = up \ D
    /\ queue' = [n \in Node |-> IF n \in D THEN <<>> ELSE queue[n]]
    /\ serving' = [n \in Node |-> IF n \in D THEN {} ELSE serving[n]]
    /\ call' = [n \in Node |-> IF n \in D THEN NoNode ELSE IF call[n] \in D THEN Failed ELSE call[n]]
    /\ handling' = {x \in handling : x[1] \notin D}
    /\ dropped' = dropped \cup UNION {Pending(n) : n \in D}
    /\ pool' = [n \in Node |-> IF n \in D THEN <<>> ELSE pool[n]]
    /\ packing' = [n \in Node |-> IF n \in D THEN None ELSE packing[n]]
    /\ arrived' = [n \in Node |-> IF n \in D THEN {} ELSE arrived[n]]
    /\ answer' = [n \in Node |-> IF n \in D THEN {} ELSE answer[n]]
    /\ early' = early \cup {n \in D : phase[n] \in {"joined", "append"}}
    /\ phase' = [n \in Node |-> IF n \in D \cap Member THEN "in" ELSE phase[n]]
    /\ telling' = [t \in Tx |-> IF telling[t].by \in D THEN [telling[t] EXCEPT !.rest = {}] ELSE telling[t]]
    /\ keeper' = keeper \ D
    /\ UNCHANGED <<ledger, members, turns, hasty, restarts, late, missed, mixed, overtaken>>

-----------------------------------------------------------------------------
(* Transactions.                                                               *)

\* Server.Table: into the own pool, where a refusal is only printed.
Table(n, t) ==
    /\ n \in up \cap Member /\ Unlocked(n) /\ telling[t].by = NoNode
    /\ TxIn(n, t)
    /\ telling' = [telling EXCEPT ![t] = [by |-> n, rest |-> Others(n)]]
    /\ UNCHANGED <<ledger, sending, roles, joining, faults>>

\* SubmitTableTransaction: to one node after the other.  A node that does not
\* answer or whose pool is FULL ends the process of the submitter.
TableTradingPool(t, m) ==
    LET n == telling[t].by
    IN /\ m \in telling[t].rest
       /\ IF m \in up /\ ~ Full(m)
          THEN /\ Unlocked(m) /\ TxIn(m, t)
               /\ telling' = [telling EXCEPT ![t].rest = @ \ {m}]
               /\ UNCHANGED <<ledger, sending, roles, joining, faults>>
          ELSE Down({n}) /\ UNCHANGED <<crashes, nil>>

-----------------------------------------------------------------------------
(* The bookkeeper.                                                             *)

\* SetMod, from Raft's SetAccount or the command root-mod.
Unsettled(n) ==
    \/ keeper \ {n} # {} \/ handling # {} \/ phase[n] # "in"
    \/ (\E m \in Node : queue[m] # <<>>) \/ \E b \in Block : <<n, b>> \in missed
SetMod(n) ==
    /\ turns < MaxTurns /\ turns' = turns + 1
    /\ n \in up \cap Member /\ Unlocked(n)
    /\ keeper' = IF n \in keeper THEN keeper \ {n} ELSE keeper \cup {n}
    /\ hasty' = (hasty \/ (n \notin keeper /\ Unsettled(n)))
    /\ UNCHANGED <<ledger, pools, sending, joining, faults, telling>>

\* bookKeeperRun: the first cell is packed into a block behind the tail ...
Pack(n) ==
    /\ n \in keeper /\ Unlocked(n) /\ pool[n] # <<>>
    /\ packing' = [packing EXCEPT ![n] = <<pool[n][1], tail[n]>>]
    /\ UNCHANGED <<ledger, pool, arrived, sending, roles, joining, faults, telling>>

\* ... which is appended and queued, and the cell leaves the pool.
Packed_KeepCell(n) == pool
Packed(n) == [pool EXCEPT ![n] = Tail(@)]

AddBlock(n) ==
    LET b == Len(made) + 1
    IN /\ ~ Unlocked(n) /\ packing' = [packing EXCEPT ![n] = None]
       /\ made' = Append(made, [tx |-> packing[n][1], prev |-> packing[n][2], by |-> n])
       /\ Appended(n, b)
       /\ queue' = [queue EXCEPT ![n] = Append(@, b)]
       /\ missed' = missed \cup (Member \ known[n]) \X {b}
       /\ pool' = Packed(n)
       /\ UNCHANGED <<arrived, serving, call, handling, dropped, mixed, overtaken, roles, joining, faults, telling>>

-----------------------------------------------------------------------------
(* Blocks on their way (TableBlockDistribute).  server/cmd.go starts one more
   distributor for each command line.  As long as never two of them are at work at
   once they are like one.  When they are, the queue may hand out a block again or
   out of order, lose what it holds, or have none (module BlockQueue has the steps).  *)

\* The distributor takes a block, and looks up the peers it is for.
TakeBlock(m) ==
    /\ queue[m] # <<>> /\ serving[m] = {}
    /\ serving' = [serving EXCEPT ![m] = Others(m)]
    /\ queue' = IF Others(m) = {} THEN [queue EXCEPT ![m] = Tail(@)] ELSE queue
    /\ UNCHANGED <<ledger, pools, call, handling, dropped, missed, mixed, overtaken, roles, joining, faults, telling>>

\* What the call of DistributeTableBlock with b does at p: the block is appended at
\* once, whatever the check of it says.
Arrives(p, b) ==
    /\ Appended(p, b) /\ UNCHANGED made
    /\ handling' = handling \cup {<<p, b>>}
    /\ early' = early \cup {x \in {p} : phase[p] = "joined"}
    /\ overtaken' = overtaken \cup ({made[b].tx} \ arrived[p])
    /\ late' = late \cup {x \in {p} : phase[p] = "append"}

DistributeTableBlock(m, p) ==
    LET b == queue[m][1]
    IN /\ queue[m] # <<>> /\ p \in serving[m] /\ call[m] = NoNode
       /\ IF p \in up
          THEN /\ Arrives(p, b) /\ call' = [call EXCEPT ![m] = p]
               /\ UNCHANGED <<pools, queue, serving, dropped, missed, mixed, roles, members, phase, answer, faults, telling>>
          ELSE Down({m}) /\ UNCHANGED <<crashes, nil>>

\* The call is over: the next peer, or the loop ends.
Served(m, p) ==
    LET rest == serving[m] \ {p}
    IN /\ call' = [call EXCEPT ![m] = NoNode]
       /\ queue' = IF rest = {} THEN [queue EXCEPT ![m] = Tail(@)] ELSE queue
       /\ serving' = [serving EXCEPT ![m] = rest]

\* Two distributors at once: a block of m goes to a peer again, or too soon.
Again(m, p) ==
    /\ m \in up /\ p \in Others(m) \cap up /\ mixed' = TRUE
    /\ \E b \in DOMAIN made : made[b].by = m /\ Arrives(p, b)
    /\ UNCHANGED <<pools, queue, serving, call, dropped, missed, roles, members, phase, answer, faults, telling>>

\* The second one unlinks what came behind the block of the first.
CutOff(m) ==
    /\ Waiting(m) # {} /\ mixed' = TRUE
    /\ queue' = [queue EXCEPT ![m] = IF serving[m] = {} THEN <<>> ELSE <<@[1]>>]
    /\ dropped' = dropped \cup Others(m) \X Waiting(m)
    /\ UNCHANGED <<ledger, pools, serving, call, handling, missed, overtaken, roles, joining, faults, telling>>

\* The second one finds no block, and its type assertion ends the process.
NilBlock(m) ==
    /\ m \in up /\ (\E b \in DOMAIN made : made[b].by = m)
    /\ Down({m}) /\ UNCHANGED <<crashes, nil>>

\* OrdinaryRun, in the handler: the transaction leaves the pool; a transaction
\* that is not there is a nil pointer.
OrdinaryRun(p, b) ==
    LET t == made[b].tx
        m == made[b].by
    IN /\ <<p, b>> \in handling /\ Unlocked(p)
       /\ IF \E i \in DOMAIN pool[p] : pool[p][i] = t
          THEN /\ pool' = [pool EXCEPT ![p] = out(@, t)]
               /\ handling' = handling \ {<<p, b>>}
               /\ IF call[m] = p /\ queue[m][1] = b THEN Served(m, p)
                                 ELSE UNCHANGED <<queue, serving, call>>
               /\ UNCHANGED <<ledger, packing, arrived, dropped, missed, mixed, overtaken, roles, joining, faults, telling>>
          ELSE Down({p}) /\ nil' = nil \cup ({t} \cap arrived[p]) /\ UNCHANGED crashes

\* A call to a node that has ended ends the caller as well.
CallFailed(m) == call[m] = Failed /\ Down({m}) /\ UNCHANGED <<crashes, nil>>

-----------------------------------------------------------------------------
(* Joining, and the synchronisation of the chain (TableBlockSynchronization).  *)

\* n joins through c, and synchronises three seconds later; if a member does not
\* answer BroadCast, n ends.
Join(n, c) ==
    LET fails == ~ known[c] \subseteq up
    IN /\ n \in up /\ phase[n] = "out" /\ c \in up \cap Member
       /\ Enlist(n, c)
       /\ phase' = [phase EXCEPT ![n] = IF fails THEN "in" ELSE "joined"]
       /\ up' = IF fails THEN up \ {n} ELSE up
       /\ early' = IF fails THEN early \cup {n} ELSE early
       /\ UNCHANGED <<ledger, pools, sending, roles, crashes, restarts, nil, answer, late, telling>>

\* Line[b]: b and the blocks before it.
Line == LET line[b \in Block] == IF b = 0 THEN {0} ELSE {b} \cup line[made[b].prev] IN line

\* What s has behind the last block of n; without the oldest in the mutant.
Behind_Above(n, s) == {b \in Line[tail[s]] : b > tail[n] + 1}
Behind(n, s) == {b \in Line[tail[s]] : b > tail[n]}

\* The one bookkeeper, in a cluster where no block was lost, and where neither it nor
\* the maker of a block was early or late itself.
InStep(s) ==
    /\ keeper = {s} /\ ~ hasty /\ ~ mixed /\ dropped = {}
    /\ ({s} \cup {made[b].by : b \in DOMAIN made}) \cap (early \cup late) = {}

\* The node that is marked as bookkeeper sends what it has behind the block asked
\* for.  If it has not that block it goes on beyond the genesis block, and ends; the
\* caller looks into the answer all the same, and ends too.
Synchronise(n, s) ==
    /\ n \in up /\ phase[n] = "joined" /\ s \in Others(n)
    /\ IF s \in up /\ tail[n] \in Line[tail[s]] /\ Behind(n, s) \subseteq store[s]
       THEN /\ answer' = [answer EXCEPT ![n] = Behind(n, s)]
            /\ phase' = [phase EXCEPT ![n] = "append"]
            /\ early' = early \cup {x \in {n} : ~ InStep(s)}
            /\ UNCHANGED <<ledger, pools, sending, roles, faults, members, late, telling>>
       ELSE Down({n, s}) /\ UNCHANGED <<crashes, nil>>

\* No node of the list is marked: nothing is asked.
NoSource(n) ==
    /\ n \in up /\ phase[n] = "joined" /\ phase' = [phase EXCEPT ![n] = "in"]
    /\ early' = early \cup {x \in {n} : made # <<>>}
    /\ UNCHANGED <<ledger, pools, sending, roles, faults, members, answer, late, telling>>

\* The blocks come from the last back, and are appended from the first on.
NextOf_Newest(S) == CHOOSE b \in S : \A c \in S : b >= c
NextOf(S) == CHOOSE b \in S : \A c \in S : b <= c

AppendAnswer(n) ==
    /\ n \in up /\ phase[n] = "append"
    /\ IF answer[n] = {}
       THEN phase' = [phase EXCEPT ![n] = "in"] /\ UNCHANGED <<answer, ledger>>
       ELSE /\ Appended(n, NextOf(answer[n])) /\ UNCHANGED <<made, phase>>
            /\ answer' = [answer EXCEPT ![n] = @ \ {NextOf(answer[n])}]
    /\ UNCHANGED <<pools, sending, roles, faults, members, early, late, telling>>

-----------------------------------------------------------------------------
Crash(n) ==
    /\ n \in up /\ crashes < MaxCrashes /\ crashes' = crashes + 1
    /\ Down({n}) /\ UNCHANGED nil

\* Only the chain is on disk.  A node that is started again does not synchronise.
Restart(n) ==
    /\ n \notin up /\ restarts < MaxRestarts /\ restarts' = restarts + 1
    /\ up' = up \cup {n}
    /\ UNCHANGED <<ledger, pools, sending, roles, joining, crashes, nil, telling>>

Submit(t) == \E n \in Node : Table(n, t) \/ TableTradingPool(t, n)
Keep(n) == Pack(n) \/ AddBlock(n)
Send(m) == TakeBlock(m) \/ (\E p \in Node : DistributeTableBlock(m, p)) \/ CallFailed(m)
Mix(m) == (\E p \in Node : Again(m, p)) \/ CutOff(m) \/ NilBlock(m)
Receive(p) == \E b \in Block : OrdinaryRun(p, b)
Enter(n) == (\E s \in Node : Join(n, s) \/ Synchronise(n, s)) \/ NoSource(n) \/ AppendAnswer(n)

Next ==
    \/ \E t \in Tx : Submit(t)
    \/ \E n \in Node : Keep(n) \/ Send(n) \/ Mix(n) \/ Receive(n) \/ Enter(n) \/ SetMod(n) \/ Crash(n) \/ Restart(n)
Spec == Init /\ [][Next]_vars

-----------------------------------------------------------------------------
\* A block of a node has the one before it in the same file, unless that one is
\* still to come, was lost with its maker or in its queue, its maker did not have the
\* node in its list, or the node got a block before its synchronisation, or
\* synchronised with none or with one that was not InStep.
NoHole ==
    \A n \in Node : \A b \in store[n] \ {0} :
        LET p == made[b].prev
        IN \/ p \in store[n] \cup answer[n] \/ <<n, p>> \in dropped \cup missed \/ n \in early
           \/ \E m \in Node : <<n, p>> \in Pending(m)

\* What holds of every pool and ledger, whoever keeps the books.
Inv == TypeOK /\ NoHole

\* No bookkeeper was set too early, no block was lost, and no two distributors of a
\* node were at its queue at once.
Calm == ~ hasty /\ dropped = {} /\ ~ mixed

\* No transaction gets into two blocks, and out() finds the cell of every one that has
\* come to the pool, unless a bookkeeper was set that had not all blocks of another
\* (they were under way, lost, or it was not in the list of their maker), two
\* distributors were at a queue at once, or a block overtook the transaction on its
\* way to a node.
PackedOnce ==
    Calm =>
        /\ nil \subseteq overtaken
        /\ \A i, k \in DOMAIN made : made[i].tx = made[k].tx => i = k \/ made[i].tx \in overtaken

\* When nothing is under way, all nodes that were in the list of every bookkeeper have
\* the same last block, but for those a block came to while they synchronised or that
\* synchronised with none or with one that was not InStep, unless blocks were lost, a
\* bookkeeper was set too early or two distributors were at a queue at once.
Settled == handling = {} /\ \A n \in Node : queue[n] = <<>> /\ phase[n] \notin {"joined", "append"}
Reached == {n \in Member : \A b \in Block : <<n, b>> \notin missed}
SameTail ==
    Settled /\ Calm =>
        \A n, m \in Reached \ (early \cup late) : tail[n] = tail[m]
=============================================================================
