----------------------------- MODULE DataLedger -----------------------------
(* The data chain on several nodes (blockchain/blockchain_data): who wins the
   agreement appends its block and sends it to the others, who append it whatever
   it is linked to; a proposal reads the tail several times, and blocks of other
   nodes may come in between (algorand.go proposeBlock, txpool_data.go).

   The agreement is left open here (module BAStar has it): any proposer may win,
   also several at once.  Blocks are numbered in the order in which they are
   appended by their authors; a number stands for the hash, 0 is the genesis block.
   They go to the nodes in the list of their author (module Membership).         *)
EXTENDS Integers, Sequences, FiniteSets, Merkle, Membership

CONSTANTS Proposer,               \* those the sortition selects
          Tx, Payload,            \* transactions, and those a block may hold
          R,                      \* the interval in which the seed is renewed
          MaxBlocks               \* bound

ASSUME LedgerAssumption ==
    /\ Joiner \subseteq Node /\ Proposer \subseteq Node
    /\ Payload \subseteq Seq(Tx) \ {<<>>}
    /\ R \in Nat /\ R > 2 /\ MaxBlocks \in Nat

VARIABLES made,            \* the blocks: round, previous block, author, payload
          store, tail,     \* the block bucket of a node, and its TailHash
          at, draft,       \* how far a proposal is, and the round and link it has read
          queue,           \* LocalDataBlockQueue of a node, from the block being sent on
          serving,         \* peers to which that block has not gone yet
          phase, answer,   \* joining: as in module TableNet
          down,            \* nodes that have ended themselves
          \* what happened so far, for the properties only:
          seedless,        \* nodes that ended over a seed
          moved,           \* proposing nodes whose tail has moved since their proposal began
          raced,           \* blocks that were proposed while the tail moved
          lagging,         \* a block was made while one of another author was under way, or by
                           \* a node that was not in step
          unsent,          \* <<node, block>>: the author had not the node in its list, or ended or
                           \* lost the block before it went there
          mixed,           \* two distributors of a node were at its queue at the same time
          early,           \* joiners that were given a block before their synchronisation, or whose
                           \* partner had not every block in its line
          crossed          \* ... and while they appended the answer

ledger == <<made, store, tail>>
ending == <<down, seedless>>
proposing == <<at, draft, moved, raced, lagging>>
sending == <<queue, serving, unsent, mixed>>
joining == <<members, phase, answer, early, crossed>>
vars == <<ledger, proposing, sending, joining, ending>>

Block == 0 .. Len(made)
Member == {n \in Node : phase[n] # "out"}
RoundOf(b) == IF b = 0 THEN 0 ELSE made[b].round
PrevOf(b) == IF b = 0 THEN -1 ELSE made[b].prev
Last(n) == RoundOf(tail[n])

\* A block as it is kept and sent.  (Seed, Proof and Author, which nothing here
\* reads, are lost when a block is sent, and where a node then looks for a seed.)
DataBlock == [round : Nat, prev : Nat, by : Node, payload : Payload,
              root : {GetMerkleRoot(p) : p \in Payload}]

Unread == [round |-> 0, prev |-> 0]

TypeOK ==
    /\ MembersOK
    /\ made \in Seq(DataBlock)
    /\ store \in [Node -> SUBSET Block]
    /\ tail \in [Node -> Block] /\ \A n \in Node : tail[n] \in store[n]
    /\ at \in [Node -> {"idle", "round", "seed", "init", "agree"}]
    /\ draft \in [Node -> [round : Nat, prev : Nat]]
    /\ queue \in [Node -> Seq(Block \ {0})] /\ serving \in [Node -> SUBSET Node]
    /\ unsent \subseteq Node \X Block /\ mixed \in BOOLEAN
    /\ phase \in [Node -> {"out", "joined", "append", "in"}] /\ answer \in [Node -> SUBSET Block]
    /\ seedless \subseteq down /\ down \cup moved \cup early \cup crossed \subseteq Node /\ raced \subseteq Block /\ lagging \in BOOLEAN

Init ==
    /\ MembersInit
    /\ made = <<>> /\ store = [n \in Node |-> {0}] /\ tail = [n \in Node |-> 0]
    /\ at = [n \in Node |-> "idle"] /\ draft = [n \in Node |-> Unread]
    /\ queue = [n \in Node |-> <<>>] /\ serving = [n \in Node |-> {}]
    /\ unsent = {} /\ mixed = FALSE
    /\ phase = [n \in Node |-> IF n \in Joiner THEN "out" ELSE "in"]
    /\ answer = [n \in Node |-> {}]
    /\ down = {} /\ seedless = {} /\ moved = {} /\ raced = {} /\ lagging = FALSE /\ early = {} /\ crossed = {}

-----------------------------------------------------------------------------
(* An operator with an underscore in its name is a mutant.                     *)

Missing == -2
NotFound == -1

GetByRound_Strict(n, r) ==
    LET back[b \in Block] ==
            IF RoundOf(b) = r THEN b
            ELSE IF PrevOf(b) \notin store[n] THEN Missing
            ELSE IF RoundOf(PrevOf(b)) = 1 THEN NotFound
            ELSE back[PrevOf(b)]
    IN IF Last(n) <= r THEN NotFound ELSE back[tail[n]]

GetByRound_StopAtTwo(n, r) ==
    LET back[b \in Block] ==
            IF RoundOf(b) = r THEN b
            ELSE IF PrevOf(b) \notin store[n] THEN Missing
            ELSE IF RoundOf(PrevOf(b)) = 2 THEN NotFound
            ELSE back[PrevOf(b)]
    IN IF Last(n) < r THEN NotFound ELSE back[tail[n]]

\* GetByRound: back from the tail; a block that is not in the file ends the
\* process, and the first block of round 1 it comes to ends the search, whatever
\* the round it is searching.
GetByRound(n, r) ==
    LET back[b \in Block] ==
            IF RoundOf(b) = r THEN b
            ELSE IF PrevOf(b) \notin store[n] THEN Missing
            ELSE IF RoundOf(PrevOf(b)) = 1 THEN NotFound
            ELSE back[PrevOf(b)]
    IN IF Last(n) < r THEN NotFound ELSE back[tail[n]]

\* SortitionSeed takes the block before the last multiple of R; there is none in
\* the first rounds.
SeedRound(round) == round - 1 - (round % R)
SeedFails(n, round) == SeedRound(round) > 0 /\ GetByRound(n, SeedRound(round)) < 0

Appended_NotBusy(n, b) ==
    IF at[n] \in {"round", "seed", "init"} THEN UNCHANGED <<store, tail>>
    ELSE store' = [store EXCEPT ![n] = @ \cup {b}] /\ tail' = [tail EXCEPT ![n] = b]

\* AddBlockToChain
Appended(n, b) ==
    /\ store' = [store EXCEPT ![n] = @ \cup {b}]
    /\ tail' = [tail EXCEPT ![n] = b]

\* The blocks of n that are still in its queue, and all that have not gone to a peer yet.
Waiting(n) == {queue[n][i] : i \in (IF serving[n] = {} THEN 1 ELSE 2) .. Len(queue[n])}
Pending(n) ==
    (IF serving[n] = {} THEN {} ELSE serving[n] \X {queue[n][1]}) \cup Others(n) \X Waiting(n)

\* The processes of D end, with what is in their queues.
Ends(D) ==
    /\ down' = down \cup D
    /\ queue' = [n \in Node |-> IF n \in D THEN <<>> ELSE queue[n]]
    /\ serving' = [n \in Node |-> IF n \in D THEN {} ELSE serving[n]]
    /\ unsent' = unsent \cup UNION {Pending(n) : n \in D}
    /\ UNCHANGED mixed

-----------------------------------------------------------------------------
(* A proposal, from the sortition to the end of the agreement.                 *)

Done(n) == draft' = [draft EXCEPT ![n] = Unread] /\ moved' = moved \ {n}
Moved(n) == moved' = moved \cup {x \in {n} : at[n] # "idle"}

Step(n, from, to) == n \notin down /\ at[n] = from /\ at' = [at EXCEPT ![n] = to]
Seedless(n, from) ==
    n \notin down /\ at[n] = from /\ Ends({n}) /\ seedless' = seedless \cup {n}

\* The sortition selects n, with the seed of the round behind its tail.
Sortition(n) ==
    /\ n \in Proposer \cap Member /\ Len(made) < MaxBlocks
    /\ IF SeedFails(n, Last(n) + 1)
       THEN Seedless(n, "idle") /\ UNCHANGED at
       ELSE Step(n, "idle", "round") /\ UNCHANGED <<sending, ending>>
    /\ UNCHANGED <<ledger, draft, moved, raced, lagging, joining>>

\* proposeBlock: the round ...
Round(n) ==
    /\ Step(n, "round", "seed") /\ draft' = [draft EXCEPT ![n].round = Last(n) + 1]
    /\ UNCHANGED <<ledger, moved, raced, lagging, sending, joining, ending>>

\* ... the seed of the block before it (vrfSeed) ...
vrfSeed(n) ==
    /\ IF GetByRound(n, draft[n].round - 1) < 0
       THEN Seedless(n, "seed") /\ UNCHANGED at
       ELSE Step(n, "seed", "init") /\ UNCHANGED <<sending, ending>>
    /\ UNCHANGED <<ledger, draft, moved, raced, lagging, joining>>

\* ... and the link, read last (InitBlock).
InitBlock(n) ==
    /\ Step(n, "init", "agree") /\ draft' = [draft EXCEPT ![n].prev = tail[n]]
    /\ UNCHANGED <<ledger, moved, raced, lagging, sending, joining, ending>>

\* Neither joining nor joined with what it was given in the wrong order, and sent
\* every block.
Reached(n) == \A b \in Block : <<n, b>> \notin unsent
InStep(n) == phase[n] = "in" /\ n \notin early \cup crossed /\ Reached(n)

\* The agreement returns the own block: it is appended and queued for the others.
Win(n, p) ==
    LET b == Len(made) + 1
    IN /\ Step(n, "agree", "idle") /\ Done(n) /\ b <= MaxBlocks
       /\ made' = Append(made, [round |-> draft[n].round, prev |-> draft[n].prev, by |-> n,
                               payload |-> p, root |-> GetMerkleRoot(p)])
       /\ Appended(n, b)
       /\ queue' = [queue EXCEPT ![n] = Append(@, b)]
       /\ unsent' = unsent \cup (Member \ known[n]) \X {b}
       /\ raced' = raced \cup {x \in {b} : n \in moved}
       /\ lagging' = (lagging \/ n \in moved \/ ~ InStep(n) \/ \E m \in Node \ {n} : queue[m] # <<>>)
       /\ UNCHANGED <<serving, mixed, joining, ending>>

\* It returns the block of another node, or an empty one.
Lose(n) ==
    /\ Step(n, "agree", "idle") /\ Done(n)
    /\ UNCHANGED <<ledger, raced, lagging, sending, joining, ending>>

\* CheckDataBlock: a wrong Merkle root ends the process.  A wrong transaction is only
\* mentioned in the answer; the block is appended all the same.
CheckDataBlock(b) == b = 0 \/ made[b].root = GetMerkleRoot(made[b].payload)

\* The distributor takes a block, and looks up the peers it is for.
Take(n) ==
    /\ queue[n] # <<>> /\ serving[n] = {}
    /\ serving' = [serving EXCEPT ![n] = Others(n)]
    /\ queue' = IF Others(n) = {} THEN [queue EXCEPT ![n] = Tail(@)] ELSE queue
    /\ UNCHANGED <<ledger, proposing, unsent, mixed, joining, ending>>

\* What the call with b does at m.
Receives(m, b) ==
    /\ Appended(m, b) /\ Moved(m)
    /\ early' = early \cup {x \in {m} : phase[m] = "joined"}
    /\ crossed' = crossed \cup {x \in {m} : phase[m] = "append"}
    /\ UNCHANGED <<made, at, draft, raced, lagging, members, phase, answer, ending>>

\* A call that fails ends the caller.
DistributeDataBlock(n, m) ==
    LET b == queue[n][1]
        rest == serving[n] \ {m}
    IN /\ queue[n] # <<>> /\ m \in serving[n]
       /\ IF m \notin down /\ CheckDataBlock(b)
          THEN /\ Receives(m, b)
               /\ queue' = IF rest = {} THEN [queue EXCEPT ![n] = Tail(@)] ELSE queue
               /\ serving' = [serving EXCEPT ![n] = rest]
               /\ UNCHANGED <<unsent, mixed>>
          ELSE Ends({n, m}) /\ UNCHANGED <<ledger, proposing, joining, seedless>>

-----------------------------------------------------------------------------
(* server/cmd.go starts one more distributor for each command line.  As long as never
   two of them are at work at once they are like one; when they are, the queue may do
   what it does in module TableNet.                                               *)

\* A block of n goes to a peer again, or too soon.
Again(n, m) ==
    /\ n \notin down /\ m \in Others(n) \ down /\ mixed' = TRUE
    /\ \E b \in DOMAIN made : made[b].by = n /\ CheckDataBlock(b) /\ Receives(m, b)
    /\ UNCHANGED <<queue, serving, unsent>>

\* The second one unlinks what came behind the block of the first.
CutOff(n) ==
    /\ Waiting(n) # {} /\ mixed' = TRUE
    /\ queue' = [queue EXCEPT ![n] = IF serving[n] = {} THEN <<>> ELSE <<@[1]>>]
    /\ unsent' = unsent \cup Others(n) \X Waiting(n)
    /\ UNCHANGED <<ledger, proposing, serving, joining, ending>>

\* The second one finds no block, or a peer that has ended.
NilBlock(n) ==
    /\ n \notin down /\ (\E b \in DOMAIN made : made[b].by = n)
    /\ Ends({n}) /\ UNCHANGED <<ledger, proposing, joining, seedless>>

-----------------------------------------------------------------------------
\* n joins through c; if a member does not answer BroadCast, n ends.
Join(n, c) ==
    /\ n \notin down /\ phase[n] = "out" /\ c \in Member \ down
    /\ Enlist(n, c)
    /\ phase' = [phase EXCEPT ![n] = "joined"]
    /\ down' = IF known[c] \cap down = {} THEN down ELSE down \cup {n}
    /\ UNCHANGED <<ledger, proposing, sending, answer, early, crossed, seedless>>

\* The blocks from the tail back to the one asked for; the iterator goes on to the block
\* that is not there if it does not meet that one.
Back(s, h) ==
    LET back[b \in Block] ==
            IF b = h THEN {} ELSE IF PrevOf(b) \in store[s] THEN {b} \cup back[PrevOf(b)] ELSE {Missing}
    IN back[tail[s]]

\* DataBlockSynchronization with a node that is marked as bookkeeper.  When that
\* node ends, the caller looks into the answer it did not get, and ends too.
Synchronise(n, s) ==
    /\ n \notin down /\ phase[n] = "joined" /\ s \in Others(n)
    /\ LET behind == Back(s, tail[n])
       IN IF s \in down \/ Missing \in behind
          THEN Ends({n, s}) /\ UNCHANGED <<joining, seedless>>
          ELSE /\ answer' = [answer EXCEPT ![n] = behind]
               /\ phase' = [phase EXCEPT ![n] = "append"]
               /\ early' = early \cup {x \in {n} : behind # Block \ {0}}
               /\ UNCHANGED <<members, crossed, sending, ending>>
    /\ UNCHANGED <<ledger, proposing>>

\* No node of the list is marked: nothing is asked.
NoSource(n) ==
    /\ n \notin down /\ phase[n] = "joined" /\ phase' = [phase EXCEPT ![n] = "in"]
    /\ early' = early \cup {x \in {n} : made # <<>>}
    /\ UNCHANGED <<ledger, proposing, sending, members, answer, crossed, ending>>

\* The answer comes from the tail back, and is appended the other way round.
FirstOf_Newest(S) == CHOOSE b \in S : \A c \in S : b >= c
FirstOf(S) == CHOOSE b \in S : \A c \in S : b <= c
AppendAnswer(n) ==
    /\ n \notin down /\ phase[n] = "append"
    /\ IF answer[n] = {}
       THEN phase' = [phase EXCEPT ![n] = "in"] /\ UNCHANGED <<answer, ledger, moved>>
       ELSE /\ Appended(n, FirstOf(answer[n])) /\ UNCHANGED <<made, phase>>
            /\ answer' = [answer EXCEPT ![n] = @ \ {FirstOf(answer[n])}]
            /\ Moved(n)
    /\ UNCHANGED <<at, draft, raced, lagging, sending, members, early, crossed, ending>>

Propose(n) == Sortition(n) \/ Round(n) \/ vrfSeed(n) \/ InitBlock(n) \/ Lose(n) \/ \E p \in Payload : Win(n, p)
Send(n) == Take(n) \/ \E m \in Node : DistributeDataBlock(n, m)
Mix(n) == (\E m \in Node : Again(n, m)) \/ CutOff(n) \/ NilBlock(n)
Enter(n) == (\E c \in Node : Join(n, c) \/ Synchronise(n, c)) \/ NoSource(n) \/ AppendAnswer(n)
Next == \E n \in Node : Propose(n) \/ Send(n) \/ Mix(n) \/ Enter(n)
Spec == Init /\ [][Next]_vars

-----------------------------------------------------------------------------
Coming(n) == answer[n] \cup {b \in Block : \E m \in Node : <<n, b>> \in Pending(m)}

\* A block without the one before it is a state of passage: that one is on its way
\* to the node, unless its author had not the node in its list, ended or lost it in its
\* queue, or the node was given a block before its synchronisation or synchronised
\* with none or with one that had not all (AddBlockToChain links nothing, and readers
\* walk over the links).
HoleIsComing ==
    \A n \in Node \ early : \A b \in store[n] \ {0} :
        made[b].prev \in store[n] \cup Coming(n) \/ <<n, made[b].prev>> \in unsent

\* What holds of every ledger, whoever moved a tail (AddBlockToChain).
Inv == TypeOK /\ HoleIsComing

\* The blocks a walk back from the tail of n meets.
Line(n) ==
    LET back[b \in Block] == {b} \cup (IF PrevOf(b) \in store[n] THEN back[PrevOf(b)] ELSE {})
    IN back[tail[n]]

\* A proposer ends itself over a seed only if the tail moved while it or the author
\* of an earlier block read it, or if a block is missing (vrfSeed, SortitionSeed).
SeedFound ==
    \A n \in seedless \ early :
            \/ n \in moved \/ raced # {}
            \/ \E b \in Line(n) \ {0} : made[b].prev \notin store[n]

\* GetByRound finds the block of every round from the second on, where a walk back
\* from the tail meets one (util.go:62; that rounds 0 and 1 are given up is in the code).
FindsRound ==
    \A n \in Node : \A r \in 2 .. MaxBlocks :
        LET b == GetByRound(n, r)
            of == {c \in Line(n) : RoundOf(c) = r}
        IN raced = {} /\ of # {} => of = {b}

\* While no author makes a block before those of the others have arrived everywhere, and
\* none that is not in step, and no two distributors are at a queue at once, in the end
\* every node that runs, has joined in order and was in the list of every author has all
\* blocks in one line, with the rounds counting up (AddBlockToChain, service.go:
\* nothing in the receiver looks at the link).
OneLine ==
    (\A n \in Node \ down : Coming(n) = {} /\ phase[n] # "joined") /\ ~ lagging /\ ~ mixed =>
        \A n \in Member \ (early \cup crossed \cup down) :
            Reached(n) => tail[n] = Len(made) /\ Line(n) = Block /\ Last(n) = Len(made)

\* Blocks with different transactions have different Merkle roots (CheckDataBlock);
\* not so if one goes on where the other ends with transactions that are there already.
Repeats(s, t) ==
    /\ Len(s) > Len(t) /\ SubSeq(s, 1, Len(t)) = t
    /\ \A i \in Len(t) + 1 .. Len(s) : \E k \in 1 .. Len(t) : s[i] = t[k]
RootBinds ==
    \A i, j \in DOMAIN made :
        LET s == made[i].payload
            t == made[j].payload
        IN s # t /\ ~ Repeats(s, t) /\ ~ Repeats(t, s) => made[i].root # made[j].root
=============================================================================
