------------------------------- MODULE BAStar -------------------------------
(* One round of the BA* agreement of algorand/algorand.go, as bookKeeperRun of *)
(* every proposer runs it: blockProposal, reduction, binaryBA, the count of    *)
(* the FINAL votes, and then the chain: the author of the block its own BA     *)
(* returned appends it and distributes it to the others.                       *)
(*                                                                             *)
(* The block that n proposes is named n, and so is its hash; Empty(t) is       *)
(* emptyHash(round, t) for the tail t; Nil is a nil hash.  Time is abstract:   *)
(* countVotes sleeps for its whole timeout and then looks once, so a count may *)
(* find any part of the votes sent so far.  A node that calls log.Panic or     *)
(* dereferences nil is "down", the whole process with it.                      *)
EXTENDS Naturals, Sequences, FiniteSets

CONSTANTS Node, Genesis, Nil,
          Prior,        \* Prior[n]: the priority of the proposal of n
          Weights,      \* Weights[s]: how many sub-users step s may select
          Threshold,    \* uint64(expectedNum * threshold), 2 for every step
          MaxSteps      \* util.MAXSTEPS

ReductionOne == 1001
ReductionTwo == 1002
FINAL == 1003
Steps == (1..(MaxSteps + 3)) \cup {ReductionOne, ReductionTwo, FINAL}

Tails == Node \cup {Genesis}
Empty(t) == [prev |-> t]
Hash == Node \cup {Nil} \cup {Empty(t) : t \in Tails}

ASSUME BAAssumption ==
    /\ Node # {} /\ Genesis \notin Node /\ Nil \notin Node
    /\ \A t \in Tails : Empty(t) \notin Node \cup {Nil}
    /\ Prior \in [Node -> Nat] /\ \A m, n \in Node : Prior[m] = Prior[n] => m = n
    /\ Threshold \in Nat \ {0} /\ MaxSteps \in 2..997
    /\ Weights \in [Steps -> SUBSET Nat]

VARIABLES
  pc,       \* where the node is in ProcessMain
  step,     \* step of binaryBA
  empty,    \* the local variable empty of reduction, then of binaryBA
  given,    \* the argument hash of binaryBA
  result,   \* what binaryBA returned
  kind,     \* the consensus type BA returned: "final", "tentative" or "none"
  voted,    \* votes cast in the round, those of weight 0 (not sent) included
  InVotes,  \* InVotes[n][s]: the votes of step s that reached n, in order
  chain     \* the blocks of this round that n appended

vars == <<pc, step, empty, given, result, kind, voted, InVotes, chain>>
local == <<step, empty, given, result, kind>>

Vote == [voter : Node, step : Steps, hash : Hash, weight : Nat, parent : Tails]
TailHash(n) == IF chain[n] = <<>> THEN Genesis ELSE chain[n][Len(chain[n])]
Counting == {"one", "two", "phase1", "phase2", "phase3", "final"}

Init ==
  /\ pc = [n \in Node |-> "idle"]
  /\ step = [n \in Node |-> 1]
  /\ empty = [n \in Node |-> Nil]
  /\ given = [n \in Node |-> Nil]
  /\ result = [n \in Node |-> Nil]
  /\ kind = [n \in Node |-> "none"]
  /\ voted = {}
  /\ InVotes = [n \in Node |-> [s \in Steps |-> <<>>]]
  /\ chain = [n \in Node |-> <<>>]

-----------------------------------------------------------------------------
(* The committee.  A sortition is a function of the key, the round and the    *)
(* step: a second vote for the same step has the weight of the first.         *)
Sortition(n, s) ==
  LET past == {v \in voted : v.voter = n /\ v.step = s}
  IN  IF past = {} THEN Weights[s] ELSE {v.weight : v \in past}

committeeVote(n, S, h) ==
  \E w \in {f \in [S -> UNION {Weights[s] : s \in S}] : \A s \in S : f[s] \in Sortition(n, s)} :
    voted' = voted \cup {[voter |-> n, step |-> s, hash |-> h,
                          weight |-> w[s], parent |-> TailHash(n)] : s \in S}

(* Gossip leaves the sender out, so a node never receives its own vote.       *)
Sent(n) == {v \in voted : v.voter # n /\ v.weight > 0}

Handled(n, s) == {InVotes[n][s][i] : i \in DOMAIN InVotes[n][s]}

(* Peer.Handle of a VOTE: each vote reaches each peer once, in any order.     *)
Handle(n) ==
  \E v \in Sent(n) :
    /\ pc[n] # "down" /\ v \notin Handled(n, v.step)
    /\ InVotes' = [InVotes EXCEPT ![n][v.step] = Append(@, v)]
    /\ UNCHANGED <<pc, local, voted, chain>>

(* countVotes: the first vote of every voter whose parent is the tail now.    *)
Counted(n, s) ==
  LET box == InVotes[n][s]
      ours(i) == box[i].parent = TailHash(n)
  IN  {i \in DOMAIN box :
         ours(i) /\ \A j \in 1..(i - 1) : ~ (ours(j) /\ box[j].voter = box[i].voter)}

(* The sub-users that stand behind the hash of the i-th vote, up to it.       *)
Support(n, s, i) ==
  {u \in Counted(n, s) \X UNION {1..w : w \in Weights[s]} :
     /\ u[1] <= i /\ u[2] <= InVotes[n][s][u[1]].weight
     /\ InVotes[n][s][u[1]].hash = InVotes[n][s][i].hash}

(* BytesToInt32 of a nil hash panics.                                         *)
CountPanics(n, s) == \E i \in Counted(n, s) : InVotes[n][s][i].hash = Nil

(* errCountVotesTimeout comes back only when no vote at all has arrived.      *)
Timeout(n, s) == InVotes[n][s] = <<>>

(* The hash of the last counted vote that finds its hash over the threshold;  *)
(* nil when votes came and none is.                                           *)
countVotes(n, s) ==
  LET over == {i \in Counted(n, s) : Cardinality(Support(n, s, i)) >= Threshold}
      last == {i \in over : \A j \in over : j <= i}
  IN  IF last = {} THEN Nil ELSE InVotes[n][s][CHOOSE i \in last : TRUE].hash

(* n is at the end of countVotes for step s, called at label l.               *)
At(n, l, s) == pc[n] = l /\ ~ CountPanics(n, s)
Goto(n, l) == pc' = [pc EXCEPT ![n] = l]

CurrentStep(n) ==
  CASE pc[n] = "one" -> ReductionOne
    [] pc[n] = "two" -> ReductionTwo
    [] pc[n] = "final" -> FINAL
    [] OTHER -> step[n]

Panic(n) ==
  /\ pc[n] \in Counting /\ CountPanics(n, CurrentStep(n))
  /\ Goto(n, "down")
  /\ UNCHANGED <<local, voted, InVotes, chain>>

-----------------------------------------------------------------------------
(* An operator with an underscore in its name is a mutant: the definition that *)
(* follows it, with a bug the properties below must catch.                     *)

(* blockProposal: the block is gossiped at once, and the node waits.          *)
Propose(n) ==
  /\ pc[n] = "idle" /\ Goto(n, "proposing")
  /\ UNCHANGED <<local, voted, InVotes, chain>>

(* n goes on with the best proposal b that has reached it; when the block of  *)
(* b does not come in time, with an empty block, whose hash is nil.           *)
Choose(n) ==
  /\ pc[n] = "proposing" /\ Goto(n, "one")
  /\ \E b \in {m \in Node : pc[m] # "idle" /\ Prior[m] >= Prior[n]} :
       \E h \in {b} \cup (IF b = n THEN {} ELSE {Nil}) :
         committeeVote(n, {ReductionOne}, h)
  /\ UNCHANGED <<local, InVotes, chain>>

ReduceOne(n) ==
  /\ At(n, "one", ReductionOne) /\ Goto(n, "two")
  /\ empty' = [empty EXCEPT ![n] = Empty(TailHash(n))]
  /\ committeeVote(n, {ReductionTwo},
       IF Timeout(n, ReductionOne) THEN empty'[n] ELSE countVotes(n, ReductionOne))
  /\ UNCHANGED <<step, given, result, kind, InVotes, chain>>

(* The end of reduction and the first lines of binaryBA.                      *)
ReduceTwo(n) ==
  /\ At(n, "two", ReductionTwo) /\ Goto(n, "phase1")
  /\ given' = [given EXCEPT ![n] =
       IF Timeout(n, ReductionTwo) THEN empty[n] ELSE countVotes(n, ReductionTwo)]
  /\ empty' = [empty EXCEPT ![n] = Empty(TailHash(n))]
  /\ step' = [step EXCEPT ![n] = 1]
  /\ committeeVote(n, {1}, given'[n])
  /\ UNCHANGED <<result, kind, InVotes, chain>>

(* binaryBA returns h: its votes for the next three steps are cast, and after *)
(* the first step a vote for FINAL.                                           *)
Decide(n, h) ==
  /\ Goto(n, "final") /\ result' = [result EXCEPT ![n] = h]
  /\ committeeVote(n, ((step[n] + 1)..(step[n] + 3))
       \cup (IF pc[n] = "phase1" /\ step[n] = 1 THEN {FINAL} ELSE {}), h)
  /\ UNCHANGED <<step, empty, given, kind, InVotes, chain>>

(* binaryBA goes on to the next count, with r.                                *)
GoOn(n, l, s, r) ==
  /\ Goto(n, l) /\ step' = [step EXCEPT ![n] = s]
  /\ committeeVote(n, {s}, r)
  /\ UNCHANGED <<empty, given, result, kind, InVotes, chain>>

Phase1_Own(n) ==
  LET h == countVotes(n, step[n])
      timeout == Timeout(n, step[n])
  IN  /\ At(n, "phase1", step[n])
      /\ \/ ~ timeout /\ h # empty[n] /\ Decide(n, n)
         \/ timeout /\ GoOn(n, "phase2", step[n] + 1, given[n])
         \/ ~ timeout /\ h = empty[n] /\ GoOn(n, "phase2", step[n] + 1, h)

Phase1(n) ==
  LET h == countVotes(n, step[n])
      timeout == Timeout(n, step[n])
  IN  /\ At(n, "phase1", step[n])
      /\ \/ ~ timeout /\ h # empty[n] /\ Decide(n, h)
         \/ timeout /\ GoOn(n, "phase2", step[n] + 1, given[n])
         \/ ~ timeout /\ h = empty[n] /\ GoOn(n, "phase2", step[n] + 1, h)

Phase2(n) ==
  LET h == countVotes(n, step[n])
      timeout == Timeout(n, step[n])
  IN  /\ At(n, "phase2", step[n])
      /\ \/ ~ timeout /\ h = empty[n] /\ Decide(n, h)
         \/ timeout /\ GoOn(n, "phase3", step[n] + 1, empty[n])
         \/ ~ timeout /\ h # empty[n] /\ GoOn(n, "phase3", step[n] + 1, h)

(* The third phase does not advance step.  commonCoin reads the list nobody   *)
(* fills, and is always 0.                                                    *)
Phase3(n) ==
  LET r == IF Timeout(n, step[n]) THEN given[n] ELSE countVotes(n, step[n])
  IN  /\ At(n, "phase3", step[n])
      /\ \/ step[n] < MaxSteps /\ GoOn(n, "phase1", step[n], r)
         \/ /\ step[n] >= MaxSteps /\ Goto(n, "hung")
            /\ UNCHANGED <<local, voted, InVotes, chain>>

(* The end of BA, and what bookKeeperRun does with the block: the node that   *)
(* proposed it appends it.  Any block but its own may not have come.          *)
Finish_TimeoutIsFinal(n) ==
  LET r == IF Timeout(n, FINAL) THEN result[n] ELSE countVotes(n, FINAL)
  IN  /\ At(n, "final", FINAL) /\ Goto(n, "done")
      /\ result[n] \in Node \cup {Empty(TailHash(n))}
      /\ kind' = [kind EXCEPT ![n] = IF r = result[n] THEN "final" ELSE "tentative"]
      /\ chain' = IF result[n] = n THEN [chain EXCEPT ![n] = Append(@, n)] ELSE chain
      /\ UNCHANGED <<step, empty, given, result, voted, InVotes>>

Finish(n) ==
  LET r == IF Timeout(n, FINAL) THEN Nil ELSE countVotes(n, FINAL)
  IN  /\ At(n, "final", FINAL) /\ Goto(n, "done")
      /\ result[n] \in Node \cup {Empty(TailHash(n))}
      /\ kind' = [kind EXCEPT ![n] = IF r = result[n] THEN "final" ELSE "tentative"]
      /\ chain' = IF result[n] = n THEN [chain EXCEPT ![n] = Append(@, n)] ELSE chain
      /\ UNCHANGED <<step, empty, given, result, voted, InVotes>>

(* getBlock finds nothing and BA writes to a nil block.                       *)
FinishPanic(n) ==
  /\ At(n, "final", FINAL) /\ Goto(n, "down")
  /\ result[n] \notin {n, Empty(TailHash(n))}
  /\ UNCHANGED <<local, voted, InVotes, chain>>

Author(n) == pc[n] = "done" /\ result[n] = n
Holds(n, b) == \E i \in DOMAIN chain[n] : chain[n][i] = b

(* DistributeDataBlock at n of the block of m: appended whatever n decided.   *)
Receive(n) ==
  /\ pc[n] # "down"
  /\ \E m \in Node \ {n} :
       /\ Author(m) /\ ~ Holds(n, m)
       /\ chain' = [chain EXCEPT ![n] = Append(@, m)]
  /\ UNCHANGED <<pc, local, voted, InVotes>>

(* A call to a node that is down fails, and the caller panics.                *)
Fall(n) ==
  /\ pc[n] # "down" /\ Goto(n, "down")
  /\ \E m \in Node \ {n} :
       /\ pc[m] = "down"
       /\ \/ pc[n] = "proposing"
          \/ \E v \in Sent(m) : v.voter = n /\ v \notin Handled(m, v.step)
          \/ Author(n) /\ ~ Holds(m, n)
  /\ UNCHANGED <<local, voted, InVotes, chain>>

Move(n) ==
  \/ Handle(n) \/ Propose(n) \/ Choose(n) \/ ReduceOne(n) \/ ReduceTwo(n)
  \/ Phase1(n) \/ Phase2(n) \/ Phase3(n) \/ Finish(n)
  \/ Panic(n) \/ FinishPanic(n) \/ Receive(n) \/ Fall(n)

Next == \E n \in Node : Move(n)

Spec == Init /\ [][Next]_vars

-----------------------------------------------------------------------------
Decided(n) == pc[n] \in {"final", "done", "down"}

TypeOK ==
  /\ pc \in [Node -> {"idle", "proposing", "hung", "done", "down"} \cup Counting]
  /\ step \in [Node -> 1..(MaxSteps + 1)]
  /\ empty \in [Node -> Hash] /\ given \in [Node -> Hash] /\ result \in [Node -> Hash]
  /\ kind \in [Node -> {"none", "final", "tentative"}]
  /\ voted \subseteq Vote
  /\ InVotes \in [Node -> [Steps -> Seq(Vote)]]
  /\ chain \in [Node -> Seq(Node)]

(* A node that reports final consensus on a hash was seconded: another node   *)
(* returned the same hash, out of the first step of its binaryBA              *)
(* (algorand.go BA, and the FINAL vote of binaryBA).                          *)
FinalIsSeconded ==
  \A n \in Node : kind[n] = "final" =>
    \E m \in Node \ {n} : result[m] = result[n] /\ step[m] = 1 /\ Decided(m)

(* Two nodes that both report final consensus report it on the same block, as *)
(* long as no more than three nodes take part (algorand.go BA).               *)
FinalAgreement ==
  \A m, n \in Node : kind[m] = "final" /\ kind[n] = "final" => result[m] = result[n]

(* When every node that has entered binaryBA was given the same block, no     *)
(* other block comes out of it, however the votes are delayed: a node returns *)
(* that block, an empty one, or nothing usable (binaryBA).                    *)
AllGiven(b) == \A n \in Node : given[n] \in {b, Nil}
Unanimity ==
  \A b \in Node : AllGiven(b) => \A n \in Node : result[n] \notin Node \ {b}

(* The inductive invariant, next to TypeOK.  A vote is in a box because its   *)
(* voter sent it; a FINAL vote is cast only for what its voter returned in the first step,   *)
(* and stands for ever; as long as one block only was given, the votes of     *)
(* binaryBA are for no other block.                                           *)
VotesWereSent == \A n \in Node, s \in Steps :
  \A v \in Handled(n, s) : v \in voted /\ v.voter # n /\ v.step = s
FinalVotes == \A v \in voted : v.step = FINAL =>
  result[v.voter] = v.hash /\ step[v.voter] = 1 /\ Decided(v.voter)
StepOfPhase == \A n \in Node :
  /\ pc[n] = "phase1" => step[n] < MaxSteps
  /\ pc[n] = "phase2" => step[n] <= MaxSteps
NotGivenYet == \A n \in Node :
  pc[n] \in {"idle", "proposing", "one", "two"} => given[n] = Nil
KindIsLast == \A n \in Node : kind[n] # "none" => Decided(n)
EmptyIsNoBlock == \A n \in Node : empty[n] \notin Node
OneBlockVotes == \A b \in Node : AllGiven(b) =>
  \A v \in voted : v.step \notin {ReductionOne, ReductionTwo} => v.hash \notin Node \ {b}

IInv ==
  /\ VotesWereSent /\ StepOfPhase /\ FinalVotes /\ FinalIsSeconded
  /\ NotGivenYet /\ KindIsLast /\ EmptyIsNoBlock /\ OneBlockVotes /\ Unanimity
=============================================================================
