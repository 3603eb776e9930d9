-------------------------------- MODULE Raft --------------------------------
(* The election of the bookkeeper (Raft/raft.go, Raft/rpc.go, Raft/server.go).

   Each node runs, besides its RPC handlers, a heartbeat goroutine, a heartbeat
   time-out detector, the loop that publishes the bookkeeping right, and any
   number of campaign goroutines (tryToBeCandidateWithElection): one from Start
   and one more for every heartbeat time-out.  They share the fields of the Raft
   struct; the lock covers one assignment at a time, so a test and the assignment
   after it are separate steps.  Assignments that follow one another without a
   test or a call between them are one step.

   A term is never sent to another node and nothing is persisted but the
   bookkeeping flags of the cluster file.  Time is abstracted: a time-out may
   fire whenever its timer runs, because no RPC has a deadline.               *)
EXTENDS Integers, FiniteSets

CONSTANTS Node, None,
          Peers,         \* Peers[n]: the other nodes in n's cluster file
          NodeCount,     \* NodeCount[n]: len(Cluster.LocalNode.Node) when n started
          MaxTerm,       \* bound: campaigns a node starts between two restarts
          MaxFaults      \* bound: time-outs, restarts, failed calls and lost answers

ASSUME RaftAssumption ==
    /\ IsFiniteSet(Node) /\ None \notin Node
    /\ Peers \in [Node -> SUBSET Node] /\ \A n \in Node : n \notin Peers[n]
    /\ NodeCount \in [Node -> Nat]
    /\ MaxTerm \in Nat /\ MaxFaults \in Nat

VARIABLES state, votedFor, currentLeader, vote, currentTerm,
          heard,      \* lastSendHeartBeatTime # 0
          beating,    \* the heartbeat goroutine has left its channel
          sleeping,   \* campaign goroutines in becomeCandidate's sleep,
          passed,     \*   past its test,
          electing,   \*   in the select loop of election,
          winning,    \*   past the majority test
          poll,       \* poll[n][t]: the goroutine broadcasting Raft.Vote for term t
          confirm,    \* confirm[n]: peers n's ConfirmationLeader broadcast has yet to call
          account,    \* account[n]: the nodes n's cluster file marks as bookkeeper
          isAccount,  \* util.LocalIsAccount
          castFor,    \* history: castFor[v] is every candidate v has voted for
          recast,     \* history: some node voted a second time
          faults      \* time-outs, restarts, failed calls and lost answers so far

server == <<state, votedFor, currentLeader, vote, currentTerm, heard>>
routines == <<beating, sleeping, passed, electing, winning>>
books == <<account, isAccount>>
history == <<castFor, recast>>
vars == <<server, routines, poll, confirm, books, history, faults>>

Follower == 0
Candidate == 1
Leader == 2

Term == 1 .. MaxTerm
Poll == [stage : {"off", "next", "granting", "reply"}, todo : SUBSET Node,
         peer : Node \cup {None}, ok : BOOLEAN]
NoPoll == [stage |-> "off", todo |-> {}, peer |-> None, ok |-> FALSE]

TypeServer ==
    /\ state \in [Node -> {Follower, Candidate, Leader}]
    /\ votedFor \in [Node -> Node \cup {None}]
    /\ currentLeader \in [Node -> Node \cup {None}]
    /\ vote \in [Node -> Nat]
    /\ currentTerm \in [Node -> 0 .. MaxTerm]
    /\ heard \in [Node -> BOOLEAN]
TypeRoutines ==
    /\ beating \in [Node -> BOOLEAN]
    /\ sleeping \in [Node -> Nat] /\ passed \in [Node -> Nat]
    /\ electing \in [Node -> Nat] /\ winning \in [Node -> Nat]
TypePoll ==
    /\ poll \in [Node -> [Term -> Poll]]
    /\ \A n \in Node, t \in Term :
          /\ poll[n][t].todo \subseteq Peers[n]
          /\ poll[n][t].stage \in {"granting", "reply"} => poll[n][t].peer \in Peers[n]
          /\ poll[n][t].stage = "granting" => ~ poll[n][t].ok
TypeBooks ==
    /\ confirm \in [Node -> SUBSET Node]
    /\ account \in [Node -> SUBSET Node] /\ isAccount \in [Node -> BOOLEAN]
TypeHistory ==
    /\ castFor \in [Node -> SUBSET Node]
    /\ recast \in BOOLEAN /\ faults \in 0 .. MaxFaults

TypeOK == TypeServer /\ TypeRoutines /\ TypePoll /\ TypeBooks /\ TypeHistory

Init ==
    /\ state = [n \in Node |-> Follower]
    /\ votedFor = [n \in Node |-> None]
    /\ currentLeader = [n \in Node |-> None]
    /\ vote = [n \in Node |-> 0]
    /\ currentTerm = [n \in Node |-> 0]
    /\ heard = [n \in Node |-> FALSE] /\ beating = [n \in Node |-> FALSE]
    /\ sleeping = [n \in Node |-> 1] /\ passed = [n \in Node |-> 0]
    /\ electing = [n \in Node |-> 0] /\ winning = [n \in Node |-> 0]
    /\ poll = [n \in Node |-> [t \in Term |-> NoPoll]]
    /\ confirm = [n \in Node |-> {}]
    /\ account = [n \in Node |-> {}] /\ isAccount = [n \in Node |-> FALSE]
    /\ castFor = [n \in Node |-> {}] /\ recast = FALSE /\ faults = 0

-----------------------------------------------------------------------------
(* An operator with an underscore in its name is a mutant: the definition that
   follows it, with a bug the properties below must catch.                     *)

Set(f, n, v) == f' = [f EXCEPT ![n] = v]
Move(from, to, n) == from[n] > 0 /\ Set(from, n, from[n] - 1) /\ Set(to, n, to[n] + 1)

\* reDefault without setStatus(0).
reDefault_KeepState(n) == Set(vote, n, 0) /\ Set(votedFor, n, None) /\ UNCHANGED state
reDefault(n) == Set(vote, n, 0) /\ Set(votedFor, n, None) /\ Set(state, n, Follower)

\* History: v votes for n.  Voting for itself again with its own count reset to
\* 0 replaces the earlier vote and is not a second one.
Cast(v, n) ==
    /\ Set(castFor, v, castFor[v] \cup {n})
    /\ recast' = (recast \/ (castFor[v] # {} /\ ~ (v = n /\ castFor[v] = {n} /\ vote[n] = 0)))

Fault == faults < MaxFaults /\ faults' = faults + 1

NoLeaderNoVote(n) == currentLeader[n] = None /\ votedFor[n] = None

\* A campaign goroutine wakes: it goes on as a candidate, or ends.
WakeUp(n) ==
    /\ \/ /\ state[n] = Follower /\ NoLeaderNoVote(n)
          /\ Move(sleeping, passed, n)
       \/ /\ ~ (state[n] = Follower /\ NoLeaderNoVote(n))
          /\ sleeping[n] > 0 /\ Set(sleeping, n, sleeping[n] - 1) /\ UNCHANGED passed
    /\ UNCHANGED <<server, beating, electing, winning, poll, confirm, books, history, faults>>

\* A broadcast with the peers of todo still to call.
Asking(todo) ==
    IF todo = {} THEN NoPoll ELSE [stage |-> "next", todo |-> todo, peer |-> None, ok |-> FALSE]

\* The node votes for itself and starts broadcasting Raft.Vote.
BecomeCandidate(n) ==
    /\ currentTerm[n] < MaxTerm
    /\ Move(passed, electing, n)
    /\ Set(state, n, Candidate) /\ Set(votedFor, n, n) /\ Set(vote, n, vote[n] + 1)
    /\ Set(currentTerm, n, currentTerm[n] + 1)
    /\ Cast(n, n)
    /\ poll' = [poll EXCEPT ![n][currentTerm[n] + 1] = Asking(Peers[n])]
    /\ UNCHANGED <<currentLeader, heard, beating, sleeping, winning, confirm, books, faults>>

\* The broadcast calls peer p; p is unreachable, or its Vote handler refuses or
\* is about to consent.
CallVote(n, t, p) ==
    /\ poll[n][t].stage = "next" /\ p \in poll[n][t].todo
    /\ \E reached \in BOOLEAN :
         /\ IF reached THEN UNCHANGED faults ELSE Fault
         /\ poll' = [poll EXCEPT ![n][t] =
                      [stage |-> IF reached /\ NoLeaderNoVote(p) THEN "granting" ELSE "reply",
                       todo |-> @.todo \ {p}, peer |-> p, ok |-> FALSE]]
    /\ UNCHANGED <<server, routines, confirm, books, history>>

\* The peer's handler records its vote; the answer may be lost on the way.
Vote(n, t) ==
    /\ poll[n][t].stage = "granting"
    /\ Set(votedFor, poll[n][t].peer, n)
    /\ Cast(poll[n][t].peer, n)
    /\ \E ok \in BOOLEAN :
         /\ IF ok THEN UNCHANGED faults ELSE Fault
         /\ poll' = [poll EXCEPT ![n][t].stage = "reply", ![n][t].ok = ok]
    /\ UNCHANGED <<state, currentLeader, vote, currentTerm, heard, routines, confirm, books>>

\* A majority test that rounds down.
HasMajority_Half(n, votes) == votes >= NodeCount[n] \div 2
HasMajority(n, votes) == votes >= NodeCount[n] \div 2 + 1

\* An election loop that counts every answer.
Counted_All(ok) == 1
Counted(ok) == IF ok THEN 1 ELSE 0

\* An election loop of n receives an answer from voteChan, from whichever of n's
\* broadcasts is blocked on it, and looks at the count after every answer.
TakeVote(n, t) ==
    /\ electing[n] > 0 /\ poll[n][t].stage = "reply"
    /\ Set(vote, n, vote[n] + Counted(poll[n][t].ok))
    /\ IF HasMajority(n, vote'[n]) /\ currentLeader[n] = None
       THEN Move(electing, winning, n)
       ELSE UNCHANGED <<electing, winning>>
    /\ poll' = [poll EXCEPT ![n][t] = Asking(@.todo)]
    /\ UNCHANGED <<state, votedFor, currentLeader, currentTerm, heard, beating, sleeping, passed,
                   confirm, books, history, faults>>

\* No answer for electionTimeout seconds: give up and sleep again.
ElectionTimeout(n) ==
    /\ Move(electing, sleeping, n) /\ Fault
    /\ reDefault(n)
    /\ UNCHANGED <<currentLeader, currentTerm, heard, beating, passed, winning, poll, confirm,
                   books, history>>

\* The winner becomes leader, starts the ConfirmationLeader broadcast and the
\* heartbeats.  A second win blocks on heartChan for ever: nothing more happens.
Win(n) ==
    /\ winning[n] > 0 /\ Set(winning, n, winning[n] - 1)
    /\ Set(state, n, Leader) /\ Set(currentLeader, n, n)
    /\ Set(confirm, n, Peers[n])
    /\ Set(beating, n, TRUE)
    /\ UNCHANGED <<votedFor, vote, currentTerm, heard, sleeping, passed, electing, poll, books, history, faults>>

\* p's handler: n leads and keeps the books; p forgets its own campaign.
ConfirmationLeader(n, p) ==
    /\ p \in confirm[n] /\ Set(confirm, n, confirm[n] \ {p})
    /\ Set(currentLeader, p, n)
    /\ reDefault(p)
    /\ Set(account, p, {n} \cap (Peers[p] \cup {p}))
    /\ UNCHANGED <<currentTerm, heard, routines, poll, isAccount, history, faults>>

ConfirmationFail(n, p) ==
    /\ Fault
    /\ p \in confirm[n] /\ Set(confirm, n, confirm[n] \ {p})
    /\ UNCHANGED <<server, routines, poll, books, history>>

\* A heartbeat of n reaches p.
HeartBeatResponse(n, p) ==
    /\ beating[n] /\ p \in Peers[n]
    /\ Set(currentLeader, p, n) /\ Set(heard, p, TRUE)
    /\ UNCHANGED <<state, votedFor, vote, currentTerm, routines, poll, confirm, books, history, faults>>

\* The sender of a round of heartbeats stamps its own clock.
HeartBeatRound(n) ==
    /\ beating[n] /\ Set(heard, n, TRUE)
    /\ UNCHANGED <<state, votedFor, currentLeader, vote, currentTerm, routines, poll, confirm,
                   books, history, faults>>

\* heartTimeoutDetection: back to the defaults, and one more campaign.
HeartTimeout(n) ==
    /\ heard[n] /\ Fault
    /\ reDefault(n) /\ Set(currentLeader, n, None) /\ Set(heard, n, FALSE)
    /\ Set(sleeping, n, sleeping[n] + 1)
    /\ UNCHANGED <<currentTerm, beating, passed, electing, winning, poll, confirm, books, history>>

\* The bookkeeping right follows the state, and n's own flag in its file with it.
SetAccount(n) ==
    /\ Set(isAccount, n, state[n] = Leader)
    /\ Set(account, n, IF state[n] = Leader THEN account[n] \cup {n} ELSE account[n] \ {n})
    /\ UNCHANGED <<server, routines, poll, confirm, history, faults>>

\* The process of n ends and starts again: what was in memory is gone, calls to
\* it fail, and only the flags of the cluster file are left.
Restart(n) ==
    /\ Fault
    /\ reDefault(n) /\ Set(currentLeader, n, None) /\ Set(currentTerm, n, 0) /\ Set(heard, n, FALSE)
    /\ Set(beating, n, FALSE) /\ Set(sleeping, n, 1)
    /\ Set(passed, n, 0) /\ Set(electing, n, 0) /\ Set(winning, n, 0)
    /\ poll' = [m \in Node |-> [t \in Term |->
                  IF m = n THEN NoPoll
                  ELSE IF poll[m][t].stage = "granting" /\ poll[m][t].peer = n
                       THEN [poll[m][t] EXCEPT !.stage = "reply"]
                       ELSE poll[m][t]]]
    /\ Set(confirm, n, {}) /\ Set(isAccount, n, FALSE)
    /\ UNCHANGED <<account, castFor, recast>>

Campaign(n) == WakeUp(n) \/ BecomeCandidate(n) \/ ElectionTimeout(n) \/ Win(n)
Ballot(n, t) == Vote(n, t) \/ TakeVote(n, t) \/ \E p \in Node : CallVote(n, t, p)
Tell(n, p) == ConfirmationLeader(n, p) \/ ConfirmationFail(n, p) \/ HeartBeatResponse(n, p)
Timer(n) == HeartBeatRound(n) \/ HeartTimeout(n) \/ SetAccount(n) \/ Restart(n)

Next == \E n \in Node : \/ Campaign(n) \/ Timer(n)
                        \/ \E t \in Term : Ballot(n, t)
                        \/ \E p \in Node : Tell(n, p)

Spec == Init /\ [][Next]_vars

-----------------------------------------------------------------------------
\* The nodes that have voted for n, and those whose yes n has yet to receive.
Voters(n) == {v \in Node : n \in castFor[v]}
Yes(n, t) == poll[n][t].stage = "reply" /\ poll[n][t].ok
YesOnTheWay(n) == {v \in Node : \E t \in Term : Yes(n, t) /\ poll[n][t].peer = v}
Elected(n) == 2 * Cardinality(Voters(n)) > NodeCount[n]

\* While nobody has voted twice, every yes on its way is a vote cast, one vote is
\* on its way at most once, and the count of n is backed by votes received.
OneCandidate == \A v \in Node : \A m, n \in castFor[v] : m = n
Backed(n) ==
    /\ \A t \in Term : Yes(n, t) => poll[n][t].peer \in Voters(n) \ {n}
    /\ \A t, u \in Term :
          Yes(n, t) /\ Yes(n, u) /\ poll[n][t].peer = poll[n][u].peer => t = u
    /\ vote[n] <= Cardinality(Voters(n) \ YesOnTheWay(n))
CountIsBacked == OneCandidate /\ \A n \in Node : Backed(n)

\* Everything in the cluster that names a leader names an elected one.
LeadersAreElected ==
    \A n \in Node :
        /\ winning[n] > 0 \/ state[n] = Leader \/ beating[n] \/ confirm[n] # {} \/ isAccount[n]
           => Elected(n)
        /\ currentLeader[n] # None => Elected(currentLeader[n])
        /\ \A m \in account[n] : Elected(m)

IInv == TypeOK /\ (recast \/ (CountIsBacked /\ LeadersAreElected))

\* Every node that leads, believes it keeps the books, sends heartbeats or is
\* named as the leader or bookkeeper by any node.
Bookkeepers ==
    {m \in Node : \/ state[m] = Leader \/ isAccount[m] \/ beating[m]
                  \/ \E n \in Node : currentLeader[n] = m \/ m \in account[n]}

\* Raft/raft.go:183 with rpc.go:80: at most one node holds the bookkeeping right
\* and every node that knows a bookkeeper knows that one, as long as no node has
\* voted twice (nothing but votedFor keeps it from doing so: no term is compared
\* and nothing is persisted) and no node counts on a cluster smaller than it is.
OneBookkeeper ==
    ~ recast /\ (\A n \in Node : NodeCount[n] >= Cardinality(Node))
        => \A m, n \in Bookkeepers : m = n

\* A candidate always has an election loop that will end its candidacy: a node
\* cannot be left in the candidate state, refusing its vote for ever, however
\* its campaigns, the time-outs and the RPC handlers interleave.
NoStrandedCandidate ==
    \A n \in Node : state[n] = Candidate => electing[n] + winning[n] > 0
=============================================================================
