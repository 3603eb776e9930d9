----------------------------- MODULE RaftProofs -----------------------------
(* Theorems about Raft for every set of nodes, every view each of them has of the
   cluster (Peers, NodeCount) and every bound.                                 *)
EXTENDS Raft, FiniteSetTheorems, TLAPS

USE RaftAssumption DEF Term, Follower, Candidate, Leader, server, routines, books, history

\* The initial state is well typed.
LEMMA InitType == Init => TypeOK
<1> SUFFICES ASSUME Init PROVE TypeOK
  OBVIOUS
<1>1. NoPoll \in Poll
  BY DEF NoPoll, Poll
<1>2. TypePoll
  <2>1. poll = [n \in Node |-> [t \in Term |-> NoPoll]]
    BY DEF Init
  <2> QED
    BY <1>1, <2>1 DEF TypePoll, NoPoll
<1>3. TypeServer
  BY DEF Init, TypeServer
<1>4. TypeRoutines
  BY DEF Init, TypeRoutines
<1>5. TypeBooks
  BY DEF Init, TypeBooks
<1>6. TypeHistory
  <2>1. castFor \in [Node -> SUBSET Node]
    BY DEF Init
  <2>2. recast \in BOOLEAN
    BY DEF Init
  <2>3. faults \in 0 .. MaxFaults
    BY DEF Init
  <2> QED
    BY <2>1, <2>2, <2>3 DEF TypeHistory
<1> QED
  BY <1>2, <1>3, <1>4, <1>5, <1>6 DEF TypeOK

\* Every variable of the election keeps its type.
THEOREM TypeCorrect == Spec => []TypeOK
<1>1. Init => TypeOK
  BY InitType
<1>2. TypeOK /\ [Next]_vars => TypeOK'
  <2> SUFFICES ASSUME TypeOK, [Next]_vars PROVE TypeOK'
    OBVIOUS
  <2> USE DEF TypeOK, Set, Move, reDefault, Fault
  <2>1. ASSUME NEW n \in Node, WakeUp(n) PROVE TypeOK'
    <3>1. TypeServer'
      BY <2>1 DEF WakeUp, TypeServer
    <3>2. TypeRoutines'
      BY <2>1 DEF WakeUp, TypeRoutines
    <3>3. TypePoll'
      BY <2>1 DEF WakeUp, TypePoll
    <3>4. TypeBooks'
      BY <2>1 DEF WakeUp, TypeBooks
    <3>5. TypeHistory'
      BY <2>1 DEF WakeUp, TypeHistory
    <3> QED
      BY <3>1, <3>2, <3>3, <3>4, <3>5
  <2>2. ASSUME NEW n \in Node, BecomeCandidate(n) PROVE TypeOK'
    <3>1. TypeServer'
      BY <2>2 DEF BecomeCandidate, TypeServer
    <3>2. TypeRoutines'
      BY <2>2 DEF BecomeCandidate, TypeRoutines
    <3>3. TypePoll'
      <4>1. Asking(Peers[n]) \in Poll
        BY DEF Asking, NoPoll, Poll
      <4>2. /\ Asking(Peers[n]).stage \notin {"granting", "reply"}
            /\ Asking(Peers[n]).todo \subseteq Peers[n]
        BY DEF Asking, NoPoll
      <4> QED
        BY <2>2, <4>1, <4>2 DEF BecomeCandidate, TypePoll
    <3>4. TypeBooks'
      BY <2>2 DEF BecomeCandidate, TypeBooks
    <3>5. TypeHistory'
      BY <2>2 DEF BecomeCandidate, Cast, TypeHistory
    <3> QED
      BY <3>1, <3>2, <3>3, <3>4, <3>5
  <2>3. ASSUME NEW n \in Node, ElectionTimeout(n) PROVE TypeOK'
    <3>1. TypeServer'
      BY <2>3 DEF ElectionTimeout, TypeServer
    <3>2. TypeRoutines'
      BY <2>3 DEF ElectionTimeout, TypeRoutines
    <3>3. TypePoll'
      BY <2>3 DEF ElectionTimeout, TypePoll
    <3>4. TypeBooks'
      BY <2>3 DEF ElectionTimeout, TypeBooks
    <3>5. TypeHistory'
      BY <2>3 DEF ElectionTimeout, TypeHistory
    <3> QED
      BY <3>1, <3>2, <3>3, <3>4, <3>5
  <2>4. ASSUME NEW n \in Node, Win(n) PROVE TypeOK'
    <3>1. TypeServer'
      BY <2>4 DEF Win, TypeServer
    <3>2. TypeRoutines'
      BY <2>4 DEF Win, TypeRoutines
    <3>3. TypePoll'
      BY <2>4 DEF Win, TypePoll
    <3>4. TypeBooks'
      BY <2>4 DEF Win, TypeBooks
    <3>5. TypeHistory'
      BY <2>4 DEF Win, TypeHistory
    <3> QED
      BY <3>1, <3>2, <3>3, <3>4, <3>5
  <2>5. ASSUME NEW n \in Node, NEW t \in Term, NEW p \in Node, CallVote(n, t, p) PROVE TypeOK'
    <3>1. TypeServer'
      BY <2>5 DEF CallVote, TypeServer
    <3>2. TypeRoutines'
      BY <2>5 DEF CallVote, TypeRoutines
    <3>3. TypePoll'
      <4>1. PICK reached \in BOOLEAN : poll' = [poll EXCEPT ![n][t] =
                      [stage |-> IF reached /\ NoLeaderNoVote(p) THEN "granting" ELSE "reply",
                       todo |-> @.todo \ {p}, peer |-> p, ok |-> FALSE]]
        BY <2>5 DEF CallVote
      <4>2. [stage |-> IF reached /\ NoLeaderNoVote(p) THEN "granting" ELSE "reply",
             todo |-> poll[n][t].todo \ {p}, peer |-> p, ok |-> FALSE] \in Poll
        BY DEF Poll, TypePoll
      <4>3. p \in Peers[n] /\ poll[n][t].todo \ {p} \subseteq Peers[n]
        BY <2>5 DEF CallVote, TypePoll
      <4> QED
        BY <4>1, <4>2, <4>3 DEF TypePoll
    <3>4. TypeBooks'
      BY <2>5 DEF CallVote, TypeBooks
    <3>5. TypeHistory'
      BY <2>5 DEF CallVote, TypeHistory
    <3> QED
      BY <3>1, <3>2, <3>3, <3>4, <3>5
  <2>6. ASSUME NEW n \in Node, NEW t \in Term, Vote(n, t) PROVE TypeOK'
    <3>1. TypeServer'
      BY <2>6 DEF Vote, TypeServer
    <3>2. TypeRoutines'
      BY <2>6 DEF Vote, TypeRoutines
    <3>3. TypePoll'
      <4>1. PICK ok \in BOOLEAN :
              poll' = [poll EXCEPT ![n][t].stage = "reply", ![n][t].ok = ok]
        BY <2>6 DEF Vote
      <4>2. /\ [poll[n][t] EXCEPT !.stage = "reply", !.ok = ok] \in Poll
            /\ [poll[n][t] EXCEPT !.stage = "reply", !.ok = ok].peer \in Peers[n]
            /\ [poll[n][t] EXCEPT !.stage = "reply", !.ok = ok].todo \subseteq Peers[n]
        <5>1. poll[n][t] \in Poll /\ poll[n][t].peer \in Peers[n] /\ poll[n][t].todo \subseteq Peers[n]
          BY <2>6 DEF Vote, TypePoll
        <5> HIDE DEF TypePoll
        <5> QED
          BY <5>1 DEF Poll
      <4>3. poll' = [poll EXCEPT ![n] = [poll[n] EXCEPT ![t] =
                       [poll[n][t] EXCEPT !.stage = "reply", !.ok = ok]]]
        BY <4>1 DEF TypePoll, Poll
      <4> QED
        BY <4>2, <4>3 DEF TypePoll
    <3>4. TypeBooks'
      BY <2>6 DEF Vote, TypeBooks
    <3>5. TypeHistory'
      <4>1. poll[n][t].peer \in Node
        BY <2>6 DEF Vote, TypePoll
      <4>2. castFor' \in [Node -> SUBSET Node]
        BY <2>6, <4>1 DEF Vote, Cast, TypeHistory
      <4>3. recast' \in BOOLEAN
        BY <2>6 DEF Vote, Cast
      <4>4. faults' \in 0 .. MaxFaults
        BY <2>6 DEF Vote, TypeHistory
      <4> QED
        BY <4>2, <4>3, <4>4 DEF TypeHistory
    <3> QED
      BY <3>1, <3>2, <3>3, <3>4, <3>5
  <2>7. ASSUME NEW n \in Node, NEW t \in Term, TakeVote(n, t) PROVE TypeOK'
    <3>1. TypeServer'
      <4>1. vote[n] + Counted(poll[n][t].ok) \in Nat
        BY DEF Counted, TypeServer
      <4> QED
        BY <2>7, <4>1 DEF TakeVote, TypeServer
    <3>2. TypeRoutines'
      BY <2>7 DEF TakeVote, TypeRoutines
    <3>3. TypePoll'
      <4>1. Asking(poll[n][t].todo) \in Poll
        BY DEF Asking, NoPoll, Poll, TypePoll
      <4>2. /\ Asking(poll[n][t].todo).stage \notin {"granting", "reply"}
            /\ Asking(poll[n][t].todo).todo \subseteq Peers[n]
        BY DEF Asking, NoPoll, TypePoll
      <4> QED
        BY <2>7, <4>1, <4>2 DEF TakeVote, TypePoll
    <3>4. TypeBooks'
      BY <2>7 DEF TakeVote, TypeBooks
    <3>5. TypeHistory'
      BY <2>7 DEF TakeVote, TypeHistory
    <3> QED
      BY <3>1, <3>2, <3>3, <3>4, <3>5
  <2>8. ASSUME NEW n \in Node, NEW p \in Node, Tell(n, p) PROVE TypeOK'
    <3>1. TypeServer'
      <4>1. CASE ConfirmationLeader(n, p)
        BY <4>1 DEF ConfirmationLeader, TypeServer
      <4>2. CASE ConfirmationFail(n, p)
        BY <4>2 DEF ConfirmationFail, TypeServer
      <4>3. CASE HeartBeatResponse(n, p)
        BY <4>3 DEF HeartBeatResponse, TypeServer
      <4> QED
        BY <2>8, <4>1, <4>2, <4>3 DEF Tell
    <3>2. TypeRoutines'
      BY <2>8 DEF Tell, ConfirmationLeader, ConfirmationFail, HeartBeatResponse, TypeRoutines
    <3>3. TypePoll'
      BY <2>8 DEF Tell, ConfirmationLeader, ConfirmationFail, HeartBeatResponse, TypePoll
    <3>4. TypeBooks'
      BY <2>8 DEF Tell, ConfirmationLeader, ConfirmationFail, HeartBeatResponse, TypeBooks
    <3>5. TypeHistory'
      BY <2>8 DEF Tell, ConfirmationLeader, ConfirmationFail, HeartBeatResponse, TypeHistory
    <3> QED
      BY <3>1, <3>2, <3>3, <3>4, <3>5
  <2>9. ASSUME NEW n \in Node, HeartBeatRound(n) PROVE TypeOK'
    <3>1. TypeServer'
      BY <2>9 DEF HeartBeatRound, TypeServer
    <3>2. TypeRoutines'
      BY <2>9 DEF HeartBeatRound, TypeRoutines
    <3>3. TypePoll'
      BY <2>9 DEF HeartBeatRound, TypePoll
    <3>4. TypeBooks'
      BY <2>9 DEF HeartBeatRound, TypeBooks
    <3>5. TypeHistory'
      BY <2>9 DEF HeartBeatRound, TypeHistory
    <3> QED
      BY <3>1, <3>2, <3>3, <3>4, <3>5
  <2>10. ASSUME NEW n \in Node, HeartTimeout(n) PROVE TypeOK'
    <3>1. TypeServer'
      BY <2>10 DEF HeartTimeout, TypeServer
    <3>2. TypeRoutines'
      BY <2>10 DEF HeartTimeout, TypeRoutines
    <3>3. TypePoll'
      BY <2>10 DEF HeartTimeout, TypePoll
    <3>4. TypeBooks'
      BY <2>10 DEF HeartTimeout, TypeBooks
    <3>5. TypeHistory'
      BY <2>10 DEF HeartTimeout, TypeHistory
    <3> QED
      BY <3>1, <3>2, <3>3, <3>4, <3>5
  <2>11. ASSUME NEW n \in Node, SetAccount(n) PROVE TypeOK'
    <3>1. TypeServer'
      BY <2>11 DEF SetAccount, TypeServer
    <3>2. TypeRoutines'
      BY <2>11 DEF SetAccount, TypeRoutines
    <3>3. TypePoll'
      BY <2>11 DEF SetAccount, TypePoll
    <3>4. TypeBooks'
      BY <2>11 DEF SetAccount, TypeBooks
    <3>5. TypeHistory'
      BY <2>11 DEF SetAccount, TypeHistory
    <3> QED
      BY <3>1, <3>2, <3>3, <3>4, <3>5
  <2>12. ASSUME NEW n \in Node, Restart(n) PROVE TypeOK'
    <3>1. TypeServer'
      BY <2>12 DEF Restart, TypeServer
    <3>2. TypeRoutines'
      BY <2>12 DEF Restart, TypeRoutines
    <3>3. TypePoll'
      <4>1. ASSUME NEW m \in Node, NEW t \in Term
            PROVE  /\ [poll[m][t] EXCEPT !.stage = "reply"] \in Poll
                   /\ [poll[m][t] EXCEPT !.stage = "reply"].peer = poll[m][t].peer
                   /\ [poll[m][t] EXCEPT !.stage = "reply"].todo = poll[m][t].todo
        <5>1. poll[m][t] \in Poll
          BY DEF TypePoll
        <5> QED
          BY <5>1 DEF Poll
      <4>2. NoPoll \in Poll
        BY DEF Poll, NoPoll
      <4>3. NoPoll.stage \notin {"granting", "reply"} /\ NoPoll.todo = {}
        BY DEF NoPoll
      <4> QED
        BY <2>12, <4>3, <4>1, <4>2 DEF Restart, TypePoll
    <3>4. TypeBooks'
      BY <2>12 DEF Restart, TypeBooks
    <3>5. TypeHistory'
      BY <2>12 DEF Restart, TypeHistory
    <3> QED
      BY <3>1, <3>2, <3>3, <3>4, <3>5
  <2>13. CASE UNCHANGED vars
    BY <2>13 DEF vars, TypeServer, TypeRoutines, TypePoll, TypeBooks, TypeHistory
  <2> QED
    BY <2>1, <2>2, <2>3, <2>4, <2>5, <2>6, <2>7, <2>8, <2>9, <2>10, <2>11, <2>12, <2>13
    DEF Next, Campaign, Ballot, Timer
<1> QED
  BY <1>1, <1>2, PTL DEF Spec

-----------------------------------------------------------------------------
\* A candidate always has an election loop running, or has just won it.
THEOREM NobodyStranded == Spec => []NoStrandedCandidate
<1>1. Init => NoStrandedCandidate
  BY DEF Init, NoStrandedCandidate
<1>2. TypeOK /\ NoStrandedCandidate /\ [Next]_vars => NoStrandedCandidate'
  <2> SUFFICES ASSUME TypeOK, NoStrandedCandidate, [Next]_vars,
                      NEW m \in Node, state'[m] = Candidate
               PROVE  electing'[m] + winning'[m] > 0
    BY DEF NoStrandedCandidate
  <2> USE DEF TypeOK, TypeServer, TypeRoutines, NoStrandedCandidate, Set, Move, reDefault
  <2>1. ASSUME NEW n \in Node, Campaign(n) PROVE electing'[m] + winning'[m] > 0
    <3>1. CASE WakeUp(n)
      BY <3>1 DEF WakeUp
    <3>2. CASE BecomeCandidate(n)
      BY <3>2 DEF BecomeCandidate
    <3>3. CASE ElectionTimeout(n)
      BY <3>3 DEF ElectionTimeout
    <3>4. CASE Win(n)
      BY <3>4 DEF Win
    <3> QED
      BY <2>1, <3>1, <3>2, <3>3, <3>4 DEF Campaign
  <2>2. ASSUME NEW n \in Node, NEW t \in Term, TakeVote(n, t)
        PROVE  electing'[m] + winning'[m] > 0
    BY <2>2 DEF TakeVote
  <2>3. ASSUME NEW n \in Node, NEW p \in Node, Tell(n, p)
        PROVE  electing'[m] + winning'[m] > 0
    BY <2>3 DEF Tell, ConfirmationLeader, ConfirmationFail, HeartBeatResponse
  <2>4. ASSUME NEW n \in Node, Timer(n) PROVE electing'[m] + winning'[m] > 0
    BY <2>4 DEF Timer, HeartBeatRound, HeartTimeout, SetAccount, Restart
  <2>5. CASE UNCHANGED <<state, electing, winning>>
    BY <2>5
  <2> QED
    BY <2>1, <2>2, <2>3, <2>4, <2>5 DEF Next, Ballot, Vote, CallVote, vars
<1> QED
  BY <1>1, <1>2, TypeCorrect, PTL DEF Spec

-----------------------------------------------------------------------------
\* The voters of a node are a finite set.
LEMMA VotersFinite ==
  ASSUME NEW n \in Node
  PROVE  /\ IsFiniteSet(Voters(n)) /\ Cardinality(Voters(n)) \in Nat
         /\ IsFiniteSet(Voters(n) \ YesOnTheWay(n))
         /\ Cardinality(Voters(n) \ YesOnTheWay(n)) <= Cardinality(Voters(n))
         /\ Cardinality(Voters(n) \ YesOnTheWay(n)) \in Nat
<1>1. Voters(n) \in SUBSET Node /\ Voters(n) \ YesOnTheWay(n) \in SUBSET Voters(n)
  BY DEF Voters
<1> QED
  BY <1>1, FS_Subset, FS_CardinalityType

\* Two majorities of voters, each voter for one candidate only, are for the same.
LEMMA OneElected ==
  ASSUME TypeOK, CountIsBacked, \A n \in Node : NodeCount[n] >= Cardinality(Node),
         NEW m \in Node, NEW n \in Node, Elected(m), Elected(n)
  PROVE  m = n
<1>1. Voters(m) \subseteq Node /\ Voters(n) \subseteq Node
  BY DEF Voters
<1>2. Cardinality(Voters(m)) + Cardinality(Voters(n)) > Cardinality(Node)
  <2>1. Cardinality(Node) \in Nat
    BY FS_CardinalityType
  <2>2. /\ 2 * Cardinality(Voters(m)) > NodeCount[m] /\ NodeCount[m] >= Cardinality(Node)
        /\ 2 * Cardinality(Voters(n)) > NodeCount[n] /\ NodeCount[n] >= Cardinality(Node)
        /\ NodeCount[m] \in Nat /\ NodeCount[n] \in Nat
    BY DEF Elected
  <2>3. Cardinality(Voters(m)) \in Nat /\ Cardinality(Voters(n)) \in Nat
    BY VotersFinite
  <2> HIDE DEF Voters
  <2> QED
    BY <2>1, <2>2, <2>3
<1>3. Voters(m) \cap Voters(n) # {}
  BY <1>1, <1>2, FS_MajoritiesIntersect
<1> QED
  BY <1>3 DEF Voters, CountIsBacked, OneCandidate

\* Votes are never taken back, so who was elected stays elected.
LEMMA ElectedGrows ==
  ASSUME \A v \in Node : castFor[v] \subseteq castFor'[v], NEW n \in Node, Elected(n)
  PROVE  Elected(n)'
<1>1. Voters(n) \in SUBSET (Voters(n)')
  BY DEF Voters
<1>2. Voters(n)' \in SUBSET Node
  BY DEF Voters
<1>3. IsFiniteSet(Voters(n)') /\ Cardinality(Voters(n)') \in Nat
  BY <1>2, FS_Subset, FS_CardinalityType
<1>4. Cardinality(Voters(n)) <= Cardinality(Voters(n)')
  BY <1>1, <1>3, FS_Subset
<1>5. 2 * Cardinality(Voters(n)) > NodeCount[n] /\ NodeCount[n] \in Nat
  BY DEF Elected
<1>6. Cardinality(Voters(n)) \in Nat
  BY VotersFinite
<1>7. 2 * Cardinality(Voters(n)') > NodeCount[n]
  BY <1>3, <1>4, <1>5, <1>6
<1> QED
  BY <1>7 DEF Elected

\* A count that does not grow stays backed while no vote and no yes is added.
LEMMA BackedFades ==
  ASSUME TypeOK, TypeOK', NEW n \in Node, Backed(n), Voters(n)' = Voters(n), vote'[n] <= vote[n],
         \A t \in Term : Yes(n, t)' => Yes(n, t) /\ poll'[n][t].peer = poll[n][t].peer
  PROVE  Backed(n)'
<1>2. YesOnTheWay(n)' \subseteq YesOnTheWay(n)
  BY DEF YesOnTheWay
<1>3. Voters(n) \ YesOnTheWay(n) \in SUBSET (Voters(n)' \ YesOnTheWay(n)')
  BY <1>2
<1>4. IsFiniteSet(Voters(n)' \ YesOnTheWay(n)')
  BY VotersFinite, FS_Difference
<1>5. Cardinality(Voters(n) \ YesOnTheWay(n)) <= Cardinality(Voters(n)' \ YesOnTheWay(n)')
  BY <1>3, <1>4, FS_Subset
<1>6. Cardinality(Voters(n)' \ YesOnTheWay(n)') \in Nat
  BY <1>4, FS_CardinalityType
<1>7. vote'[n] <= Cardinality(Voters(n)' \ YesOnTheWay(n)')
  <2>1. vote[n] <= Cardinality(Voters(n) \ YesOnTheWay(n))
    BY DEF Backed
  <2>2. vote[n] \in Nat /\ vote'[n] \in Nat
    BY DEF TypeOK, TypeServer
  <2> QED
    BY <1>5, <1>6, <2>1, <2>2, VotersFinite
<1> QED
  BY <1>7 DEF Backed

\* A vote for n that was not counted before, and is not on its way, backs one more.
LEMMA OneMoreVote ==
  ASSUME NEW n \in Node, NEW v \in Node,
         Voters(n) \ YesOnTheWay(n) \subseteq Voters(n)' \ YesOnTheWay(n)',
         v \in Voters(n)' \ YesOnTheWay(n)', v \notin Voters(n) \ YesOnTheWay(n)
  PROVE  Cardinality(Voters(n) \ YesOnTheWay(n)) + 1 <= Cardinality(Voters(n)' \ YesOnTheWay(n)')
<1> DEFINE S == Voters(n) \ YesOnTheWay(n)
           T == Voters(n)' \ YesOnTheWay(n)'
<1>1. IsFiniteSet(S)
  BY VotersFinite
<1>2. T \in SUBSET Node
  BY DEF Voters
<1>3. IsFiniteSet(T)
  BY <1>2, FS_Subset
<1>4. S \cup {v} \in SUBSET T
  OBVIOUS
<1>5. Cardinality(S \cup {v}) = Cardinality(S) + 1
  BY <1>1, FS_AddElement
<1> HIDE DEF S, T
<1>6. Cardinality(S \cup {v}) <= Cardinality(T)
  BY <1>3, <1>4, FS_Subset
<1>7. Cardinality(S) + 1 <= Cardinality(T)
  BY <1>5, <1>6
<1> QED
  BY <1>7 DEF S, T

\* A node's vote for itself backs the count it starts with.
LEMMA CandidateBacked ==
  ASSUME TypeOK, TypeOK', CountIsBacked, ~ recast', NEW n \in Node, BecomeCandidate(n)
  PROVE  CountIsBacked'
<1> USE DEF Set, Move
<1>1. /\ castFor' = [castFor EXCEPT ![n] = castFor[n] \cup {n}]
      /\ vote' = [vote EXCEPT ![n] = vote[n] + 1]
      /\ castFor[n] = {} \/ (castFor[n] = {n} /\ vote[n] = 0)
  BY DEF BecomeCandidate, Cast
<1>2. castFor'[n] = {n} /\ \A v \in Node \ {n} : castFor'[v] = castFor[v]
  BY <1>1 DEF TypeOK, TypeHistory
<1>3. OneCandidate'
  BY <1>2 DEF CountIsBacked, OneCandidate
<1>4. \A m \in Node, t \in Term : Yes(m, t)' => Yes(m, t) /\ poll'[m][t].peer = poll[m][t].peer
  <2>1. ~ Asking(Peers[n]).stage = "reply"
    BY DEF Asking, NoPoll
  <2> QED
    BY <2>1 DEF BecomeCandidate, Yes, TypeOK, TypePoll
<1>5. ASSUME NEW m \in Node, m # n PROVE Backed(m)'
  <2>1. Voters(m)' = Voters(m)
    BY <1>2, <1>1, <1>5 DEF Voters
  <2>2. vote'[m] <= vote[m]
    BY <1>1, <1>5 DEF TypeOK, TypeServer
  <2> QED
    BY <1>4, <2>1, <2>2, BackedFades DEF CountIsBacked
<1>6. Backed(n)'
  <2>1. Backed(n)
    BY DEF CountIsBacked
  <2>2. Voters(n)' = Voters(n) \cup {n}
    BY <1>1, <1>2 DEF Voters, TypeOK, TypeHistory
  <2>3. n \notin YesOnTheWay(n)
    BY <2>1 DEF Backed, YesOnTheWay
  <2>4. YesOnTheWay(n)' \subseteq YesOnTheWay(n)
    BY <1>4 DEF YesOnTheWay
  <2>5. /\ n \in Voters(n)' \ YesOnTheWay(n)'
        /\ Voters(n) \ YesOnTheWay(n) \subseteq Voters(n)' \ YesOnTheWay(n)'
    BY <2>2, <2>3, <2>4
  <2>6. vote'[n] = vote[n] + 1 /\ vote[n] \in Nat
    BY <1>1 DEF TypeOK, TypeServer
  <2>7. vote'[n] <= Cardinality(Voters(n)' \ YesOnTheWay(n)')
    <3>1. CASE castFor[n] = {}
      <4>1. n \notin Voters(n)
        BY <3>1 DEF Voters
      <4>2. Cardinality(Voters(n) \ YesOnTheWay(n)) + 1 <= Cardinality(Voters(n)' \ YesOnTheWay(n)')
        BY <2>5, <4>1, OneMoreVote
      <4>3. vote[n] <= Cardinality(Voters(n) \ YesOnTheWay(n))
        BY <2>1 DEF Backed
      <4>4. Cardinality(Voters(n)' \ YesOnTheWay(n)') \in Nat
        BY <2>2, VotersFinite, FS_AddElement, FS_Difference, FS_CardinalityType
      <4> QED
        BY <2>6, <4>2, <4>3, <4>4, VotersFinite
    <3>2. CASE vote[n] = 0
      <4> DEFINE T == Voters(n)' \ YesOnTheWay(n)'
      <4>1. IsFiniteSet(T) /\ Cardinality(T) \in Nat
        BY <2>2, VotersFinite, FS_AddElement, FS_Difference, FS_CardinalityType
      <4>2. {n} \in SUBSET T
        BY <2>5
      <4> HIDE DEF T
      <4>3. 1 <= Cardinality(T)
        <5>1. Cardinality({n}) <= Cardinality(T)
          BY <4>1, <4>2, FS_Subset
        <5>2. Cardinality({n}) = 1
          BY FS_Singleton
        <5> QED
          BY <5>1, <5>2
      <4> QED
        BY <2>6, <3>2, <4>3 DEF T
    <3> QED
      BY <1>1, <3>1, <3>2
  <2> QED
    BY <1>4, <2>1, <2>2, <2>7 DEF Backed
<1> QED
  BY <1>3, <1>5, <1>6 DEF CountIsBacked

\* A vote that a handler records is on its way, or lost, and is not yet counted.
LEMMA VoteBacked ==
  ASSUME TypeOK, TypeOK', CountIsBacked, ~ recast', NEW n \in Node, NEW t \in Term, Vote(n, t)
  PROVE  CountIsBacked'
<1> DEFINE p == poll[n][t].peer
<1> USE DEF Set
<1>1. p \in Node /\ p # n
  BY DEF Vote, TypeOK, TypePoll
<1>2. castFor' = [castFor EXCEPT ![p] = castFor[p] \cup {n}] /\ castFor[p] = {} /\ vote' = vote
  BY <1>1 DEF Vote, Cast
<1>3. PICK ok \in BOOLEAN : poll' = [poll EXCEPT ![n][t].stage = "reply", ![n][t].ok = ok]
  BY DEF Vote
<1>4. poll' = [poll EXCEPT ![n] = [poll[n] EXCEPT ![t] =
                  [poll[n][t] EXCEPT !.stage = "reply", !.ok = ok]]]
  <2>1. poll \in [Node -> [Term -> Poll]]
    BY DEF TypeOK, TypePoll
  <2> QED
    BY <1>3, <2>1 DEF Poll
<1>5. /\ poll'[n][t].peer = p
      /\ \A u \in Term \ {t} : poll'[n][u] = poll[n][u]
      /\ \A m \in Node \ {n} : poll'[m] = poll[m]
  <2>1. [poll[n][t] EXCEPT !.stage = "reply", !.ok = ok].peer = p
    BY DEF TypeOK, TypePoll, Poll
  <2> QED
    BY <1>4, <2>1 DEF TypeOK, TypePoll
<1> HIDE DEF p
<1>6. castFor'[p] = {n} /\ \A v \in Node \ {p} : castFor'[v] = castFor[v]
  BY <1>1, <1>2 DEF TypeOK, TypeHistory
<1>7. OneCandidate'
  BY <1>6 DEF CountIsBacked, OneCandidate
<1>8. ASSUME NEW m \in Node, m # n PROVE Backed(m)'
  <2>1. Voters(m)' = Voters(m)
    BY <1>1, <1>2, <1>6, <1>8 DEF Voters
  <2>2. \A u \in Term : Yes(m, u)' => Yes(m, u) /\ poll'[m][u].peer = poll[m][u].peer
    BY <1>5, <1>8 DEF Yes
  <2>3. vote'[m] <= vote[m]
    BY <1>2 DEF TypeOK, TypeServer
  <2> QED
    BY <2>1, <2>2, <2>3, BackedFades DEF CountIsBacked
<1>9. Backed(n)'
  <2>1. Backed(n)
    BY DEF CountIsBacked
  <2>2. Voters(n)' = Voters(n) \cup {p} /\ p \notin Voters(n)
    BY <1>1, <1>2, <1>6 DEF Voters
  <2>3. \A u \in Term \ {t} : Yes(n, u)' <=> Yes(n, u)
    BY <1>5 DEF Yes
  <2>4. \A u \in Term \ {t} : Yes(n, u) => poll[n][u].peer # p
    BY <2>1, <2>2 DEF Backed
  <2>5. \A u \in Term : Yes(n, u)' => poll'[n][u].peer \in Voters(n)' \ {n}
    BY <1>1, <1>5, <2>1, <2>2, <2>3 DEF Backed
  <2>6. \A u, w \in Term :
           Yes(n, u)' /\ Yes(n, w)' /\ poll'[n][u].peer = poll'[n][w].peer => u = w
    BY <1>5, <2>1, <2>3, <2>4 DEF Backed
  <2>7. Voters(n) \ YesOnTheWay(n) \in SUBSET (Voters(n)' \ YesOnTheWay(n)')
    <3> SUFFICES ASSUME NEW v \in Voters(n), v \notin YesOnTheWay(n)
                 PROVE  v \in Voters(n)' /\ v \notin YesOnTheWay(n)'
      OBVIOUS
    <3>1. v # p /\ v \in Node
      BY <2>2 DEF Voters
    <3> QED
      BY <1>5, <2>2, <2>3, <3>1 DEF YesOnTheWay
  <2>8. /\ IsFiniteSet(Voters(n)' \ YesOnTheWay(n)')
        /\ Cardinality(Voters(n)' \ YesOnTheWay(n)') \in Nat
    BY <2>2, VotersFinite, FS_AddElement, FS_Difference, FS_CardinalityType
  <2>9. Cardinality(Voters(n) \ YesOnTheWay(n)) <= Cardinality(Voters(n)' \ YesOnTheWay(n)')
    BY <2>7, <2>8, FS_Subset
  <2>10. vote'[n] <= Cardinality(Voters(n)' \ YesOnTheWay(n)')
    <3>1. vote[n] <= Cardinality(Voters(n) \ YesOnTheWay(n))
      BY <2>1 DEF Backed
    <3>2. vote[n] \in Nat /\ vote'[n] = vote[n]
      BY <1>2 DEF TypeOK, TypeServer
    <3> QED
      BY <2>8, <2>9, <3>1, <3>2, VotersFinite
  <2> QED
    BY <2>5, <2>6, <2>10 DEF Backed
<1> QED
  BY <1>7, <1>8, <1>9 DEF CountIsBacked

\* A yes that is received is counted once.
LEMMA CountBacked ==
  ASSUME TypeOK, TypeOK', CountIsBacked, NEW n \in Node, NEW t \in Term, TakeVote(n, t)
  PROVE  CountIsBacked'
<1> USE DEF Set
<1>1. castFor' = castFor /\ vote' = [vote EXCEPT ![n] = vote[n] + Counted(poll[n][t].ok)]
  BY DEF TakeVote, history
<1>2. \A m \in Node : Voters(m)' = Voters(m)
  BY <1>1 DEF Voters
<1>3. poll' = [poll EXCEPT ![n][t] = Asking(poll[n][t].todo)]
  BY DEF TakeVote
<1>4. ~ Yes(n, t)' /\ \A m \in Node, u \in Term : m # n \/ u # t => poll'[m][u] = poll[m][u]
  <2>1. Asking(poll[n][t].todo).stage # "reply"
    BY DEF Asking, NoPoll
  <2> QED
    BY <1>3, <2>1 DEF Yes, TypeOK, TypePoll
<1>5. \A m \in Node, u \in Term : Yes(m, u)' => Yes(m, u) /\ poll'[m][u].peer = poll[m][u].peer
  BY <1>4 DEF Yes
<1>6. ASSUME NEW m \in Node, vote'[m] <= vote[m] PROVE Backed(m)'
  BY <1>2, <1>5, <1>6, BackedFades DEF CountIsBacked
<1>7. \A m \in Node \ {n} : vote'[m] <= vote[m]
  BY <1>1 DEF TypeOK, TypeServer
<1>8. Backed(n)'
  <2>1. Backed(n)
    BY DEF CountIsBacked
  <2>2. CASE ~ poll[n][t].ok
    <3>1. vote'[n] <= vote[n]
      BY <1>1, <2>2 DEF TypeOK, TypeServer, Counted
    <3> QED
      BY <1>6, <3>1
  <2>3. CASE poll[n][t].ok
    <3> DEFINE p == poll[n][t].peer
    <3>1. Yes(n, t)
      BY <2>3 DEF TakeVote, Yes
    <3>2. p \in Voters(n) /\ p \in YesOnTheWay(n)
      BY <2>1, <3>1 DEF Backed, YesOnTheWay, Voters
    <3>3. \A u \in Term \ {t} : Yes(n, u) => poll[n][u].peer # p
      BY <2>1, <3>1 DEF Backed
    <3>4. p \notin YesOnTheWay(n)'
      BY <1>4, <1>5, <3>3 DEF YesOnTheWay
    <3>5. YesOnTheWay(n)' \subseteq YesOnTheWay(n)
      BY <1>5 DEF YesOnTheWay
    <3>6. p \in Node
      BY <3>2 DEF Voters
    <3> HIDE DEF p
    <3>7. Cardinality(Voters(n) \ YesOnTheWay(n)) + 1 <= Cardinality(Voters(n)' \ YesOnTheWay(n)')
      BY <1>2, <3>2, <3>4, <3>5, <3>6, OneMoreVote
    <3>8. Cardinality(Voters(n)' \ YesOnTheWay(n)') \in Nat
      BY <1>2, VotersFinite, FS_Difference, FS_CardinalityType
    <3>9. vote'[n] = vote[n] + 1 /\ vote[n] \in Nat
      BY <1>1, <2>3 DEF TypeOK, TypeServer, Counted
    <3>10. vote'[n] <= Cardinality(Voters(n)' \ YesOnTheWay(n)')
      BY <2>1, <3>7, <3>8, <3>9, VotersFinite DEF Backed
    <3> QED
      BY <1>2, <1>5, <2>1, <3>10 DEF Backed
  <2> QED
    BY <2>2, <2>3
<1> QED
  BY <1>1, <1>6, <1>7, <1>8 DEF CountIsBacked, OneCandidate

-----------------------------------------------------------------------------
\* Votes are history: none is taken back, and a second vote is not forgotten.
LEMMA HistoryGrows ==
  ASSUME TypeOK, [Next]_vars
  PROVE  (\A v \in Node : castFor[v] \subseteq castFor'[v]) /\ (recast => recast')
<1> USE DEF Set
<1>1. ASSUME NEW n \in Node, BecomeCandidate(n)
      PROVE  (\A v \in Node : castFor[v] \subseteq castFor'[v]) /\ (recast => recast')
  BY <1>1 DEF BecomeCandidate, Cast, TypeOK, TypeHistory
<1>2. ASSUME NEW n \in Node, NEW t \in Term, Vote(n, t)
      PROVE  (\A v \in Node : castFor[v] \subseteq castFor'[v]) /\ (recast => recast')
  <2>1. poll[n][t].peer \in Node
    BY <1>2 DEF Vote, TypeOK, TypePoll
  <2> QED
    BY <1>2, <2>1 DEF Vote, Cast, TypeOK, TypeHistory
<1>3. CASE UNCHANGED <<castFor, recast>>
  BY <1>3
<1> QED
  BY <1>1, <1>2, <1>3
  DEF Next, Campaign, Ballot, Tell, Timer, WakeUp, ElectionTimeout, Win, TakeVote, CallVote,
      ConfirmationLeader, ConfirmationFail, HeartBeatResponse, HeartBeatRound, HeartTimeout,
      SetAccount, Restart, vars

\* While nobody has voted twice, every count stays backed by votes.
LEMMA BackedStep ==
  ASSUME TypeOK, TypeOK', CountIsBacked, [Next]_vars, ~ recast'
  PROVE  CountIsBacked'
<1> USE DEF Set, Move, reDefault
<1>1. ASSUME NEW n \in Node, NEW t \in Term, Vote(n, t) \/ TakeVote(n, t) PROVE CountIsBacked'
  BY <1>1, VoteBacked, CountBacked
<1>2. ASSUME NEW n \in Node, BecomeCandidate(n) PROVE CountIsBacked'
  BY <1>2, CandidateBacked
<1>3. ASSUME castFor' = castFor, \A m \in Node : vote'[m] <= vote[m],
             \A m \in Node, u \in Term :
                Yes(m, u)' => Yes(m, u) /\ poll'[m][u].peer = poll[m][u].peer
      PROVE  CountIsBacked'
  <2>1. \A m \in Node : Voters(m)' = Voters(m)
    BY <1>3 DEF Voters
  <2>2. \A m \in Node : Backed(m)'
    BY <1>3, <2>1, BackedFades DEF CountIsBacked
  <2> QED
    BY <1>3, <2>2 DEF CountIsBacked, OneCandidate
<1>4. ASSUME NEW n \in Node, NEW t \in Term, NEW p \in Node, CallVote(n, t, p)
      PROVE  CountIsBacked'
  <2>1. castFor' = castFor /\ vote' = vote
    BY <1>4 DEF CallVote
  <2>2. \A m \in Node, u \in Term : m # n \/ u # t => poll'[m][u] = poll[m][u]
    BY <1>4 DEF CallVote, TypeOK, TypePoll
  <2>3. ~ Yes(n, t)'
    BY <1>4 DEF CallVote, Yes, TypeOK, TypePoll
  <2>4. \A m \in Node, u \in Term :
           Yes(m, u)' => Yes(m, u) /\ poll'[m][u].peer = poll[m][u].peer
    BY <2>2, <2>3 DEF Yes
  <2>5. \A m \in Node : vote'[m] <= vote[m]
    BY <2>1 DEF TypeOK, TypeServer
  <2> QED
    BY <1>3, <2>1, <2>4, <2>5
<1>5. ASSUME NEW n \in Node, Restart(n) PROVE CountIsBacked'
  <2>1. castFor' = castFor /\ vote' = [vote EXCEPT ![n] = 0]
    BY <1>5 DEF Restart
  <2>2. \A m \in Node : vote'[m] <= vote[m]
    BY <2>1 DEF TypeOK, TypeServer
  <2>3. ASSUME NEW m \in Node, NEW u \in Term, Yes(m, u)'
        PROVE  Yes(m, u) /\ poll'[m][u].peer = poll[m][u].peer
    <3>1. poll[m][u] \in Poll
      BY DEF TypeOK, TypePoll
    <3>2. poll'[m][u] = IF m = n THEN NoPoll
                        ELSE IF poll[m][u].stage = "granting" /\ poll[m][u].peer = n
                             THEN [poll[m][u] EXCEPT !.stage = "reply"]
                             ELSE poll[m][u]
      BY <1>5 DEF Restart
    <3>3. CASE poll'[m][u] = poll[m][u]
      BY <2>3, <3>3 DEF Yes
    <3>4. CASE poll'[m][u] = NoPoll
      BY <2>3, <3>4 DEF Yes, NoPoll
    <3>5. CASE poll[m][u].stage = "granting" /\ poll'[m][u] = [poll[m][u] EXCEPT !.stage = "reply"]
      <4>1. poll'[m][u].ok = poll[m][u].ok
        BY <3>1, <3>5 DEF Poll
      <4>2. ~ poll[m][u].ok
        BY <3>5 DEF TypeOK, TypePoll
      <4> QED
        BY <2>3, <4>1, <4>2 DEF Yes
    <3> QED
      BY <3>2, <3>3, <3>4, <3>5
  <2> QED
    BY <1>3, <2>1, <2>2, <2>3
<1>6. ASSUME UNCHANGED <<poll, castFor>>, \A m \in Node : vote'[m] <= vote[m] PROVE CountIsBacked'
  BY <1>3, <1>6 DEF Yes
<1>7. ASSUME NEW n \in Node, Campaign(n) PROVE CountIsBacked'
  <2>1. CASE BecomeCandidate(n)
    BY <1>2, <2>1
  <2>2. CASE WakeUp(n) \/ ElectionTimeout(n) \/ Win(n)
    <3>1. UNCHANGED <<poll, castFor>>
      BY <2>2 DEF WakeUp, ElectionTimeout, Win
    <3>2. \A m \in Node : vote'[m] <= vote[m]
      BY <2>2 DEF WakeUp, ElectionTimeout, Win, TypeOK, TypeServer
    <3> QED
      BY <1>6, <3>1, <3>2
  <2> QED
    BY <1>7, <2>1, <2>2 DEF Campaign
<1>8. ASSUME NEW n \in Node, NEW p \in Node, Tell(n, p) PROVE CountIsBacked'
  <2>1. UNCHANGED <<poll, castFor>>
    BY <1>8 DEF Tell, ConfirmationLeader, ConfirmationFail, HeartBeatResponse
  <2>2. \A m \in Node : vote'[m] <= vote[m]
    BY <1>8 DEF Tell, ConfirmationLeader, ConfirmationFail, HeartBeatResponse, TypeOK, TypeServer
  <2> QED
    BY <1>6, <2>1, <2>2
<1>9. ASSUME NEW n \in Node, Timer(n) PROVE CountIsBacked'
  <2>1. CASE Restart(n)
    BY <1>5, <2>1
  <2>2. CASE HeartBeatRound(n) \/ HeartTimeout(n) \/ SetAccount(n)
    <3>1. UNCHANGED <<poll, castFor>>
      BY <2>2 DEF HeartBeatRound, HeartTimeout, SetAccount
    <3>2. \A m \in Node : vote'[m] <= vote[m]
      BY <2>2 DEF HeartBeatRound, HeartTimeout, SetAccount, TypeOK, TypeServer
    <3> QED
      BY <1>6, <3>1, <3>2
  <2> QED
    BY <1>9, <2>1, <2>2 DEF Timer
<1>10. CASE UNCHANGED vars
  <2>1. UNCHANGED <<poll, castFor, vote>>
    BY <1>10 DEF vars
  <2>2. \A m \in Node : vote'[m] <= vote[m]
    BY <2>1 DEF TypeOK, TypeServer
  <2> QED
    BY <1>6, <2>1, <2>2
<1> QED
  BY <1>1, <1>4, <1>7, <1>8, <1>9, <1>10 DEF Next, Ballot

\* Whatever names a leader after a step names a node that is elected by then.
LEMMA LeadersStep ==
  ASSUME TypeOK, TypeOK', CountIsBacked', LeadersAreElected, [Next]_vars
  PROVE  LeadersAreElected'
<1> USE DEF Set, Move, reDefault
<1>1. \A n \in Node : Elected(n) => Elected(n)'
  BY HistoryGrows, ElectedGrows
<1> DEFINE Known(m) == /\ winning'[m] > 0 \/ state'[m] = Leader \/ beating'[m]
                          \/ confirm'[m] # {} \/ isAccount'[m] => Elected(m)
                       /\ currentLeader'[m] # None => Elected(currentLeader'[m])
                       /\ \A a \in account'[m] : Elected(a)
<1>2. ASSUME \A m \in Node : Known(m) PROVE LeadersAreElected'
  <2>1. \A m \in Node : currentLeader'[m] # None => currentLeader'[m] \in Node
    BY DEF TypeOK, TypeServer
  <2>2. \A m \in Node : account'[m] \subseteq Node
    BY DEF TypeOK, TypeBooks
  <2> QED
    BY <1>1, <1>2, <2>1, <2>2 DEF LeadersAreElected
<1>3. ASSUME NEW n \in Node, NEW t \in Term, TakeVote(n, t) PROVE LeadersAreElected'
  <2>1. CASE winning' = winning
    <3>1. \A m \in Node : Known(m)
      BY <1>3, <2>1 DEF TakeVote, LeadersAreElected
    <3> QED
      BY <1>2, <3>1
  <2>2. CASE HasMajority(n, vote'[n])
    <3>1. Elected(n)'
      <4>1. vote'[n] <= Cardinality(Voters(n)' \ YesOnTheWay(n)')
        BY DEF CountIsBacked, Backed
      <4>2. Voters(n)' \in SUBSET Node /\ Voters(n)' \ YesOnTheWay(n)' \in SUBSET Voters(n)'
        BY DEF Voters
      <4>3. /\ Cardinality(Voters(n)' \ YesOnTheWay(n)') <= Cardinality(Voters(n)')
            /\ Cardinality(Voters(n)') \in Nat
            /\ Cardinality(Voters(n)' \ YesOnTheWay(n)') \in Nat
        BY <4>2, FS_Subset, FS_CardinalityType
      <4>4. vote'[n] >= NodeCount[n] \div 2 + 1 /\ NodeCount[n] \in Nat /\ vote'[n] \in Nat
        BY <2>2 DEF HasMajority, TypeOK, TypeServer
      <4>5. 2 * Cardinality(Voters(n)') > NodeCount[n]
        BY <4>1, <4>3, <4>4
      <4> QED
        BY <4>5 DEF Elected
    <3>2. \A m \in Node : winning'[m] > 0 => winning[m] > 0 \/ m = n
      BY <1>3 DEF TakeVote, TypeOK, TypeRoutines
    <3>3. UNCHANGED <<state, beating, confirm, isAccount, currentLeader, account>>
      BY <1>3 DEF TakeVote
    <3>4. \A m \in Node : currentLeader[m] # None => currentLeader[m] \in Node
      BY DEF TypeOK, TypeServer
    <3>5. \A m \in Node : account[m] \subseteq Node
      BY DEF TypeOK, TypeBooks
    <3> QED
      BY <1>1, <3>1, <3>2, <3>3, <3>4, <3>5 DEF LeadersAreElected
  <2> QED
    BY <1>3, <2>1, <2>2 DEF TakeVote
<1>4. ASSUME NEW n \in Node, Campaign(n) PROVE \A m \in Node : Known(m)
  <2>1. CASE WakeUp(n)
    BY <2>1 DEF WakeUp, LeadersAreElected
  <2>2. CASE BecomeCandidate(n)
    BY <2>2 DEF BecomeCandidate, LeadersAreElected, TypeOK, TypeServer
  <2>3. CASE ElectionTimeout(n)
    BY <2>3 DEF ElectionTimeout, LeadersAreElected, TypeOK, TypeServer
  <2>4. CASE Win(n)
    <3>1. Elected(n)
      BY <2>4 DEF Win, LeadersAreElected
    <3>2. \A m \in Node : winning'[m] > 0 => winning[m] > 0
      BY <2>4 DEF Win, TypeOK, TypeRoutines
    <3>3. \A m \in Node \ {n} : /\ state'[m] = state[m] /\ beating'[m] = beating[m]
                                /\ confirm'[m] = confirm[m] /\ currentLeader'[m] = currentLeader[m]
      BY <2>4 DEF Win, TypeOK, TypeServer, TypeRoutines, TypeBooks
    <3>4. isAccount' = isAccount /\ account' = account /\ currentLeader'[n] = n
      BY <2>4 DEF Win, TypeOK, TypeServer
    <3> QED
      BY <3>1, <3>2, <3>3, <3>4 DEF LeadersAreElected
  <2> QED
    BY <1>4, <2>1, <2>2, <2>3, <2>4 DEF Campaign
<1>5. ASSUME NEW n \in Node, NEW p \in Node, Tell(n, p) PROVE \A m \in Node : Known(m)
  <2>1. CASE ConfirmationLeader(n, p)
    <3>1. Elected(n)
      BY <2>1 DEF ConfirmationLeader, LeadersAreElected
    <3>2. \A m \in Node : /\ state'[m] = Leader => state[m] = Leader
                          /\ confirm'[m] # {} => confirm[m] # {}
                          /\ currentLeader'[m] \in {currentLeader[m], n}
                          /\ account'[m] \subseteq account[m] \cup {n}
      BY <2>1 DEF ConfirmationLeader, TypeOK, TypeServer, TypeBooks
    <3>3. UNCHANGED <<winning, beating, isAccount>>
      BY <2>1 DEF ConfirmationLeader
    <3> QED
      BY <3>1, <3>2, <3>3 DEF LeadersAreElected
  <2>2. CASE ConfirmationFail(n, p)
    BY <2>2 DEF ConfirmationFail, LeadersAreElected, TypeOK, TypeBooks
  <2>3. CASE HeartBeatResponse(n, p)
    <3>1. Elected(n)
      BY <2>3 DEF HeartBeatResponse, LeadersAreElected
    <3>2. \A m \in Node : currentLeader'[m] \in {currentLeader[m], n}
      BY <2>3 DEF HeartBeatResponse, TypeOK, TypeServer
    <3>3. UNCHANGED <<winning, state, beating, confirm, isAccount, account>>
      BY <2>3 DEF HeartBeatResponse
    <3> QED
      BY <3>1, <3>2, <3>3 DEF LeadersAreElected
  <2> QED
    BY <1>5, <2>1, <2>2, <2>3 DEF Tell
<1>6. ASSUME NEW n \in Node, Timer(n) PROVE \A m \in Node : Known(m)
  <2>1. CASE HeartBeatRound(n)
    BY <2>1 DEF HeartBeatRound, LeadersAreElected
  <2>2. CASE HeartTimeout(n)
    BY <2>2 DEF HeartTimeout, LeadersAreElected, TypeOK, TypeServer
  <2>3. CASE SetAccount(n)
    <3>1. \A m \in Node : /\ isAccount'[m] => isAccount[m] \/ state[m] = Leader
                          /\ \A a \in account'[m] : a \in account[m] \/ state[a] = Leader
      BY <2>3 DEF SetAccount, TypeOK, TypeBooks
    <3>2. UNCHANGED <<winning, state, beating, confirm, currentLeader>>
      BY <2>3 DEF SetAccount
    <3>3. \A m \in Node : account'[m] \subseteq Node
      BY DEF TypeOK, TypeBooks
    <3> QED
      BY <3>1, <3>2, <3>3 DEF LeadersAreElected
  <2>4. CASE Restart(n)
    BY <2>4 DEF Restart, LeadersAreElected, TypeOK, TypeServer, TypeRoutines, TypeBooks
  <2> QED
    BY <1>6, <2>1, <2>2, <2>3, <2>4 DEF Timer
<1>7. ASSUME NEW n \in Node, NEW t \in Term, NEW p \in Node, Vote(n, t) \/ CallVote(n, t, p)
      PROVE  \A m \in Node : Known(m)
  BY <1>7 DEF Vote, CallVote, LeadersAreElected
<1>8. CASE UNCHANGED vars
  <2>1. \A m \in Node : Known(m)
    BY <1>8 DEF vars, LeadersAreElected
  <2> QED
    BY <1>2, <2>1
<1> HIDE DEF Known
<1>9. ASSUME NEW n \in Node, NEW t \in Term, Ballot(n, t) PROVE LeadersAreElected'
  <2>1. CASE \E p \in Node : CallVote(n, t, p)
    BY <1>2, <1>7, <2>1
  <2>2. CASE Vote(n, t)
    BY <1>2, <1>7, <2>2
  <2> QED
    BY <1>3, <1>9, <2>1, <2>2 DEF Ballot
<1> QED
  BY <1>2, <1>4, <1>5, <1>6, <1>8, <1>9 DEF Next

\* The inductive invariant: types, and until some node votes twice, counts backed
\* by votes and leaders backed by majorities.
THEOREM ElectionInvariant == Spec => []IInv
<1>1. Init => IInv
  <2> SUFFICES ASSUME Init, TypeOK PROVE IInv
    BY InitType
  <2>1. \A n \in Node, t \in Term : ~ Yes(n, t)
    BY DEF Init, Yes, NoPoll
  <2>2. \A n \in Node : Backed(n)
    <3>1. \A n \in Node : vote[n] = 0
      BY DEF Init
    <3>2. \A n \in Node : vote[n] <= Cardinality(Voters(n) \ YesOnTheWay(n))
      BY <3>1, VotersFinite
    <3> QED
      BY <2>1, <3>2 DEF Backed
  <2>3. OneCandidate
    BY DEF Init, OneCandidate
  <2>4. LeadersAreElected
    BY DEF Init, LeadersAreElected
  <2> QED
    BY <2>2, <2>3, <2>4 DEF IInv, CountIsBacked
<1>2. IInv /\ TypeOK' /\ [Next]_vars => IInv'
  BY HistoryGrows, BackedStep, LeadersStep DEF IInv
<1> QED
  BY <1>1, <1>2, TypeCorrect, PTL DEF Spec

\* At most one node holds, or is known anywhere to hold, the bookkeeping right,
\* as long as no node has voted twice and none counts on a smaller cluster.
THEOREM AtMostOneBookkeeper == Spec => []OneBookkeeper
<1>1. IInv => OneBookkeeper
  <2> SUFFICES ASSUME IInv, ~ recast, \A n \in Node : NodeCount[n] >= Cardinality(Node),
                      NEW m \in Bookkeepers, NEW n \in Bookkeepers
               PROVE  m = n
    BY DEF OneBookkeeper
  <2>1. \A b \in Bookkeepers : b \in Node /\ Elected(b)
    BY DEF IInv, LeadersAreElected, Bookkeepers
  <2> QED
    BY <2>1, OneElected DEF IInv
<1> QED
  BY <1>1, ElectionInvariant, PTL
=============================================================================
