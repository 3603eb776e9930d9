---------------------------- MODULE BAStarProofs ----------------------------
(* Theorems about BAStar for every set of nodes, every threshold, every number *)
(* of sub-users and every MaxSteps.                                            *)
EXTENDS BAStar, SequenceTheorems, TLAPS

\* The steps of binaryBA stay in bounds (each is tested against MAXSTEPS).
LEMMA NextStep ==
  ASSUME NEW s \in 1..(MaxSteps + 1)
  PROVE  /\ s < MaxSteps => s + 1 \in 1..(MaxSteps + 1) /\ s + 1 <= MaxSteps
         /\ s <= MaxSteps => s + 1 \in 1..(MaxSteps + 1)
<1>1. MaxSteps \in Int
  BY BAAssumption
<1> QED
  BY <1>1

USE BAAssumption DEF local, Goto

\* What committeeVote adds: votes of n for h in the steps S, and only those.
LEMMA Casting ==
  ASSUME NEW n \in Node, NEW S, NEW h, committeeVote(n, S, h)
  PROVE  /\ voted \subseteq voted'
         /\ \A v \in voted' : v \in voted \/ (v.voter = n /\ v.step \in S /\ v.hash = h)
<1>1. PICK w \in {f \in [S -> UNION {Weights[s] : s \in S}] : \A s \in S : f[s] \in Sortition(n, s)} :
        voted' = voted \cup {[voter |-> n, step |-> s, hash |-> h,
                              weight |-> w[s], parent |-> TailHash(n)] : s \in S}
  BY DEF committeeVote
<1> QED
  BY <1>1

\* The tail is genesis or the last block appended.
LEMMA TailType ==
  ASSUME TypeOK, NEW n \in Node PROVE TailHash(n) \in Tails
<1>1. CASE chain[n] = <<>>
  BY <1>1 DEF TailHash, Tails
<1>2. CASE chain[n] # <<>>
  <2>1. chain[n] \in Seq(Node)
    BY DEF TypeOK
  <2>2. Len(chain[n]) \in DOMAIN chain[n]
    BY <1>2, <2>1, LenProperties
  <2>3. chain[n][Len(chain[n])] \in Node
    BY <2>1, <2>2, ElementOfSeq, LenProperties
  <2> QED
    BY <1>2, <2>3 DEF TailHash, Tails
<1> QED
  BY <1>1, <1>2

\* Votes that are cast are well typed.
LEMMA CastingType ==
  ASSUME TypeOK, NEW n \in Node, NEW S \in SUBSET Steps, NEW h \in Hash, committeeVote(n, S, h)
  PROVE  voted' \subseteq Vote
<1>1. PICK w \in {f \in [S -> UNION {Weights[s] : s \in S}] : \A s \in S : f[s] \in Sortition(n, s)} :
        voted' = voted \cup {[voter |-> n, step |-> s, hash |-> h,
                              weight |-> w[s], parent |-> TailHash(n)] : s \in S}
  BY DEF committeeVote
<1>2. ASSUME NEW s \in S PROVE w[s] \in Nat
  <2>1. w[s] \in UNION {Weights[t] : t \in S}
    BY <1>1
  <2> QED
    BY <2>1
<1>3. TailHash(n) \in Tails
  BY TailType
<1>4. ASSUME NEW s \in S
      PROVE [voter |-> n, step |-> s, hash |-> h, weight |-> w[s], parent |-> TailHash(n)] \in Vote
  BY <1>2, <1>3 DEF Vote
<1> QED
  BY <1>1, <1>4 DEF TypeOK

\* A count returns nil or the hash of a vote of its step that another node cast.
LEMMA CountIsAVote ==
  ASSUME VotesWereSent, NEW n \in Node, NEW s \in Steps
  PROVE  \/ countVotes(n, s) = Nil
         \/ \E v \in voted : v.voter # n /\ v.step = s /\ v.hash = countVotes(n, s)
<1> DEFINE over == {i \in Counted(n, s) : Cardinality(Support(n, s, i)) >= Threshold}
           last == {i \in over : \A j \in over : j <= i}
<1>1. CASE last = {}
  BY <1>1 DEF countVotes
<1>2. CASE last # {}
  <2>1. PICK i \in last : countVotes(n, s) = InVotes[n][s][i].hash
    <3>1. (CHOOSE i \in last : TRUE) \in last
      BY <1>2
    <3>2. countVotes(n, s) = InVotes[n][s][CHOOSE i \in last : TRUE].hash
      BY <1>2 DEF countVotes
    <3> QED
      BY <3>1, <3>2
  <2>2. i \in DOMAIN InVotes[n][s]
    BY <2>1 DEF Counted
  <2>3. InVotes[n][s][i] \in Handled(n, s)
    BY <2>2 DEF Handled
  <2> QED
    BY <2>1, <2>3 DEF VotesWereSent
<1> QED
  BY <1>1, <1>2

\* So what a count returns is a hash.
LEMMA CountType ==
  ASSUME TypeOK, VotesWereSent, NEW n \in Node, NEW s \in Steps
  PROVE  countVotes(n, s) \in Hash
BY CountIsAVote DEF TypeOK, Vote, Hash

-----------------------------------------------------------------------------
\* What the steps that only move the program counter leave alone.
Idle(n) == \/ Propose(n) \/ Panic(n) \/ FinishPanic(n) \/ Fall(n)
           \/ pc[n] = "phase3" /\ Goto(n, "hung") /\ UNCHANGED <<local, voted, InVotes, chain>>

\* binaryBA takes n from a count to the next one, or out.
Advance(n) ==
  \/ pc[n] = "phase1" /\ \E r \in {given[n], countVotes(n, step[n])} :
       \/ r = countVotes(n, step[n]) /\ Decide(n, r)
       \/ GoOn(n, "phase2", step[n] + 1, r)
  \/ pc[n] = "phase2" /\ \E r \in {empty[n], countVotes(n, step[n])} :
       \/ r = countVotes(n, step[n]) /\ Decide(n, r)
       \/ GoOn(n, "phase3", step[n] + 1, r)
  \/ pc[n] = "phase3" /\ step[n] < MaxSteps
     /\ \E r \in {given[n], countVotes(n, step[n])} : GoOn(n, "phase1", step[n], r)

\* A move of n, sorted by what it changes.
LEMMA Moves ==
  ASSUME NEW n \in Node, Move(n)
  PROVE  \/ Handle(n) \/ Idle(n) \/ Choose(n) \/ ReduceOne(n) \/ ReduceTwo(n)
         \/ Advance(n) \/ Finish(n) \/ Receive(n)
<1>1. Phase1(n) => Advance(n)
  BY DEF Phase1, Advance, At
<1>2. Phase2(n) => Advance(n)
  BY DEF Phase2, Advance, At
<1>3. Phase3(n) => Advance(n) \/ Idle(n)
  BY DEF Phase3, Advance, Idle, At
<1> QED
  BY <1>1, <1>2, <1>3 DEF Move, Idle

\* The constants of the module as sets of steps and hashes.
LEMMA Basics ==
  /\ ReductionOne \in Steps /\ ReductionTwo \in Steps /\ FINAL \in Steps
  /\ 1 \in Steps /\ \A s \in 1..(MaxSteps + 3) : s \in Steps
  /\ \A s \in 1..(MaxSteps + 3) : s \notin {ReductionOne, ReductionTwo, FINAL}
  /\ ReductionOne # FINAL /\ ReductionTwo # FINAL
  /\ Node \subseteq Hash /\ Nil \in Hash /\ \A t \in Tails : Empty(t) \in Hash
BY DEF Steps, ReductionOne, ReductionTwo, FINAL, Hash

Typed == TypeOK /\ VotesWereSent /\ StepOfPhase

\* The steps Decide votes for are steps.
LEMMA DecideType ==
  ASSUME Typed, NEW n \in Node, NEW h \in Hash,
         pc[n] \in {"phase1", "phase2"}, Decide(n, h)
  PROVE  voted' \subseteq Vote
<1> DEFINE S == ((step[n] + 1)..(step[n] + 3))
                 \cup (IF pc[n] = "phase1" /\ step[n] = 1 THEN {FINAL} ELSE {})
<1>1. step[n] \in 1..MaxSteps
  BY DEF Typed, TypeOK, StepOfPhase
<1>2. (step[n] + 1)..(step[n] + 3) \subseteq 1..(MaxSteps + 3)
  BY <1>1
<1>3. S \subseteq Steps
  BY <1>2, Basics
<1>4. committeeVote(n, S, h)
  BY DEF Decide
<1> QED
  BY <1>3, <1>4, CastingType DEF Typed

\* The next count of binaryBA is for a step.
LEMMA GoOnType ==
  ASSUME Typed, NEW n \in Node, NEW l, NEW s \in 1..(MaxSteps + 1), NEW r \in Hash,
         GoOn(n, l, s, r)
  PROVE  voted' \subseteq Vote
<1>1. {s} \subseteq Steps
  <2>1. s \in 1..(MaxSteps + 3)
    OBVIOUS
  <2> QED
    BY <2>1, Basics
<1> QED
  BY <1>1, CastingType DEF GoOn, Typed

\* Handling a vote puts a vote that was sent into the box of its step.
LEMMA HandleTyped ==
  ASSUME Typed, NEW n \in Node, Handle(n)
  PROVE  Typed'
<1>1. PICK v \in Sent(n) :
        /\ InVotes' = [InVotes EXCEPT ![n][v.step] = Append(@, v)]
        /\ UNCHANGED <<pc, local, voted, chain>>
  BY DEF Handle
<1>2. v \in voted /\ v \in Vote /\ v.voter # n /\ v.step \in Steps
  BY DEF Sent, Typed, TypeOK, Vote
<1>3. InVotes[n][v.step] \in Seq(Vote)
  BY <1>2 DEF Typed, TypeOK
<1>4. Append(InVotes[n][v.step], v) \in Seq(Vote)
  BY <1>2, <1>3, AppendProperties
<1>5. TypeOK'
  <2>1. InVotes' \in [Node -> [Steps -> Seq(Vote)]]
    BY <1>1, <1>2, <1>4 DEF Typed, TypeOK
  <2> QED
    BY <1>1, <2>1 DEF Typed, TypeOK, Hash
<1>6. VotesWereSent'
  <2> SUFFICES ASSUME NEW m \in Node, NEW s \in Steps, NEW u \in Handled(m, s)'
               PROVE  u \in voted' /\ u.voter # m /\ u.step = s
    BY DEF VotesWereSent
  <2>1. CASE m = n /\ s = v.step
    <3>1. InVotes'[m][s] = Append(InVotes[n][v.step], v)
      <4>1. InVotes \in [Node -> [Steps -> Seq(Vote)]]
        BY DEF Typed, TypeOK
      <4>2. n \in DOMAIN InVotes /\ v.step \in DOMAIN InVotes[n]
        BY <1>2, <4>1
      <4> QED
        BY <1>1, <2>1, <4>2
    <3>2. PICK i \in DOMAIN InVotes'[m][s] : u = InVotes'[m][s][i]
      BY DEF Handled
    <3>3. u = v \/ u \in Handled(n, v.step)
      BY <1>3, <1>2, <3>1, <3>2, AppendProperties, LenProperties DEF Handled
    <3> QED
      BY <1>1, <1>2, <2>1, <3>3 DEF Typed, VotesWereSent
  <2>2. CASE ~ (m = n /\ s = v.step)
    <3>1. InVotes'[m][s] = InVotes[m][s]
      BY <1>1, <1>2, <2>2 DEF Typed, TypeOK
    <3>2. u \in Handled(m, s)
      BY <3>1 DEF Handled
    <3> QED
      BY <1>1, <3>2 DEF Typed, VotesWereSent
  <2> QED
    BY <2>1, <2>2
<1>7. StepOfPhase'
  BY <1>1 DEF Typed, StepOfPhase
<1> QED
  BY <1>5, <1>6, <1>7 DEF Typed

\* A move that leaves the boxes alone and only adds votes keeps VotesWereSent.
LEMMA BoxesStay ==
  ASSUME VotesWereSent, voted \subseteq voted', InVotes' = InVotes
  PROVE  VotesWereSent'
BY DEF VotesWereSent, Handled

\* binaryBA's return keeps the types.
LEMMA DecideTyped ==
  ASSUME Typed, NEW n \in Node, NEW h \in Hash,
         pc[n] \in {"phase1", "phase2"}, Decide(n, h)
  PROVE  Typed'
<1>1. voted' \subseteq Vote
  BY DecideType
<1>2. TypeOK'
  BY <1>1 DEF Decide, Typed, TypeOK, Counting, Hash
<1>3. voted \subseteq voted'
  BY Casting DEF Decide
<1>4. VotesWereSent'
  BY <1>3, BoxesStay DEF Decide, Typed
<1>5. StepOfPhase'
  BY DEF Decide, Typed, TypeOK, StepOfPhase
<1> QED
  BY <1>2, <1>4, <1>5 DEF Typed

\* Going on to the next count keeps the types.
LEMMA GoOnTyped ==
  ASSUME Typed, NEW n \in Node, NEW l \in {"phase1", "phase2", "phase3"},
         NEW s \in 1..(MaxSteps + 1), NEW r \in Hash,
         l = "phase1" => s < MaxSteps, l = "phase2" => s <= MaxSteps,
         GoOn(n, l, s, r)
  PROVE  Typed'
<1>1. voted' \subseteq Vote
  BY GoOnType
<1>2. TypeOK'
  BY <1>1 DEF GoOn, Typed, TypeOK, Counting, Hash
<1>3. voted \subseteq voted'
  BY Casting DEF GoOn
<1>4. VotesWereSent'
  BY <1>3, BoxesStay DEF GoOn, Typed
<1>5. StepOfPhase'
  BY DEF GoOn, Typed, TypeOK, StepOfPhase
<1> QED
  BY <1>2, <1>4, <1>5 DEF Typed

\* So every step of binaryBA keeps the types.
LEMMA AdvanceTyped ==
  ASSUME Typed, NEW n \in Node, Advance(n)
  PROVE  Typed'
<1>1. step[n] \in 1..(MaxSteps + 1) /\ given[n] \in Hash /\ empty[n] \in Hash
  BY DEF Typed, TypeOK
<1>2. step[n] \in Steps
  <2>1. step[n] \in 1..(MaxSteps + 3)
    BY <1>1
  <2> QED
    BY <2>1, Basics
<1>3. countVotes(n, step[n]) \in Hash
  BY <1>2, CountType DEF Typed
<1>4. CASE pc[n] = "phase1"
  <2>1. step[n] < MaxSteps
    BY <1>4 DEF Typed, StepOfPhase
  <2>2. step[n] + 1 \in 1..(MaxSteps + 1) /\ step[n] + 1 <= MaxSteps
    BY <1>1, <2>1, NextStep
  <2>3. PICK r \in Hash : Decide(n, r) \/ GoOn(n, "phase2", step[n] + 1, r)
    BY <1>1, <1>3, <1>4 DEF Advance
  <2> QED
    BY <1>4, <2>2, <2>3, DecideTyped, GoOnTyped
<1>5. CASE pc[n] = "phase2"
  <2>1. step[n] <= MaxSteps
    BY <1>5 DEF Typed, StepOfPhase
  <2>2. step[n] + 1 \in 1..(MaxSteps + 1)
    BY <1>1, <2>1, NextStep
  <2>3. PICK r \in Hash : Decide(n, r) \/ GoOn(n, "phase3", step[n] + 1, r)
    BY <1>1, <1>3, <1>5 DEF Advance
  <2> QED
    BY <1>5, <2>2, <2>3, DecideTyped, GoOnTyped
<1>6. CASE pc[n] = "phase3"
  <2>1. step[n] < MaxSteps /\ \E r \in Hash : GoOn(n, "phase1", step[n], r)
    BY <1>1, <1>3, <1>6 DEF Advance
  <2> QED
    BY <1>1, <2>1, GoOnTyped
<1> QED
  BY <1>4, <1>5, <1>6 DEF Advance

\* Every move keeps the types, and the boxes hold votes that were sent.
LEMMA TypedMove ==
  ASSUME Typed, NEW n \in Node, Move(n)
  PROVE  Typed'
<1> USE DEF Typed
<1>1. CASE Idle(n)
  <2>1. /\ UNCHANGED <<local, voted, InVotes, chain>>
        /\ pc' \in [Node -> {"idle", "proposing", "hung", "done", "down"} \cup Counting]
        /\ \A m \in Node : pc'[m] \in {"phase1", "phase2"} => pc'[m] = pc[m]
    <3>1. PICK l \in {"proposing", "hung", "down"} :
            pc' = [pc EXCEPT ![n] = l] /\ UNCHANGED <<local, voted, InVotes, chain>>
      BY <1>1 DEF Idle, Propose, Panic, FinishPanic, Fall
    <3>2. pc \in [Node -> {"idle", "proposing", "hung", "done", "down"} \cup Counting]
      BY DEF TypeOK
    <3> QED
      BY <3>1, <3>2
  <2>2. TypeOK'
    BY <2>1 DEF TypeOK, Hash
  <2>3. VotesWereSent'
    BY <2>1, BoxesStay
  <2>4. StepOfPhase'
    BY <2>1 DEF StepOfPhase
  <2> QED
    BY <2>2, <2>3, <2>4
<1>2. CASE Choose(n)
  <2>1. PICK h \in Hash : committeeVote(n, {ReductionOne}, h)
    BY <1>2, Basics DEF Choose
  <2>2. voted' \subseteq Vote
    BY <2>1, Basics, CastingType
  <2>3. TypeOK'
    BY <1>2, <2>2 DEF Choose, TypeOK, Counting, Hash
  <2>4. VotesWereSent'
    BY <1>2, <2>1, Casting, BoxesStay DEF Choose
  <2>5. StepOfPhase'
    BY <1>2 DEF Choose, StepOfPhase, TypeOK
  <2> QED
    BY <2>3, <2>4, <2>5
<1>3. CASE ReduceOne(n)
  <2>1. Empty(TailHash(n)) \in Hash
    BY TailType, Basics
  <2>2. countVotes(n, ReductionOne) \in Hash
    BY Basics, CountType
  <2>3. empty' \in [Node -> Hash] /\ empty'[n] = Empty(TailHash(n))
    BY <1>3, <2>1 DEF ReduceOne, TypeOK
  <2>4. PICK h \in Hash : committeeVote(n, {ReductionTwo}, h)
    BY <1>3, <2>1, <2>2, <2>3 DEF ReduceOne
  <2>5. voted' \subseteq Vote
    BY <2>4, Basics, CastingType
  <2>6. TypeOK'
    BY <1>3, <2>3, <2>5 DEF ReduceOne, TypeOK, Counting, Hash
  <2>7. VotesWereSent'
    BY <1>3, <2>4, Casting, BoxesStay DEF ReduceOne
  <2>8. StepOfPhase'
    BY <1>3 DEF ReduceOne, StepOfPhase, TypeOK
  <2> QED
    BY <2>6, <2>7, <2>8
<1>4. CASE ReduceTwo(n)
  <2>1. Empty(TailHash(n)) \in Hash
    BY TailType, Basics
  <2>2. countVotes(n, ReductionTwo) \in Hash
    BY Basics, CountType
  <2>3. empty' \in [Node -> Hash] /\ given' \in [Node -> Hash]
    BY <1>4, <2>1, <2>2 DEF ReduceTwo, TypeOK
  <2>4. committeeVote(n, {1}, given'[n]) /\ given'[n] \in Hash
    BY <1>4, <2>3 DEF ReduceTwo
  <2>5. voted' \subseteq Vote
    BY <2>4, Basics, CastingType
  <2>6. step' \in [Node -> 1..(MaxSteps + 1)]
    BY <1>4 DEF ReduceTwo, TypeOK
  <2>7. TypeOK'
    BY <1>4, <2>3, <2>5, <2>6 DEF ReduceTwo, TypeOK, Counting, Hash
  <2>8. VotesWereSent'
    BY <1>4, <2>4, Casting, BoxesStay DEF ReduceTwo
  <2>9. StepOfPhase'
    BY <1>4 DEF ReduceTwo, StepOfPhase, TypeOK
  <2> QED
    BY <2>7, <2>8, <2>9
<1>5. CASE Finish(n)
  <2>1. chain' \in [Node -> Seq(Node)]
    <3>1. Append(chain[n], n) \in Seq(Node)
      BY AppendProperties DEF TypeOK
    <3> QED
      BY <1>5, <3>1 DEF Finish, TypeOK
  <2>2. TypeOK'
    BY <1>5, <2>1 DEF Finish, TypeOK, Hash
  <2>3. VotesWereSent'
    BY <1>5, BoxesStay DEF Finish
  <2>4. StepOfPhase'
    BY <1>5 DEF Finish, StepOfPhase, TypeOK
  <2> QED
    BY <2>2, <2>3, <2>4
<1>6. CASE Receive(n)
  <2>1. PICK m \in Node : chain' = [chain EXCEPT ![n] = Append(@, m)]
    BY <1>6 DEF Receive
  <2>2. chain' \in [Node -> Seq(Node)]
    <3>1. Append(chain[n], m) \in Seq(Node)
      BY AppendProperties DEF TypeOK
    <3> QED
      BY <2>1, <3>1 DEF TypeOK
  <2>3. TypeOK'
    BY <1>6, <2>2 DEF Receive, TypeOK, Hash
  <2>4. VotesWereSent'
    BY <1>6, BoxesStay DEF Receive
  <2>5. StepOfPhase'
    BY <1>6 DEF Receive, StepOfPhase
  <2> QED
    BY <2>3, <2>4, <2>5
<1> QED
  BY <1>1, <1>2, <1>3, <1>4, <1>5, <1>6, Moves, HandleTyped, AdvanceTyped

-----------------------------------------------------------------------------
\* What binaryBA returned is never revised.
LEMMA DecidedStays ==
  ASSUME Typed, NEW n \in Node, Move(n), NEW m \in Node, Decided(m)
  PROVE  Decided(m)' /\ result'[m] = result[m] /\ step'[m] = step[m]
<1> USE DEF Decided
<1>1. CASE Idle(n)
  BY <1>1 DEF Idle, Propose, Panic, FinishPanic, Fall, Typed, TypeOK, Counting
<1>2. CASE Advance(n)
  <2>1. pc[n] \in {"phase1", "phase2", "phase3"} /\ m # n
    BY <1>2 DEF Advance
  <2> QED
    BY <1>2, <2>1 DEF Advance, Decide, GoOn, Typed, TypeOK
<1>3. CASE Handle(n) \/ Choose(n) \/ ReduceOne(n) \/ ReduceTwo(n) \/ Finish(n) \/ Receive(n)
  BY <1>3 DEF Handle, Choose, ReduceOne, ReduceTwo, Finish, Receive, At, Typed, TypeOK
<1> QED
  BY <1>1, <1>2, <1>3, Moves

\* What a move of n adds to the votes of binaryBA and to its result: from its
\* count, or what it was given, or its empty hash.
Sound(n, h) == h \in {given'[n], empty[n]} \/ \E s \in 1..(MaxSteps + 1) : h = countVotes(n, s)
Fresh(n, v) ==
  /\ v.voter = n
  /\ v.step \in {ReductionOne, ReductionTwo} \/ Sound(n, v.hash)
  /\ v.step = FINAL => result'[n] = v.hash /\ step'[n] = 1 /\ pc'[n] = "final"
Adds(n) ==
  /\ voted \subseteq voted' /\ \A v \in voted' : v \in voted \/ Fresh(n, v)
  /\ result'[n] = result[n] \/ Sound(n, result'[n])
  /\ \A m \in Node \ {n} : result'[m] = result[m]

\* binaryBA's return adds votes for its result, and for FINAL only in the first step.
LEMMA DecideAdds ==
  ASSUME Typed, NEW n \in Node, pc[n] \in {"phase1", "phase2"},
         Decide(n, countVotes(n, step[n]))
  PROVE  Adds(n)
<1> DEFINE S == ((step[n] + 1)..(step[n] + 3))
                 \cup (IF pc[n] = "phase1" /\ step[n] = 1 THEN {FINAL} ELSE {})
<1>1. committeeVote(n, S, countVotes(n, step[n]))
  BY DEF Decide
<1>2. /\ result'[n] = countVotes(n, step[n]) /\ step'[n] = step[n] /\ pc'[n] = "final"
      /\ \A m \in Node \ {n} : result'[m] = result[m]
  BY DEF Decide, Typed, TypeOK
<1>3. step[n] \in 1..MaxSteps
  BY DEF Typed, TypeOK, StepOfPhase
<1>4. FINAL \in S => step[n] = 1
  <2>1. \A s \in (step[n] + 1)..(step[n] + 3) : s \in 1..(MaxSteps + 3)
    BY <1>3
  <2>2. FINAL \notin (step[n] + 1)..(step[n] + 3)
    BY <2>1, Basics
  <2> QED
    BY <2>2
<1>5. Sound(n, countVotes(n, step[n]))
  <2>1. step[n] \in 1..(MaxSteps + 1)
    BY <1>3
  <2> QED
    BY <2>1 DEF Sound
<1>6. /\ voted \subseteq voted'
      /\ \A v \in voted' : v \in voted
           \/ (v.voter = n /\ v.step \in S /\ v.hash = countVotes(n, step[n]))
  BY <1>1, Casting
<1>7. \A v \in voted' : v \in voted \/ Fresh(n, v)
  BY <1>2, <1>4, <1>5, <1>6 DEF Fresh
<1> QED
  BY <1>2, <1>5, <1>6, <1>7 DEF Adds

\* Going on to the next count adds one vote, which is not for FINAL.
LEMMA GoOnAdds ==
  ASSUME NEW n \in Node, NEW l, NEW s \in 1..(MaxSteps + 1), NEW r,
         Sound(n, r), GoOn(n, l, s, r)
  PROVE  Adds(n)
<1>1. committeeVote(n, {s}, r) /\ result' = result
  BY DEF GoOn
<1>2. s # FINAL
  <2>1. s \in 1..(MaxSteps + 3)
    OBVIOUS
  <2> QED
    BY <2>1, Basics
<1>3. voted \subseteq voted' /\ \A v \in voted' : v \in voted \/ (v.voter = n /\ v.step \in {s} /\ v.hash = r)
  BY <1>1, Casting
<1> QED
  BY <1>1, <1>2, <1>3 DEF Adds, Fresh

\* A step of binaryBA adds votes for a hash it was given, holds as empty, or counted.
LEMMA AdvanceAdds ==
  ASSUME Typed, NEW n \in Node, Advance(n)
  PROVE  Adds(n)
<1>1. step[n] \in 1..(MaxSteps + 1)
  BY DEF Typed, TypeOK
<1>2. given' = given
  BY DEF Advance, Decide, GoOn
<1>3. \A r \in {given[n], empty[n], countVotes(n, step[n])} : Sound(n, r)
  BY <1>1, <1>2 DEF Sound
<1>4. CASE pc[n] \in {"phase1", "phase2"} /\ Decide(n, countVotes(n, step[n]))
  BY <1>4, DecideAdds
<1>5. CASE \E l : \E s \in 1..(MaxSteps + 1) :
             \E r \in {given[n], empty[n], countVotes(n, step[n])} : GoOn(n, l, s, r)
  BY <1>3, <1>5, GoOnAdds
<1>6. pc[n] \in {"phase1", "phase2"} => step[n] + 1 \in 1..(MaxSteps + 1)
  <2>1. (pc[n] = "phase1" => step[n] < MaxSteps) /\ (pc[n] = "phase2" => step[n] <= MaxSteps)
    BY DEF Typed, StepOfPhase
  <2> QED
    BY <1>1, <2>1, NextStep
<1>7. pc[n] = "phase1" => <1>4!1 \/ <1>5!1
  BY <1>6 DEF Advance
<1>8. pc[n] = "phase2" => <1>4!1 \/ <1>5!1
  BY <1>6 DEF Advance
<1>9. pc[n] = "phase3" => <1>5!1
  BY <1>1 DEF Advance
<1> QED
  BY <1>4, <1>5, <1>7, <1>8, <1>9 DEF Advance

\* What a move adds to the votes of binaryBA and of FINAL.
LEMMA NewVotes ==
  ASSUME Typed, NEW n \in Node, Move(n)
  PROVE  Adds(n)
<1>1. CASE Handle(n) \/ Idle(n) \/ Finish(n) \/ Receive(n)
  <2>1. voted' = voted /\ result' = result
    BY <1>1 DEF Handle, Idle, Propose, Panic, FinishPanic, Fall, Finish, Receive
  <2> QED
    BY <2>1 DEF Adds
<1>2. CASE Choose(n)
  <2>1. PICK h : committeeVote(n, {ReductionOne}, h)
    BY <1>2 DEF Choose
  <2>2. result' = result
    BY <1>2 DEF Choose
  <2> QED
    BY <2>1, <2>2, Casting, Basics DEF Adds, Fresh
<1>3. CASE ReduceOne(n)
  <2>1. PICK h : committeeVote(n, {ReductionTwo}, h)
    BY <1>3 DEF ReduceOne
  <2>2. result' = result
    BY <1>3 DEF ReduceOne
  <2> QED
    BY <2>1, <2>2, Casting, Basics DEF Adds, Fresh
<1>4. CASE ReduceTwo(n)
  <2>1. committeeVote(n, {1}, given'[n])
    BY <1>4 DEF ReduceTwo
  <2>2. result' = result
    BY <1>4 DEF ReduceTwo
  <2>3. 1 # FINAL
    BY DEF FINAL
  <2> QED
    BY <2>1, <2>2, <2>3, Casting DEF Adds, Fresh, Sound
<1> QED
  BY <1>1, <1>2, <1>3, <1>4, AdvanceAdds, Moves

\* A node is given a hash once, and afterwards keeps it.
LEMMA GivenOnce ==
  ASSUME Typed, NotGivenYet, NEW n \in Node, Move(n)
  PROVE  /\ NotGivenYet'
         /\ \A m \in Node : given'[m] = given[m] \/ given[m] = Nil
<1> USE DEF NotGivenYet
<1>1. CASE ReduceTwo(n)
  <2>1. given[n] = Nil
    BY <1>1 DEF ReduceTwo, At
  <2> QED
    BY <1>1, <2>1 DEF ReduceTwo, Typed, TypeOK
<1>2. CASE Advance(n)
  <2>1. given' = given
    BY <1>2 DEF Advance, Decide, GoOn
  <2>2. \A m \in Node : pc'[m] \in {"idle", "proposing", "one", "two"} => pc'[m] = pc[m]
    <3>1. PICK l \in {"phase1", "phase2", "phase3", "final"} : pc' = [pc EXCEPT ![n] = l]
      BY <1>2 DEF Advance, Decide, GoOn
    <3> QED
      BY <3>1 DEF Typed, TypeOK
  <2> QED
    BY <2>1, <2>2
<1>3. CASE Idle(n)
  <2>1. given' = given
    BY <1>3 DEF Idle, Propose, Panic, FinishPanic, Fall
  <2>2. \A m \in Node : pc'[m] \in {"idle", "proposing", "one", "two"}
          => pc[m] \in {"idle", "proposing", "one", "two"}
    BY <1>3 DEF Idle, Propose, Panic, FinishPanic, Fall, Typed, TypeOK
  <2> QED
    BY <2>1, <2>2
<1>4. CASE Handle(n) \/ Choose(n) \/ ReduceOne(n) \/ Finish(n) \/ Receive(n)
  <2>1. given' = given
    BY <1>4 DEF Handle, Choose, ReduceOne, Finish, Receive
  <2>2. \A m \in Node : pc'[m] \in {"idle", "proposing", "one", "two"}
          => pc[m] \in {"idle", "proposing", "one", "two"}
    BY <1>4 DEF Handle, Choose, ReduceOne, Finish, Receive, At, Typed, TypeOK
  <2> QED
    BY <2>1, <2>2
<1> QED
  BY <1>1, <1>2, <1>3, <1>4, Moves

\* The hash of an empty block is no block's.
LEMMA EmptyStays ==
  ASSUME Typed, EmptyIsNoBlock, NEW n \in Node, Move(n)
  PROVE  EmptyIsNoBlock'
<1>1. CASE ReduceOne(n) \/ ReduceTwo(n)
  <2>1. Empty(TailHash(n)) \notin Node
    BY TailType DEF Typed
  <2>2. empty' = [empty EXCEPT ![n] = Empty(TailHash(n))]
    BY <1>1 DEF ReduceOne, ReduceTwo
  <2> QED
    BY <2>1, <2>2 DEF EmptyIsNoBlock, Typed, TypeOK
<1>2. CASE ~ (ReduceOne(n) \/ ReduceTwo(n))
  <2>1. empty' = empty
    BY <1>2, Moves DEF Handle, Idle, Propose, Panic, FinishPanic, Fall, Choose, Advance,
       Decide, GoOn, Finish, Receive
  <2> QED
    BY <2>1 DEF EmptyIsNoBlock
<1> QED
  BY <1>1, <1>2

\* A FINAL vote and what its voter returned stay together.
LEMMA FinalVotesStay ==
  ASSUME Typed, FinalVotes, NEW n \in Node, Move(n)
  PROVE  FinalVotes'
<1> SUFFICES ASSUME NEW v \in voted', v.step = FINAL
             PROVE  result'[v.voter] = v.hash /\ step'[v.voter] = 1 /\ Decided(v.voter)'
  BY DEF FinalVotes
<1>1. v \in voted \/ Fresh(n, v)
  BY NewVotes DEF Adds
<1>2. CASE v \in voted
  <2>1. v.voter \in Node
    BY <1>2 DEF Typed, TypeOK, Vote
  <2> QED
    BY <1>2, <2>1, DecidedStays DEF FinalVotes
<1>3. CASE Fresh(n, v)
  BY <1>3, Basics DEF Fresh, Decided
<1> QED
  BY <1>1, <1>2, <1>3

\* Final consensus is reported with a FINAL vote of another node in hand.
LEMMA SecondedStays ==
  ASSUME Typed, FinalVotes, FinalIsSeconded, KindIsLast, NEW n \in Node, Move(n)
  PROVE  FinalIsSeconded' /\ KindIsLast'
<1>1. CASE Finish(n)
  <2>1. /\ Decided(n) /\ kind' \in [Node -> {"none", "final", "tentative"}]
        /\ \A m \in Node \ {n} : kind'[m] = kind[m]
        /\ result' = result /\ step' = step
    BY <1>1 DEF Finish, At, Decided, Typed, TypeOK
  <2>2. ASSUME kind'[n] = "final"
        PROVE  \E m \in Node \ {n} : result[m] = result[n] /\ step[m] = 1 /\ Decided(m)
    <3>1. result[n] # Nil
      BY <1>1, TailType DEF Finish, Typed
    <3>2. result[n] = countVotes(n, FINAL)
      BY <1>1, <2>2, <3>1 DEF Finish, Typed, TypeOK
    <3>3. PICK v \in voted : v.voter # n /\ v.step = FINAL /\ v.hash = result[n]
      BY <3>1, <3>2, Basics, CountIsAVote DEF Typed
    <3>4. v.voter \in Node
      BY DEF Typed, TypeOK, Vote
    <3> QED
      BY <3>3, <3>4 DEF FinalVotes
  <2>3. FinalIsSeconded'
    <3> SUFFICES ASSUME NEW k \in Node, kind'[k] = "final"
                 PROVE  \E m \in Node \ {k} : result'[m] = result'[k] /\ step'[m] = 1 /\ Decided(m)'
      BY DEF FinalIsSeconded
    <3>1. PICK m \in Node \ {k} : result[m] = result[k] /\ step[m] = 1 /\ Decided(m)
      BY <2>1, <2>2 DEF FinalIsSeconded
    <3> QED
      BY <2>1, <3>1, DecidedStays
  <2>4. KindIsLast'
    BY <2>1, DecidedStays DEF KindIsLast
  <2> QED
    BY <2>3, <2>4
<1>2. CASE ~ Finish(n)
  <2>1. kind' = kind
    BY <1>2, Moves DEF Handle, Idle, Propose, Panic, FinishPanic, Fall, Choose, Advance,
       Decide, GoOn, ReduceOne, ReduceTwo, Receive
  <2>2. FinalIsSeconded'
    <3> SUFFICES ASSUME NEW k \in Node, kind'[k] = "final"
                 PROVE  \E m \in Node \ {k} : result'[m] = result'[k] /\ step'[m] = 1 /\ Decided(m)'
      BY DEF FinalIsSeconded
    <3>1. PICK m \in Node \ {k} : result[m] = result[k] /\ step[m] = 1 /\ Decided(m)
      BY <2>1 DEF FinalIsSeconded
    <3>2. Decided(k)
      BY <2>1 DEF KindIsLast
    <3> QED
      BY <3>1, <3>2, DecidedStays
  <2>3. KindIsLast'
    BY <2>1, DecidedStays DEF KindIsLast
  <2> QED
    BY <2>2, <2>3
<1> QED
  BY <1>1, <1>2

\* As long as every node was given b, binaryBA votes for and returns no other block.
LEMMA UnanimityStays ==
  ASSUME Typed, NotGivenYet, EmptyIsNoBlock, OneBlockVotes, Unanimity,
         NEW n \in Node, Move(n)
  PROVE  OneBlockVotes' /\ Unanimity'
<1> SUFFICES ASSUME NEW b \in Node, AllGiven(b)'
             PROVE  /\ \A v \in voted' : v.step \notin {ReductionOne, ReductionTwo}
                                           => v.hash \notin Node \ {b}
                    /\ \A m \in Node : result'[m] \notin Node \ {b}
  BY DEF OneBlockVotes, Unanimity
<1>1. AllGiven(b)
  BY GivenOnce DEF AllGiven
<1>2. ASSUME NEW s \in 1..(MaxSteps + 1) PROVE countVotes(n, s) \notin Node \ {b}
  <2>1. s \in Steps /\ s \notin {ReductionOne, ReductionTwo}
    <3>1. s \in 1..(MaxSteps + 3)
      OBVIOUS
    <3> QED
      BY <3>1, Basics
  <2> QED
    BY <1>1, <2>1, CountIsAVote DEF Typed, OneBlockVotes
<1>3. ASSUME NEW h, Sound(n, h) PROVE h \notin Node \ {b}
  BY <1>2, <1>3 DEF Sound, AllGiven, EmptyIsNoBlock
<1>4. Adds(n)
  BY NewVotes
<1>5. \A v \in voted' : v.step \notin {ReductionOne, ReductionTwo} => v.hash \notin Node \ {b}
  BY <1>1, <1>3, <1>4 DEF Adds, Fresh, OneBlockVotes
<1>6. \A m \in Node : result'[m] \notin Node \ {b}
  BY <1>1, <1>3, <1>4 DEF Adds, Unanimity
<1> QED
  BY <1>5, <1>6

-----------------------------------------------------------------------------
\* The type invariant and the round's invariant hold in every state.
LEMMA Invariant == Spec => [](TypeOK /\ IInv)
<1>1. Init => TypeOK /\ IInv
  <2> SUFFICES ASSUME Init PROVE TypeOK /\ IInv
    OBVIOUS
  <2>1. TypeOK
    <3>1. <<>> \in Seq(Vote) /\ <<>> \in Seq(Node)
      BY EmptySeq
    <3>2. InVotes \in [Node -> [Steps -> Seq(Vote)]]
      BY <3>1 DEF Init
    <3>3. 1 \in 1..(MaxSteps + 1)
      OBVIOUS
    <3> QED
      BY <3>1, <3>2, <3>3 DEF Init, TypeOK, Hash
  <2>2. VotesWereSent
    <3>1. \A n \in Node, s \in Steps : InVotes[n][s] = <<>>
      BY DEF Init
    <3>2. \A n \in Node, s \in Steps : Handled(n, s) = {}
      BY <3>1 DEF Handled
    <3> QED
      BY <3>2 DEF VotesWereSent
  <2>3. FinalVotes /\ FinalIsSeconded /\ StepOfPhase /\ NotGivenYet /\ KindIsLast
        /\ EmptyIsNoBlock /\ OneBlockVotes /\ Unanimity
    BY DEF Init, FinalVotes, FinalIsSeconded, StepOfPhase, NotGivenYet, KindIsLast,
           EmptyIsNoBlock, OneBlockVotes, Unanimity
  <2> QED
    BY <2>1, <2>2, <2>3 DEF IInv
<1>2. TypeOK /\ IInv /\ [Next]_vars => (TypeOK /\ IInv)'
  <2> SUFFICES ASSUME TypeOK, IInv, [Next]_vars PROVE (TypeOK /\ IInv)'
    OBVIOUS
  <2>1. CASE UNCHANGED vars
    BY <2>1 DEF vars, TypeOK, IInv, VotesWereSent, Handled, StepOfPhase, FinalVotes, Decided,
       FinalIsSeconded, NotGivenYet, KindIsLast, EmptyIsNoBlock, OneBlockVotes, AllGiven,
       Unanimity, Hash
  <2>2. ASSUME NEW n \in Node, Move(n) PROVE (TypeOK /\ IInv)'
    <3>1. Typed
      BY DEF Typed, IInv
    <3>2. Typed'
      BY <2>2, <3>1, TypedMove
    <3>3. NotGivenYet'
      BY <2>2, <3>1, GivenOnce DEF IInv
    <3>4. EmptyIsNoBlock'
      BY <2>2, <3>1, EmptyStays DEF IInv
    <3>5. FinalVotes'
      BY <2>2, <3>1, FinalVotesStay DEF IInv
    <3>6. FinalIsSeconded' /\ KindIsLast'
      BY <2>2, <3>1, SecondedStays DEF IInv
    <3>7. OneBlockVotes' /\ Unanimity'
      BY <2>2, <3>1, UnanimityStays DEF IInv
    <3> QED
      BY <3>2, <3>3, <3>4, <3>5, <3>6, <3>7 DEF IInv, Typed
  <2> QED
    BY <2>1, <2>2 DEF Next
<1> QED
  BY <1>1, <1>2, PTL DEF Spec

\* Every variable of a round keeps its type (ProcessMain and what it calls).
THEOREM TypeCorrect == Spec => []TypeOK
BY Invariant, PTL

\* The inductive invariant of a round: which votes can be in a box, and what the
\* votes of binaryBA and of FINAL say about their voters.
THEOREM RoundInvariant == Spec => []IInv
BY Invariant, PTL

\* Whoever reports final consensus was seconded by another node (BA, binaryBA).
THEOREM FinalSeconded == Spec => []FinalIsSeconded
<1>1. IInv => FinalIsSeconded
  BY DEF IInv
<1> QED
  BY <1>1, RoundInvariant, PTL

\* With one block given to all who enter, binaryBA returns no other block.
THEOREM OneBlock == Spec => []Unanimity
<1>1. IInv => Unanimity
  BY DEF IInv
<1> QED
  BY <1>1, RoundInvariant, PTL

\* With three nodes or fewer, two final reports are of the same block: four
\* nodes would be needed for two pairs that second each other.
THEOREM FinalAgrees ==
  ASSUME \A a, b, c, d \in Node : a = b \/ a = c \/ a = d \/ b = c \/ b = d \/ c = d
  PROVE  Spec => []FinalAgreement
<1>1. FinalIsSeconded => FinalAgreement
  <2> SUFFICES ASSUME FinalIsSeconded, NEW m \in Node, NEW n \in Node,
                      kind[m] = "final", kind[n] = "final"
               PROVE  result[m] = result[n]
    BY DEF FinalAgreement
  <2>1. PICK i \in Node \ {m} : result[i] = result[m]
    BY DEF FinalIsSeconded
  <2>2. PICK j \in Node \ {n} : result[j] = result[n]
    BY DEF FinalIsSeconded
  <2> QED
    BY <2>1, <2>2
<1> QED
  BY <1>1, FinalSeconded, PTL

=============================================================================
