------------------------------- MODULE BASync -------------------------------
(* BAStar when the network keeps its promise: everybody takes part, nobody    *)
(* counts a step before the others have voted in it and what they sent has    *)
(* arrived, and the block that is agreed on is there when it is looked up.    *)
EXTENDS BAStar

AllVoted(n, s) == \A m \in Node \ {n} : \E v \in voted : v.voter = m /\ v.step = s
AllHandled(n, s) == \A v \in Sent(n) : v.step = s => v \in Handled(n, s)

(* Only a count reads InVotes: a vote that is handled before its step is being *)
(* counted is as if handled during it, and one handled later is never read.    *)
JustInTime(n) ==
  \A s \in Steps :
    InVotes'[n][s] # InVotes[n][s] => pc[n] \in Counting /\ CurrentStep(n) = s

InTime(n) ==
  /\ InVotes'[n] # InVotes[n] => JustInTime(n) /\ AllVoted(n, CurrentStep(n))
  /\ pc[n] = "proposing" => \A m \in Node : pc[m] # "idle"
  /\ pc[n] \in Counting /\ pc'[n] # pc[n] =>
       AllVoted(n, CurrentStep(n)) /\ AllHandled(n, CurrentStep(n))
  /\ pc[n] = "final" /\ pc'[n] = "down" => result[n] \notin Node

(* The best proposal and its block have reached everybody in blockProposal.   *)
Best == CHOOSE b \in Node : \A m \in Node : Prior[m] <= Prior[b]
SameBlock(n) ==
  pc[n] = "proposing" /\ pc'[n] = "one" =>
    \A v \in voted' \ voted : v.hash = Best

(* All votes of a step are for one hash then: their order may be fixed.       *)
InOrder(n) ==
  \A s \in Steps : \A v \in Handled(n, s)' \ Handled(n, s) :
    \A u \in Sent(n) : u.step = s /\ Prior[u.voter] > Prior[v.voter] => u \in Handled(n, s)

(* Every goroutine is scheduled and every call returns.                       *)
GoodMove(n) == Move(n) /\ InTime(n) /\ SameBlock(n) /\ InOrder(n)
GoodSpec ==
  /\ Init /\ [][\E n \in Node : GoodMove(n)]_vars
  /\ \A n \in Node : WF_vars(GoodMove(n))

(* In the good case the round ends: every participant returns the block with  *)
(* the best priority, and every chain has been extended by it and nothing     *)
(* else (ProcessMain, bookKeeperRun, DistributeDataBlock).                    *)
EveryoneAdopts == <>(\A n \in Node : result[n] = Best /\ chain[n] = <<Best>>)
=============================================================================
