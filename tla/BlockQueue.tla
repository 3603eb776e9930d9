----------------------------- MODULE BlockQueue -----------------------------
(* The queue of undistributed blocks (blockqueue/queue.go) and the goroutines
   that drain it (GRPC/util.go DataBlockDistribute and TableBlockDistribute: one
   module stands for both, each works on a queue of its own).

   The bookkeeper's transaction pool is the only producer.  The consumers are
   the distributor goroutines: server/cmd.go starts one more each time it waits
   for a command line, so Distributors has one member before the first command
   and more after it.

   Cells are numbered in the order they are put, so cell i holds block i; 0 is
   Go's nil.  A read of head or size outside the lock is an atomic step of its
   own, and everything between Lock and Unlock is one step.                    *)
EXTENDS Integers, Sequences

CONSTANTS Distributors,  \* goroutines running DataBlockDistribute
          Peers,         \* the number of other nodes in Cluster.LocalNode.Node
          MaxPut         \* bound: blocks put into the queue

ASSUME QueueAssumption == Peers \in Nat /\ MaxPut \in Nat

VARIABLES head, rear, size,  \* Queue's Head, Rear, Size
          link,              \* link[i]: the next pointer of cell i
          put,               \* cells allocated so far
          pc, taking,        \* where each distributor is, and Get's local n
          peer,              \* the peer its inner loop is at
          taken,             \* the blocks Get returned, in order
          got,               \* got[p]: the blocks peer p received, in order
          crashed            \* "no", or the panic that ended the process

list == <<head, rear, size, link, put>>
queueVars == <<head, rear, size, link, put, pc, taking, peer, taken, got, crashed>>

NoCell == 0
Queued == 1 .. MaxPut
Cell == Queued \cup {NoCell}

QueueTypeOK ==
    /\ head \in Cell /\ rear \in Cell /\ size \in Int
    /\ link \in [Queued -> Cell]
    /\ put \in 0 .. MaxPut
    /\ pc \in [Distributors -> {"poll", "check", "read", "lock", "send"}]
    /\ taking \in [Distributors -> Cell]
    /\ \A d \in Distributors : pc[d] = "send" => taking[d] # NoCell
    /\ peer \in [Distributors -> 1 .. Peers + 1]
    /\ taken \in Seq(Queued)
    /\ got \in [1 .. Peers -> Seq(Queued)]
    /\ crashed \in {"no", "nil", "network"}

QueueInit ==
    /\ head = NoCell /\ rear = NoCell /\ size = 0
    /\ link = [i \in Queued |-> NoCell]
    /\ put = 0
    /\ pc = [d \in Distributors |-> "poll"]
    /\ taking = [d \in Distributors |-> NoCell]
    /\ peer = [d \in Distributors |-> 1]
    /\ taken = <<>>
    /\ got = [p \in 1 .. Peers |-> <<>>]
    /\ crashed = "no"

-----------------------------------------------------------------------------
(* An operator with an underscore in its name is a mutant: the definition that
   follows it, with a bug the properties below must catch.                     *)

\* The bookkeeper appends block put + 1 behind the tail.
Put ==
    /\ crashed = "no" /\ put < MaxPut
    /\ put' = put + 1
    /\ \/ rear = NoCell /\ head' = put + 1 /\ UNCHANGED link
       \/ rear # NoCell /\ link' = [link EXCEPT ![rear] = put + 1] /\ UNCHANGED head
    /\ rear' = put + 1
    /\ size' = size + 1
    /\ UNCHANGED <<pc, taking, peer, taken, got, crashed>>

Goto(d, from, to) == crashed = "no" /\ pc[d] = from /\ pc' = [pc EXCEPT ![d] = to]

\* A panic in any goroutine ends the process.
Panic(d, from, why) ==
    /\ crashed = "no" /\ pc[d] = from
    /\ crashed' = why
    /\ UNCHANGED <<list, pc, taking, peer, taken, got>>

\* The distributor wakes and sees size >= 1, without the lock.
SizeCheck(d) ==
    /\ Goto(d, "poll", "check")
    /\ size >= 1
    /\ UNCHANGED <<list, taking, peer, taken, got, crashed>>

\* Get's first read of head: a nil result fails the caller's type assertion.
HeadCheck(d) ==
    IF head = NoCell
    THEN Panic(d, "check", "nil")
    ELSE /\ Goto(d, "check", "read")
         /\ UNCHANGED <<list, taking, peer, taken, got, crashed>>

\* Get's second read of head, still without the lock.
HeadRead(d) ==
    /\ Goto(d, "read", "lock")
    /\ taking' = [taking EXCEPT ![d] = head]
    /\ UNCHANGED <<list, peer, taken, got, crashed>>

\* Get that moves the head by two cells when it can.
Unlink_Skip(c) ==
    /\ \/ link[c] = NoCell /\ head' = NoCell /\ rear' = NoCell
       \/ link[c] # NoCell /\ head' = (IF link[link[c]] = NoCell THEN link[c] ELSE link[link[c]]) /\ UNCHANGED rear
    /\ size' = size - 1

\* The locked part of Get, which trusts the cell read before it.
Unlink(c) ==
    /\ \/ link[c] = NoCell /\ head' = NoCell /\ rear' = NoCell
       \/ link[c] # NoCell /\ head' = link[c] /\ UNCHANGED rear
    /\ size' = size - 1

Take(d) ==
    IF taking[d] = NoCell
    THEN Panic(d, "lock", "nil")
    ELSE /\ Goto(d, "lock", "send")
         /\ Unlink(taking[d])
         /\ taken' = Append(taken, taking[d])
         /\ peer' = [peer EXCEPT ![d] = 1]
         /\ UNCHANGED <<link, put, taking, got, crashed>>

\* One DistributeDataBlock call: it reaches the peer, or log.Panic.
SendBlock(d) ==
    /\ peer[d] <= Peers
    /\ Goto(d, "send", "send")
    /\ got' = [got EXCEPT ![peer[d]] = Append(@, taking[d])]
    /\ peer' = [peer EXCEPT ![d] = @ + 1]
    /\ UNCHANGED <<list, taking, taken, crashed>>

SendFail(d) == peer[d] <= Peers /\ Panic(d, "send", "network")

\* The inner loop left after the first peer.
SendDone_Early(d) ==
    /\ peer[d] > 1
    /\ Goto(d, "send", "poll")
    /\ UNCHANGED <<list, taking, peer, taken, got, crashed>>

\* All peers were served: back to the sleep.
SendDone(d) ==
    /\ peer[d] > Peers
    /\ Goto(d, "send", "poll")
    /\ UNCHANGED <<list, taking, peer, taken, got, crashed>>

Step(d) == SizeCheck(d) \/ HeadCheck(d) \/ HeadRead(d) \/ Take(d) \/ SendBlock(d) \/ SendDone(d)

QueueNext == Put \/ \E d \in Distributors : Step(d) \/ SendFail(d)

\* The Go scheduler runs every goroutine that can run; the sleep ends.
QueueSpec == QueueInit /\ [][QueueNext]_queueVars /\ \A d \in Distributors : WF_queueVars(Step(d))
-----------------------------------------------------------------------------
\* The inductive invariant of a single distributor: the list runs from head to
\* rear without a gap and holds exactly the blocks put and not yet handed out,
\* and the cell a distributor is about to unlink is still the head.
ListIsPending ==
    /\ Len(taken) <= put /\ size = put - Len(taken)
    /\ \A i \in 1 .. Len(taken) : taken[i] = i
    /\ \A i \in Queued : i > Len(taken) => link[i] = IF i < put THEN i + 1 ELSE NoCell
    /\ IF Len(taken) < put THEN head = Len(taken) + 1 /\ rear = put
                         ELSE head = NoCell /\ rear = NoCell

UnlinksTheHead ==
    \A d \in Distributors :
        /\ pc[d] \in {"check", "read", "lock"} => Len(taken) < put
        /\ pc[d] = "lock" => taking[d] = head

\* While a block is being sent it is the last one handed out; the peers before
\* the one served now have it, the others do not, and none has a gap.
PeersBehind ==
    \A d \in Distributors, p \in 1 .. Peers :
        /\ \A i \in 1 .. Len(got[p]) : got[p][i] = i
        /\ pc[d] = "send" => taking[d] = Len(taken) /\ Len(taken) > 0
        /\ Len(got[p]) = IF pc[d] = "send" /\ peer[d] <= p THEN Len(taken) - 1 ELSE Len(taken)

QueueInv == QueueTypeOK /\ ListIsPending /\ UnlinksTheHead /\ PeersBehind /\ crashed # "nil"

\* The distributor of a block queue never finds the list empty after it has
\* seen a positive size (GRPC/util.go:309-312: Get's result is asserted to be a
\* block at once): with one distributor the nil panic cannot happen.
NoNilBlock == crashed # "nil"

\* Any two peers have received the same blocks in the same order, the earlier
\* one in the list at most one block more than the later one, even when an
\* unreachable peer ends the process in the middle of a broadcast.
PeersInStep ==
    \A p, q \in 1 .. Peers :
        p < q => /\ Len(got[p]) - Len(got[q]) \in {0, 1}
                 /\ \A i \in 1 .. Len(got[q]) : got[q][i] = got[p][i]

\* The queue promises FIFO: what Get returned is a prefix of what was put.
Fifo == INSTANCE FifoQueue WITH in <- [i \in 1 .. put |-> i], out <- taken, Block <- Queued
ImplementsFifo == Fifo!Spec

\* Every block put reaches every peer, unless the process panics.
AllDistributed ==
    \A i \in Queued : i <= put ~>
        crashed # "no" \/ \A p \in 1 .. Peers : i \in {got[p][j] : j \in 1 .. Len(got[p])}

\* Whatever the number of distributors, a Put never cuts the list: a next
\* pointer that is set is never set again, so the rear it writes through is
\* the last cell (queue.go:43-49 writes rear.next without looking at it).
LinkIsFinal == [][\A i \in Queued : link[i] # NoCell => link'[i] = link[i]]_queueVars

\* Whatever the number of distributors, size is the number of blocks put minus
\* the number of times Get returned one, so it is what a distributor compares
\* with 1 that goes wrong when two of them take the same cell.
SizeCountsCalls == size = put - Len(taken)
=============================================================================
