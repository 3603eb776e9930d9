------------------------------ MODULE FifoQueue ------------------------------
(* What the queue of undistributed blocks promises (blockqueue/queue.go: Put
   inserts at the tail, Get "returns and deletes the element at the head"): the
   blocks handed out are, at every moment, a prefix of the blocks put in.      *)
EXTENDS Naturals, Sequences

CONSTANT Block
VARIABLES in,    \* every block put so far, in order
          out    \* every block Get has returned so far, in order

Init == in = <<>> /\ out = <<>>

Put(b) == in' = Append(in, b) /\ UNCHANGED out

Get ==
    /\ Len(out) < Len(in)
    /\ out' = Append(out, in[Len(out) + 1])
    /\ UNCHANGED in

Next == (\E b \in Block : Put(b)) \/ Get

Spec == Init /\ [][Next]_<<in, out>>
=============================================================================
