\* One distributor (before the first command line), two peers.
CONSTANTS
    d1 = d1
    Distributors = {d1}
    Peers = 2
    MaxPut = 5
SPECIFICATION QueueSpec
INVARIANTS QueueInv PeersInStep
PROPERTIES ImplementsFifo AllDistributed
CHECK_DEADLOCK FALSE
