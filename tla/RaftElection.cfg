\* Three nodes, two campaigns each, one fault, until a node votes twice.
CONSTANTS
    n1 = n1
    n2 = n2
    n3 = n3
    None = None
    Node <- Three
    Peers <- Mesh
    NodeCount <- FullCount
    MaxTerm = 2
    MaxFaults = 1
SPECIFICATION Spec
INVARIANTS IInv OneBookkeeper NoStrandedCandidate
CONSTRAINT VotesAreFinal
SYMMETRY Interchangeable
CHECK_DEADLOCK FALSE
