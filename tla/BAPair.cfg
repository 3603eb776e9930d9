SPECIFICATION Spec
CONSTANTS
  n1 = n1
  n2 = n2
  n3 = n3
  Node <- Pair
  Prior <- Ranks
  Genesis = Genesis
  Nil = Nil
  Weights <- LightFirst
  Threshold = 2
  MaxSteps = 5
ACTION_CONSTRAINT OnlyWhatIsRead
INVARIANTS IInv Unanimity FinalAgreement
CHECK_DEADLOCK FALSE
