SPECIFICATION GoodSpec
CONSTANTS
  n1 = n1
  n2 = n2
  n3 = n3
  Node <- Trio
  Prior <- Ranks
  Genesis = Genesis
  Nil = Nil
  Weights <- Heavy
  Threshold = 2
  MaxSteps = 2
PROPERTIES EveryoneAdopts
CHECK_DEADLOCK FALSE
