SPECIFICATION FairSpec
CONSTANTS
  Node = {n1, n2}
  NoNode = NoNode
  Origin = {o1}
  MaxSignIns = 2
  maxTokens <- MCTokens
  MaxSaves = 0
  MaxFaults = 1
  MaxStalls = 0
  ReadsFail = FALSE
CHECK_DEADLOCK FALSE
INVARIANTS NoReplay
PROPERTIES NeverResurrected DeadGrantIsCleared
