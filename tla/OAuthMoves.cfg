SPECIFICATION Spec
CONSTANTS
  Node = {n1, n2}
  NoNode = NoNode
  Origin = {o1, o2}
  MaxSignIns = 1
  maxTokens <- MCTokens
  MaxSaves = 2
  MaxFaults = 1
  MaxStalls = 0
  ReadsFail = FALSE
SYMMETRY MCSymmetry
CHECK_DEADLOCK FALSE
INVARIANTS OnlyItsServer
