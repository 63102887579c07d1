SPECIFICATION Spec
CONSTANTS
  Node = {n1, n2}
  Req = {r1, r2, r3}
  NoReq = NoReq
  Tool = {plain, ask}
  AskTool = {ask}
  AutoTool = {}
  IsDM = FALSE
  MaxTurns = 7
  BatchBound = 7
  Faults = {"db", "crash"}
SYMMETRY Symmetry
VIEW View
INVARIANTS TypeOK AtMostOnce OnlyApprovedRun PrivateStaysPrivate
PROPERTIES StatusForward ImplementsDecideOnce
