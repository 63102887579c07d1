SPECIFICATION Spec
CONSTANTS
  Node = {n1}
  Req = {r1, r2, r3}
  NoReq = NoReq
  Tool = {plain, auto}
  AskTool = {}
  AutoTool = {auto}
  IsDM = TRUE
  MaxTurns = 7
  BatchBound = 7
  Faults = {"crash", "llm"}
SYMMETRY Symmetry
VIEW View
INVARIANTS OneAnchor
