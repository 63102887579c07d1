SPECIFICATION FairSpec
CONSTANTS
  Node = {n1, n2}
  Req = {r1, r2, r3}
  NoReq = NoReq
  Tool = {plain}
  AskTool = {}
  AutoTool = {}
  IsDM = FALSE
  MaxTurns = 7
  BatchBound = 1
  Faults = {}
INVARIANTS OneFollowUp ShareFlagsAgree CallStageIsDecidable
PROPERTIES ClaimIsResolved DecidedIsContinued
