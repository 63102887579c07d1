SPECIFICATION FairSpec
CONSTANTS
  Post = {p1}
  NoRun = NoRun
  ReplyFlow = "mention"
  MaxRuns = 1
  maxRounds <- MCRounds
  FailureLimit = 2
  Depth = 1
  Faults = {}
CHECK_DEADLOCK FALSE
PROPERTIES RunEnds
