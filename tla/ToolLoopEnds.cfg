SPECIFICATION FairSpec
CONSTANTS
  Post = {p1}
  NoRun = NoRun
  ReplyFlow = "dm"
  MaxRuns = 2
  maxRounds <- MCRounds
  FailureLimit = 2
  Depth = 1
  Faults = {"llm"}
CHECK_DEADLOCK FALSE
INVARIANTS RoundsRecorded NothingRecordedTwice RoundsPrecedeAnchor CanceledByItsOwn
PROPERTIES ToolsStayDisabled RunEnds
