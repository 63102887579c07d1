SPECIFICATION Spec
CONSTANTS
  NumPosts = 2
  MaxJobs = 4
  MaxStallJobs = 2
  MaxActivations = 1
  Operation = {"full", "resume", "catchup", "rebuild"}
  Defer = TRUE
  Faults = {"crash", "stall", "error", "ddl", "config"}
VIEW View
INVARIANTS SearchGate CompletedCoversAll
PROPERTIES RowForward
CHECK_DEADLOCK FALSE
