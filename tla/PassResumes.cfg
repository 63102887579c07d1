SPECIFICATION FairSpec
CONSTANTS
  Worker = {w1, w2}
  NumPosts = 5
  StoredBefore <- MCStoredBefore
  BatchSize = 2
  MaxAttempts = 2
  MaxRuns = 2
  Faults = {"fetch", "store", "panic", "kv", "crash"}
INVARIANTS TypeOK ResumeSkipsNothing DispatchedCount
PROPERTIES QuietAfterReturn ImplementsResumableScan CancelIsHeard PassEnds
