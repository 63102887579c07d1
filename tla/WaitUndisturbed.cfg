SPECIFICATION FairSpec
CONSTANTS
  Conv = {c1}
  NoConv = NoConv
  UserTask = {u1}
  NoTask = NoTask
  Operations = {"message"}
  MaxWakes = 2
  MaxWaits = 4
  MaxDeliveries = 1
  Faults = {}
INVARIANTS PendingHasTrigger
PROPERTIES WaitResumes
