SPECIFICATION FairSpec
CONSTANTS
  Conv = {c1}
  NoConv = NoConv
  UserTask = {u1, u2}
  NoTask = NoTask
  Operations = {"message", "regenerate", "followup", "cancel", "checknow"}
  MaxWakes = 1
  MaxWaits = 2
  MaxDeliveries = 1
  Faults = {"kv", "gate", "crash"}
PROPERTIES WaitEnds
