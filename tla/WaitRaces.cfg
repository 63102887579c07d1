SPECIFICATION Spec
CONSTANTS
  Conv = {c1, c2}
  NoConv = NoConv
  UserTask = {u1, u2}
  NoTask = NoTask
  Operations = {"message", "regenerate", "followup", "cancel", "checknow"}
  MaxWakes = 1
  MaxWaits = 2
  MaxDeliveries = 2
  Faults = {"gate", "lock", "crash"}
SYMMETRY Symmetry
INVARIANTS TypeOK WakeChainBounded SteeredAway
PROPERTIES ImplementsWaitLifecycle
