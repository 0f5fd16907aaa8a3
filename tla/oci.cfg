SPECIFICATION Spec
CONSTANTS
  Clients = {c1, c2}
  Images <- MCImages
  Jobs <- MCJobs
  Scenarios <- MCScenarios
INVARIANTS DeliveredTruth TagClosed StoreIntact PushThenPull
CHECK_DEADLOCK FALSE
SYMMETRY ClientSymmetry
