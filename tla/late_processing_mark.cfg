SPECIFICATION Spec
CONSTANTS
  Doc = {d1}
  Worker = {w1, w2}
  Request = {r1}
  NoDoc = NoDoc
  Nobody = Nobody
  Stray = {}
  RowLocks = FALSE
  BrokerLimit = 2
  Commands = {"upload"}
  QueueEnabled = FALSE
  MaxAttempts = 2
  MaxDeliveries = 2
  MaxJobs = 1
  MaxLeases = 2
  MaxCrashes = 0
  MaxStalls = 1
SYMMETRY Symmetry
INVARIANTS
  SucceededDocumentsAreReviewable
CHECK_DEADLOCK FALSE
