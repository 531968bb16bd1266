SPECIFICATION Spec
CONSTANTS
  Doc = {d1}
  Worker = {w1}
  Request = {r1, r2}
  NoDoc = NoDoc
  Nobody = Nobody
  Stray = {}
  RowLocks = FALSE
  BrokerLimit = 2
  Commands = {"upload", "process", "retry", "reprocess", "cancel"}
  QueueEnabled = FALSE
  MaxAttempts = 2
  MaxDeliveries = 1
  MaxJobs = 2
  MaxLeases = 3
  MaxCrashes = 0
  MaxStalls = 1
SYMMETRY Symmetry
INVARIANTS
  ResultsMatchLedger
PROPERTIES
  ImplementsFencedLedger
CHECK_DEADLOCK FALSE
