SPECIFICATION Spec
CONSTANTS
  Doc = {d1}
  Worker = {w1, w2}
  Request = {r1}
  NoDoc = NoDoc
  Nobody = Nobody
  Stray = {m1}
  RowLocks = TRUE
  BrokerLimit = 3
  Commands = {"upload"}
  QueueEnabled = TRUE
  MaxAttempts = 2
  MaxDeliveries = 2
  MaxJobs = 1
  MaxLeases = 4
  MaxCrashes = 2
  MaxStalls = 1
SYMMETRY Symmetry
INVARIANTS
  TypeOK
  OneHolderPerJob
  RetryBudget
  CompletedWakeupsWereServed
PROPERTIES
  FinishedJobsNeverRestart
CHECK_DEADLOCK FALSE
