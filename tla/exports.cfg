SPECIFICATION Spec
CONSTANTS
  r1 = r1
  r2 = r2
  p1 = p1
  p2 = p2
  Doc = {d1, d2}
  Blocked = {}
  Replica = {p1, p2}
  Request = {r1, r2}
  Host <- TwoReplicas
  Key = {k1, k2}
  NoKey = NoKey
  Nobody = Nobody
  MaxBatches = 2
  MaxRuns = 2
  MaxEdits = 1
  MaxCrashes = 1
SYMMETRY Symmetry
INVARIANTS
  TypeOK
  ExportedOnce
  RunsExportAllOrNothing
  CompletedBatchMatchesRun
  RunningBatchesCanBeReleased
PROPERTIES
  RunsSettleOnce
CHECK_DEADLOCK FALSE
