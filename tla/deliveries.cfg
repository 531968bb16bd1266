SPECIFICATION Spec
CONSTANTS
  d1 = d1
  k1 = k1
  Doc = {d1}
  Key = {k1}
  KeysFor <- OwnKey
  Thread = {t1, t2}
  NoDoc = NoDoc
  NoKey = NoKey
  Commands = {"send", "reconcile", "confirm"}
  MaxAttempts = 2
  MaxPosts = 2
  MaxEdits = 1
  MaxCrashes = 1
SYMMETRY Symmetry
INVARIANTS
  TypeOK
  SuccessIsAttested
  OneCreateAtATime
PROPERTIES
  SuccessIsFinal
CHECK_DEADLOCK FALSE
