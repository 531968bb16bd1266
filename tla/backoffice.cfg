SPECIFICATION Spec
CONSTANTS
  Request = {r1, r2}
  Serialized = TRUE
  MaxPlans = 3
  MaxReservations = 3
  MaxCrashes = 1
SYMMETRY Symmetry
INVARIANTS
  TypeOK
  EachStepRunsOnce
  OneCallAtATime
  ItemTracksItsExecution
  CallsAreApproved
  RecordedOutcomeIsTrue
PROPERTIES
  SettledStepsAreFinal
