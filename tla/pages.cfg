SPECIFICATION Spec
CONSTANTS
  d1 = d1
  d2 = d2
  alice = alice
  bob = bob
  acme = acme
  street = street
  Doc = {d1, d2}
  User = {alice, bob}
  Dates = {1, 2}
  None = None
  Unset = Unset
  NoReport = NoReport
  NoItem = NoItem
  MappedVendors = {acme}
  FixedRateDate = 2
  Garbled = Garbled
  PostalAddresses = {street}
  NoTool = NoTool
  NoDocument = NoDocument
  NoType = NoType
  NoFailure = NoFailure
  Thread = {t1, t2}
  NoThread = NoThread
  Documents = 2
  MaxAttempts = 2
  MaxFaults = 2
  Client = {c1}
  Cookie = {k1, k2}
  MaxClock = 3
  GateEnv = "portfolio"
  GateRequests = 2
  GateWindow = 2
  GateTtl = 3
INVARIANTS
  ReadyMeansReady
  SoundDeliveries
  PrintedReadings
  PagesAgree
  GatesAgree
  EvaluationsAddUp
CHECK_DEADLOCK FALSE
