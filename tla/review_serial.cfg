SPECIFICATION Spec
CONSTANTS
  Doc = {d1, d2}
  Worker = {w1}
  Request = {r1}
  Number = {n1}
  NoNumber = NoNumber
  NoDoc = NoDoc
  Commands = {"approve", "reject", "save", "draft", "reprocess", "export"}
  MaxJobs = 2
  MaxCorrections = 1
SYMMETRY Symmetry
INVARIANTS
  ApprovedInvoicesAreClean
  ExportedOnceAsApproved
PROPERTIES
  FinalizedInvoicesAreImmutable
CHECK_DEADLOCK FALSE
