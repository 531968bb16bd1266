SPECIFICATION Spec
CONSTANTS
  Doc = {d1}
  Worker = {w1}
  Request = {r1, r2}
  Number = {n1}
  NoNumber = NoNumber
  NoDoc = NoDoc
  Commands = {"approve", "reject", "save", "draft", "reprocess", "export"}
  MaxJobs = 2
  MaxCorrections = 2
SYMMETRY Symmetry
INVARIANTS
  TypeOK
  DecisionMatchesTask
  LineageStartsAtExtraction
CHECK_DEADLOCK FALSE
