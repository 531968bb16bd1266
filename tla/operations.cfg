SPECIFICATION MCSpec
CONSTANTS
  d1 = d1
  d2 = d2
  Doc = {d1, d2}
  Item = {i1}
  Thread = {t1, t2}
  NoDoc = NoDoc
  Scanner = "clamav"
  Targets = {"processing", "failed", "queued"}
  Visited = {d1}
SYMMETRY Symmetry
INVARIANTS
  FilesAndRowsAgree
  PurgedDataStaysGone
