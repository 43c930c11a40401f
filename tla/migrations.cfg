SPECIFICATION FairSpec
CONSTANTS
  Procs = {p1, p2, p3}
  MaxFaults = 2
INVARIANTS
  ReadyHasSchema
PROPERTIES
  KeepsHistory
  RowsKept
  AllReady
