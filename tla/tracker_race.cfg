SPECIFICATION Spec
CONSTANTS
  Burns = {b1, b2}
  Commitments = {c}
  CommitmentOf <- MCSharedCommitment
  Followers = {f}
  Scanners = {s}
  StartHeight = 0
  ScanFrom = 1
  ScanTo = 3
  ScanBatchSize = 2
  ExtraStuckBlocks = 0
  ConfirmationLag = 1
  HostLag = 1
  InitialHeight = 1
  MaxHeight = 3
  MaxReorgs = 1
  ReorgDepth = 2
  MaxRestarts = 1
  MaxFaults = 1
SYMMETRY MCSymmetry
INVARIANTS
  TypeOK
  ClaimedHasTombstone
  StuckWasOverdue
  HeldFactsStable
  RowsMatchChain
PROPERTY
  KeepsLifecycle
