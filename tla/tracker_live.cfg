SPECIFICATION FairSpec
CONSTANTS
  Burns = {b1, b2}
  Commitments = {b1, b2}
  CommitmentOf <- MCOwnCommitment
  Followers = {f}
  Scanners = {}
  StartHeight = 1
  ScanFrom = 1
  ScanTo = 1
  ScanBatchSize = 2
  ExtraStuckBlocks = 0
  ConfirmationLag = 1
  HostLag = 0
  InitialHeight = 2
  MaxHeight = 4
  MaxReorgs = 0
  ReorgDepth = 0
  MaxRestarts = 1
  MaxFaults = 1
INVARIANTS
  CoveredBurnsRecorded
  CoverageContiguous
PROPERTIES
  EveryBurnRecorded
  FollowCatchesUp
  PendingResolves
