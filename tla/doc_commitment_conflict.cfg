SPECIFICATION FairSpec
CONSTANTS
  Burns = {b1, b2}
  Commitments = {c}
  CommitmentOf <- MCSharedCommitment
  Followers = {f}
  Scanners = {}
  StartHeight = 1
  ScanFrom = 1
  ScanTo = 1
  ScanBatchSize = 2
  ExtraStuckBlocks = 0
  ConfirmationLag = 0
  HostLag = 0
  InitialHeight = 2
  MaxHeight = 4
  MaxReorgs = 1
  ReorgDepth = 2
  MaxRestarts = 0
  MaxFaults = 0
PROPERTY
  FollowCatchesUp
