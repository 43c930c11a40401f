SPECIFICATION FairSpec
CONSTANTS
  v1 = v1
  v2 = v2
  v3 = v3
  Validators = {v1, v2, v3}
  ShardGroups = {1, 2}
  States = {Running}
  Endpoints <- MCUnreachableFirst
  Unreachable = {v3}
  MaxEpoch = 2
  RosterAt <- MCRosterAt
  ShardGroupAt <- MCShardGroupAt
  MaxFaults = 1
INVARIANTS
  RowsAreOwn
PROPERTIES
  KnownIsKept
  RosterConverges
  SummaryConverges
