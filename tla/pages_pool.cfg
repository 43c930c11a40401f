SPECIFICATION FairSpec
CONSTANTS
  Burns = {}
  Commitments = {}
  CommitmentOf <- MCOwnCommitment
  Visitors = {v, w}
  Routes = {"health", "validators"}
  Filters = {""}
  MaxConns = 1
  MaxHeight = 1
  MaxOutages = 1
  MayStop = TRUE
INVARIANT ConnectionsReturned
PROPERTIES EveryRequestEnds ServerStops
