SPECIFICATION Spec
CONSTANTS
  Burns = {b, c}
  Commitments = {b, c}
  CommitmentOf <- MCOwnCommitment
  Visitors = {v}
  Routes = {"home", "tip_info", "burn_claims"}
  Filters = {"", "pending"}
  MaxConns = 1
  MaxHeight = 2
  MaxOutages = 1
  MayStop = FALSE
SYMMETRY MCSymmetry
INVARIANTS PanelsAreTrue FailuresAreContained
PROPERTY NothingGoesBack
