--------------------------- MODULE MCStatusPages ---------------------------
EXTENDS StatusPages, TLC

MCOwnCommitment == [b \in Burns |-> b]

MCSymmetry == Permutations(Burns)

=============================================================================
