--------------------------- MODULE MCBurnTracker ---------------------------
(* Small instances of BurnTracker for TLC. *)
EXTENDS BurnTracker, TLC

\* Every kernel burns an output of its own.
MCOwnCommitment == [b \in Burns |-> b]

\* Two kernels of competing forks burn the same output.
MCSharedCommitment == [b \in Burns |-> CHOOSE c \in Commitments : TRUE]

MCSymmetry == Permutations(Burns)

=============================================================================
