-------------------------- MODULE BurnClaimsTable --------------------------
(***************************************************************************)
(* The burn_claims table (internal/db, migrations 0003 and rows.go): its   *)
(* rows and the four SQL statements internal/burnclaim runs on it.  Each   *)
(* statement is one atomic step of the database; the operators below say   *)
(* what it returns or what the table is after it.                          *)
(*                                                                         *)
(* A table is a function from burn kernels (l1_burn_tx_hash, the primary   *)
(* key) to rows; a kernel with no row has status "absent".  The column     *)
(* commitment never changes once written, so it is the constant            *)
(* CommitmentOf and not a field.                                           *)
(*                                                                         *)
(* A moment in time is abstracted to the set of burns the L2 had claimed   *)
(* by then: that set only grows, and "was the claim there yet?" is all     *)
(* that is asked of a claimed_at.  claimed_at is {} for NULL, or {moment}. *)
(***************************************************************************)
EXTENDS Integers

CONSTANTS
  Burns,          \* burn kernels on L1, by hash
  Commitments,    \* Pedersen commitments of the burned outputs
  CommitmentOf    \* the commitment a burn kernel carries

ASSUME CommitmentAssumption == CommitmentOf \in [Burns -> Commitments]

Statuses == {"absent", "pending", "stuck", "claimed"}

Row == [status      : Statuses,
        burn_height : Nat,
        claimed_at  : SUBSET (SUBSET Commitments)]

NoRow == [status |-> "absent", burn_height |-> 0, claimed_at |-> {}]

EmptyTable == [b \in Burns |-> NoRow]

Recorded(table, b) == table[b].status # "absent"

(***************************************************************************)
(* INSERT ... ON CONFLICT (l1_burn_tx_hash) DO NOTHING.  Only the primary  *)
(* key is the arbiter: a row of ANOTHER kernel with the same commitment    *)
(* breaks commitment's own UNIQUE constraint and the statement fails.      *)
(***************************************************************************)
CommitmentTaken(table, b) ==
  \E other \in Burns \ {b} : /\ Recorded(table, other)
                             /\ CommitmentOf[other] = CommitmentOf[b]

InsertConflicts(table, b) == ~Recorded(table, b) /\ CommitmentTaken(table, b)

InsertPendingBurnClaim(table, b, height) ==
  IF Recorded(table, b)
    THEN table
    ELSE [table EXCEPT ![b] = [status      |-> "pending",
                               burn_height |-> height,
                               claimed_at  |-> {}]]

\* SELECT ... WHERE status = $1, as <<kernel, burn_height>> pairs: the callers
\* take them in burn_height order.
ListBurnClaimsByStatus(table, status) ==
  {<<b, table[b].burn_height>> : b \in {k \in Burns : table[k].status = status}}

\* UPDATE ... SET status = 'claimed' WHERE commitment = $1 AND status != 'claimed'
MarkBurnClaimed(table, commitment, moment) ==
  [b \in Burns |->
     IF /\ Recorded(table, b)
        /\ CommitmentOf[b] = commitment
        /\ table[b].status # "claimed"
       THEN [status      |-> "claimed",
             burn_height |-> table[b].burn_height,
             claimed_at  |-> {moment}]
       ELSE table[b]]

\* Mutant: the status is not tested.
MarkBurnStuck_AnyStatus(table, b) == [table EXCEPT ![b].status = "stuck"]

\* UPDATE ... SET status = 'stuck' WHERE l1_burn_tx_hash = $1 AND status = 'pending'
MarkBurnStuck(table, b) ==
  IF table[b].status = "pending"
    THEN [table EXCEPT ![b].status = "stuck"]
    ELSE table

=============================================================================
