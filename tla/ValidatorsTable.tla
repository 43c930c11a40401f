-------------------------- MODULE ValidatorsTable --------------------------
(***************************************************************************)
(* The validators table (internal/db: migrations 0001 and 0002, rows.go):  *)
(* one row per validator, written by internal/explorer from the indexer's  *)
(* roster and by internal/vnhealth from each validator node's JSON-RPC.    *)
(* Each operator is one SQL statement, atomic in the database.             *)
(*                                                                         *)
(* A shard group is a number other than 0, for the pair of columns         *)
(* shard_group_start and shard_group_end_inclusive, which are always       *)
(* written together; 0 stands for the placeholder [0, 0], as it does for   *)
(* last_seen_epoch.  An optional value (a nil pointer, SQL NULL) is a set  *)
(* with at most one element.  last_checked_at is left out.                 *)
(***************************************************************************)
EXTENDS Integers

CONSTANTS
  Validators,    \* public keys
  ShardGroups,   \* shard groups a validator can be in
  States         \* consensus states a validator node reports

ASSUME ValidatorsAssumption == ShardGroups \subseteq Nat \ {0}

Row == [exists           : BOOLEAN,
        last_seen_epoch  : Nat,
        shard_group      : ShardGroups \cup {0},
        consensus_status : SUBSET States]

\* What the NOT NULL columns of a row not inserted yet would be filled with.
NoRow == [exists |-> FALSE, last_seen_epoch |-> 0, shard_group |-> 0, consensus_status |-> {}]

EmptyTable == [v \in Validators |-> NoRow]

\* What one vnhealth poll may know of a validator.
Health == [last_seen_epoch  : SUBSET Nat,
           shard_group      : SUBSET ShardGroups,
           consensus_status : SUBSET States]

NoHealth == [last_seen_epoch |-> {}, shard_group |-> {}, consensus_status |-> {}]

\* Mutant: ON CONFLICT DO NOTHING.
UpsertValidator_DoNothing(table, v, epoch, group) ==
  IF table[v].exists THEN table
  ELSE [table EXCEPT ![v] = [NoRow EXCEPT !.exists = TRUE, !.last_seen_epoch = epoch,
                                          !.shard_group = group]]

\* INSERT ... ON CONFLICT DO UPDATE of every column but consensus_status.
UpsertValidator(table, v, epoch, group) ==
  [table EXCEPT ![v] = [exists           |-> TRUE,
                        last_seen_epoch  |-> epoch,
                        shard_group      |-> group,
                        consensus_status |-> table[v].consensus_status]]

\* Mutant: COALESCE(EXCLUDED.column, validators.column), where EXCLUDED holds
\* the 0 that INSERT put in place of NULL.
Coalesce_Excluded(option, stored) ==
  IF option = {} THEN 0 ELSE CHOOSE x \in option : TRUE

\* COALESCE($n, validators.column); with the columns of NoRow, also the
\* COALESCE($n, 0) of the INSERT.
Coalesce(option, stored) ==
  IF option = {} THEN stored ELSE CHOOSE x \in option : TRUE

UpsertValidatorHealth(table, v, health) ==
  [table EXCEPT ![v] =
     [exists           |-> TRUE,
      last_seen_epoch  |-> Coalesce(health.last_seen_epoch, table[v].last_seen_epoch),
      shard_group      |-> Coalesce(health.shard_group, table[v].shard_group),
      consensus_status |-> IF health.consensus_status = {} THEN table[v].consensus_status
                                                           ELSE health.consensus_status]]

\* SELECT MAX(last_seen_epoch): none when the table is empty.
MaxEpochSeen(table) ==
  LET seen == {table[v].last_seen_epoch : v \in {w \in Validators : table[w].exists}}
  IN  {e \in seen : \A f \in seen : f <= e}

\* Mutant: only the validators whose own node was reached are counted.
SeenInEpoch_WithStatus(table, epoch) ==
  {v \in Validators : table[v].last_seen_epoch = epoch /\ table[v].consensus_status # {}}

\* SELECT COUNT(*) ... WHERE last_seen_epoch = $1, as the rows counted.
SeenInEpoch(table, epoch) ==
  {v \in Validators : table[v].exists /\ table[v].last_seen_epoch = epoch}

=============================================================================
