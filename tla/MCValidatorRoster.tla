------------------------- MODULE MCValidatorRoster -------------------------
(* Small instances of ValidatorRoster for TLC. *)
EXTENDS ValidatorRoster

CONSTANTS v1, v2, v3

\* In the second epoch v1 is gone, v2 joins, and v3 changes its shard group.
MCRosterAt == <<{v1, v3}, {v2, v3}>>

MCShardGroupAt == <<[v \in Validators |-> IF v = v3 THEN 1 ELSE 2],
                    [v \in Validators |-> IF v = v3 THEN 2 ELSE 1]>>

MCEndpoints == <<v1, v2>>
MCUnreachableFirst == <<v3, v1, v2>>

=============================================================================
