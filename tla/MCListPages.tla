---------------------------- MODULE MCListPages ----------------------------
(* Small instances of ListPages for TLC. *)
EXTENDS ListPages

CONSTANTS r1, r2, r3, r4

MCDistinctKeys == [r \in Rows |-> CASE r = r1 -> 0 [] r = r2 -> 1 [] r = r3 -> 2 [] r = r4 -> 3]

\* r2 and r3 have the same key.
MCTiedKeys == [r \in Rows |-> CASE r = r1 -> 0 [] r \in {r2, r3} -> 1 [] r = r4 -> 2]

\* A server whose local time is an hour behind, or ahead of, UTC.
West == -1

East == 1

MCLimits == {0, 1, 4}

=============================================================================
