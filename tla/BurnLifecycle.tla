--------------------------- MODULE BurnLifecycle ---------------------------
(***************************************************************************)
(* What the burn tracker promises a reader of burn_claims, whatever number *)
(* of trackers write the table and however their passes interleave, fail   *)
(* or restart.  A burn is recorded once, as 'pending', and its height then *)
(* never changes; it becomes 'claimed' only when the L2 has its tombstone; *)
(* it becomes 'stuck' only from 'pending'; and 'claimed' is final, with    *)
(* the claimed_at of the first observation.                                *)
(***************************************************************************)
EXTENDS BurnClaimsTable

VARIABLES claims, tombstones

lifecycleVars == <<claims, tombstones>>

Init == claims = EmptyTable /\ tombstones = {}

\* The L2 claims more burns.
Claim ==
  /\ tombstones' \in SUBSET Commitments
  /\ tombstones \subseteq tombstones'
  /\ UNCHANGED claims

Record(b) ==
  /\ claims[b].status = "absent"
  /\ \A o \in Burns \ {b} : claims[o].status # "absent" => CommitmentOf[o] # CommitmentOf[b]
  /\ claims'[b].burn_height \in Nat
  /\ claims' = [claims EXCEPT ![b] = [status      |-> "pending",
                                      burn_height |-> claims'[b].burn_height,
                                      claimed_at  |-> {}]]
  /\ UNCHANGED tombstones

\* The observation was begun at some earlier moment, which claimed_at keeps.
Observe(b) ==
  /\ claims[b].status \in {"pending", "stuck"}
  /\ CommitmentOf[b] \in tombstones
  /\ \E moment \in SUBSET tombstones :
       claims' = [claims EXCEPT ![b] = [status      |-> "claimed",
                                        burn_height |-> claims[b].burn_height,
                                        claimed_at  |-> {moment}]]
  /\ UNCHANGED tombstones

GiveUp(b) ==
  /\ claims[b].status = "pending"
  /\ claims' = [claims EXCEPT ![b].status = "stuck"]
  /\ UNCHANGED tombstones

Next == Claim \/ \E b \in Burns : Record(b) \/ Observe(b) \/ GiveUp(b)

Spec == Init /\ [][Next]_lifecycleVars

=============================================================================
