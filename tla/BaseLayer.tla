----------------------------- MODULE BaseLayer -----------------------------
(***************************************************************************)
(* What internal/burnclaim watches and does not control: the L1 chain, as  *)
(* one or more base nodes report it, and the L2's claims, as the indexer   *)
(* reports them.  Both are external; they are modelled from how the        *)
(* clients in l1client.go and indexerclient use them.                      *)
(*                                                                         *)
(* The chain is its height and, for each burn kernel, the height it is     *)
(* mined at on the best chain (0: not on it).  A reorganisation replaces   *)
(* the last blocks by a chain one block longer.  A base node may be up to  *)
(* HostLag blocks behind, and successive calls may reach different nodes.  *)
(***************************************************************************)
EXTENDS BurnClaimsTable

CONSTANTS
  ConfirmationLag,   \* base_layer_confirmations
  HostLag,           \* how far behind the best chain a base node may be
  InitialHeight,     \* height of the chain when the processes are first started
  MaxHeight,         \* bound: the chain grows no higher
  MaxReorgs,         \* bound: number of reorganisations
  ReorgDepth         \* bound: blocks one reorganisation replaces

ASSUME BaseLayerAssumption ==
  /\ {ConfirmationLag, HostLag, InitialHeight, MaxHeight, MaxReorgs, ReorgDepth} \subseteq Nat

VARIABLES
  bestHeight,   \* height of the best chain
  minedAt,      \* [Burns -> Nat], 0 when not on the best chain
  tombstones,   \* commitments whose ClaimedOutputTombstone exists on L2
  reorgs        \* reorganisations so far

layerVars == <<bestHeight, minedAt, tombstones, reorgs>>

LayerTypeOK ==
  /\ bestHeight \in Nat
  /\ minedAt \in [Burns -> Nat]
  /\ \A b \in Burns : minedAt[b] <= bestHeight
  /\ tombstones \subseteq Commitments
  /\ reorgs \in Nat

(***************************************************************************)
(* A valid chain burns a commitment at most once (the base node's          *)
(* validate_burn_commitment_not_in_db); two competing forks may burn it    *)
(* with different kernels.                                                 *)
(***************************************************************************)
ValidChain(mined) ==
  \A b, c \in Burns : /\ b # c
                      /\ mined[b] # 0
                      /\ mined[c] # 0
                      => CommitmentOf[b] # CommitmentOf[c]

LayerInit ==
  /\ bestHeight = InitialHeight
  /\ minedAt \in [Burns -> 0..InitialHeight]
  /\ ValidChain(minedAt)
  /\ tombstones = {}
  /\ reorgs = 0

\* The next block, with any burns not yet on the chain.
MineBlock ==
  /\ bestHeight < MaxHeight
  /\ bestHeight' = bestHeight + 1
  /\ \E new \in SUBSET {b \in Burns : minedAt[b] = 0} :
       minedAt' = [b \in Burns |-> IF b \in new THEN bestHeight + 1 ELSE minedAt[b]]
  /\ ValidChain(minedAt')
  /\ UNCHANGED <<tombstones, reorgs>>

\* The last depth blocks give way to depth + 1 others: a burn they held moves
\* or leaves the chain, and burns that were not mined may be.
Reorganise ==
  /\ reorgs < MaxReorgs
  /\ bestHeight < MaxHeight
  /\ \E depth \in 1..ReorgDepth :
       LET fork == bestHeight - depth IN
         /\ fork >= 0
         /\ \E mined \in [Burns -> {0} \cup ((fork + 1)..(bestHeight + 1))] :
              minedAt' = [b \in Burns |-> IF minedAt[b] \in 1..fork THEN minedAt[b]
                                                                    ELSE mined[b]]
  /\ ValidChain(minedAt')
  /\ bestHeight' = bestHeight + 1
  /\ reorgs' = reorgs + 1
  /\ UNCHANGED tombstones

\* Someone claims a burn on L2, once validators have scanned its block.
ClaimOnL2 ==
  /\ \E b \in Burns :
       /\ minedAt[b] # 0
       /\ bestHeight - minedAt[b] >= ConfirmationLag
       /\ CommitmentOf[b] \notin tombstones
       /\ tombstones' = tombstones \cup {CommitmentOf[b]}
  /\ UNCHANGED <<bestHeight, minedAt, reorgs>>

LayerNext == MineBlock \/ Reorganise \/ ClaimOnL2

-----------------------------------------------------------------------------
(* What a caller may be told. *)

\* GetTipInfo (withFailover): the height of whichever base node answers first.
ReportedTips == {h \in 0..bestHeight : bestHeight - h <= HostLag}

\* Mutant: a burn gets the height its batch begins at.
BurnsInBlocks_BatchHeight(first, last, hostTip) ==
  {<<b, first>> : b \in {k \in Burns : /\ minedAt[k] # 0
                                      /\ minedAt[k] \in first..last
                                      /\ minedAt[k] <= hostTip}}

\* GetBlockByHeight over first..last from a node whose own tip is hostTip: the
\* burns in the blocks it has, each with its block's height.
BurnsInBlocks(first, last, hostTip) ==
  {<<b, minedAt[b]>> : b \in {k \in Burns : /\ minedAt[k] # 0
                                           /\ minedAt[k] \in first..last
                                           /\ minedAt[k] <= hostTip}}

=============================================================================
