------------------------- MODULE BurnTracker_proofs -------------------------
(***************************************************************************)
(* Proofs about BurnTracker, for any set of burns and of processes, any    *)
(* heights, lags and thresholds, and any number of reorganisations,        *)
(* restarts and failed calls.                                              *)
(***************************************************************************)
EXTENDS BurnTracker, TLAPS

USE CommitmentAssumption, BaseLayerAssumption, TrackerAssumption

-----------------------------------------------------------------------------
(* The statements on the table keep its type. *)

LEMMA InsertType ==
  ASSUME NEW table \in [Burns -> Row], NEW b \in Burns, NEW h \in Nat
  PROVE  InsertPendingBurnClaim(table, b, h) \in [Burns -> Row]
BY DEF InsertPendingBurnClaim, Row, Statuses

LEMMA MarkClaimedType ==
  ASSUME NEW table \in [Burns -> Row], NEW c \in Commitments, NEW moment \in SUBSET Commitments
  PROVE  MarkBurnClaimed(table, c, moment) \in [Burns -> Row]
BY DEF MarkBurnClaimed, Row, Statuses

LEMMA MarkStuckType ==
  ASSUME NEW table \in [Burns -> Row], NEW b \in Burns
  PROVE  MarkBurnStuck(table, b) \in [Burns -> Row]
BY DEF MarkBurnStuck, Row, Statuses

LEMMA ListType ==
  ASSUME NEW table \in [Burns -> Row], NEW s
  PROVE  ListBurnClaimsByStatus(table, s) \in SUBSET Items
BY DEF ListBurnClaimsByStatus, Items, Row

\* What a process becomes is a process state, so the processes keep their type.
LEMMA BecomeType ==
  ASSUME proc \in [Procs -> ProcState], NEW p \in Procs,
         NEW state \in ProcState, Become(p, state)
  PROVE  proc' \in [Procs -> ProcState]
BY DEF Become

LEMMA OverType ==
  ASSUME proc \in [Procs -> ProcState], NEW p \in Procs
  PROVE  /\ StartState(p) \in ProcState
         /\ Over(p) \in ProcState
BY DEF Over, StartState, ProcState, Procs

LEMMA FirstHeightType ==
  ASSUME NEW cursor \in Nat, NEW tip \in Nat
  PROVE  FirstHeight(cursor, tip) \in Nat
BY DEF FirstHeight

LEMMA LayerTypeStep ==
  ASSUME LayerTypeOK, LayerNext
  PROVE  LayerTypeOK' /\ bestHeight <= bestHeight'
<1>1. CASE MineBlock
  BY <1>1 DEF LayerTypeOK, MineBlock
<1>2. CASE Reorganise
  <2> PICK depth \in 1..ReorgDepth :
         LET fork == bestHeight - depth IN
           /\ fork >= 0
           /\ \E mined \in [Burns -> {0} \cup ((fork + 1)..(bestHeight + 1))] :
                minedAt' = [b \in Burns |-> IF minedAt[b] \in 1..fork THEN minedAt[b]
                                                                      ELSE mined[b]]
    BY <1>2 DEF Reorganise
  <2> DEFINE fork == bestHeight - depth
  <2>1. PICK mined \in [Burns -> {0} \cup ((fork + 1)..(bestHeight + 1))] :
          minedAt' = [b \in Burns |-> IF minedAt[b] \in 1..fork THEN minedAt[b] ELSE mined[b]]
    OBVIOUS
  <2>2. bestHeight \in Nat /\ bestHeight' = bestHeight + 1 /\ fork \in Nat
    BY <1>2 DEF Reorganise, LayerTypeOK
  <2>3. ASSUME NEW b \in Burns
        PROVE  minedAt'[b] \in Nat /\ minedAt'[b] <= bestHeight'
    BY <2>1, <2>2 DEF LayerTypeOK
  <2> QED
    BY <2>1, <2>2, <2>3, <1>2 DEF LayerTypeOK, Reorganise
<1>3. CASE ClaimOnL2
  BY <1>3 DEF LayerTypeOK, ClaimOnL2
<1> QED
  BY <1>1, <1>2, <1>3 DEF LayerNext

-----------------------------------------------------------------------------
(* Type correctness *)

LEMMA TypeInit == Init => TypeOK
<1> SUFFICES ASSUME Init PROVE TypeOK
  OBVIOUS
<1>1. LayerTypeOK
  BY DEF Init, LayerInit, LayerTypeOK
<1>2. claims \in [Burns -> Row]
  BY DEF Init, EmptyTable, NoRow, Row, Statuses
<1>3. proc \in [Procs -> ProcState]
  BY DEF Init, StartState, ProcState, Procs
<1> QED
  BY <1>1, <1>2, <1>3 DEF Init, TypeOK

\* Each process's step, by the variables it can change.
ProcessStep(p) == Work(p) \/ Failure(p) \/ Restart(p)

LEMMA ProcTypeStep ==
  ASSUME TypeOK, NEW p \in Procs, ProcessStep(p)
  PROVE  proc' \in [Procs -> ProcState]
<1>1. proc[p] \in ProcState /\ proc \in [Procs -> ProcState]
  BY DEF TypeOK
<1>2. ReportedTips \subseteq Nat /\ tombstones \in SUBSET Commitments /\ bestHeight \in Nat
  BY DEF TypeOK, LayerTypeOK, ReportedTips
<1>3. \A first, last, hostTip : BurnsInBlocks(first, last, hostTip) \in SUBSET Items
  BY DEF BurnsInBlocks, Items, TypeOK, LayerTypeOK
<1>4. ListBurnClaimsByStatus(claims, "pending") \in SUBSET Items
  BY ListType DEF TypeOK
<1>5. Earliest(proc[p].todo) \subseteq proc[p].todo
  BY DEF Earliest
<1>6. StartState(p) \in ProcState /\ Over(p) \in ProcState
  BY <1>1, OverType
<1>a. CASE ReadTip(p)
  <2>1. ASSUME NEW tip \in ReportedTips, NEW first \in Nat
        PROVE  /\ [proc[p] EXCEPT !.pc = "blocks", !.tip = tip, !.from = first] \in ProcState
               /\ [proc[p] EXCEPT !.pc = "list", !.tip = tip, !.lastScannedHeight = tip]
                    \in ProcState
    BY <2>1, <1>1, <1>2 DEF ProcState
  <2>2. \A tip \in ReportedTips : FirstHeight(proc[p].lastScannedHeight, tip) \in Nat
    BY <1>1, <1>2, FirstHeightType DEF ProcState
  <2> QED
    BY <1>a, <1>1, <2>1, <2>2, BecomeType DEF ReadTip
<1>b. CASE FetchBatch(p)
  <2>0. proc[p].from + ScanBatchSize \in Nat
    BY <1>1 DEF ProcState
  <2>1. ASSUME NEW items \in SUBSET Items
        PROVE  [proc[p] EXCEPT !.from = @ + ScanBatchSize, !.todo = items] \in ProcState
    BY <1>1, <2>0 DEF ProcState
  <2>2. PICK hostTip \in ReportedTips :
          Become(p, [proc[p] EXCEPT !.from = @ + ScanBatchSize,
                                    !.todo = BurnsInBlocks(proc[p].from, BatchEnd(p), hostTip)])
    BY <1>b DEF FetchBatch
  <2> QED
    BY <1>1, <1>3, <2>1, <2>2, BecomeType
<1>c. CASE Insert(p)
  BY <1>c, <1>1, <1>5, <1>6 DEF Insert, Become, ProcState
<1>d. CASE EndScan(p)
  BY <1>d, <1>1 DEF EndScan, Become, ProcState
<1>e. CASE ListForClaims(p)
  BY <1>e, <1>1, <1>2, <1>4 DEF ListForClaims, Become, ProcState
<1>f. CASE SeeTombstone(p)
  <2>1. ASSUME NEW x \in proc[p].todo
        PROVE  [proc[p] EXCEPT !.todo = @ \ {x}, !.found = {x}] \in ProcState
    BY <1>1 DEF ProcState
  <2> QED
    BY <1>f, <1>1, <1>5, <2>1, BecomeType DEF SeeTombstone
<1>g. CASE SeeNoTombstone(p)
  BY <1>g, <1>1, <1>5 DEF SeeNoTombstone, Become, ProcState
<1>h. CASE MarkClaimed(p)
  BY <1>h, <1>1 DEF MarkClaimed, Become, ProcState
<1>i. CASE ReadTipForStuck(p)
  <2>1. ASSUME NEW tip \in Nat
        PROVE  [proc[p] EXCEPT !.pc = "stuck", !.tip = tip, !.now = {}] \in ProcState
    BY <1>1 DEF ProcState
  <2> QED
    BY <1>i, <1>1, <1>2, <2>1, BecomeType DEF ReadTipForStuck
<1>j. CASE ListForStuck(p)
  BY <1>j, <1>1, <1>4 DEF ListForStuck, Become, ProcState
<1>k. CASE MarkStuck(p)
  BY <1>k, <1>1, <1>5 DEF MarkStuck, Become, ProcState
<1>l. CASE EndPass(p)
  BY <1>l, <1>1, <1>6 DEF EndPass, Become
<1>m. CASE FetchFails(p) \/ InsertFails(p)
  BY <1>m, <1>1, <1>6 DEF FetchFails, InsertFails, Become
<1>n. CASE ListForClaimsFails(p) \/ MarkClaimedFails(p)
  <2>1. /\ [proc[p] EXCEPT !.pc = "check", !.todo = {}, !.now = {}] \in ProcState
        /\ [proc[p] EXCEPT !.found = {}] \in ProcState
    BY <1>1 DEF ProcState
  <2> QED
    BY <1>n, <1>1, <2>1, BecomeType DEF ListForClaimsFails, MarkClaimedFails
<1>o. CASE ReadTipForStuckFails(p) \/ ListForStuckFails(p)
  <2>1. /\ [proc[p] EXCEPT !.pc = "done", !.now = {}] \in ProcState
        /\ [proc[p] EXCEPT !.pc = "flag", !.todo = {}, !.now = {}] \in ProcState
    BY <1>1 DEF ProcState
  <2> QED
    BY <1>o, <1>1, <2>1, BecomeType DEF ReadTipForStuckFails, ListForStuckFails
<1>p. CASE LookupFails(p) \/ MarkStuckFails(p)
  BY <1>p, <1>1, <1>5 DEF LookupFails, MarkStuckFails, Become, ProcState
<1>q. CASE Restart(p)
  BY <1>q, <1>1, <1>6 DEF Restart, Become
<1> QED
  BY <1>a, <1>b, <1>c, <1>d, <1>e, <1>f, <1>g, <1>h, <1>i, <1>j, <1>k, <1>l, <1>m,
     <1>n, <1>o, <1>p, <1>q DEF ProcessStep, Work, Failure

\* Three steps write the table.
LEMMA TableFrame ==
  ASSUME NEW p \in Procs, ProcessStep(p), ~(Insert(p) \/ MarkClaimed(p) \/ MarkStuck(p))
  PROVE  UNCHANGED claims
BY DEF ProcessStep, Work, Failure, Restart, ReadTip, FetchBatch, EndScan,
   ListForClaims, SeeTombstone, SeeNoTombstone, ReadTipForStuck, ListForStuck, EndPass,
   FetchFails, InsertFails, ListForClaimsFails, LookupFails, MarkClaimedFails,
   ReadTipForStuckFails, ListForStuckFails, MarkStuckFails

LEMMA ClaimsTypeStep ==
  ASSUME TypeOK, NEW p \in Procs, ProcessStep(p)
  PROVE  claims' \in [Burns -> Row]
<1>1. claims \in [Burns -> Row] /\ proc[p] \in ProcState /\ tombstones \in SUBSET Commitments
  BY DEF TypeOK, LayerTypeOK
<1>2. \A x \in proc[p].todo \cup proc[p].found :
        x[1] \in Burns /\ x[2] \in Nat /\ CommitmentOf[x[1]] \in Commitments
  BY <1>1 DEF ProcState, Items
<1>3. Earliest(proc[p].todo) \subseteq proc[p].todo
  BY DEF Earliest
<1>a. CASE Insert(p)
  BY <1>a, <1>1, <1>2, <1>3, InsertType DEF Insert
<1>b. CASE MarkClaimed(p)
  BY <1>b, <1>1, <1>2, MarkClaimedType DEF MarkClaimed, ProcState
<1>c. CASE MarkStuck(p)
  BY <1>c, <1>1, <1>2, <1>3, MarkStuckType DEF MarkStuck
<1>d. CASE ~(Insert(p) \/ MarkClaimed(p) \/ MarkStuck(p))
  BY <1>d, <1>1, TableFrame
<1> QED
  BY <1>a, <1>b, <1>c, <1>d

\* A process leaves the chain and the L2 alone, and only EndScan covers heights.
LEMMA ProcessFrame ==
  ASSUME NEW p \in Procs, ProcessStep(p)
  PROVE  /\ UNCHANGED layerVars
         /\ EndScan(p) \/ UNCHANGED covered
         /\ restarts' = restarts \/ restarts' = restarts + 1
         /\ faults' = faults \/ faults' = faults + 1
BY DEF ProcessStep, Work, Failure, Restart, ReadTip, FetchBatch, Insert, EndScan,
   ListForClaims, SeeTombstone, SeeNoTombstone, MarkClaimed, ReadTipForStuck, ListForStuck,
   MarkStuck, EndPass, FetchFails, InsertFails, ListForClaimsFails, LookupFails,
   MarkClaimedFails, ReadTipForStuckFails, ListForStuckFails, MarkStuckFails, Fault, NoFault

LEMMA CoveredTypeStep ==
  ASSUME TypeOK, NEW p \in Procs, EndScan(p)
  PROVE  covered' \in [Followers -> SUBSET Nat]
<1>1. proc[p] \in ProcState
  BY DEF TypeOK
<1>2. FirstHeight(proc[p].lastScannedHeight, proc[p].tip) \in Nat /\ proc[p].tip \in Nat
  BY <1>1, FirstHeightType DEF ProcState
<1>3. FirstHeight(proc[p].lastScannedHeight, proc[p].tip)..proc[p].tip \subseteq Nat
  BY <1>2
<1> QED
  BY <1>3 DEF EndScan, TypeOK

LEMMA TypeStep == TypeOK /\ [Next]_vars => TypeOK'
<1> SUFFICES ASSUME TypeOK, [Next]_vars PROVE TypeOK'
  OBVIOUS
<1>1. CASE UNCHANGED vars
  BY <1>1 DEF TypeOK, LayerTypeOK, vars, layerVars
<1>2. CASE Environment
  BY <1>2, LayerTypeStep DEF TypeOK, Environment
<1>3. ASSUME NEW p \in Procs, ProcessStep(p)
      PROVE  TypeOK'
  <2>1. LayerTypeOK'
    BY <1>3, ProcessFrame DEF TypeOK, LayerTypeOK, layerVars
  <2>2. covered' \in [Followers -> SUBSET Nat]
    BY <1>3, ProcessFrame, CoveredTypeStep DEF TypeOK
  <2> QED
    BY <1>3, <2>1, <2>2, ProcessFrame, ProcTypeStep, ClaimsTypeStep DEF TypeOK
<1> QED
  BY <1>1, <1>2, <1>3 DEF Next, ProcessStep

\* Every variable keeps its type.
THEOREM TypeCorrect == Spec => []TypeOK
  BY TypeInit, TypeStep, PTL DEF Spec

-----------------------------------------------------------------------------
(* Safety: what the rows say is true of the chain and of the L2.           *)
(*                                                                         *)
(* The invariants about the rows are not inductive alone: MarkClaimed and  *)
(* MarkStuck write what an earlier call read.  HeldFactsStable carries the *)
(* facts from the read to the write; it survives the steps in between      *)
(* because tombstones and bestHeight only grow, and because a row once     *)
(* recorded stays and keeps its height (RowsStay).                         *)

SafetyInv ==
  /\ ClaimedHasTombstone
  /\ StuckWasOverdue
  /\ OneRowPerCommitment
  /\ HeldFactsStable

RowsStay ==
  \A b \in Burns : Recorded(claims, b) =>
                      /\ Recorded(claims, b)'
                      /\ claims'[b].burn_height = claims[b].burn_height

LEMMA LayerGrows ==
  ASSUME TypeOK, LayerNext
  PROVE  tombstones \subseteq tombstones' /\ bestHeight <= bestHeight' /\ bestHeight' \in Nat
<1>1. tombstones \subseteq tombstones'
  BY DEF LayerNext, MineBlock, Reorganise, ClaimOnL2
<1> QED
  BY <1>1, LayerTypeStep DEF TypeOK, LayerTypeOK

\* The three statements that write the table, as what they do to its rows.
LEMMA InsertRows ==
  ASSUME TypeOK, NEW b \in Burns, NEW h \in Nat,
         claims' = InsertPendingBurnClaim(claims, b, h)
  PROVE  /\ RowsStay
         /\ \A c \in Burns : c # b \/ Recorded(claims, b) => claims'[c] = claims[c]
         /\ ~Recorded(claims, b) => claims'[b] = [status      |-> "pending",
                                                 burn_height |-> h,
                                                 claimed_at  |-> {}]
BY DEF InsertPendingBurnClaim, TypeOK, RowsStay, Recorded

LEMMA MarkClaimedRows ==
  ASSUME TypeOK, NEW commitment \in Commitments, NEW moment \in SUBSET Commitments,
         claims' = MarkBurnClaimed(claims, commitment, moment)
  PROVE  /\ RowsStay
         /\ \A c \in Burns :
              \/ claims'[c] = claims[c]
              \/ /\ claims[c].status \in {"pending", "stuck"}
                 /\ CommitmentOf[c] = commitment
                 /\ claims'[c] = [status      |-> "claimed",
                                  burn_height |-> claims[c].burn_height,
                                  claimed_at  |-> {moment}]
<1>1. ASSUME NEW c \in Burns
      PROVE  \/ claims'[c] = claims[c]
             \/ /\ claims[c].status \in {"pending", "stuck"}
                /\ CommitmentOf[c] = commitment
                /\ claims'[c] = [status      |-> "claimed",
                                 burn_height |-> claims[c].burn_height,
                                 claimed_at  |-> {moment}]
  <2>1. claims[c] \in Row
    BY DEF TypeOK
  <2>3. claims'[c] = IF /\ Recorded(claims, c)
                        /\ CommitmentOf[c] = commitment
                        /\ claims[c].status # "claimed"
                       THEN [status      |-> "claimed",
                             burn_height |-> claims[c].burn_height,
                             claimed_at  |-> {moment}]
                       ELSE claims[c]
    BY DEF MarkBurnClaimed
  <2>4. claims[c].status \in {"absent", "pending", "stuck", "claimed"}
    BY <2>1 DEF Row, Statuses
  <2> QED
    BY <2>3, <2>4 DEF Recorded
<1>2. ASSUME NEW c \in Burns, Recorded(claims, c)
      PROVE  Recorded(claims', c) /\ claims'[c].burn_height = claims[c].burn_height
  <2>1. CASE claims'[c] = claims[c]
    BY <1>2, <2>1 DEF Recorded
  <2>2. CASE claims'[c] = [status      |-> "claimed",
                           burn_height |-> claims[c].burn_height,
                           claimed_at  |-> {moment}]
    BY <2>2 DEF Recorded
  <2> QED
    BY <1>1, <2>1, <2>2
<1> QED
  BY <1>1, <1>2 DEF RowsStay

LEMMA MarkStuckRows ==
  ASSUME TypeOK, NEW b \in Burns, claims' = MarkBurnStuck(claims, b)
  PROVE  /\ RowsStay
         /\ \A c \in Burns : c # b \/ claims[b].status # "pending" => claims'[c] = claims[c]
         /\ claims[b].status = "pending" =>
              claims'[b] = [status      |-> "stuck",
                            burn_height |-> claims[b].burn_height,
                            claimed_at  |-> claims[b].claimed_at]
BY DEF MarkBurnStuck, TypeOK, RowsStay, Recorded, Row

LEMMA RowsStayStep ==
  ASSUME TypeOK, NEW p \in Procs, ProcessStep(p)
  PROVE  RowsStay
<1>1. proc[p] \in ProcState /\ tombstones \in SUBSET Commitments
  BY DEF TypeOK, LayerTypeOK
<1>2. \A x \in proc[p].todo \cup proc[p].found :
        x[1] \in Burns /\ x[2] \in Nat /\ CommitmentOf[x[1]] \in Commitments
  BY <1>1 DEF ProcState, Items
<1>3. Earliest(proc[p].todo) \subseteq proc[p].todo
  BY DEF Earliest
<1>4. UNCHANGED claims => RowsStay
  BY DEF RowsStay, Recorded
<1>a. CASE Insert(p)
  BY <1>a, <1>2, <1>3, <1>4, InsertRows DEF Insert
<1>b. CASE MarkClaimed(p)
  BY <1>b, <1>1, <1>2, MarkClaimedRows DEF MarkClaimed, ProcState
<1>c. CASE MarkStuck(p)
  BY <1>c, <1>2, <1>3, MarkStuckRows DEF MarkStuck
<1>d. CASE ~(Insert(p) \/ MarkClaimed(p) \/ MarkStuck(p))
  BY <1>d, <1>4, TableFrame
<1> QED
  BY <1>a, <1>b, <1>c, <1>d

LEMMA OthersKept ==
  ASSUME TypeOK, NEW p \in Procs, ProcessStep(p), NEW q \in Procs, q # p
  PROVE  proc'[q] = proc[q]
<1>1. \A state : Become(p, state) => proc'[q] = proc[q]
  BY DEF Become, TypeOK
<1> QED
  BY <1>1 DEF ProcessStep, Work, Failure, Restart, ReadTip, FetchBatch, Insert, EndScan,
     ListForClaims, SeeTombstone, SeeNoTombstone, MarkClaimed, ReadTipForStuck, ListForStuck,
     MarkStuck, EndPass, FetchFails, InsertFails, ListForClaimsFails, LookupFails,
     MarkClaimedFails, ReadTipForStuckFails, ListForStuckFails, MarkStuckFails

\* What is held stays true while the table keeps its rows and the chain and the
\* L2 move on.
LEMMA HeldStays ==
  ASSUME TypeOK, RowsStay, NEW state \in ProcState, HeldBy(state),
         tombstones \subseteq tombstones', bestHeight <= bestHeight', bestHeight' \in Nat
  PROVE  HeldBy(state)'
<1>1. state.tip \in Nat /\ bestHeight \in Nat /\ StuckThreshold \in Nat
  BY DEF ProcState, TypeOK, LayerTypeOK, StuckThreshold
<1>2. \A x \in state.todo : x[2] \in Nat
  BY DEF ProcState, Items
<1>3. ASSUME NEW x \in state.todo, OverdueRow(x)
      PROVE  OverdueRow(x)'
  BY <1>1, <1>2, <1>3 DEF OverdueRow, RowsStay, StuckThreshold, Recorded
<1> QED
  BY <1>1, <1>3 DEF HeldBy

\* A call that succeeds puts only true facts in the process's hands, and a call
\* that fails none.
LEMMA NewlyHeld ==
  ASSUME TypeOK, HeldFactsStable, NEW p \in Procs, ProcessStep(p)
  PROVE  HeldBy(proc'[p])
<1>1. /\ proc[p] \in ProcState /\ proc \in [Procs -> ProcState] /\ HeldBy(proc[p])
      /\ bestHeight \in Nat /\ claims \in [Burns -> Row]
  BY DEF TypeOK, LayerTypeOK, HeldFactsStable
<1>2. \A state : Become(p, state) => proc'[p] = state
  BY <1>1 DEF Become
<1>3. \A tip \in ReportedTips : tip <= bestHeight
  BY <1>1 DEF ReportedTips
<1>4. Earliest(proc[p].todo) \subseteq proc[p].todo
  BY DEF Earliest
<1>5. HeldBy(StartState(p)) /\ HeldBy(Over(p))
  BY <1>1 DEF HeldBy, Over, StartState
<1>a. CASE ReadTip(p)
  <2>1. PICK tip \in ReportedTips :
          LET first == FirstHeight(proc[p].lastScannedHeight, tip) IN
            Become(p, IF first <= tip
                   THEN [proc[p] EXCEPT !.pc = "blocks", !.tip = tip, !.from = first]
                   ELSE [proc[p] EXCEPT !.pc = "list", !.tip = tip,
                                        !.lastScannedHeight = tip])
    BY <1>a DEF ReadTip
  <2>2. ASSUME NEW first
        PROVE  /\ HeldBy([proc[p] EXCEPT !.pc = "blocks", !.tip = tip, !.from = first])
               /\ HeldBy([proc[p] EXCEPT !.pc = "list", !.tip = tip, !.lastScannedHeight = tip])
    BY <1>1, <1>3 DEF HeldBy, ProcState
  <2> QED
    BY <1>2, <2>1, <2>2
<1>b. CASE FetchBatch(p)
  <2>1. ASSUME NEW from, NEW todo, proc[p].pc = "blocks"
        PROVE  HeldBy([proc[p] EXCEPT !.from = from, !.todo = todo])
    BY <1>1, <2>1 DEF HeldBy, ProcState
  <2>2. PICK from, todo : Become(p, [proc[p] EXCEPT !.from = from, !.todo = todo])
    BY <1>b DEF FetchBatch
  <2>3. proc[p].pc = "blocks"
    BY <1>b DEF FetchBatch, Scanning
  <2> DEFINE state == [proc[p] EXCEPT !.from = from, !.todo = todo]
  <2>4. HeldBy(state) /\ Become(p, state)
    BY <2>1, <2>2, <2>3
  <2> HIDE DEF state
  <2> QED
    BY <1>2, <2>4
<1>c. CASE Insert(p)
  BY <1>c, <1>1, <1>2, <1>5 DEF Insert, HeldBy, ProcState
<1>d. CASE EndScan(p)
  <2>1. ASSUME NEW height
        PROVE  HeldBy([proc[p] EXCEPT !.pc = "list", !.from = ScanFrom,
                                      !.lastScannedHeight = height])
    BY <1>1 DEF HeldBy, ProcState
  <2>2. PICK height : Become(p, [proc[p] EXCEPT !.pc = "list", !.from = ScanFrom,
                                                !.lastScannedHeight = height])
    BY <1>d DEF EndScan
  <2> DEFINE state == [proc[p] EXCEPT !.pc = "list", !.from = ScanFrom,
                                      !.lastScannedHeight = height]
  <2>3. HeldBy(state) /\ Become(p, state)
    BY <2>1, <2>2
  <2> HIDE DEF state
  <2> QED
    BY <1>2, <2>3
<1>e. CASE ListForClaims(p) \/ ListForClaimsFails(p)
  <2>1. /\ HeldBy([proc[p] EXCEPT !.pc   = "check",
                                   !.todo = ListBurnClaimsByStatus(claims, "pending"),
                                   !.now  = tombstones])
        /\ HeldBy([proc[p] EXCEPT !.pc = "check", !.todo = {}, !.now = {}])
    BY <1>1 DEF HeldBy, ProcState
  <2> QED
    BY <1>e, <1>2, <2>1 DEF ListForClaims, ListForClaimsFails
<1>f. CASE SeeTombstone(p) \/ SeeNoTombstone(p) \/ LookupFails(p)
  <2>1. proc[p].pc = "check"
    BY <1>f DEF SeeTombstone, SeeNoTombstone, LookupFails
  <2>2. ASSUME NEW x
        PROVE  /\ HeldBy([proc[p] EXCEPT !.todo = @ \ {x}])
               /\ TombstoneExists(x) => HeldBy([proc[p] EXCEPT !.todo = @ \ {x}, !.found = {x}])
    BY <1>1, <2>1 DEF TombstoneExists, HeldBy, ProcState
  <2> QED
    BY <1>f, <1>2, <2>2 DEF SeeTombstone, SeeNoTombstone, LookupFails
<1>h. CASE MarkClaimed(p) \/ MarkClaimedFails(p)
  BY <1>h, <1>1, <1>2 DEF MarkClaimed, MarkClaimedFails, HeldBy, ProcState
<1>i. CASE ReadTipForStuck(p) \/ ReadTipForStuckFails(p)
  <2>1. ASSUME NEW tip \in ReportedTips
        PROVE  HeldBy([proc[p] EXCEPT !.pc = "stuck", !.tip = tip, !.now = {}])
    BY <1>1, <1>3 DEF HeldBy, ProcState
  <2>2. HeldBy([proc[p] EXCEPT !.pc = "done", !.now = {}])
    BY <1>1 DEF HeldBy, ProcState
  <2> QED
    BY <1>i, <1>2, <2>1, <2>2 DEF ReadTipForStuck, ReadTipForStuckFails
<1>j. CASE ListForStuck(p)
  <2>1. ASSUME NEW x \in ListBurnClaimsByStatus(claims, "pending"), IsStuck(x[2], proc[p].tip)
        PROVE  OverdueRow(x)
    <3>1. x[1] \in Burns /\ Recorded(claims, x[1]) /\ claims[x[1]].burn_height = x[2]
      BY DEF ListBurnClaimsByStatus, Recorded
    <3>2. x[2] \in Nat /\ proc[p].tip \in Nat /\ proc[p].tip <= bestHeight
      BY <1>1, <3>1 DEF ProcState, Row, HeldBy
    <3>3. bestHeight - x[2] > StuckThreshold
      BY <2>1, <3>2, <1>1 DEF IsStuck, StuckThreshold
    <3> QED
      BY <3>1, <3>3 DEF OverdueRow
  <2> DEFINE overdue == {x \in ListBurnClaimsByStatus(claims, "pending") :
                           IsStuck(x[2], proc[p].tip)}
  <2>2. \A x \in overdue : OverdueRow(x)
    BY <2>1
  <2> HIDE DEF overdue
  <2>3. HeldBy([proc[p] EXCEPT !.pc = "flag", !.todo = overdue, !.now = {}])
    BY <1>1, <2>2 DEF HeldBy, ProcState
  <2> QED
    BY <1>j, <1>2, <2>3 DEF ListForStuck, overdue
<1>k. CASE ListForStuckFails(p)
  <2>1. HeldBy([proc[p] EXCEPT !.pc = "flag", !.todo = {}, !.now = {}])
    BY <1>1 DEF HeldBy, ProcState
  <2> QED
    BY <1>k, <1>2, <2>1 DEF ListForStuckFails
<1>l. CASE MarkStuck(p) \/ MarkStuckFails(p)
  <2>1. ASSUME NEW x
        PROVE  HeldBy([proc[p] EXCEPT !.todo = @ \ {x}])
    BY <1>1 DEF HeldBy, ProcState
  <2> QED
    BY <1>l, <1>2, <2>1 DEF MarkStuck, MarkStuckFails
<1>m. CASE FetchFails(p) \/ InsertFails(p) \/ EndPass(p) \/ Restart(p)
  BY <1>m, <1>2, <1>5 DEF FetchFails, InsertFails, EndPass, Restart
<1> QED
  BY <1>a, <1>b, <1>c, <1>d, <1>e, <1>f, <1>h, <1>i, <1>j, <1>k, <1>l, <1>m
     DEF ProcessStep, Work, Failure

\* A step of a process on the rows.
LEMMA RowsSafe ==
  ASSUME TypeOK, SafetyInv, NEW p \in Procs, ProcessStep(p)
  PROVE  /\ ClaimedHasTombstone'
         /\ StuckWasOverdue'
         /\ OneRowPerCommitment'
<1>1. /\ proc[p] \in ProcState /\ HeldBy(proc[p]) /\ tombstones \in SUBSET Commitments
      /\ ClaimedHasTombstone /\ StuckWasOverdue /\ OneRowPerCommitment
  BY DEF TypeOK, LayerTypeOK, SafetyInv, HeldFactsStable
<1>2. \A x \in proc[p].todo \cup proc[p].found :
        x[1] \in Burns /\ x[2] \in Nat /\ CommitmentOf[x[1]] \in Commitments
  BY <1>1 DEF ProcState, Items
<1>3. Earliest(proc[p].todo) \subseteq proc[p].todo
  BY DEF Earliest
<1>4. tombstones' = tombstones /\ bestHeight' = bestHeight
  BY ProcessFrame DEF layerVars
<1>5. UNCHANGED claims => ClaimedHasTombstone' /\ StuckWasOverdue' /\ OneRowPerCommitment'
  BY <1>1, <1>4 DEF ClaimedHasTombstone, StuckWasOverdue, OneRowPerCommitment, Recorded
<1>a. CASE Insert(p)
  <2>1. PICK x \in proc[p].todo : \/ UNCHANGED claims
                                 \/ /\ ~InsertConflicts(claims, x[1])
                                    /\ claims' = InsertPendingBurnClaim(claims, x[1], x[2])
    BY <1>a, <1>3 DEF Insert
  <2>2. CASE /\ ~InsertConflicts(claims, x[1])
             /\ claims' = InsertPendingBurnClaim(claims, x[1], x[2])
    <3>1. \A c \in Burns : c # x[1] \/ Recorded(claims, x[1]) => claims'[c] = claims[c]
      BY <2>2, <1>2, InsertRows
    <3>2. ASSUME ~Recorded(claims, x[1]) PROVE claims'[x[1]].status = "pending"
      <4>1. claims'[x[1]] = [status |-> "pending", burn_height |-> x[2], claimed_at |-> {}]
        BY <2>2, <1>2, <3>2, InsertRows
      <4> QED
        BY <4>1
    <3>3. ClaimedHasTombstone' /\ StuckWasOverdue'
      BY <3>1, <3>2, <1>1, <1>2, <1>4 DEF ClaimedHasTombstone, StuckWasOverdue
    <3>4. OneRowPerCommitment'
      BY <2>2, <3>1, <3>2, <1>1, <1>2
         DEF OneRowPerCommitment, InsertConflicts, CommitmentTaken, Recorded
    <3> QED
      BY <3>3, <3>4
  <2> QED
    BY <2>1, <2>2, <1>5
<1>b. CASE MarkClaimed(p)
  <2>1. PICK x \in proc[p].found :
          claims' = MarkBurnClaimed(claims, CommitmentOf[x[1]], proc[p].now)
    BY <1>b DEF MarkClaimed
  <2>2. CommitmentOf[x[1]] \in tombstones
    BY <1>1 DEF HeldBy
  <2>3. \A c \in Burns : \/ claims'[c] = claims[c]
                         \/ /\ claims[c].status \in {"pending", "stuck"}
                            /\ CommitmentOf[c] = CommitmentOf[x[1]]
                            /\ claims'[c].status = "claimed"
    <3> DEFINE cm == CommitmentOf[x[1]]
               m  == proc[p].now
    <3>1. cm \in Commitments /\ m \in SUBSET Commitments
      BY <2>2, <1>1 DEF ProcState
    <3>2. claims' = MarkBurnClaimed(claims, cm, m)
      BY <2>1
    <3> HIDE DEF cm, m
    <3>3. \A c \in Burns : \/ claims'[c] = claims[c]
                           \/ /\ claims[c].status \in {"pending", "stuck"}
                              /\ CommitmentOf[c] = cm
                              /\ claims'[c] = [status      |-> "claimed",
                                               burn_height |-> claims[c].burn_height,
                                               claimed_at  |-> {m}]
      BY <3>1, <3>2, MarkClaimedRows
    <3>4. \A c \in Burns : \/ claims'[c] = claims[c]
                           \/ /\ claims[c].status \in {"pending", "stuck"}
                              /\ CommitmentOf[c] = cm
                              /\ claims'[c].status = "claimed"
      <4> SUFFICES ASSUME NEW c \in Burns, claims'[c] # claims[c]
                   PROVE  /\ claims[c].status \in {"pending", "stuck"}
                          /\ CommitmentOf[c] = cm
                          /\ claims'[c].status = "claimed"
        OBVIOUS
      <4> DEFINE row == [status      |-> "claimed",
                         burn_height |-> claims[c].burn_height,
                         claimed_at  |-> {m}]
      <4>1. /\ claims[c].status \in {"pending", "stuck"}
            /\ CommitmentOf[c] = cm
            /\ claims'[c] = row
        BY <3>3
      <4>2. row.status = "claimed"
        OBVIOUS
      <4> QED
        BY <4>1, <4>2
    <3> QED
      BY <3>4 DEF cm
  <2> QED
    BY <2>2, <2>3, <1>1, <1>4
       DEF ClaimedHasTombstone, StuckWasOverdue, OneRowPerCommitment, Recorded
<1>c. CASE MarkStuck(p)
  <2>1. PICK x \in proc[p].todo : claims' = MarkBurnStuck(claims, x[1])
    BY <1>c, <1>3 DEF MarkStuck
  <2>2. OverdueRow(x)
    BY <1>1, <1>c DEF HeldBy, MarkStuck
  <2>3. \A c \in Burns : \/ claims'[c] = claims[c]
                         \/ /\ c = x[1]
                            /\ claims[c].status = "pending"
                            /\ claims'[c].status = "stuck"
                            /\ claims'[c].burn_height = claims[c].burn_height
    <3>1. /\ \A c \in Burns : c # x[1] \/ claims[x[1]].status # "pending" => claims'[c] = claims[c]
          /\ claims[x[1]].status = "pending" =>
               claims'[x[1]] = [status      |-> "stuck",
                                burn_height |-> claims[x[1]].burn_height,
                                claimed_at  |-> claims[x[1]].claimed_at]
      BY <2>1, <1>2, MarkStuckRows
    <3> QED
      BY <3>1, <1>2
  <2> QED
    BY <2>2, <2>3, <1>1, <1>4
       DEF ClaimedHasTombstone, StuckWasOverdue, OneRowPerCommitment, Recorded, OverdueRow
<1> QED
  BY <1>a, <1>b, <1>c, <1>5, TableFrame

LEMMA SafetyInit == Init => SafetyInv
<1> SUFFICES ASSUME Init PROVE SafetyInv
  OBVIOUS
<1>1. \A b \in Burns : claims[b].status = "absent"
  BY DEF Init, EmptyTable, NoRow
<1>2. \A p \in Procs : HeldBy(proc[p])
  BY DEF Init, LayerInit, StartState, HeldBy
<1> QED
  BY <1>1, <1>2 DEF SafetyInv, ClaimedHasTombstone, StuckWasOverdue, OneRowPerCommitment,
                    HeldFactsStable, Recorded

LEMMA SafetyStep == TypeOK /\ SafetyInv /\ [Next]_vars => SafetyInv'
<1> SUFFICES ASSUME TypeOK, SafetyInv, [Next]_vars PROVE SafetyInv'
  OBVIOUS
<1>1. CASE UNCHANGED vars
  BY <1>1 DEF SafetyInv, ClaimedHasTombstone, StuckWasOverdue, OneRowPerCommitment,
              HeldFactsStable, HeldBy, OverdueRow, Recorded, vars, layerVars
<1>2. CASE Environment
  <2>1. /\ claims' = claims /\ proc' = proc
        /\ tombstones \subseteq tombstones' /\ bestHeight <= bestHeight' /\ bestHeight' \in Nat
    BY <1>2, LayerGrows DEF Environment
  <2>2. RowsStay
    BY <2>1 DEF RowsStay, Recorded
  <2>3. HeldFactsStable'
    <3>1. ASSUME NEW q \in Procs
          PROVE  HeldBy(proc[q])'
      <4>1. proc[q] \in ProcState /\ HeldBy(proc[q])
        BY DEF TypeOK, SafetyInv, HeldFactsStable
      <4> QED
        BY <4>1, <2>1, <2>2, HeldStays DEF HeldBy
    <3> QED
      BY <3>1 DEF HeldFactsStable
  <2>4. ClaimedHasTombstone' /\ OneRowPerCommitment'
    BY <2>1 DEF SafetyInv, ClaimedHasTombstone, OneRowPerCommitment, Recorded
  <2>5. StuckWasOverdue'
    <3>1. \A b \in Burns : claims[b].burn_height \in Nat
      BY DEF TypeOK, Row
    <3>2. bestHeight \in Nat /\ StuckThreshold \in Nat
      BY DEF TypeOK, LayerTypeOK, StuckThreshold
    <3> QED
      BY <2>1, <3>1, <3>2 DEF SafetyInv, StuckWasOverdue, StuckThreshold
  <2> QED
    BY <2>3, <2>4, <2>5 DEF SafetyInv
<1>3. ASSUME NEW p \in Procs, ProcessStep(p)
      PROVE  SafetyInv'
  <2>1. HeldFactsStable'
    <3>1. tombstones' = tombstones /\ bestHeight' = bestHeight /\ bestHeight \in Nat
      BY <1>3, ProcessFrame DEF layerVars, TypeOK, LayerTypeOK
    <3>2. proc' \in [Procs -> ProcState] /\ RowsStay
      BY <1>3, ProcTypeStep, RowsStayStep
    <3>3. ASSUME NEW q \in Procs
          PROVE  HeldBy(proc[q])'
      <4>1. HeldBy(proc'[q])
        BY <1>3, NewlyHeld, OthersKept DEF SafetyInv, HeldFactsStable
      <4> QED
        BY <3>1, <3>2, <4>1, HeldStays DEF HeldBy
    <3> QED
      BY <3>3 DEF HeldFactsStable
  <2> QED
    BY <1>3, <2>1, RowsSafe DEF SafetyInv
<1> QED
  BY <1>1, <1>2, <1>3 DEF Next, ProcessStep

\* The rows are true, and so is all that a process holds between two calls.
THEOREM SafetyInvariant == Spec => []SafetyInv
  BY TypeInit, TypeStep, SafetyInit, SafetyStep, PTL DEF Spec

\* A burn shown as claimed has been claimed on L2.
THEOREM ClaimedIsReal == Spec => []ClaimedHasTombstone
<1>1. SafetyInv => ClaimedHasTombstone
  BY DEF SafetyInv
<1> QED
  BY <1>1, SafetyInvariant, PTL

\* A burn shown as stuck is past the threshold.
THEOREM StuckIsOverdue == Spec => []StuckWasOverdue
<1>1. SafetyInv => StuckWasOverdue
  BY DEF SafetyInv
<1> QED
  BY <1>1, SafetyInvariant, PTL

\* No two rows ever hold the same commitment.
THEOREM CommitmentsAreUnique == Spec => []OneRowPerCommitment
<1>1. SafetyInv => OneRowPerCommitment
  BY DEF SafetyInv
<1> QED
  BY <1>1, SafetyInvariant, PTL

\* What a process holds between two calls stays true.
THEOREM HeldFactsHold == Spec => []HeldFactsStable
<1>1. SafetyInv => HeldFactsStable
  BY DEF SafetyInv
<1> QED
  BY <1>1, SafetyInvariant, PTL

-----------------------------------------------------------------------------
(* Refinement: the table keeps the promise of BurnLifecycle.               *)
(*                                                                         *)
(* Only Insert, MarkClaimed and MarkStuck write the table, and each writes *)
(* one row or none.  For MarkClaimed, which writes every row with the      *)
(* commitment it was given, that is OneRowPerCommitment; that the tombstone*)
(* is there and the moment is past is HeldFactsStable.                     *)

\* A row that is given a value is all that changes.
LEMMA OneRowWritten ==
  ASSUME TypeOK, NEW b \in Burns, NEW row, claims' \in [Burns -> Row],
         claims'[b] = row, \A c \in Burns \ {b} : claims'[c] = claims[c]
  PROVE  claims' = [claims EXCEPT ![b] = row]
BY DEF TypeOK

LEMMA InsertRefines ==
  ASSUME TypeOK, SafetyInv, NEW p \in Procs, Insert(p)
  PROVE  UNCHANGED claims \/ \E b \in Burns : Lifecycle!Record(b)
<1>1. proc[p] \in ProcState /\ tombstones' = tombstones /\ claims' \in [Burns -> Row]
  BY ProcessFrame, ClaimsTypeStep DEF TypeOK, layerVars, ProcessStep, Work
<1>2. PICK x \in proc[p].todo : \/ UNCHANGED claims
                                \/ /\ ~InsertConflicts(claims, x[1])
                                   /\ claims' = InsertPendingBurnClaim(claims, x[1], x[2])
  BY DEF Insert, Earliest
<1> DEFINE b == x[1]
           h == x[2]
<1>3. b \in Burns /\ h \in Nat
  BY <1>1 DEF ProcState, Items
<1> HIDE DEF b, h
<1>4. CASE ~InsertConflicts(claims, b) /\ claims' = InsertPendingBurnClaim(claims, b, h)
  <2>1. CASE Recorded(claims, b)
    BY <1>4, <2>1 DEF InsertPendingBurnClaim
  <2>2. CASE ~Recorded(claims, b)
    <3> DEFINE row == [status |-> "pending", burn_height |-> h, claimed_at |-> {}]
    <3>1. claims'[b] = row /\ \A c \in Burns \ {b} : claims'[c] = claims[c]
      BY <1>3, <1>4, <2>2, InsertRows
    <3>2. claims' = [claims EXCEPT ![b] = row]
      BY <1>1, <1>3, <3>1, OneRowWritten
    <3>3. claims'[b].burn_height = h
      BY <3>1
    <3>4. \A o \in Burns \ {b} : claims[o].status # "absent" => CommitmentOf[o] # CommitmentOf[b]
      BY <1>4, <2>2 DEF InsertConflicts, CommitmentTaken, Recorded
    <3> QED
      BY <1>1, <1>3, <2>2, <3>2, <3>3, <3>4 DEF Lifecycle!Record, Recorded
  <2> QED
    BY <2>1, <2>2
<1> QED
  BY <1>2, <1>4 DEF b, h

LEMMA MarkClaimedRefines ==
  ASSUME TypeOK, SafetyInv, NEW p \in Procs, MarkClaimed(p)
  PROVE  UNCHANGED claims \/ \E b \in Burns : Lifecycle!Observe(b)
<1>1. /\ proc[p] \in ProcState /\ HeldBy(proc[p]) /\ tombstones \in SUBSET Commitments
      /\ tombstones' = tombstones /\ claims' \in [Burns -> Row] /\ claims \in [Burns -> Row]
  BY ProcessFrame, ClaimsTypeStep
     DEF TypeOK, LayerTypeOK, layerVars, ProcessStep, Work, SafetyInv, HeldFactsStable
<1>2. PICK x \in proc[p].found :
        claims' = MarkBurnClaimed(claims, CommitmentOf[x[1]], proc[p].now)
  BY DEF MarkClaimed
<1> DEFINE cm == CommitmentOf[x[1]]
           m  == proc[p].now
<1>3. cm \in tombstones /\ cm \in Commitments /\ m \in SUBSET tombstones /\ m \in SUBSET Commitments
  BY <1>1 DEF HeldBy, ProcState
<1>4. claims' = MarkBurnClaimed(claims, cm, m)
  BY <1>2
<1> HIDE DEF cm, m
<1>5. \A c \in Burns : \/ claims'[c] = claims[c]
                       \/ /\ claims[c].status \in {"pending", "stuck"}
                          /\ CommitmentOf[c] = cm
                          /\ claims'[c] = [status      |-> "claimed",
                                           burn_height |-> claims[c].burn_height,
                                           claimed_at  |-> {m}]
  BY <1>3, <1>4, MarkClaimedRows
<1>6. CASE \A c \in Burns : claims'[c] = claims[c]
  BY <1>1, <1>6
<1>7. CASE ~\A c \in Burns : claims'[c] = claims[c]
  <2>1. PICK b \in Burns : claims'[b] # claims[b]
    BY <1>7
  <2> DEFINE row == [status      |-> "claimed",
                     burn_height |-> claims[b].burn_height,
                     claimed_at  |-> {m}]
  <2>2. claims[b].status \in {"pending", "stuck"} /\ CommitmentOf[b] = cm /\ claims'[b] = row
    BY <1>5, <2>1
  <2>3. \A c \in Burns \ {b} : claims'[c] = claims[c]
    <3> SUFFICES ASSUME NEW c \in Burns \ {b}, claims'[c] # claims[c] PROVE FALSE
      OBVIOUS
    <3>1. claims[c].status \in {"pending", "stuck"} /\ CommitmentOf[c] = cm
      BY <1>5
    <3> QED
      BY <2>2, <3>1 DEF SafetyInv, OneRowPerCommitment, Recorded
  <2>4. claims' = [claims EXCEPT ![b] = row]
    BY <1>1, <2>2, <2>3, OneRowWritten
  <2> QED
    BY <1>1, <1>3, <2>2, <2>4 DEF Lifecycle!Observe
<1> QED
  BY <1>6, <1>7

LEMMA MarkStuckRefines ==
  ASSUME TypeOK, SafetyInv, NEW p \in Procs, MarkStuck(p)
  PROVE  UNCHANGED claims \/ \E b \in Burns : Lifecycle!GiveUp(b)
<1>1. proc[p] \in ProcState /\ tombstones' = tombstones
  BY ProcessFrame DEF TypeOK, layerVars, ProcessStep, Work
<1>2. PICK x \in proc[p].todo : claims' = MarkBurnStuck(claims, x[1])
  BY DEF MarkStuck, Earliest
<1>3. x[1] \in Burns
  BY <1>1 DEF ProcState, Items
<1> QED
  BY <1>1, <1>2, <1>3 DEF MarkBurnStuck, Lifecycle!GiveUp

LEMMA StepRefines ==
  ASSUME TypeOK, SafetyInv, TypeOK', [Next]_vars
  PROVE  Lifecycle!Next \/ UNCHANGED <<claims, tombstones>>
<1>1. CASE UNCHANGED vars
  BY <1>1 DEF vars, layerVars
<1>2. CASE Environment
  BY <1>2, LayerGrows DEF Environment, Lifecycle!Next, Lifecycle!Claim, TypeOK, LayerTypeOK
<1>3. ASSUME NEW p \in Procs, ProcessStep(p)
      PROVE  Lifecycle!Next \/ UNCHANGED <<claims, tombstones>>
  <2>1. tombstones' = tombstones
    BY <1>3, ProcessFrame DEF layerVars
  <2>2. CASE Insert(p)
    BY <2>1, <2>2, InsertRefines DEF Lifecycle!Next
  <2>3. CASE MarkClaimed(p)
    BY <2>1, <2>3, MarkClaimedRefines DEF Lifecycle!Next
  <2>4. CASE MarkStuck(p)
    BY <2>1, <2>4, MarkStuckRefines DEF Lifecycle!Next
  <2> QED
    BY <1>3, <2>1, <2>2, <2>3, <2>4, TableFrame
<1> QED
  BY <1>1, <1>2, <1>3 DEF Next, ProcessStep

\* However many trackers write the table, and however their passes interleave,
\* fail and restart, it keeps the promise of BurnLifecycle.
THEOREM KeepsThePromise == Spec => KeepsLifecycle
<1>1. Init => Lifecycle!Init
  BY DEF Init, LayerInit, EmptyTable, NoRow, Lifecycle!Init, Lifecycle!EmptyTable, Lifecycle!NoRow
<1>2. TypeOK /\ TypeOK' /\ SafetyInv /\ [Next]_vars => [Lifecycle!Next]_<<claims, tombstones>>
  BY StepRefines
<1>3. [][Lifecycle!Next]_<<claims, tombstones>> => [][Lifecycle!Next]_(Lifecycle!lifecycleVars)
  BY DEF Lifecycle!lifecycleVars
<1> QED
  BY <1>1, <1>2, <1>3, TypeCorrect, SafetyInvariant, PTL DEF Spec, KeepsLifecycle, Lifecycle!Spec

-----------------------------------------------------------------------------
(* Coverage: the cursor leaves no gap.                                     *)
(*                                                                         *)
(* What a follower has covered is one range that begins at -start-height,  *)
(* and its cursor lies in it: a tick begins right after the cursor, so it  *)
(* adds a range that touches the old one.  The cursor follows the reported *)
(* tip downwards too, and must not follow it below -start-height.          *)

InRange(cursor, heights) ==
  \E top \in Nat : /\ heights = (StartHeight + 1)..top
                   /\ StartHeight <= cursor
                   /\ cursor <= top

GapInv ==
  /\ InitialHeight <= bestHeight
  /\ \A p \in Followers :
       /\ InRange(proc[p].lastScannedHeight, covered[p])
       /\ proc[p].pc = "blocks" => StartHeight <= proc[p].tip

\* Every step of a follower but ReadTip and EndScan keeps its cursor or, when it
\* restarts, sets it to -start-height; none but ReadTip begins a scan.
LEMMA CursorFrame ==
  ASSUME TypeOK, NEW p \in Followers, ProcessStep(p), ~ReadTip(p), ~EndScan(p)
  PROVE  /\ proc'[p].lastScannedHeight \in {proc[p].lastScannedHeight, StartHeight}
         /\ proc'[p].pc = "blocks" => /\ proc[p].pc = "blocks"
                                      /\ proc'[p].tip = proc[p].tip
                                      /\ proc'[p].lastScannedHeight = proc[p].lastScannedHeight
<1>1. proc[p] \in ProcState /\ proc \in [Procs -> ProcState] /\ p \in Procs
  BY DEF TypeOK, Procs
<1>2. \A state : Become(p, state) => proc'[p] = state
  BY <1>1 DEF Become
<1>3. p \notin Scanners
  OBVIOUS
<1>4. /\ Over(p).pc = "tip" /\ Over(p).lastScannedHeight = proc[p].lastScannedHeight
      /\ StartState(p).pc = "tip" /\ StartState(p).lastScannedHeight = StartHeight
  BY DEF Over, StartState
<1>5. ASSUME NEW state, Become(p, state), state.pc # "blocks",
             state.lastScannedHeight = proc[p].lastScannedHeight
      PROVE  /\ proc'[p].lastScannedHeight = proc[p].lastScannedHeight
             /\ proc'[p].pc # "blocks"
  BY <1>2, <1>5
<1>a. CASE FetchBatch(p)
  BY <1>a, <1>1 DEF FetchBatch, Scanning, Become, ProcState
<1>b. CASE Insert(p)
  BY <1>b, <1>1, <1>4 DEF Insert, Become, ProcState
<1>c. CASE ListForClaims(p) \/ ListForClaimsFails(p)
  <2>1. ASSUME NEW todo \in SUBSET Items, NEW now \in SUBSET Commitments
        PROVE  LET s == [proc[p] EXCEPT !.pc = "check", !.todo = todo, !.now = now]
               IN  s.pc # "blocks" /\ s.lastScannedHeight = proc[p].lastScannedHeight
    BY <1>1 DEF ProcState
  <2>2. /\ ListBurnClaimsByStatus(claims, "pending") \in SUBSET Items
        /\ tombstones \in SUBSET Commitments
    BY ListType DEF TypeOK, LayerTypeOK
  <2> QED
    BY <1>c, <1>5, <2>1, <2>2 DEF ListForClaims, ListForClaimsFails
<1>f. CASE ListForStuck(p) \/ ListForStuckFails(p)
  <2>1. ASSUME NEW todo \in SUBSET Items
        PROVE  LET s == [proc[p] EXCEPT !.pc = "flag", !.todo = todo, !.now = {}]
               IN  s.pc # "blocks" /\ s.lastScannedHeight = proc[p].lastScannedHeight
    BY <1>1 DEF ProcState
  <2>2. /\ {x \in ListBurnClaimsByStatus(claims, "pending") : IsStuck(x[2], proc[p].tip)}
             \in SUBSET Items
        /\ {} \in SUBSET Items
    BY ListType DEF TypeOK
  <2> QED
    BY <1>f, <1>5, <2>1, <2>2 DEF ListForStuck, ListForStuckFails
<1>g. CASE SeeTombstone(p)
  <2>1. ASSUME NEW x, proc[p].pc = "check"
        PROVE  LET s == [proc[p] EXCEPT !.todo = @ \ {x}, !.found = {x}]
               IN  s.pc # "blocks" /\ s.lastScannedHeight = proc[p].lastScannedHeight
    BY <1>1, <2>1 DEF ProcState
  <2> QED
    BY <1>g, <1>5, <2>1 DEF SeeTombstone
<1>h. CASE SeeNoTombstone(p) \/ LookupFails(p) \/ MarkStuck(p) \/ MarkStuckFails(p)
  <2>1. ASSUME NEW x, proc[p].pc # "blocks"
        PROVE  LET s == [proc[p] EXCEPT !.todo = @ \ {x}]
               IN  s.pc # "blocks" /\ s.lastScannedHeight = proc[p].lastScannedHeight
    BY <1>1, <2>1 DEF ProcState
  <2> QED
    BY <1>h, <1>5, <2>1 DEF SeeNoTombstone, LookupFails, MarkStuck, MarkStuckFails
<1>i. CASE MarkClaimed(p) \/ MarkClaimedFails(p)
  BY <1>i, <1>1 DEF MarkClaimed, MarkClaimedFails, Become, ProcState
<1>d. CASE FetchFails(p) \/ InsertFails(p) \/ EndPass(p) \/ Restart(p)
  BY <1>d, <1>2, <1>4 DEF FetchFails, InsertFails, EndPass, Restart
<1>e. CASE ReadTipForStuck(p) \/ ReadTipForStuckFails(p)
  BY <1>e, <1>3 DEF ReadTipForStuck, ReadTipForStuckFails
<1> QED
  BY <1>a, <1>b, <1>c, <1>d, <1>e, <1>f, <1>g, <1>h, <1>i DEF ProcessStep, Work, Failure

\* What the two other steps of a follower make of it.
LEMMA ReadTipMoves ==
  ASSUME TypeOK, NEW p \in Followers, ReadTip(p)
  PROVE  \E tip \in ReportedTips :
           LET first == FirstHeight(proc[p].lastScannedHeight, tip) IN
             \/ /\ first <= tip
                /\ proc'[p].pc = "blocks"
                /\ proc'[p].tip = tip
                /\ proc'[p].from = first
                /\ proc'[p].lastScannedHeight = proc[p].lastScannedHeight
             \/ /\ first > tip
                /\ proc'[p].pc = "list"
                /\ proc'[p].lastScannedHeight = tip
<1>1. /\ proc[p] \in ProcState /\ proc \in [Procs -> ProcState] /\ p \in Procs
      /\ ReportedTips \subseteq Nat
  BY DEF TypeOK, Procs, LayerTypeOK, ReportedTips
<1>2. PICK tip \in ReportedTips :
        LET first == FirstHeight(proc[p].lastScannedHeight, tip) IN
          Become(p, IF first <= tip
                      THEN [proc[p] EXCEPT !.pc = "blocks", !.tip = tip, !.from = first]
                      ELSE [proc[p] EXCEPT !.pc = "list", !.tip = tip,
                                           !.lastScannedHeight = tip])
  BY DEF ReadTip
<1> DEFINE first == FirstHeight(proc[p].lastScannedHeight, tip)
<1>3. first \in Nat /\ tip \in Nat
  BY <1>1, FirstHeightType DEF ProcState
<1>4. Become(p, IF first <= tip
                  THEN [proc[p] EXCEPT !.pc = "blocks", !.tip = tip, !.from = first]
                  ELSE [proc[p] EXCEPT !.pc = "list", !.tip = tip, !.lastScannedHeight = tip])
  BY <1>2
<1> HIDE DEF first
<1>5. CASE first <= tip
  <2>1. proc'[p] = [proc[p] EXCEPT !.pc = "blocks", !.tip = tip, !.from = first]
    BY <1>1, <1>4, <1>5 DEF Become
  <2>2. /\ proc'[p].pc = "blocks" /\ proc'[p].tip = tip /\ proc'[p].from = first
        /\ proc'[p].lastScannedHeight = proc[p].lastScannedHeight
    BY <1>1, <2>1 DEF ProcState
  <2> QED
    BY <1>2, <1>5, <2>2 DEF first
<1>6. CASE ~(first <= tip)
  <2>1. proc'[p] = [proc[p] EXCEPT !.pc = "list", !.tip = tip, !.lastScannedHeight = tip]
    BY <1>1, <1>4, <1>6 DEF Become
  <2>2. proc'[p].pc = "list" /\ proc'[p].lastScannedHeight = tip
    BY <1>1, <2>1 DEF ProcState
  <2>3. first > tip
    BY <1>3, <1>6
  <2> QED
    BY <1>2, <2>2, <2>3 DEF first
<1> QED
  BY <1>5, <1>6

LEMMA EndScanMoves ==
  ASSUME TypeOK, NEW p \in Followers, EndScan(p)
  PROVE  /\ proc[p].pc = "blocks"
         /\ proc'[p].pc = "list"
         /\ proc'[p].lastScannedHeight = proc[p].tip
         /\ covered'[p] = covered[p] \cup
                (FirstHeight(proc[p].lastScannedHeight, proc[p].tip)..proc[p].tip)
         /\ \A q \in Followers \ {p} : covered'[q] = covered[q]
<1>1. proc[p] \in ProcState /\ proc \in [Procs -> ProcState] /\ p \in Procs
  BY DEF TypeOK, Procs
<1>2. proc'[p] = [proc[p] EXCEPT !.pc = "list", !.from = ScanFrom,
                                 !.lastScannedHeight = proc[p].tip]
  BY <1>1 DEF EndScan, Become
<1>3. proc'[p].pc = "list" /\ proc'[p].lastScannedHeight = proc[p].tip
  BY <1>1, <1>2 DEF ProcState
<1> QED
  BY <1>3 DEF EndScan, Scanning

LEMMA FirstAfterCursor ==
  ASSUME NEW cursor \in Nat, NEW tip, StartHeight # 0, StartHeight <= cursor
  PROVE  FirstHeight(cursor, tip) = cursor + 1
<1>1. StartHeight \in Nat
  OBVIOUS
<1> QED
  BY <1>1 DEF FirstHeight

\* Two facts of arithmetic: a range goes on where the cursor in it is, and a
\* cursor that stays, falls to a tip or starts again stays in it.
LEMMA RangesTouch ==
  ASSUME NEW top \in Nat, NEW cursor \in Nat, NEW tip \in Nat, NEW heights,
         StartHeight <= cursor, cursor <= top, StartHeight <= tip,
         heights = ((StartHeight + 1)..top) \cup ((cursor + 1)..tip)
  PROVE  InRange(tip, heights)
<1>0. StartHeight \in Nat
  OBVIOUS
<1>1. CASE tip <= top
  <2>1. ((StartHeight + 1)..top) \cup ((cursor + 1)..tip) = (StartHeight + 1)..top
    BY <1>0, <1>1
  <2> QED
    BY <1>1, <2>1 DEF InRange
<1>2. CASE top < tip
  <2>1. ((StartHeight + 1)..top) \cup ((cursor + 1)..tip) = (StartHeight + 1)..tip
    BY <1>0, <1>2
  <2>2. tip <= tip
    OBVIOUS
  <2> QED
    BY <2>1, <2>2 DEF InRange
<1> QED
  BY <1>1, <1>2

LEMMA CursorBetween ==
  ASSUME NEW cursor \in Nat, NEW top \in Nat, NEW tip \in Nat, NEW next,
         StartHeight <= cursor, cursor <= top, StartHeight <= tip,
         next \in {cursor, StartHeight} \/ (next = tip /\ tip <= cursor)
  PROVE  StartHeight <= next /\ next <= top
<1>1. StartHeight \in Nat
  OBVIOUS
<1> QED
  BY <1>1

LEMMA GapInit ==
  ASSUME StartHeight + HostLag <= InitialHeight, Init
  PROVE  GapInv
<1>1. InitialHeight <= bestHeight
  BY DEF Init, LayerInit
<1>2. ASSUME NEW p \in Followers
      PROVE  /\ InRange(proc[p].lastScannedHeight, covered[p])
             /\ proc[p].pc = "blocks" => StartHeight <= proc[p].tip
  <2>1. covered[p] = {} /\ proc[p].lastScannedHeight = StartHeight /\ proc[p].pc = "tip"
    BY DEF Init, StartState, Procs
  <2>2. (StartHeight + 1)..StartHeight = {}
    OBVIOUS
  <2> QED
    BY <2>1, <2>2 DEF InRange
<1> QED
  BY <1>1, <1>2 DEF GapInv

LEMMA GapStep ==
  ASSUME StartHeight # 0, StartHeight + HostLag <= InitialHeight,
         TypeOK, GapInv, [Next]_vars
  PROVE  GapInv'
<1>1. CASE UNCHANGED vars
  BY <1>1 DEF GapInv, InRange, vars, layerVars
<1>2. CASE Environment
  <2>1. bestHeight <= bestHeight' /\ bestHeight' \in Nat /\ bestHeight \in Nat
    BY <1>2, LayerGrows DEF Environment, TypeOK, LayerTypeOK
  <2> QED
    BY <1>2, <2>1 DEF GapInv, InRange, Environment
<1>3. ASSUME NEW q \in Procs, ProcessStep(q)
      PROVE  GapInv'
  <2>1. bestHeight' = bestHeight /\ bestHeight \in Nat
    BY <1>3, ProcessFrame DEF layerVars, TypeOK, LayerTypeOK
  <2>2. ASSUME NEW p \in Followers
        PROVE  /\ InRange(proc'[p].lastScannedHeight, covered'[p])
               /\ proc'[p].pc = "blocks" => StartHeight <= proc'[p].tip
    <3>1. /\ InRange(proc[p].lastScannedHeight, covered[p]) /\ p \in Procs
          /\ proc[p].pc = "blocks" => StartHeight <= proc[p].tip
          /\ proc[p].lastScannedHeight \in Nat /\ proc[p].tip \in Nat /\ StartHeight \in Nat
      BY DEF GapInv, Procs, TypeOK, ProcState
    <3> DEFINE cursor == proc[p].lastScannedHeight
    <3>2. PICK top \in Nat : /\ covered[p] = (StartHeight + 1)..top
                             /\ StartHeight <= cursor
                             /\ cursor <= top
      BY <3>1 DEF InRange
    <3>0. cursor \in Nat /\ StartHeight \in Nat
      BY <3>1
    <3>3. CASE q # p
      <4>1. proc'[p] = proc[p]
        BY <1>3, <3>1, <3>3, OthersKept
      <4>2. covered'[p] = covered[p]
        BY <1>3, <3>3, ProcessFrame DEF EndScan
      <4> QED
        BY <3>1, <4>1, <4>2
    <3>4. CASE q = p /\ ReadTip(p)
      <4>1. covered' = covered
        BY <3>4 DEF ReadTip
      <4>2. PICK tip \in ReportedTips :
              LET first == FirstHeight(proc[p].lastScannedHeight, tip) IN
                \/ /\ first <= tip
                   /\ proc'[p].pc = "blocks"
                   /\ proc'[p].tip = tip
                   /\ proc'[p].from = first
                   /\ proc'[p].lastScannedHeight = proc[p].lastScannedHeight
                \/ /\ first > tip
                   /\ proc'[p].pc = "list"
                   /\ proc'[p].lastScannedHeight = tip
        BY <3>4, ReadTipMoves
      <4>3. tip \in Nat /\ StartHeight <= tip
        BY <2>1 DEF ReportedTips, GapInv
      <4>4. FirstHeight(proc[p].lastScannedHeight, tip) = proc[p].lastScannedHeight + 1
        BY <3>0, <3>2, FirstAfterCursor
      <4>5. \/ proc'[p].lastScannedHeight = proc[p].lastScannedHeight
            \/ proc'[p].lastScannedHeight = tip /\ tip <= proc[p].lastScannedHeight
        BY <3>1, <4>2, <4>3, <4>4
      <4>6. StartHeight <= proc'[p].lastScannedHeight /\ proc'[p].lastScannedHeight <= top
        <5> DEFINE next == proc'[p].lastScannedHeight
        <5>1. next \in {cursor, StartHeight} \/ (next = tip /\ tip <= cursor)
          BY <4>5
        <5> HIDE DEF cursor, next
        <5>2. StartHeight <= next /\ next <= top
          BY <3>0, <3>2, <4>3, <5>1, CursorBetween
        <5> QED
          BY <5>2 DEF next
      <4>7. proc'[p].pc = "blocks" => proc'[p].tip = tip
        BY <4>2
      <4> QED
        BY <3>2, <4>1, <4>3, <4>6, <4>7 DEF InRange
    <3>5. CASE q = p /\ EndScan(p)
      <4>1. /\ proc[p].pc = "blocks"
            /\ proc'[p].pc = "list"
            /\ proc'[p].lastScannedHeight = proc[p].tip
            /\ covered'[p] = covered[p] \cup
                   (FirstHeight(proc[p].lastScannedHeight, proc[p].tip)..proc[p].tip)
        BY <3>5, EndScanMoves
      <4>2. FirstHeight(proc[p].lastScannedHeight, proc[p].tip) = proc[p].lastScannedHeight + 1
        BY <3>0, <3>2, FirstAfterCursor
      <4>3. InRange(proc[p].tip, covered'[p])
        <5> DEFINE tip     == proc[p].tip
                   heights == covered'[p]
        <5>1. heights = ((StartHeight + 1)..top) \cup ((cursor + 1)..tip)
          BY <3>2, <4>1, <4>2
        <5>2. tip \in Nat /\ StartHeight <= tip
          BY <3>1, <4>1
        <5> HIDE DEF cursor, tip, heights
        <5>3. InRange(tip, heights)
          BY <3>0, <3>2, <5>1, <5>2, RangesTouch
        <5> QED
          BY <5>3 DEF tip, heights
      <4> QED
        BY <4>1, <4>3
    <3>6. CASE q = p /\ ~ReadTip(p) /\ ~EndScan(p)
      <4>1. covered' = covered
        BY <1>3, <3>6, ProcessFrame
      <4>2. /\ proc'[p].lastScannedHeight \in {proc[p].lastScannedHeight, StartHeight}
            /\ proc'[p].pc = "blocks" => /\ proc[p].pc = "blocks"
                                         /\ proc'[p].tip = proc[p].tip
        BY <1>3, <3>6, CursorFrame
      <4>3. StartHeight <= proc'[p].lastScannedHeight /\ proc'[p].lastScannedHeight <= top
        <5> DEFINE next == proc'[p].lastScannedHeight
        <5>1. next \in {cursor, StartHeight}
          BY <4>2
        <5> HIDE DEF cursor, next
        <5>2. StartHeight <= next /\ next <= top
          BY <3>0, <3>2, <5>1, CursorBetween
        <5> QED
          BY <5>2 DEF next
      <4> QED
        BY <3>1, <3>2, <4>1, <4>2, <4>3 DEF InRange
    <3> QED
      BY <3>3, <3>4, <3>5, <3>6
  <2> QED
    BY <2>1, <2>2 DEF GapInv, InRange
<1> QED
  BY <1>1, <1>2, <1>3 DEF Next, ProcessStep

LEMMA NoGapIn ==
  ASSUME GapInv
  PROVE  CoverageContiguous
<1> SUFFICES ASSUME NEW p \in Followers, NEW low \in covered[p], NEW high \in covered[p]
             PROVE  low..high \subseteq covered[p]
  BY DEF CoverageContiguous
<1>1. PICK top \in Nat : covered[p] = (StartHeight + 1)..top
  BY DEF GapInv, InRange
<1>2. StartHeight \in Nat
  OBVIOUS
<1>3. ASSUME NEW height \in low..high
      PROVE  height \in (StartHeight + 1)..top
  <2>1. low \in Nat /\ StartHeight + 1 <= low /\ high \in Nat /\ high <= top
    BY <1>1, <1>2
  <2>2. height \in Nat /\ low <= height /\ height <= high
    BY <2>1
  <2> QED
    BY <1>2, <2>1, <2>2
<1> QED
  BY <1>1, <1>3

\* If -start-height is given, and no base node is so far behind that its tip is
\* below it, then what a follower has covered has no gap, through any number of
\* restarts, failures and reorganisations and whichever nodes answer it.
THEOREM NoGap ==
  ASSUME StartHeight # 0, StartHeight + HostLag <= InitialHeight
  PROVE  Spec => []CoverageContiguous
<1>1. Init => GapInv
  BY GapInit
<1>2. TypeOK /\ GapInv /\ [Next]_vars => GapInv'
  BY GapStep
<1>3. GapInv => CoverageContiguous
  BY NoGapIn
<1> QED
  BY <1>1, <1>2, <1>3, TypeCorrect, PTL DEF Spec

-----------------------------------------------------------------------------
(* Coverage: the cursor passes no burn that is not recorded.               *)
(*                                                                         *)
(* Mid-scan the burns behind the scan's position are recorded or fetched   *)
(* and still to insert.  When the scan ends nothing is left to insert, so  *)
(* the heights it covered hold no other burn.  What the code cannot help   *)
(* is stated as two conditions on steps: no burn is mined into a block the *)
(* follower has read, and the base node that answers has the blocks it is  *)
(* asked for.                                                              *)

HeightsRead(p) ==
  {h \in Nat : \/ h \in covered[p]
               \/ /\ proc[p].pc = "blocks"
                  /\ h \in FirstHeight(proc[p].lastScannedHeight, proc[p].tip)..proc[p].tip
                  /\ h < proc[p].from}

NothingMinedBehind ==
  \A p \in Followers, b \in Burns :
    minedAt'[b] \in HeightsRead(p) => minedAt'[b] = minedAt[b]

AnswersComplete ==
  \A p \in Followers :
    FetchBatch(p) => proc'[p].todo = BurnsInBlocks(proc[p].from, BatchEnd(p), bestHeight)

ScannedSoFar(state) ==
  state.pc = "blocks" =>
    \A b \in Burns :
      /\ minedAt[b] \in FirstHeight(state.lastScannedHeight, state.tip)..state.tip
      /\ minedAt[b] < state.from
      => Recorded(claims, b) \/ <<b, minedAt[b]>> \in state.todo

CoverInv ==
  /\ CoveredBurnsRecorded
  /\ \A p \in Followers : covered[p] \subseteq 1..bestHeight
  /\ \A p \in Followers : ScannedSoFar(proc[p])

\* The chain grows, and its blocks do not change.
LEMMA BlocksStay ==
  ASSUME MaxReorgs = 0, TypeOK, LayerNext
  PROVE  \A b \in Burns : minedAt'[b] = minedAt[b] \/ minedAt'[b] = bestHeight + 1
<1>1. minedAt \in [Burns -> Nat] /\ reorgs \in Nat
  BY DEF TypeOK, LayerTypeOK
<1>2. ~Reorganise
  BY <1>1 DEF Reorganise
<1> QED
  BY <1>1, <1>2 DEF LayerNext, MineBlock, ClaimOnL2

\* Every step of a follower but ReadTip, FetchBatch and Insert ends a scan, if it
\* is in one.
LEMMA ScanFrame ==
  ASSUME TypeOK, NEW p \in Followers, ProcessStep(p),
         ~ReadTip(p), ~FetchBatch(p), ~Insert(p)
  PROVE  proc'[p].pc # "blocks"
<1>1. CASE EndScan(p)
  BY <1>1, EndScanMoves
<1>2. CASE ~EndScan(p)
  <2>1. proc'[p].pc = "blocks" => proc[p].pc = "blocks"
    BY <1>2, CursorFrame
  <2>2. proc[p].pc = "blocks" => FetchFails(p) \/ InsertFails(p) \/ Restart(p)
    BY <1>2 DEF ProcessStep, Work, Failure, ListForClaims, SeeTombstone, SeeNoTombstone,
       MarkClaimed, ReadTipForStuck, ListForStuck, MarkStuck, EndPass, ListForClaimsFails,
       LookupFails, MarkClaimedFails, ReadTipForStuckFails, ListForStuckFails,
       MarkStuckFails, ClaimsChecked, AboutToDetect
  <2>3. CASE FetchFails(p) \/ InsertFails(p) \/ Restart(p)
    <3>1. proc'[p] \in {Over(p), StartState(p)}
      BY <2>3 DEF FetchFails, InsertFails, Restart, Become, TypeOK, Procs
    <3>2. Over(p).pc = "tip" /\ StartState(p).pc = "tip"
      BY DEF Over, StartState
    <3> QED
      BY <3>1, <3>2
  <2> QED
    BY <2>1, <2>2, <2>3
<1> QED
  BY <1>1, <1>2

\* A batch brings every burn of its heights, when the node it comes from has
\* them all.
LEMMA FetchScans ==
  ASSUME AnswersComplete, TypeOK, HeldFactsStable, NEW p \in Followers,
         ScannedSoFar(proc[p]), FetchBatch(p)
  PROVE  ScannedSoFar(proc[p])'
<1>1. /\ proc[p] \in ProcState /\ proc \in [Procs -> ProcState] /\ p \in Procs
      /\ bestHeight \in Nat /\ HeldBy(proc[p])
  BY DEF TypeOK, Procs, LayerTypeOK, HeldFactsStable
<1>2. minedAt' = minedAt /\ claims' = claims
  BY DEF FetchBatch, layerVars
<1>3. proc[p].pc = "blocks" /\ proc[p].todo = {}
  BY DEF FetchBatch, Scanning
<1>4. PICK hostTip \in ReportedTips :
        proc'[p] = [proc[p] EXCEPT !.from = @ + ScanBatchSize,
                                   !.todo = BurnsInBlocks(proc[p].from, BatchEnd(p), hostTip)]
  BY <1>1 DEF FetchBatch, Become
<1>5. proc'[p].todo = BurnsInBlocks(proc[p].from, BatchEnd(p), bestHeight)
  BY DEF AnswersComplete
<1>6. /\ proc'[p].lastScannedHeight = proc[p].lastScannedHeight
      /\ proc'[p].tip = proc[p].tip
      /\ proc'[p].from = proc[p].from + ScanBatchSize
      /\ proc'[p].todo = BurnsInBlocks(proc[p].from, BatchEnd(p), bestHeight)
  BY <1>1, <1>4, <1>5 DEF ProcState
<1> DEFINE first == FirstHeight(proc[p].lastScannedHeight, proc[p].tip)
<1>7. /\ first \in Nat /\ first # 0 /\ proc[p].from \in Nat /\ proc[p].tip \in Nat
      /\ To(p) = proc[p].tip
  BY <1>1 DEF FirstHeight, ProcState, To
<1>8. ASSUME NEW b \in Burns, minedAt[b] \in first..proc[p].tip,
             minedAt[b] < proc[p].from + ScanBatchSize
      PROVE  Recorded(claims, b) \/ <<b, minedAt[b]>> \in proc'[p].todo
  <2>1. minedAt[b] \in Nat /\ minedAt[b] <= bestHeight /\ minedAt[b] # 0
    BY <1>7, <1>8 DEF TypeOK, LayerTypeOK
  <2>2. CASE minedAt[b] < proc[p].from
    BY <1>3, <1>8, <2>2 DEF ScannedSoFar
  <2>3. CASE minedAt[b] >= proc[p].from
    <3>1. minedAt[b] \in proc[p].from..BatchEnd(p)
      BY <1>7, <1>8, <2>1, <2>3 DEF BatchEnd
    <3> QED
      BY <1>6, <2>1, <3>1 DEF BurnsInBlocks
  <2> QED
    BY <1>7, <2>1, <2>2, <2>3
<1> QED
  BY <1>2, <1>6, <1>8 DEF ScannedSoFar, Recorded

LEMMA InsertScans ==
  ASSUME TypeOK, NEW p \in Followers, ScannedSoFar(proc[p]), Insert(p)
  PROVE  ScannedSoFar(proc[p])'
<1>1. proc[p] \in ProcState /\ proc \in [Procs -> ProcState] /\ p \in Procs
  BY DEF TypeOK, Procs
<1>2. minedAt' = minedAt /\ proc[p].pc = "blocks"
  BY DEF Insert, layerVars
<1>3. PICK x \in proc[p].todo :
        \/ proc'[p] = Over(p)
        \/ /\ proc'[p] = [proc[p] EXCEPT !.todo = @ \ {x}]
           /\ claims' = InsertPendingBurnClaim(claims, x[1], x[2])
  BY <1>1 DEF Insert, Become, Earliest
<1>4. CASE proc'[p] = Over(p)
  <2>1. proc'[p].pc = "tip"
    BY <1>4 DEF Over
  <2> QED
    BY <2>1 DEF ScannedSoFar
<1>5. CASE /\ proc'[p] = [proc[p] EXCEPT !.todo = @ \ {x}]
           /\ claims' = InsertPendingBurnClaim(claims, x[1], x[2])
  <2>1. /\ proc'[p].lastScannedHeight = proc[p].lastScannedHeight
        /\ proc'[p].tip = proc[p].tip
        /\ proc'[p].from = proc[p].from
        /\ proc'[p].todo = proc[p].todo \ {x}
    BY <1>1, <1>5 DEF ProcState
  <2>2. x[1] \in Burns /\ x[2] \in Nat
    BY <1>1 DEF ProcState, Items
  <2>3. RowsStay /\ Recorded(claims', x[1])
    <3> DEFINE b == x[1]
               h == x[2]
    <3>1. b \in Burns /\ h \in Nat /\ claims' = InsertPendingBurnClaim(claims, b, h)
      BY <1>5, <2>2
    <3> HIDE DEF b, h
    <3>2. /\ RowsStay
          /\ Recorded(claims, b) => claims'[b] = claims[b]
          /\ ~Recorded(claims, b) => claims'[b] = [status      |-> "pending",
                                                  burn_height |-> h,
                                                  claimed_at  |-> {}]
      BY <3>1, InsertRows
    <3>3. ASSUME Recorded(claims, b) PROVE Recorded(claims', b)
      BY <3>2, <3>3 DEF Recorded
    <3>4. ASSUME ~Recorded(claims, b) PROVE Recorded(claims', b)
      <4>1. claims'[b].status = "pending"
        BY <3>2, <3>4
      <4> QED
        BY <4>1 DEF Recorded
    <3>5. RowsStay /\ Recorded(claims', b)
      BY <3>2, <3>3, <3>4
    <3> QED
      BY <3>5 DEF b
  <2>4. ASSUME NEW b \in Burns, Recorded(claims, b) \/ <<b, minedAt[b]>> \in proc[p].todo
        PROVE  Recorded(claims', b) \/ <<b, minedAt[b]>> \in proc'[p].todo
    BY <2>1, <2>3, <2>4 DEF RowsStay, Recorded
  <2> QED
    BY <1>2, <2>1, <2>4 DEF ScannedSoFar, Recorded
<1> QED
  BY <1>3, <1>4, <1>5

\* A follower's own step keeps its scan complete so far.
LEMMA ScanGoesOn ==
  ASSUME AnswersComplete, TypeOK, HeldFactsStable, NEW p \in Followers,
         ScannedSoFar(proc[p]), ProcessStep(p)
  PROVE  ScannedSoFar(proc[p])'
<1>1. CASE ReadTip(p)
  <2>1. \/ /\ proc'[p].from = FirstHeight(proc'[p].lastScannedHeight, proc'[p].tip)
           /\ proc'[p].from \in Nat /\ proc'[p].tip \in Nat
        \/ proc'[p].pc = "list"
    <3>1. proc[p].lastScannedHeight \in Nat /\ ReportedTips \subseteq Nat
      BY DEF TypeOK, Procs, ProcState, LayerTypeOK, ReportedTips
    <3>2. \A tip \in ReportedTips : FirstHeight(proc[p].lastScannedHeight, tip) \in Nat
      BY <3>1, FirstHeightType
    <3> QED
      BY <1>1, <3>1, <3>2, ReadTipMoves
  <2>2. minedAt' = minedAt /\ minedAt \in [Burns -> Nat]
    BY <1>1 DEF ReadTip, layerVars, TypeOK, LayerTypeOK
  <2>3. CASE proc'[p].pc = "list"
    BY <2>3 DEF ScannedSoFar
  <2>4. CASE /\ proc'[p].from = FirstHeight(proc'[p].lastScannedHeight, proc'[p].tip)
             /\ proc'[p].from \in Nat /\ proc'[p].tip \in Nat
    BY <2>2, <2>4 DEF ScannedSoFar
  <2> QED
    BY <2>1, <2>3, <2>4
<1>2. CASE FetchBatch(p)
  BY <1>2, FetchScans
<1>3. CASE Insert(p)
  BY <1>3, InsertScans
<1>4. CASE ~ReadTip(p) /\ ~FetchBatch(p) /\ ~Insert(p)
  BY <1>4, ScanFrame DEF ScannedSoFar
<1> QED
  BY <1>1, <1>2, <1>3, <1>4

\* When a scan ends it has recorded every burn of its heights.
LEMMA ScanEnds ==
  ASSUME TypeOK, HeldFactsStable, CoverInv, NEW p \in Followers, EndScan(p)
  PROVE  /\ CoveredBurnsRecorded'
         /\ \A q \in Followers : covered'[q] \subseteq 1..bestHeight
<1>1. /\ proc[p] \in ProcState /\ p \in Procs /\ bestHeight \in Nat
      /\ HeldBy(proc[p]) /\ ScannedSoFar(proc[p]) /\ minedAt \in [Burns -> Nat]
  BY DEF TypeOK, Procs, LayerTypeOK, HeldFactsStable, CoverInv
<1> DEFINE first == FirstHeight(proc[p].lastScannedHeight, proc[p].tip)
           tip   == proc[p].tip
<1>2. first \in Nat /\ first # 0 /\ tip \in Nat /\ tip <= bestHeight
  BY <1>1 DEF FirstHeight, ProcState, HeldBy
<1>3. /\ proc[p].pc = "blocks" /\ proc[p].todo = {} /\ tip < proc[p].from /\ proc[p].from \in Nat
      /\ minedAt' = minedAt /\ claims' = claims
  BY <1>1 DEF EndScan, Scanning, To, layerVars, ProcState
<1>4. /\ covered'[p] = covered[p] \cup (first..tip)
      /\ \A q \in Followers \ {p} : covered'[q] = covered[q]
  BY EndScanMoves
<1>5. \A b \in Burns : minedAt[b] \in first..tip => minedAt[b] < proc[p].from
  BY <1>1, <1>2, <1>3
<1>6. \A b \in Burns : minedAt[b] \in first..tip => Recorded(claims, b)
  BY <1>1, <1>3, <1>5 DEF ScannedSoFar
<1> HIDE DEF first, tip
<1>7. ASSUME NEW q \in Followers
      PROVE  /\ covered'[q] \subseteq 1..bestHeight
             /\ \A b \in Burns : minedAt[b] \in covered'[q] => Recorded(claims, b)
  <2>1. covered'[q] \subseteq covered[q] \cup (first..tip)
    BY <1>4
  <2>2. first..tip \subseteq 1..bestHeight
    BY <1>1, <1>2
  <2> QED
    BY <1>6, <2>1, <2>2 DEF CoverInv, CoveredBurnsRecorded
<1> QED
  BY <1>3, <1>7 DEF CoveredBurnsRecorded, Recorded

LEMMA CoverInit == Init => CoverInv
<1> SUFFICES ASSUME Init PROVE CoverInv
  OBVIOUS
<1>1. \A p \in Followers : covered[p] = {} /\ proc[p].pc = "tip"
  BY DEF Init, StartState, Procs
<1> QED
  BY <1>1 DEF CoverInv, CoveredBurnsRecorded, ScannedSoFar

LEMMA CoverStep ==
  ASSUME TypeOK, HeldFactsStable, CoverInv, [Next]_vars,
         UNCHANGED vars \/ (NothingMinedBehind /\ AnswersComplete)
  PROVE  CoverInv'
<1>0. bestHeight \in Nat
  BY DEF TypeOK, LayerTypeOK
<1>1. CASE UNCHANGED vars
  BY <1>1 DEF CoverInv, CoveredBurnsRecorded, ScannedSoFar, Recorded, vars, layerVars
<1>2. CASE Environment
  <2>1. bestHeight <= bestHeight' /\ bestHeight' \in Nat
    BY <1>2, LayerGrows DEF Environment
  <2>2. UNCHANGED <<claims, proc, covered>>
    BY <1>2 DEF Environment
  <2>3. ASSUME ~UNCHANGED vars, NEW p \in Followers
        PROVE  /\ covered'[p] \subseteq 1..bestHeight'
               /\ \A b \in Burns : minedAt'[b] \in covered'[p] => Recorded(claims, b)
               /\ ScannedSoFar(proc[p])'
    <3>1. /\ covered[p] \subseteq 1..bestHeight /\ ScannedSoFar(proc[p])
          /\ \A b \in Burns : minedAt[b] \in covered[p] => Recorded(claims, b)
      BY DEF CoverInv, CoveredBurnsRecorded
    <3>2. covered'[p] \subseteq 1..bestHeight'
      BY <1>0, <2>1, <2>2, <3>1
    <3>3. \A b \in Burns : minedAt'[b] \in HeightsRead(p) => minedAt'[b] = minedAt[b]
      BY <2>3 DEF NothingMinedBehind
    <3>4. \A b \in Burns : minedAt'[b] \in covered'[p] => Recorded(claims, b)
      BY <1>0, <2>2, <3>1, <3>3 DEF HeightsRead
    <3>5. ScannedSoFar(proc[p])'
      <4>1. \A b \in Burns : minedAt'[b] \in Nat
        BY <1>2, LayerTypeStep DEF Environment, TypeOK, LayerTypeOK
      <4> QED
        BY <2>2, <3>1, <3>3, <4>1 DEF ScannedSoFar, HeightsRead, Recorded
    <3> QED
      BY <3>2, <3>4, <3>5
  <2> QED
    BY <1>1, <2>2, <2>3 DEF CoverInv, CoveredBurnsRecorded, Recorded
<1>3. ASSUME ~UNCHANGED vars, NEW q \in Procs, ProcessStep(q)
      PROVE  CoverInv'
  <2>1. minedAt' = minedAt /\ bestHeight' = bestHeight
    BY <1>3, ProcessFrame DEF layerVars
  <2>2. RowsStay
    BY <1>3, RowsStayStep
  <2>3. ASSUME NEW p \in Followers
        PROVE  ScannedSoFar(proc[p])'
    <3>1. ScannedSoFar(proc[p]) /\ p \in Procs
      BY DEF CoverInv, Procs
    <3>2. CASE q = p
      BY <1>3, <3>1, <3>2, ScanGoesOn
    <3>3. CASE q # p
      <4>1. proc'[p] = proc[p]
        BY <1>3, <3>1, <3>3, OthersKept
      <4> QED
        BY <2>1, <2>2, <3>1, <4>1 DEF ScannedSoFar, RowsStay, Recorded
    <3> QED
      BY <3>2, <3>3
  <2>4. /\ CoveredBurnsRecorded'
        /\ \A p \in Followers : covered'[p] \subseteq 1..bestHeight
    <3>1. CASE EndScan(q) /\ q \in Followers
      BY <3>1, ScanEnds
    <3>2. CASE covered' = covered
      BY <2>1, <2>2, <3>2 DEF CoverInv, CoveredBurnsRecorded, RowsStay, Recorded
    <3>3. CASE EndScan(q) /\ q \notin Followers
      <4>1. covered' = covered
        BY <3>3 DEF EndScan, TypeOK
      <4> QED
        BY <3>2, <4>1
    <3> QED
      BY <1>3, <3>1, <3>2, <3>3, ProcessFrame
  <2> QED
    BY <2>1, <2>3, <2>4 DEF CoverInv
<1> QED
  BY <1>1, <1>2, <1>3 DEF Next, ProcessStep

\* A follower's cursor passes no burn that is not recorded, whatever call fails,
\* whenever it restarts and whoever else writes the table, unless a reorganisation
\* mines it into a block the follower has read, or the base node that answered for
\* its block did not have it yet (followTick moves lastScannedHeight only after
\* scanRange returns no error).
THEOREM MissedOnlyBehind ==
  Spec /\ [][NothingMinedBehind /\ AnswersComplete]_vars => []CoveredBurnsRecorded
<1>1. Init => CoverInv
  BY CoverInit
<1>2. TypeOK /\ HeldFactsStable /\ CoverInv /\ [Next]_vars
        /\ [NothingMinedBehind /\ AnswersComplete]_vars => CoverInv'
  BY CoverStep
<1>3. CoverInv => CoveredBurnsRecorded
  BY DEF CoverInv
<1> QED
  BY <1>1, <1>2, <1>3, TypeCorrect, HeldFactsHold, PTL DEF Spec

\* Base nodes that are at the tip answer for all they are asked for.
LEMMA CompleteAtTip ==
  ASSUME HostLag = 0, TypeOK
  PROVE  AnswersComplete
<1> SUFFICES ASSUME NEW p \in Followers, FetchBatch(p)
             PROVE  proc'[p].todo = BurnsInBlocks(proc[p].from, BatchEnd(p), bestHeight)
  BY DEF AnswersComplete
<1>1. /\ proc[p] \in ProcState /\ proc \in [Procs -> ProcState] /\ p \in Procs
      /\ bestHeight \in Nat
  BY DEF TypeOK, Procs, LayerTypeOK
<1>2. PICK hostTip \in ReportedTips :
        proc'[p] = [proc[p] EXCEPT !.from = @ + ScanBatchSize,
                                   !.todo = BurnsInBlocks(proc[p].from, BatchEnd(p), hostTip)]
  BY <1>1 DEF FetchBatch, Become
<1>3. hostTip = bestHeight
  BY <1>1 DEF ReportedTips
<1> QED
  BY <1>1, <1>2, <1>3 DEF ProcState

\* Without reorganisations burns are mined into the next block, which nobody has read.
LEMMA MinedAhead ==
  ASSUME MaxReorgs = 0, TypeOK, HeldFactsStable, CoverInv, [Next]_vars
  PROVE  NothingMinedBehind
<1>1. bestHeight \in Nat /\ minedAt \in [Burns -> Nat]
  BY DEF TypeOK, LayerTypeOK
<1>2. \A p \in Followers : bestHeight + 1 \notin HeightsRead(p)
  <2> SUFFICES ASSUME NEW p \in Followers PROVE bestHeight + 1 \notin HeightsRead(p)
    OBVIOUS
  <2>1. /\ covered[p] \subseteq 1..bestHeight /\ proc[p].tip <= bestHeight
        /\ proc[p].tip \in Nat /\ proc[p].lastScannedHeight \in Nat
    BY DEF CoverInv, HeldFactsStable, HeldBy, Procs, TypeOK, ProcState
  <2>2. bestHeight + 1 \notin covered[p]
    BY <1>1, <2>1
  <2>3. bestHeight + 1 \notin FirstHeight(proc[p].lastScannedHeight, proc[p].tip)..proc[p].tip
    BY <1>1, <2>1
  <2> QED
    BY <2>2, <2>3 DEF HeightsRead
<1>3. \A b \in Burns : minedAt'[b] = minedAt[b] \/ minedAt'[b] = bestHeight + 1
  BY BlocksStay, ProcessFrame DEF Next, Environment, ProcessStep, vars, layerVars
<1> QED
  BY <1>2, <1>3 DEF NothingMinedBehind

\* If the base nodes are all at the tip and the chain does not reorganise, then a
\* follower's cursor never passes a burn that is not recorded (followTick).
THEOREM NoBurnPassed ==
  ASSUME HostLag = 0, MaxReorgs = 0
  PROVE  Spec => []CoveredBurnsRecorded
<1>1. Init => CoverInv
  BY CoverInit
<1>2. TypeOK /\ HeldFactsStable /\ CoverInv /\ [Next]_vars => CoverInv'
  BY CoverStep, CompleteAtTip, MinedAhead
<1>3. CoverInv => CoveredBurnsRecorded
  BY DEF CoverInv
<1> QED
  BY <1>1, <1>2, <1>3, TypeCorrect, HeldFactsHold, PTL DEF Spec

-----------------------------------------------------------------------------
(* The steps of a pass, as what becomes of the process that takes one. *)

\* It ends its pass or is started again.
Ends(p) == proc'[p] \in {Over(p), StartState(p)}

\* It goes on to a later phase.
Begins(old, new) ==
  /\ PhaseOf[old.pc] < PhaseOf[new.pc]
  /\ new.pc = "blocks" => old.pc = "tip" /\ new.todo = old.todo

\* It is done with a row of its list, or with the tombstone it has seen.
DoneWith(old, new, x) ==
  /\ new.pc = old.pc /\ new.from = old.from
  /\ \/ x \in old.todo /\ new.todo = old.todo \ {x}
     \/ old.pc = "check" /\ x \in old.found /\ new.todo = old.todo /\ new.found = {}

\* It has the next batch in hand.
Fetches(p) ==
  /\ proc[p].pc = "blocks" /\ proc'[p].pc = "blocks" /\ proc[p].from <= To(p)
  /\ proc'[p].from = proc[p].from + ScanBatchSize
  /\ \E last, hostTip : proc'[p].todo = BurnsInBlocks(proc[p].from, last, hostTip)

LEMMA Phases ==
  /\ PhaseOf["tip"] = 0 /\ PhaseOf["blocks"] = 1 /\ PhaseOf["list"] = 2 /\ PhaseOf["check"] = 3
  /\ PhaseOf["stuck"] = 4 /\ PhaseOf["flag"] = 5 /\ PhaseOf["done"] = 6
BY DEF PhaseOf

LEMMA StepShape ==
  ASSUME TypeOK, NEW p \in Procs, ProcessStep(p)
  PROVE  \/ Ends(p)
         \/ Begins(proc[p], proc'[p])
         \/ Fetches(p)
         \/ \E x : DoneWith(proc[p], proc'[p], x)
<1>1. proc[p] \in ProcState /\ proc \in [Procs -> ProcState]
  BY DEF TypeOK
<1>2. \A state : Become(p, state) => proc'[p] = state
  BY <1>1 DEF Become
<1>3. Earliest(proc[p].todo) \subseteq proc[p].todo
  BY DEF Earliest
<1>4. \A x : [proc[p] EXCEPT !.todo = @ \ {x}].pc = proc[p].pc
             /\ [proc[p] EXCEPT !.todo = @ \ {x}].from = proc[p].from
             /\ [proc[p] EXCEPT !.todo = @ \ {x}].todo = proc[p].todo \ {x}
  BY <1>1 DEF ProcState
<1>5. ASSUME NEW x \in proc[p].todo, Become(p, [proc[p] EXCEPT !.todo = @ \ {x}])
      PROVE  DoneWith(proc[p], proc'[p], x)
  BY <1>2, <1>4, <1>5 DEF DoneWith
\* The phases that follow one another.
<1>6. ASSUME NEW state, Become(p, state),
             \/ proc[p].pc = "tip"    /\ state.pc = "list"
             \/ proc[p].pc = "blocks" /\ state.pc = "list"
             \/ proc[p].pc = "list"   /\ state.pc = "check"
             \/ proc[p].pc = "check"  /\ state.pc \in {"stuck", "flag", "done"}
             \/ proc[p].pc = "stuck"  /\ state.pc = "flag"
      PROVE  Begins(proc[p], proc'[p])
  BY <1>2, <1>6, Phases DEF Begins
<1>a. CASE ReadTip(p)
  <2>1. PICK tip \in ReportedTips :
          LET first == FirstHeight(proc[p].lastScannedHeight, tip) IN
            Become(p, IF first <= tip
                        THEN [proc[p] EXCEPT !.pc = "blocks", !.tip = tip, !.from = first]
                        ELSE [proc[p] EXCEPT !.pc = "list", !.tip = tip,
                                             !.lastScannedHeight = tip])
    BY <1>a DEF ReadTip
  <2> DEFINE first == FirstHeight(proc[p].lastScannedHeight, tip)
             scan  == [proc[p] EXCEPT !.pc = "blocks", !.tip = tip, !.from = first]
             skip  == [proc[p] EXCEPT !.pc = "list", !.tip = tip, !.lastScannedHeight = tip]
  <2>2. scan.pc = "blocks" /\ scan.todo = proc[p].todo /\ skip.pc = "list"
    BY <1>1 DEF ProcState
  <2>3. proc[p].pc = "tip" /\ (proc'[p] = scan \/ proc'[p] = skip)
    BY <1>a, <1>2, <2>1 DEF ReadTip
  <2> HIDE DEF scan, skip
  <2> QED
    BY <2>2, <2>3, Phases DEF Begins
<1>b. CASE FetchBatch(p)
  <2>1. PICK hostTip \in ReportedTips :
          Become(p, [proc[p] EXCEPT !.from = @ + ScanBatchSize,
                                    !.todo = BurnsInBlocks(proc[p].from, BatchEnd(p), hostTip)])
    BY <1>b DEF FetchBatch
  <2>2. /\ proc'[p].pc = proc[p].pc
        /\ proc'[p].from = proc[p].from + ScanBatchSize
        /\ proc'[p].todo = BurnsInBlocks(proc[p].from, BatchEnd(p), hostTip)
    BY <1>1, <1>2, <2>1 DEF ProcState
  <2> QED
    BY <1>b, <2>2 DEF FetchBatch, Scanning, Fetches
<1>c. CASE Insert(p)
  BY <1>c, <1>2, <1>3, <1>5 DEF Insert, Ends
<1>d. CASE EndScan(p)
  <2>1. PICK cursor : Become(p, [proc[p] EXCEPT !.pc = "list", !.from = ScanFrom,
                                                !.lastScannedHeight = cursor])
    BY <1>d DEF EndScan
  <2>2. [proc[p] EXCEPT !.pc = "list", !.from = ScanFrom, !.lastScannedHeight = cursor].pc = "list"
    BY <1>1 DEF ProcState
  <2> QED
    BY <1>d, <1>6, <2>1, <2>2 DEF EndScan, Scanning
<1>e. CASE ListForClaims(p) \/ ListForClaimsFails(p)
  <2>1. \A todo, now : [proc[p] EXCEPT !.pc = "check", !.todo = todo, !.now = now].pc = "check"
    BY <1>1 DEF ProcState
  <2> QED
    BY <1>e, <1>6, <2>1 DEF ListForClaims, ListForClaimsFails
<1>f. CASE SeeTombstone(p)
  <2>1. PICK x \in proc[p].todo : Become(p, [proc[p] EXCEPT !.todo = @ \ {x}, !.found = {x}])
    BY <1>f, <1>3 DEF SeeTombstone
  <2>2. /\ proc'[p].pc = proc[p].pc /\ proc'[p].from = proc[p].from
        /\ proc'[p].todo = proc[p].todo \ {x}
    BY <1>1, <1>2, <2>1 DEF ProcState
  <2> QED
    BY <2>2 DEF DoneWith
<1>g. CASE SeeNoTombstone(p) \/ LookupFails(p) \/ MarkStuck(p) \/ MarkStuckFails(p)
  BY <1>g, <1>3, <1>5 DEF SeeNoTombstone, LookupFails, MarkStuck, MarkStuckFails
<1>h. CASE MarkClaimed(p) \/ MarkClaimedFails(p)
  <2>1. /\ proc[p].pc = "check" /\ proc[p].found # {}
        /\ Become(p, [proc[p] EXCEPT !.found = {}])
    BY <1>h DEF MarkClaimed, MarkClaimedFails
  <2>2. /\ proc'[p].pc = proc[p].pc /\ proc'[p].from = proc[p].from
        /\ proc'[p].todo = proc[p].todo /\ proc'[p].found = {}
    BY <1>1, <1>2, <2>1 DEF ProcState
  <2> QED
    BY <2>1, <2>2 DEF DoneWith
<1>i. CASE ReadTipForStuck(p) \/ ReadTipForStuckFails(p)
  <2>1. /\ \A tip : [proc[p] EXCEPT !.pc = "stuck", !.tip = tip, !.now = {}].pc = "stuck"
        /\ [proc[p] EXCEPT !.pc = "done", !.now = {}].pc = "done"
    BY <1>1 DEF ProcState
  <2> QED
    BY <1>i, <1>6, <2>1 DEF ReadTipForStuck, ReadTipForStuckFails, ClaimsChecked
<1>j. CASE ListForStuck(p) \/ ListForStuckFails(p)
  <2>1. \A todo : [proc[p] EXCEPT !.pc = "flag", !.todo = todo, !.now = {}].pc = "flag"
    BY <1>1 DEF ProcState
  <2>2. proc[p].pc \in {"check", "stuck"}
    BY <1>j DEF ListForStuck, ListForStuckFails, AboutToDetect, ClaimsChecked
  <2> QED
    BY <1>j, <1>6, <2>1, <2>2 DEF ListForStuck, ListForStuckFails
<1>k. CASE FetchFails(p) \/ InsertFails(p) \/ EndPass(p) \/ Restart(p)
  BY <1>k, <1>2 DEF FetchFails, InsertFails, EndPass, Restart, Ends
<1> QED
  BY <1>a, <1>b, <1>c, <1>d, <1>e, <1>f, <1>g, <1>h, <1>i, <1>j, <1>k
     DEF ProcessStep, Work, Failure

LEMMA GoesForward ==
  ASSUME TypeOK, NEW p \in Procs, ProcessStep(p)
  PROVE  Ends(p) \/ FurtherOn(proc[p], proc'[p], To(p))
<1>1. proc[p] \in ProcState
  BY DEF TypeOK
<1>2. CASE Begins(proc[p], proc'[p])
  BY <1>2 DEF Begins, FurtherOn
<1>3. CASE Fetches(p)
  BY <1>1, <1>3, TrackerAssumption DEF Fetches, FurtherOn, ProcState
<1>4. ASSUME NEW x, DoneWith(proc[p], proc'[p], x)
      PROVE  FurtherOn(proc[p], proc'[p], To(p))
  BY <1>4 DEF DoneWith, FurtherOn
<1> QED
  BY <1>2, <1>3, <1>4, StepShape

\* No call is made again in a pass: each one, failed or not, brings its end
\* nearer or ends it, for any number of processes and whatever the others do.
THEOREM PassesEnd == Spec => PassesGoForward
<1>1. ASSUME TypeOK, [Next]_vars, NEW p \in Procs
      PROVE  \/ proc'[p] = proc[p]
             \/ FurtherOn(proc[p], proc'[p], To(p))
             \/ proc'[p] \in {Over(p), StartState(p)}
  <2>1. CASE UNCHANGED proc
    BY <2>1
  <2>2. ASSUME NEW q \in Procs, ProcessStep(q)
        PROVE  proc'[p] = proc[p] \/ Ends(p) \/ FurtherOn(proc[p], proc'[p], To(p))
    BY <1>1, <2>2, OthersKept, GoesForward
  <2> QED
    BY <1>1, <2>1, <2>2 DEF Next, Environment, ProcessStep, Ends, vars
<1>2. TypeOK /\ [Next]_vars =>
        [\A p \in Procs : \/ proc'[p] = proc[p]
                          \/ FurtherOn(proc[p], proc'[p], To(p))
                          \/ proc'[p] \in {Over(p), StartState(p)}]_vars
  BY <1>1
<1> QED
  BY <1>2, TypeCorrect, PTL DEF Spec, PassesGoForward

-----------------------------------------------------------------------------
(* Rows and the chain.                                                     *)
(*                                                                         *)
(* While the blocks it has read from stay, what a process is about to      *)
(* insert is mined where it was read, and so is what is recorded.  A valid *)
(* chain burns a commitment once, so the two never collide.                *)

Current(state) ==
  /\ state.pc = "tip" => state.todo = {}
  /\ state.pc = "blocks" => \A x \in state.todo : minedAt[x[1]] = x[2] /\ x[2] # 0

MatchInv ==
  /\ \A b \in Burns : Recorded(claims, b) =>
                       claims[b].burn_height = minedAt[b] /\ minedAt[b] # 0
  /\ \A p \in Procs : Current(proc[p])

\* A burn that is recorded, or that a process is about to insert, keeps its block.
Read(b) ==
  \/ Recorded(claims, b)
  \/ \E p \in Procs : proc[p].pc = "blocks" /\ \E x \in proc[p].todo : x[1] = b

ReadBurnsStay == \A b \in Burns : Read(b) => minedAt'[b] = minedAt[b]

LEMMA MatchMeans ==
  ASSUME TypeOK, ValidChain(minedAt), MatchInv
  PROVE  RowsAgree
<1>1. ASSUME NEW p \in Procs, proc[p].pc = "blocks", NEW x \in proc[p].todo
      PROVE  ~InsertConflicts(claims, x[1])
  <2>1. x[1] \in Burns /\ minedAt[x[1]] # 0
    BY <1>1 DEF TypeOK, ProcState, Items, MatchInv, Current
  <2>2. \A other \in Burns : Recorded(claims, other) => minedAt[other] # 0
    BY DEF MatchInv
  <2> QED
    BY <2>1, <2>2 DEF InsertConflicts, CommitmentTaken, ValidChain
<1> QED
  BY <1>1 DEF RowsAgree, MatchInv

LEMMA ValidStep ==
  ASSUME TypeOK, ValidChain(minedAt), [Next]_vars
  PROVE  ValidChain(minedAt)'
<1>1. CASE minedAt' = minedAt
  BY <1>1 DEF ValidChain
<1>2. CASE minedAt' # minedAt
  <2>1. LayerNext /\ ~ClaimOnL2
    BY <1>2, ProcessFrame
       DEF Next, Environment, ProcessStep, vars, layerVars, ClaimOnL2
  <2> QED
    BY <2>1 DEF LayerNext, MineBlock, Reorganise
<1> QED
  BY <1>1, <1>2

\* What a process gets in hand is mined where it was read.
LEMMA CurrentStep ==
  ASSUME TypeOK, NEW p \in Procs, ProcessStep(p), Current(proc[p])
  PROVE  Current(proc[p])'
<1>1. minedAt' = minedAt /\ proc[p] \in ProcState
  BY ProcessFrame DEF layerVars, TypeOK
<1>2. CASE Ends(p)
  <2>1. Over(p).todo = {} /\ StartState(p).todo = {}
    BY DEF Over, StartState
  <2> QED
    BY <1>2, <2>1 DEF Ends, Current
<1>3. CASE Begins(proc[p], proc'[p])
  <2>1. proc'[p].pc # "tip"
    BY <1>1, <1>3, Phases DEF Begins, ProcState
  <2> QED
    BY <1>1, <1>3, <2>1 DEF Begins, Current
<1>4. CASE Fetches(p)
  BY <1>1, <1>4 DEF Fetches, BurnsInBlocks, Current
<1>5. ASSUME NEW x, DoneWith(proc[p], proc'[p], x)
      PROVE  Current(proc[p])'
  BY <1>1, <1>5 DEF DoneWith, Current
<1> QED
  BY <1>2, <1>3, <1>4, <1>5, StepShape

\* A row that is new is one the process had in hand.
LEMMA NewRows ==
  ASSUME TypeOK, NEW p \in Procs, ProcessStep(p), NEW b \in Burns,
         Recorded(claims', b), ~Recorded(claims, b)
  PROVE  /\ proc[p].pc = "blocks"
         /\ <<b, claims'[b].burn_height>> \in proc[p].todo
<1>1. proc[p] \in ProcState /\ tombstones \in SUBSET Commitments
  BY DEF TypeOK, LayerTypeOK
<1>2. \A x \in proc[p].todo \cup proc[p].found :
        x = <<x[1], x[2]>> /\ x[1] \in Burns /\ x[2] \in Nat
        /\ CommitmentOf[x[1]] \in Commitments
  BY <1>1, CommitmentAssumption DEF ProcState, Items
<1>3. Earliest(proc[p].todo) \subseteq proc[p].todo
  BY DEF Earliest
<1>4. ~UNCHANGED claims
  OBVIOUS
<1>a. CASE Insert(p)
  <2>1. PICK x \in proc[p].todo : claims' = InsertPendingBurnClaim(claims, x[1], x[2])
    BY <1>a, <1>3, <1>4 DEF Insert
  <2> DEFINE k == x[1]
             h == x[2]
  <2>2. k \in Burns /\ h \in Nat /\ x = <<k, h>> /\ claims' = InsertPendingBurnClaim(claims, k, h)
    BY <1>2, <2>1
  <2> HIDE DEF k, h
  <2>3. /\ \A c \in Burns : c # k \/ Recorded(claims, k) => claims'[c] = claims[c]
        /\ ~Recorded(claims, k) => claims'[k] = [status |-> "pending", burn_height |-> h,
                                                claimed_at |-> {}]
    BY <2>2, InsertRows
  <2>4. b = k
    BY <2>3 DEF Recorded
  <2>5. claims'[b].burn_height = h
    BY <2>3, <2>4
  <2> QED
    BY <1>a, <2>2, <2>4, <2>5 DEF Insert
<1>b. CASE MarkClaimed(p)
  <2>1. PICK x \in proc[p].found : claims' = MarkBurnClaimed(claims, CommitmentOf[x[1]], proc[p].now)
    BY <1>b DEF MarkClaimed
  <2>2. CommitmentOf[x[1]] \in Commitments /\ proc[p].now \in SUBSET Commitments
    BY <1>1, <1>2 DEF ProcState
  <2>3. \/ claims'[b] = claims[b]
        \/ claims[b].status \in {"pending", "stuck"}
    BY <2>1, <2>2, MarkClaimedRows
  <2> QED
    BY <2>3 DEF Recorded
<1>c. CASE MarkStuck(p)
  <2>1. PICK x \in proc[p].todo : claims' = MarkBurnStuck(claims, x[1])
    BY <1>c, <1>3 DEF MarkStuck
  <2>2. \A c \in Burns : c # x[1] \/ claims[x[1]].status # "pending" => claims'[c] = claims[c]
    BY <1>2, <2>1, MarkStuckRows
  <2> QED
    BY <2>2 DEF Recorded
<1>d. CASE ~(Insert(p) \/ MarkClaimed(p) \/ MarkStuck(p))
  BY <1>4, <1>d, TableFrame
<1> QED
  BY <1>a, <1>b, <1>c, <1>d

LEMMA MatchStep ==
  ASSUME TypeOK, MatchInv, [Next]_vars, ReadBurnsStay
  PROVE  MatchInv'
<1>1. CASE UNCHANGED <<claims, proc>>
  <2>1. ASSUME NEW b \in Burns, Recorded(claims, b)
        PROVE  minedAt'[b] = minedAt[b]
    BY <2>1 DEF ReadBurnsStay, Read
  <2>2. ASSUME NEW p \in Procs
        PROVE  Current(proc[p])'
    <3>1. Current(proc[p]) /\ proc[p] \in ProcState
      BY DEF MatchInv, TypeOK
    <3>2. \A x \in proc[p].todo : x[1] \in Burns
      BY <3>1 DEF ProcState, Items
    <3> QED
      BY <1>1, <3>1, <3>2 DEF Current, ReadBurnsStay, Read
  <2> QED
    BY <1>1, <2>1, <2>2 DEF MatchInv, Recorded
<1>2. ASSUME NEW p \in Procs, ProcessStep(p)
      PROVE  MatchInv'
  <2>1. minedAt' = minedAt /\ RowsStay
    BY <1>2, ProcessFrame, RowsStayStep DEF layerVars
  <2>2. ASSUME NEW q \in Procs
        PROVE  Current(proc[q])'
    <3>1. Current(proc[q])
      BY DEF MatchInv
    <3>2. CASE q = p
      BY <1>2, <3>1, <3>2, CurrentStep
    <3>3. CASE q # p
      <4>1. proc'[q] = proc[q]
        BY <1>2, <3>3, OthersKept
      <4> QED
        BY <2>1, <3>1, <4>1 DEF Current
    <3> QED
      BY <3>2, <3>3
  <2>3. ASSUME NEW b \in Burns, Recorded(claims', b)
        PROVE  claims'[b].burn_height = minedAt'[b] /\ minedAt'[b] # 0
    <3>1. CASE Recorded(claims, b)
      BY <2>1, <3>1 DEF RowsStay, MatchInv
    <3>2. CASE ~Recorded(claims, b)
      <4>1. proc[p].pc = "blocks" /\ <<b, claims'[b].burn_height>> \in proc[p].todo
        BY <1>2, <2>3, <3>2, NewRows
      <4>2. minedAt[b] = claims'[b].burn_height /\ claims'[b].burn_height # 0
        BY <4>1 DEF MatchInv, Current
      <4> QED
        BY <2>1, <4>2
    <3> QED
      BY <3>1, <3>2
  <2> QED
    BY <2>2, <2>3 DEF MatchInv, Recorded
<1> QED
  BY <1>1, <1>2 DEF Next, Environment, ProcessStep, vars

LEMMA MatchInit == Init => ValidChain(minedAt) /\ MatchInv
<1> SUFFICES ASSUME Init PROVE ValidChain(minedAt) /\ MatchInv
  OBVIOUS
<1>1. \A b \in Burns : ~Recorded(claims, b)
  BY DEF Init, EmptyTable, NoRow, Recorded
<1>2. \A p \in Procs : Current(proc[p])
  BY DEF Init, StartState, Current
<1> QED
  BY <1>1, <1>2 DEF Init, LayerInit, MatchInv

\* If no reorganisation moves a burn that has been read, then each row's height is
\* its burn's and no insert is refused for good: what stalls a follower
\* (InsertPendingBurnClaim) is such a reorganisation and nothing else, whichever
\* base nodes answer, whatever fails and however many processes write the table.
THEOREM RowsAreCurrent == Spec /\ [][ReadBurnsStay]_vars => []RowsAgree
<1>1. TypeOK /\ MatchInv /\ [Next]_vars /\ [ReadBurnsStay]_vars => MatchInv'
  <2>1. TypeOK /\ MatchInv /\ UNCHANGED vars => MatchInv'
    BY DEF MatchInv, Current, Recorded, vars, layerVars
  <2> QED
    BY <2>1, MatchStep
<1>2. TypeOK /\ ValidChain(minedAt) /\ [Next]_vars => ValidChain(minedAt)'
  BY ValidStep
<1>3. TypeOK /\ ValidChain(minedAt) /\ MatchInv => RowsAgree
  BY MatchMeans
<1> QED
  BY <1>1, <1>2, <1>3, MatchInit, TypeCorrect, PTL DEF Spec

\* Blocks change by reorganisations only.
LEMMA ReadBurnsStayAtFirst ==
  ASSUME TypeOK, MatchInv, [Next]_vars, reorgs' = 0
  PROVE  reorgs = 0 /\ ReadBurnsStay
<1>1. minedAt \in [Burns -> Nat] /\ reorgs \in Nat
  BY DEF TypeOK, LayerTypeOK
<1>2. \A b \in Burns : Read(b) => minedAt[b] # 0
  <2>1. ASSUME NEW b \in Burns, NEW p \in Procs, proc[p].pc = "blocks",
               NEW x \in proc[p].todo, x[1] = b
        PROVE  minedAt[b] # 0
    BY <2>1 DEF MatchInv, Current
  <2> QED
    BY <2>1 DEF Read, MatchInv
<1>3. CASE UNCHANGED layerVars
  BY <1>3 DEF layerVars, ReadBurnsStay
<1>4. CASE LayerNext
  <2>1. ~Reorganise
    BY <1>1 DEF Reorganise
  <2>2. reorgs' = reorgs /\ \A b \in Burns : minedAt[b] # 0 => minedAt'[b] = minedAt[b]
    BY <1>1, <1>4, <2>1 DEF LayerNext, MineBlock, ClaimOnL2
  <2> QED
    BY <1>2, <2>2 DEF ReadBurnsStay
<1> QED
  BY <1>3, <1>4, ProcessFrame DEF Next, Environment, ProcessStep, vars

\* Until the first reorganisation the rows agree with the chain, and no insert
\* meets another kernel's row (InsertPendingBurnClaim).
THEOREM RowsAgreeUntilReorg == Spec => []RowsMatchChain
<1> DEFINE Before == reorgs = 0 => MatchInv
<1>1. Init => Before
  BY MatchInit
<1>2. TypeOK /\ Before /\ [Next]_vars => Before'
  <2> SUFFICES ASSUME TypeOK, Before, [Next]_vars, reorgs' = 0
               PROVE  MatchInv'
    BY DEF Before
  <2>1. reorgs = 0
    <3>1. CASE UNCHANGED layerVars
      BY <3>1 DEF layerVars
    <3>2. CASE LayerNext
      BY <3>2 DEF LayerNext, MineBlock, Reorganise, ClaimOnL2, TypeOK, LayerTypeOK
    <3> QED
      BY <3>1, <3>2, ProcessFrame DEF Next, Environment, ProcessStep, vars
  <2> QED
    BY <2>1, ReadBurnsStayAtFirst, MatchStep
<1>3. TypeOK /\ ValidChain(minedAt) /\ Before => RowsMatchChain
  BY MatchMeans DEF RowsMatchChain
<1>4. TypeOK /\ ValidChain(minedAt) /\ [Next]_vars => ValidChain(minedAt)'
  BY ValidStep
<1> QED
  BY <1>1, <1>2, <1>3, <1>4, MatchInit, TypeCorrect, PTL DEF Spec

=============================================================================
