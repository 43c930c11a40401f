---------------------------- MODULE BurnTracker ----------------------------
(***************************************************************************)
(* internal/burnclaim and cmd/burnclaim: processes that scan L1 blocks for *)
(* burns, look each pending burn's tombstone up on L2, and flag old burns  *)
(* 'stuck'.  A process runs Tracker.Follow (a loop of ticks) or            *)
(* Tracker.Scan (one pass over a fixed range).  They share nothing but the *)
(* burn_claims table, so a step is one call to L1, the indexer or the      *)
(* database, and any process, the chain and the L2 may move in between.    *)
(*                                                                         *)
(* A call that fails is an action of its own, up to MaxFaults of them; a   *)
(* failing GetTipInfo makes Follow retry from the same state, which is a   *)
(* stuttering step.  A process that is killed and started again loses      *)
(* everything but the table (Restart, up to MaxRestarts times).            *)
(***************************************************************************)
EXTENDS BaseLayer

CONSTANTS
  Followers, Scanners,   \* processes in -mode=follow and in -mode=scan
  StartHeight,           \* -start-height of the followers
  ScanFrom, ScanTo,      \* -from-height and -to-height of the scanners
  ScanBatchSize,         \* heights per GetBlockByHeight call
  ExtraStuckBlocks,      \* -extra-stuck-blocks
  MaxRestarts,           \* bound: process restarts
  MaxFaults              \* bound: failed calls

ASSUME TrackerAssumption ==
  /\ {StartHeight, ScanFrom, ScanTo, ExtraStuckBlocks, MaxRestarts, MaxFaults} \subseteq Nat
  /\ ScanBatchSize \in Nat \ {0}
  /\ ScanFrom # 0 /\ ScanTo # 0
  /\ Followers \cap Scanners = {}

Procs == Followers \cup Scanners

VARIABLES
  claims,     \* the burn_claims table
  proc,       \* each process's control point and local variables
  covered,    \* history: heights whose scan a follower has completed
  restarts,
  faults

vars == <<layerVars, claims, proc, covered, restarts, faults>>

(***************************************************************************)
(* Where a process can be between two calls:                               *)
(*   "tip"     Follow, about to ask for the tip                            *)
(*   "blocks"  in scanRange: todo holds fetched burns not yet inserted     *)
(*   "list"    about to list the pending rows in CheckClaims               *)
(*   "check"   in CheckClaims' loop: todo holds the rows still to look up, *)
(*             found the one whose tombstone was just seen                 *)
(*   "stuck"   Scan, about to list the pending rows in DetectStuck         *)
(*   "flag"    in DetectStuck's loop: todo holds the overdue rows          *)
(*   "done"    Scan has returned                                           *)
(***************************************************************************)
Items == Burns \X Nat

ProcState == [pc                : {"tip", "blocks", "list", "check", "stuck", "flag", "done"},
              lastScannedHeight : Nat,
              tip               : Nat,
              from              : Nat,
              todo              : SUBSET Items,
              found             : SUBSET Items,
              now               : SUBSET Commitments]

StartState(p) == [pc                |-> IF p \in Followers THEN "tip" ELSE "blocks",
                  lastScannedHeight |-> StartHeight,
                  tip               |-> 0,
                  from              |-> ScanFrom,
                  todo              |-> {},
                  found             |-> {},
                  now               |-> {}]

Init ==
  /\ LayerInit
  /\ claims = EmptyTable
  /\ proc = [p \in Procs |-> StartState(p)]
  /\ covered = [p \in Followers |-> {}]
  /\ restarts = 0
  /\ faults = 0

-----------------------------------------------------------------------------
\* The last height of the range a process scans.
To(p) == IF p \in Followers THEN proc[p].tip ELSE ScanTo

\* Mutants: uint64 underflow on a short chain; a tick taken to bring one block.
FirstHeight_Underflows(cursor, tip) ==
  IF cursor # 0 THEN cursor + 1 ELSE tip - ScanBatchSize + 1

FirstHeight_TipOnly(cursor, tip) == IF cursor # 0 THEN tip ELSE 1

\* The first height of a tick: past the cursor, or the last ScanBatchSize
\* blocks when there is no cursor yet.
FirstHeight(cursor, tip) ==
  IF cursor # 0 THEN cursor + 1
  ELSE IF tip > ScanBatchSize THEN tip - ScanBatchSize + 1
  ELSE 1

\* Mutant: a half-open batch.
BatchEnd_HalfOpen(p) ==
  LET end == proc[p].from + ScanBatchSize - 2 IN IF end > To(p) THEN To(p) ELSE end

\* The last height of the batch that starts at from.
BatchEnd(p) ==
  LET end == proc[p].from + ScanBatchSize - 1 IN IF end > To(p) THEN To(p) ELSE end

\* Rows, and the burns of successive blocks, are taken in height order.
Earliest(items) == {x \in items : \A y \in items : x[2] <= y[2]}

StuckThreshold == ConfirmationLag + ExtraStuckBlocks

\* Mutants: flagged one block early; the lag counted twice.
IsStuck_Early(burnHeight, tip) == tip > burnHeight /\ tip - burnHeight >= StuckThreshold

IsStuck_LagTwice(burnHeight, tip) ==
  tip > burnHeight /\ tip - burnHeight > StuckThreshold + ConfirmationLag

IsStuck(burnHeight, tip) == tip > burnHeight /\ tip - burnHeight > StuckThreshold

Become(p, state) == proc' = [proc EXCEPT ![p] = state]

\* Mutant: each tick starts from -start-height again.
Over_ForgetsCursor(p) == [StartState(p) EXCEPT !.pc = IF p \in Followers THEN "tip" ELSE "done"]

\* What is left of a tick or of a scan when it is over, and also when an error
\* ends it early: Follow keeps its cursor for the next tick, Scan exits.
Over(p) == [StartState(p) EXCEPT !.pc = IF p \in Followers THEN "tip" ELSE "done",
                                 !.lastScannedHeight = proc[p].lastScannedHeight]

Fault == faults < MaxFaults /\ faults' = faults + 1

NoFault == UNCHANGED faults

-----------------------------------------------------------------------------
(* followTick: the tip, and the range to scan *)

ReadTip(p) ==
  /\ p \in Followers
  /\ proc[p].pc = "tip"
  /\ \E tip \in ReportedTips :
       LET first == FirstHeight(proc[p].lastScannedHeight, tip) IN
         Become(p, IF first <= tip
                     THEN [proc[p] EXCEPT !.pc = "blocks", !.tip = tip, !.from = first]
                     ELSE [proc[p] EXCEPT !.pc = "list", !.tip = tip,
                                          !.lastScannedHeight = tip])
  /\ UNCHANGED <<layerVars, claims, covered, restarts>> /\ NoFault

(* scanRange: batches of blocks, and the burns of each *)

Scanning(p) == proc[p].pc = "blocks" /\ proc[p].todo = {}

FetchBatch(p) ==
  /\ Scanning(p)
  /\ proc[p].from <= To(p)
  /\ \E hostTip \in ReportedTips :
       Become(p, [proc[p] EXCEPT !.from = @ + ScanBatchSize,
                                 !.todo = BurnsInBlocks(proc[p].from, BatchEnd(p), hostTip)])
  /\ UNCHANGED <<layerVars, claims, covered, restarts>> /\ NoFault

\* GetBlockByHeight fails on every host; blocks already received are dropped with
\* the batch.
FetchFails(p) ==
  /\ Scanning(p)
  /\ proc[p].from <= To(p)
  /\ Become(p, Over(p))
  /\ UNCHANGED <<layerVars, claims, covered, restarts>> /\ Fault

Insert(p) ==
  /\ proc[p].pc = "blocks"
  /\ \E x \in Earliest(proc[p].todo) :
       IF InsertConflicts(claims, x[1])
         THEN /\ Become(p, Over(p))
              /\ UNCHANGED claims
         ELSE /\ Become(p, [proc[p] EXCEPT !.todo = @ \ {x}])
              /\ claims' = InsertPendingBurnClaim(claims, x[1], x[2])
  /\ UNCHANGED <<layerVars, covered, restarts>> /\ NoFault

InsertFails(p) ==
  /\ proc[p].pc = "blocks"
  /\ proc[p].todo # {}
  /\ Become(p, Over(p))
  /\ UNCHANGED <<layerVars, claims, covered, restarts>> /\ Fault

\* The range is done: Follow's cursor moves to the tip.
EndScan(p) ==
  /\ Scanning(p)
  /\ proc[p].from > To(p)
  /\ Become(p, [proc[p] EXCEPT !.pc = "list",
                               !.from = ScanFrom,
                               !.lastScannedHeight = IF p \in Followers THEN proc[p].tip ELSE @])
  /\ covered' = [f \in Followers |->
                   IF f = p THEN covered[p] \cup
                                 (FirstHeight(proc[p].lastScannedHeight, proc[p].tip)..proc[p].tip)
                            ELSE covered[f]]
  /\ UNCHANGED <<layerVars, claims, restarts>> /\ NoFault

-----------------------------------------------------------------------------
(* CheckClaims *)

ListForClaims(p) ==
  /\ proc[p].pc = "list"
  /\ Become(p, [proc[p] EXCEPT !.pc   = "check",
                               !.todo = ListBurnClaimsByStatus(claims, "pending"),
                               !.now  = tombstones])
  /\ UNCHANGED <<layerVars, claims, covered, restarts>> /\ NoFault

\* The error is logged, and the pass goes on to stuck-detection.
ListForClaimsFails(p) ==
  /\ proc[p].pc = "list"
  /\ Become(p, [proc[p] EXCEPT !.pc = "check", !.todo = {}, !.now = {}])
  /\ UNCHANGED <<layerVars, claims, covered, restarts>> /\ Fault

\* Mutant: any answer counts as a claim.
TombstoneExists_AnyAnswer(x) == x = x

\* GetSubstate answers 200 for the row's tombstone address, and not 404.
TombstoneExists(x) == CommitmentOf[x[1]] \in tombstones

\* The tombstone exists: the row is to be marked.
SeeTombstone(p) ==
  /\ proc[p].pc = "check"
  /\ proc[p].found = {}
  /\ \E x \in Earliest(proc[p].todo) :
       /\ TombstoneExists(x)
       /\ Become(p, [proc[p] EXCEPT !.todo = @ \ {x}, !.found = {x}])
  /\ UNCHANGED <<layerVars, claims, covered, restarts>> /\ NoFault

\* GetSubstate answers 404, which CheckClaims takes for "not claimed yet".
SeeNoTombstone(p) ==
  /\ proc[p].pc = "check"
  /\ proc[p].found = {}
  /\ \E x \in Earliest(proc[p].todo) :
       /\ ~TombstoneExists(x)
       /\ Become(p, [proc[p] EXCEPT !.todo = @ \ {x}])
  /\ UNCHANGED <<layerVars, claims, covered, restarts>> /\ NoFault

\* Any other error of the request, or an indexer that has not seen the claim: the
\* row is skipped.
LookupFails(p) ==
  /\ proc[p].pc = "check"
  /\ proc[p].found = {}
  /\ \E x \in Earliest(proc[p].todo) : Become(p, [proc[p] EXCEPT !.todo = @ \ {x}])
  /\ UNCHANGED <<layerVars, claims, covered, restarts>> /\ Fault

MarkClaimed(p) ==
  /\ proc[p].pc = "check"
  /\ \E x \in proc[p].found :
       claims' = MarkBurnClaimed(claims, CommitmentOf[x[1]], proc[p].now)
  /\ Become(p, [proc[p] EXCEPT !.found = {}])
  /\ UNCHANGED <<layerVars, covered, restarts>> /\ NoFault

MarkClaimedFails(p) ==
  /\ proc[p].pc = "check"
  /\ proc[p].found # {}
  /\ Become(p, [proc[p] EXCEPT !.found = {}])
  /\ UNCHANGED <<layerVars, claims, covered, restarts>> /\ Fault

ClaimsChecked(p) == proc[p].pc = "check" /\ proc[p].todo = {} /\ proc[p].found = {}

-----------------------------------------------------------------------------
(* DetectStuck: against the tick's own tip in Follow, a new one in Scan *)

ReadTipForStuck(p) ==
  /\ p \in Scanners
  /\ ClaimsChecked(p)
  /\ \E tip \in ReportedTips :
       Become(p, [proc[p] EXCEPT !.pc = "stuck", !.tip = tip, !.now = {}])
  /\ UNCHANGED <<layerVars, claims, covered, restarts>> /\ NoFault

ReadTipForStuckFails(p) ==
  /\ p \in Scanners
  /\ ClaimsChecked(p)
  /\ Become(p, [proc[p] EXCEPT !.pc = "done", !.now = {}])
  /\ UNCHANGED <<layerVars, claims, covered, restarts>> /\ Fault

AboutToDetect(p) == IF p \in Followers THEN ClaimsChecked(p) ELSE proc[p].pc = "stuck"

ListForStuck(p) ==
  /\ AboutToDetect(p)
  /\ Become(p, [proc[p] EXCEPT !.pc   = "flag",
                               !.todo = {x \in ListBurnClaimsByStatus(claims, "pending") :
                                           IsStuck(x[2], proc[p].tip)},
                               !.now  = {}])
  /\ UNCHANGED <<layerVars, claims, covered, restarts>> /\ NoFault

ListForStuckFails(p) ==
  /\ AboutToDetect(p)
  /\ Become(p, [proc[p] EXCEPT !.pc = "flag", !.todo = {}, !.now = {}])
  /\ UNCHANGED <<layerVars, claims, covered, restarts>> /\ Fault

MarkStuck(p) ==
  /\ proc[p].pc = "flag"
  /\ \E x \in Earliest(proc[p].todo) :
       /\ claims' = MarkBurnStuck(claims, x[1])
       /\ Become(p, [proc[p] EXCEPT !.todo = @ \ {x}])
  /\ UNCHANGED <<layerVars, covered, restarts>> /\ NoFault

MarkStuckFails(p) ==
  /\ proc[p].pc = "flag"
  /\ \E x \in Earliest(proc[p].todo) : Become(p, [proc[p] EXCEPT !.todo = @ \ {x}])
  /\ UNCHANGED <<layerVars, claims, covered, restarts>> /\ Fault

\* Follow waits out its poll interval, Scan returns.
EndPass(p) ==
  /\ proc[p].pc = "flag"
  /\ proc[p].todo = {}
  /\ Become(p, Over(p))
  /\ UNCHANGED <<layerVars, claims, covered, restarts>> /\ NoFault

-----------------------------------------------------------------------------
\* A process dies, wherever it is, and is started again with the same flags.
Restart(p) ==
  /\ restarts < MaxRestarts
  /\ restarts' = restarts + 1
  /\ Become(p, StartState(p))
  /\ UNCHANGED <<layerVars, claims, covered>> /\ NoFault

Environment == LayerNext /\ UNCHANGED <<claims, proc, covered, restarts, faults>>

\* What the program does when the calls it makes succeed.
Work(p) ==
  \/ ReadTip(p)       \/ FetchBatch(p)   \/ Insert(p)          \/ EndScan(p)
  \/ ListForClaims(p) \/ SeeTombstone(p) \/ SeeNoTombstone(p)  \/ MarkClaimed(p)
  \/ ReadTipForStuck(p) \/ ListForStuck(p) \/ MarkStuck(p)     \/ EndPass(p)

Failure(p) ==
  \/ FetchFails(p)  \/ InsertFails(p)      \/ ListForClaimsFails(p)
  \/ LookupFails(p) \/ MarkClaimedFails(p) \/ ReadTipForStuckFails(p)
  \/ ListForStuckFails(p) \/ MarkStuckFails(p)

Next == Environment \/ \E p \in Procs : Work(p) \/ Failure(p) \/ Restart(p)

Spec == Init /\ [][Next]_vars

(***************************************************************************)
(* A process that can make a call makes it: the loops have no condition to *)
(* wait for but their poll interval.  That failures do not go on for ever  *)
(* is an assumption on the environment, and is what MaxFaults says.        *)
(***************************************************************************)
Fairness == \A p \in Procs : WF_vars(Work(p))

FairSpec == Spec /\ Fairness

-----------------------------------------------------------------------------
(* Safety *)

\* Every variable has its type.
TypeOK ==
  /\ LayerTypeOK
  /\ claims \in [Burns -> Row]
  /\ proc \in [Procs -> ProcState]
  /\ covered \in [Followers -> SUBSET Nat]
  /\ restarts \in Nat
  /\ faults \in Nat

\* A burn is shown as claimed only if its tombstone exists on L2, although the
\* answer was read one call before the row is written (CheckClaims) and other
\* processes were writing the table meanwhile.
ClaimedHasTombstone ==
  \A b \in Burns : claims[b].status = "claimed" => CommitmentOf[b] \in tombstones

\* A burn is shown as stuck only once the chain is past its height by more than
\* the confirmation lag and the margin, however stale the tip a tick began with
\* and whichever base node reported it (DetectStuck, IsStuck).
StuckWasOverdue ==
  \A b \in Burns : claims[b].status = "stuck" =>
                      bestHeight - claims[b].burn_height > StuckThreshold

\* No two rows hold the same commitment, so a claim, which is looked up by
\* commitment, is written to the one row it belongs to (the UNIQUE constraint).
OneRowPerCommitment ==
  \A b, c \in Burns : b # c /\ Recorded(claims, b) /\ Recorded(claims, c)
                        => CommitmentOf[b] # CommitmentOf[c]

\* What a process read and has not used yet is still true when it uses it,
\* whatever other processes, the chain and the L2 did since: the tombstone of
\* the row to mark exists, the moment it will write is past, its tip is not
\* ahead of the chain, and the rows it found overdue are recorded and overdue.
OverdueRow(x) ==
  /\ x[1] \in Burns
  /\ Recorded(claims, x[1])
  /\ claims[x[1]].burn_height = x[2]
  /\ bestHeight - x[2] > StuckThreshold

HeldBy(state) ==
  /\ \A x \in state.found : CommitmentOf[x[1]] \in tombstones
  /\ state.now \subseteq tombstones
  /\ state.tip <= bestHeight
  /\ state.pc = "flag" => \A x \in state.todo : OverdueRow(x)

HeldFactsStable == \A p \in Procs : HeldBy(proc[p])

\* The table keeps the tracker's promise (BurnLifecycle): no interleaving of
\* passes, stale list of pending rows, failed call or restart takes a row
\* backwards, moves its height or rewrites claimed_at.
Lifecycle == INSTANCE BurnLifecycle WITH
               Burns <- Burns, Commitments <- Commitments, CommitmentOf <- CommitmentOf,
               claims <- claims, tombstones <- tombstones
KeepsLifecycle == Lifecycle!Spec

\* A height whose scan a follower has completed holds no unrecorded burn: its
\* cursor never passes a burn, whatever fails mid-scan and whenever it restarts
\* (followTick moves lastScannedHeight only after scanRange returns no error).  So
\* where base nodes are at the tip (HostLag = 0) and no block is replaced: README,
\* section 6.
CoveredBurnsRecorded ==
  \A p \in Followers, b \in Burns :
    minedAt[b] \in covered[p] => Recorded(claims, b)

\* The heights a follower has covered leave no gap between the first and the
\* last (burnclaim.go, lastScannedHeight), when -start-height is given: README,
\* section 6.
CoverageContiguous ==
  \A p \in Followers : \A low, high \in covered[p] : low..high \subseteq covered[p]

\* Until the chain reorganises, a row's height is the height its burn is mined at,
\* and no insert a process has still to make meets another kernel's row: the error
\* that ends every later tick (rows.go, InsertPendingBurnClaim) needs a fork, not
\* two trackers, a restart or a base node that lags.
RowsAgree ==
  /\ \A b \in Burns : Recorded(claims, b) => claims[b].burn_height = minedAt[b]
  /\ \A p \in Procs : proc[p].pc = "blocks" =>
       \A x \in proc[p].todo : ~InsertConflicts(claims, x[1])

RowsMatchChain == reorgs = 0 => RowsAgree

(***************************************************************************)
(* Where a process stands in its pass, from the start of a tick to its     *)
(* end.  In one phase it fetches the next batch, or has fewer rows left to *)
(* insert, look up or flag.                                                *)
(***************************************************************************)
PhaseOf == [tip |-> 0, blocks |-> 1, list |-> 2, check |-> 3, stuck |-> 4, flag |-> 5, done |-> 6]

FurtherOn(old, new, to) ==
  \/ PhaseOf[old.pc] < PhaseOf[new.pc]
  \/ /\ new.pc = old.pc
     /\ \/ old.from <= to /\ old.from < new.from
        \/ new.from = old.from /\ new.todo \subseteq old.todo /\ new.todo # old.todo
        \/ /\ new.from = old.from /\ new.todo = old.todo
           /\ new.found \subseteq old.found /\ new.found # old.found

\* No call is made again in a pass: each one, failed or not, brings its end
\* nearer, or ends it, or the process is started again (followTick, Scan).
PassesGoForward ==
  [][\A p \in Procs :
       \/ proc'[p] = proc[p]
       \/ FurtherOn(proc[p], proc'[p], To(p))
       \/ proc'[p] \in {Over(p), StartState(p)}]_vars

-----------------------------------------------------------------------------
(* Liveness, under FairSpec *)

\* Every burn above -start-height that stays on the chain is recorded in the end.
EveryBurnRecorded ==
  \A b \in Burns : <>[](minedAt[b] > StartHeight => Recorded(claims, b))

\* When the chain stops growing the cursor reaches the tip: no state of the
\* table makes every later tick fail.
FollowCatchesUp ==
  \A p \in Followers : <>[](proc[p].lastScannedHeight = bestHeight)

\* A pending row that the L2 has claimed, or that is overdue, does not stay
\* pending.
PendingResolves ==
  \A b \in Burns :
    /\ claims[b].status = "pending"
    /\ \/ CommitmentOf[b] \in tombstones
       \/ bestHeight > claims[b].burn_height + StuckThreshold
    ~> claims[b].status # "pending"

\* A recorded burn that the L2 has claimed is shown as claimed in the end
\* (home.html: a stuck burn has "no matching L2 claim").  Not so: README, section 6.
ClaimsShownInTheEnd ==
  \A b \in Burns :
    Recorded(claims, b) /\ CommitmentOf[b] \in tombstones ~> claims[b].status = "claimed"

=============================================================================
