-------------------------- MODULE ValidatorRoster --------------------------
(***************************************************************************)
(* The two writers of the validators table and the reader of its summary.  *)
(*                                                                         *)
(* cmd/explorer (Explorer.syncValidators): one request for the indexer's   *)
(* current roster, then one upsert per validator in it.                    *)
(*                                                                         *)
(* cmd/vnhealth (VNHealth.Poll): for each configured validator node in     *)
(* turn, its identity, its consensus status, its epoch manager's stats,    *)
(* the upsert of its own row and then one upsert for every other validator *)
(* of the epoch.  A failing get_identity or upsert of the own row ends the *)
(* endpoint's turn; any other failing call is skipped.                     *)
(*                                                                         *)
(* cmd/server (DB.GetLiveValidatorEpochSummary): two queries.              *)
(*                                                                         *)
(* The indexer and the nodes follow the L2's epochs, each at its own pace; *)
(* they are external.  The roster of an epoch, and the shard groups in it, *)
(* are the same for whoever reports them.                                  *)
(***************************************************************************)
EXTENDS ValidatorsTable, Sequences

CONSTANTS
  Endpoints,      \* the validators of the configured JSON-RPC URLs, in order
  Unreachable,    \* those whose node never answers
  MaxEpoch,       \* bound: the last epoch
  RosterAt,       \* the validators registered in each epoch
  ShardGroupAt,   \* the shard group of each validator in each epoch
  MaxFaults       \* bound: restarts, and failed calls but those to Unreachable nodes

Epochs == 1..MaxEpoch

ASSUME RosterAssumption ==
  /\ {MaxEpoch, MaxFaults} \subseteq Nat
  /\ MaxEpoch # 0
  /\ Endpoints \in Seq(Validators) /\ Endpoints # <<>>
  /\ Unreachable \subseteq Validators
  /\ RosterAt \in [Epochs -> SUBSET Validators]
  /\ ShardGroupAt \in [Epochs -> [Validators -> ShardGroups]]

VARIABLES
  indexerEpoch,   \* the epoch the indexer is in
  nodeEpoch,      \* the epoch each validator's node is in
  validators,     \* the table
  explorer,       \* cmd/explorer's control point and local variables
  vnhealth,       \* cmd/vnhealth's
  server,         \* the epoch the summary's first query gave, if it is done
  reported,       \* history: the consensus states each node has reported
  faults

vars == <<indexerEpoch, nodeEpoch, validators, explorer, vnhealth, server, reported,
          faults>>

\* The validators whose nodes are asked and answer.
Polled == {Endpoints[i] : i \in 1..Len(Endpoints)} \ Unreachable

views == <<indexerEpoch, nodeEpoch>>

(***************************************************************************)
(* explorer: "list", about to ask for the roster; "upsert", todo holds the *)
(* validators still to write.                                              *)
(* vnhealth: the next call of pollOne for the endpoint number at; known is *)
(* knownEpoch, health the row to write, todo the other validators to write.*)
(***************************************************************************)
ExplorerState == [pc : {"list", "upsert"}, epoch : Epochs, todo : SUBSET Validators]

HealthState == [pc     : {"identity", "status", "stats", "self", "vns", "others"},
                at     : 1..Len(Endpoints),
                known  : SUBSET Epochs,
                health : Health,
                todo   : SUBSET Validators]

ExplorerStart == [pc |-> "list", epoch |-> 1, todo |-> {}]

\* pollOne's local variables when the turn of endpoint number i begins.
Turn(i) == [pc |-> "identity", at |-> i, known |-> {}, health |-> NoHealth, todo |-> {}]

Init ==
  /\ indexerEpoch = 1
  /\ nodeEpoch = [v \in Validators |-> 1]
  /\ validators = EmptyTable
  /\ explorer = ExplorerStart
  /\ vnhealth = Turn(1)
  /\ server = {}
  /\ reported = [v \in Validators |-> {}]
  /\ faults = 0

Fault == faults < MaxFaults /\ faults' = faults + 1

NoFault == UNCHANGED faults

-----------------------------------------------------------------------------
(* The L2, as the indexer and the nodes follow it *)

IndexerFollows ==
  /\ indexerEpoch < MaxEpoch
  /\ indexerEpoch' = indexerEpoch + 1
  /\ UNCHANGED <<nodeEpoch, validators, explorer, vnhealth, server, reported>> /\ NoFault

NodeFollows(v) ==
  /\ v \in Polled
  /\ nodeEpoch[v] < MaxEpoch
  /\ nodeEpoch' = [nodeEpoch EXCEPT ![v] = @ + 1]
  /\ UNCHANGED <<indexerEpoch, validators, explorer, vnhealth, server, reported>> /\ NoFault

-----------------------------------------------------------------------------
(* explorer: syncValidators.  A failing ListValidators leaves everything as *)
(* it is for the next poll, a stuttering step.                              *)

ListValidators ==
  /\ explorer.pc = "list"
  /\ explorer' = [pc |-> "upsert", epoch |-> indexerEpoch, todo |-> RosterAt[indexerEpoch]]
  /\ UNCHANGED <<views, validators, vnhealth, server, reported>> /\ NoFault

ExplorerUpserts ==
  /\ explorer.pc = "upsert"
  /\ \E v \in explorer.todo :
       /\ validators' = UpsertValidator(validators, v, explorer.epoch,
                                        ShardGroupAt[explorer.epoch][v])
       /\ explorer' = [explorer EXCEPT !.todo = @ \ {v}]
  /\ UNCHANGED <<views, vnhealth, server, reported>> /\ NoFault

\* The error ends the poll: the rest of the roster waits for the next one.
ExplorerUpsertFails ==
  /\ explorer.pc = "upsert"
  /\ explorer.todo # {}
  /\ explorer' = ExplorerStart
  /\ UNCHANGED <<views, validators, vnhealth, server, reported>> /\ Fault

EndPoll ==
  /\ explorer.pc = "upsert"
  /\ explorer.todo = {}
  /\ explorer' = ExplorerStart
  /\ UNCHANGED <<views, validators, vnhealth, server, reported>> /\ NoFault

-----------------------------------------------------------------------------
(* vnhealth: pollOne *)

\* The validator whose node is being polled.
Self == Endpoints[vnhealth.at]

\* The loop of Poll, and after the last endpoint the next Poll.
NextTurn == Turn(IF vnhealth.at = Len(Endpoints) THEN 1 ELSE vnhealth.at + 1)

HealthCall(pc) == vnhealth.pc = pc /\ UNCHANGED <<views, explorer, server>>

GetIdentity ==
  /\ HealthCall("identity")
  /\ Self \notin Unreachable
  /\ vnhealth' = [vnhealth EXCEPT !.pc = "status"]
  /\ UNCHANGED <<validators, reported>> /\ NoFault

\* The JSON-RPC call fails: no connection or a timeout, a bad status, an RPC error
\* or a body that cannot be decoded.  Poll goes on to the next endpoint.
GetIdentityFails ==
  /\ HealthCall("identity")
  /\ IF Self \in Unreachable THEN NoFault ELSE Fault
  /\ vnhealth' = NextTurn
  /\ UNCHANGED <<validators, reported>>

GetConsensusStatus ==
  /\ HealthCall("status")
  /\ \E state \in States :
       /\ vnhealth' = [vnhealth EXCEPT !.pc     = "stats",
                                       !.known  = {nodeEpoch[Self]},
                                       !.health = [NoHealth EXCEPT
                                                     !.last_seen_epoch  = {nodeEpoch[Self]},
                                                     !.consensus_status = {state}]]
       /\ reported' = [reported EXCEPT ![Self] = @ \cup {state}]
  /\ UNCHANGED validators /\ NoFault

GetConsensusStatusFails ==
  /\ HealthCall("status")
  /\ vnhealth' = [vnhealth EXCEPT !.pc = "stats"]
  /\ UNCHANGED <<validators, reported>> /\ Fault

\* committee_info is nil unless the node is registered in its epoch; its epoch
\* is used only when the consensus status gave none.
GetEpochManagerStats ==
  /\ HealthCall("stats")
  /\ LET epoch == nodeEpoch[Self]
         seen  == IF vnhealth.known = {} THEN {epoch} ELSE vnhealth.known
     IN  vnhealth' = IF Self \in RosterAt[epoch]
                       THEN [vnhealth EXCEPT !.pc     = "self",
                                             !.known  = seen,
                                             !.health = [@ EXCEPT
                                                !.last_seen_epoch = seen,
                                                !.shard_group     = {ShardGroupAt[epoch][Self]}]]
                       ELSE [vnhealth EXCEPT !.pc = "self"]
  /\ UNCHANGED <<validators, reported>> /\ NoFault

GetEpochManagerStatsFails ==
  /\ HealthCall("stats")
  /\ vnhealth' = [vnhealth EXCEPT !.pc = "self"]
  /\ UNCHANGED <<validators, reported>> /\ Fault

UpsertSelf ==
  /\ HealthCall("self")
  /\ validators' = UpsertValidatorHealth(validators, Self, vnhealth.health)
  /\ vnhealth' = IF vnhealth.known = {} THEN NextTurn ELSE [vnhealth EXCEPT !.pc = "vns"]
  /\ UNCHANGED reported /\ NoFault

UpsertSelfFails ==
  /\ HealthCall("self")
  /\ vnhealth' = NextTurn
  /\ UNCHANGED <<validators, reported>> /\ Fault

GetAllVns ==
  /\ HealthCall("vns")
  /\ \E epoch \in vnhealth.known :
       vnhealth' = [vnhealth EXCEPT !.pc = "others", !.todo = RosterAt[epoch] \ {Self}]
  /\ UNCHANGED <<validators, reported>> /\ NoFault

GetAllVnsFails ==
  /\ HealthCall("vns")
  /\ vnhealth' = NextTurn
  /\ UNCHANGED <<validators, reported>> /\ Fault

\* Mutant: the polled validator's own data is written to every row.
Enrichment_WithOwnData(h) == h.health

\* Of the other validators a node knows no more than that they are registered.
Enrichment(h) == [NoHealth EXCEPT !.last_seen_epoch = h.known]

UpsertOther ==
  /\ HealthCall("others")
  /\ \E v \in vnhealth.todo :
       /\ validators' = UpsertValidatorHealth(validators, v, Enrichment(vnhealth))
       /\ vnhealth' = [vnhealth EXCEPT !.todo = @ \ {v}]
  /\ UNCHANGED reported /\ NoFault

UpsertOtherFails ==
  /\ HealthCall("others")
  /\ \E v \in vnhealth.todo : vnhealth' = [vnhealth EXCEPT !.todo = @ \ {v}]
  /\ UNCHANGED <<validators, reported>> /\ Fault

EndTurn ==
  /\ HealthCall("others")
  /\ vnhealth.todo = {}
  /\ vnhealth' = NextTurn
  /\ UNCHANGED <<validators, reported>> /\ NoFault

-----------------------------------------------------------------------------
(* server: GetLiveValidatorEpochSummary *)

\* Of an empty table the answer is (0, 0), with no second query: a stuttering step.
ReadMaxEpoch ==
  /\ server = {}
  /\ server' = MaxEpochSeen(validators)
  /\ UNCHANGED <<views, validators, explorer, vnhealth, reported>> /\ NoFault

\* The answer is the epoch read before, and SeenInEpoch of it.
CountSeen ==
  /\ server # {}
  /\ server' = {}
  /\ UNCHANGED <<views, validators, explorer, vnhealth, reported>> /\ NoFault

-----------------------------------------------------------------------------
\* A poller dies and is started again.
Restart ==
  /\ \/ explorer' = ExplorerStart /\ UNCHANGED vnhealth
     \/ vnhealth' = Turn(1) /\ UNCHANGED explorer
  /\ UNCHANGED <<views, validators, server, reported>> /\ Fault

ExplorerWork == ListValidators \/ ExplorerUpserts \/ EndPoll

HealthWork ==
  \/ GetIdentity \/ GetConsensusStatus \/ GetEpochManagerStats \/ UpsertSelf
  \/ GetAllVns   \/ UpsertOther        \/ EndTurn
  \/ (Self \in Unreachable /\ GetIdentityFails)

Failure ==
  \/ (Self \notin Unreachable /\ GetIdentityFails)
  \/ GetConsensusStatusFails \/ GetEpochManagerStatsFails
  \/ UpsertSelfFails \/ GetAllVnsFails \/ UpsertOtherFails \/ ExplorerUpsertFails

Answer == ReadMaxEpoch \/ CountSeen

Next ==
  \/ IndexerFollows
  \/ \E v \in Validators : NodeFollows(v)
  \/ ExplorerWork
  \/ HealthWork
  \/ Answer
  \/ Failure
  \/ Restart

Spec == Init /\ [][Next]_vars

(***************************************************************************)
(* The pollers' loops wait for nothing but their poll interval; failures   *)
(* stop (MaxFaults), and the indexer and the nodes that answer reach the   *)
(* last epoch, and the summary is asked for again and again: these are     *)
(* assumptions on the environment.                                         *)
(***************************************************************************)
Fairness ==
  /\ WF_vars(ExplorerWork) /\ WF_vars(HealthWork) /\ WF_vars(Answer)
  /\ WF_vars(IndexerFollows)
  /\ \A v \in Validators : WF_vars(NodeFollows(v))

FairSpec == Spec /\ Fairness

-----------------------------------------------------------------------------
\* Every variable has its type.
TypeOK ==
  /\ indexerEpoch \in Epochs
  /\ nodeEpoch \in [Validators -> Epochs]
  /\ validators \in [Validators -> Row]
  /\ explorer \in ExplorerState
  /\ vnhealth \in HealthState
  /\ server \subseteq Epochs \cup {0}
  /\ reported \in [Validators -> SUBSET States]
  /\ faults \in Nat

\* A shard group a row shows is one the row's validator was given in some epoch
\* up to the newest one reported: data of one validator is never written to
\* another's row, however the two pollers interleave (pollOne, syncValidators).
ShardGroupsAreReal ==
  \A v \in Validators :
    validators[v].shard_group # 0 =>
      \E e \in Epochs : /\ e <= indexerEpoch \/ \E w \in Validators : e <= nodeEpoch[w]
                        /\ v \in RosterAt[e]
                        /\ ShardGroupAt[e][v] = validators[v].shard_group

\* A consensus status a row shows was reported by that validator's own node,
\* whoever wrote the row last (rows.go, Validator and UpsertValidatorHealth).
StatusIsOwn == \A v \in Validators : validators[v].consensus_status \subseteq reported[v]

\* No row ever shows what belongs to another validator.
RowsAreOwn == ShardGroupsAreReal /\ StatusIsOwn

\* What is known of a validator is never replaced by "unknown": a poll that
\* knows less, or the other poller, leaves it alone (UpsertValidatorHealth).
KnownIsKept ==
  [][\A v \in Validators :
       /\ validators[v].exists => validators'[v].exists
       /\ validators[v].last_seen_epoch # 0 => validators'[v].last_seen_epoch # 0
       /\ validators[v].shard_group # 0 => validators'[v].shard_group # 0
       /\ validators[v].consensus_status # {} => validators'[v].consensus_status # {}]_vars

\* The table shows the last epoch's roster, and the status of every node that
\* answers.
RosterShown ==
  /\ \A v \in RosterAt[MaxEpoch] :
       /\ validators[v].last_seen_epoch = MaxEpoch
       /\ validators[v].shard_group = ShardGroupAt[MaxEpoch][v]
  /\ \A v \in Polled : validators[v].consensus_status # {}

\* Once everybody is in the last epoch the table comes to show it, and no late
\* write of older data, nor an endpoint that never answers, disturbs it for good
\* (Poll: "one endpoint's failure ... does not prevent the others from being
\* polled").
RosterConverges == <>[]RosterShown

\* From some moment on, every summary is of the last epoch and counts all of its
\* roster, and besides it only nodes that have left the roster and still answer,
\* whose own row vnhealth keeps up to date (reads.go, GetLiveValidatorEpochSummary),
\* although its two queries see two tables.
CountsTheRoster(seen) ==
  RosterAt[MaxEpoch] \subseteq seen /\ seen \subseteq RosterAt[MaxEpoch] \cup Polled

SummaryConverges ==
  <>[][CountSeen => /\ server = {MaxEpoch}
                    /\ CountsTheRoster(SeenInEpoch(validators, MaxEpoch))]_vars

-----------------------------------------------------------------------------
\* last_seen_epoch is "the highest epoch this validator was seen in the roster"
\* (0001_init.up.sql), so no writer that lags behind lowers it.  Not so: README,
\* section 6.
LastSeenNeverFalls ==
  [][\A v \in Validators :
       validators'[v].last_seen_epoch >= validators[v].last_seen_epoch]_vars

=============================================================================
