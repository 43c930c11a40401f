----------------------- MODULE ValidatorRoster_proofs -----------------------
(***************************************************************************)
(* That no row of the validators table shows another validator's data, and *)
(* that nothing known is replaced by "unknown", for any roster, any list   *)
(* of endpoints, any epochs and any number of faults.                      *)
(*                                                                         *)
(* An upsert writes what a poller has gathered over several calls, while   *)
(* the epochs and the other poller moved on.  So the invariant says of     *)
(* what each poller holds what RowsAreOwn says of the rows; it survives    *)
(* the others' steps because epochs and reports only grow.                 *)
(*                                                                         *)
(* Then the half of convergence that is safety: what the table shows once  *)
(* everybody has reached the last epoch it goes on showing.                *)
(***************************************************************************)
EXTENDS ValidatorRoster, TLAPS

-----------------------------------------------------------------------------
(* What the pollers hold *)

\* Some node or the indexer has been in an epoch that gave v the shard group g.
Given(v, g) ==
  \E e \in Epochs : /\ e <= indexerEpoch \/ \E w \in Validators : e <= nodeEpoch[w]
                    /\ v \in RosterAt[e]
                    /\ ShardGroupAt[e][v] = g

\* The roster the explorer works through is that of an epoch the indexer has reached.
RosterHeld ==
  /\ explorer.epoch <= indexerEpoch
  /\ explorer.todo \subseteq RosterAt[explorer.epoch]

\* What a poll has gathered belongs to the validator whose turn it is.
OwnHealth(v, health) ==
  /\ health.last_seen_epoch \subseteq Epochs
  /\ \A g \in health.shard_group : Given(v, g)
  /\ health.consensus_status \subseteq reported[v]

HealthHeld == OwnHealth(Self, vnhealth.health)

EpochsAreReal == \A v \in Validators : validators[v].last_seen_epoch \in Epochs \cup {0}

RosterInv == TypeOK /\ EpochsAreReal /\ RowsAreOwn /\ RosterHeld /\ HealthHeld

\* What a step does to the row of v: it takes over what belongs to v, and keeps what
\* it has no value for.
RowGoesOn(v) ==
  /\ validators[v].exists => validators'[v].exists
  /\ \/ validators'[v].last_seen_epoch = validators[v].last_seen_epoch
     \/ validators'[v].last_seen_epoch \in Epochs
  /\ \/ validators'[v].shard_group = validators[v].shard_group
     \/ validators'[v].shard_group \in ShardGroups /\ Given(v, validators'[v].shard_group)
  /\ \/ validators'[v].consensus_status = validators[v].consensus_status
     \/ /\ validators'[v].consensus_status # {}
        /\ validators'[v].consensus_status \subseteq reported[v]

TableGoesOn ==
  /\ validators' \in [Validators -> Row]
  /\ \A v \in Validators : RowGoesOn(v)

-----------------------------------------------------------------------------
(* The statements *)

LEMMA EpochsAreNumbers == \A e \in Epochs : e \in Nat /\ e # 0 /\ 1 <= e /\ e <= MaxEpoch
  BY RosterAssumption DEF Epochs

LEMMA ShardGroupsAreNumbers == \A g \in ShardGroups : g \in Nat /\ g # 0
  BY ValidatorsAssumption

\* COALESCE gives a value of the option, if it has one.
LEMMA Coalesced ==
  ASSUME NEW option, NEW stored
  PROVE  \/ option = {} /\ Coalesce(option, stored) = stored
         \/ option # {} /\ Coalesce(option, stored) \in option
<1>1. CASE option = {}
  BY <1>1 DEF Coalesce
<1>2. CASE option # {}
  <2>1. PICK x : x \in option
    BY <1>2
  <2>2. (CHOOSE y \in option : TRUE) \in option
    BY <2>1
  <2>3. Coalesce(option, stored) = CHOOSE y \in option : TRUE
    BY <1>2 DEF Coalesce
  <2> QED
    BY <1>2, <2>2, <2>3
<1> QED
  BY <1>1, <1>2

LEMMA UpsertValidatorGoesOn ==
  ASSUME TypeOK, NEW v \in Validators, NEW epoch \in Epochs, NEW group \in ShardGroups,
         Given(v, group),
         validators' = UpsertValidator(validators, v, epoch, group)
  PROVE  TableGoesOn
<1> DEFINE row == [exists           |-> TRUE,
                   last_seen_epoch  |-> epoch,
                   shard_group      |-> group,
                   consensus_status |-> validators[v].consensus_status]
<1>1. validators \in [Validators -> Row]
  BY DEF TypeOK
<1>2. validators[v] \in Row
  BY <1>1
<1>3. row \in Row
  BY <1>2, EpochsAreNumbers DEF Row
<1>4. validators' = [validators EXCEPT ![v] = row]
  BY DEF UpsertValidator
<1>5. validators' \in [Validators -> Row]
  BY <1>1, <1>3, <1>4
<1>6. ASSUME NEW w \in Validators PROVE RowGoesOn(w)
  <2>1. CASE w = v
    <3>1. validators'[w] = row
      BY <1>1, <1>4, <2>1
    <3> QED
      BY <3>1, <2>1, EpochsAreNumbers DEF RowGoesOn
  <2>2. CASE w # v
    <3>1. validators'[w] = validators[w]
      BY <1>1, <1>4, <2>2
    <3> QED
      BY <3>1 DEF RowGoesOn
  <2> QED
    BY <2>1, <2>2
<1> QED
  BY <1>5, <1>6 DEF TableGoesOn

LEMMA UpsertHealthGoesOn ==
  ASSUME TypeOK, NEW v \in Validators, NEW health \in Health, OwnHealth(v, health),
         validators' = UpsertValidatorHealth(validators, v, health)
  PROVE  TableGoesOn
<1> DEFINE old == validators[v]
           epoch == Coalesce(health.last_seen_epoch, old.last_seen_epoch)
           group == Coalesce(health.shard_group, old.shard_group)
           status == IF health.consensus_status = {} THEN old.consensus_status
                                                     ELSE health.consensus_status
           row == [exists           |-> TRUE,
                   last_seen_epoch  |-> epoch,
                   shard_group      |-> group,
                   consensus_status |-> status]
<1>1. validators \in [Validators -> Row]
  BY DEF TypeOK
<1>2. /\ old.last_seen_epoch \in Nat /\ old.shard_group \in ShardGroups \cup {0}
      /\ old.consensus_status \subseteq States
  BY <1>1 DEF Row
<1>3. /\ health.last_seen_epoch \subseteq Epochs
      /\ health.shard_group \subseteq ShardGroups
      /\ health.consensus_status \subseteq States
  BY DEF Health, OwnHealth
<1>4. epoch \in Nat /\ (epoch = old.last_seen_epoch \/ epoch \in Epochs)
  <2>1. epoch = old.last_seen_epoch \/ epoch \in health.last_seen_epoch
    BY Coalesced
  <2> HIDE DEF epoch
  <2> QED
    BY <1>2, <1>3, <2>1, EpochsAreNumbers
<1>5. /\ group \in ShardGroups \cup {0}
      /\ \/ group = old.shard_group
         \/ group \in ShardGroups /\ Given(v, group)
  <2>1. group = old.shard_group \/ group \in health.shard_group
    BY Coalesced
  <2> HIDE DEF group
  <2> QED
    BY <1>2, <1>3, <2>1 DEF OwnHealth
<1>6. /\ status \subseteq States
      /\ \/ status = old.consensus_status
         \/ status # {} /\ status \subseteq reported[v]
  BY <1>2, <1>3 DEF OwnHealth
<1>7. validators' = [validators EXCEPT ![v] = row]
  BY DEF UpsertValidatorHealth
<1> HIDE DEF epoch, group, status
<1>8. row \in Row
  BY <1>4, <1>5, <1>6 DEF Row
<1>9. validators' \in [Validators -> Row]
  BY <1>1, <1>7, <1>8
<1>10. ASSUME NEW w \in Validators PROVE RowGoesOn(w)
  <2>1. CASE w = v
    <3>1. validators'[w] = row
      BY <1>1, <1>7, <2>1
    <3> QED
      BY <3>1, <2>1, <1>4, <1>5, <1>6 DEF RowGoesOn
  <2>2. CASE w # v
    <3>1. validators'[w] = validators[w]
      BY <1>1, <1>7, <2>2
    <3> QED
      BY <3>1 DEF RowGoesOn
  <2> QED
    BY <2>1, <2>2
<1> QED
  BY <1>9, <1>10 DEF TableGoesOn

LEMMA SameTableGoesOn ==
  ASSUME TypeOK, UNCHANGED validators
  PROVE  TableGoesOn
BY DEF TypeOK, TableGoesOn, RowGoesOn

-----------------------------------------------------------------------------
(* What the rows and the pollers may say stays so *)

\* The indexer and the nodes do not go back, and what was reported was reported.
WorldGoesOn ==
  /\ indexerEpoch \in Epochs /\ indexerEpoch' \in Epochs
  /\ indexerEpoch <= indexerEpoch'
  /\ nodeEpoch \in [Validators -> Epochs] /\ nodeEpoch' \in [Validators -> Epochs]
  /\ \A w \in Validators : nodeEpoch[w] <= nodeEpoch'[w]
  /\ reported' \in [Validators -> SUBSET States]
  /\ \A w \in Validators : reported[w] \subseteq reported'[w]

LEMMA GivenStays ==
  ASSUME WorldGoesOn, NEW v, NEW g, Given(v, g)
  PROVE  Given(v, g)'
<1>1. PICK e \in Epochs : /\ e <= indexerEpoch \/ \E w \in Validators : e <= nodeEpoch[w]
                          /\ v \in RosterAt[e]
                          /\ ShardGroupAt[e][v] = g
  BY DEF Given
<1>2. e <= indexerEpoch' \/ \E w \in Validators : e <= nodeEpoch'[w]
  <2>1. CASE e <= indexerEpoch
    BY <2>1, EpochsAreNumbers DEF WorldGoesOn
  <2>2. CASE \E w \in Validators : e <= nodeEpoch[w]
    <3>1. PICK w \in Validators : e <= nodeEpoch[w]
      BY <2>2
    <3>2. nodeEpoch[w] \in Epochs /\ nodeEpoch'[w] \in Epochs /\ nodeEpoch[w] <= nodeEpoch'[w]
      BY DEF WorldGoesOn
    <3>3. e <= nodeEpoch'[w]
      BY <3>1, <3>2, EpochsAreNumbers
    <3> QED
      BY <3>3
  <2> QED
    BY <1>1, <2>1, <2>2
<1> QED
  BY <1>1, <1>2 DEF Given

\* What a poller has gathered stays the validator's own.
LEMMA OwnStays ==
  ASSUME WorldGoesOn, NEW v \in Validators, NEW health, OwnHealth(v, health)
  PROVE  OwnHealth(v, health)'
<1>1. \A g \in health.shard_group : Given(v, g)'
  BY GivenStays DEF OwnHealth
<1> QED
  BY <1>1 DEF OwnHealth, WorldGoesOn

LEMMA RowsStayOwn ==
  ASSUME TypeOK, RowsAreOwn, WorldGoesOn, TableGoesOn
  PROVE  RowsAreOwn'
<1>1. ASSUME NEW v \in Validators, NEW g, g # 0, g = validators'[v].shard_group
      PROVE  Given(v, g)'
  <2>1. CASE g = validators[v].shard_group
    <3>1. Given(v, g)
      BY <1>1, <2>1 DEF RowsAreOwn, ShardGroupsAreReal, Given
    <3> QED
      BY <3>1, GivenStays
  <2>2. CASE g # validators[v].shard_group
    <3>1. Given(v, g)
      BY <1>1, <2>2 DEF TableGoesOn, RowGoesOn
    <3> QED
      BY <3>1, GivenStays
  <2> QED
    BY <2>1, <2>2
<1>2. ShardGroupsAreReal'
  BY <1>1 DEF ShardGroupsAreReal, Given
<1>3. StatusIsOwn'
  BY DEF RowsAreOwn, StatusIsOwn, WorldGoesOn, TableGoesOn, RowGoesOn
<1> QED
  BY <1>2, <1>3 DEF RowsAreOwn

LEMMA EpochsStayReal ==
  ASSUME EpochsAreReal, TableGoesOn
  PROVE  EpochsAreReal'
BY DEF EpochsAreReal, TableGoesOn, RowGoesOn

\* Nothing known becomes unknown.
LEMMA NothingForgotten ==
  ASSUME TableGoesOn, NEW v \in Validators
  PROVE  /\ validators[v].exists => validators'[v].exists
         /\ validators[v].last_seen_epoch # 0 => validators'[v].last_seen_epoch # 0
         /\ validators[v].shard_group # 0 => validators'[v].shard_group # 0
         /\ validators[v].consensus_status # {} => validators'[v].consensus_status # {}
<1>1. RowGoesOn(v)
  BY DEF TableGoesOn
<1>2. validators[v].exists => validators'[v].exists
  BY <1>1 DEF RowGoesOn
<1>3. validators[v].last_seen_epoch # 0 => validators'[v].last_seen_epoch # 0
  BY <1>1, EpochsAreNumbers DEF RowGoesOn
<1>4. validators[v].shard_group # 0 => validators'[v].shard_group # 0
  BY <1>1, ShardGroupsAreNumbers DEF RowGoesOn
<1>5. validators[v].consensus_status # {} => validators'[v].consensus_status # {}
  BY <1>1 DEF RowGoesOn
<1> QED
  BY <1>2, <1>3, <1>4, <1>5

LEMMA SameWorldGoesOn ==
  ASSUME TypeOK, UNCHANGED <<views, reported>>
  PROVE  WorldGoesOn
<1>1. \A e \in Epochs : e <= e
  BY EpochsAreNumbers
<1> QED
  BY <1>1 DEF TypeOK, views, WorldGoesOn

-----------------------------------------------------------------------------
(* The explorer's steps *)

LEMMA RostersAreKnown ==
  ASSUME NEW e \in Epochs
  PROVE  /\ RosterAt[e] \subseteq Validators
         /\ \A v \in Validators : ShardGroupAt[e][v] \in ShardGroups
BY RosterAssumption

\* Whoever has reached an epoch has been given its shard groups.
LEMMA IndexerGives ==
  ASSUME NEW e \in Epochs, e <= indexerEpoch, NEW v \in RosterAt[e]
  PROVE  Given(v, ShardGroupAt[e][v])
BY DEF Given

LEMMA NodeGives ==
  ASSUME NEW w \in Validators, nodeEpoch[w] \in Epochs, NEW v \in RosterAt[nodeEpoch[w]]
  PROVE  Given(v, ShardGroupAt[nodeEpoch[w]][v])
<1>1. nodeEpoch[w] <= nodeEpoch[w]
  BY EpochsAreNumbers
<1> QED
  BY <1>1 DEF Given

LEMMA ExplorerStartHeld ==
  ASSUME explorer' = ExplorerStart, indexerEpoch' \in Epochs
  PROVE  explorer' \in ExplorerState /\ RosterHeld'
<1>1. 1 \in Epochs
  BY RosterAssumption DEF Epochs
<1> QED
  BY <1>1, EpochsAreNumbers DEF ExplorerStart, ExplorerState, RosterHeld

ExplorerMoves ==
  \/ ListValidators \/ ExplorerUpserts \/ ExplorerUpsertFails \/ EndPoll

LEMMA ExplorerGoesOn ==
  ASSUME RosterInv, ExplorerMoves
  PROVE  explorer' \in ExplorerState /\ RosterHeld' /\ TableGoesOn
<1> USE DEF RosterInv
<1>0. UNCHANGED <<views, vnhealth, server, reported>>
  BY DEF ExplorerMoves, ListValidators, ExplorerUpserts, ExplorerUpsertFails, EndPoll
<1>1. indexerEpoch' = indexerEpoch /\ indexerEpoch \in Epochs
  BY <1>0 DEF TypeOK, views
<1>2. CASE ListValidators
  <2>1. RosterAt[indexerEpoch] \subseteq Validators
    BY <1>1, RostersAreKnown
  <2>2. indexerEpoch <= indexerEpoch
    BY <1>1, EpochsAreNumbers
  <2>3. explorer' = [pc |-> "upsert", epoch |-> indexerEpoch, todo |-> RosterAt[indexerEpoch]]
    BY <1>2 DEF ListValidators
  <2>4. explorer' \in ExplorerState /\ RosterHeld'
    BY <1>1, <2>1, <2>2, <2>3 DEF ExplorerState, RosterHeld
  <2> QED
    BY <1>2, <2>4, SameTableGoesOn DEF ListValidators
<1>3. CASE ExplorerUpserts
  <2>1. PICK v \in explorer.todo :
          /\ validators' = UpsertValidator(validators, v, explorer.epoch,
                                           ShardGroupAt[explorer.epoch][v])
          /\ explorer' = [explorer EXCEPT !.todo = @ \ {v}]
    BY <1>3 DEF ExplorerUpserts
  <2>2. /\ explorer.pc \in {"list", "upsert"} /\ explorer.epoch \in Epochs
        /\ explorer.todo \subseteq Validators
    BY DEF TypeOK, ExplorerState
  <2>3. explorer.epoch <= indexerEpoch /\ v \in RosterAt[explorer.epoch]
    BY DEF RosterHeld
  <2>4. Given(v, ShardGroupAt[explorer.epoch][v])
    BY <2>2, <2>3, IndexerGives
  <2>5. TableGoesOn
    BY <2>1, <2>2, <2>4, RostersAreKnown, UpsertValidatorGoesOn
  <2>6. explorer' = [pc |-> explorer.pc, epoch |-> explorer.epoch, todo |-> explorer.todo \ {v}]
    BY <2>1 DEF TypeOK, ExplorerState
  <2>7. explorer' \in ExplorerState /\ RosterHeld'
    BY <1>1, <2>2, <2>6 DEF ExplorerState, RosterHeld
  <2> QED
    BY <2>5, <2>7
<1>4. CASE ExplorerUpsertFails \/ EndPoll
  <2>1. explorer' = ExplorerStart /\ UNCHANGED validators
    BY <1>4 DEF ExplorerUpsertFails, EndPoll
  <2> QED
    BY <1>1, <2>1, ExplorerStartHeld, SameTableGoesOn
<1> QED
  BY <1>2, <1>3, <1>4 DEF ExplorerMoves

-----------------------------------------------------------------------------
(* vnhealth's steps *)

Calls == {"identity", "status", "stats", "self", "vns", "others"}

LEMMA HealthStateIs ==
  HealthState = [pc     : Calls,
                 at     : 1..Len(Endpoints),
                 known  : SUBSET Epochs,
                 health : Health,
                 todo   : SUBSET Validators]
BY DEF HealthState, Calls

LEMMA CallsAre ==
  /\ "identity" \in Calls /\ "status" \in Calls /\ "stats" \in Calls
  /\ "self" \in Calls /\ "vns" \in Calls /\ "others" \in Calls
BY DEF Calls

LEMMA NoHealthType == NoHealth \in Health
BY DEF NoHealth, Health

LEMMA SelfIsValidator ==
  ASSUME TypeOK
  PROVE  Self \in Validators /\ vnhealth.at \in 1..Len(Endpoints) /\ Len(Endpoints) \in Nat
BY RosterAssumption DEF TypeOK, HealthState, Self

HealthGoesOn == vnhealth' \in HealthState /\ HealthHeld'

LEMMA TurnHeld ==
  ASSUME NEW i \in 1..Len(Endpoints), vnhealth' = Turn(i)
  PROVE  HealthGoesOn
<1>1. /\ vnhealth'.health = NoHealth
      /\ vnhealth' = [pc |-> "identity", at |-> i, known |-> {}, health |-> NoHealth, todo |-> {}]
  BY DEF Turn
<1>2. vnhealth' \in HealthState
  BY <1>1, HealthStateIs, CallsAre, NoHealthType
<1>3. HealthHeld'
  BY <1>1 DEF HealthHeld, OwnHealth, NoHealth
<1> QED
  BY <1>2, <1>3 DEF HealthGoesOn

LEMMA NextTurnHeld ==
  ASSUME TypeOK, vnhealth' = NextTurn
  PROVE  HealthGoesOn
<1> DEFINE i == IF vnhealth.at = Len(Endpoints) THEN 1 ELSE vnhealth.at + 1
<1>1. i \in 1..Len(Endpoints)
  BY SelfIsValidator
<1>2. vnhealth' = Turn(i)
  BY DEF NextTurn
<1> HIDE DEF i
<1> QED
  BY <1>1, <1>2, TurnHeld

\* A step within a turn that gathers nothing.
LEMMA TurnGoesOn ==
  ASSUME RosterInv, UNCHANGED <<views, reported>>, NEW pc \in Calls, NEW todo \in SUBSET Validators,
         vnhealth' = [pc |-> pc, at |-> vnhealth.at, known |-> vnhealth.known,
                      health |-> vnhealth.health, todo |-> todo]
  PROVE  HealthGoesOn
<1>1. vnhealth' \in HealthState
  BY HealthStateIs DEF RosterInv, TypeOK
<1>2. HealthHeld'
  BY DEF RosterInv, HealthHeld, OwnHealth, Given, Self, views
<1> QED
  BY <1>1, <1>2 DEF HealthGoesOn

\* vnhealth, written out.
LEMMA HealthIs ==
  ASSUME TypeOK
  PROVE  /\ vnhealth = [pc |-> vnhealth.pc, at |-> vnhealth.at, known |-> vnhealth.known,
                        health |-> vnhealth.health, todo |-> vnhealth.todo]
         /\ vnhealth.pc \in Calls /\ vnhealth.known \in SUBSET Epochs
         /\ vnhealth.health \in Health /\ vnhealth.todo \in SUBSET Validators
<1>1. vnhealth \in HealthState
  BY DEF TypeOK
<1> QED
  BY <1>1, HealthStateIs

LEMMA Moves ==
  ASSUME TypeOK, NEW pc
  PROVE  [vnhealth EXCEPT !.pc = pc]
            = [pc |-> pc, at |-> vnhealth.at, known |-> vnhealth.known,
               health |-> vnhealth.health, todo |-> vnhealth.todo]
BY HealthIs

\* What the two calls fill in, written out.
LEMMA StatusFilledIn ==
  ASSUME NEW epochs, NEW status
  PROVE  [NoHealth EXCEPT !.last_seen_epoch = epochs, !.consensus_status = status]
            = [last_seen_epoch |-> epochs, shard_group |-> {}, consensus_status |-> status]
<1> DEFINE a == [last_seen_epoch |-> epochs, shard_group |-> {}, consensus_status |-> {}]
<1>1. [NoHealth EXCEPT !.last_seen_epoch = epochs] = a
  BY DEF NoHealth
<1>2. [a EXCEPT !.consensus_status = status]
         = [last_seen_epoch |-> epochs, shard_group |-> {}, consensus_status |-> status]
  OBVIOUS
<1> HIDE DEF a
<1> QED
  BY <1>1, <1>2

LEMMA StatsFilledIn ==
  ASSUME NEW h \in Health, NEW epochs, NEW group
  PROVE  [h EXCEPT !.last_seen_epoch = epochs, !.shard_group = group]
            = [last_seen_epoch |-> epochs, shard_group |-> group,
               consensus_status |-> h.consensus_status]
<1> DEFINE c == h.consensus_status
           a == [last_seen_epoch |-> epochs, shard_group |-> h.shard_group, consensus_status |-> c]
<1>1. [h EXCEPT !.last_seen_epoch = epochs] = a
  BY DEF Health
<1>2. [a EXCEPT !.shard_group = group]
         = [last_seen_epoch |-> epochs, shard_group |-> group, consensus_status |-> c]
  OBVIOUS
<1> HIDE DEF a, c
<1> QED
  BY <1>1, <1>2 DEF c

LEMMA ConsensusStatusHeld ==
  ASSUME RosterInv, GetConsensusStatus
  PROVE  HealthGoesOn /\ WorldGoesOn
<1> DEFINE v == Self
           e == nodeEpoch[v]
<1>1. PICK state \in States :
        /\ vnhealth' = [vnhealth EXCEPT !.pc     = "stats",
                                        !.known  = {e},
                                        !.health = [NoHealth EXCEPT
                                                      !.last_seen_epoch  = {e},
                                                      !.consensus_status = {state}]]
        /\ reported' = [reported EXCEPT ![v] = @ \cup {state}]
  BY DEF GetConsensusStatus
<1>2. v \in Validators /\ TypeOK
  BY SelfIsValidator DEF RosterInv
<1>3. e \in Epochs /\ e \in Nat
  BY <1>2, EpochsAreNumbers DEF TypeOK
<1>4. UNCHANGED views
  BY DEF GetConsensusStatus, HealthCall
<1>5. WorldGoesOn
  <2>1. reported' \in [Validators -> SUBSET States]
    BY <1>1, <1>2 DEF TypeOK
  <2>2. \A w \in Validators : reported[w] \subseteq reported'[w]
    BY <1>1, <1>2 DEF TypeOK
  <2>3. \A k \in Epochs : k <= k
    BY EpochsAreNumbers
  <2> QED
    BY <1>2, <1>4, <2>1, <2>2, <2>3 DEF TypeOK, views, WorldGoesOn
<1> DEFINE h == [last_seen_epoch |-> {e}, shard_group |-> {}, consensus_status |-> {state}]
<1>6. vnhealth' = [pc |-> "stats", at |-> vnhealth.at, known |-> {e}, health |-> h,
                   todo |-> vnhealth.todo]
  <2>1. h = [NoHealth EXCEPT !.last_seen_epoch = {e}, !.consensus_status = {state}]
    BY StatusFilledIn
  <2> HIDE DEF h, e, v
  <2> QED
    BY <1>1, <1>2, <2>1, HealthIs
<1>7. h \in Health
  BY <1>3 DEF Health
<1>8. vnhealth' \in HealthState
  <2> HIDE DEF h, e
  <2> QED
    BY <1>2, <1>3, <1>6, <1>7, HealthStateIs, HealthIs, CallsAre, SelfIsValidator
<1>9. HealthHeld'
  <2>1. state \in reported'[v]
    BY <1>1, <1>2 DEF TypeOK
  <2>2. Self' = v /\ vnhealth'.health = h
    BY <1>6 DEF Self
  <2> QED
    BY <1>3, <2>1, <2>2 DEF HealthHeld, OwnHealth
<1> QED
  BY <1>5, <1>8, <1>9 DEF HealthGoesOn

LEMMA EpochManagerStatsHeld ==
  ASSUME RosterInv, GetEpochManagerStats
  PROVE  HealthGoesOn
<1> DEFINE v == Self
           e == nodeEpoch[v]
           seen == IF vnhealth.known = {} THEN {e} ELSE vnhealth.known
           g == ShardGroupAt[e][v]
<1>1. v \in Validators /\ TypeOK
  BY SelfIsValidator DEF RosterInv
<1>2. e \in Epochs /\ seen \subseteq Epochs
  BY <1>1, HealthIs DEF TypeOK
<1>3. UNCHANGED <<views, reported>>
  BY DEF GetEpochManagerStats, HealthCall
<1>4. CASE v \in RosterAt[e]
  <2> DEFINE h == [last_seen_epoch |-> seen, shard_group |-> {g},
                   consensus_status |-> vnhealth.health.consensus_status]
  <2>1. g \in ShardGroups /\ Given(v, g)
    BY <1>1, <1>2, <1>4, RostersAreKnown, NodeGives
  <2>2. vnhealth.health \in Health
    BY <1>1, HealthIs
  <2>3. h = [vnhealth.health EXCEPT !.last_seen_epoch = seen, !.shard_group = {g}]
    BY <2>2, StatsFilledIn
  <2>4. vnhealth' = [vnhealth EXCEPT !.pc = "self", !.known = seen, !.health = h]
    BY <1>4, <2>3 DEF GetEpochManagerStats
  <2>5. h \in Health
    BY <1>2, <2>1, <2>2, EpochsAreNumbers DEF Health
  <2>6. h.last_seen_epoch \subseteq Epochs /\ h.shard_group = {g}
        /\ h.consensus_status \subseteq reported[v]
    BY <1>2 DEF RosterInv, HealthHeld, OwnHealth
  <2> HIDE DEF h, seen, g, e
  <2>7. vnhealth' = [pc |-> "self", at |-> vnhealth.at, known |-> seen, health |-> h,
                     todo |-> vnhealth.todo]
    BY <1>1, <2>4, HealthIs
  <2>8. vnhealth' \in HealthState
    BY <1>1, <1>2, <2>5, <2>7, HealthStateIs, HealthIs, CallsAre, SelfIsValidator
  <2>9. OwnHealth(v, h)
    BY <2>1, <2>6 DEF OwnHealth
  <2>10. HealthHeld'
    <3>1. Self' = v /\ vnhealth'.health = h
      BY <2>7 DEF Self
    <3> QED
      BY <1>3, <2>9, <3>1 DEF HealthHeld, OwnHealth, Given, views
  <2> QED
    BY <2>8, <2>10 DEF HealthGoesOn
<1>5. CASE v \notin RosterAt[e]
  <2>1. vnhealth' = [vnhealth EXCEPT !.pc = "self"]
    BY <1>5 DEF GetEpochManagerStats
  <2> QED
    BY <1>1, <1>3, <2>1, HealthIs, Moves, CallsAre, TurnGoesOn
<1> QED
  BY <1>4, <1>5

\* A call that fails, and one that says nothing new, only move the turn on.
LEMMA TurnsGoOn ==
  ASSUME RosterInv,
         \/ GetIdentity \/ GetIdentityFails \/ GetConsensusStatusFails
         \/ GetEpochManagerStatsFails \/ UpsertSelfFails \/ GetAllVns \/ GetAllVnsFails
         \/ UpsertOtherFails \/ EndTurn
  PROVE  HealthGoesOn /\ WorldGoesOn /\ TableGoesOn
<1>1. TypeOK
  BY DEF RosterInv
<1>2. UNCHANGED <<views, validators, reported>>
  BY DEF GetIdentity, GetIdentityFails, GetConsensusStatusFails, GetEpochManagerStatsFails,
         UpsertSelfFails, GetAllVns, GetAllVnsFails, UpsertOtherFails, EndTurn, HealthCall
<1>3. WorldGoesOn /\ TableGoesOn
  BY <1>1, <1>2, SameWorldGoesOn, SameTableGoesOn
<1>4. CASE \/ GetIdentityFails \/ UpsertSelfFails \/ GetAllVnsFails \/ EndTurn
  BY <1>1, <1>3, <1>4, NextTurnHeld
     DEF GetIdentityFails, UpsertSelfFails, GetAllVnsFails, EndTurn
<1>5. CASE GetIdentity \/ GetConsensusStatusFails \/ GetEpochManagerStatsFails
  <2>1. PICK pc \in Calls : vnhealth' = [vnhealth EXCEPT !.pc = pc]
    BY <1>5, CallsAre DEF GetIdentity, GetConsensusStatusFails, GetEpochManagerStatsFails
  <2>2. vnhealth.todo \in SUBSET Validators
    BY <1>1, HealthIs
  <2> QED
    BY <1>1, <1>2, <1>3, <2>1, <2>2, Moves, TurnGoesOn
<1>6. CASE GetAllVns
  <2>1. PICK epoch \in vnhealth.known :
          vnhealth' = [vnhealth EXCEPT !.pc = "others", !.todo = RosterAt[epoch] \ {Self}]
    BY <1>6 DEF GetAllVns
  <2> DEFINE todo == RosterAt[epoch] \ {Self}
  <2>2. todo \in SUBSET Validators
    BY <1>1, HealthIs, RostersAreKnown
  <2> HIDE DEF todo
  <2>3. vnhealth' = [pc |-> "others", at |-> vnhealth.at, known |-> vnhealth.known,
                     health |-> vnhealth.health, todo |-> todo]
    BY <1>1, <2>1, HealthIs DEF todo
  <2> QED
    BY <1>2, <1>3, <2>2, <2>3, CallsAre, TurnGoesOn
<1>7. CASE UpsertOtherFails
  <2>1. PICK v \in vnhealth.todo : vnhealth' = [vnhealth EXCEPT !.todo = @ \ {v}]
    BY <1>7 DEF UpsertOtherFails
  <2> DEFINE todo == vnhealth.todo \ {v}
  <2>2. todo \in SUBSET Validators
    BY <1>1, HealthIs
  <2> HIDE DEF todo
  <2>3. vnhealth' = [pc |-> vnhealth.pc, at |-> vnhealth.at, known |-> vnhealth.known,
                     health |-> vnhealth.health, todo |-> todo]
    BY <1>1, <2>1, HealthIs DEF todo
  <2> QED
    BY <1>1, <1>2, <1>3, <2>2, <2>3, HealthIs, TurnGoesOn
<1> QED
  BY <1>4, <1>5, <1>6, <1>7

LEMMA UpsertSelfGoesOn ==
  ASSUME RosterInv, UpsertSelf
  PROVE  HealthGoesOn /\ WorldGoesOn /\ TableGoesOn
<1>1. TypeOK
  BY DEF RosterInv
<1>2. UNCHANGED <<views, reported>>
  BY DEF UpsertSelf, HealthCall
<1>3. WorldGoesOn
  BY <1>1, <1>2, SameWorldGoesOn
<1>4. TableGoesOn
  <2>1. Self \in Validators /\ vnhealth.health \in Health /\ OwnHealth(Self, vnhealth.health)
    BY <1>1, SelfIsValidator, HealthIs DEF RosterInv, HealthHeld
  <2> QED
    BY <1>1, <2>1, UpsertHealthGoesOn DEF UpsertSelf
<1>5. HealthGoesOn
  <2>1. vnhealth' = NextTurn \/ vnhealth' = [vnhealth EXCEPT !.pc = "vns"]
    BY DEF UpsertSelf
  <2>2. CASE vnhealth' = NextTurn
    BY <1>1, <2>2, NextTurnHeld
  <2>3. CASE vnhealth' = [vnhealth EXCEPT !.pc = "vns"]
    <3>1. vnhealth.todo \in SUBSET Validators
      BY <1>1, HealthIs
    <3> QED
      BY <1>1, <1>2, <2>3, <3>1, CallsAre, Moves, TurnGoesOn
  <2> QED
    BY <2>1, <2>2, <2>3
<1> QED
  BY <1>3, <1>4, <1>5

LEMMA UpsertOtherGoesOn ==
  ASSUME RosterInv, UpsertOther
  PROVE  HealthGoesOn /\ WorldGoesOn /\ TableGoesOn
<1>1. TypeOK
  BY DEF RosterInv
<1>2. UNCHANGED <<views, reported>>
  BY DEF UpsertOther, HealthCall
<1>3. WorldGoesOn
  BY <1>1, <1>2, SameWorldGoesOn
<1>4. PICK v \in vnhealth.todo :
        /\ validators' = UpsertValidatorHealth(validators, v, Enrichment(vnhealth))
        /\ vnhealth' = [vnhealth EXCEPT !.todo = @ \ {v}]
  BY DEF UpsertOther
<1>5. v \in Validators /\ vnhealth.known \subseteq Epochs
  BY <1>1, HealthIs
<1>6. TableGoesOn
  <2> DEFINE h == Enrichment(vnhealth)
  <2>1. h = [last_seen_epoch |-> vnhealth.known, shard_group |-> {}, consensus_status |-> {}]
    BY DEF Enrichment, NoHealth
  <2>2. h \in Health /\ OwnHealth(v, h)
    <3> HIDE DEF h
    <3> QED
      BY <1>5, <2>1, EpochsAreNumbers DEF Health, OwnHealth
  <2> HIDE DEF h
  <2>3. validators' = UpsertValidatorHealth(validators, v, h)
    BY <1>4 DEF h
  <2> QED
    BY <1>1, <1>5, <2>2, <2>3, UpsertHealthGoesOn
<1>7. HealthGoesOn
  <2> DEFINE todo == vnhealth.todo \ {v}
  <2>1. todo \in SUBSET Validators
    BY <1>1, HealthIs
  <2> HIDE DEF todo
  <2>2. vnhealth' = [pc |-> vnhealth.pc, at |-> vnhealth.at, known |-> vnhealth.known,
                     health |-> vnhealth.health, todo |-> todo]
    BY <1>1, <1>4, HealthIs DEF todo
  <2> QED
    BY <1>1, <1>2, <2>1, <2>2, HealthIs, TurnGoesOn
<1> QED
  BY <1>3, <1>6, <1>7

-----------------------------------------------------------------------------
(* All steps *)

LEMMA HealthStays ==
  ASSUME RosterInv, WorldGoesOn, UNCHANGED vnhealth
  PROVE  HealthGoesOn
<1>1. Self \in Validators /\ OwnHealth(Self, vnhealth.health)
  BY SelfIsValidator DEF RosterInv, HealthHeld
<1>2. PICK v \in Validators : v = Self
  BY <1>1
<1>3. PICK h : h = vnhealth.health
  OBVIOUS
<1>4. OwnHealth(v, h)'
  BY <1>1, <1>2, <1>3, OwnStays
<1>5. v = Self' /\ h = vnhealth'.health
  BY <1>2, <1>3 DEF Self
<1>6. HealthHeld'
  BY <1>4, <1>5 DEF HealthHeld, OwnHealth, Given
<1> QED
  BY <1>6 DEF HealthGoesOn, RosterInv, TypeOK

LEMMA ExplorerStays ==
  ASSUME RosterInv, WorldGoesOn, UNCHANGED explorer
  PROVE  explorer' \in ExplorerState /\ RosterHeld'
<1>1. explorer \in ExplorerState /\ explorer.epoch \in Epochs
  BY DEF RosterInv, TypeOK, ExplorerState
<1>2. explorer.epoch <= indexerEpoch'
  BY <1>1, EpochsAreNumbers DEF RosterInv, RosterHeld, WorldGoesOn
<1> QED
  BY <1>1, <1>2 DEF RosterInv, RosterHeld

LEMMA FaultsAreCounted ==
  ASSUME faults \in Nat, Fault \/ NoFault
  PROVE  faults' \in Nat
BY DEF Fault, NoFault

LEMMA InvGoesOn ==
  ASSUME RosterInv, WorldGoesOn, TableGoesOn, explorer' \in ExplorerState, RosterHeld',
         HealthGoesOn, server' \subseteq Epochs \cup {0}, faults' \in Nat
  PROVE  RosterInv' /\ TableGoesOn
<1>1. TypeOK'
  BY DEF TypeOK, WorldGoesOn, TableGoesOn, HealthGoesOn
<1>2. RowsAreOwn' /\ EpochsAreReal'
  BY RowsStayOwn, EpochsStayReal DEF RosterInv
<1> QED
  BY <1>1, <1>2 DEF RosterInv, HealthGoesOn

LEMMA InitInv == Init => RosterInv
<1> SUFFICES ASSUME Init PROVE RosterInv
  OBVIOUS
<1>1. 1 \in Epochs /\ 0 \in Nat
  BY RosterAssumption DEF Epochs
<1>2. vnhealth \in HealthState /\ HealthHeld
  <2>1. 1 \in 1..Len(Endpoints)
    BY RosterAssumption
  <2>2. vnhealth = [pc |-> "identity", at |-> 1, known |-> {}, health |-> NoHealth, todo |-> {}]
    BY DEF Init, Turn
  <2>3. vnhealth \in HealthState
    BY <2>1, <2>2, HealthStateIs, CallsAre, NoHealthType
  <2>4. HealthHeld
    BY <2>2 DEF HealthHeld, OwnHealth, NoHealth
  <2> QED
    BY <2>3, <2>4
<1>3. explorer \in ExplorerState /\ RosterHeld
  BY <1>1, EpochsAreNumbers DEF Init, ExplorerStart, ExplorerState, RosterHeld
<1>4. validators \in [Validators -> Row]
  BY <1>1 DEF Init, EmptyTable, NoRow, Row
<1>5. EpochsAreReal /\ RowsAreOwn
  BY DEF Init, EmptyTable, NoRow, EpochsAreReal, RowsAreOwn, ShardGroupsAreReal, StatusIsOwn
<1>6. TypeOK
  BY <1>1, <1>2, <1>3, <1>4 DEF Init, TypeOK
<1> QED
  BY <1>2, <1>3, <1>5, <1>6 DEF RosterInv

LEMMA StepInv ==
  ASSUME RosterInv, [Next]_vars
  PROVE  RosterInv' /\ TableGoesOn
<1>0. TypeOK /\ faults \in Nat /\ server \subseteq Epochs \cup {0}
  BY DEF RosterInv, TypeOK
<1>1. CASE IndexerFollows \/ \E v \in Validators : NodeFollows(v)
  <2>1. UNCHANGED <<validators, explorer, vnhealth, server, reported, faults>>
    BY <1>1 DEF IndexerFollows, NodeFollows, NoFault
  <2>2. WorldGoesOn
    <3>1. \A e \in Epochs : e <= e /\ (e < MaxEpoch => e + 1 \in Epochs /\ e <= e + 1)
      BY RosterAssumption DEF Epochs
    <3>2. CASE IndexerFollows
      BY <1>0, <2>1, <3>1, <3>2 DEF IndexerFollows, TypeOK, WorldGoesOn
    <3>3. ASSUME NEW v \in Validators, NodeFollows(v) PROVE WorldGoesOn
      <4>1. /\ nodeEpoch' = [nodeEpoch EXCEPT ![v] = nodeEpoch[v] + 1]
            /\ nodeEpoch[v] + 1 \in Epochs /\ nodeEpoch[v] <= nodeEpoch[v] + 1
            /\ indexerEpoch' = indexerEpoch
        BY <1>0, <3>1, <3>3 DEF NodeFollows, TypeOK
      <4> QED
        BY <1>0, <2>1, <3>1, <4>1 DEF TypeOK, WorldGoesOn
    <3> QED
      BY <1>1, <3>2, <3>3
  <2> QED
    BY <1>0, <2>1, <2>2, SameTableGoesOn, ExplorerStays, HealthStays, InvGoesOn
<1>2. CASE ExplorerMoves
  <2>1. UNCHANGED <<views, vnhealth, server, reported>> /\ (Fault \/ NoFault)
    BY <1>2 DEF ExplorerMoves, ListValidators, ExplorerUpserts, ExplorerUpsertFails, EndPoll
  <2>2. WorldGoesOn
    BY <1>0, <2>1, SameWorldGoesOn
  <2> QED
    BY <1>0, <1>2, <2>1, <2>2, ExplorerGoesOn, HealthStays, FaultsAreCounted, InvGoesOn
<1>3. CASE \/ GetIdentity \/ GetIdentityFails \/ GetConsensusStatus \/ GetConsensusStatusFails
           \/ GetEpochManagerStats \/ GetEpochManagerStatsFails \/ UpsertSelf
           \/ UpsertSelfFails \/ GetAllVns \/ GetAllVnsFails \/ UpsertOther
           \/ UpsertOtherFails \/ EndTurn
  <2>1. UNCHANGED <<views, explorer, server>> /\ (Fault \/ NoFault)
    BY <1>3 DEF GetIdentity, GetIdentityFails, GetConsensusStatus, GetConsensusStatusFails,
       GetEpochManagerStats, GetEpochManagerStatsFails, UpsertSelf, UpsertSelfFails, GetAllVns,
       GetAllVnsFails, UpsertOther, UpsertOtherFails, EndTurn, HealthCall
  <2>2. HealthGoesOn /\ WorldGoesOn /\ TableGoesOn
    <3>1. CASE GetConsensusStatus
      BY <1>0, <3>1, ConsensusStatusHeld, SameTableGoesOn DEF GetConsensusStatus
    <3>2. CASE GetEpochManagerStats
      BY <1>0, <2>1, <3>2, EpochManagerStatsHeld, SameTableGoesOn, SameWorldGoesOn
         DEF GetEpochManagerStats
    <3> QED
      BY <1>3, <3>1, <3>2, TurnsGoOn, UpsertSelfGoesOn, UpsertOtherGoesOn
  <2> QED
    BY <1>0, <2>1, <2>2, ExplorerStays, FaultsAreCounted, InvGoesOn
<1>4. CASE Answer
  <2>1. UNCHANGED <<views, validators, explorer, vnhealth, reported>> /\ NoFault
    BY <1>4 DEF Answer, ReadMaxEpoch, CountSeen
  <2>2. server' \subseteq Epochs \cup {0}
    <3>1. MaxEpochSeen(validators) \subseteq Epochs \cup {0}
      BY DEF MaxEpochSeen, RosterInv, EpochsAreReal
    <3> QED
      BY <1>4, <3>1 DEF Answer, ReadMaxEpoch, CountSeen
  <2> QED
    BY <1>0, <2>1, <2>2, SameWorldGoesOn, SameTableGoesOn, ExplorerStays, HealthStays,
       FaultsAreCounted, InvGoesOn
<1>5. CASE Restart
  <2>1. UNCHANGED <<views, validators, server, reported>> /\ Fault
    BY <1>5 DEF Restart
  <2>2. WorldGoesOn /\ TableGoesOn
    BY <1>0, <2>1, SameWorldGoesOn, SameTableGoesOn
  <2>3. explorer' \in ExplorerState /\ RosterHeld'
    <3>1. CASE UNCHANGED explorer
      BY <2>2, <3>1, ExplorerStays
    <3>2. CASE explorer' = ExplorerStart
      BY <2>2, <3>2, ExplorerStartHeld DEF WorldGoesOn
    <3> QED
      BY <1>5, <3>1, <3>2 DEF Restart
  <2>4. HealthGoesOn
    <3>1. CASE UNCHANGED vnhealth
      BY <2>2, <3>1, HealthStays
    <3>2. CASE vnhealth' = Turn(1)
      <4>1. 1 \in 1..Len(Endpoints)
        BY RosterAssumption
      <4> QED
        BY <3>2, <4>1, TurnHeld
    <3> QED
      BY <1>5, <3>1, <3>2 DEF Restart
  <2> QED
    BY <1>0, <2>1, <2>2, <2>3, <2>4, FaultsAreCounted, InvGoesOn
<1>6. CASE UNCHANGED vars
  <2>1. UNCHANGED <<views, validators, explorer, vnhealth, server, reported, faults>>
    BY <1>6 DEF vars, views
  <2> QED
    BY <1>0, <2>1, SameWorldGoesOn, SameTableGoesOn, ExplorerStays, HealthStays, InvGoesOn
<1> QED
  BY <1>1, <1>2, <1>3, <1>4, <1>5, <1>6
     DEF Next, ExplorerWork, HealthWork, Failure, ExplorerMoves

LEMMA RosterInvHolds == Spec => []RosterInv
<1>1. RosterInv /\ [Next]_vars => RosterInv'
  BY StepInv
<1> QED
  BY InitInv, <1>1, PTL DEF Spec

\* Every variable of ValidatorRoster has its type, whatever the two pollers, the
\* indexer and the nodes do (syncValidators, pollOne).
THEOREM TypeCorrect == Spec => []TypeOK
<1>1. RosterInv => TypeOK
  BY DEF RosterInv
<1> QED
  BY RosterInvHolds, <1>1, PTL

\* No row ever shows another validator's shard group or status: a shard group was
\* given to that validator in an epoch somebody has reached, and a status was
\* reported by its own node (syncValidators, pollOne and their two upserts).
THEOREM NobodyElsesData == Spec => []RowsAreOwn
<1>1. RosterInv => RowsAreOwn
  BY DEF RosterInv
<1> QED
  BY RosterInvHolds, <1>1, PTL

\* What the table knows of a validator is never replaced by "unknown", by a poll
\* that knows less nor by the other poller (UpsertValidator, UpsertValidatorHealth).
THEOREM KnowledgeStays == Spec => KnownIsKept
<1>1. RosterInv /\ [Next]_vars =>
        [\A v \in Validators :
           /\ validators[v].exists => validators'[v].exists
           /\ validators[v].last_seen_epoch # 0 => validators'[v].last_seen_epoch # 0
           /\ validators[v].shard_group # 0 => validators'[v].shard_group # 0
           /\ validators[v].consensus_status # {} => validators'[v].consensus_status # {}]_vars
  BY StepInv, NothingForgotten
<1> QED
  BY RosterInvHolds, <1>1, PTL DEF Spec, KnownIsKept

-----------------------------------------------------------------------------
(* What has converged stays so                                             *)
(*                                                                         *)
(* Once the indexer and the nodes that answer are in the last epoch and no *)
(* poller holds anything older, every upsert writes the last epoch's data  *)
(* or leaves a column as it is, whichever poller it is of, so the table    *)
(* that shows the roster goes on showing it.                               *)

\* Nothing older than the last epoch, for the validator whose turn it is.
Fresh(h) ==
  /\ h.known \subseteq {MaxEpoch}
  /\ h.health.last_seen_epoch \subseteq {MaxEpoch}
  /\ h.health.shard_group \subseteq {ShardGroupAt[MaxEpoch][Endpoints[h.at]]}

CaughtUp ==
  /\ indexerEpoch = MaxEpoch
  /\ \A v \in Polled : nodeEpoch[v] = MaxEpoch
  /\ explorer.pc = "upsert" => explorer.epoch = MaxEpoch
  /\ Fresh(vnhealth)

\* A turn goes beyond the identity only if the node answers.
Answered(h) == h.pc # "identity" => Endpoints[h.at] \notin Unreachable

\* What a step does to vnhealth: it begins a turn, moves on in one, or fills in what
\* a call has told.
MovesOn ==
  /\ UNCHANGED <<vnhealth.at, vnhealth.known, vnhealth.health>>
  /\ \/ vnhealth'.pc = vnhealth.pc
     \/ vnhealth.pc # "identity" \/ Self \notin Unreachable

FillsIn(known, health) ==
  /\ vnhealth.pc # "identity" /\ vnhealth'.at = vnhealth.at
  /\ vnhealth'.known = known /\ vnhealth'.health = health

LEMMA TurnsAre ==
  ASSUME TypeOK
  PROVE  (\E i \in 1..Len(Endpoints) : NextTurn = Turn(i)) /\ 1 \in 1..Len(Endpoints)
BY SelfIsValidator, RosterAssumption DEF NextTurn

StatusTold ==
  \E state : FillsIn({nodeEpoch[Self]}, [last_seen_epoch  |-> {nodeEpoch[Self]},
                                         shard_group      |-> {},
                                         consensus_status |-> state])

StatsHealth(seen, state) == [last_seen_epoch  |-> seen,
                             shard_group      |-> {ShardGroupAt[nodeEpoch[Self]][Self]},
                             consensus_status |-> state]

StatsTold ==
  \E seen \in {vnhealth.known, {nodeEpoch[Self]}} : \E state : FillsIn(seen, StatsHealth(seen, state))

LEMMA FilledIn ==
  ASSUME NEW pc, NEW known, NEW health, NEW todo, vnhealth.pc # "identity",
         vnhealth' = [pc |-> pc, at |-> vnhealth.at, known |-> known, health |-> health,
                      todo |-> todo]
  PROVE  FillsIn(known, health)
BY DEF FillsIn

LEMMA HealthStepShape ==
  ASSUME TypeOK, [Next]_vars
  PROVE  \/ \E i \in 1..Len(Endpoints) : vnhealth' = Turn(i)
         \/ MovesOn
         \/ StatusTold
         \/ StatsTold
<1>1. CASE UNCHANGED vnhealth
  BY <1>1 DEF MovesOn
<1>2. CASE vnhealth' = NextTurn \/ vnhealth' = Turn(1)
  BY <1>2, TurnsAre
<1>3. ASSUME NEW pc, vnhealth' = [vnhealth EXCEPT !.pc = pc],
             vnhealth.pc # "identity" \/ Self \notin Unreachable
      PROVE  MovesOn
  BY <1>3, Moves DEF MovesOn
<1>4. ASSUME NEW todo, vnhealth' = [vnhealth EXCEPT !.todo = todo]
      PROVE  MovesOn
  BY <1>4, HealthIs DEF MovesOn
<1>5. CASE GetAllVns
  <2>1. PICK todo : vnhealth' = [vnhealth EXCEPT !.pc = "others", !.todo = todo]
    BY <1>5 DEF GetAllVns
  <2>2. vnhealth' = [pc |-> "others", at |-> vnhealth.at, known |-> vnhealth.known,
                     health |-> vnhealth.health, todo |-> todo]
    BY <2>1, HealthIs
  <2> QED
    BY <1>5, <2>2 DEF GetAllVns, HealthCall, MovesOn
<1>6. CASE UpsertOther \/ UpsertOtherFails
  <2>1. PICK v : vnhealth' = [vnhealth EXCEPT !.todo = vnhealth.todo \ {v}]
    BY <1>6 DEF UpsertOther, UpsertOtherFails
  <2> QED
    BY <1>4, <2>1
<1>7. CASE GetConsensusStatus
  <2> DEFINE e == nodeEpoch[Self]
  <2>1. PICK state : vnhealth' = [vnhealth EXCEPT !.pc     = "stats",
                                                  !.known  = {e},
                                                  !.health = [NoHealth EXCEPT
                                                                !.last_seen_epoch  = {e},
                                                                !.consensus_status = {state}]]
    BY <1>7 DEF GetConsensusStatus
  <2> DEFINE h == [last_seen_epoch |-> {e}, shard_group |-> {}, consensus_status |-> {state}]
  <2>2. h = [NoHealth EXCEPT !.last_seen_epoch = {e}, !.consensus_status = {state}]
    BY StatusFilledIn
  <2> HIDE DEF e, h
  <2>3. vnhealth' = [pc |-> "stats", at |-> vnhealth.at, known |-> {e}, health |-> h,
                     todo |-> vnhealth.todo]
    BY <2>1, <2>2, HealthIs
  <2>4. FillsIn({e}, h)
    BY <1>7, <2>3 DEF FillsIn, GetConsensusStatus, HealthCall
  <2> QED
    BY <2>4 DEF e, h, StatusTold
<1>8. CASE GetEpochManagerStats
  <2> DEFINE e == nodeEpoch[Self]
             seen == IF vnhealth.known = {} THEN {e} ELSE vnhealth.known
             g == ShardGroupAt[e][Self]
             c == vnhealth.health.consensus_status
             h == [last_seen_epoch |-> seen, shard_group |-> {g}, consensus_status |-> c]
  <2>1. CASE vnhealth' = [vnhealth EXCEPT !.pc = "self"]
    BY <1>3, <1>8, <2>1 DEF GetEpochManagerStats, HealthCall
  <2>2. CASE vnhealth' = [vnhealth EXCEPT !.pc = "self", !.known = seen,
                                          !.health = [@ EXCEPT !.last_seen_epoch = seen,
                                                               !.shard_group = {g}]]
    <3>0. vnhealth.health \in Health
      BY HealthIs
    <3>1. h = [vnhealth.health EXCEPT !.last_seen_epoch = seen, !.shard_group = {g}]
      BY <3>0, StatsFilledIn
    <3>2. vnhealth' = [vnhealth EXCEPT !.pc = "self", !.known = seen, !.health = h]
      BY <2>2, <3>1
    <3>3. seen \in {vnhealth.known, {e}}
      OBVIOUS
    <3> HIDE DEF seen, h
    <3>4. vnhealth' = [pc |-> "self", at |-> vnhealth.at, known |-> seen, health |-> h,
                       todo |-> vnhealth.todo]
      BY <3>2, HealthIs
    <3>5. FillsIn(seen, h)
      BY <1>8, <3>4, FilledIn DEF GetEpochManagerStats, HealthCall
    <3>6. h = StatsHealth(seen, c)
      BY DEF h, StatsHealth
    <3> HIDE DEF c
    <3>7. StatsTold
      BY <3>3, <3>5, <3>6 DEF StatsTold
    <3> QED
      BY <3>7
  <2> QED
    BY <1>8, <2>1, <2>2 DEF GetEpochManagerStats
<1>9. CASE GetIdentity \/ GetConsensusStatusFails \/ GetEpochManagerStatsFails \/ UpsertSelf
  BY <1>2, <1>3, <1>9 DEF GetIdentity, GetConsensusStatusFails, GetEpochManagerStatsFails,
                          UpsertSelf, HealthCall
<1>10. CASE GetIdentityFails \/ UpsertSelfFails \/ GetAllVnsFails \/ EndTurn
  BY <1>2, <1>10 DEF GetIdentityFails, UpsertSelfFails, GetAllVnsFails, EndTurn
<1>11. CASE Restart
  BY <1>1, <1>2, <1>11 DEF Restart
<1>12. \/ GetIdentity \/ GetIdentityFails \/ GetConsensusStatus \/ GetConsensusStatusFails
       \/ GetEpochManagerStats \/ GetEpochManagerStatsFails \/ UpsertSelf
       \/ UpsertSelfFails \/ GetAllVns \/ GetAllVnsFails \/ UpsertOther
       \/ UpsertOtherFails \/ EndTurn \/ Restart \/ UNCHANGED vnhealth
  BY DEF Next, IndexerFollows, NodeFollows, ExplorerWork, ListValidators, ExplorerUpserts,
         ExplorerUpsertFails, EndPoll, HealthWork, Failure, Answer, ReadMaxEpoch, CountSeen, vars
<1> QED
  BY <1>1, <1>5, <1>6, <1>7, <1>8, <1>9, <1>10, <1>11, <1>12

LEMMA AnsweredInit == Init => Answered(vnhealth)
  BY DEF Init, Turn, Answered

LEMMA AnsweredStep ==
  ASSUME TypeOK, Answered(vnhealth), [Next]_vars
  PROVE  Answered(vnhealth)'
<1>1. CASE \E i \in 1..Len(Endpoints) : vnhealth' = Turn(i)
  BY <1>1 DEF Turn, Answered
<1>2. CASE MovesOn
  BY <1>2 DEF MovesOn, Answered, Self
<1>3. ASSUME NEW known, NEW health, FillsIn(known, health)
      PROVE  Answered(vnhealth)'
  BY <1>3 DEF FillsIn, Answered
<1> QED
  BY <1>1, <1>2, <1>3, HealthStepShape DEF StatusTold, StatsTold

\* The node asked for its status or its stats is in the last epoch.
LEMMA AskedInLastEpoch ==
  ASSUME TypeOK, CaughtUp, Answered(vnhealth), vnhealth.pc # "identity"
  PROVE  nodeEpoch[Self] = MaxEpoch
<1>1. vnhealth.at \in 1..Len(Endpoints)
  BY SelfIsValidator
<1>2. Self \in Polled
  BY <1>1 DEF Answered, Self, Polled
<1> QED
  BY <1>2 DEF CaughtUp

LEMMA FreshStep ==
  ASSUME TypeOK, CaughtUp, Answered(vnhealth), [Next]_vars
  PROVE  Fresh(vnhealth)'
<1>1. Fresh(vnhealth)
  BY DEF CaughtUp
<1>2. CASE \E i \in 1..Len(Endpoints) : vnhealth' = Turn(i)
  BY <1>2 DEF Turn, Fresh, NoHealth
<1>3. CASE MovesOn
  BY <1>1, <1>3 DEF MovesOn, Fresh
<1>4. CASE StatusTold
  <2>1. PICK health : /\ FillsIn({nodeEpoch[Self]}, health)
                      /\ health.last_seen_epoch = {nodeEpoch[Self]}
                      /\ health.shard_group = {}
    BY <1>4 DEF StatusTold
  <2>2. nodeEpoch[Self] = MaxEpoch
    BY <2>1, AskedInLastEpoch DEF FillsIn
  <2> QED
    BY <2>1, <2>2 DEF FillsIn, Fresh
<1>5. CASE StatsTold
  <2>1. PICK seen \in {vnhealth.known, {nodeEpoch[Self]}} :
          \E state : FillsIn(seen, StatsHealth(seen, state))
    BY <1>5 DEF StatsTold
  <2>2. PICK state : FillsIn(seen, StatsHealth(seen, state))
    BY <2>1
  <2>3. nodeEpoch[Self] = MaxEpoch
    BY <2>2, AskedInLastEpoch DEF FillsIn
  <2>4. /\ vnhealth'.at = vnhealth.at /\ vnhealth'.known = seen
        /\ vnhealth'.health.last_seen_epoch = seen
        /\ vnhealth'.health.shard_group = {ShardGroupAt[MaxEpoch][Endpoints[vnhealth.at]]}
    BY <2>2, <2>3 DEF FillsIn, StatsHealth, Self
  <2> QED
    BY <1>1, <2>1, <2>3, <2>4 DEF Fresh
<1> QED
  BY <1>2, <1>3, <1>4, <1>5, HealthStepShape

\* Nobody who has caught up falls behind.
LEMMA CaughtUpStep ==
  ASSUME RosterInv, CaughtUp, Answered(vnhealth), [Next]_vars
  PROVE  CaughtUp'
<1>1. TypeOK
  BY DEF RosterInv
<1>2. Fresh(vnhealth)'
  BY <1>1, FreshStep
<1>3. UNCHANGED views
  <2>1. ~IndexerFollows
    BY RosterAssumption DEF CaughtUp, IndexerFollows
  <2>2. \A v \in Validators : ~NodeFollows(v)
    BY RosterAssumption DEF CaughtUp, NodeFollows
  <2> QED
    BY <2>1, <2>2
       DEF Next, ExplorerWork, ListValidators, ExplorerUpserts, EndPoll, HealthWork, GetIdentity,
           GetConsensusStatus, GetEpochManagerStats, UpsertSelf, GetAllVns, UpsertOther, EndTurn,
           GetIdentityFails, Failure, GetConsensusStatusFails, GetEpochManagerStatsFails,
           UpsertSelfFails, GetAllVnsFails, UpsertOtherFails, ExplorerUpsertFails, HealthCall,
           Answer, ReadMaxEpoch, CountSeen, Restart, vars, views
<1>4. explorer'.pc = "upsert" => explorer'.epoch = MaxEpoch
  <2>1. CASE UNCHANGED explorer
    BY <2>1 DEF CaughtUp
  <2>2. CASE ListValidators
    BY <2>2 DEF ListValidators, CaughtUp
  <2>3. CASE explorer' = ExplorerStart
    BY <2>3 DEF ExplorerStart
  <2>4. CASE ExplorerUpserts
    BY <1>1, <2>4 DEF ExplorerUpserts, TypeOK, ExplorerState, CaughtUp
  <2> QED
    BY <2>1, <2>2, <2>3, <2>4
       DEF Next, IndexerFollows, NodeFollows, ExplorerWork, EndPoll, HealthWork, GetIdentity,
           GetConsensusStatus, GetEpochManagerStats, UpsertSelf, GetAllVns, UpsertOther, EndTurn,
           GetIdentityFails, Failure, GetConsensusStatusFails, GetEpochManagerStatsFails,
           UpsertSelfFails, GetAllVnsFails, UpsertOtherFails, ExplorerUpsertFails, HealthCall,
           Answer, ReadMaxEpoch, CountSeen, Restart, vars
<1> QED
  BY <1>2, <1>3, <1>4 DEF CaughtUp, views

\* The columns of a row keep their values or get those of the last epoch.
RowSettles(v) ==
  /\ validators'[v].last_seen_epoch \in {validators[v].last_seen_epoch, MaxEpoch}
  /\ validators'[v].shard_group \in {validators[v].shard_group, ShardGroupAt[MaxEpoch][v]}

LEMMA HealthSettles ==
  ASSUME TypeOK, NEW v \in Validators, NEW health, health.last_seen_epoch \subseteq {MaxEpoch},
         health.shard_group \subseteq {ShardGroupAt[MaxEpoch][v]},
         validators' = UpsertValidatorHealth(validators, v, health), NEW w \in Validators
  PROVE  RowSettles(w)
<1> DEFINE old == validators[v]
           epoch == Coalesce(health.last_seen_epoch, old.last_seen_epoch)
           group == Coalesce(health.shard_group, old.shard_group)
<1>1. epoch \in {old.last_seen_epoch, MaxEpoch} /\ group \in {old.shard_group, ShardGroupAt[MaxEpoch][v]}
  <2>1. epoch = old.last_seen_epoch \/ epoch \in health.last_seen_epoch
    BY Coalesced
  <2>2. group = old.shard_group \/ group \in health.shard_group
    BY Coalesced
  <2> HIDE DEF epoch, group
  <2> QED
    BY <2>1, <2>2
<1> DEFINE row == [exists           |-> TRUE,
                   last_seen_epoch  |-> epoch,
                   shard_group      |-> group,
                   consensus_status |-> IF health.consensus_status = {} THEN old.consensus_status
                                                                       ELSE health.consensus_status]
<1>2. validators' = [validators EXCEPT ![v] = row]
  BY DEF UpsertValidatorHealth
<1>3. row.last_seen_epoch = epoch /\ row.shard_group = group
  OBVIOUS
<1> HIDE DEF row, epoch, group
<1>4. validators'[v] = row /\ (w # v => validators'[w] = validators[w])
  BY <1>2 DEF TypeOK
<1> QED
  BY <1>1, <1>3, <1>4 DEF RowSettles

LEMMA RowsSettle ==
  ASSUME TypeOK, CaughtUp, [Next]_vars, NEW w \in Validators
  PROVE  RowSettles(w)
<1>1. CASE UNCHANGED validators
  BY <1>1 DEF RowSettles
<1>2. CASE ExplorerUpserts
  <2>1. PICK v \in explorer.todo :
          validators' = UpsertValidator(validators, v, explorer.epoch, ShardGroupAt[explorer.epoch][v])
    BY <1>2 DEF ExplorerUpserts
  <2>2. explorer.epoch = MaxEpoch /\ v \in Validators
    BY <1>2 DEF ExplorerUpserts, CaughtUp, TypeOK, ExplorerState
  <2>3. /\ validators'[v].last_seen_epoch = MaxEpoch
        /\ validators'[v].shard_group = ShardGroupAt[MaxEpoch][v]
        /\ w # v => validators'[w] = validators[w]
    BY <2>1, <2>2 DEF UpsertValidator, TypeOK
  <2> QED
    BY <2>3 DEF RowSettles
<1>3. CASE UpsertSelf
  <2>1. /\ vnhealth.health.last_seen_epoch \subseteq {MaxEpoch}
        /\ vnhealth.health.shard_group \subseteq {ShardGroupAt[MaxEpoch][Self]}
        /\ Self \in Validators
    BY SelfIsValidator DEF CaughtUp, Fresh, Self
  <2> QED
    BY <1>3, <2>1, HealthSettles DEF UpsertSelf
<1>4. CASE UpsertOther
  <2>1. PICK v \in vnhealth.todo :
          validators' = UpsertValidatorHealth(validators, v, Enrichment(vnhealth))
    BY <1>4 DEF UpsertOther
  <2>2. v \in Validators /\ vnhealth.known \subseteq {MaxEpoch}
    BY HealthIs DEF CaughtUp, Fresh
  <2>3. PICK health : health = Enrichment(vnhealth)
    OBVIOUS
  <2>4. health.last_seen_epoch = vnhealth.known /\ health.shard_group = {}
    BY <2>3 DEF Enrichment, NoHealth
  <2> QED
    BY <2>1, <2>2, <2>3, <2>4, HealthSettles
<1> QED
  BY <1>1, <1>2, <1>3, <1>4
     DEF Next, IndexerFollows, NodeFollows, ExplorerWork, ListValidators, EndPoll, HealthWork,
         GetIdentity, GetConsensusStatus, GetEpochManagerStats, GetAllVns, EndTurn,
         GetIdentityFails, Failure, GetConsensusStatusFails, GetEpochManagerStatsFails,
         UpsertSelfFails, GetAllVnsFails, UpsertOtherFails, ExplorerUpsertFails,
         Answer, ReadMaxEpoch, CountSeen, Restart, vars

LEMMA ShownStays ==
  ASSUME RosterInv, CaughtUp, RosterShown, [Next]_vars
  PROVE  RosterShown'
<1>1. TypeOK /\ TableGoesOn /\ MaxEpoch \in Epochs
  BY StepInv, RosterAssumption DEF RosterInv, Epochs
<1>2. RosterAt[MaxEpoch] \subseteq Validators /\ Polled \subseteq Validators
  BY <1>1, RostersAreKnown, RosterAssumption DEF Polled
<1>3. \A v \in Validators : RowSettles(v)
  BY <1>1, RowsSettle
<1>4. \A v \in Validators : validators[v].consensus_status # {} => validators'[v].consensus_status # {}
  BY <1>1, NothingForgotten
<1> QED
  BY <1>2, <1>3, <1>4 DEF RosterShown, RowSettles

\* Once everybody is in the last epoch and no poller holds anything older, a table
\* that shows that epoch's roster shows it for good: no upsert of either poller,
\* failed call, unreachable node or restart undoes it (Poll, syncValidators).
THEOREM SettledStays == Spec => [](CaughtUp /\ RosterShown => [](CaughtUp /\ RosterShown))
<1>1. Spec => []Answered(vnhealth)
  BY AnsweredInit, AnsweredStep, TypeCorrect, PTL DEF Spec
<1>2. RosterInv /\ Answered(vnhealth) /\ CaughtUp /\ RosterShown /\ [Next]_vars
        => (CaughtUp /\ RosterShown)'
  BY CaughtUpStep, ShownStays
<1> QED
  BY <1>1, <1>2, RosterInvHolds, PTL DEF Spec

(* The summary: what is counted is there, and the newest epoch it finds is  *)
(* the last one.                                                           *)

RowsExist == \A v \in Validators : validators[v].last_seen_epoch # 0 => validators[v].exists

LEMMA RowsExistInit == Init => RowsExist
  BY DEF Init, EmptyTable, NoRow, RowsExist

LEMMA RowsExistStep ==
  ASSUME TypeOK, RowsExist, [Next]_vars
  PROVE  RowsExist'
<1>1. CASE UNCHANGED validators
  BY <1>1 DEF RowsExist
<1>2. CASE ExplorerUpserts
  BY <1>2 DEF ExplorerUpserts, UpsertValidator, RowsExist, TypeOK
<1>3. ASSUME NEW v, NEW health, validators' = UpsertValidatorHealth(validators, v, health)
      PROVE  RowsExist'
  <2>1. PICK row : validators' = [validators EXCEPT ![v] = row] /\ row.exists
    <3> DEFINE row == [exists           |-> TRUE,
                       last_seen_epoch  |-> Coalesce(health.last_seen_epoch, validators[v].last_seen_epoch),
                       shard_group      |-> Coalesce(health.shard_group, validators[v].shard_group),
                       consensus_status |-> IF health.consensus_status = {}
                                              THEN validators[v].consensus_status
                                              ELSE health.consensus_status]
    <3>1. validators' = [validators EXCEPT ![v] = row]
      BY <1>3 DEF UpsertValidatorHealth
    <3>2. row.exists
      OBVIOUS
    <3> HIDE DEF row
    <3> QED
      BY <3>1, <3>2
  <2> QED
    BY <2>1 DEF RowsExist, TypeOK
<1> QED
  BY <1>1, <1>2, <1>3
     DEF Next, IndexerFollows, NodeFollows, ExplorerWork, ListValidators, EndPoll, HealthWork,
         GetIdentity, GetConsensusStatus, GetEpochManagerStats, UpsertSelf, GetAllVns, UpsertOther,
         EndTurn, GetIdentityFails, Failure, GetConsensusStatusFails, GetEpochManagerStatsFails,
         UpsertSelfFails, GetAllVnsFails, UpsertOtherFails, ExplorerUpsertFails,
         Answer, ReadMaxEpoch, CountSeen, Restart, vars

\* Who a row says was seen in an epoch was in its roster, or is a node that answers:
\* the one writer works through a roster, and so does the other but for the node it
\* asks.
LastSeenIsReal ==
  \A v \in Validators :
    validators[v].last_seen_epoch # 0 => v \in RosterAt[validators[v].last_seen_epoch] \cup Polled

\* A poll knows one epoch at most, and has still to write only that epoch's roster.
OthersAreRegistered(h) ==
  /\ \A d, e \in h.known : d = e
  /\ h.pc = "others" => \A e \in h.known : h.todo \subseteq RosterAt[e]

LEMMA OthersStep ==
  ASSUME TypeOK, OthersAreRegistered(vnhealth), [Next]_vars
  PROVE  OthersAreRegistered(vnhealth')
<1>1. \A d, e \in vnhealth'.known : d = e
  <2>1. \/ vnhealth'.known = vnhealth.known
        \/ vnhealth'.known = {} \/ vnhealth'.known = {nodeEpoch[Self]}
    <3>1. CASE \E i \in 1..Len(Endpoints) : vnhealth' = Turn(i)
      BY <3>1 DEF Turn
    <3>2. CASE MovesOn
      BY <3>2 DEF MovesOn
    <3>3. CASE StatusTold
      BY <3>3 DEF StatusTold, FillsIn
    <3>4. CASE StatsTold
      <4>1. PICK seen \in {vnhealth.known, {nodeEpoch[Self]}} :
              \E state : FillsIn(seen, StatsHealth(seen, state))
        BY <3>4 DEF StatsTold
      <4> QED
        BY <4>1 DEF FillsIn
    <3> QED
      BY <3>1, <3>2, <3>3, <3>4, HealthStepShape
  <2> QED
    BY <2>1 DEF OthersAreRegistered
<1>2. CASE GetAllVns
  <2>1. PICK epoch \in vnhealth.known :
          vnhealth' = [vnhealth EXCEPT !.pc = "others", !.todo = RosterAt[epoch] \ {Self}]
    BY <1>2 DEF GetAllVns
  <2>2. PICK todo : todo = RosterAt[epoch] \ {Self}
    OBVIOUS
  <2>3. vnhealth'.known = vnhealth.known /\ vnhealth'.todo = todo
    BY <2>1, <2>2, HealthIs
  <2> QED
    BY <1>1, <2>2, <2>3 DEF OthersAreRegistered
<1>3. CASE UpsertOther \/ UpsertOtherFails
  <2>1. PICK v : vnhealth' = [vnhealth EXCEPT !.todo = vnhealth.todo \ {v}]
    BY <1>3 DEF UpsertOther, UpsertOtherFails
  <2>2. PICK todo : todo = vnhealth.todo \ {v}
    OBVIOUS
  <2>3. /\ vnhealth'.known = vnhealth.known /\ vnhealth'.pc = vnhealth.pc
        /\ vnhealth'.todo = todo /\ todo \subseteq vnhealth.todo
    BY <2>1, <2>2, HealthIs
  <2> QED
    BY <1>1, <2>3 DEF OthersAreRegistered
<1>4. CASE UNCHANGED vnhealth
  BY <1>4
<1>5. ASSUME NEW pc \in Calls \ {"others"}, vnhealth' = [vnhealth EXCEPT !.pc = pc]
      PROVE  vnhealth'.pc # "others"
  BY <1>5, Moves
<1>6. CASE vnhealth' = NextTurn \/ vnhealth' = Turn(1)
  BY <1>1, <1>6 DEF NextTurn, Turn, OthersAreRegistered
<1>7. CASE GetIdentity \/ GetConsensusStatusFails \/ GetEpochManagerStatsFails \/ UpsertSelf
  BY <1>1, <1>5, <1>6, <1>7, CallsAre
     DEF GetIdentity, GetConsensusStatusFails, GetEpochManagerStatsFails, UpsertSelf, Calls,
         OthersAreRegistered
<1>8. CASE GetConsensusStatus \/ GetEpochManagerStats
  <2>1. \E pc \in {"stats", "self"} : \E known, health :
          \/ vnhealth' = [vnhealth EXCEPT !.pc = pc, !.known = known, !.health = health]
          \/ vnhealth' = [vnhealth EXCEPT !.pc = pc]
    BY <1>8, Zenon DEF GetConsensusStatus, GetEpochManagerStats
  <2>2. vnhealth'.pc \in {"stats", "self"}
    BY <2>1, HealthIs
  <2> QED
    BY <1>1, <2>2 DEF OthersAreRegistered
<1>9. CASE GetIdentityFails \/ UpsertSelfFails \/ GetAllVnsFails \/ EndTurn \/ Restart
  BY <1>4, <1>6, <1>9 DEF GetIdentityFails, UpsertSelfFails, GetAllVnsFails, EndTurn, Restart
<1> QED
  BY <1>2, <1>3, <1>4, <1>7, <1>8, <1>9
  DEF Next, IndexerFollows, NodeFollows, ExplorerWork, ListValidators, ExplorerUpserts,
      ExplorerUpsertFails, EndPoll, HealthWork, Failure, Answer, ReadMaxEpoch, CountSeen, vars

LEMMA LastSeenWritten ==
  ASSUME TypeOK, NEW v \in Validators, NEW health,
         validators' = UpsertValidatorHealth(validators, v, health)
  PROVE  /\ validators'[v].last_seen_epoch = validators[v].last_seen_epoch
            \/ validators'[v].last_seen_epoch \in health.last_seen_epoch
         /\ \A w \in Validators \ {v} : validators'[w] = validators[w]
<1> DEFINE epoch == Coalesce(health.last_seen_epoch, validators[v].last_seen_epoch)
           row == [exists           |-> TRUE,
                   last_seen_epoch  |-> epoch,
                   shard_group      |-> Coalesce(health.shard_group, validators[v].shard_group),
                   consensus_status |-> IF health.consensus_status = {}
                                          THEN validators[v].consensus_status
                                          ELSE health.consensus_status]
<1>1. validators' = [validators EXCEPT ![v] = row]
  BY DEF UpsertValidatorHealth
<1>2. row.last_seen_epoch = epoch
  OBVIOUS
<1>3. epoch = validators[v].last_seen_epoch \/ epoch \in health.last_seen_epoch
  BY Coalesced
<1> HIDE DEF row, epoch
<1> QED
  BY <1>1, <1>2, <1>3 DEF TypeOK

LEMMA LastSeenStep ==
  ASSUME RosterInv, Answered(vnhealth), OthersAreRegistered(vnhealth), LastSeenIsReal, [Next]_vars
  PROVE  LastSeenIsReal'
<1>0. TypeOK
  BY DEF RosterInv
<1>1. CASE UNCHANGED validators
  BY <1>1 DEF LastSeenIsReal
<1>2. CASE ExplorerUpserts
  <2>1. PICK v \in explorer.todo :
          validators' = UpsertValidator(validators, v, explorer.epoch, ShardGroupAt[explorer.epoch][v])
    BY <1>2 DEF ExplorerUpserts
  <2>2. v \in Validators /\ v \in RosterAt[explorer.epoch]
    BY <1>0 DEF TypeOK, ExplorerState, RosterInv, RosterHeld
  <2>3. /\ validators'[v].last_seen_epoch = explorer.epoch
        /\ \A w \in Validators \ {v} : validators'[w] = validators[w]
    BY <1>0, <2>1, <2>2 DEF UpsertValidator, TypeOK
  <2> QED
    BY <2>2, <2>3 DEF LastSeenIsReal
<1>3. CASE UpsertSelf
  <2>1. Self \in Validators /\ Self \in Polled
    BY <1>0, <1>3, SelfIsValidator DEF Answered, UpsertSelf, HealthCall, Self, Polled
  <2>2. PICK health : validators' = UpsertValidatorHealth(validators, Self, health)
    BY <1>3 DEF UpsertSelf
  <2>3. \A w \in Validators \ {Self} : validators'[w] = validators[w]
    BY <1>0, <2>1, <2>2, LastSeenWritten
  <2> QED
    BY <2>1, <2>3 DEF LastSeenIsReal
<1>4. CASE UpsertOther
  <2>1. PICK v \in vnhealth.todo :
          validators' = UpsertValidatorHealth(validators, v, Enrichment(vnhealth))
    BY <1>4 DEF UpsertOther
  <2>2. v \in Validators /\ \A e \in vnhealth.known : v \in RosterAt[e]
    BY <1>0, <1>4, HealthIs DEF OthersAreRegistered, UpsertOther, HealthCall
  <2>0. PICK health : health = Enrichment(vnhealth)
    OBVIOUS
  <2>3. health.last_seen_epoch = vnhealth.known
    BY <2>0 DEF Enrichment, NoHealth
  <2>4. /\ validators'[v].last_seen_epoch = validators[v].last_seen_epoch
           \/ validators'[v].last_seen_epoch \in vnhealth.known
        /\ \A w \in Validators \ {v} : validators'[w] = validators[w]
    BY <1>0, <2>0, <2>1, <2>2, <2>3, LastSeenWritten
  <2> QED
    BY <2>2, <2>4 DEF LastSeenIsReal
<1> QED
  BY <1>1, <1>2, <1>3, <1>4
     DEF Next, IndexerFollows, NodeFollows, ExplorerWork, ListValidators, EndPoll, HealthWork,
         GetIdentity, GetConsensusStatus, GetEpochManagerStats, GetAllVns, EndTurn,
         GetIdentityFails, Failure, GetConsensusStatusFails, GetEpochManagerStatsFails,
         UpsertSelfFails, GetAllVnsFails, UpsertOtherFails, ExplorerUpsertFails,
         Answer, ReadMaxEpoch, CountSeen, Restart, vars

RowsAreSeen == LastSeenIsReal /\ OthersAreRegistered(vnhealth)

LEMMA RowsAreSeenInit == Init => RowsAreSeen
  BY DEF Init, EmptyTable, NoRow, Turn, RowsAreSeen, LastSeenIsReal, OthersAreRegistered

LEMMA NewestIsLast ==
  ASSUME RosterInv, RowsExist, RosterShown, RosterAt[MaxEpoch] # {}
  PROVE  /\ MaxEpochSeen(validators) \subseteq {MaxEpoch}
         /\ RosterAt[MaxEpoch] \subseteq SeenInEpoch(validators, MaxEpoch)
<1>1. MaxEpoch \in Epochs /\ MaxEpoch # 0
  BY RosterAssumption DEF Epochs
<1>2. PICK v : v \in RosterAt[MaxEpoch]
  OBVIOUS
<1>3. \A w \in RosterAt[MaxEpoch] :
        w \in Validators /\ validators[w].last_seen_epoch = MaxEpoch /\ validators[w].exists
  BY <1>1, RostersAreKnown DEF RosterShown, RowsExist
<1>4. \A w \in Validators :
        validators[w].last_seen_epoch \in Nat /\ validators[w].last_seen_epoch <= MaxEpoch
  BY <1>1, EpochsAreNumbers DEF RosterInv, EpochsAreReal
<1>5. ASSUME NEW e \in MaxEpochSeen(validators) PROVE e = MaxEpoch
  <2>1. MaxEpoch <= e /\ \E w \in Validators : e = validators[w].last_seen_epoch
    BY <1>2, <1>3, <1>5 DEF MaxEpochSeen
  <2> QED
    BY <1>1, <1>4, <2>1, EpochsAreNumbers
<1> QED
  BY <1>3, <1>5 DEF SeenInEpoch

LEMMA RosterIsCounted ==
  ASSUME RosterInv, RowsExist, LastSeenIsReal, RosterShown, RosterAt[MaxEpoch] # {}
  PROVE  CountsTheRoster(SeenInEpoch(validators, MaxEpoch))
<1>1. MaxEpoch # 0
  BY RosterAssumption
<1>2. SeenInEpoch(validators, MaxEpoch) \subseteq RosterAt[MaxEpoch] \cup Polled
  BY <1>1 DEF SeenInEpoch, LastSeenIsReal
<1> QED
  BY <1>2, NewestIsLast DEF CountsTheRoster

\* From then on a summary that is begun is of the last epoch, and counts all of its
\* roster and besides it only nodes that answer although they have left it, whatever
\* is written between its two queries (GetLiveValidatorEpochSummary).
THEOREM SummaryStays ==
  ASSUME RosterAt[MaxEpoch] # {}
  PROVE  Spec => [](CaughtUp /\ RosterShown /\ server = {}
                      => [][CountSeen => /\ server = {MaxEpoch}
                                         /\ CountsTheRoster(SeenInEpoch(validators, MaxEpoch))]_vars)
<1> DEFINE Settled == CaughtUp /\ RosterShown /\ server \subseteq {MaxEpoch}
<1>1. Spec => []Answered(vnhealth)
  BY AnsweredInit, AnsweredStep, TypeCorrect, PTL DEF Spec
<1>2. Spec => []RowsExist
  BY RowsExistInit, RowsExistStep, TypeCorrect, PTL DEF Spec
<1>s. Spec => []RowsAreSeen
  <2>1. RosterInv /\ Answered(vnhealth) /\ RowsAreSeen /\ [Next]_vars => RowsAreSeen'
    BY OthersStep, LastSeenStep DEF RosterInv, RowsAreSeen
  <2> QED
    BY <1>1, <2>1, RowsAreSeenInit, RosterInvHolds, PTL DEF Spec
<1>3. RosterInv /\ Answered(vnhealth) /\ RowsExist /\ Settled /\ [Next]_vars => Settled'
  <2> SUFFICES ASSUME RosterInv, Answered(vnhealth), RowsExist, Settled, [Next]_vars
               PROVE  Settled'
    OBVIOUS
  <2>1. (CaughtUp /\ RosterShown)'
    BY CaughtUpStep, ShownStays
  <2>2. server' = server \/ server' = MaxEpochSeen(validators) \/ server' = {}
    BY DEF Next, IndexerFollows, NodeFollows, ExplorerWork, ListValidators, ExplorerUpserts,
           EndPoll, HealthWork, GetIdentity, GetConsensusStatus, GetEpochManagerStats, UpsertSelf,
           GetAllVns, UpsertOther, EndTurn, GetIdentityFails, Failure, GetConsensusStatusFails,
           GetEpochManagerStatsFails, UpsertSelfFails, GetAllVnsFails, UpsertOtherFails,
           ExplorerUpsertFails, HealthCall, Answer, ReadMaxEpoch, CountSeen, Restart, vars
  <2> QED
    BY <2>1, <2>2, NewestIsLast
<1>4. RosterInv /\ RowsExist /\ RowsAreSeen /\ Settled /\ [Next]_vars
        => [CountSeen => /\ server = {MaxEpoch}
                         /\ CountsTheRoster(SeenInEpoch(validators, MaxEpoch))]_vars
  <2>1. CountSeen /\ server \subseteq {MaxEpoch} => server = {MaxEpoch}
    BY DEF CountSeen
  <2> QED
    BY <2>1, RosterIsCounted DEF RowsAreSeen
<1>5. CaughtUp /\ RosterShown /\ server = {} => Settled
  OBVIOUS
<1> HIDE DEF Settled
<1> QED
  BY <1>1, <1>2, <1>s, <1>3, <1>4, <1>5, RosterInvHolds, PTL DEF Spec

=============================================================================
