------------------------- MODULE Migrations_proofs -------------------------
(***************************************************************************)
(* Migrate is safe for any number of processes and of crashes: no process  *)
(* works on an unfinished schema, the schema is what the record says, and  *)
(* no row is lost to a migration that drops its table.                     *)
(***************************************************************************)
EXTENDS Migrations, TLAPS

(***************************************************************************)
(* The properties rest on four facts about where the processes are.        *)
(*   Progress      what a process has passed is recorded.                  *)
(*   Exclusive     no two open transactions have changed the same table.   *)
(*   CommitIsNew   a transaction that has inserted its version is the only *)
(*                 one that can commit it: the version is not recorded.    *)
(*   DroppedEmpty  a table that a version still to come will drop is empty.*)
(***************************************************************************)
Progress ==
  \A p \in Procs :
    proc[p].pc \in {"check", "apply", "record", "commit"} =>
      \A v \in Versions : v < proc[p].at => v \in recorded

Exclusive ==
  \A p, q \in Procs :
    p # q /\ InTransaction(p) /\ InTransaction(q) =>
      Touches(proc[p].at) \cap Touches(proc[q].at) = {}

CommitIsNew == \A p \in Procs : proc[p].pc = "commit" => proc[p].at \notin recorded

DroppedEmpty ==
  \A v \in Versions, t \in Tables : t \in Drops(v) /\ rows[t] => v \in recorded

MigrationInv ==
  /\ TypeOK
  /\ Progress
  /\ ReadyHasSchema
  /\ Exclusive
  /\ CommitIsNew
  /\ DroppedEmpty

-----------------------------------------------------------------------------
(* The forms of tables *)

IsForm(k, t, v) ==
  /\ v = 0 \/ t \in Touches(v)
  /\ \A w \in 1..k : t \in Touches(w) => w <= v

LEMMA FormIs ==
  ASSUME NEW k \in 0..4, NEW t, NEW v \in 0..k, IsForm(k, t, v)
  PROVE  FormAfter(k, t) = v
<1>1. ASSUME NEW u \in 0..k, IsForm(k, t, u)
      PROVE  u = v
  <2>1. u <= v
    BY <1>1 DEF IsForm
  <2>2. v <= u
    BY <1>1 DEF IsForm
  <2> QED
    BY <2>1, <2>2
<1> QED
  BY <1>1 DEF FormAfter, IsForm

LEMMA FormExists ==
  ASSUME NEW k \in 0..4, NEW t
  PROVE  FormAfter(k, t) \in 0..k /\ IsForm(k, t, FormAfter(k, t))
<1>0. \E v \in 0..0 : IsForm(0, t, v)
  BY DEF IsForm
<1>1. ASSUME NEW j \in 1..4, \E v \in 0..(j - 1) : IsForm(j - 1, t, v)
      PROVE  \E v \in 0..j : IsForm(j, t, v)
  <2>1. CASE t \in Touches(j)
    <3>1. IsForm(j, t, j)
      BY <2>1 DEF IsForm
    <3> QED
      BY <3>1
  <2>2. CASE t \notin Touches(j)
    <3>1. PICK v \in 0..(j - 1) : IsForm(j - 1, t, v)
      BY <1>1
    <3>2. IsForm(j, t, v)
      BY <2>2, <3>1 DEF IsForm
    <3> QED
      BY <3>2
  <2> QED
    BY <2>1, <2>2
<1>2. \E v \in 0..1 : IsForm(1, t, v)
  BY <1>0, <1>1
<1>3. \E v \in 0..2 : IsForm(2, t, v)
  BY <1>2, <1>1
<1>4. \E v \in 0..3 : IsForm(3, t, v)
  BY <1>3, <1>1
<1>5. \E v \in 0..4 : IsForm(4, t, v)
  BY <1>4, <1>1
<1>6. \E v \in 0..k : IsForm(k, t, v)
  BY <1>0, <1>2, <1>3, <1>4, <1>5
<1> QED
  BY <1>6, FormIs

\* A version gives its own form to the tables it touches and leaves the others.
LEMMA FormStep ==
  ASSUME NEW k \in 1..4, NEW t
  PROVE  FormAfter(k, t) = IF t \in Touches(k) THEN k ELSE FormAfter(k - 1, t)
<1>1. CASE t \in Touches(k)
  <2>1. IsForm(k, t, k)
    BY <1>1 DEF IsForm
  <2> QED
    BY <1>1, <2>1, FormIs
<1>2. CASE t \notin Touches(k)
  <2>1. FormAfter(k - 1, t) \in 0..(k - 1) /\ IsForm(k - 1, t, FormAfter(k - 1, t))
    BY FormExists
  <2>2. IsForm(k, t, FormAfter(k - 1, t))
    BY <1>2, <2>1 DEF IsForm
  <2> QED
    BY <1>2, <2>1, <2>2, FormIs
<1> QED
  BY <1>1, <1>2

LEMMA FormOfNothing == ASSUME NEW t PROVE FormAfter(0, t) = 0
  BY FormExists

\* Every version touches a table.
LEMMA TouchesSome == ASSUME NEW v \in Versions PROVE Touches(v) # {}
  BY DEF Touches, Drops, Alters, Versions, Tables

-----------------------------------------------------------------------------
(* Types *)

LEMMA NextVersionType ==
  ASSUME TypeOK, NEW p \in Procs
  PROVE  NextVersion(p) \in ProcState
<1>1. proc[p].at \in 1..4
  BY DEF TypeOK, ProcState, Versions
<1> QED
  BY <1>1 DEF NextVersion, ProcState, Versions

LEMMA TypeInit == Init => TypeOK
<1> SUFFICES ASSUME Init PROVE TypeOK
  OBVIOUS
<1>1. PICK k \in 0..4 : recorded = 1..k /\ form = [t \in Tables |-> FormAfter(k, t)]
                        /\ rows \in [Tables -> BOOLEAN]
  BY DEF Init
<1>2. recorded \subseteq Versions
  BY <1>1 DEF Versions
<1>3. form \in [Tables -> 0..4]
  BY <1>1, FormExists
<1>4. proc \in [Procs -> ProcState] /\ faults \in Nat
  BY DEF Init, Starting, ProcState, Versions
<1> QED
  BY <1>1, <1>2, <1>3, <1>4 DEF TypeOK

LEMMA TypeStep == TypeOK /\ [Next]_vars => TypeOK'
<1> SUFFICES ASSUME TypeOK, [Next]_vars PROVE TypeOK'
  OBVIOUS
<1>1. CASE UNCHANGED vars
  BY <1>1 DEF TypeOK, vars
<1>2. ASSUME NEW p \in Procs, Migrate(p) \/ Write(p) \/ Dies(p) \/ Start(p)
      PROVE  TypeOK'
  <2>1. proc[p] \in ProcState /\ proc[p].at \in Versions
    BY DEF TypeOK, ProcState
  <2>2. NextVersion(p) \in ProcState /\ OnError(p) \in ProcState /\ Starting \in ProcState
    BY NextVersionType DEF OnError, Down, Starting, ProcState, Versions
  <2>3. \A pc \in {"apply", "record", "commit"} : [proc[p] EXCEPT !.pc = pc] \in ProcState
    BY <2>1 DEF ProcState
  <2>4. [pc |-> "check", at |-> 1] \in ProcState
    BY DEF ProcState, Versions
  <2>5. proc' \in [Procs -> ProcState]
    BY <1>2, <2>2, <2>3, <2>4
       DEF TypeOK, Migrate, CreateSchemaMigrations, CheckApplied, Apply, Record, Commit,
           Write, Dies, Start, Become
  <2>6. recorded' \subseteq Versions /\ faults' \in Nat
    BY <1>2, <2>1, MigrationsAssumption
       DEF TypeOK, Migrate, CreateSchemaMigrations, CheckApplied, Apply, Record, Commit,
           Write, Dies, Start, database
  <2>7. form' \in [Tables -> 0..4] /\ rows' \in [Tables -> BOOLEAN]
    <3>1. CASE Commit(p)
      BY <2>1, <3>1 DEF TypeOK, Commit, Versions
    <3>2. CASE Write(p)
      BY <3>2 DEF TypeOK, Write
    <3>3. CASE ~Commit(p) /\ ~Write(p)
      BY <1>2, <3>3 DEF TypeOK, Migrate, CreateSchemaMigrations, CheckApplied, Apply, Record,
                        Dies, Start, database
    <3> QED
      BY <3>1, <3>2, <3>3
  <2> QED
    BY <2>5, <2>6, <2>7 DEF TypeOK
<1> QED
  BY <1>1, <1>2 DEF Next

\* Every variable has its type, for any number of processes and faults.
THEOREM TypeCorrect == Spec => []TypeOK
  BY TypeInit, TypeStep, PTL DEF Spec

-----------------------------------------------------------------------------
(* The invariant *)

LEMMA InvInit == Init => MigrationInv
<1> SUFFICES ASSUME Init PROVE MigrationInv
  OBVIOUS
<1>1. Progress /\ ReadyHasSchema /\ Exclusive /\ CommitIsNew
  BY DEF Init, Starting, Progress, ReadyHasSchema, Exclusive, InTransaction, CommitIsNew
<1>2. DroppedEmpty
  BY DEF Init, DroppedEmpty, Versions
<1> QED
  BY <1>1, <1>2, TypeInit DEF MigrationInv

\* Only Commit records a version, and it forgets none.
LEMMA RecordedGrows ==
  ASSUME [Next]_vars
  PROVE  recorded \subseteq recorded'
  BY DEF Next, Migrate, CreateSchemaMigrations, CheckApplied, Apply, Record, Commit,
         Write, Dies, Start, database, vars

LEMMA ProgressStep == MigrationInv /\ [Next]_vars => Progress' /\ ReadyHasSchema'
<1> SUFFICES ASSUME MigrationInv, [Next]_vars PROVE Progress' /\ ReadyHasSchema'
  OBVIOUS
<1> USE DEF MigrationInv
<1>1. CASE UNCHANGED vars
  BY <1>1 DEF Progress, ReadyHasSchema, vars
<1>2. ASSUME NEW p \in Procs, Migrate(p) \/ Write(p) \/ Dies(p) \/ Start(p)
      PROVE  Progress' /\ ReadyHasSchema'
  <2>1. proc[p].at \in 1..4 /\ recorded \subseteq Versions
    BY DEF TypeOK, ProcState, Versions
  <2>2. recorded \subseteq recorded' /\ recorded' \subseteq Versions
    BY RecordedGrows, TypeStep DEF TypeOK
  <2>3. \A q \in Procs \ {p} : proc'[q] = proc[q]
    BY <1>2 DEF TypeOK, Migrate, CreateSchemaMigrations, CheckApplied, Apply, Record, Commit,
                Write, Dies, Start, Become
  \* What the two conjuncts say of one process.
  <2> DEFINE OneOK(q) ==
        /\ proc'[q].pc \in {"check", "apply", "record", "commit"} =>
             \A v \in Versions : v < proc'[q].at => v \in recorded'
        /\ proc'[q].pc = "ready" => recorded' = Versions
  <2>4. ASSUME NEW q \in Procs, proc'[q] = proc[q]
        PROVE  OneOK(q)
    <3>1. recorded = Versions => recorded' = Versions
      BY <2>2
    <3> QED
      BY <2>2, <2>4, <3>1 DEF Progress, ReadyHasSchema
  <2>5. ASSUME (CheckApplied(p) /\ AlreadyApplied(proc[p].at)) \/ Commit(p)
        PROVE  OneOK(p)
    <3>1. proc'[p] = NextVersion(p) /\ proc[p].at \in recorded'
      BY <2>5 DEF TypeOK, CheckApplied, AlreadyApplied, Commit, Become, database
    <3>2. \A v \in Versions : v < proc[p].at => v \in recorded
      BY <2>5 DEF Progress, CheckApplied, Commit
    <3>3. \A v \in Versions : v <= proc[p].at => v \in recorded'
      BY <2>1, <2>2, <3>1, <3>2 DEF Versions
    <3>4. CASE proc[p].at = 4
      <4>1. \A v \in Versions : v <= 4
        BY DEF Versions
      <4>2. recorded' = Versions
        BY <2>2, <3>3, <3>4, <4>1
      <4> QED
        BY <3>1, <3>4, <4>2 DEF NextVersion
    <3>5. CASE proc[p].at # 4
      <4>1. proc'[p].pc = "check" /\ proc'[p].at = proc[p].at + 1
        BY <3>1, <3>5 DEF NextVersion
      <4> QED
        BY <2>1, <3>3, <4>1 DEF Versions
    <3> QED
      BY <3>4, <3>5
  <2>6. ASSUME ~(CheckApplied(p) /\ AlreadyApplied(proc[p].at)), ~Commit(p)
        PROVE  OneOK(p)
    <3>1. \/ proc'[p] = proc[p]
          \/ proc'[p] = Down
          \/ proc'[p] = Starting
          \/ proc'[p] = [pc |-> "check", at |-> 1]
          \/ /\ proc[p].pc \in {"check", "apply", "record"}
             /\ proc'[p].pc \in {"apply", "record", "commit"}
             /\ proc'[p].at = proc[p].at
      BY <1>2, <2>6
         DEF TypeOK, ProcState, Migrate, CreateSchemaMigrations, CheckApplied, Apply, Record,
             Write, Dies, Start, Become, OnError
    <3>2. CASE proc'[p] = proc[p]
      BY <2>4, <3>2
    <3>3. CASE proc'[p] \in {Down, Starting}
      BY <3>3 DEF Down, Starting
    <3>4. CASE proc'[p] = [pc |-> "check", at |-> 1]
      BY <3>4 DEF Versions
    <3>5. CASE /\ proc[p].pc \in {"check", "apply", "record"}
               /\ proc'[p].pc \in {"apply", "record", "commit"}
               /\ proc'[p].at = proc[p].at
      BY <2>2, <3>5 DEF Progress
    <3> QED
      BY <3>1, <3>2, <3>3, <3>4, <3>5
  <2>7. \A q \in Procs : OneOK(q)
    BY <2>3, <2>4, <2>5, <2>6
  <2> QED
    BY <2>7 DEF Progress, ReadyHasSchema
<1> QED
  BY <1>1, <1>2 DEF Next

LEMMA TransactionsStep == MigrationInv /\ [Next]_vars => Exclusive' /\ CommitIsNew'
<1> SUFFICES ASSUME MigrationInv, [Next]_vars PROVE Exclusive' /\ CommitIsNew'
  OBVIOUS
<1> USE DEF MigrationInv
<1>1. CASE UNCHANGED vars
  BY <1>1 DEF Exclusive, InTransaction, CommitIsNew, vars
<1>2. ASSUME NEW p \in Procs, Migrate(p) \/ Write(p) \/ Dies(p) \/ Start(p)
      PROVE  Exclusive' /\ CommitIsNew'
  <2>1. proc[p] \in ProcState
    BY DEF TypeOK
  <2>2. \A q \in Procs \ {p} : proc'[q] = proc[q]
    BY <1>2 DEF TypeOK, Migrate, CreateSchemaMigrations, CheckApplied, Apply, Record, Commit,
                Write, Dies, Start, Become
  <2>3. CASE Apply(p) /\ Succeeds(proc[p].at)
    <3>1. proc'[p].pc = "record" /\ proc'[p].at = proc[p].at /\ recorded' = recorded
      BY <2>1, <2>3 DEF TypeOK, ProcState, Apply, Become, database
    <3>2. \A q \in Procs \ {p} :
            InTransaction(q) => Touches(proc[q].at) \cap Touches(proc[p].at) = {}
      BY <2>3 DEF Apply, Locked
    <3> QED
      BY <2>2, <3>1, <3>2 DEF Exclusive, InTransaction, CommitIsNew
  <2>4. CASE Record(p) /\ ~RecordConflicts(proc[p].at)
    <3>1. /\ proc[p].pc = "record" /\ proc'[p].pc = "commit" /\ proc'[p].at = proc[p].at
          /\ recorded' = recorded /\ proc[p].at \notin recorded
      BY <2>1, <2>4 DEF TypeOK, ProcState, Record, RecordConflicts, Become, database
    <3> QED
      BY <2>2, <3>1 DEF Exclusive, InTransaction, CommitIsNew
  <2>5. CASE Commit(p)
    <3>1. proc'[p].pc \in {"check", "ready"} /\ recorded' = recorded \cup {proc[p].at}
      BY <2>5 DEF TypeOK, Commit, Become, NextVersion
    <3>2. ASSUME NEW q \in Procs \ {p}, InTransaction(q)
          PROVE  proc[q].at # proc[p].at
      <4>1. Touches(proc[p].at) # {}
        BY <2>1, TouchesSome DEF ProcState
      <4>2. InTransaction(p)
        BY <2>5 DEF Commit, InTransaction
      <4>3. Touches(proc[q].at) \cap Touches(proc[p].at) = {}
        BY <3>2, <4>2 DEF Exclusive
      <4> QED
        BY <4>1, <4>3
    <3>3. Exclusive'
      BY <2>2, <3>1 DEF Exclusive, InTransaction
    <3>4. ASSUME NEW q \in Procs, proc'[q].pc = "commit"
          PROVE  proc'[q].at \notin recorded'
      <4>1. q # p /\ proc'[q] = proc[q]
        BY <2>2, <3>1, <3>4
      <4>2. proc[q].at # proc[p].at
        BY <3>2, <3>4, <4>1 DEF InTransaction
      <4> QED
        BY <3>1, <3>4, <4>1, <4>2 DEF CommitIsNew
    <3> QED
      BY <3>3, <3>4 DEF CommitIsNew
  <2>6. CASE \/ CreateSchemaMigrations(p) \/ CheckApplied(p) \/ Dies(p) \/ Start(p)
             \/ Apply(p) /\ ~Succeeds(proc[p].at)
             \/ Record(p) /\ RecordConflicts(proc[p].at)
    <3>1. proc'[p].pc \notin {"record", "commit"} /\ recorded' = recorded
      BY <2>1, <2>6
         DEF TypeOK, ProcState, CreateSchemaMigrations, CheckApplied, Apply, Record, Dies, Start,
             Become, OnError, Down, Starting, NextVersion, database
    <3> QED
      BY <2>2, <3>1 DEF Exclusive, InTransaction, CommitIsNew
  <2>7. CASE Write(p)
    <3>1. proc' = proc /\ recorded' = recorded
      BY <2>7 DEF Write
    <3> QED
      BY <3>1 DEF Exclusive, InTransaction, CommitIsNew
  <2> QED
    BY <1>2, <2>3, <2>4, <2>5, <2>6, <2>7 DEF Migrate
<1> QED
  BY <1>1, <1>2 DEF Next

LEMMA DroppedEmptyStep == MigrationInv /\ [Next]_vars => DroppedEmpty'
<1> SUFFICES ASSUME MigrationInv, [Next]_vars,
                    NEW v \in Versions, NEW t \in Tables, t \in Drops(v), rows'[t]
             PROVE  v \in recorded'
  BY DEF DroppedEmpty
<1> USE DEF MigrationInv
<1>1. recorded \subseteq recorded'
  BY RecordedGrows
<1>2. CASE rows[t]
  BY <1>1, <1>2 DEF DroppedEmpty
<1>3. CASE ~rows[t]
  <2>1. PICK p \in Procs : Write(p)
    <3>1. CASE UNCHANGED vars
      BY <1>3, <3>1 DEF vars
    <3>2. ASSUME NEW p \in Procs, Migrate(p) \/ Dies(p) \/ Start(p)
          PROVE  FALSE
      BY <1>3, <3>2 DEF TypeOK, Migrate, CreateSchemaMigrations, CheckApplied, Apply, Record,
                        Commit, Dies, Start, database
    <3> QED
      BY <3>1, <3>2 DEF Next
  <2>2. recorded = Versions
    BY <2>1 DEF Write, ReadyHasSchema
  <2> QED
    BY <1>1, <2>2
<1> QED
  BY <1>2, <1>3

LEMMA InvStep == MigrationInv /\ [Next]_vars => MigrationInv'
  BY TypeStep, ProgressStep, TransactionsStep, DroppedEmptyStep DEF MigrationInv

\* Where the processes stand and what the record says agree, and no table that a
\* migration still to come will drop has a row.
THEOREM MigrationInvariant == Spec => []MigrationInv
  BY InvInit, InvStep, PTL DEF Spec

\* A process that works on the tables finds every migration applied.
THEOREM ReadyFindsSchema == Spec => []ReadyHasSchema
<1>1. MigrationInv => ReadyHasSchema
  BY DEF MigrationInv
<1> QED
  BY <1>1, MigrationInvariant, PTL

-----------------------------------------------------------------------------
(* What follows for the tables *)

LEMMA RowsKeptStep ==
  ASSUME MigrationInv, [Next]_vars
  PROVE  [\A t \in Tables : rows[t] => rows'[t]]_vars
<1> SUFFICES ASSUME Next, NEW t \in Tables, rows[t]
             PROVE  rows'[t]
  OBVIOUS
<1> USE DEF MigrationInv
<1>1. PICK p \in Procs : Migrate(p) \/ Write(p) \/ Dies(p) \/ Start(p)
  BY DEF Next
<1>2. CASE Commit(p)
  <2>1. proc[p].at \in Versions /\ proc[p].at \notin recorded
    BY <1>2 DEF TypeOK, ProcState, Commit, CommitIsNew
  <2>2. t \notin Drops(proc[p].at)
    BY <2>1 DEF DroppedEmpty
  <2> QED
    BY <1>2, <2>2 DEF Commit
<1>3. CASE Write(p)
  BY <1>3 DEF TypeOK, Write
<1>4. CASE ~Commit(p) /\ ~Write(p)
  BY <1>1, <1>4 DEF Migrate, CreateSchemaMigrations, CheckApplied, Apply, Record, Dies, Start,
                    database
<1> QED
  BY <1>2, <1>3, <1>4

\* No row is lost to a migration, whoever runs it and however late.
THEOREM NoRowIsLost == Spec => RowsKept
<1>1. MigrationInv /\ [Next]_vars => [\A t \in Tables : rows[t] => rows'[t]]_vars
  BY RowsKeptStep
<1> QED
  BY <1>1, MigrationInvariant, PTL DEF Spec, RowsKept

\* The recorded versions are what has been done to the tables.
SchemaMatchesRecord ==
  \E k \in 0..4 : recorded = 1..k /\ \A t \in Tables : form[t] = FormAfter(k, t)

\* The version a transaction commits is the next one, and the tables it touches
\* have the form the ones before gave them.
LEMMA CommitUpgrades ==
  ASSUME MigrationInv, SchemaMatchesRecord, NEW p \in Procs, Commit(p)
  PROVE  History!Upgrade
<1> USE DEF MigrationInv
<1> DEFINE v == proc[p].at
<1>1. PICK k \in 0..4 : recorded = 1..k /\ \A t \in Tables : form[t] = FormAfter(k, t)
  BY DEF SchemaMatchesRecord
<1>2. v \in 1..4 /\ v \notin recorded /\ \A w \in 1..4 : w < v => w \in recorded
  BY DEF TypeOK, ProcState, Versions, Commit, CommitIsNew, Progress
<1>3. k = v - 1
  <2>1. k < v
    BY <1>1, <1>2
  <2>2. v - 1 = 0 \/ v - 1 \in recorded
    BY <1>2
  <2> QED
    BY <1>1, <1>2, <2>1, <2>2
<1>4. recorded = 1..(v - 1) /\ recorded' = 1..v
  BY <1>1, <1>2, <1>3 DEF Commit
<1>5. v = 1 => \A t \in Tables : form[t] = 0
  BY <1>1, <1>3, FormOfNothing
<1>6. form' = [t \in Tables |-> IF t \in Touches(v) THEN v ELSE form[t]]
  BY <1>5 DEF Commit
<1>7. rows' = rows
  <2>1. \A t \in Tables : t \in Drops(v) => ~rows[t]
    BY <1>2 DEF DroppedEmpty, Versions
  <2> QED
    BY <2>1 DEF Commit, TypeOK
<1> QED
  BY <1>2, <1>4, <1>6, <1>7 DEF History!Upgrade

LEMMA SchemaInit == Init => SchemaMatchesRecord
  BY DEF Init, SchemaMatchesRecord

LEMMA SchemaStep == MigrationInv /\ SchemaMatchesRecord /\ [Next]_vars => SchemaMatchesRecord'
<1> SUFFICES ASSUME MigrationInv, SchemaMatchesRecord, [Next]_vars
             PROVE  SchemaMatchesRecord'
  OBVIOUS
<1> USE DEF MigrationInv
<1>1. CASE UNCHANGED <<recorded, form>>
  BY <1>1 DEF SchemaMatchesRecord
<1>2. ASSUME NEW p \in Procs, Commit(p)
      PROVE  SchemaMatchesRecord'
  <2>1. PICK k \in 0..4 : recorded = 1..k /\ \A t \in Tables : form[t] = FormAfter(k, t)
    BY DEF SchemaMatchesRecord
  <2>2. PICK v \in 1..4 :
          /\ recorded = 1..(v - 1)
          /\ recorded' = 1..v
          /\ form' = [t \in Tables |-> IF t \in Touches(v) THEN v ELSE form[t]]
    BY <1>2, CommitUpgrades DEF History!Upgrade
  <2>3. k = v - 1
    BY <2>1, <2>2
  <2>4. \A t \in Tables : form'[t] = FormAfter(v, t)
    BY <2>1, <2>2, <2>3, FormStep
  <2> QED
    BY <2>2, <2>4 DEF SchemaMatchesRecord
<1>3. (\E p \in Procs : Commit(p)) \/ UNCHANGED <<recorded, form>>
  BY DEF Next, Migrate, CreateSchemaMigrations, CheckApplied, Apply, Record, Write, Dies, Start,
         database, vars
<1> QED
  BY <1>1, <1>2, <1>3

\* The tables are what the recorded versions make of them, and the record has no gap.
THEOREM SchemaIsRecorded == Spec => []SchemaMatchesRecord
<1>1. Init => SchemaMatchesRecord
  BY SchemaInit
<1>2. MigrationInv /\ SchemaMatchesRecord /\ [Next]_vars => SchemaMatchesRecord'
  BY SchemaStep
<1> QED
  BY <1>1, <1>2, MigrationInvariant, PTL DEF Spec

-----------------------------------------------------------------------------
(* The refinement of SchemaHistory *)

LEMMA HistoryInit == Init => History!Init
<1> SUFFICES ASSUME Init PROVE History!Init
  OBVIOUS
<1>1. PICK k \in 0..4 : recorded = 1..k /\ form = [t \in Tables |-> FormAfter(k, t)]
                        /\ rows \in [Tables -> BOOLEAN]
  BY DEF Init
<1>2. form \in [Tables -> 0..k]
  BY <1>1, FormExists
<1> QED
  BY <1>1, <1>2 DEF History!Init

LEMMA HistoryStep ==
  ASSUME MigrationInv, SchemaMatchesRecord, [Next]_vars
  PROVE  [History!Upgrade \/ History!Write]_(History!vars)
<1>1. CASE UNCHANGED vars
  BY <1>1 DEF vars, History!vars
<1>2. ASSUME NEW p \in Procs, Commit(p)
      PROVE  History!Upgrade
  BY <1>2, CommitUpgrades
<1>3. ASSUME NEW p \in Procs, Write(p)
      PROVE  History!Write
  <2>1. recorded = 1..4
    BY <1>3 DEF Write, MigrationInv, ReadyHasSchema, Versions
  <2> QED
    BY <1>3, <2>1 DEF Write, History!Write
<1>4. ASSUME NEW p \in Procs, Migrate(p) \/ Dies(p) \/ Start(p), ~Commit(p)
      PROVE  UNCHANGED History!vars
  BY <1>4 DEF Migrate, CreateSchemaMigrations, CheckApplied, Apply, Record, Dies, Start,
              database, History!vars
<1> QED
  BY <1>1, <1>2, <1>3, <1>4 DEF Next

\* Any number of processes, migrating one database at once and crashing at any
\* point, upgrade it as SchemaHistory says one would (Migrate).
THEOREM UpgradesAsOne == Spec => KeepsHistory
<1>1. Init => History!Init
  BY HistoryInit
<1>2. MigrationInv /\ SchemaMatchesRecord /\ [Next]_vars
        => [History!Upgrade \/ History!Write]_(History!vars)
  BY HistoryStep
<1> QED
  BY <1>1, <1>2, MigrationInvariant, SchemaIsRecorded, PTL
     DEF Spec, KeepsHistory, History!Spec

=============================================================================
