----------------------------- MODULE Migrations -----------------------------
(***************************************************************************)
(* DB.Migrate (internal/db/db.go), which every cmd/* process runs when it  *)
(* starts, against the one database they share.  For each embedded file in *)
(* turn: has its version been recorded; if not, one transaction that runs  *)
(* the file and records the version.  Any error ends the process.          *)
(*                                                                         *)
(* The database is external: a transaction's changes show when it commits, *)
(* and a statement that changes tables waits for every other transaction   *)
(* that has changed one of them.  Of a table the model keeps the migration *)
(* that gave it its columns (its form, 0 for none) and whether it has rows.*)
(* ootle_blocks, which 0001 makes and no later file touches, is left out.  *)
(***************************************************************************)
EXTENDS Integers

CONSTANTS
  Procs,      \* the processes
  MaxFaults   \* bound: crashes and failed statements

ASSUME MigrationsAssumption == MaxFaults \in Nat

Tables == {"validators", "burn_claims", "template_registry"}

\* The embedded files, in filename order.
Versions == 1..4

\* The tables a file drops and creates again, and those it alters.
Drops(v)  == CASE v = 2 -> {"template_registry"} [] v = 3 -> {"burn_claims"} [] OTHER -> {}
Alters(v) == CASE v = 2 -> {"validators"} [] v = 4 -> {"template_registry"} [] OTHER -> {}
Touches(v) == IF v = 1 THEN Tables ELSE Drops(v) \cup Alters(v)

VARIABLES
  recorded,   \* schema_migrations: the versions committed
  form, rows, \* of each table
  proc,       \* each process's control point and the version it is at
  faults

vars == <<recorded, form, rows, proc, faults>>

database == <<recorded, form, rows>>

(***************************************************************************)
(* "create": CREATE TABLE IF NOT EXISTS schema_migrations;  "check": has   *)
(* this version been applied;  "apply": run the file;  "record" and        *)
(* "commit": the rest of the transaction;  "ready": Migrate has returned;  *)
(* "down": the process has exited.                                         *)
(***************************************************************************)
ProcState == [pc : {"create", "check", "apply", "record", "commit", "ready", "down"},
              at : Versions]

Starting == [pc |-> "create", at |-> 1]
Down     == [pc |-> "down", at |-> 1]

\* The form a table has when versions 1..k have been applied.
FormAfter(k, t) ==
  CHOOSE v \in 0..k : /\ v = 0 \/ t \in Touches(v)
                      /\ \A w \in 1..k : t \in Touches(w) => w <= v

\* A new database, or one of an earlier release.  No release wrote a table that
\* a later file drops (0002 and 0003: "has never held real data").
Init ==
  /\ \E k \in 0..4 :
       /\ recorded = 1..k
       /\ form = [t \in Tables |-> FormAfter(k, t)]
       /\ rows \in [Tables -> BOOLEAN]
       /\ \A t \in Tables : rows[t] => k # 0 /\ \A v \in Versions : t \in Drops(v) => v <= k
  /\ proc = [p \in Procs |-> Starting]
  /\ faults = 0

Become(p, state) == proc' = [proc EXCEPT ![p] = state]

InTransaction(p) == proc[p].pc \in {"record", "commit"}

\* Another transaction has changed one of these tables.
Locked(p, tables) ==
  \E q \in Procs \ {p} : InTransaction(q) /\ Touches(proc[q].at) \cap tables # {}

NextVersion(p) ==
  IF proc[p].at = 4 THEN [pc |-> "ready", at |-> 4] ELSE [pc |-> "check", at |-> proc[p].at + 1]

\* Mutant: a failed migration is logged and the next one tried.
OnError_Continues(p) == NextVersion(p)

\* Migrate returns the error (the transaction is rolled back) and the process exits.
OnError(p) == Down

-----------------------------------------------------------------------------
CreateSchemaMigrations(p) ==
  /\ proc[p].pc = "create"
  /\ Become(p, [pc |-> "check", at |-> 1])
  /\ UNCHANGED <<database, faults>>

\* Mutant: the check is forgotten.
AlreadyApplied_Never(v) == v \notin Versions

AlreadyApplied(v) == v \in recorded

CheckApplied(p) ==
  /\ proc[p].pc = "check"
  /\ Become(p, IF AlreadyApplied(proc[p].at) THEN NextVersion(p)
                                             ELSE [proc[p] EXCEPT !.pc = "apply"])
  /\ UNCHANGED <<database, faults>>

\* Whether the file's statements succeed.  0001 creates only what is missing,
\* but its index on category needs its own template_registry; 0002 renames a
\* column of 0001's validators; 0003 succeeds on any database; 0004 adds
\* columns to 0002's template_registry.
Succeeds(v) ==
  CASE v = 1 -> form["template_registry"] \in {0, 1}
    [] v = 2 -> form["validators"] = 1
    [] v = 3 -> TRUE
    [] v = 4 -> form["template_registry"] = 2

Apply(p) ==
  /\ proc[p].pc = "apply"
  /\ ~Locked(p, Touches(proc[p].at))
  /\ Become(p, IF Succeeds(proc[p].at) THEN [proc[p] EXCEPT !.pc = "record"] ELSE OnError(p))
  /\ UNCHANGED <<database, faults>>

\* Mutant: INSERT ... ON CONFLICT DO NOTHING.
RecordConflicts_Ignored(v) == v \notin Versions

\* The version is schema_migrations' primary key.
RecordConflicts(v) == v \in recorded

Record(p) ==
  /\ proc[p].pc = "record"
  /\ Become(p, IF RecordConflicts(proc[p].at) THEN OnError(p)
                                              ELSE [proc[p] EXCEPT !.pc = "commit"])
  /\ UNCHANGED <<database, faults>>

Commit(p) ==
  /\ proc[p].pc = "commit"
  /\ LET v == proc[p].at IN
       /\ recorded' = recorded \cup {v}
       /\ form' = [t \in Tables |-> IF t \in Touches(v) /\ (v = 1 => form[t] = 0)
                                      THEN v ELSE form[t]]
       /\ rows' = [t \in Tables |-> rows[t] /\ t \notin Drops(v)]
  /\ Become(p, NextVersion(p))
  /\ UNCHANGED faults

\* A process that has started writes a table, or reads it.
Write(p) ==
  /\ proc[p].pc = "ready"
  /\ \E t \in Tables : ~Locked(p, {t}) /\ rows' = [rows EXCEPT ![t] = TRUE]
  /\ UNCHANGED <<recorded, form, proc, faults>>

\* A process crashes or is stopped, or one of Migrate's statements fails for a
\* reason of its own; its transaction is rolled back.
Dies(p) ==
  /\ proc[p].pc # "down"
  /\ faults < MaxFaults
  /\ faults' = faults + 1
  /\ Become(p, OnError(p))
  /\ UNCHANGED database

Start(p) ==
  /\ proc[p].pc = "down"
  /\ Become(p, Starting)
  /\ UNCHANGED <<database, faults>>

Migrate(p) ==
  \/ CreateSchemaMigrations(p) \/ CheckApplied(p) \/ Apply(p) \/ Record(p) \/ Commit(p)

Next == \E p \in Procs : Migrate(p) \/ Write(p) \/ Dies(p) \/ Start(p)

Spec == Init /\ [][Next]_vars

(***************************************************************************)
(* Migrate waits for nothing but locks, which the other processes give up; *)
(* a process that exited is started again, and crashes stop (MaxFaults):   *)
(* both are assumptions on whoever runs the processes.                     *)
(***************************************************************************)
Fairness == \A p \in Procs : WF_vars(Migrate(p)) /\ WF_vars(Start(p))

FairSpec == Spec /\ Fairness

-----------------------------------------------------------------------------
\* Every variable has its type.
TypeOK ==
  /\ recorded \subseteq Versions
  /\ form \in [Tables -> 0..4]
  /\ rows \in [Tables -> BOOLEAN]
  /\ proc \in [Procs -> ProcState]
  /\ faults \in Nat

\* The processes together upgrade the database as one would (SchemaHistory):
\* nothing is recorded but not applied, applied but not recorded, applied twice or
\* out of order, no upgrade costs a row, and nobody writes a table before its last
\* upgrade, whichever processes migrate at once, lose a race or crash (Migrate).
History == INSTANCE SchemaHistory WITH
             Tables <- Tables, Last <- 4, Touches <- Touches,
             recorded <- recorded, form <- form, rows <- rows
KeepsHistory == History!Spec

\* A process that works on the tables finds all of their columns (Migrate is
\* called before the first poll or request).
ReadyHasSchema == \A p \in Procs : proc[p].pc = "ready" => recorded = Versions

\* No row is ever lost to a migration, although 0002 and 0003 drop tables and a
\* slow process may still run them when another one has begun to write.
RowsKept == [][\A t \in Tables : rows[t] => rows'[t]]_vars

\* Every process gets through: a lost race is lost only once.
AllReady == \A p \in Procs : <>[](proc[p].pc = "ready")

=============================================================================
