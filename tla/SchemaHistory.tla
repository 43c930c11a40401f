--------------------------- MODULE SchemaHistory ---------------------------
(***************************************************************************)
(* What DB.Migrate promises the processes that share a database: it is     *)
(* upgraded by one version at a time, in order, each exactly once; an      *)
(* upgrade changes the tables its file names and costs no row; and tables  *)
(* are written only when they have their last form.  No process appears:   *)
(* this is one database's history, whoever migrates it.                    *)
(***************************************************************************)
EXTENDS Integers

CONSTANTS
  Tables,
  Last,         \* the newest version
  Touches(_)    \* the tables a version makes or alters

VARIABLES
  recorded,     \* schema_migrations
  form, rows    \* of each table: the version it was last changed by, has it rows

vars == <<recorded, form, rows>>

Init ==
  \E k \in 0..Last :
    /\ recorded = 1..k
    /\ form \in [Tables -> 0..k]
    /\ rows \in [Tables -> BOOLEAN]

Upgrade ==
  \E v \in 1..Last :
    /\ recorded = 1..(v - 1)
    /\ recorded' = 1..v
    /\ form' = [t \in Tables |-> IF t \in Touches(v) THEN v ELSE form[t]]
    /\ UNCHANGED rows

Write ==
  /\ recorded = 1..Last
  /\ \E t \in Tables : rows' = [rows EXCEPT ![t] = TRUE]
  /\ UNCHANGED <<recorded, form>>

Spec == Init /\ [][Upgrade \/ Write]_vars

=============================================================================
