--------------------------- MODULE TemplateTable ---------------------------
(***************************************************************************)
(* The template_registry table (internal/db: migrations 0002 and 0004,     *)
(* rows.go): one row per template, written by internal/explorer from the   *)
(* indexer's catalogue and by internal/registry from the metadata server's *)
(* featured list.  Each operator is one SQL statement.                     *)
(*                                                                         *)
(* Of a row the model keeps whether it exists, whether metadata_hash and   *)
(* metadata hold a value, and is_featured.  Both sources describe a        *)
(* template by the same values; what tells them apart is which values they *)
(* have.  metadata stands for all the columns only the metadata server     *)
(* fills, and the columns both sources always fill are left out.           *)
(***************************************************************************)

CONSTANT Templates   \* template addresses

Row == [exists : BOOLEAN, metadata_hash : BOOLEAN, metadata : BOOLEAN, is_featured : BOOLEAN]

NoRow == [exists |-> FALSE, metadata_hash |-> FALSE, metadata |-> FALSE, is_featured |-> FALSE]

EmptyTable == [t \in Templates |-> NoRow]

\* Mutant: the row is deleted and inserted again.
UpsertTemplateRegistryEntry_Replaces(table, t, hash) ==
  [table EXCEPT ![t] = [NoRow EXCEPT !.exists = TRUE, !.metadata_hash = hash]]

\* INSERT ... ON CONFLICT DO UPDATE of the catalogue's own columns, from
\* EXCLUDED: an absent metadata_hash is written as NULL.
UpsertTemplateRegistryEntry(table, t, hash) ==
  [table EXCEPT ![t].exists = TRUE, ![t].metadata_hash = hash]

\* Mutant: column = EXCLUDED.column.
UpsertTemplateRegistryMetadata_Excluded(table, t, hash, metadata) ==
  [table EXCEPT ![t] = [exists |-> TRUE, metadata_hash |-> hash,
                        metadata |-> metadata, is_featured |-> TRUE]]

\* The same with COALESCE($n, template_registry.column) for every column.  toRow
\* never passes NULL for is_featured, and a featured template's is true.
UpsertTemplateRegistryMetadata(table, t, hash, metadata) ==
  [table EXCEPT ![t] = [exists        |-> TRUE,
                        metadata_hash |-> hash \/ table[t].metadata_hash,
                        metadata      |-> metadata \/ table[t].metadata,
                        is_featured   |-> TRUE]]

=============================================================================
