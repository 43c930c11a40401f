--------------------------- MODULE TemplateMirror ---------------------------
(***************************************************************************)
(* The two writers of template_registry, and the writer of ootle_blocks.   *)
(*                                                                         *)
(* cmd/explorer: a process in -mode=follow polls for ever (Follow), one in *)
(* -mode=backfill polls once and exits (Backfill).  A poll brings the      *)
(* validators up to date (their table is ValidatorRoster's), records the   *)
(* latest epoch checkpoint, and walks the indexer's template catalogue     *)
(* page by page from the process's cursor; the first error ends it.        *)
(*                                                                         *)
(* cmd/registry (Sync, Follow): asks the metadata server for its featured  *)
(* templates and upserts each; the first error ends it.                    *)
(*                                                                         *)
(* The catalogue only grows, at its end.  A template's place in it stands  *)
(* for its address where the code uses the address as a cursor, and 0 for  *)
(* the empty address.  The checkpoints are numbered from 1; before the     *)
(* first one the indexer has none to report, and that request fails.       *)
(***************************************************************************)
EXTENDS TemplateTable, Integers, Sequences

CONSTANTS
  Followers, Backfills,   \* cmd/explorer processes in the two modes
  Catalogue,              \* the templates in the order the indexer learns of them
  HashInCatalogue,        \* templates whose catalogue entry has a metadata_hash
  HashOnServer,           \* templates whose featured entry has one
  CatalogueBatchSize,     \* entries per page
  MaxCheckpoint,          \* bound: the last epoch checkpoint
  MaxFeatureChanges,      \* bound: changes of the featured list
  MaxFaults               \* bound: failed calls, entries sent in part and process restarts

ASSUME MirrorAssumption ==
  /\ Followers \cap Backfills = {}
  /\ Catalogue \in Seq(Templates)
  /\ CatalogueBatchSize \in Nat \ {0}
  /\ {MaxCheckpoint, MaxFeatureChanges, MaxFaults} \subseteq Nat

Explorers == Followers \cup Backfills
Places == 0..Len(Catalogue)

VARIABLES
  published,    \* how much of Catalogue the indexer knows
  checkpoint,   \* the indexer's latest epoch checkpoint, 0 before the first
  featured,     \* the metadata server's featured templates
  registry,     \* the template_registry table
  blocks,       \* the ootle_blocks table, as the checkpoints it has a row for
  explorer,     \* each explorer's control point and variables
  syncing,      \* the featured templates cmd/registry has still to upsert
  changes, faults

vars == <<published, checkpoint, featured, registry, blocks, explorer, syncing, changes, faults>>

upstream == <<published, checkpoint, featured, changes>>

(***************************************************************************)
(* pc: the next call of a poll.  cursor is catalogueCursor; after, lastAddr*)
(* and pageEnd are walkTemplateCatalogue's variables: the page runs from   *)
(* the place after "after" to pageEnd, and is written up to lastAddr.      *)
(***************************************************************************)
ExplorerState == [pc       : {"validators", "checkpoint", "block", "page", "entry", "done"},
                  cursor   : Places,
                  after    : Places,
                  lastAddr : Places,
                  pageEnd  : Places,
                  header   : 0..MaxCheckpoint]

Start == [pc |-> "validators", cursor |-> 0, after |-> 0, lastAddr |-> 0, pageEnd |-> 0,
          header |-> 0]

Init ==
  /\ published = 0 /\ checkpoint = 0 /\ featured = {}
  /\ registry = EmptyTable
  /\ blocks = {}
  /\ explorer = [p \in Explorers |-> Start]
  /\ syncing = {}
  /\ changes = 0 /\ faults = 0

Fault == faults < MaxFaults /\ faults' = faults + 1
NoFault == UNCHANGED faults

-----------------------------------------------------------------------------
(* The indexer and the metadata server *)

Publish ==
  /\ published < Len(Catalogue)
  /\ published' = published + 1
  /\ UNCHANGED <<checkpoint, featured, registry, blocks, explorer, syncing, changes>> /\ NoFault

NewCheckpoint ==
  /\ checkpoint < MaxCheckpoint
  /\ checkpoint' = checkpoint + 1
  /\ UNCHANGED <<published, featured, registry, blocks, explorer, syncing, changes>> /\ NoFault

\* A template of the catalogue is put on or taken off the featured list.
ChangeFeatured ==
  /\ changes < MaxFeatureChanges
  /\ changes' = changes + 1
  /\ \E i \in 1..published :
       featured' = IF Catalogue[i] \in featured THEN featured \ {Catalogue[i]}
                                                ELSE featured \cup {Catalogue[i]}
  /\ UNCHANGED <<published, checkpoint, registry, blocks, explorer, syncing>> /\ NoFault

-----------------------------------------------------------------------------
(* explorer: pollOnce, and Backfill, which is a poll that is not repeated *)

Become(p, state) == explorer' = [explorer EXCEPT ![p] = state]

FirstCall == "validators"

\* A poll is over: a follower waits for the next one, a backfill exits.
Over(p, cursor) ==
  [Start EXCEPT !.pc = IF p \in Followers THEN FirstCall ELSE "done", !.cursor = cursor]

\* Mutant: a page with an entry that cannot be written is left behind.
OnError_SkipsPage(p) == Over(p, explorer[p].pageEnd)

\* What is left of a poll that an error ends: lastAddr is not kept.
OnError(p) == Over(p, explorer[p].cursor)

SyncValidators(p) ==
  /\ explorer[p].pc = "validators"
  /\ Become(p, [explorer[p] EXCEPT !.pc = "checkpoint"])
  /\ UNCHANGED <<upstream, registry, blocks, syncing>> /\ NoFault

GetLatestEpochCheckpoint(p) ==
  /\ explorer[p].pc = "checkpoint"
  /\ checkpoint # 0
  /\ Become(p, [explorer[p] EXCEPT !.pc = "block", !.header = checkpoint])
  /\ UNCHANGED <<upstream, registry, blocks, syncing>> /\ NoFault

\* There is no checkpoint yet: the poll ends, and the catalogue is not walked.
NoCheckpointYet(p) ==
  /\ explorer[p].pc = "checkpoint"
  /\ checkpoint = 0
  /\ Become(p, OnError(p))
  /\ UNCHANGED <<upstream, registry, blocks, syncing>> /\ NoFault

UpsertOotleBlock(p) ==
  /\ explorer[p].pc = "block"
  /\ blocks' = blocks \cup {explorer[p].header}
  /\ Become(p, [explorer[p] EXCEPT !.pc = "page", !.header = 0, !.after = explorer[p].cursor])
  /\ UNCHANGED <<upstream, registry, syncing>> /\ NoFault

\* The last place of the page of entries inserted after an address.
PageEnd(after) ==
  IF after + CatalogueBatchSize < published THEN after + CatalogueBatchSize ELSE published

\* The walk is done.  Follow keeps its cursor if it saw no entry.
WalkDone(p) ==
  Over(p, IF explorer[p].lastAddr # 0 THEN explorer[p].lastAddr ELSE explorer[p].cursor)

\* An empty page ends the walk.
ListTemplateCatalogue(p) ==
  /\ explorer[p].pc = "page"
  /\ Become(p, LET end == PageEnd(explorer[p].after) IN
                 IF end = explorer[p].after
                   THEN WalkDone(p)
                   ELSE [explorer[p] EXCEPT !.pc = "entry", !.lastAddr = explorer[p].after,
                                            !.pageEnd = end])
  /\ UNCHANGED <<upstream, registry, blocks, syncing>> /\ NoFault

\* The next entry of the page; the last one of a short page ends the walk.
UpsertTemplate(p) ==
  /\ explorer[p].pc = "entry"
  /\ LET place == explorer[p].lastAddr + 1
         short == explorer[p].pageEnd - explorer[p].after < CatalogueBatchSize
         t     == Catalogue[place]
     IN  /\ registry' = UpsertTemplateRegistryEntry(registry, t, t \in HashInCatalogue)
         /\ Become(p, IF place < explorer[p].pageEnd
                        THEN [explorer[p] EXCEPT !.lastAddr = place]
                        ELSE IF short THEN Over(p, place)
                        ELSE [explorer[p] EXCEPT !.pc = "page", !.lastAddr = place,
                                                 !.after = place, !.pageEnd = 0])
  /\ UNCHANGED <<upstream, blocks, syncing>> /\ NoFault

\* Any call of a poll fails.
PollFails(p) ==
  /\ explorer[p].pc # "done"
  /\ Become(p, OnError(p))
  /\ UNCHANGED <<upstream, registry, blocks, syncing>> /\ Fault

-----------------------------------------------------------------------------
(* registry: Sync.  A failing ListFeatured is a stuttering step. *)

ListFeatured ==
  /\ syncing = {}
  /\ syncing' = featured
  /\ UNCHANGED <<upstream, registry, blocks, explorer>> /\ NoFault

UpsertFeatured ==
  /\ \E t \in syncing :
       /\ registry' = UpsertTemplateRegistryMetadata(registry, t, t \in HashOnServer, TRUE)
       /\ syncing' = syncing \ {t}
  /\ UNCHANGED <<upstream, blocks, explorer>> /\ NoFault

\* The server has no data for an entry's optional fields this round: toRow
\* leaves them NULL.
UpsertFeaturedPartly ==
  /\ \E t \in syncing :
       /\ registry' = UpsertTemplateRegistryMetadata(registry, t, FALSE, FALSE)
       /\ syncing' = syncing \ {t}
  /\ UNCHANGED <<upstream, blocks, explorer>> /\ Fault

\* An upsert fails, or the process is restarted: the rest of the list is dropped.
SyncFails ==
  /\ syncing # {}
  /\ syncing' = {}
  /\ UNCHANGED <<upstream, registry, blocks, explorer>> /\ Fault

-----------------------------------------------------------------------------
\* An explorer dies and is started again; its cursor was in memory only.
Restart(p) ==
  /\ Become(p, Start)
  /\ UNCHANGED <<upstream, registry, blocks, syncing>> /\ Fault

Poll(p) ==
  \/ SyncValidators(p)
  \/ GetLatestEpochCheckpoint(p)
  \/ NoCheckpointYet(p)
  \/ UpsertOotleBlock(p)
  \/ ListTemplateCatalogue(p)
  \/ UpsertTemplate(p)

Sync == ListFeatured \/ UpsertFeatured

Upstream == Publish \/ NewCheckpoint \/ ChangeFeatured

Next ==
  \/ Upstream
  \/ \E p \in Explorers : Poll(p) \/ PollFails(p) \/ Restart(p)
  \/ Sync
  \/ UpsertFeaturedPartly
  \/ SyncFails

Spec == Init /\ [][Next]_vars

(***************************************************************************)
(* The loops wait for nothing but their poll interval.  That failures stop *)
(* (MaxFaults), that the server sends whole entries again and that the     *)
(* indexer has a checkpoint some day are assumptions on the environment.   *)
(***************************************************************************)
Fairness ==
  /\ \A p \in Explorers : WF_vars(Poll(p))
  /\ WF_vars(Sync)
  /\ WF_vars(NewCheckpoint)

FairSpec == Spec /\ Fairness

-----------------------------------------------------------------------------
\* Every variable has its type; pages lie within what the indexer knows.
TypeOK ==
  /\ published \in Places
  /\ checkpoint \in 0..MaxCheckpoint
  /\ featured \subseteq Templates
  /\ registry \in [Templates -> Row]
  /\ blocks \subseteq 1..MaxCheckpoint
  /\ explorer \in [Explorers -> ExplorerState]
  /\ \A p \in Explorers : explorer[p].pageEnd <= published
  /\ syncing \subseteq Templates
  /\ changes \in Nat /\ faults \in Nat

\* An explorer never moves its cursor, nor its walk, past a template it has not
\* recorded: one that is skipped would not be asked for again until a restart
\* (pollOnce, walkTemplateCatalogue).
BehindCursorMirrored ==
  \A p \in Explorers : \A i \in 1..Len(Catalogue) :
    i <= explorer[p].cursor \/ i <= explorer[p].lastAddr => registry[Catalogue[i]].exists

\* What only the metadata server knows of a template is never lost, whichever
\* writer comes first or last (UpsertTemplateRegistryEntry, migration 0004).
ServerFieldsKept ==
  [][\A t \in Templates :
       /\ registry[t].metadata => registry'[t].metadata
       /\ registry[t].is_featured => registry'[t].is_featured]_vars

\* Every template the indexer lists is mirrored in the end, if an explorer
\* follows, whatever polls failed on the way.
CatalogueMirrored ==
  \A i \in 1..Len(Catalogue) : published >= i ~> registry[Catalogue[i]].exists

\* A template that stays featured ends up with everything either source knows
\* of it, in whatever order the two wrote (UpsertTemplateRegistryMetadata).
FeaturedRowsComplete ==
  \A t \in Templates :
    <>[](t \in featured =>
           registry[t] = [exists        |-> TRUE,
                          metadata_hash |-> t \in HashInCatalogue \cup HashOnServer,
                          metadata      |-> TRUE,
                          is_featured   |-> TRUE])

-----------------------------------------------------------------------------
\* A metadata_hash once known is never blanked out by a source that has none
\* (rows.go, UpsertTemplateRegistryMetadata).
MetadataHashKept ==
  [][\A t \in Templates : registry[t].metadata_hash => registry'[t].metadata_hash]_vars

=============================================================================
