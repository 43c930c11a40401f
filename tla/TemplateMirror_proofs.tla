----------------------- MODULE TemplateMirror_proofs -----------------------
(***************************************************************************)
(* For any number of explorers, any catalogue and any page size: the walk  *)
(* skips no template, and no writer takes from a row what the metadata     *)
(* server has said of it.                                                  *)
(***************************************************************************)
EXTENDS TemplateMirror, TLAPS

(***************************************************************************)
(* Where an explorer may stand in its walk: nothing lies beyond what the   *)
(* indexer knows, and in a page there is an entry left to write.           *)
(***************************************************************************)
WalkInBounds(e) ==
  /\ e.cursor <= published /\ e.after <= published /\ e.lastAddr <= published
  /\ e.pageEnd <= published
  /\ e.pc = "entry" => e.lastAddr < e.pageEnd
  /\ e.pc = "block" => e.header # 0

\* All that lies behind the cursor, the page's start or the last entry written
\* is recorded.  The page's start is the fact BehindCursorMirrored lacks: a new
\* page takes lastAddr from it.
WalkRecorded(e) ==
  \A i \in 1..Len(Catalogue) :
    i <= e.cursor \/ i <= e.after \/ i <= e.lastAddr => registry[Catalogue[i]].exists

MirrorInv ==
  /\ TypeOK
  /\ \A p \in Explorers : WalkInBounds(explorer[p]) /\ WalkRecorded(explorer[p])

-----------------------------------------------------------------------------
(* The table *)

LEMMA CatalogueType == \A i \in 1..Len(Catalogue) : Catalogue[i] \in Templates
  BY MirrorAssumption

LEMMA LengthType == Len(Catalogue) \in Nat
  BY MirrorAssumption

\* The catalogue's statement makes the row, and leaves it what others wrote.
LEMMA CatalogueUpsert ==
  ASSUME NEW table \in [Templates -> Row], NEW t \in Templates, NEW hash \in BOOLEAN
  PROVE  LET new == UpsertTemplateRegistryEntry(table, t, hash) IN
           /\ new \in [Templates -> Row]
           /\ new[t].exists
           /\ \A s \in Templates :
                /\ table[s].exists => new[s].exists
                /\ table[s].metadata => new[s].metadata
                /\ table[s].is_featured => new[s].is_featured
  BY DEF UpsertTemplateRegistryEntry, Row

\* So does the metadata server's.
LEMMA MetadataUpsert ==
  ASSUME NEW table \in [Templates -> Row], NEW t \in Templates,
         NEW hash \in BOOLEAN, NEW metadata \in BOOLEAN
  PROVE  LET new == UpsertTemplateRegistryMetadata(table, t, hash, metadata) IN
           /\ new \in [Templates -> Row]
           /\ \A s \in Templates :
                /\ table[s].exists => new[s].exists
                /\ table[s].metadata => new[s].metadata
                /\ table[s].is_featured => new[s].is_featured
  BY DEF UpsertTemplateRegistryMetadata, Row

\* A row of the metadata server's: some of what it has.
WritesFeatured(t, hash, metadata) ==
  /\ hash => t \in HashOnServer
  /\ registry' = UpsertTemplateRegistryMetadata(registry, t, hash, metadata)

\* The table is written by one upsert at a time, with what its source has.
LEMMA TableWrites ==
  ASSUME MirrorInv, [Next]_vars
  PROVE  \/ registry' = registry
         \/ \E t \in Templates :
              registry' = UpsertTemplateRegistryEntry(registry, t, t \in HashInCatalogue)
         \/ \E t \in Templates, hash \in BOOLEAN, metadata \in BOOLEAN :
              WritesFeatured(t, hash, metadata)
<1>1. ASSUME NEW p \in Explorers, UpsertTemplate(p)
      PROVE  \E t \in Templates :
               registry' = UpsertTemplateRegistryEntry(registry, t, t \in HashInCatalogue)
  <2>1. explorer[p] \in ExplorerState /\ published \in Places
    BY DEF MirrorInv, TypeOK
  <2>2. explorer[p].lastAddr + 1 \in 1..Len(Catalogue)
    BY <1>1, <2>1, LengthType
       DEF MirrorInv, WalkInBounds, UpsertTemplate, ExplorerState, Places
  <2> DEFINE t == Catalogue[explorer[p].lastAddr + 1]
  <2>3. t \in Templates
    BY <2>2, CatalogueType
  <2>4. registry' = UpsertTemplateRegistryEntry(registry, t, t \in HashInCatalogue)
    BY <1>1 DEF UpsertTemplate
  <2> HIDE DEF t
  <2> QED
    BY <2>3, <2>4, Zenon
<1>2. ASSUME UpsertFeatured \/ UpsertFeaturedPartly
      PROVE  \E t \in Templates, hash \in BOOLEAN, metadata \in BOOLEAN :
               WritesFeatured(t, hash, metadata)
  <2>1. syncing \subseteq Templates
    BY DEF MirrorInv, TypeOK
  <2>2. CASE UpsertFeatured
    <3>1. PICK t \in syncing :
            registry' = UpsertTemplateRegistryMetadata(registry, t, t \in HashOnServer, TRUE)
      BY <2>2, Zenon DEF UpsertFeatured
    <3>2. WritesFeatured(t, t \in HashOnServer, TRUE)
      BY <3>1, Zenon DEF WritesFeatured
    <3>3. (t \in HashOnServer) \in BOOLEAN /\ t \in Templates
      BY <2>1
    <3> QED
      BY <3>2, <3>3, Zenon
  <2>3. CASE UpsertFeaturedPartly
    <3>1. PICK t \in syncing :
            registry' = UpsertTemplateRegistryMetadata(registry, t, FALSE, FALSE)
      BY <2>3, Zenon DEF UpsertFeaturedPartly
    <3>2. WritesFeatured(t, FALSE, FALSE)
      BY <3>1, Zenon DEF WritesFeatured
    <3> QED
      BY <2>1, <3>2, Zenon
  <2> QED
    BY <1>2, <2>2, <2>3
<1>3. \/ registry' = registry
      \/ \E p \in Explorers : UpsertTemplate(p)
      \/ UpsertFeatured \/ UpsertFeaturedPartly
  BY DEF Next, Upstream, Publish, NewCheckpoint, ChangeFeatured, Poll, SyncValidators,
         GetLatestEpochCheckpoint, NoCheckpointYet, UpsertOotleBlock, ListTemplateCatalogue,
         PollFails, Restart, Sync, ListFeatured, SyncFails, vars
<1> QED
  BY <1>1, <1>2, <1>3

\* No step of anyone removes a row or what the metadata server said of it.
LEMMA RowsKept ==
  ASSUME MirrorInv, [Next]_vars
  PROVE  /\ registry' \in [Templates -> Row]
         /\ \A t \in Templates :
              /\ registry[t].exists => registry'[t].exists
              /\ registry[t].metadata => registry'[t].metadata
              /\ registry[t].is_featured => registry'[t].is_featured
<1>1. registry \in [Templates -> Row]
  BY DEF MirrorInv, TypeOK
<1>2. CASE registry' = registry
  BY <1>1, <1>2
<1>3. ASSUME NEW t \in Templates,
             registry' = UpsertTemplateRegistryEntry(registry, t, t \in HashInCatalogue)
      PROVE  /\ registry' \in [Templates -> Row]
             /\ \A s \in Templates :
                  /\ registry[s].exists => registry'[s].exists
                  /\ registry[s].metadata => registry'[s].metadata
                  /\ registry[s].is_featured => registry'[s].is_featured
  <2>1. (t \in HashInCatalogue) \in BOOLEAN
    OBVIOUS
  <2> QED
    BY <1>1, <1>3, <2>1, CatalogueUpsert
<1>4. ASSUME NEW t \in Templates, NEW hash \in BOOLEAN, NEW metadata \in BOOLEAN,
             WritesFeatured(t, hash, metadata)
      PROVE  /\ registry' \in [Templates -> Row]
             /\ \A s \in Templates :
                  /\ registry[s].exists => registry'[s].exists
                  /\ registry[s].metadata => registry'[s].metadata
                  /\ registry[s].is_featured => registry'[s].is_featured
  BY <1>1, <1>4, MetadataUpsert DEF WritesFeatured
<1> QED
  BY <1>2, <1>3, <1>4, TableWrites

-----------------------------------------------------------------------------
(* The explorers *)

\* The state of an explorer between two polls.
LEMMA OverIs ==
  ASSUME NEW p, NEW c \in Places
  PROVE  /\ Over(p, c) \in ExplorerState
         /\ Over(p, c).pc \in {"validators", "done"}
         /\ Over(p, c).cursor = c
         /\ Over(p, c).after = 0 /\ Over(p, c).lastAddr = 0 /\ Over(p, c).pageEnd = 0
<1> DEFINE first == IF p \in Followers THEN FirstCall ELSE "done"
<1>1. Start \in ExplorerState /\ Start.after = 0 /\ Start.lastAddr = 0 /\ Start.pageEnd = 0
  BY LengthType, MirrorAssumption DEF Start, ExplorerState, Places
<1>2. Over(p, c) = [Start EXCEPT !.pc = first, !.cursor = c]
  BY DEF Over
<1>3. first \in {"validators", "done"}
  BY DEF FirstCall
<1> HIDE DEF first
<1> QED
  BY <1>1, <1>2, <1>3 DEF ExplorerState

LEMMA OverType ==
  ASSUME MirrorInv, NEW p \in Explorers, NEW c \in Places, c <= published
  PROVE  Over(p, c) \in ExplorerState /\ WalkInBounds(Over(p, c))
<1>1. published \in Nat /\ 0 \in Places /\ 0 \in 0..MaxCheckpoint
  BY LengthType, MirrorAssumption DEF MirrorInv, TypeOK, Places
<1> QED
  BY <1>1, OverIs DEF WalkInBounds

\* What an explorer becomes by an action of its own.
LEMMA ExplorerMoves ==
  ASSUME MirrorInv, NEW p \in Explorers, Poll(p) \/ PollFails(p) \/ Restart(p),
         registry' \in [Templates -> Row],
         \A t \in Templates : registry[t].exists => registry'[t].exists
  PROVE  /\ explorer'[p] \in ExplorerState
         /\ WalkInBounds(explorer[p])'
         /\ WalkRecorded(explorer[p])'
<1> DEFINE e == explorer[p]
<1>1. /\ e \in ExplorerState /\ WalkInBounds(e) /\ WalkRecorded(e)
      /\ published \in Places /\ checkpoint \in 0..MaxCheckpoint
      /\ explorer \in [Explorers -> ExplorerState]
  BY DEF MirrorInv, TypeOK
<1>2. /\ Len(Catalogue) \in Nat /\ CatalogueBatchSize \in Nat \ {0} /\ MaxCheckpoint \in Nat
  BY LengthType, MirrorAssumption
<1>3. published' = published
  BY DEF Poll, SyncValidators, GetLatestEpochCheckpoint, NoCheckpointYet, UpsertOotleBlock,
         ListTemplateCatalogue, UpsertTemplate, PollFails, Restart, upstream
<1>4. \A i \in 1..Len(Catalogue) :
        i <= e.cursor \/ i <= e.after \/ i <= e.lastAddr => registry'[Catalogue[i]].exists
  BY <1>1, CatalogueType DEF WalkRecorded
\* A poll that ends with a cursor behind which all is recorded.
<1>5. ASSUME NEW c \in Places, c <= published, explorer'[p] = Over(p, c),
             \A i \in 1..Len(Catalogue) : i <= c => registry'[Catalogue[i]].exists
      PROVE  /\ explorer'[p] \in ExplorerState
             /\ WalkInBounds(explorer[p])'
             /\ WalkRecorded(explorer[p])'
  <2>1. Over(p, c) \in ExplorerState /\ WalkInBounds(Over(p, c))
    BY <1>5, OverType
  <2>2. explorer'[p].cursor = c /\ explorer'[p].after = 0 /\ explorer'[p].lastAddr = 0
    BY <1>5, OverIs
  <2> QED
    BY <1>2, <1>3, <1>5, <2>1, <2>2 DEF WalkInBounds, WalkRecorded
<1>6. CASE \/ NoCheckpointYet(p) \/ PollFails(p)
  <2>1. explorer'[p] = Over(p, e.cursor)
    BY <1>1, <1>6 DEF NoCheckpointYet, PollFails, Become, OnError
  <2>2. e.cursor \in Places /\ e.cursor <= published
    BY <1>1 DEF ExplorerState, WalkInBounds
  <2> QED
    BY <1>4, <1>5, <2>1, <2>2
<1>7. CASE Restart(p)
  <2>1. explorer'[p] = Start
    BY <1>1, <1>7 DEF Restart, Become
  <2> QED
    BY <1>1, <1>2, <1>3, <2>1 DEF Start, ExplorerState, WalkInBounds, WalkRecorded, Places
<1>8. CASE SyncValidators(p)
  <2>1. explorer'[p] = [e EXCEPT !.pc = "checkpoint"]
    BY <1>1, <1>8 DEF SyncValidators, Become
  <2> QED
    BY <1>1, <1>3, <1>4, <2>1 DEF ExplorerState, WalkInBounds, WalkRecorded
<1>9. CASE GetLatestEpochCheckpoint(p)
  <2>1. explorer'[p] = [e EXCEPT !.pc = "block", !.header = checkpoint] /\ checkpoint # 0
    BY <1>1, <1>9 DEF GetLatestEpochCheckpoint, Become
  <2>2. explorer'[p] \in ExplorerState
    BY ZenonT(60), <1>1, <2>1 DEF ExplorerState
  <2>3. WalkInBounds(explorer[p])'
    BY <1>1, <1>3, <2>1 DEF ExplorerState, WalkInBounds
  <2>4. WalkRecorded(explorer[p])'
    BY <1>1, <1>4, <2>1 DEF ExplorerState, WalkRecorded
  <2> QED
    BY <2>2, <2>3, <2>4
<1>10. CASE UpsertOotleBlock(p)
  <2>1. explorer'[p] = [e EXCEPT !.pc = "page", !.header = 0, !.after = e.cursor]
    BY <1>1, <1>10 DEF UpsertOotleBlock, Become
  <2>2. explorer'[p] \in ExplorerState
    <3>1. 0 \in 0..MaxCheckpoint /\ e.cursor \in Places
      BY <1>1, <1>2 DEF ExplorerState
    <3> QED
      BY ZenonT(60), <1>1, <2>1, <3>1 DEF ExplorerState
  <2>3. WalkInBounds(explorer[p])'
    BY <1>1, <1>3, <2>1 DEF ExplorerState, WalkInBounds
  <2>4. WalkRecorded(explorer[p])'
    BY <1>1, <1>4, <2>1 DEF ExplorerState, WalkRecorded
  <2> QED
    BY <2>2, <2>3, <2>4
<1>11. CASE ListTemplateCatalogue(p)
  <2>1. CASE PageEnd(e.after) = e.after
    <3>1. explorer'[p] = Over(p, IF e.lastAddr # 0 THEN e.lastAddr ELSE e.cursor)
      BY <1>1, <1>11, <2>1 DEF ListTemplateCatalogue, Become, WalkDone
    <3>2. CASE e.lastAddr # 0
      <4>1. e.lastAddr \in Places /\ e.lastAddr <= published
        BY <1>1 DEF ExplorerState, WalkInBounds
      <4> QED
        BY <1>4, <1>5, <3>1, <3>2, <4>1
    <3>3. CASE e.lastAddr = 0
      <4>1. e.cursor \in Places /\ e.cursor <= published
        BY <1>1 DEF ExplorerState, WalkInBounds
      <4> QED
        BY <1>4, <1>5, <3>1, <3>3, <4>1
    <3> QED
      BY <3>2, <3>3
  <2>2. CASE PageEnd(e.after) # e.after
    <3>1. explorer'[p] = [e EXCEPT !.pc = "entry", !.lastAddr = e.after,
                                   !.pageEnd = PageEnd(e.after)]
      BY <1>1, <1>11, <2>2 DEF ListTemplateCatalogue, Become
    <3>2. e.after \in Places /\ e.after <= published
      BY <1>1 DEF ExplorerState, WalkInBounds
    <3>3. /\ PageEnd(e.after) \in Places /\ PageEnd(e.after) <= published
          /\ e.after < PageEnd(e.after)
      BY <1>1, <1>2, <2>2, <3>2 DEF PageEnd, Places
    <3>4. explorer'[p] \in ExplorerState
      BY ZenonT(60), <1>1, <3>1, <3>2, <3>3 DEF ExplorerState
    <3>5. WalkInBounds(explorer[p])'
      BY <1>1, <1>3, <3>1, <3>2, <3>3 DEF ExplorerState, WalkInBounds
    <3>6. WalkRecorded(explorer[p])'
      BY <1>1, <1>4, <3>1, <3>2 DEF ExplorerState, WalkInBounds, WalkRecorded
    <3> QED
      BY <3>4, <3>5, <3>6
  <2> QED
    BY <2>1, <2>2
<1>12. CASE UpsertTemplate(p)
  <2> DEFINE place == e.lastAddr + 1
  <2>1. e.lastAddr < e.pageEnd /\ e.pageEnd <= published /\ published <= Len(Catalogue)
    BY <1>1, <1>12 DEF UpsertTemplate, WalkInBounds, Places
  <2>2. place \in Places /\ place <= published /\ place \in 1..Len(Catalogue)
    BY <1>1, <1>2, <2>1 DEF ExplorerState, Places
  <2>3. registry'[Catalogue[place]].exists
    <3>1. registry' = UpsertTemplateRegistryEntry(registry, Catalogue[place],
                                                  Catalogue[place] \in HashInCatalogue)
      BY <1>12 DEF UpsertTemplate
    <3>2. Catalogue[place] \in Templates /\ registry \in [Templates -> Row]
      BY <2>2, CatalogueType DEF MirrorInv, TypeOK
    <3>3. (Catalogue[place] \in HashInCatalogue) \in BOOLEAN
      OBVIOUS
    <3> HIDE DEF place
    <3> QED
      BY <3>1, <3>2, <3>3, CatalogueUpsert
  <2>4. \A i \in 1..Len(Catalogue) : i <= place => registry'[Catalogue[i]].exists
    <3> SUFFICES ASSUME NEW i \in 1..Len(Catalogue), i <= place
                 PROVE  registry'[Catalogue[i]].exists
      OBVIOUS
    <3>1. i = place \/ i <= e.lastAddr
      BY <1>1, <1>2 DEF ExplorerState, Places
    <3> QED
      BY <1>4, <2>3, <3>1
  <2>5. \/ explorer'[p] = [e EXCEPT !.lastAddr = place] /\ place < e.pageEnd
        \/ explorer'[p] = Over(p, place)
        \/ explorer'[p] = [e EXCEPT !.pc = "page", !.lastAddr = place, !.after = place,
                                    !.pageEnd = 0]
    BY <1>1, <1>12 DEF UpsertTemplate, Become
  <2>6. CASE explorer'[p] = [e EXCEPT !.lastAddr = place] /\ place < e.pageEnd
    BY <1>1, <1>3, <1>4, <2>2, <2>4, <2>6 DEF ExplorerState, WalkInBounds, WalkRecorded
  <2>7. CASE explorer'[p] = Over(p, place)
    BY <1>5, <2>2, <2>4, <2>7
  <2>8. CASE explorer'[p] = [e EXCEPT !.pc = "page", !.lastAddr = place, !.after = place,
                                      !.pageEnd = 0]
    <3>1. 0 \in Places /\ 0 <= published
      BY <1>1, <1>2 DEF Places
    <3> HIDE DEF place
    <3>2. explorer'[p] \in ExplorerState
      BY ZenonT(60), <1>1, <2>2, <2>8, <3>1 DEF ExplorerState
    <3>3. WalkInBounds(explorer[p])'
      BY <1>1, <1>3, <2>2, <2>8, <3>1 DEF ExplorerState, WalkInBounds
    <3>4. WalkRecorded(explorer[p])'
      BY <1>1, <1>4, <2>4, <2>8 DEF ExplorerState, WalkRecorded
    <3> QED
      BY <3>2, <3>3, <3>4
  <2> QED
    BY <2>5, <2>6, <2>7, <2>8
<1> QED
  BY <1>6, <1>7, <1>8, <1>9, <1>10, <1>11, <1>12 DEF Poll

-----------------------------------------------------------------------------
(* The invariant *)

LEMMA MirrorInit == Init => MirrorInv
<1> SUFFICES ASSUME Init PROVE MirrorInv
  OBVIOUS
<1>1. Start \in ExplorerState /\ Start.pageEnd = 0
  BY LengthType, MirrorAssumption DEF Start, ExplorerState, Places
<1>2. TypeOK
  BY <1>1, LengthType, MirrorAssumption DEF Init, TypeOK, EmptyTable, NoRow, Row, Places
<1>3. \A p \in Explorers : WalkInBounds(explorer[p]) /\ WalkRecorded(explorer[p])
  BY LengthType DEF Init, Start, WalkInBounds, WalkRecorded
<1> QED
  BY <1>2, <1>3 DEF MirrorInv

\* The variables the explorers do not hold.
LEMMA OthersType ==
  ASSUME MirrorInv, [Next]_vars
  PROVE  /\ published' \in Places /\ published <= published'
         /\ checkpoint' \in 0..MaxCheckpoint
         /\ featured' \subseteq Templates
         /\ blocks' \subseteq 1..MaxCheckpoint
         /\ syncing' \subseteq Templates
         /\ changes' \in Nat /\ faults' \in Nat
<1> USE DEF MirrorInv, TypeOK
<1>1. published' \in Places /\ published <= published'
  <2>1. published' = published \/ Publish
    BY DEF Next, Upstream, Publish, NewCheckpoint, ChangeFeatured, Poll, SyncValidators,
           GetLatestEpochCheckpoint, NoCheckpointYet, UpsertOotleBlock, ListTemplateCatalogue,
           UpsertTemplate, PollFails, Restart, Sync, ListFeatured, UpsertFeatured,
           UpsertFeaturedPartly, SyncFails, upstream, vars
  <2>2. published \in Nat /\ (Publish => published' = published + 1 /\ published < Len(Catalogue))
    BY LengthType DEF Publish, Places
  <2> QED
    BY <2>1, <2>2, LengthType DEF Places
<1>2. checkpoint' \in 0..MaxCheckpoint
  <2>1. checkpoint' = checkpoint \/ NewCheckpoint
    BY DEF Next, Upstream, Publish, NewCheckpoint, ChangeFeatured, Poll, SyncValidators,
           GetLatestEpochCheckpoint, NoCheckpointYet, UpsertOotleBlock, ListTemplateCatalogue,
           UpsertTemplate, PollFails, Restart, Sync, ListFeatured, UpsertFeatured,
           UpsertFeaturedPartly, SyncFails, upstream, vars
  <2>2. NewCheckpoint => checkpoint' = checkpoint + 1 /\ checkpoint < MaxCheckpoint
    BY DEF NewCheckpoint
  <2> QED
    BY <2>1, <2>2, MirrorAssumption
<1>3. featured' \subseteq Templates
  <2>1. CASE ChangeFeatured
    <3>1. PICK i \in 1..published :
            featured' = IF Catalogue[i] \in featured THEN featured \ {Catalogue[i]}
                                                     ELSE featured \cup {Catalogue[i]}
      BY <2>1 DEF ChangeFeatured
    <3>2. i \in 1..Len(Catalogue)
      BY LengthType DEF Places
    <3> QED
      BY <3>1, <3>2, CatalogueType
  <2>2. CASE featured' = featured
    BY <2>2
  <2> QED
    BY <2>1, <2>2
       DEF Next, Upstream, Publish, NewCheckpoint, Poll, SyncValidators,
           GetLatestEpochCheckpoint, NoCheckpointYet, UpsertOotleBlock, ListTemplateCatalogue,
           UpsertTemplate, PollFails, Restart, Sync, ListFeatured, UpsertFeatured,
           UpsertFeaturedPartly, SyncFails, upstream, vars
<1>4. blocks' \subseteq 1..MaxCheckpoint
  <2>1. ASSUME NEW p \in Explorers, UpsertOotleBlock(p)
        PROVE  blocks' \subseteq 1..MaxCheckpoint
    <3>1. explorer[p].header \in 0..MaxCheckpoint /\ explorer[p].header # 0
      BY <2>1 DEF UpsertOotleBlock, WalkInBounds, ExplorerState
    <3>2. explorer[p].header \in 1..MaxCheckpoint
      BY <3>1, MirrorAssumption
    <3> QED
      BY <2>1, <3>2 DEF UpsertOotleBlock
  <2>2. CASE blocks' = blocks
    BY <2>2
  <2> QED
    BY <2>1, <2>2
       DEF Next, Upstream, Publish, NewCheckpoint, ChangeFeatured, Poll, SyncValidators,
           GetLatestEpochCheckpoint, NoCheckpointYet, ListTemplateCatalogue, UpsertTemplate,
           PollFails, Restart, Sync, ListFeatured, UpsertFeatured,
           UpsertFeaturedPartly, SyncFails, vars
<1>5. syncing' \subseteq Templates
  BY DEF Next, Upstream, Publish, NewCheckpoint, ChangeFeatured, Poll, SyncValidators,
         GetLatestEpochCheckpoint, NoCheckpointYet, UpsertOotleBlock, ListTemplateCatalogue,
         UpsertTemplate, PollFails, Restart, Sync, ListFeatured, UpsertFeatured,
         UpsertFeaturedPartly, SyncFails, vars
<1>6. changes' \in Nat /\ faults' \in Nat
  <2>1. changes' \in {changes, changes + 1}
    BY DEF Next, Upstream, Publish, NewCheckpoint, ChangeFeatured, Poll, SyncValidators,
           GetLatestEpochCheckpoint, NoCheckpointYet, UpsertOotleBlock, ListTemplateCatalogue,
           UpsertTemplate, PollFails, Restart, Sync, ListFeatured, UpsertFeatured,
           UpsertFeaturedPartly, SyncFails, upstream, vars
  <2>2. faults' \in {faults, faults + 1}
    BY DEF Next, Upstream, Publish, NewCheckpoint, ChangeFeatured, Poll, SyncValidators,
           GetLatestEpochCheckpoint, NoCheckpointYet, UpsertOotleBlock, ListTemplateCatalogue,
           UpsertTemplate, PollFails, Restart, Sync, ListFeatured, UpsertFeatured,
           UpsertFeaturedPartly, SyncFails, Fault, NoFault, vars
  <2> QED
    BY <2>1, <2>2
<1> QED
  BY <1>1, <1>2, <1>3, <1>4, <1>5, <1>6

\* An explorer's variables are changed by its own calls alone.
LEMMA OneExplorerMoves ==
  ASSUME MirrorInv, [Next]_vars
  PROVE  \/ explorer' = explorer
         \/ \E p \in Explorers :
              /\ Poll(p) \/ PollFails(p) \/ Restart(p)
              /\ \E e : explorer' = [explorer EXCEPT ![p] = e]
<1>1. ASSUME NEW p \in Explorers, Poll(p) \/ PollFails(p) \/ Restart(p)
      PROVE  \E e : explorer' = [explorer EXCEPT ![p] = e]
  BY <1>1 DEF Poll, SyncValidators, GetLatestEpochCheckpoint, NoCheckpointYet,
              UpsertOotleBlock, ListTemplateCatalogue, UpsertTemplate, PollFails, Restart,
              Become
<1> QED
  BY <1>1 DEF Next, Upstream, Publish, NewCheckpoint, ChangeFeatured, Sync, ListFeatured,
              UpsertFeatured, UpsertFeaturedPartly, SyncFails, vars

LEMMA MirrorStep == MirrorInv /\ [Next]_vars => MirrorInv'
<1> SUFFICES ASSUME MirrorInv, [Next]_vars PROVE MirrorInv'
  OBVIOUS
<1>1. /\ explorer \in [Explorers -> ExplorerState]
      /\ published \in Nat /\ published' \in Nat /\ published <= published'
  BY OthersType, LengthType DEF MirrorInv, TypeOK, Places
<1>2. ASSUME NEW p \in Explorers, explorer'[p] = explorer[p]
      PROVE  /\ explorer'[p] \in ExplorerState
             /\ WalkInBounds(explorer[p])'
             /\ WalkRecorded(explorer[p])'
  <2>1. explorer[p] \in ExplorerState /\ WalkInBounds(explorer[p]) /\ WalkRecorded(explorer[p])
    BY <1>1 DEF MirrorInv
  <2>2. WalkInBounds(explorer[p])'
    BY <1>1, <1>2, <2>1, LengthType DEF WalkInBounds, ExplorerState, Places
  <2>3. WalkRecorded(explorer[p])'
    BY <1>2, <2>1, RowsKept, CatalogueType DEF WalkRecorded
  <2> QED
    BY <1>2, <2>1, <2>2, <2>3
<1>3. \/ explorer' = explorer
      \/ \E p \in Explorers :
           /\ Poll(p) \/ PollFails(p) \/ Restart(p)
           /\ \E e : explorer' = [explorer EXCEPT ![p] = e]
  BY OneExplorerMoves
<1>4. explorer' \in [Explorers -> ExplorerState]
      /\ \A p \in Explorers : WalkInBounds(explorer[p])' /\ WalkRecorded(explorer[p])'
  <2>1. CASE explorer' = explorer
    BY <1>1, <1>2, <2>1
  <2>2. ASSUME NEW p \in Explorers, Poll(p) \/ PollFails(p) \/ Restart(p),
               NEW e, explorer' = [explorer EXCEPT ![p] = e]
        PROVE  explorer' \in [Explorers -> ExplorerState]
               /\ \A q \in Explorers : WalkInBounds(explorer[q])' /\ WalkRecorded(explorer[q])'
    <3>1. \A q \in Explorers \ {p} : explorer'[q] = explorer[q]
      BY <1>1, <2>2
    <3>2. /\ explorer'[p] \in ExplorerState
          /\ WalkInBounds(explorer[p])'
          /\ WalkRecorded(explorer[p])'
      BY <2>2, ExplorerMoves, RowsKept
    <3>3. \A q \in Explorers : /\ explorer'[q] \in ExplorerState
                               /\ WalkInBounds(explorer[q])'
                               /\ WalkRecorded(explorer[q])'
      BY <1>2, <3>1, <3>2
    <3>4. explorer' \in [Explorers -> ExplorerState]
      BY <1>1, <2>2, <3>2
    <3> QED
      BY <3>3, <3>4
  <2> QED
    BY <1>3, <2>1, <2>2
<1>5. \A p \in Explorers : explorer'[p].pageEnd <= published'
  BY <1>4 DEF WalkInBounds
<1> QED
  BY <1>4, <1>5, OthersType, RowsKept DEF MirrorInv, TypeOK

-----------------------------------------------------------------------------
\* The walk never leaves what it has recorded, nor what the indexer knows.
THEOREM MirrorInvariant == Spec => []MirrorInv
  BY MirrorInit, MirrorStep, PTL DEF Spec

\* Every variable has its type, for any number of explorers and any catalogue.
THEOREM TypeCorrect == Spec => []TypeOK
<1>1. MirrorInv => TypeOK
  BY DEF MirrorInv
<1> QED
  BY <1>1, MirrorInvariant, PTL

\* An explorer's cursor never passes a template it has not recorded, whatever
\* polls fail and whichever page size is used (walkTemplateCatalogue).
THEOREM NothingIsPassed == Spec => []BehindCursorMirrored
<1>1. MirrorInv => BehindCursorMirrored
  BY DEF MirrorInv, WalkRecorded, BehindCursorMirrored
<1> QED
  BY <1>1, MirrorInvariant, PTL

\* The catalogue's upsert, a stale list and a restart leave what the metadata
\* server said of a template (UpsertTemplateRegistryEntry).
THEOREM ServerFieldsStay == Spec => ServerFieldsKept
<1>1. MirrorInv /\ [Next]_vars =>
        [\A t \in Templates :
           /\ registry[t].metadata => registry'[t].metadata
           /\ registry[t].is_featured => registry'[t].is_featured]_vars
  BY RowsKept
<1> QED
  BY <1>1, MirrorInvariant, PTL DEF Spec, ServerFieldsKept

-----------------------------------------------------------------------------
(* Where the cursor goes *)

\* In a walk the page starts at the cursor or after it, and the last entry
\* written lies in the page; lastAddr is 0 until there is one.
WalkAhead(e) ==
  /\ e.pc \in {"page", "entry"} => e.cursor <= e.after
  /\ e.pc = "entry" => e.after <= e.lastAddr
  /\ e.pc = "page" => e.lastAddr \in {0, e.after}
  /\ e.pc \in {"validators", "checkpoint", "block"} => e.lastAddr = 0

WalksAhead == \A p \in Explorers : WalkAhead(explorer[p])

\* The cursor of a running explorer never goes back: a walk that ends leaves it
\* at its last entry, a poll that fails or finds no entry leaves it where it
\* was, and only the restart of the process begins again (Follow, pollOnce).
CursorGoesForward ==
  [][\A p \in Explorers :
       explorer[p].cursor <= explorer'[p].cursor \/ explorer'[p] = Start]_vars


LEMMA CursorMoves ==
  ASSUME MirrorInv, NEW p \in Explorers, WalkAhead(explorer[p]),
         Poll(p) \/ PollFails(p) \/ Restart(p)
  PROVE  /\ WalkAhead(explorer'[p])
         /\ explorer[p].cursor <= explorer'[p].cursor \/ explorer'[p] = Start
<1> DEFINE e == explorer[p]
<1>1. /\ e \in ExplorerState /\ WalkInBounds(e) /\ WalkAhead(e)
      /\ explorer \in [Explorers -> ExplorerState]
  BY DEF MirrorInv, TypeOK
<1>2. /\ e.cursor \in Nat /\ e.after \in Nat /\ e.lastAddr \in Nat
      /\ e.cursor \in Places /\ e.after \in Places /\ e.lastAddr \in Places
      /\ published \in Places /\ Len(Catalogue) \in Nat
  BY <1>1, LengthType DEF ExplorerState, Places, MirrorInv, TypeOK
\* A poll that ends at the cursor or beyond.
<1>3. ASSUME NEW c \in Places, e.cursor <= c, explorer'[p] = Over(p, c)
      PROVE  /\ WalkAhead(explorer'[p])
             /\ e.cursor <= explorer'[p].cursor \/ explorer'[p] = Start
  <2>1. /\ explorer'[p].pc \in {"validators", "done"}
        /\ explorer'[p].cursor = c /\ explorer'[p].lastAddr = 0
    BY <1>3, OverIs
  <2> QED
    BY <1>3, <2>1 DEF WalkAhead
<1>4. CASE NoCheckpointYet(p) \/ PollFails(p)
  <2>1. explorer'[p] = Over(p, e.cursor)
    BY <1>1, <1>4 DEF NoCheckpointYet, PollFails, Become, OnError
  <2> QED
    BY <1>2, <1>3, <2>1
<1>5. CASE Restart(p)
  BY <1>1, <1>5 DEF Restart, Become, Start, WalkAhead
<1>6. CASE SyncValidators(p)
  <2>1. explorer'[p] = [e EXCEPT !.pc = "checkpoint"] /\ e.pc = "validators"
    BY <1>1, <1>6 DEF SyncValidators, Become
  <2> QED
    BY <1>1, <1>2, <2>1 DEF ExplorerState, WalkAhead
<1>7. CASE GetLatestEpochCheckpoint(p)
  <2>1. explorer'[p] = [e EXCEPT !.pc = "block", !.header = checkpoint]
        /\ e.pc = "checkpoint"
    BY <1>1, <1>7 DEF GetLatestEpochCheckpoint, Become
  <2> QED
    BY <1>1, <1>2, <2>1 DEF ExplorerState, WalkAhead
<1>8. CASE UpsertOotleBlock(p)
  <2>1. explorer'[p] = [e EXCEPT !.pc = "page", !.header = 0, !.after = e.cursor]
        /\ e.pc = "block"
    BY <1>1, <1>8 DEF UpsertOotleBlock, Become
  <2> QED
    BY <1>1, <1>2, <2>1 DEF ExplorerState, WalkAhead
<1>9. CASE ListTemplateCatalogue(p)
  <2>1. e.pc = "page" /\ e.cursor <= e.after /\ e.lastAddr \in {0, e.after}
    BY <1>1, <1>9 DEF ListTemplateCatalogue, WalkAhead
  <2>2. CASE PageEnd(e.after) = e.after
    <3>1. explorer'[p] = Over(p, IF e.lastAddr # 0 THEN e.lastAddr ELSE e.cursor)
      BY <1>1, <1>9, <2>2 DEF ListTemplateCatalogue, Become, WalkDone
    <3> QED
      BY <1>2, <1>3, <2>1, <3>1
  <2>3. CASE PageEnd(e.after) # e.after
    <3>1. explorer'[p] = [e EXCEPT !.pc = "entry", !.lastAddr = e.after,
                                   !.pageEnd = PageEnd(e.after)]
      BY <1>1, <1>9, <2>3 DEF ListTemplateCatalogue, Become
    <3> QED
      BY <1>1, <1>2, <2>1, <3>1 DEF ExplorerState, WalkAhead
  <2> QED
    BY <2>2, <2>3
<1>10. CASE UpsertTemplate(p)
  <2> DEFINE place == e.lastAddr + 1
  <2>1. /\ e.pc = "entry" /\ e.cursor <= e.after /\ e.after <= e.lastAddr
        /\ e.lastAddr < e.pageEnd /\ e.pageEnd <= published /\ e.pageEnd \in Nat
    BY <1>1, <1>10, LengthType DEF UpsertTemplate, WalkAhead, WalkInBounds, ExplorerState, Places
  <2>2. place \in Places /\ e.cursor <= place /\ e.after <= place
    BY <1>2, <2>1 DEF Places
  <2>3. \/ explorer'[p] = [e EXCEPT !.lastAddr = place]
        \/ explorer'[p] = Over(p, place)
        \/ explorer'[p] = [e EXCEPT !.pc = "page", !.lastAddr = place, !.after = place,
                                    !.pageEnd = 0]
    BY <1>1, <1>10 DEF UpsertTemplate, Become
  <2> HIDE DEF place
  <2>4. CASE explorer'[p] = [e EXCEPT !.lastAddr = place]
    BY <1>1, <1>2, <2>1, <2>2, <2>4 DEF ExplorerState, WalkAhead
  <2>5. CASE explorer'[p] = Over(p, place)
    BY <1>3, <2>2, <2>5
  <2>6. CASE explorer'[p] = [e EXCEPT !.pc = "page", !.lastAddr = place, !.after = place,
                                      !.pageEnd = 0]
    BY <1>1, <1>2, <2>1, <2>2, <2>6 DEF ExplorerState, WalkAhead
  <2> QED
    BY <2>3, <2>4, <2>5, <2>6
<1> QED
  BY <1>4, <1>5, <1>6, <1>7, <1>8, <1>9, <1>10 DEF Poll

LEMMA CursorStep ==
  MirrorInv /\ WalksAhead /\ [Next]_vars =>
    /\ WalksAhead'
    /\ [\A p \in Explorers :
          explorer[p].cursor <= explorer'[p].cursor \/ explorer'[p] = Start]_vars
<1> SUFFICES ASSUME MirrorInv, WalksAhead, [Next]_vars
             PROVE  \A p \in Explorers :
                      /\ WalkAhead(explorer'[p])
                      /\ explorer[p].cursor <= explorer'[p].cursor \/ explorer'[p] = Start
  BY DEF WalksAhead
<1>1. explorer \in [Explorers -> ExplorerState]
  BY DEF MirrorInv, TypeOK
<1>2. ASSUME NEW p \in Explorers, explorer'[p] = explorer[p]
      PROVE  /\ WalkAhead(explorer'[p])
             /\ explorer[p].cursor <= explorer'[p].cursor \/ explorer'[p] = Start
  <2>1. explorer[p].cursor \in Nat
    BY <1>1, LengthType DEF ExplorerState, Places
  <2> QED
    BY <1>2, <2>1 DEF WalksAhead
<1>3. CASE explorer' = explorer
  BY <1>2, <1>3
<1>4. ASSUME NEW p \in Explorers, Poll(p) \/ PollFails(p) \/ Restart(p),
             NEW e, explorer' = [explorer EXCEPT ![p] = e]
      PROVE  \A q \in Explorers :
               /\ WalkAhead(explorer'[q])
               /\ explorer[q].cursor <= explorer'[q].cursor \/ explorer'[q] = Start
  <2>1. \A q \in Explorers \ {p} : explorer'[q] = explorer[q]
    BY <1>1, <1>4
  <2>2. /\ WalkAhead(explorer'[p])
        /\ explorer[p].cursor <= explorer'[p].cursor \/ explorer'[p] = Start
    BY <1>4, CursorMoves DEF WalksAhead
  <2> QED
    BY <1>2, <2>1, <2>2
<1> QED
  BY <1>3, <1>4, OneExplorerMoves

\* Whatever fails, and whatever page size is used, a walk never takes a running
\* explorer back behind its cursor (walkTemplateCatalogue's lastAddr).
THEOREM CursorNeverBack == Spec => CursorGoesForward
<1>1. Init => WalksAhead
  BY DEF Init, Start, WalksAhead, WalkAhead
<1> QED
  BY <1>1, CursorStep, MirrorInvariant, PTL DEF Spec, CursorGoesForward

-----------------------------------------------------------------------------
(* The metadata hashes *)

\* A hash is in a row only if the catalogue or the metadata server has it.
HashesHaveSources ==
  \A t \in Templates :
    registry[t].metadata_hash => t \in HashInCatalogue \cup HashOnServer

\* All that either source knows of a template is in its row.
RowComplete(t) ==
  registry[t] = [exists        |-> TRUE,
                 metadata_hash |-> t \in HashInCatalogue \cup HashOnServer,
                 metadata      |-> TRUE,
                 is_featured   |-> TRUE]

\* A row, once complete, is complete for good (the stable half of
\* FeaturedRowsComplete; UpsertTemplateRegistryEntry, UpsertTemplateRegistryMetadata).
CompleteRowsStay ==
  [][\A t \in Templates : RowComplete(t) => RowComplete(t)']_vars

\* What the two statements do to the row they write, and to the others.
LEMMA CatalogueWrites ==
  ASSUME NEW table \in [Templates -> Row], NEW t \in Templates, NEW hash \in BOOLEAN
  PROVE  LET new == UpsertTemplateRegistryEntry(table, t, hash) IN
           /\ new[t].exists
           /\ new[t].metadata_hash <=> hash
           /\ new[t].metadata <=> table[t].metadata
           /\ new[t].is_featured <=> table[t].is_featured
           /\ \A s \in Templates \ {t} : new[s] = table[s]
  BY DEF UpsertTemplateRegistryEntry, Row

LEMMA MetadataWrites ==
  ASSUME NEW table \in [Templates -> Row], NEW t \in Templates,
         NEW hash \in BOOLEAN, NEW metadata \in BOOLEAN
  PROVE  LET new == UpsertTemplateRegistryMetadata(table, t, hash, metadata) IN
           /\ new[t].exists /\ new[t].is_featured
           /\ new[t].metadata <=> metadata \/ table[t].metadata
           /\ new[t].metadata_hash <=> hash \/ table[t].metadata_hash
           /\ \A s \in Templates \ {t} : new[s] = table[s]
  BY DEF UpsertTemplateRegistryMetadata, Row

\* The row of t after a step: as it was, or as one of the two writers leaves it.
ByCatalogue(t) ==
  /\ registry'[t].exists
  /\ registry'[t].metadata_hash <=> t \in HashInCatalogue
  /\ registry'[t].metadata <=> registry[t].metadata
  /\ registry'[t].is_featured <=> registry[t].is_featured

ByServer(t) ==
  /\ registry'[t].exists /\ registry'[t].is_featured
  /\ registry[t].metadata => registry'[t].metadata
  /\ registry[t].metadata_hash => registry'[t].metadata_hash
  /\ registry'[t].metadata_hash => registry[t].metadata_hash \/ t \in HashOnServer

LEMMA RowStep ==
  ASSUME MirrorInv, [Next]_vars, NEW t \in Templates
  PROVE  registry'[t] = registry[t] \/ ByCatalogue(t) \/ ByServer(t)
<1>1. registry \in [Templates -> Row]
  BY DEF MirrorInv, TypeOK
<1>2. ASSUME NEW s \in Templates,
             registry' = UpsertTemplateRegistryEntry(registry, s, s \in HashInCatalogue)
      PROVE  registry'[t] = registry[t] \/ ByCatalogue(t)
  <2> DEFINE hash == s \in HashInCatalogue
  <2>1. hash \in BOOLEAN /\ registry' = UpsertTemplateRegistryEntry(registry, s, hash)
    BY <1>2
  <2>2. s = t => (hash <=> t \in HashInCatalogue)
    OBVIOUS
  <2> HIDE DEF hash
  <2> QED
    BY <1>1, <2>1, <2>2, CatalogueWrites DEF ByCatalogue
<1>3. ASSUME NEW s \in Templates, NEW hash \in BOOLEAN, NEW metadata \in BOOLEAN,
             WritesFeatured(s, hash, metadata)
      PROVE  registry'[t] = registry[t] \/ ByServer(t)
  BY <1>1, <1>3, MetadataWrites DEF WritesFeatured, ByServer
<1> QED
  BY <1>2, <1>3, TableWrites

\* RowComplete, field by field.
LEMMA CompleteFields ==
  ASSUME NEW row \in Row, NEW hash \in BOOLEAN
  PROVE  row = [exists |-> TRUE, metadata_hash |-> hash, metadata |-> TRUE, is_featured |-> TRUE]
         <=> row.exists /\ row.metadata /\ row.is_featured /\ (row.metadata_hash <=> hash)
  BY DEF Row

\* No writer makes up a hash.
THEOREM HashesAreKnown == Spec => []HashesHaveSources
<1>1. Init => HashesHaveSources
  BY DEF Init, EmptyTable, NoRow, HashesHaveSources
<1>2. MirrorInv /\ HashesHaveSources /\ [Next]_vars => HashesHaveSources'
  <2> SUFFICES ASSUME MirrorInv, HashesHaveSources, [Next]_vars, NEW t \in Templates,
                      registry'[t].metadata_hash
               PROVE  t \in HashInCatalogue \cup HashOnServer
    BY DEF HashesHaveSources
  <2> QED
    BY RowStep DEF HashesHaveSources, ByCatalogue, ByServer
<1> QED
  BY <1>1, <1>2, MirrorInvariant, PTL DEF Spec

\* Where the catalogue has every hash the metadata server has, no hash is ever
\* blanked out: what the statement's plain EXCLUDED.metadata_hash can lose is
\* the hash that only the server has (UpsertTemplateRegistryEntry).
THEOREM HashesStay ==
  ASSUME HashOnServer \subseteq HashInCatalogue
  PROVE  Spec => MetadataHashKept
<1>1. MirrorInv /\ HashesHaveSources /\ [Next]_vars =>
        [\A t \in Templates : registry[t].metadata_hash => registry'[t].metadata_hash]_vars
  <2> SUFFICES ASSUME MirrorInv, HashesHaveSources, [Next]_vars, NEW t \in Templates,
                      registry[t].metadata_hash
               PROVE  registry'[t].metadata_hash
    OBVIOUS
  <2>1. t \in HashInCatalogue
    BY DEF HashesHaveSources
  <2> QED
    BY <2>1, RowStep DEF ByCatalogue, ByServer
<1> QED
  BY <1>1, MirrorInvariant, HashesAreKnown, PTL DEF Spec, MetadataHashKept

\* Under the same condition a complete row stays complete, whichever writer
\* comes next and however often.
THEOREM CompleteStays ==
  ASSUME HashOnServer \subseteq HashInCatalogue
  PROVE  Spec => CompleteRowsStay
<1>1. MirrorInv /\ [Next]_vars =>
        [\A t \in Templates : RowComplete(t) => RowComplete(t)']_vars
  <2> SUFFICES ASSUME MirrorInv, [Next]_vars, NEW t \in Templates, RowComplete(t)
               PROVE  RowComplete(t)'
    OBVIOUS
  <2> DEFINE hash == t \in HashInCatalogue \cup HashOnServer
             complete(row) == /\ row.exists /\ row.metadata /\ row.is_featured
                              /\ row.metadata_hash <=> hash
  <2>1. hash \in BOOLEAN /\ (hash <=> t \in HashInCatalogue) /\ (t \in HashOnServer => hash)
    OBVIOUS
  <2>2. registry[t] \in Row /\ registry'[t] \in Row
    BY RowsKept DEF MirrorInv, TypeOK
  <2>3. RowComplete(t) <=> registry[t] = [exists |-> TRUE, metadata_hash |-> hash,
                                          metadata |-> TRUE, is_featured |-> TRUE]
    BY DEF RowComplete
  <2>4. RowComplete(t)' <=> registry'[t] = [exists |-> TRUE, metadata_hash |-> hash,
                                            metadata |-> TRUE, is_featured |-> TRUE]
    BY DEF RowComplete
  <2> HIDE DEF hash
  <2>5. complete(registry[t])
    BY <2>1, <2>2, <2>3, CompleteFields
  <2>6. complete(registry'[t])
    BY <2>1, <2>5, RowStep DEF ByCatalogue, ByServer
  <2> QED
    BY <2>1, <2>2, <2>4, <2>6, CompleteFields
<1> QED
  BY <1>1, MirrorInvariant, PTL DEF Spec, CompleteRowsStay

=============================================================================
