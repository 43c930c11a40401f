SPECIFICATION FairSpec
CONSTANTS
  t1 = t1
  t2 = t2
  t3 = t3
  Templates = {t1, t2, t3}
  Followers = {f}
  Backfills = {b}
  Catalogue <- MCCatalogue
  HashInCatalogue = {t1}
  HashOnServer = {t2}
  CatalogueBatchSize = 2
  MaxCheckpoint = 1
  MaxFeatureChanges = 2
  MaxFaults = 1
INVARIANTS
  BehindCursorMirrored
PROPERTIES
  ServerFieldsKept
  CatalogueMirrored
  FeaturedRowsComplete
