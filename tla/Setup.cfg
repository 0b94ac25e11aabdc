SPECIFICATION FairSpec
CONSTANTS
  Ids <- MCIds
  Files <- MCFiles
  Catalogs <- MCCatalogs
  Requests <- MCRequests
INVARIANTS
  TypeOK
  RefusesExactlyBrokenGraphs
  MergeKeepsOverrides
PROPERTIES
  SetupEnds
