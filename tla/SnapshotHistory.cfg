\* Three rows and three commits, with compactions and restarts between them.
\* A segment may fill one word of its mask, or one block of a posting list, and
\* go on in the next.
SPECIFICATION Spec
CONSTANTS
  apple = apple
  pie = pie
  d1 = d1
  d2 = d2
  d3 = d3
  Terms = {apple, pie}
  Fields <- Texts
  Absent = absent
  ColumnSize = 2
  Docs = {d1, d2}
  Rows = {1, 2, 3}
  RowSets = {{1, 2}, {2, 3}, {3}}
  BlockSize = 2
  WordBits = 2
  MaxGeneration = 3
INVARIANTS
  TypeOK
  LiveIsLatest
  CountersExact
  SegmentsAreBuilt
  CheckpointReads
  RestartIsFaithful
PROPERTIES
  ScoresAreStable
  ImplementsTable
