\* Two segments, lists of up to two blocks, replaced and deleted documents,
\* equal scores.
SPECIFICATION Spec
CONSTANTS
  a = a
  b = b
  d1 = d1
  d2 = d2
  d3 = d3
  Docs = {d1, d2, d3}
  Terms = {a, b}
  Fields <- Texts
  Absent = absent
  AnyColumn = any
  ColumnSize = 4
  Rows = {1, 2, 3, 4, 5}
  BlockSize = 2
  WordBits = 2
  Grid = 2
  Bm25 <- Scores
  Histories <- TwoCommits
  Queries <- Trees
  Height <- Heights
  Searched <- Anchored
  Limits = {1, 2}
\* A search ends.
CHECK_DEADLOCK FALSE
INVARIANTS
  TypeOK
  NothingBetterPassed
  PrunedIsExhaustive
PROPERTIES
  Terminates
