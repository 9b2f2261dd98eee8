\* A field that is longer than a column has positions.
SPECIFICATION Spec
CONSTANTS
  apple = apple
  pie = pie
  d1 = d1
  d2 = d2
  d3 = d3
  Terms = {apple, pie}
  Fields <- Texts
  Absent = absent
  ColumnSize = 2
  Docs = {d2, d3}
  Rows = {1}
  RowSets = {{1}}
  BlockSize = 2
  WordBits = 2
  MaxGeneration = 1
INVARIANTS
  CheckpointReads
