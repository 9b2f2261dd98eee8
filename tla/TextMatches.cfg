\* All texts of two short fields, and queries of every kind.
SPECIFICATION Spec
CONSTANTS
  A = A
  a = a
  c = c
  sp = sp
  Characters = {A, a, c, sp}
  Letters = {A, a}
  Cjk = {c}
  Lower <- LowerCase
  Texts <- TwoFields
  Docs = {}
  Fields <- NoFields
  Terms <- Words
  Queries <- Trees
  Height <- Heights
  AnyColumn = any
  Absent = absent
  Rows = {0}
  ColumnSize = 3
  BlockSize = 2
  WordBits = 2
\* A query is answered once.
CHECK_DEADLOCK FALSE
INVARIANTS
  TokensAreRuns
  WindowIsCounted
  AnswerIsNear
  AnswerIsMeaning
PROPERTIES
  Answers
