\* A write to the log fails after part of the frame; a later commit succeeds.
\* A failed open is where a behaviour may end.
CHECK_DEADLOCK FALSE
SPECIFICATION Spec
CONSTANTS
  Rows = {r}
  Docs = {d}
  BadDoc = bad
  Absent = absent
  Workers = {w}
  NoWorker = none
  MaxOps = 1
  MaxFrames = 9
  MaxGeneration = 2
  PayloadSizes = {1, 3}
  MaxWalRecord = 3
  CrashKinds = {"process"}
  MaxCrashes = 1
  Faults = {"append"}
  JournaledDirectory = TRUE
INVARIANTS
  NothingPublishedIsLost
