\* A sync of the log fails; the next commit succeeds.
SPECIFICATION Spec
CONSTANTS
  Rows = {r}
  Docs = {d}
  BadDoc = bad
  Absent = absent
  Workers = {w}
  NoWorker = none
  MaxOps = 1
  MaxFrames = 9
  MaxGeneration = 2
  PayloadSizes = {1}
  MaxWalRecord = 1
  CrashKinds = {"process"}
  MaxCrashes = 1
  Faults = {"sync"}
  JournaledDirectory = TRUE
INVARIANTS
  AlwaysOpens
