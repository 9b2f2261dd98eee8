\* Nobody keeps the writer mutex, and open ends.
\* A failed open is where a behaviour may end.
CHECK_DEADLOCK FALSE
SPECIFICATION FairSpec
CONSTANTS
  Rows = {r1}
  Docs = {d}
  BadDoc = bad
  Absent = absent
  Workers = {w1, w2}
  NoWorker = none
  MaxOps = 1
  MaxFrames = 1
  MaxGeneration = 1
  PayloadSizes = {1}
  MaxWalRecord = 1
  CrashKinds = {"process"}
  MaxCrashes = 1
  Faults = {"append", "sync", "temp", "rename", "truncate", "truncateSync", "sweep"}
  JournaledDirectory = TRUE
PROPERTIES
  LockIsReleased
  WaitersAdvance
  OpenEnds
