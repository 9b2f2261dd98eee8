\* The machine loses power at any point; what a killed process leaves is among
\* what a power failure may leave.
SPECIFICATION Spec
CONSTANTS
  Rows = {r1}
  Docs = {d}
  BadDoc = bad
  Absent = absent
  Workers = {w1, w2}
  NoWorker = none
  MaxOps = 1
  MaxFrames = 9
  MaxGeneration = 3
  PayloadSizes = {1}
  MaxWalRecord = 1
  CrashKinds = {"power"}
  MaxCrashes = 3
  Faults = {"temp", "rename", "truncate", "truncateSync", "sweep"}
  JournaledDirectory = TRUE
SYMMETRY Symmetry
INVARIANTS
  TypeOK
  SourceOfTruth
  NothingPublishedIsLost
  AlwaysOpens
PROPERTIES
  ImplementsStore
