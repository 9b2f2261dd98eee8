\* One thread commits to two rows and optimizes; files may become unreadable.
\* A failed open is where a behaviour may end.
CHECK_DEADLOCK FALSE
SPECIFICATION Spec
CONSTANTS
  Rows = {r1, r2}
  d1 = d1
  Docs = {d1}
  BadDoc = bad
  Absent = absent
  Workers = {w1}
  NoWorker = none
  MaxOps = 2
  MaxFrames = 9
  MaxGeneration = 2
  PayloadSizes = {1}
  MaxWalRecord = 1
  CrashKinds = {"process"}
  MaxCrashes = 1
  Faults = {"temp"}
  MaxNonce = 2
  LegacyTransactions <- OneDocument
  NoSnapshot = nothing
  MaxFiles = 2
  MaxDamages = 1
SYMMETRY Symmetry
INVARIANTS
  TypeOK
  LoadsNewestReadable
  CoveredDamageIsHarmless
PROPERTIES
  ImplementsEngine
  ImplementsStoreSteps
