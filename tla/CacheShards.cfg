\* Two shards, and capacities below, at and above their number.
SPECIFICATION Spec
CONSTANTS
  Readers = {a, b}
  Queries = {q1, q2}
  Capacities = {0, 1, 3}
  MaxShards = 2
  MaxGeneration = 1
SYMMETRY Symmetry
INVARIANTS
  TypeOK
  ReadsAreCurrent
  KeepsMostRecent
