SPECIFICATION Spec
CONSTANTS
  Record = {r1, r2, r3, r4}
  NoRecord = NoRecord
  MaxTorn = 2
INVARIANTS CacheAgrees LossBounded
PROPERTIES ReadStays
CHECK_DEADLOCK FALSE
