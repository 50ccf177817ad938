SPECIFICATION Spec
CONSTANTS
  a1 = a1
  a2 = a2
  b1 = b1
  ab = ab
  x = x
  y = y
  k1 = k1
  k2 = k2
  NoJob = {a1, a2, b1, ab, x, y}
  Job = {a1, a2, b1, ab, x, y}
  Key = {k1, k2}
  KeysOf <- MCKeysOf
  YieldLimit = 2
INVARIANTS Exclusion Chained
PROPERTIES ObservationNeverQueues EveryCallRuns RunsInOrder
