SPECIFICATION Spec
CONSTANTS
  lead = lead
  child = child
  other = other
  w1 = w1
  w2 = w2
  NoSession = NoSession
  Archiver = Archiver
  Session = {lead, child, other}
  FirstBorn = {lead, child}
  Writer = {w1, w2}
  Requests <- MCEvery
  FirstParent <- MCFirstParent
  MaxMoves = 1
  MaxAsks = 2
  MaxFaults = 1
  MaxCrashes = 1
SYMMETRY MCAlike
INVARIANTS TypeOK RunningIsLive KeptIsLive LeadStays OneHome FileIsMemory NobodyIsStuck
CHECK_DEADLOCK FALSE
