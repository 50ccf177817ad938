SPECIFICATION FairSpec
CONSTANTS
  h = h
  a = a
  b = b
  f = f
  d = d
  NoMsg = NoMsg
  SenderOf <- MCSenderOf
  LabelOf <- MCLabelOf
  Msg = {a, d}
  Interrupting = {}
  ReplyExpected = {}
  Coalesce = TRUE
  ActionWindow = 1
  FyiWindow = 1
  BatchMax = 2
  Horizon = 1
  MaxRevision = 1
  BoxStates = {"free", "draft"}
  TargetMoves = {"park"}
  Refusals = {"unreadable"}
  Verdicts = {"queued", "delivered", "unaccounted", "timed_out"}
  NotReady = {}
  Interactive = TRUE
  LookMs = 1
  ReadWatch = 1
  RecheckMs = 1
  PerLook = 2
  LookTakesTime = FALSE
  MaxCrashes = 0
  MaxRowLosses = 1
  MaxFaults = 0
  MaxLosses = 0
  MaxRetries = 0
  MaxCancels = 0
  ClockSteps = FALSE
PROPERTIES HandOverSettles EveryMessageGoes
CHECK_DEADLOCK FALSE
