SPECIFICATION Spec
CONSTANTS
  h = h
  a = a
  b = b
  f = f
  d = d
  NoMsg = NoMsg
  SenderOf <- MCSenderOf
  LabelOf <- MCLabelOf
  Msg = {a}
  Interrupting = {}
  ReplyExpected = {}
  Coalesce = TRUE
  ActionWindow = 1
  FyiWindow = 1
  BatchMax = 2
  Horizon = 1
  MaxRevision = 1
  BoxStates = {"free"}
  TargetMoves = {}
  Refusals = {"unreadable"}
  Verdicts = {"queued", "delivered", "unaccounted", "timed_out"}
  NotReady = {}
  Interactive = FALSE
  LookMs = 1
  ReadWatch = 1
  RecheckMs = 1
  PerLook = 2
  LookTakesTime = TRUE
  MaxCrashes = 0
  MaxRowLosses = 0
  MaxFaults = 0
  MaxLosses = 0
  MaxRetries = 0
  MaxCancels = 0
  ClockSteps = FALSE
INVARIANTS HoldIsWatched
CHECK_DEADLOCK FALSE
