SPECIFICATION Spec
CONSTANTS
  h = h
  a = a
  b = b
  f = f
  d = d
  NoMsg = NoMsg
  SenderOf <- MCSenderOf
  LabelOf <- MCLabelOf
  Msg = {h}
  Interrupting = {}
  ReplyExpected = {}
  Coalesce = TRUE
  ActionWindow = 1
  FyiWindow = 1
  BatchMax = 2
  Horizon = 1
  MaxRevision = 1
  BoxStates = {"free", "draft", "own", "dialog", "parked", "question", "launching", "unreadable"}
  TargetMoves = {"stop", "start"}
  Refusals = {"draft", "unreadable"}
  Verdicts = {"queued", "delivered", "unaccounted", "timed_out"}
  NotReady = {"busy"}
  Interactive = FALSE
  LookMs = 1
  ReadWatch = 1
  RecheckMs = 1
  PerLook = 2
  LookTakesTime = FALSE
  MaxCrashes = 0
  MaxRowLosses = 0
  MaxFaults = 1
  MaxLosses = 1
  MaxRetries = 1
  MaxCancels = 1
  ClockSteps = TRUE
INVARIANTS AtMostOneCopy
CHECK_DEADLOCK FALSE
