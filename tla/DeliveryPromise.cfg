SPECIFICATION Spec
CONSTANTS
  h = h
  a = a
  b = b
  f = f
  d = d
  NoMsg = NoMsg
  SenderOf <- MCSenderOf
  LabelOf <- MCLabelOf
  Msg = {a, f}
  Interrupting = {}
  ReplyExpected = {}
  Coalesce = TRUE
  ActionWindow = 1
  FyiWindow = 1
  BatchMax = 2
  Horizon = 1
  MaxRevision = 2
  BoxStates = {"free"}
  TargetMoves = {}
  Refusals = {"unreadable"}
  Verdicts = {"delivered", "unaccounted", "timed_out"}
  NotReady = {}
  Interactive = FALSE
  LookMs = 1
  ReadWatch = 1
  RecheckMs = 1
  PerLook = 2
  LookTakesTime = FALSE
  MaxCrashes = 0
  MaxRowLosses = 0
  MaxFaults = 0
  MaxLosses = 1
  MaxRetries = 0
  MaxCancels = 0
  ClockSteps = FALSE
INVARIANTS SenderWasTold WakeUpComing
PROPERTIES Delivery FailedIsAbsent
CHECK_DEADLOCK FALSE
