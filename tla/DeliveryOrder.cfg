SPECIFICATION Spec
CONSTANTS
  h = h
  a = a
  b = b
  f = f
  d = d
  NoMsg = NoMsg
  SenderOf <- MCSenderOf
  LabelOf <- MCLabelOf
  Msg = {h, a, b}
  Interrupting = {}
  ReplyExpected = {}
  Coalesce = TRUE
  ActionWindow = 1
  FyiWindow = 1
  BatchMax = 1
  Horizon = 1
  MaxRevision = 2
  BoxStates = {"free"}
  TargetMoves = {"stop"}
  Refusals = {}
  Verdicts = {}
  NotReady = {}
  Interactive = FALSE
  LookMs = 1
  ReadWatch = 0
  RecheckMs = 1
  PerLook = 3
  LookTakesTime = FALSE
  MaxCrashes = 0
  MaxRowLosses = 0
  MaxFaults = 0
  MaxLosses = 0
  MaxRetries = 0
  MaxCancels = 0
  ClockSteps = FALSE
PROPERTIES OrderKept
CHECK_DEADLOCK FALSE
SYMMETRY Ferrets
