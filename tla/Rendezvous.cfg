SPECIFICATION Spec
CONSTANTS
  d = d
  e = e
  d1 = d1
  d2 = d2
  e1 = e1
  c1 = c1
  None = None
  Daemon = {d}
  DSocket = {d1, d2}
  CSocket = {c1}
  Owner <- MCOwner
  Budget <- MCBudget
  MaxPending = 1
  MaxSessions = 1
  MaxInFlight = 1
  silences = 1
  falseAlarms = 1
  resets = 1
  forgets = 1
  MaxTrouble = 2
INVARIANTS TypeOK CrossingFramesAreForgiven OneClaim SessionsAgree SweepComing
PROPERTIES PhoneFindsDaemon HandlersAgree
CHECK_DEADLOCK FALSE
