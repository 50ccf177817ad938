SPECIFICATION FairSpec
CONSTANTS
  d = d
  e = e
  d1 = d1
  d2 = d2
  e1 = e1
  c1 = c1
  None = None
  Daemon = {d, e}
  DSocket = {d1, d2, e1}
  CSocket = {}
  Owner <- MCOwner
  Budget <- MCBudget
  MaxPending = 1
  MaxSessions = 1
  MaxInFlight = 1
  silences = 1
  falseAlarms = 1
  resets = 0
  forgets = 0
  MaxTrouble = 1
PROPERTIES SlotIsNotStolen DaemonComesBack
CHECK_DEADLOCK FALSE
