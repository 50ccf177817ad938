SPECIFICATION FairSpec
CONSTANTS
  W = 4
  MaxRunning = 2
  MaxFrames = 9
  MaxResets = 1
INVARIANTS HonestEndsAgree HeldBounded NoCreditLost
PROPERTIES NothingStalls
CHECK_DEADLOCK FALSE
