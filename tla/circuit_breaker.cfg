SPECIFICATION FairSpec
CONSTANTS
  w1 = w1
  w2 = w2
  None = None
  Workers <- TwoWorkers
  Threshold = 2
  OpenSeconds = 2
  WindowSeconds = 2
  MaxFaults = 2
INVARIANTS TypeOK OpenHasTimer WindowHasEnd
PROPERTIES PauseEndsWithTimer
