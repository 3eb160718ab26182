CONSTANTS
  pongWait = 60
  pingPeriod = 54
  writeWait = 10
  MaxWrite = 9
  MaxDelay = 2
  MaxBusy = 1
  MaxPassed = 1
SPECIFICATION Spec
INVARIANT AskedBeforeDropped
