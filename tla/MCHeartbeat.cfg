CONSTANTS
  pongWait = 60
  pingPeriod = 54
  writeWait = 10
  MaxWrite = 1
  MaxDelay = 2
  MaxBusy = 1
  MaxPassed = 1
SPECIFICATION FairSpec
INVARIANTS HeartbeatTypeOK LivePeerKept DeadPeerDropped
PROPERTY PeerLossEnds
