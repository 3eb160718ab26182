CONSTANTS
  Client = {c1, c2}
  Room = {r1}
  NoTarget = NoTarget
  MaxAreas = 0
  MaxClientsPerArea = 0
  MaxChannels = 0
  MaxClientsPerChannel = 0
  Inbound <- WhisperFrames
  SendBuf = 2
  MaxReads = 1
SPECIFICATION RelaySpec
INVARIANT WhisperPeerOnline
SYMMETRY ClientSymmetry
