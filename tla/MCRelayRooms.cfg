CONSTANTS
  Client = {c1, c2}
  Room = {r1}
  NoTarget = NoTarget
  MaxAreas = 0
  MaxClientsPerArea = 0
  MaxChannels = 0
  MaxClientsPerChannel = 0
  Inbound <- RoomFrames
  SendBuf = 2
  MaxReads = 2
SPECIFICATION RelaySpec
INVARIANTS RelayTypeOK BroadcastReachesMembers SenderStaysMember PerSenderOrder
  LeftIsLast NoticesAreTrue
PROPERTY BroadcastCompletes
SYMMETRY ClientSymmetry
