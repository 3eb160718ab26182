CONSTANTS
  Client = {c1, c2, c3}
  Room = {r1, r2}
  NoTarget = NoTarget
  MaxAreas = 1
  MaxClientsPerArea = 2
  MaxChannels = 0
  MaxClientsPerChannel = 0
SPECIFICATION HubSpec
INVARIANTS HubTypeOK Mirrored NoEmptyRoom WithinLimits MembersCanReceive
PROPERTY ImplementsPresence
SYMMETRY ClientSymmetry
CHECK_DEADLOCK FALSE
