CONSTANTS
  Client = {c1, c2}
  Room <- Keys
  NoTarget <- EmptyTarget
  MaxAreas = 0
  MaxClientsPerArea = 0
  MaxChannels = 0
  MaxClientsPerChannel = 0
  Char = {"p", "q", "x", ":"}
  Colon = ":"
  Kind <- ColonKinds
  Id <- Targets
  Custom <- PKind
SPECIFICATION ChannelsSpec
INVARIANT ExactAudience
SYMMETRY ClientSymmetry
CHECK_DEADLOCK FALSE
