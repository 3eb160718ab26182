CONSTANTS
  Client = {c1, c2, c3}
  Room <- Keys
  NoTarget <- EmptyTarget
  MaxAreas = 0
  MaxClientsPerArea = 0
  MaxChannels = 2
  MaxClientsPerChannel = 2
  Char = {"p", "q", "x", ":"}
  Colon = ":"
  Kind <- PlainKinds
  Id <- Targets
  Custom <- PKind
SPECIFICATION ChannelsSpec
INVARIANTS ChannelsTypeOK ExactAudience
PROPERTY KeysAreInvisible
SYMMETRY ClientSymmetry
CHECK_DEADLOCK FALSE
