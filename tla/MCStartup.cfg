CONSTANTS
  Numeral <- MCNumeral
  UrlList <- MCUrlList
  Lowered <- MCLowered
  AbsolutePath <- MCAbsolutePath
  Boots <- MCBoots
  Caller = {g1, g2}
  NoCaller = NoCaller
  MaxCalls = 2
  MaxStarts = 2
SPECIFICATION FairStartupSpec
INVARIANTS
  LoggerTypeOK NoHandleLeaks WritesToOpenSinks SchemaComplete StartsAgain
  FollowsPrecedence ReloadAgrees ConfigSound
PROPERTIES LogOnlyGrows ImplementsJournal CallsReturn
\* the process may end for good
CHECK_DEADLOCK FALSE
