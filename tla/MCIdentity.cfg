SPECIFICATION IdentitySpec
CONSTANTS
  Lines <- Renamed
  LinesOf <- TickerLeft
  LastDay = 3
  SettledAfter = 1
  SuccessionWindow = 1
  VanishedLimit = 0
  MaxCorrections = 0
INVARIANTS SuccessionsFollowBars
CHECK_DEADLOCK FALSE
