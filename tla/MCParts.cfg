SPECIFICATION PartsSpec
CONSTANTS
  Lines <- SmallLines
  LinesOf <- EveryDay
  LastDay = 4
  SettledAfter = 1
  SuccessionWindow = 1
  VanishedLimit = 0
  MaxCorrections = 1
  Isins = {1, 2}
  FileDays = {1, 2}
  ScripDays = {2}
  Published <- SmallFiles
  Corrected <- SmallCorrected
  UnreadableShare = 30
  UnresolvedShare = 30
  ChunkDays = {1, 2}
  MaxRuns <- SmallRuns
  ActionIsins = {1, 2}
  Texts = {"odd", "both", "plain"}
  Wordings <- SmallWordings
  ExRanges <- SmallRanges
  Notices <- SmallNotices
  Histories <- SmallHistories
  FirstDate = 2
  LastDate = 3
  OpeningWindow = 1
  MaxChanges = 2
  SettledDays = {2}
  LastNotice = 4
  Identifiers = {1, 2}
  Owners = {"A", "B", "C"}
  Contents = {1, 2, 3}
  Figures <- SmallFigures
  Derivations <- SmallDerivations
  Priced <- SmallPriced
  RecheckedDays = 1
  MaxRereads = 3
  ListDays = 3
  Parts = 2
  Lists <- SmallLists
  HeldCodes <- SmallHeldCodes
  Named = {"A"}
  MaxListRuns = 3
  MaxAttempts = 2
  Interval = 1
  MaxCalls = 3
  FirstToday = 3
  LastToday = 3
  RecentDays = 1
  SyncDays = 2
  MaxFlows = 2
  LastTradeDay = 3
  LastKnownDay = 3
  MonthLength = 1
  WindowDays = 1
  Bars <- SmallBars
  Shares = {1}
  OtherBars <- SmallOthers
  MaxFacts = 3
  MaxComputations = 2
  Guesses = {g1, g2}
  FreeFailures = 1
  FirstPause = 1
  LongestPause = 2
  LastMinute = 3
  MaxFailures = 3
  Calls = {c1, c2}
  ActivityInterval = 2
  IdleLimits = {2, 3}
  MaxLimits = {4, 5}
  Longest = 1
  LastMoment = 6
  MaxInterventions = 1
  Changers = {w1, w2}
  People = {ada}
  Views = {1, 2}
  ViewNames <- SmallNames
  Addresses <- SmallAddresses
  NoName = unnamed
INVARIANTS PartsTypeOK
  IdentityPassesItsChecks ReachingBackLosesNothing SuccessionsLeadOn BothVenuesWriteSafely
  OneOwnerOfAFigure
  ExpiryCostsNoDay CleanExitReadEverything PrimaryVenueAsDefined
  GuessingIsSlowed ViewsKeepTheirScreens
PROPERTIES AnswerStands WithdrawnTextsReplaced EveryVersionIsNews
  FiguresKnownAsOf NamesHealByAWholeReading ChangedRowsAreDated
  LimitsHoldAsUsed TablesOfFacts
CHECK_DEADLOCK FALSE
