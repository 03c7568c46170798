SPECIFICATION ServingSpec
CONSTANTS
  Runs = {"sync", "recent", "older"}
  Scheduled = {"sync"}
  After <- SmallAfter
  Readers = {p1, p2}
  Attempts = 2
  None = None
  Visitors = {v1}
  Marts = {"mart_trading_days", "mart_adjusted_prices", "mart_venue_spread"}
  Rebuilds = 1
INVARIANTS TypeOK ReadsOneBuild NoReaderWaitsForAWrite FiguresNotOlderThanRelease PublishesOwnAlone
PROPERTIES Implements NobodyWaitsForGood
CHECK_DEADLOCK FALSE
