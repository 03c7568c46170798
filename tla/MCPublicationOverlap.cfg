SPECIFICATION ServingSpec
CONSTANTS
  Runs = {"sync", "recent", "older"}
  Scheduled = {"sync"}
  After <- SmallAfter
  Readers = {p1}
  Attempts = 2
  None = None
  Visitors = {v1}
  Marts = {"mart_trading_days", "mart_adjusted_prices", "mart_venue_spread"}
  Rebuilds = 1
INVARIANT PublishesOwn
CHECK_DEADLOCK FALSE
