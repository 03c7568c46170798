SPECIFICATION Spec
CONSTANTS
  Venues = {BSE, NSE}
  Isins = {i1}
  Values = {low, high}
  TradeDays = {1}
  LastDay = 3
  RecheckedDays = 2
  Publications = 3
  Syncs = 3
  Absent = Absent
INVARIANTS TypeOK NothingHidden KnownAsOf StoredDaysJudged VenuesAgree
SYMMETRY Symmetry
