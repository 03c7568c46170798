SPECIFICATION Spec
CONSTANTS
  Venues = {NSE}
  Isins = {i1}
  Values = {low, high}
  TradeDays = {1, 2}
  LastDay = 3
  RecheckedDays = 2
  Publications = 3
  Syncs = 3
  Absent = Absent
INVARIANTS ChangesCovered
SYMMETRY Symmetry
