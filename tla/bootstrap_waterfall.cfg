SPECIFICATION MCSpec
CONSTANTS
  Requests = {r1, r2, r3}
  Amounts = {1, 2}
  Navs = {1, 2}
  Settings <- MCSettings
  Precision = 1
  SecondsPerYear = 2
  MaxTime = 2
  MaxUpdates = 2
  MaxIds = 2
  MaxShares = 2
  MaxBurnt = 1
SYMMETRY MCSymmetry
PROPERTY PricesNeverOverstate
\* A lane whose numbers are used up has nothing left to do.
CHECK_DEADLOCK FALSE
