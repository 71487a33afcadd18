SPECIFICATION Spec
CONSTANTS
  U64_MAX = 2
  Users = {u1, u2}
  Requests = {r1, r2}
  Primary = usdc
  SecondaryAssets = {usdt}
  Amounts = {2}
  Navs = {1}
  Configs <- AdminConfigs
  PRECISION = 1
  U16_MAX = 2
  MAX_APPROVED_ASSETS = 2
  HasQueue <- BothQueues
  HasInstantSettlement = FALSE
  HasExternallyManagedWithdrawals = TRUE
  Operators = {u2}
  Funds = 2
  MaxNavVersion = 1
  MaxSlot = 0
  MaxReturned = 0
SYMMETRY Symmetry
INVARIANTS PendingAssetsApproved
PROPERTIES PauseStopsSettlement
