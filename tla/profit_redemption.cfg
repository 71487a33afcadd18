SPECIFICATION Spec
CONSTANTS
  U64_MAX = 3
  Users = {u1}
  Requests = {r1, r2}
  Primary = usdc
  SecondaryAssets = {}
  Amounts = {2}
  Navs = {1, 2}
  Configs <- PlainConfigs
  PRECISION = 1
  U16_MAX = 2
  MAX_APPROVED_ASSETS = 2
  HasQueue <- NoQueues
  HasInstantSettlement = FALSE
  HasExternallyManagedWithdrawals = TRUE
  Operators = {}
  Funds = 4
  MaxNavVersion = 2
  MaxSlot = 0
  MaxReturned = 4
SYMMETRY Symmetry
INVARIANT BalanceCoversRedemptions
