SPECIFICATION Spec
CONSTANTS
  U64_MAX = 7
  Users = {u1}
  Requests = {r1, r2}
  Primary = usdc
  SecondaryAssets = {}
  Amounts = {1, 2, 3}
  Navs = {3}
  Configs <- EconomyConfigs
  PRECISION = 2
  U16_MAX = 2
  MAX_APPROVED_ASSETS = 2
  HasQueue <- NoQueues
  HasInstantSettlement = TRUE
  HasExternallyManagedWithdrawals = TRUE
  Operators = {}
  Funds = 6
  MaxNavVersion = 2
  MaxSlot = 2
  MaxReturned = 2
SYMMETRY Symmetry
ACTION_CONSTRAINT InScenario
INVARIANTS NoFreeValue CapRespected PendingDepositsExact BalanceIsVirtualReserve
PROPERTIES ApprovalIsFinal RedemptionsMetered
