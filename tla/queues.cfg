SPECIFICATION Spec
CONSTANTS
  U64_MAX = 3
  Users = {u1}
  Requests = {r1, r2, r3}
  Primary = usdc
  SecondaryAssets = {}
  Amounts = {2}
  Navs = {1}
  Configs <- PlainConfigs
  PRECISION = 1
  U16_MAX = 2
  MAX_APPROVED_ASSETS = 2
  HasQueue <- BothQueues
  HasInstantSettlement = FALSE
  HasExternallyManagedWithdrawals = FALSE
  Operators = {}
  Funds = 4
  MaxNavVersion = 3
  MaxSlot = 0
  MaxReturned = 0
SYMMETRY Symmetry
INVARIANTS TypeOK EscrowBacked PendingCountExact QueueCoversIds
PROPERTIES SubscriptionsInOrder RedemptionsInOrder
