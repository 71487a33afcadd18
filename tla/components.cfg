SPECIFICATION MCSpec
CONSTANTS
  vault = vault  token = token  alice = alice  bob = bob  prog = prog
  \* Two windows and a slot, with calls of nothing and of the whole limit.
  Limit = 3  WindowSlots = 3  Amounts = {0, 1, 2, 3}  MaxSlot = 7
  \* A year of four seconds, so that the APY guard both binds and lets go, and a
  \* fee of one half, so that it is not lost in rounding.
  SecondsPerYear = 4  Precision = 1  Configs <- FeeConfigs  FeeRates = {0, 5000}
  Navs = {0, 1, 2, 3, 4}  Supplies = {0, 3, 10}  MaxTime = 3  MaxUpdates = 4
  \* Two owners, so that an address changes hands.
  Owners = {alice, bob}  RequestAmounts = {1}  Settings <- FreshnessSettings
  MaxRequestTime = 2  MaxVersion = 2  MaxSent = 2
  \* Entries of one and two cells.
  DataLen <- SomeDataLen  Cells = {0, 1, 5}  QueueOf <- SomeQueueOf
  \* Discriminator and amount of one cell, trees of up to four leaves.
  Vault = vault  DiscLen = 1  AmountLen = 1  Calls <- SomeCalls  Operators <- SomeOperators
  MAX_MANAGE_IX_DATA_LEN = 3  MAX_MANAGE_CPI_ACCOUNTS = 2  MAX_POLICY_OPERATORS = 2
  MAX_POLICY_INGESTED_INSTRUCTION_BYTES = 2
  MAX_POLICY_LEAVES = 4  MAX_MERKLE_PROOF_DEPTH = 2
INVARIANTS
  EachGainChargedOnce ChargesSpaced WindowCountsSpending SpanWithinTwiceLimit
  RequestReadsItsNumber AllowedCallsProvable OnlyAllowedCalls AgreesWithTrancheTests
PROPERTIES
  FeeDilutionExact DecisionsAreNotOlder PriceIsUnknownWhenAsked AreaIsAMap
\* A test ends, a tree is built, a vault without extensions has nothing left to do.
CHECK_DEADLOCK FALSE
