SPECIFICATION MCSpec
CONSTANTS
  Alice = Alice  prog = prog  disc = disc  v3 = v3
  Keys = {Alice}
  DefaultKey = NoKey
  Accounts = {}  PolicyAccounts = {a1, a2}
  ShareMint = ShareMint  AssetMint = AssetMint  OtherMints = {}
  VaultUpdates = {}
  FeeUpdates = {}
  ExtensionUpdates = {}
  ExtensionInits = {}
  InstantArgs = {}
  TrancheArgs = {}
  Recipients = {Alice}
  MaxSlot = 2
  VenueIds = {v1, v2, v3}  TargetPrograms = {prog}  Discriminators = {disc}
  Assets = {usdt}
  Amounts = {1}
  MaxTokens = 1
  Leaves <- SomeLeaves
  PolicyUpdates <- SomePolicyUpdates
  ThisProgram = self
  MaxVersion = 3
SYMMETRY MCSymmetry
INVARIANTS PositionCountExact CallsNeedStandingApproval
PROPERTIES LedgerHolds StaleUpdatesRefused PolicyNoticeGiven
