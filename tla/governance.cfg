SPECIFICATION MCSpec
CONSTANTS
  Keys = {"authority", "unauthorized", "new_authority", "another"}
  DefaultKey = "default"
  Accounts = {"first", "second"}
  ShareMint = "share_mint"
  AssetMint = "asset_mint"
  OtherMints = {}
  VaultUpdates = {}
  FeeUpdates = {}
  ExtensionUpdates = {}
  ExtensionInits = {}
  InstantArgs = {}
  TrancheArgs = {}
  Recipients = {}
  MaxSlot = 5
INVARIANTS ConfigSound OustedKeysHoldNoRole AgreesWithGovernanceTests
PROPERTIES NoticeGiven
\* A test ends.
CHECK_DEADLOCK FALSE
