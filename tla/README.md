# TLA+ models of async_vault_v2

A verification development for the Anchor program `programs/async_vault_v2`, a
Solana vault in which deposits and redemptions are *requests*: a user escrows
assets or burns shares, a curator or fulfiller later prices the request at a
published net asset value (NAV) or turns it down, and the owner claims the
result. The models follow the program's source; where a document and the source
disagree, the source is what is modelled and the disagreement is a run of its
own.

All paths below are relative to `programs/async_vault_v2/src` unless they start
with another directory.

## 1. Inventory

### Why interleaving matters here

There are no threads in the program. Every instruction locks the accounts it
writes and is rolled back whole when a check fails, so an instruction is atomic.
What is concurrent is the *order of transactions*: users, operators, the
curator, the fulfiller, the breaker and anybody who calls a permissionless
instruction submit independently, and a lifecycle takes three to five
instructions of different signers with arbitrary ones between them. State that
several instructions must keep in agreement is spread over accounts: counters in
the vault, one account per request, one per secondary asset, and token accounts
owned by the program. No instruction can look at all requests, so totals are
maintained incrementally and never recomputed. A total that drifts by one is not
noticed when it happens. It is noticed when a `checked_sub` fails in a refund,
much later.

### Components

| Component | State | Operations | Interacts through |
|---|---|---|---|
| Request lifecycle (`instructions/create_*_request.rs`, `approve_request.rs`, `reject_request.rs`, `cancel_request.rs`, `claim.rs`, `set_operator.rs`, `state/request.rs`) | `Request` accounts; `pending_async_requests`, `total_asset_balance`, `pending_deposit_amount`; reserve and escrow token accounts | create, approve, reject, cancel, claim, set operator | queues, fees, limits, caps, NAV, pause |
| FIFO queues (`extensions/fifo_queues`, `subscription_queue`, `redemption_queue`) | two wrapping `u64` counters per queue, an id in each request | assign an id, check and advance, cancel to a tombstone, skip a tombstone | called by create, approve and reject |
| Instant settlement (`instant_deposit.rs`, `instant_redeem.rs`, `extensions/instant_settlement`) | per-user windows, thresholds | deposit or redeem at once | shares the reserve, the cap, the redemption window and the fees with requests |
| Prices, fees, rounding (`utils.rs`, `libs/vault_common/src/fee.rs`, `extensions/fee`) | none | shares for assets, assets for shares, fee, protocol split | every settlement |
| Rolling limits (`state/async_vault_v2.rs`) | start and amount of a window | consume | redemptions, external withdrawals, manager moves, instant users |
| Configuration and pause (`update_vault.rs`, `execute_vault_update.rs`, `pause_vault.rs`, the extension update instructions) | `Vault` settings, extension values, `paused` | direct update, timelocked update, pause by the breaker | read by everything |
| Vault assets (`add_vault_asset.rs`, `remove_vault_asset.rs`) | `VaultAsset` accounts, `approved_asset_count` | approve, remove | requests for secondary assets need the account |
| External withdrawals (`withdraw_assets.rs`, `extensions/externally_managed_withdrawals`) | withdrawal window | send reserve assets out | leaves `total_asset_balance` alone |
| NAV update (`update_nav.rs`) | `nav`, version, slot, high-water mark | publish a NAV, mint performance fee shares | prices every settlement |
| Tranches (`initialize_tranches.rs`, parts of `update_nav.rs`, `approve_request.rs`) | `TrancheConfig`: committed supplies, NAVs, targets | waterfall, junior floor, per-tranche lanes | NAV update, approvals |
| Timelock and authority (`queue_*`, `execute_*`, `cancel_*`, `invite_new_authority.rs`, `accept_authority_invitation.rs`) | one account per queued change | queue, execute after eta, cancel, hand over | configuration |
| Venues, positions, strategy policies (`*_venue*.rs`, `*_strategy_policy*.rs`, `manage_vault_with_merkle_verification.rs`, `utils/merkle.rs`) | venue registry, positions, policies and their queued updates | deploy, pull, run a verified call of another program | reserve, manager limits |
| Creation and extension setup (`create_vault.rs`, `initialize_vault.rs`, `extensions/tlv.rs`) | TLV area of the vault | create, add extensions, initialize | decides which extensions exist |
| Protocol fee configuration | one record | set the recipient | fee payments |
| Clients, IDL, web application | none of the protocol's | submit transactions | - |

### What is hard, and what makes each component correct

- **Requests and escrow.** A deposit sits in an escrow account shared by all
  requests for the asset; an approved redemption sits in the *same* account
  until it is claimed; a cancelled queued request is refunded while its account
  lives on. Correct when the escrow account holds exactly what it owes
  (`EscrowBacked`), the two running totals are exact (`PendingDepositsExact`,
  `PendingCountExact`), and an approval is final (`ApprovalIsFinal`).
- **Queues.** The queue is two counters; the requests are found by whoever calls.
  Correct when the open requests carry exactly the ids between the counters,
  across the wrap (`QueueCoversIds`), requests are served in creation order
  (`SubscriptionsInOrder`, `RedemptionsInOrder`), and nothing can wedge the queue
  (`QueueDrains`).
- **Value.** Fees round up, conversions round down, refunds are exact, on four
  paths that can be alternated for ever (`NoFreeValue`). The cap is checked at
  creation against confirmed plus pending deposits and charged at approval, with
  instant deposits between (`CapRespected`). The virtual balance tracks the
  reserve across withdrawals (`BalanceIsVirtualReserve`).
- **Administration between two steps.** An asset must not be removed while a
  deposit for it waits (`PendingAssetsApproved`); a pause must stop every
  settlement but not the way out (`PauseStopsSettlement`, `QueueDrains`).
- **Limits.** Two kinds of redemption share one window (`RedemptionsMetered`),
  and a window that does not slide can be used twice in a row
  (`WindowCountsSpending`, `SpanWithinTwiceLimit`).
- **Decisions on what was read.** The fulfiller signs with the terms it read; by
  the time the transaction runs the account may hold another request, and the
  price may be one the owner already knew (`DecisionsAreNotOlder`,
  `PriceIsUnknownWhenAsked`).
- **Performance fee.** Correct when no gain is charged twice, charges keep their
  distance, and the fee shares are worth the fee once they dilute
  (`EachGainChargedOnce`, `ChargesSpaced`, `FeeDilutionExact`).
- **Tranches.** The waterfall divides by cached supplies that approvals, claims
  and redemptions move at different times (`SupplyCacheExact`); approvals keep a
  floor under junior (`ApprovalKeepsJuniorFloor`), losses are junior's first
  (`SeniorLosesLast`), and four lanes must not lose a request (`NoneLeftBehind`).
- **Timelock and hand-over.** Queued changes outlive the configuration and the
  curator they were queued under. Correct when nothing timelocked changes without
  the notice that was promised (`NoticeGiven`), the rules between fields survive
  every order of execution (`ConfigSound`), and who handed the vault over keeps
  no way back (`OustedKeysHoldNoRole`).
- **Venues and strategies.** Counts and totals kept by hand over venues, assets
  and positions that come and go, with the tokens to match (`PositionCountExact`,
  `LedgerHolds`); calls only while everything that allows
  them stands: policy, venue, role and limit (`CallsNeedStandingApproval`), queued policy updates only for the policy they
  were made for and after their notice (`StaleUpdatesRefused`,
  `PolicyNoticeGiven`); a client and a program that must hash alike
  (`AllowedCallsProvable`, `OnlyAllowedCalls`).
- **The TLV area.** Found by walking, so one wrong length changes everything
  behind it (`AreaIsAMap`, `RequestReadsItsNumber`).

The full list, each at its line, is `hazards` in `PROJECT.json`.

## 2. Modules

| Module | What it is |
|---|---|
| `VaultMath` | Fees, protocol split, conversions: `FeeType::get_fee`, `split_protocol_fee`, `calculate_shares`, `calculate_assets` |
| `RollingLimit` | `Vault::consume_rolling_limit`: the check and the window it leaves |
| `FifoQueue` | The counters of a queue extension: ids, wrap, head check, advance |
| `RequestQueue` | Abstract specification: requests join at the back and leave from the front |
| `AsyncVault` | The request lifecycle with everything that runs between its steps; composes the three operator modules |
| `RollingWindow` | A rolling limit in use, against a record of everything consumed |
| `Fulfillment` | The fulfiller's signed decisions (`ApproveRequestArgs`, `RejectRequestArgs`) against an address that changes hands and a NAV that ages |
| `NavUpdate` | `update_vault_nav` of a vault without tranches: NAV guards, performance fee, high-water mark |
| `Tranches` | What a senior and a junior share mint change: lanes, request limits, supply cache, junior floor, waterfall |
| `Governance` | Setup, direct and queued changes, authority hand-over, breaker, protocol fee routing |
| `Venues` | On top of `Governance`: registry, approvals, secondary assets, positions, manager moves, external withdrawals |
| `StrategyPolicies` | On top of `Venues`: policies, their queued updates, managed calls |
| `MerklePolicy` | The client's tree and proof builder and the program's leaf hash and verifier |
| `Tlv` | The byte area behind a vault or request account |
| `ExtensionMap` | Abstract specification of `Tlv`: a map that gains an entry or replaces one |
| `Replay` | Vocabulary of the integration tests: a call that succeeds, one that fails, an assertion |
| `GovernanceTests`, `TrancheTests` | Integration tests of the repository, replayed on `Governance` and `Tranches` |
| `MCAsyncVault`, `MCEconomics`, `MCGovernance`, `MCStrategyPolicies`, `MCTranches`, `MCComponents` | Instances for TLC |
| `Units` | A sum as the cardinality of a set of units; used by properties of `AsyncVault`, `Tranches`, `RollingWindow` and `Venues` |
| `Units_proofs` | Lemmas on it: a sum of one, of none, of a part, and what one changed entry does to a sum |
| `AsyncVault_proofs` | Type correctness, the virtual reserve, exactness of the escrow accounts, the pending totals and the pending count |
| `Queue_proofs` | The ids of the open requests, and the refinement of `RequestQueue` by both queues |
| `Settlement_proofs` | Approvals, pause, redemption window, cap, approved assets, that round trips create no value, and that whoever waits can leave |
| `StrategyPolicies_proofs` | Soundness of the settings, ousted keys and notice of `Governance`; position counts and ledger of `Venues`; calls, late updates and notice of `StrategyPolicies` |
| `Tranches_proofs` | Lanes, supply cache, junior floor, seniority |
| `Components` | `RollingWindow`, `NavUpdate` and `Fulfillment` side by side |
| `Components_proofs` | The rolling window, the performance fee and the late decisions |
| `Formats_proofs` | What a policy's Merkle root admits, and that the byte area of `Tlv` implements `ExtensionMap` |

`AsyncVault`, `Governance` and `Tranches` are three views of one program. Each
keeps the state its properties need and takes the others' effects as inputs:
`AsyncVault` lets any valid configuration appear (`ExecuteVaultUpdate`), and
`Governance` says which may appear, when and by whom; `Tranches` leaves out fees,
caps and limits, which `AsyncVault` has, and `AsyncVault` leaves out tranches.
`Venues` and `StrategyPolicies` extend `Governance`, so that roles, pauses and the
timelock change between their steps.

A definition whose comment speaks of a *mutant* is followed or preceded by a
variant with a plausible mistake. No specification uses the variant; `PROJECT.json`
pairs it with the property that finds it.

### AsyncVault: state

`config` holds the `Vault` settings and the values of updatable extensions; a
vault without an extension is one whose fee is `FixedAmount(0)`, whose minimum is
0, or whose pause flag is off, which is what the code's `get_*` functions return
then. The extensions whose mere presence changes control flow are constants
(`HasQueue`, `HasInstantSettlement`, `HasExternallyManagedWithdrawals`), because
extensions can only be added before `initialize_vault`, which is where `Init`
starts. `request` maps each address a request can be created at to the account
or `Closed`; a closed address can be used again, as in the program. `wallet`,
`share_balance`, `reserve`, `pending_vault` and `fee_balance` are token accounts.
`withdrawn` and `returned` record what left and entered the reserve outside
requests, and are read by no action except the bound on `ReturnAssets`.

### AsyncVault: actions

| Action | Instruction |
|---|---|
| `CreateDepositRequest`, `CreateRedeemRequest` | `create_deposit_request`, `create_redeem_request` |
| `ApproveDeposit`, `ApproveRedeem` | the two arms of `approve_request` |
| `RejectRequest` | `reject_request`, the only refund that works while paused |
| `CancelRequest` | `cancel_request`, for requests without a queue id |
| `CancelQueuedDepositRequest`, `CancelQueuedRedemptionRequest` | the instructions of the same name: refund and tombstone |
| `SkipCanceledQueueRequest` | `skip_canceled_queue_request`, permissionless |
| `Claim`, `SetOperator` | `claim`, `set_operator` |
| `InstantDeposit`, `InstantRedeem` | `instant_deposit`, `instant_redeem` |
| `UpdateVaultNav` | `update_vault_nav`, reduced to publishing the NAV (`NavUpdate` and `Tranches` have the rest) |
| `UpdateVault`, `ExecuteVaultUpdate`, `UpdateExtension`, `PauseVault` | configuration, direct or when a queued change is executed |
| `AddVaultAsset`, `RemoveVaultAsset` | same |
| `WithdrawAssets` | `withdraw_assets` |
| `ReturnAssets` | a plain token transfer into the reserve; the program does not see it |
| `Tick` | the slot advances |

Guards are the `require!`s and account constraints that depend on state; signer
checks choose who may call and disappear, except where the caller matters
(`Claim` by owner or operator). A failing instruction changes nothing and is a
stuttering step. The guard `x >= y` before a subtraction is the code's
`checked_sub`; token transfers and burns fail when the source has too little, and
are guarded the same way.

Left out of `AsyncVault` on purpose: token mint decimals other than `PRECISION`,
transfer fees of token mints (the program refuses such mints), lamports and
account rent, events, `u64`/`u128` overflow of amounts (amounts in the instances
are small; counters that can be exhausted keep their width: `u16` pending count,
`u64` queue ids).

### Governance

`vault` is the `Vault` account; `extension` its TLV area as a function from the
types present; `pending` the open `Pending*Update` accounts; `tranche_config` and
`protocol_fee_config` are empty or hold the one account. Arguments of an update
are functions whose domain is the set of `Some` fields. `notice` (the delay in
force when an account was queued) and `ousted` (keys that handed the vault over
and were given nothing since) are history and guard no action. The initial state
is what `create_vault` writes.

| Action | Instruction |
|---|---|
| `InitializeExtension`, `InitializeInstantSettlement`, `InitializeTranches`, `InitializeVault` | the `initialize_*` instructions |
| `UpdateVault`, `UpdateFee`, `UpdateExtension`, `PauseVault` | direct changes; all but pause and breaker are refused under a timelock |
| `QueueVaultUpdate`, `QueueFeeUpdate`, `QueueExtensionUpdate` | `queue_*_update` |
| `ExecuteVaultUpdate`, `ExecuteFeeUpdate`, `ExecuteExtensionUpdate` | `execute_*_update`, by anyone, after eta, while the curator is who queued it |
| `CancelUpdate` | the three `cancel_*_update` |
| `InviteNewAuthority`, `AcceptAuthorityInvitation` | same |
| `InitializeProtocolFeeConfig`, `UpdateProtocolFeeConfig` | same |

### Venues and StrategyPolicies

Token accounts (`reserve`, `position_token`) are kept apart from the program's
books (`idle_balance`, `deployed_balance`, `position`), because transfers reach
the first without the second. Every instruction of the venue registry, of
approvals, of positions and of policies is an action of the same name. Three
actions are external: `SendToReserve` and `SendToPosition` are plain transfers,
and `PreFund` gives a secondary asset an idle balance, which no reachable
instruction of the program does (the tests write it into the account).

A managed call (`ManageVaultWithMerkleVerification`) is one step. The program
sets `executing` and flushes it before the call, clears it after, compares the
share supply, and any failure undoes everything; the target cannot be this
program, and the runtime refuses a callback into a program that is on the call
stack. So no other instruction of the vault runs inside. `called` records the venue entry,
the leaf and the amount of the last call, so that `CallsNeedStandingApproval` can
ask of the state it was made in whether its policy, venue, role and limit allow it.
What the target does to
token accounts (`TargetEffect`) is nothing, or taking the amount from the reserve
or from a position's token account. The books are the program's own and stay
balanced (`LedgerBalanced`), but they may promise more than the call left; every
other step keeps the tokens that were there (`LedgerHolds`).

A Merkle root is the set of leaves it commits to. That this is right is the
subject of `MerklePolicy`, where hashes are free terms with a domain, the client
builds the tree level by level, and the program folds a proof.

### NavUpdate, Tranches, Fulfillment, Tlv

`NavUpdate`: `UpdateVaultNav` is the whole instruction for a vault without
tranches. `SetPerformanceFee` and `SetSupply` are what other instructions do in
between. `charges` is history.

`Tranches`: the request instructions of `AsyncVault` with a lane
`<<tranche, type>>` each. `tranche_supply` is the cache in `TrancheConfig`,
`mint_supply` the token program's supply, and `burnt` records what holders burnt
by themselves, which the cache goes on counting. `CancelRequest` is
`cancel_request` without a queue and the tombstone of `cancel_queued_*` with one.

`Fulfillment`: one address, its request, and the transactions the fulfiller has
signed (`sent`). A transaction stays in `sent` after it ran, so it may be late or
be sent twice.

`Tlv`: cells instead of bytes, one for a type and one for a length. Values hold
zeros, type numbers and lengths, so that a walk that loses its place finds
something plausible.

### The replayed tests

`GovernanceTests` has the calls of 48 test functions on setup, configuration, timelock,
authority, fees, instant settlement setup and tranche setup, each `test_case` a
sequence of its own; `TrancheTests` twelve on lanes, limits, floor and waterfall.
A test passes when the model accepts and refuses the calls the test says the
program accepts and refuses, and the asserted fields have the asserted values. A
refusal is checked, not its error code. `TrancheTests` scales amounts: a billion
is a thousand, a price of a billion is 10 at `Precision` 10, a year has four
seconds.

## 3. Runs

| Run | Asks | Instance |
|---|---|---|
| `queues` | Do escrow, count and both queues stay exact, and does each queue implement `RequestQueue`? | 3 request addresses, 1 user, both queues, ids 0..3 |
| `economics` | Can any order of calls create value, pass the cap, reprice an approval, or redeem past the window? | *fees*: 2 addresses, amounts 1 to 3, NAV 3/2, a 20% deposit fee that is switched, a fixed withdrawal fee, cap 5, instant settlement, withdrawals and returns. *limits*: one open request, slots 0..2, window of 1 slot, limit 3 |
| `administration` | Can a change of configuration, a pause or the removal of an asset come between two steps and do harm? | 2 users, an operator, 1 secondary asset, 3 configurations |
| `liveness` | Does every queued request leave its queue? | 2 addresses, 4 configurations, secondary asset, pause |
| `governance` | Who can change what, after which notice, and does the model agree with the tests? | *handover*: 3 keys, 1 pending account, 3 slots. *timelock*: 1 key, 2 pending accounts, delays 0, 1 and 2, 4 slots. *setup*: 1 key, all setup instructions with valid and invalid arguments. *tests*: the replayed tests |
| `strategy` | Do counts, ledger, approvals and notices hold for venues and policies? | *venues*: 2 venues, 2 assets, 2 tokens per mint. *calls*: 1 venue, 2 leaves, versions to 3, a manager who loses the role, a limit that is switched on. *queue*: 2 pending policy updates, delays 0 and 1, 3 slots |
| `tranches` | Are cache, floor, seniority and lanes right? | *value*: 2 open requests, amounts and NAVs 1 and 2, a burn, a floor of 50%, a target of 100% a year of 2 seconds. *lanes*: 3 requests, both queues, limits on two lanes |
| `components` | Six questions about models that share no state | see below |
| `secondary_cancel`, `profit_redemption`, `bootstrap_waterfall`, `wiped_out_junior` | violations, see Findings | |

A run with *scenarios* has a variable that the first state sets and no step
changes; each scenario is an `INSTANCE` of the component with its own inputs over
the same variables, so that every property is checked in each of them. In
`economics` the first configuration chooses the scenario and an action constraint
(`InScenario`) keeps to it. In `components` the scenario chooses which of six
modules moves while the others rest in an initial state:

| Part | Properties | Instance |
|---|---|---|
| `NavUpdate` | `EachGainChargedOnce`, `ChargesSpaced`, `FeeDilutionExact` | 3 configurations (free; interval 2 and a protocol share; both NAV guards), fee 0 or 50%, NAV 0..4, supplies 0, 3, 10, 4 updates, clock to 3 |
| `Fulfillment` | `DecisionsAreNotOlder`, `PriceIsUnknownWhenAsked` | 2 owners, 2 transactions, 2 NAV versions, clock to 2, all four settings of freshness and a staleness bound of 0 or 1 |
| `RollingWindow` | `WindowCountsSpending`, `SpanWithinTwiceLimit` | slots 0..7, window 3, limit 3 |
| `Tlv` | `AreaIsAMap`, `RequestReadsItsNumber` | a fee of 2 cells and both queues; cells 0, 1, 5 |
| `MerklePolicy` | `AllowedCallsProvable`, `OnlyAllowedCalls` | 1 to 4 leaves in every order, 6 calls that differ in one respect each, 5 operator lists, all proofs of depth 0 to 2 over all nodes |
| `TrancheTests` | `AgreesWithTrancheTests` | the replayed tests |

### Bounds, and why they are enough

- `U64_MAX` (2, 3 or 7 in place of 2^64-1). With ids 0..3 and three addresses the
  counters wrap several times within a run while the queue is as full as the
  active window allows, which is the case a test would need 2^64 requests for.
- `WithinActiveWindow`: a guard on creation that the program does not have. The
  source promises FIFO order "within any active request window"
  (`extensions/subscription_queue/processor.rs`, on `SubscriptionQueueRequest`):
  ids repeat after 2^64, so at most 2^64-1 requests can be open at once. Rent for
  that many accounts does not exist.
- `U16_MAX` (1 or 2): smaller than the number of addresses in `queues`, so that
  the pending count is met at its limit while tombstones and claimable requests,
  which it does not count, fill the rest.
- `MaxNavVersion`: NAV updates per behaviour; 3 in `queues` is enough for the
  wrap with fresh NAVs required, because one NAV serves several requests.
- `MaxSlot`, `Funds`, `MaxReturned`: the clock, the users' initial assets, the
  assets sent back. `Funds` covers two or three requests at once.
- In `economics` `Navs` is one price, 3/2 per share, that divides no amount
  evenly: `NoFreeValue` is about rounding and is false across price changes by
  design (gains are the point of a vault). The cap is the same in both
  configurations: lowering it below what was confirmed is allowed.
- `Governance`: three keys are an authority, a successor and a third, so that a
  hand-over comes back (A to B to A) and a role goes to somebody else; two pending
  accounts are enough for any two changes to overtake each other, and the delay
  itself is one of them. `MaxSlot` is longer than the longest delay.
- `StrategyPolicies`: `MaxVersion` 3 lets a policy be updated, stopped and updated
  again, which is what a leaf for an old version needs to become acceptable by
  mistake. `MaxTokens` bounds what reaches one mint.
- `Tranches`: `MaxIds`, `MaxShares` and `MaxUpdates` 2, so that two approvals meet
  between two NAV updates; `MaxBurnt` 1. Floors and targets are coarse on purpose:
  with amounts of 1 and 2 a floor of 50% is met, missed and met exactly.
- `NavUpdate`: values 0 to 4 rise, fall below the mark and pass it again within
  four updates. With a fee of half and supplies of 3 and 10 the minted shares are
  not whole, so rounding is part of the run. A year of four seconds makes the APY
  guard bind at one distance of updates and not at another.
- `Tlv` and `MerklePolicy` replace byte lengths by cells (header 2, discriminator
  1, amount 1) and keep every comparison of lengths and offsets.
- `Permutations(Requests)` is a sound symmetry: addresses are only compared for
  equality. It is not used in the run with a liveness property. In `strategy` the
  two venues and the two pending accounts are exchanged in the same way.

### Fairness

`FairSpec` has weak fairness of `RejectRequest(r)` and
`SkipCanceledQueueRequest(r)`. Skipping is permissionless, so whoever waits
behind a tombstone can do it. Rejecting is the fulfiller's job and has no
condition on pause, NAV, cap or fees, so a fulfiller that serves the head can
always do it once the request is the head. No fairness is assumed of approvals,
claims, NAV updates or unpausing; the point of the property is that none of them
is needed. Both actions stay enabled from the moment the request is the head
until it leaves, so weak fairness is enough.

## 4. Proofs

Every theorem is checked by TLAPS and stated for all values of the constants
that the assumptions below admit: any finite set of request addresses, any
users, keys, assets, amounts, NAVs, configurations and precision, and clocks and
counters of any width. A property that appears here by name is also an
`INVARIANT` or a `PROPERTY` of a run, except where the table says otherwise; an action property is `[][A]_vars` with a
named `A`, and its proof shows `A` of every step from the invariant named.

| Theorem | Property | Rests on |
|---|---|---|
| `TypeCorrect` | `TypeOK` | itself |
| `VirtualReserve` | `BalanceIsVirtualReserve` | `TypeOK` |
| `EscrowExact`, `PendingDepositsAreExact`, `PendingCountIsExact` | `EscrowBacked`, `PendingDepositsExact`, `PendingCountExact` | `AccountsExact`, the three together |
| `QueueIdsCovered` | `QueueCoversIds` | `QueuesFilled` |
| `SubscriptionsServedInOrder`, `RedemptionsServedInOrder` | `SubscriptionsInOrder`, `RedemptionsInOrder` | `QueuesFilled` |
| `ApprovalsAreFinal`, `PauseIsRespected`, `RedemptionsAreMetered` | `ApprovalIsFinal`, `PauseStopsSettlement`, `RedemptionsMetered` | `TypeOK` |
| `CapIsRespected` | `CapRespected` | `TypeOK`; only where the cap is not tightened |
| `PendingAssetsStayApproved` | `PendingAssetsApproved` | `PendingDepositsExact`, `PendingDepositsWeigh` |
| `ValueIsNeverFree` | `NoFreeValue` | `NavIs(n)`, `WithinFunds(n)`; only for one NAV |
| `NobodyGetsStuck` | `NobodyStuck`, the safety half of `QueueDrains`; no run lists it | `QueuesFilled`, `AccountsExact`, `PendingAssetsApproved`, `ClaimsInPrimary` |
| `SettingsStaySound`, `OustedKeysStayOut`, `NoticeIsGiven` | `ConfigSound`, `OustedKeysHoldNoRole`, `NoticeGiven` | `AccountsWellFormed`, `RoutingWellFormed` |
| `VenuesCountTheirPositions` | `PositionCountExact` | `PositionsCounted` |
| `LedgerIsKept` | `LedgerHolds` | `LedgerKept` |
| `LedgerStaysBalanced` | `LedgerBalanced`, the first half of `LedgerHolds` as an invariant | `LedgerKept` |
| `LedgerStaysBacked` | `LedgerBacked`, as an invariant of `VenuesSpec`, which has no managed calls | `LedgerKept` |
| `CallsAreApproved` | `CallsNeedStandingApproval` | `PoliciesStand` |
| `StaleUpdatesAreRefused`, `PolicyNoticeIsGiven` | `StaleUpdatesRefused`, `PolicyNoticeGiven` | `UpdatesInOrder` |
| `NobodyIsLeftBehind` | `NoneLeftBehind` | `LanesInOrder` |
| `SuppliesAreExact` | `SupplyCacheExact` | `SuppliesExact` |
| `JuniorFloorIsKept`, `SeniorIsLastToLose` | `ApprovalKeepsJuniorFloor`, `SeniorLosesLast` | `SuppliesExact` |
| `WindowIsExact`, `SpansAreBounded` | `WindowCountsSpending`, `SpanWithinTwiceLimit` | `WindowStands` |
| `GainsAreChargedOnce`, `FeesAreSpaced` | `EachGainChargedOnce`, `ChargesSpaced` | `FeesStand` |
| `FeesDiluteExactly` | `FeeDilutionExact` | `FeeTypes` |
| `DecisionsComeAfter`, `PricesComeAfter` | `DecisionsAreNotOlder`, `PriceIsUnknownWhenAsked` | `DecisionsFollow` |
| `OnlyAllowedAccepted`, `AllowedCallsAccepted` | `OnlyAllowedCalls`, `AllowedCallsProvable` | `TreeOfPolicy` |
| `AcceptedWereAllowed` | `OnlyAllowedByAnyProof`, which is `OnlyAllowedCalls` for proofs that no run can enumerate | `TreeOfPolicy` |
| `RequestNumberReadBack` | `RequestReadsItsNumber` | `RequestLaidOut` |
| `AreaRefinesMap` | `AreaIsAMap` | `VaultLaidOut` |

### Types and balances

`TypeOK` is inductive as it stands. It is not only typing: it says that no
balance or counter goes below 0 after any sequence of instructions, that the
pending count fits `u16` and ids fit `u64`. The proof has a lemma per instruction
and, underneath, facts on the arithmetic: a percentage fee is at most its total,
the protocol's part is at most the fee, the floors are naturals.

Sums over an unbounded set of requests are cardinalities of sets of units
(`Units`: one pair `<<r, i>>` per unit of `r`'s amount), which needs no induction
over data. `AmountReplaced` shows what happens to the cardinality when one
request changes, and `Rebalance` turns this into one statement: if all requests
but `r` stay and the balances move by the difference of `r`'s weight before and
after, all three equations of `AccountsExact` are preserved. `Weights` and
`WeightsAfter` compute the weight of a request in each state, and each instruction
needs one lemma that its balance changes agree with its change of state.

### Queues

Seen from one queue a step leaves it alone, lets a request join at the back, or
takes its head away. `QueuesFilled` says that the open requests of each queue and
the ids between its counters are in one-to-one correspondence. Arithmetic modulo
`U64_MAX + 1` is needed for the three kinds of step only; which instruction is
which kind needs none. Since the ids are consecutive, the queue that `RequestQueue`
speaks of is the sequence of requests by distance of their ids from
`last_processed`, and a join is an `Append`, a leave a `Tail`, which is the
refinement.

### Settlement

`PendingAssetsStayApproved`: `remove_vault_asset` looks at the total
`pending_deposit_amount` and not at requests, so the proof needs that the total
is exact and that a pending deposit weighs at least one unit.

`CapIsRespected` has the hypothesis `[][CapNotTightened]_vars`: the curator may
lower a cap below what was confirmed, and then nothing is "under the cap". With
the hypothesis the invariant is inductive with `TypeOK`: a creation checks
confirmed plus pending, an approval moves from one to the other and loses the fee,
an instant deposit checks the same sum.

`ValueIsNeverFree` has the hypothesis that the NAV is always `n`, any `n`, because
across price changes the property is false by design. `WithinFunds(n)` counts for
each user wallet, pending deposits and approved redemptions as assets, and shares,
approved deposits and pending redemptions as shares at `n`. An approval moves an
amount from one of the sums to the other; the lemmas on conversions say that both
round down, whatever the fee, so the weighted total never grows.

`NobodyGetsStuck` is what `QueueDrains` needs beside fairness. The instructions
that let a request go subtract from counters, take tokens from escrow and need
accounts; any of these failing would leave the head of a queue, and everybody
behind it, where it is. `QueuesFilled` gives a nonempty queue a request that
carries the next id. If it is a tombstone, nothing else is asked for. If it is
pending, the exact accounts contain its amount and count it (`PartWithinTotal`), and
its asset is still approved. For a claim `ClaimsInPrimary` says that what was
approved is in the primary asset, which needs no `VaultAsset` account. The prover
has no `ENABLED`, so the conditions are written out (`RejectPossible`,
`SkipPossible`, `PayoutPossible`), and a lemma for each (`RejectPossibleSuffices` and
its like) shows that they are all there is: with them, the state in which every
variable has the value written in `RejectsTo` is a step of `RejectRequest`.

### Governance, Venues, StrategyPolicies

`AccountsWellFormed` says of the accounts in which changes wait that a queued
update carries fields an update can have, and that its eta is the slot of its
creation plus the delay of that moment, whatever happened to the delay since; the
rest of `NoticeGiven` is the guard `slot >= eta_slot`. `ConfigSound` is preserved
by instructions that do not call `validate_config` because they write fields that
no rule is about, or check the one they write (`initialize_instant_settlement`);
and a queued change is validated against the vault it meets, when it is executed.
`OustedKeysHoldNoRole` uses that an execution is refused when the curator is not
who queued the change.

`PositionsCounted` adds to `PositionCountExact` that positions are finitely many,
each named by a venue and a mint, and that an approved venue has a counter.

`LedgerKept` is `LedgerBalanced` with the types of positions, token accounts and
assets. The sum over the positions of a mint is again a cardinality of `Units`, and
`DeployedChanges` says what one position that comes, goes or changes does to it. A
deployment and a pull are one move of opposite sign (`MoveKeeps`). That an asset
without approval has nothing deployed is the guard of `remove_vault_asset` on the
deployed balance, which is why the sum has to be exact: the instruction cannot see
the positions. The same lemmas carry the tokens through every step but a managed
call, whose target may move them; without such calls the tokens are there in every
state (`LedgerStaysBacked`).

`PoliciesStand` says that the root of a running policy is what `standing` records
as approved, and that the manager's window holds an amount, so that what a metered
call adds to it is at least the call's own (`ConsumedWithinLimit`). That the venue
and the role stand is checked by the call itself, in a step that changes neither.
`UpdatesInOrder` says that no update waits for a version its policy
has not reached, unless the policy was closed since, and that one in `outdated`
waits for a version its policy has left, which the check of `expected_version`
turns into a refusal; and that the eta of a queued update is its creation plus the
delay of that moment.

### Tranches

`SuppliesExact` is `SupplyCacheExact` with the types. From it the supply that the
guards and the waterfall compute with is the shares there are. The floor then is
the guard of the approval, carried through the change the approval makes; the
proof has to show that the code's check *before* the change speaks of the state
*after* it. `SeniorIsLastToLose` follows the waterfall's divisions: `WaterfallNat`
that no subtraction goes below zero, `RoundingLoss` what the two divisions lose.

The proof changed the property. It said that a NAV update that lowers the price
of senior at all leaves junior nothing. That holds at `Precision` 1, which the run
has, and is false for a larger one by rounding alone (three senior shares, a NAV
of 1, `Precision` 2). `SeniorLosesLast` now leaves aside a loss of at most
`Precision - 1` for the one division and one per share, less one, for the other; at
`Precision` 1 that is no loss at all, and the two statements are the same.

### Window, performance fee, decisions

`RollingWindow`, `NavUpdate` and `Fulfillment` share no state; `Components`
extends the first and instantiates the others under names of their own (`Fee`,
`Decisions`), and the run `components` explores the same module. The assumption
of each is a hypothesis of its theorems.

`WindowStands` adds to `WindowCountsSpending` that nothing was spent after the
present slot, and that what was spent before the current window, in a span that
reaches into it, is within the limit. Such a span is cut at the start of the
window (`SpentCut`): at most the limit left in either part.

`FeesStand` adds to the two properties that every charge ended at or below the
high-water mark and was made no later than the last crystallization.
`FeesDiluteExactly` is about one division, `calculate_performance_fee_shares`: the
minted shares solve the dilution equation and one more would not. This proof, too,
changed its property. At a `Precision` above 1 all shares together can be worth
less than a unit; then any number of fee shares is worth nothing, and the code
mints none. The property now says so, where it said "one more share would be worth
more than the fee". At `Precision` 1 nothing changes.

`DecisionsFollow` says that a request was made no later than now, under a NAV
that is not newer than the last, that a NAV newer than the one it was made under
was published after it, and that a decision is not older than the request it
read. `ApprovedBy` is the one fact on steps: a request that turns claimable was
the one at the address, approved under its own terms, `created_at` among them.

### Formats: the Merkle tree and the byte area

`Tlv` and `MerklePolicy` are recursive over data, and the library's induction
theorems, which take an operator, cannot be instantiated here. `Formats_proofs`
goes by least elements instead: a nonempty set of naturals has a least one
(`LeastOf`, from the library's well-foundedness of `<`), so a set that has 0 and with
every number its successor has all of them (`InductionOnSet`); "P holds of n" becomes
membership in `{n \in Nat : P}`. What a recursive function computes follows from its
unrolling for one step (`ComputedStepwise`, `FindStepwise`, `UsedStepwise`,
`CapacityStepwise`), which is shown once by building the function.

`TreeOfPolicy` says that the first level is the leaves of the policy and every
further level the pairs of the one below, and that only the last may have a single
node. Soundness goes down from the root: if a fold ends in a node of the tree, what
it started from is in the tree (`FoldedFromTree`), because hashes are terms and a
node names its two children; a leaf is no inner node, so what the program hashed is
a leaf of the policy, and equal leaves agree in everything the operators ingest
(`EqualLeaves`). Nothing in this is about which nodes a proof has or how many, hence
`AcceptedWereAllowed`. Completeness goes up: the fold of the client's proof is, after
k nodes, the ancestor of the leaf at level k (`FoldClimbs`), with the last node of an
odd level as its own sibling; and a tree of at most `MAX_POLICY_LEAVES` leaves has no
more levels above the leaves than a proof may have nodes, because a level has half
the nodes of the one below, rounded up (`LevelsWithinDepth`).

`VaultLaidOut` says that the area of a vault is filled, without a gap, by entries of
different types, each as long as its type says. A walk then goes from entry to entry
and never takes the bytes of a value for a header, whatever they are (`FindEntry`,
`FindNone`). `EntriesKept` is the frame: an area that agrees with another on the
entries it had still has them. With it an appended entry is one more element of the
map (`ExtendedMap`) and an overwritten value a replaced one (`UpdatedMap`).

### Assumptions

`ConstantsAssumption` of `AsyncVault`, `U64MaxAssumption` of `FifoQueue`,
`GovernanceAssumption`, `VenuesAssumption`, `StrategyAssumption`,
`TranchesAssumption`, and as hypotheses `RollingWindowAssumption`,
`NavUpdateAssumption` and `FulfillmentAssumption`: types of the constants, finite
sets of addresses, a primary asset that is not secondary, valid fees in every
configuration, positive precisions. `TlvAssumption`: types are positive numbers,
lengths and cells naturals, and 0 is a cell. `MerkleAssumption`: a call's data and
accounts are sequences, and `MAX_POLICY_LEAVES` is at most
2^`MAX_MERKLE_PROOF_DEPTH`; the code has 4096 and 12, in two crates that do not refer
to each other. TLC evaluates all of them on the runs.

`GovernanceSpec`, `StrategySpec` and `TranchesSpec` are the specifications that
the scenarios of the runs instantiate.

### What stays with TLC

- `QueueDrains`: liveness under fairness and `ENABLED` are out of the prover's
  reach. Its safety half is `NobodyGetsStuck`; that a head which can leave does
  leave, and that the one behind it then becomes the head until the queue is past
  it, is left to the run.
- `AgreesWithGovernanceTests`, `AgreesWithTrancheTests`: the replay of particular
  calls, which is evaluation and has nothing to generalise.
- The four violations are counterexamples.

## 5. Findings

**A queued redemption for a secondary asset cannot be cancelled by its owner**
(run `secondary_cancel`). `docs/ACCOUNTS.md:191-192` says such requests "can
unwind through cancel/reject and restore burned shares".
`cancel_queued_redemption_request` accepts only the vault's primary asset
(`has_one = asset_mint`), and `cancel_request` refuses a request with a queue id.
Between them they leave a gap; only a rejection gives the shares back.

**Profit that came back cannot be redeemed** (run `profit_redemption`).
`DESIGN_DECISIONS.md:59` says the result of a deployment is reflected by the NAV
and that the virtual balance "keeps accounting correct". Returned profit raises
the NAV but never `total_asset_balance`, from which an approval subtracts the
assets at the raised NAV. The last redeemers' approvals fail with an arithmetic
error although the reserve holds the assets.

**Prices of both tranches together exceed the value of the vault** (run
`bootstrap_waterfall`). `REPORT.md:535-536` says "rounded NAVs never overstate
assets". Approvals need a NAV, so the first waterfall normally finds no shares; it
leaves both tranche NAVs 0 and notes that it ran. The next one is then not a first
one: it takes senior to have had nothing, gives junior the whole value, and senior
shares fall back to the aggregate NAV.

**Losses that took all of junior's value do not stay with junior** (run
`wiped_out_junior`). `DESIGN_DECISIONS.md:102` keeps the aggregate NAV for
"zero-supply bootstrap tranches". The fallback in `approve_request.rs:411` looks at
the NAV, not at the supply: junior shares that exist and are worth nothing are
priced at the aggregate NAV.

Smaller disagreements met while modelling, without a run:

- `lib.rs:24-26` says `create_vault` leaves the vault "paused + uninitialized";
  `create_vault.rs:120` writes `paused: false`. Nothing can be requested before
  `initialize_vault`, which does not look at the flag.
- `lib.rs:65-67` says accepting an invitation takes both signers; the accounts of
  `accept_authority_invitation` have only the invited one.
- `docs/INTEGRATION.md:190` says a curator can remove an empty position.
  `remove_venue_position.rs:96` needs the `VaultAsset` of a secondary asset, which
  `remove_vault_asset` may have closed; the asset has to be approved again first.
- `docs/MERKLE_STRATEGY_POLICY.md:67-69` says a pause invalidates any queued
  update. Versions start at 0 again when a policy is closed and initialized anew,
  and the queued updates of the old one stay open: a pause can raise the version
  to the one such an update expects (`close_strategy_policy.rs:33`).
  `StaleUpdatesRefused` is therefore stated for policies that were not closed.
- A queued change is refused when the curator is another one than at queue time
  (`docs/ACCOUNTS.md:439-440`). After a hand-over from A to B and back, the changes
  A had queued are executable again, with the eta they had.
- `VaultVenue.paused` is read and never set. A pull is blocked while the registry
  authority pauses the entry. Tokens sent to a position's account block its
  removal.
- The NAV that is stored is the one before fee shares dilute it, and the APY guard
  is skipped for a second update in the same second.

## 6. Not modelled, and what is left

- **Token program plumbing**: mint extensions, decimals conversions, rent,
  account lists and their seeds. Anchor checks them before a handler runs.
- **Overflow of amounts** in `u64` and `u128`: all of it is checked arithmetic
  that fails the instruction. Counters that can be exhausted keep their width.
- **The target of a strategy call**, beyond what it may do to the vault's token
  accounts.
- **Hash collisions**: a hash is a term.
- **Which token account a protocol fee goes to**; `Governance` models who may
  redirect it.
- **Integration tests** with amounts beyond TLC's integers, or about the plumbing
  above, are not replayed. Those about request lifecycles are what `AsyncVault`
  explores in every order.
- **Generated clients, the IDL and the web application** keep no protocol state.

Every invariant, action property and refinement that a passing run checks is
proved, except the replayed tests. What is left is the temporal half of
`QueueDrains`, for a prover with `ENABLED` and well-founded temporal induction.
