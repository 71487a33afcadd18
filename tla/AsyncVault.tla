----------------------------- MODULE AsyncVault -----------------------------
(***************************************************************************)
(* The request lifecycle of the async_vault_v2 program, for a vault with   *)
(* one share mint: users escrow assets or burn shares in a request, a      *)
(* curator or fulfiller prices it at the published net asset value or      *)
(* turns it down, its owner claims or cancels it, and instant deposits and *)
(* redemptions, external withdrawals and configuration changes run in      *)
(* between.                                                                *)
(*                                                                         *)
(* One action is one instruction: a Solana transaction holds a write lock  *)
(* on every account it changes and is rolled back whole when a check       *)
(* fails, so an instruction is atomic and a failed one is a stuttering     *)
(* step.  The interleaving is the order of transactions, which nobody      *)
(* controls.                                                               *)
(*                                                                         *)
(* Init is the vault as initialize_vault leaves it.  Tranches, performance *)
(* fees and the NAV-change guards are switched off in this module, as they *)
(* are in a vault that does not configure them.  So is the book-keeping of *)
(* timelocked changes: what a queued change does when it is executed is    *)
(* here, its queue is not.                                                 *)
(***************************************************************************)
EXTENDS FifoQueue, Units, VaultMath, RollingLimit

CONSTANTS
  Users,             \* request owners and their operators
  Requests,          \* addresses a request account can be created at
  Primary,           \* the vault's asset mint
  SecondaryAssets,   \* mints that can be added with add_vault_asset
  Amounts,           \* amounts an instruction can be called with
  Navs,              \* net asset values the authority publishes
  Configs,           \* configurations the curator switches between
  PRECISION,         \* 10^decimals of the share mint
  U16_MAX,           \* the largest pending_async_requests
  MAX_APPROVED_ASSETS,
  HasQueue,          \* [RequestTypes -> BOOLEAN]: which queue extensions exist
  HasInstantSettlement,
  HasExternallyManagedWithdrawals,
  Operators,         \* operators a request can name (besides none)
  Funds,             \* what every user's wallet holds of each asset at first
  MaxNavVersion,     \* bound: NAV updates
  MaxSlot,           \* bound: the clock
  MaxReturned        \* bound: assets sent back to the reserve from outside

RequestTypes == {"Deposit", "Redeem"}
NoOperator == "NoOperator"
NoQueueId == -1       \* the request has no queue extension
NotApproved == -1     \* the mint has no VaultAsset account
Assets == {Primary} \cup SecondaryAssets

\* The settings in the Vault account, those of extensions that can be updated,
\* and the thresholds initialize_instant_settlement fixed for good.
VaultFields ==
  {"deposit_cap", "require_fresh_nav", "max_nav_staleness_slots",
   "rolling_limit_window_slots", "redemption_rolling_limit",
   "external_withdraw_rolling_limit", "timelock_delay_slots", "protocol_fee_bps",
   "instant_redemption_fee_bps"}
ExtensionFields ==
  {"deposit_fee", "withdrawal_fee", "subscriptions_paused", "redemptions_paused",
   "min_subscription", "min_redemption"}
ThresholdFields ==
  {"min_deposit_amount", "max_deposit_amount", "min_redeem_shares",
   "max_redeem_shares", "max_user_deposit_amount", "max_user_redeem_shares"}
ConfigFields == VaultFields \cup ExtensionFields \cup ThresholdFields

IsConfig(c) ==
  /\ \A f \in {"require_fresh_nav", "subscriptions_paused", "redemptions_paused"} :
       c[f] \in BOOLEAN
  /\ IsFee(c.deposit_fee) /\ IsFee(c.withdrawal_fee)
  /\ \A f \in ConfigFields \ {"require_fresh_nav", "subscriptions_paused",
                              "redemptions_paused", "deposit_fee", "withdrawal_fee"} :
       c[f] \in Nat

ASSUME ConstantsAssumption ==
  /\ IsFiniteSet(Requests)
  /\ Primary \notin SecondaryAssets
  /\ Amounts \subseteq Nat
  /\ Navs \subseteq Nat
  /\ \A c \in Configs : IsConfig(c)
  /\ PRECISION \in Nat \ {0}
  /\ U16_MAX \in Nat
  /\ MAX_APPROVED_ASSETS \in Nat
  /\ HasQueue \in [RequestTypes -> BOOLEAN]
  /\ HasInstantSettlement \in BOOLEAN
  /\ HasExternallyManagedWithdrawals \in BOOLEAN
  /\ Operators \subseteq Users
  /\ Funds \in Nat
  /\ MaxNavVersion \in Nat /\ MaxSlot \in Nat /\ MaxReturned \in Nat

VARIABLES
  \* the Vault account
  config, paused, nav, nav_version, last_nav_update_slot,
  pending_async_requests, total_asset_balance, approved_asset_count,
  redemption_window, external_withdraw_window,
  queue,                   \* [RequestTypes -> Queues], the TLV counters
  \* the Request, VaultAsset and InstantSettlementUser accounts
  request,                 \* [Requests -> a request or Closed]
  vault_asset,             \* [SecondaryAssets -> a deposit cap or NotApproved]
  pending_deposit_amount,  \* [Assets -> Nat], of the Vault or the VaultAsset
  instant_user,            \* [Users -> [deposit, redeem : a window]]
  \* token accounts
  wallet,                  \* [Users -> [Assets -> Nat]]
  share_balance,           \* [Users -> Nat]
  reserve,                 \* vault_token_account
  pending_vault,           \* [Assets -> Nat], the escrow accounts
  fee_balance,             \* [recipient, protocol : Nat]
  withdrawn, returned,     \* taken out of and sent back to the reserve
  slot                     \* the clock

configVars == <<config, paused>>
navVars    == <<nav, nav_version, last_nav_update_slot>>
limitVars  == <<redemption_window, external_withdraw_window, instant_user>>
assetVars  == <<vault_asset, approved_asset_count>>
userVars   == <<wallet, share_balance>>
escrowVars == <<pending_vault, pending_deposit_amount>>
outVars    == <<withdrawn, returned>>
vars == <<configVars, navVars, limitVars, assetVars, userVars, escrowVars, outVars,
          pending_async_requests, total_asset_balance, queue, request, reserve,
          fee_balance, slot>>

Closed == [request_state |-> "Closed"]

\* Request { .. } with, when the vault has the queue, its id extension.
RequestRecords ==
  [request_type : RequestTypes, request_state : {"Pending", "Claimable", "Canceled"},
   owner : Users, amount : Nat, price : Nat, asset_mint : Assets,
   nav_update_version : Nat, operator : Operators \cup {NoOperator},
   queue_id : Ids \cup {NoQueueId}]

IsState(r, state) == request[r].request_state = state
IsType(r, type) == ~IsState(r, "Closed") /\ request[r].request_type = type

-----------------------------------------------------------------------------
(* Checks shared by the instructions *)

\* assert_nav_not_stale: a limit of 0 slots switches the check off.
NavNotStale ==
  \/ config.max_nav_staleness_slots = 0
  \/ slot - last_nav_update_slot <= config.max_nav_staleness_slots

\* assert_fresh_nav_for_request: the NAV was published after the request.
FreshNavFor(r) ==
  config.require_fresh_nav => nav_version > request[r].nav_update_version

\* Vault::assert_deposit_cap_allows, and the mutant that forgets the deposits
\* still waiting in escrow.
VaultCapAllowsIgnoringPending(amount) ==
  \/ config.deposit_cap = 0
  \/ total_asset_balance + amount <= config.deposit_cap

VaultCapAllows(amount) ==
  \/ config.deposit_cap = 0
  \/ total_asset_balance + pending_deposit_amount[Primary] + amount
       <= config.deposit_cap

\* The escrow account of an asset: the vault's own, or the VaultAsset's.
IsApproved(asset) == asset # Primary => vault_asset[asset] # NotApproved

\* A primary deposit is checked against the vault's cap; a secondary one needs
\* its VaultAsset account and is checked against VaultAsset's own cap.  The
\* secondary idle balance is 0 here: nothing in this module funds it.
DepositCapAllows(asset, amount) ==
  /\ IsApproved(asset)
  /\ IF asset = Primary
       THEN VaultCapAllows(amount)
       ELSE \/ vault_asset[asset] = 0
            \/ pending_deposit_amount[asset] + amount <= vault_asset[asset]

\* get_deposit_fee and get_withdrawal_fee: the extension's fee (a vault without
\* it is one whose fee is FixedAmount(0)).
DepositFee(amount) == GetFee(config.deposit_fee, amount)
WithdrawalFee(amount) == GetFee(config.withdrawal_fee, amount)

\* A fee is paid to the fee recipient and the protocol, split_protocol_fee.
FeePaid(fee) ==
  [recipient |-> fee_balance.recipient + (fee - ProtocolFee(fee, config.protocol_fee_bps)),
   protocol  |-> fee_balance.protocol + ProtocolFee(fee, config.protocol_fee_bps)]

\* next_queue_request_id: nothing happens when the vault has no such queue.
NextQueueId(type) ==
  IF HasQueue[type] THEN WrappingAdd1(queue[type].total) ELSE NoQueueId

QueueAfterCreate(type) ==
  IF HasQueue[type] THEN [queue EXCEPT ![type] = IncrementTotal(@)] ELSE queue

\* check_and_advance_queue, the check and the advance, and a mutant of the
\* check that lets any request that is still waiting be processed.
InAnyOrder(r) ==
  HasQueue[request[r].request_type] =>
    NotYetProcessed(queue[request[r].request_type], request[r].queue_id)

InFifoOrder(r) ==
  HasQueue[request[r].request_type] =>
    IsHead(queue[request[r].request_type], request[r].queue_id)

QueueAfterAdvance(r) ==
  IF HasQueue[request[r].request_type]
    THEN [queue EXCEPT ![request[r].request_type] = AdvanceTo(@, request[r].queue_id)]
    ELSE queue

\* Vault::validate_config, of the settings this module has.
ValidateConfig(c) ==
  /\ c.protocol_fee_bps <= MAX_BPS /\ c.instant_redemption_fee_bps <= MAX_BPS
  /\ \/ c.rolling_limit_window_slots > 0
     \/ (c.external_withdraw_rolling_limit = 0 /\ c.redemption_rolling_limit = 0)

-----------------------------------------------------------------------------
(* The vault as create_vault and initialize_vault leave it *)

Init ==
  /\ config \in Configs /\ ValidateConfig(config)
  /\ paused = FALSE
  /\ nav = 0 /\ nav_version = 0 /\ last_nav_update_slot = 0
  /\ pending_async_requests = 0
  /\ total_asset_balance = 0
  /\ approved_asset_count = 1
  /\ redemption_window = NoWindow /\ external_withdraw_window = NoWindow
  /\ queue = [type \in RequestTypes |-> NewQueue]
  /\ request = [r \in Requests |-> Closed]
  /\ vault_asset = [a \in SecondaryAssets |-> NotApproved]
  /\ pending_deposit_amount = [a \in Assets |-> 0]
  /\ instant_user = [u \in Users |-> [deposit |-> NoWindow, redeem |-> NoWindow]]
  /\ wallet = [u \in Users |-> [a \in Assets |-> Funds]]
  /\ share_balance = [u \in Users |-> 0]
  /\ reserve = 0
  /\ pending_vault = [a \in Assets |-> 0]
  /\ fee_balance = [recipient |-> 0, protocol |-> 0]
  /\ withdrawn = 0 /\ returned = 0
  /\ slot = 0

-----------------------------------------------------------------------------
(* Creating requests *)

NewRequest(type, u, asset, amount, op) ==
  [request_type |-> type, request_state |-> "Pending", owner |-> u,
   amount |-> amount, price |-> nav, asset_mint |-> asset,
   nav_update_version |-> nav_version, operator |-> op,
   queue_id |-> NextQueueId(type)]

\* The end of both create instructions: the account, the u16 count and the id.
OpenRequest(r, type, u, asset, amount, op) ==
  /\ IsState(r, "Closed")
  /\ pending_async_requests < U16_MAX
  /\ WithinActiveWindow(queue[type])
  /\ request' = [request EXCEPT ![r] = NewRequest(type, u, asset, amount, op)]
  /\ pending_async_requests' = pending_async_requests + 1
  /\ queue' = QueueAfterCreate(type)

CreateDepositRequest(r, u, asset, amount, op) ==
  /\ ~paused
  /\ DepositCapAllows(asset, amount)
  /\ ~config.subscriptions_paused
  /\ amount >= config.min_subscription
  /\ amount > DepositFee(amount)
  /\ wallet[u][asset] >= amount
  /\ OpenRequest(r, "Deposit", u, asset, amount, op)
  /\ wallet' = [wallet EXCEPT ![u][asset] = @ - amount]
  /\ pending_vault' = [pending_vault EXCEPT ![asset] = @ + amount]
  /\ pending_deposit_amount' = [pending_deposit_amount EXCEPT ![asset] = @ + amount]
  /\ UNCHANGED <<configVars, navVars, limitVars, assetVars, outVars, share_balance,
                 total_asset_balance, reserve, fee_balance, slot>>

\* The shares are burned at once; the asset only says what is asked for.
CreateRedeemRequest(r, u, asset, amount, op) ==
  /\ ~paused
  /\ IsApproved(asset)
  /\ ~config.redemptions_paused
  /\ amount >= config.min_redemption
  /\ amount > 0
  /\ share_balance[u] >= amount
  /\ OpenRequest(r, "Redeem", u, asset, amount, op)
  /\ share_balance' = [share_balance EXCEPT ![u] = @ - amount]
  /\ UNCHANGED <<configVars, navVars, limitVars, assetVars, outVars, escrowVars, wallet,
                 total_asset_balance, reserve, fee_balance, slot>>

\* set_operator works in every state of the request and while paused.
SetOperator(r, op) ==
  /\ ~IsState(r, "Closed")
  /\ request' = [request EXCEPT ![r].operator = op]
  /\ UNCHANGED <<configVars, navVars, limitVars, assetVars, outVars, escrowVars, userVars,
                 pending_async_requests, total_asset_balance, queue, reserve,
                 fee_balance, slot>>

-----------------------------------------------------------------------------
(* Settling requests *)

\* approve_request before it prices anything.  A request for a secondary asset
\* always fails here: UnsupportedPhaseConfig.  The arguments of the instruction,
\* which must repeat the request's fields, are those of the request itself: the
\* model's fulfiller reads it in the same step.  The mutant forgets the pause.
CanApproveWhilePaused(r) ==
  /\ IsState(r, "Pending")
  /\ request[r].asset_mint = Primary
  /\ nav > 0
  /\ FreshNavFor(r) /\ NavNotStale /\ InFifoOrder(r)

CanApprove(r) ==
  /\ ~paused
  /\ IsState(r, "Pending")
  /\ request[r].asset_mint = Primary
  /\ nav > 0
  /\ FreshNavFor(r)
  /\ NavNotStale
  /\ InFifoOrder(r)

\* (claimable_amount, balance_delta) of an approval, and the amount by which a
\* deposit leaves pending_deposit_amount.  The mutants release the deposit, or
\* charge the redemption, net of the fee.
DepositOutcomeReleasingNet(amount, net, shares) ==
  [claimable |-> shares, balance_delta |-> net, released |-> net]

DepositOutcome(amount, net, shares) ==
  [claimable |-> shares, balance_delta |-> net, released |-> amount]

RedeemOutcomeChargingNet(assets, net) == [claimable |-> net, balance_delta |-> net]

RedeemOutcome(assets, net) == [claimable |-> net, balance_delta |-> assets]

\* Every way out of the pending state takes the request out of the count.
KeepPendingCount == pending_async_requests > 0 /\ UNCHANGED pending_async_requests

LeavePendingCount ==
  /\ pending_async_requests > 0
  /\ pending_async_requests' = pending_async_requests - 1

\* What approve_request does to the request, whatever its type.
MarkClaimable(r, claimable) ==
  /\ LeavePendingCount
  /\ queue' = QueueAfterAdvance(r)
  /\ request' = [request EXCEPT ![r].amount = claimable, ![r].price = nav,
                                ![r].request_state = "Claimable"]

\* A deposit leaves escrow for the reserve, net of the fee; its owner can claim
\* the shares.  The cap is checked again: it may have been lowered since.
ApproveDeposit(r) ==
  LET amount == request[r].amount
      fee == DepositFee(amount)
      net == amount - fee
      shares == CalculateShares(nav, PRECISION, net)
      outcome == DepositOutcome(amount, net, shares)
  IN
  /\ CanApprove(r)
  /\ request[r].request_type = "Deposit"
  /\ net > 0
  /\ shares > 0
  /\ config.deposit_cap = 0 \/ total_asset_balance + net <= config.deposit_cap
  /\ pending_vault[Primary] >= amount
  /\ pending_deposit_amount[Primary] >= outcome.released
  /\ MarkClaimable(r, outcome.claimable)
  /\ pending_vault' = [pending_vault EXCEPT ![Primary] = @ - amount]
  /\ fee_balance' = FeePaid(fee)
  /\ reserve' = reserve + net
  /\ total_asset_balance' = total_asset_balance + outcome.balance_delta
  /\ pending_deposit_amount' =
       [pending_deposit_amount EXCEPT ![Primary] = @ - outcome.released]
  /\ UNCHANGED <<configVars, navVars, limitVars, assetVars, outVars, userVars, slot>>

\* A redemption is paid out of the reserve: the fee to its recipients, the net
\* into escrow, where its owner can claim it.
ApproveRedeem(r) ==
  LET assets == CalculateAssets(nav, PRECISION, request[r].amount)
      fee == WithdrawalFee(assets)
      net == assets - fee
      outcome == RedeemOutcome(assets, net)
  IN
  /\ CanApprove(r)
  /\ request[r].request_type = "Redeem"
  /\ assets > 0
  /\ net >= 0
  /\ RollingLimitAllows(redemption_window, assets, slot,
                        config.redemption_rolling_limit, config.rolling_limit_window_slots)
  /\ reserve >= assets
  /\ total_asset_balance >= outcome.balance_delta
  /\ MarkClaimable(r, outcome.claimable)
  /\ redemption_window' =
       ConsumeRollingLimit(redemption_window, assets, slot,
                           config.redemption_rolling_limit, config.rolling_limit_window_slots)
  /\ reserve' = reserve - assets
  /\ fee_balance' = FeePaid(fee)
  /\ pending_vault' = [pending_vault EXCEPT ![Primary] = @ + net]
  /\ total_asset_balance' = total_asset_balance - outcome.balance_delta
  /\ UNCHANGED <<configVars, navVars, external_withdraw_window, instant_user, assetVars,
                 outVars, userVars, pending_deposit_amount, slot>>

\* The refund that reject_request and the three cancel instructions make: a
\* deposit goes back from escrow, burned shares are minted again.
RefundDeposit(r) ==
  LET asset == request[r].asset_mint
      amount == request[r].amount
  IN
  /\ request[r].request_type = "Deposit"
  /\ IsApproved(asset)
  /\ pending_vault[asset] >= amount
  /\ pending_deposit_amount[asset] >= amount
  /\ pending_vault' = [pending_vault EXCEPT ![asset] = @ - amount]
  /\ pending_deposit_amount' = [pending_deposit_amount EXCEPT ![asset] = @ - amount]
  /\ wallet' = [wallet EXCEPT ![request[r].owner][asset] = @ + amount]
  /\ UNCHANGED share_balance

RefundRedeem(r) ==
  /\ request[r].request_type = "Redeem"
  /\ share_balance' = [share_balance EXCEPT ![request[r].owner] = @ + request[r].amount]
  /\ UNCHANGED <<escrowVars, wallet>>

\* Every refund also takes the request out of the pending count.
Unwind(r) ==
  /\ RefundDeposit(r) \/ RefundRedeem(r)
  /\ LeavePendingCount
  /\ UNCHANGED <<configVars, navVars, limitVars, assetVars, outVars,
                 total_asset_balance, reserve, fee_balance, slot>>

\* reject_request works while the vault is paused; like approve_request it is
\* told the request's fields again.  The mutant also rejects what was approved
\* already.
RejectSettledRequest(r) ==
  /\ IsState(r, "Pending") \/ IsState(r, "Claimable")
  /\ InFifoOrder(r)
  /\ Unwind(r)
  /\ queue' = QueueAfterAdvance(r)
  /\ request' = [request EXCEPT ![r] = Closed]

RejectRequest(r) ==
  /\ IsState(r, "Pending")
  /\ InFifoOrder(r)
  /\ Unwind(r)
  /\ queue' = QueueAfterAdvance(r)
  /\ request' = [request EXCEPT ![r] = Closed]

\* cancel_request is for requests without a queue id: the id of a queued one
\* must stay in the queue, or the queue could never pass it.
CancelQueuedAsUnqueued(r) ==
  /\ ~paused
  /\ IsState(r, "Pending")
  /\ Unwind(r)
  /\ request' = [request EXCEPT ![r] = Closed]
  /\ UNCHANGED queue

CancelRequest(r) ==
  /\ ~paused
  /\ IsState(r, "Pending")
  /\ request[r].queue_id = NoQueueId
  /\ Unwind(r)
  /\ request' = [request EXCEPT ![r] = Closed]
  /\ UNCHANGED queue

\* The account a queued cancel leaves behind, and the mutant that forgets to
\* change its state.
StillPending(q) == q

Tombstone(q) == [q EXCEPT !.request_state = "Canceled"]

\* Both cancel_queued instructions refund at once and leave the account as a
\* tombstone that keeps its place in the queue.
CancelQueued(r) ==
  /\ ~paused
  /\ IsState(r, "Pending")
  /\ request[r].queue_id # NoQueueId
  /\ Unwind(r)
  /\ request' = [request EXCEPT ![r] = Tombstone(@)]
  /\ UNCHANGED queue

CancelQueuedDepositRequest(r) == IsType(r, "Deposit") /\ CancelQueued(r)

\* Only for the primary asset: the vault has_one asset_mint.
CancelQueuedRedemptionRequest(r) ==
  /\ IsType(r, "Redeem")
  /\ request[r].asset_mint = Primary
  /\ CancelQueued(r)

\* skip_canceled_queue_request: anyone, at any time, paused or not.  The mutant
\* refuses while paused.
SkipWhenUnpaused(r) ==
  /\ ~paused
  /\ IsState(r, "Canceled")
  /\ InFifoOrder(r)
  /\ queue' = QueueAfterAdvance(r)
  /\ request' = [request EXCEPT ![r] = Closed]
  /\ UNCHANGED <<configVars, navVars, limitVars, assetVars, outVars, escrowVars, userVars,
                 pending_async_requests, total_asset_balance, reserve, fee_balance, slot>>

SkipCanceledQueueRequest(r) ==
  /\ IsState(r, "Canceled")
  /\ InFifoOrder(r)
  /\ queue' = QueueAfterAdvance(r)
  /\ request' = [request EXCEPT ![r] = Closed]
  /\ UNCHANGED <<configVars, navVars, limitVars, assetVars, outVars, escrowVars, userVars,
                 pending_async_requests, total_asset_balance, reserve, fee_balance, slot>>

\* claim: the owner or the operator signs, the owner is paid.
ClaimShares(r) ==
  /\ request[r].request_type = "Deposit"
  /\ share_balance' = [share_balance EXCEPT ![request[r].owner] = @ + request[r].amount]
  /\ UNCHANGED <<wallet, pending_vault>>

ClaimAssets(r) ==
  LET asset == request[r].asset_mint IN
  /\ request[r].request_type = "Redeem"
  /\ IsApproved(asset)
  /\ pending_vault[asset] >= request[r].amount
  /\ pending_vault' = [pending_vault EXCEPT ![asset] = @ - request[r].amount]
  /\ wallet' = [wallet EXCEPT ![request[r].owner][asset] = @ + request[r].amount]
  /\ UNCHANGED share_balance

Claim(r, signer) ==
  /\ ~paused
  /\ IsState(r, "Claimable")
  /\ signer = request[r].owner \/ signer = request[r].operator
  /\ ClaimShares(r) \/ ClaimAssets(r)
  /\ request' = [request EXCEPT ![r] = Closed]
  /\ UNCHANGED <<configVars, navVars, limitVars, assetVars, outVars, pending_deposit_amount,
                 pending_async_requests, total_asset_balance, queue, reserve,
                 fee_balance, slot>>

-----------------------------------------------------------------------------
(* Instant settlement *)

\* The checks instant_deposit and instant_redeem share.
InstantAllowed ==
  /\ HasInstantSettlement
  /\ ~paused
  /\ config.instant_redemption_fee_bps > 0
  /\ config.max_nav_staleness_slots > 0
  /\ nav > 0
  /\ NavNotStale

\* A threshold of 0 is off.
WithinThresholds(x, min, max) == (min = 0 \/ x >= min) /\ (max = 0 \/ x <= max)

InstantDeposit(u, amount) ==
  LET fee == DepositFee(amount)
      net == amount - fee
      shares == CalculateShares(nav, PRECISION, net)
      limit == config.max_user_deposit_amount
      window == config.rolling_limit_window_slots
  IN
  /\ InstantAllowed
  /\ WithinThresholds(amount, config.min_deposit_amount, config.max_deposit_amount)
  /\ RollingLimitAllows(instant_user[u].deposit, amount, slot, limit, window)
  /\ VaultCapAllows(amount)
  /\ net > 0
  /\ shares > 0
  /\ wallet[u][Primary] >= amount
  /\ instant_user' = [instant_user EXCEPT ![u].deposit =
                         ConsumeRollingLimit(@, amount, slot, limit, window)]
  /\ wallet' = [wallet EXCEPT ![u][Primary] = @ - amount]
  /\ fee_balance' = FeePaid(fee)
  /\ reserve' = reserve + net
  /\ share_balance' = [share_balance EXCEPT ![u] = @ + shares]
  /\ total_asset_balance' = total_asset_balance + net
  /\ UNCHANGED <<configVars, navVars, redemption_window, external_withdraw_window, assetVars,
                 outVars, escrowVars, pending_async_requests, queue, request, slot>>

InstantRedeem(u, shares) ==
  LET gross == CalculateAssets(nav, PRECISION, shares)
      fee == WithdrawalFee(gross)
               + GetFee(Percentage(config.instant_redemption_fee_bps), gross)
      limit == config.max_user_redeem_shares
      window == config.rolling_limit_window_slots
  IN
  /\ InstantAllowed
  /\ WithinThresholds(shares, config.min_redeem_shares, config.max_redeem_shares)
  /\ RollingLimitAllows(instant_user[u].redeem, shares, slot, limit, window)
  /\ gross > 0
  /\ reserve >= gross
  /\ gross > fee
  /\ RollingLimitAllows(redemption_window, gross, slot,
                        config.redemption_rolling_limit, window)
  /\ share_balance[u] >= shares
  /\ total_asset_balance >= gross
  /\ instant_user' = [instant_user EXCEPT ![u].redeem =
                         ConsumeRollingLimit(@, shares, slot, limit, window)]
  /\ redemption_window' = ConsumeRollingLimit(redemption_window, gross, slot,
                            config.redemption_rolling_limit, window)
  /\ share_balance' = [share_balance EXCEPT ![u] = @ - shares]
  /\ reserve' = reserve - gross
  /\ fee_balance' = FeePaid(fee)
  /\ wallet' = [wallet EXCEPT ![u][Primary] = @ + (gross - fee)]
  /\ total_asset_balance' = total_asset_balance - gross
  /\ UNCHANGED <<configVars, navVars, external_withdraw_window, assetVars, outVars, escrowVars,
                 pending_async_requests, queue, request, slot>>

-----------------------------------------------------------------------------
(* The curator, the fulfiller, the breaker and the world outside *)

\* update_nav, without performance fee, tranches and NAV-change guards.
UpdateVaultNav(updated_nav) ==
  /\ nav_version < MaxNavVersion
  /\ nav' = updated_nav
  /\ nav_version' = nav_version + 1
  /\ last_nav_update_slot' = slot
  /\ UNCHANGED <<configVars, limitVars, assetVars, outVars, escrowVars, userVars,
                 pending_async_requests, total_asset_balance, queue, request, reserve,
                 fee_balance, slot>>

\* c changes the current configuration in these fields at most.
DiffersIn(c, fields) == \A f \in ConfigFields \ fields : c[f] = config[f]

\* update_vault: with a timelock configured only the pause flag can be set.
UpdateVault(c, pause) ==
  /\ config.timelock_delay_slots > 0 => c = config
  /\ DiffersIn(c, VaultFields)
  /\ ValidateConfig(c)
  /\ config' = c
  /\ paused' = pause
  /\ UNCHANGED <<navVars, limitVars, assetVars, outVars, escrowVars, userVars,
                 pending_async_requests, total_asset_balance, queue, request, reserve,
                 fee_balance, slot>>

\* execute_vault_update applies a change that was queued earlier, under whatever
\* timelock was configured then, and that never carries the pause flag.  What is
\* queued, and until when, is not state of this module: any change may be due.
ExecuteVaultUpdate(c) ==
  /\ DiffersIn(c, VaultFields)
  /\ ValidateConfig(c)
  /\ config' = c
  /\ UNCHANGED <<paused, navVars, limitVars, assetVars, outVars, escrowVars, userVars,
                 pending_async_requests, total_asset_balance, queue, request, reserve,
                 fee_balance, slot>>

\* One extension of the vault gets a new value: directly, by an update_*
\* instruction of a vault without timelock, or when the change that was queued
\* for it is executed.  Vault::validate_config is not called.
UpdateExtension(c) ==
  /\ \E extension \in ExtensionFields : DiffersIn(c, {extension})
  /\ config' = c
  /\ UNCHANGED <<paused, navVars, limitVars, assetVars, outVars, escrowVars, userVars,
                 pending_async_requests, total_asset_balance, queue, request, reserve,
                 fee_balance, slot>>

\* pause_vault: the breaker can pause and nothing else.
PauseVault ==
  /\ paused' = TRUE
  /\ UNCHANGED <<config, navVars, limitVars, assetVars, outVars, escrowVars, userVars,
                 pending_async_requests, total_asset_balance, queue, request, reserve,
                 fee_balance, slot>>

AddVaultAsset(asset, deposit_cap) ==
  /\ config.timelock_delay_slots = 0
  /\ vault_asset[asset] = NotApproved
  /\ approved_asset_count < MAX_APPROVED_ASSETS
  /\ vault_asset' = [vault_asset EXCEPT ![asset] = deposit_cap]
  /\ approved_asset_count' = approved_asset_count + 1
  /\ UNCHANGED <<configVars, navVars, limitVars, outVars, escrowVars, userVars,
                 pending_async_requests, total_asset_balance, queue, request, reserve,
                 fee_balance, slot>>

\* remove_vault_asset, and the mutant that removes an asset that still has
\* deposits in escrow.
RemoveVaultAssetUnchecked(asset) ==
  /\ config.timelock_delay_slots = 0
  /\ vault_asset[asset] # NotApproved
  /\ approved_asset_count > 0
  /\ vault_asset' = [vault_asset EXCEPT ![asset] = NotApproved]
  /\ approved_asset_count' = approved_asset_count - 1
  /\ UNCHANGED <<configVars, navVars, limitVars, outVars, escrowVars, userVars,
                 pending_async_requests, total_asset_balance, queue, request, reserve,
                 fee_balance, slot>>

RemoveVaultAsset(asset) ==
  /\ config.timelock_delay_slots = 0
  /\ vault_asset[asset] # NotApproved
  /\ pending_deposit_amount[asset] = 0
  /\ pending_vault[asset] = 0
  /\ approved_asset_count > 0
  /\ vault_asset' = [vault_asset EXCEPT ![asset] = NotApproved]
  /\ approved_asset_count' = approved_asset_count - 1
  /\ UNCHANGED <<configVars, navVars, limitVars, outVars, escrowVars, userVars,
                 pending_async_requests, total_asset_balance, queue, request, reserve,
                 fee_balance, slot>>

\* withdraw_assets: the curator sends reserve assets to an approved recipient.
\* total_asset_balance does not change.  Whether the venue is active is the
\* venue registry's state; here it may be.
WithdrawAssets(amount) ==
  /\ HasExternallyManagedWithdrawals
  /\ ~paused
  /\ RollingLimitAllows(external_withdraw_window, amount, slot,
                        config.external_withdraw_rolling_limit,
                        config.rolling_limit_window_slots)
  /\ reserve >= amount
  /\ external_withdraw_window' =
       ConsumeRollingLimit(external_withdraw_window, amount, slot,
                           config.external_withdraw_rolling_limit,
                           config.rolling_limit_window_slots)
  /\ reserve' = reserve - amount
  /\ withdrawn' = withdrawn + amount
  /\ UNCHANGED <<configVars, navVars, redemption_window, instant_user, assetVars, returned,
                 escrowVars, userVars, pending_async_requests, total_asset_balance, queue,
                 request, fee_balance, slot>>

\* A plain token transfer into the reserve, principal or profit.  The program
\* does not see it.
ReturnAssets(amount) ==
  /\ returned + amount <= MaxReturned
  /\ reserve' = reserve + amount
  /\ returned' = returned + amount
  /\ UNCHANGED <<configVars, navVars, limitVars, assetVars, withdrawn, escrowVars, userVars,
                 pending_async_requests, total_asset_balance, queue, request, fee_balance,
                 slot>>

Tick ==
  /\ slot < MaxSlot
  /\ slot' = slot + 1
  /\ UNCHANGED <<configVars, navVars, limitVars, assetVars, outVars, escrowVars, userVars,
                 pending_async_requests, total_asset_balance, queue, request, reserve,
                 fee_balance>>

-----------------------------------------------------------------------------

Create ==
  \E r \in Requests, u \in Users, asset \in Assets, amount \in Amounts,
     op \in Operators \cup {NoOperator} :
    \/ CreateDepositRequest(r, u, asset, amount, op)
    \/ CreateRedeemRequest(r, u, asset, amount, op)

Settle ==
  \E r \in Requests :
    \/ ApproveDeposit(r)
    \/ ApproveRedeem(r)
    \/ RejectRequest(r)
    \/ CancelRequest(r)
    \/ CancelQueuedDepositRequest(r)
    \/ CancelQueuedRedemptionRequest(r)
    \/ SkipCanceledQueueRequest(r)
    \/ \E signer \in Users : Claim(r, signer)
    \/ \E op \in Operators : SetOperator(r, op)

Instant ==
  \E u \in Users, amount \in Amounts :
    InstantDeposit(u, amount) \/ InstantRedeem(u, amount)

Manage ==
  \/ \E n \in Navs : UpdateVaultNav(n)
  \/ \E c \in Configs, p \in BOOLEAN : UpdateVault(c, p)
  \/ \E c \in Configs : ExecuteVaultUpdate(c)
  \/ \E c \in Configs : UpdateExtension(c)
  \/ PauseVault
  \/ \E asset \in SecondaryAssets, cap \in Amounts : AddVaultAsset(asset, cap)
  \/ \E asset \in SecondaryAssets : RemoveVaultAsset(asset)
  \/ \E amount \in Amounts : WithdrawAssets(amount)

Outside ==
  \/ \E amount \in Amounts : ReturnAssets(amount)
  \/ Tick

Next == Create \/ Settle \/ Instant \/ Manage \/ Outside

Spec == Init /\ [][Next]_vars

\* The fulfiller keeps serving the head of the queue (rejecting what it does
\* not approve) and somebody keeps calling the permissionless skip.
Fairness ==
  \A r \in Requests : WF_vars(RejectRequest(r)) /\ WF_vars(SkipCanceledQueueRequest(r))

FairSpec == Spec /\ Fairness

-----------------------------------------------------------------------------
(* Properties *)

\* The accounts hold what their types say: counters stay inside their widths,
\* a queue id is there exactly when the vault has the queue.
TypeOK ==
  /\ config \in Configs /\ ValidateConfig(config) /\ paused \in BOOLEAN
  /\ nav \in Nat /\ nav_version \in Nat /\ last_nav_update_slot \in Nat /\ slot \in Nat
  /\ pending_async_requests \in 0 .. U16_MAX
  /\ total_asset_balance \in Nat /\ approved_asset_count \in Nat
  /\ redemption_window \in Windows /\ external_withdraw_window \in Windows
  /\ queue \in [RequestTypes -> Queues]
  /\ request \in [Requests -> RequestRecords \cup {Closed}]
  /\ vault_asset \in [SecondaryAssets -> Nat \cup {NotApproved}]
  /\ pending_deposit_amount \in [Assets -> Nat] /\ pending_vault \in [Assets -> Nat]
  /\ instant_user \in [Users -> [deposit : Windows, redeem : Windows]]
  /\ wallet \in [Users -> [Assets -> Nat]] /\ share_balance \in [Users -> Nat]
  /\ reserve \in Nat /\ withdrawn \in Nat /\ returned \in Nat
  /\ fee_balance \in [recipient : Nat, protocol : Nat]

\* The sum of the amounts of some requests.
TotalAmount(S) == AmountOf(request, S)

PendingRequests == {r \in Requests : IsState(r, "Pending")}

PendingDeposits(asset) ==
  {r \in PendingRequests : IsType(r, "Deposit") /\ request[r].asset_mint = asset}

ClaimableRedeems(asset) ==
  {r \in Requests : /\ IsState(r, "Claimable") /\ IsType(r, "Redeem")
                    /\ request[r].asset_mint = asset}

InEscrow(asset) == PendingDeposits(asset) \cup ClaimableRedeems(asset)

\* The escrow account of every asset holds exactly the deposits waiting for a
\* decision and the redemptions waiting to be claimed: whatever the order of
\* approvals, refunds, tombstones, claims, instant settlements and external
\* withdrawals, no request is paid from another one's escrow or paid twice.
EscrowBacked ==
  \A asset \in Assets :
    pending_vault[asset] = TotalAmount(InEscrow(asset))

\* pending_deposit_amount, which the deposit caps and remove_vault_asset rely
\* on, is exactly the pending deposits of the asset, so no checked_sub of it
\* can fail and block a refund.
PendingDepositsExact ==
  \A asset \in Assets :
    pending_deposit_amount[asset] = TotalAmount(PendingDeposits(asset))

\* The u16 count of pending requests is exact: a tombstone, an approval or a
\* refund each leaves it once, so its checked_sub can never fail and block an
\* approval, a rejection or a cancellation.
PendingCountExact == pending_async_requests = Cardinality(PendingRequests)

\* An asset with a deposit in escrow keeps its VaultAsset account, without
\* which the deposit could be neither cancelled nor rejected.
PendingAssetsApproved ==
  \A r \in PendingRequests :
    IsType(r, "Deposit") => IsApproved(request[r].asset_mint)

\* r occupies a place in the queue of its type: waiting, or a tombstone.
InQueue(r, type) ==
  /\ HasQueue[type]
  /\ IsState(r, "Pending") \/ IsState(r, "Canceled")
  /\ request[r].request_type = type

\* The open queued requests carry exactly the ids between last_processed and
\* total, each once, across the wrap of the u64 counters: so the queue always
\* has a head to serve or skip, and two requests never claim the same turn.
QueueCoversIds ==
  \A type \in RequestTypes :
    /\ \A r \in Requests : InQueue(r, type) =>
         \E i \in 1 .. QueueLength(queue[type]) : request[r].queue_id = IdAt(queue[type], i)
    /\ \A i \in 1 .. QueueLength(queue[type]) :
         \E r \in Requests : InQueue(r, type) /\ request[r].queue_id = IdAt(queue[type], i)
    /\ \A r, s \in Requests :
         InQueue(r, type) /\ InQueue(s, type) /\ request[r].queue_id = request[s].queue_id
           => r = s

\* The queue as a sequence of requests, head first.
QueueContents(type) ==
  [i \in 1 .. QueueLength(queue[type]) |->
     CHOOSE r \in Requests : InQueue(r, type) /\ request[r].queue_id = IdAt(queue[type], i)]

SubscriptionFifo == INSTANCE RequestQueue WITH items <- QueueContents("Deposit")
RedemptionFifo   == INSTANCE RequestQueue WITH items <- QueueContents("Redeem")

\* Approvals, rejections and skips serve queued deposits in the order in which
\* they were created, tombstones included: the two counters and the scattered
\* request accounts implement the queue of RequestQueue.
SubscriptionsInOrder == SubscriptionFifo!Spec

\* The same for the redemption queue, whose requests may also be of secondary
\* assets that can only be rejected.
RedemptionsInOrder == RedemptionFifo!Spec

\* Every queued request leaves the queue: no pause, stale NAV, lowered cap,
\* raised fee, unpriceable secondary asset or tombstone in front of it can
\* wedge the queue for good.
QueueDrains ==
  \A r \in Requests, type \in RequestTypes : InQueue(r, type) ~> ~InQueue(r, type)

\* The virtual balance is what the reserve would hold had nothing been
\* withdrawn or sent back outside the program.
BalanceIsVirtualReserve == total_asset_balance + returned = reserve + withdrawn

\* While the configuration keeps its cap, confirmed and pending deposits
\* together stay under it, instant deposits included.
CapRespected ==
  config.deposit_cap > 0 =>
    total_asset_balance + pending_deposit_amount[Primary] <= config.deposit_cap

\* Shares that exist, that an approved deposit can still claim, and that a
\* pending redemption burned and may get back.
ClaimsOnShares(u) ==
  {r \in Requests : /\ \/ IsState(r, "Claimable") /\ IsType(r, "Deposit")
                       \/ IsState(r, "Pending") /\ IsType(r, "Redeem")
                    /\ request[r].owner = u}

SharesOf(u) == share_balance[u] + TotalAmount(ClaimsOnShares(u))

AssetsOf(u) ==
  wallet[u][Primary]
    + TotalAmount({r \in InEscrow(Primary) : request[r].owner = u})

\* At a NAV that never changes no sequence of deposits, redemptions, instant
\* settlements, cancellations and claims leaves a user with more than the
\* wallet held at first: rounding and refunds never create value.
NoFreeValue ==
  \A u \in Users, n \in Navs :
    PRECISION * AssetsOf(u) + n * SharesOf(u) <= PRECISION * Funds

\* A claimable request stays as it is, but for its operator, or is closed and
\* paid.
KeepsOrPays(r) ==
  LET q == request[r] IN
  \/ request'[r] # Closed /\ [request'[r] EXCEPT !.operator = q.operator] = q
  \/ /\ request'[r] = Closed
     /\ IF q.request_type = "Deposit"
          THEN share_balance'[q.owner] = share_balance[q.owner] + q.amount
          ELSE wallet'[q.owner][q.asset_mint] = wallet[q.owner][q.asset_mint] + q.amount

\* An approved request is final: nothing but a claim ends it, nobody reprices
\* it, and the claim pays its owner the approved amount.
ApprovalIsFinal ==
  [][\A r \in Requests : IsState(r, "Claimable") => KeepsOrPays(r)]_vars

\* What leaves the virtual balance in this step is added to what the redemption
\* window holds, in a new window if it moves, and fits under the limit.
MetersRedemption ==
  LET out == total_asset_balance - total_asset_balance' IN
  out > 0 /\ config.redemption_rolling_limit > 0 =>
    /\ redemption_window'.amount <= config.redemption_rolling_limit
    /\ redemption_window'.amount =
         out + IF redemption_window'.start = redemption_window.start
                 THEN redemption_window.amount ELSE 0

\* Every unit that leaves the virtual balance, by an approved or by an instant
\* redemption, is charged to the one redemption window, before fees, and fits
\* under the redemption limit.
RedemptionsMetered == [][MetersRedemption]_vars

SettlesNothing ==
  /\ total_asset_balance' = total_asset_balance /\ fee_balance' = fee_balance
  /\ reserve' >= reserve
  /\ \A r \in Requests : IsState(r, "Claimable") <=> IsState(r, "Claimable")'

\* While the vault is paused nothing is priced, charged or paid out: the virtual
\* balance and the fees stand still, the reserve does not fall, and no request
\* becomes claimable or is claimed.  Only rejections and skips move requests.
PauseStopsSettlement == [][paused /\ paused' => SettlesNothing]_vars

\* docs/ACCOUNTS.md: requests for a secondary asset "can unwind through
\* cancel/reject and restore burned shares".  In an unpaused vault the owner of
\* a pending request has a cancel instruction that accepts it.
OwnerCanCancel ==
  \A r \in PendingRequests :
    ~paused => \/ ENABLED CancelRequest(r)
               \/ ENABLED CancelQueuedDepositRequest(r)
               \/ ENABLED CancelQueuedRedemptionRequest(r)

\* DESIGN_DECISIONS.md: the curator deploys assets and "reflects the result by
\* updating NAV"; "a virtual total_asset_balance keeps accounting correct".  A
\* redemption that could be approved and whose assets are in the reserve is not
\* refused because of the virtual balance.
BalanceCoversRedemptions ==
  \A r \in PendingRequests :
    LET assets == CalculateAssets(nav, PRECISION, request[r].amount) IN
    CanApprove(r) /\ IsType(r, "Redeem") /\ reserve >= assets
      => total_asset_balance >= assets
=============================================================================
