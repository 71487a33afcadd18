------------------------------- MODULE Tranches -------------------------------
(***************************************************************************)
(* A vault with a senior and a junior share class.  Requests name a        *)
(* tranche; each tranche has a queue of its own in each direction, a price *)
(* of its own, and a cached supply that also counts the shares of approved *)
(* deposits nobody has claimed yet.  A NAV update runs the waterfall:      *)
(* gains go to senior up to its target and the rest to junior, losses to   *)
(* junior first.  Approvals keep a floor under junior's part of the value. *)
(*                                                                         *)
(* The instructions are those of AsyncVault; what is modelled here is what *)
(* a tranche changes in them.  Fees, roles, pauses, caps and rolling       *)
(* limits are in AsyncVault, Governance and RollingWindow and are left     *)
(* out, as is everything a tranche vault refuses (instant settlement, the  *)
(* performance fee).                                                       *)
(***************************************************************************)
EXTENDS VaultMath, Units, FiniteSetsExt

CONSTANTS
  Requests,        \* addresses of request accounts
  Amounts,         \* amounts of a request
  Navs,            \* aggregate values that are published
  Settings,        \* InitializeTranchesArgs, and the queues that are enabled
  Precision,       \* 10 ^ decimals of the two share mints
  SecondsPerYear,  \* SECONDS_PER_YEAR
  MaxTime,         \* bound: the clock
  MaxUpdates,      \* bound: the number of NAV updates
  MaxIds,          \* bound: queued requests per lane
  MaxShares,       \* bound: shares of a tranche when a deposit is requested
  MaxBurnt         \* bound: shares holders burn by themselves

RequestTypes == {"Deposit", "Redeem"}
TrancheNames == {"senior", "junior"}
Lanes        == TrancheNames \X RequestTypes
NoQueueId    == -1
Closed       == [request_state |-> "Closed"]

\* Accounts a request can be in; the lane is share mint and request type.
RequestRecords ==
  [request_state : {"Pending", "Claimable", "Canceled"}, lane : Lanes,
   amount : Nat, price : Nat, queue_id : Nat \cup {NoQueueId}]

ASSUME TranchesAssumption ==
  /\ IsFiniteSet(Requests)
  /\ Amounts \subseteq Nat \ {0} /\ Navs \subseteq Nat
  /\ Precision \in Nat \ {0} /\ SecondsPerYear \in Nat \ {0}
  /\ MaxTime \in Nat \ {0} /\ MaxUpdates \in Nat /\ MaxIds \in Nat /\ MaxShares \in Nat
  /\ MaxBurnt \in Nat
  /\ \A s \in Settings :
       /\ s.senior_target_bps \in 0 .. MAX_BPS
       /\ s.min_junior_ratio_bps \in 0 .. MAX_BPS
       /\ \A l \in Lanes :
            s.max_request_amounts[l] = 0 \/ s.min_request_amounts[l] <= s.max_request_amounts[l]
       /\ s.queues \subseteq RequestTypes

VARIABLES
  settings,              \* a member of Settings
  nav,                   \* Vault.nav, the aggregate value per share
  nav_version,
  total_asset_balance,
  tranche_nav,           \* senior_nav and junior_nav
  tranche_supply,        \* the cached senior_supply and junior_supply
  lane,                  \* each lane's request_total and last_processed
  last_waterfall,        \* slot and timestamp of the last waterfall, 0 for none
  mint_supply,           \* the supplies of the two share mints
  request,               \* [Requests -> RequestRecords \cup {Closed}]
  now,                   \* the clock, slots and seconds alike
  burnt                  \* shares their holders burnt at the token program

vault_vars   == <<nav, nav_version, total_asset_balance>>
tranche_vars == <<tranche_nav, tranche_supply, lane, last_waterfall>>
vars == <<settings, vault_vars, tranche_vars, mint_supply, request, now, burnt>>

\* initialize_tranches, in a vault whose value may have been published before
\* or not.
TranchesInit ==
  /\ settings \in Settings
  /\ nav \in Navs \cup {0}
  /\ nav_version = 0
  /\ total_asset_balance = 0
  /\ tranche_nav = [t \in TrancheNames |-> 0]
  /\ tranche_supply = [t \in TrancheNames |-> 0]
  /\ lane = [l \in Lanes |-> [request_total |-> 0, last_processed |-> 0]]
  /\ last_waterfall = 0
  /\ mint_supply = [t \in TrancheNames |-> 0]
  /\ request = [r \in Requests |-> Closed]
  /\ now = 1
  /\ burnt = [t \in TrancheNames |-> 0]

IsState(r, state) == request[r].request_state = state
TrancheOf(r) == request[r].lane[1]
TypeOf(r)    == request[r].lane[2]

\* What a share of the tranche is priced at: its own value when that is not 0,
\* the aggregate value otherwise.
Price(tranche) == IF tranche_nav[tranche] > 0 THEN tranche_nav[tranche] ELSE nav

-----------------------------------------------------------------------------
\* The lanes.

\* next_queue_request_id of the lane, when queues of its direction are enabled.
NextQueueId(l) ==
  IF l[2] \in settings.queues THEN lane[l].request_total + 1 ELSE NoQueueId

LaneAfterCreate(l) ==
  IF l[2] \in settings.queues THEN [lane EXCEPT ![l].request_total = @ + 1] ELSE lane

\* check_and_advance_queue: the request is the next of its lane.
IsNextOfLane(r) ==
  TypeOf(r) \in settings.queues =>
    request[r].queue_id = lane[request[r].lane].last_processed + 1

\* The mutant advances the other tranche's lane.
AdvanceOtherLane(r) ==
  LET other == CHOOSE l \in Lanes : l[1] # TrancheOf(r) /\ l[2] = TypeOf(r)
  IN  IF TypeOf(r) \in settings.queues
        THEN [lane EXCEPT ![other].last_processed = request[r].queue_id] ELSE lane

AdvanceLane(r) ==
  IF TypeOf(r) \in settings.queues
    THEN [lane EXCEPT ![request[r].lane].last_processed = request[r].queue_id] ELSE lane

-----------------------------------------------------------------------------
\* Requests.

\* enforce_tranche_request_limits.
WithinRequestLimits(l, amount) ==
  /\ settings.min_request_amounts[l] = 0 \/ amount >= settings.min_request_amounts[l]
  /\ settings.max_request_amounts[l] = 0 \/ amount <= settings.max_request_amounts[l]

Open(r, l, amount) ==
  /\ IsState(r, "Closed")
  /\ WithinRequestLimits(l, amount)
  /\ lane[l].request_total < MaxIds
  /\ request' = [request EXCEPT ![r] =
                   [request_state |-> "Pending", lane |-> l, amount |-> amount,
                    price |-> Price(l[1]), queue_id |-> NextQueueId(l)]]
  /\ lane' = LaneAfterCreate(l)

CreateDepositRequest(r, tranche, amount) ==
  /\ tranche_supply[tranche] + amount <= MaxShares
  /\ Open(r, <<tranche, "Deposit">>, amount)
  /\ UNCHANGED <<settings, vault_vars, tranche_nav, tranche_supply, last_waterfall,
                 mint_supply, now, burnt>>

\* The shares are burnt at once.
CreateRedeemRequest(r, tranche, amount) ==
  /\ amount <= mint_supply[tranche]
  /\ Open(r, <<tranche, "Redeem">>, amount)
  /\ mint_supply' = [mint_supply EXCEPT ![tranche] = @ - amount]
  /\ UNCHANGED <<settings, vault_vars, tranche_nav, tranche_supply, last_waterfall,
                 now, burnt>>

\* post_approval_supply: the effective supply, after the approval.
PostApprovalSupply(tranche, type, share_delta) ==
  IF type = "Deposit"
    THEN Max({tranche_supply[tranche], mint_supply[tranche]}) + share_delta
    ELSE Max({tranche_supply[tranche], mint_supply[tranche] + share_delta}) - share_delta

SupplyAfter(r, share_delta) ==
  [t \in TrancheNames |->
     IF t = TrancheOf(r)
       THEN PostApprovalSupply(t, TypeOf(r), share_delta)
       ELSE Max({tranche_supply[t], mint_supply[t]})]

AssetsFromSupply(supply, price) == (supply * price) \div Precision

\* The value of each tranche, for a given supply of each, at the prices of now.
JuniorRatioAllows(supply) ==
  LET senior_assets == AssetsFromSupply(supply["senior"], Price("senior"))
      junior_assets == AssetsFromSupply(supply["junior"], Price("junior"))
      total_assets  == senior_assets + junior_assets
  IN  total_assets # 0 =>
        (junior_assets * MAX_BPS) \div total_assets >= settings.min_junior_ratio_bps

\* maybe_enforce_junior_ratio_floor: checked where junior's part can shrink;
\* and the mutant that only looks at the supplies of the mints.
JuniorFloorOnMintedShares(r, share_delta) ==
  request[r].lane \in {<<"senior", "Deposit">>, <<"junior", "Redeem">>} =>
    JuniorRatioAllows(
      [mint_supply EXCEPT !["senior"] =
         IF TrancheOf(r) = "senior" THEN @ + share_delta ELSE @])

JuniorFloor(r, share_delta) ==
  request[r].lane \in {<<"senior", "Deposit">>, <<"junior", "Redeem">>} =>
    JuniorRatioAllows(SupplyAfter(r, share_delta))

\* approve_request, the part after the request and its accounts are checked.
CanApprove(r) ==
  /\ IsState(r, "Pending")
  /\ nav > 0
  /\ IsNextOfLane(r)

MarkClaimable(r, claimable) ==
  request' = [request EXCEPT ![r].request_state = "Claimable", ![r].amount = claimable,
                             ![r].price = Price(TrancheOf(r))]

\* update_tranche_supply_cache
UpdateSupplyCache(r, share_delta) ==
  [tranche_supply EXCEPT ![TrancheOf(r)] = SupplyAfter(r, share_delta)[TrancheOf(r)]]

ApproveDeposit(r) ==
  LET shares == CalculateShares(Price(TrancheOf(r)), Precision, request[r].amount)
  IN  /\ CanApprove(r) /\ TypeOf(r) = "Deposit"
      /\ shares > 0
      /\ JuniorFloor(r, shares)
      /\ tranche_supply' = UpdateSupplyCache(r, shares)
      /\ lane' = AdvanceLane(r)
      /\ total_asset_balance' = total_asset_balance + request[r].amount
      /\ MarkClaimable(r, shares)
      /\ UNCHANGED <<settings, nav, nav_version, tranche_nav, last_waterfall, mint_supply,
                     now, burnt>>

ApproveRedeem(r) ==
  LET assets == CalculateAssets(Price(TrancheOf(r)), Precision, request[r].amount)
  IN  /\ CanApprove(r) /\ TypeOf(r) = "Redeem"
      /\ assets > 0
      /\ JuniorFloor(r, request[r].amount)
      /\ tranche_supply' = UpdateSupplyCache(r, request[r].amount)
      /\ lane' = AdvanceLane(r)
      /\ assets <= total_asset_balance
      /\ total_asset_balance' = total_asset_balance - assets
      /\ MarkClaimable(r, assets)
      /\ UNCHANGED <<settings, nav, nav_version, tranche_nav, last_waterfall, mint_supply,
                     now, burnt>>

\* What a request that is not settled gives back: a redemption its shares.
MintBack(r) ==
  IF TypeOf(r) = "Redeem"
    THEN [mint_supply EXCEPT ![TrancheOf(r)] = @ + request[r].amount] ELSE mint_supply

RejectRequest(r) ==
  /\ IsState(r, "Pending")
  /\ IsNextOfLane(r)
  /\ lane' = AdvanceLane(r)
  /\ mint_supply' = MintBack(r)
  /\ request' = [request EXCEPT ![r] = Closed]
  /\ UNCHANGED <<settings, vault_vars, tranche_nav, tranche_supply, last_waterfall,
                 now, burnt>>

\* cancel_request closes the account; a queued request leaves a tombstone that
\* holds its place (cancel_queued_deposit_request and the one for redemptions).
CancelRequest(r) ==
  /\ IsState(r, "Pending")
  /\ request' = [request EXCEPT ![r] =
                   IF @.queue_id = NoQueueId THEN Closed
                                             ELSE [@ EXCEPT !.request_state = "Canceled"]]
  /\ mint_supply' = MintBack(r)
  /\ UNCHANGED <<settings, vault_vars, tranche_vars, now, burnt>>

SkipCanceledQueueRequest(r) ==
  /\ IsState(r, "Canceled")
  /\ IsNextOfLane(r)
  /\ lane' = AdvanceLane(r)
  /\ request' = [request EXCEPT ![r] = Closed]
  /\ UNCHANGED <<settings, vault_vars, tranche_nav, tranche_supply, last_waterfall,
                 mint_supply, now, burnt>>

Claim(r) ==
  /\ IsState(r, "Claimable")
  /\ mint_supply' = IF TypeOf(r) = "Deposit"
                      THEN [mint_supply EXCEPT ![TrancheOf(r)] = @ + request[r].amount]
                      ELSE mint_supply
  /\ request' = [request EXCEPT ![r] = Closed]
  /\ UNCHANGED <<settings, vault_vars, tranche_vars, now, burnt>>

-----------------------------------------------------------------------------
\* The waterfall.

EffectiveSupply(t) == Max({mint_supply[t], tranche_supply[t]})

\* An amount of assets, per share; 0 without shares.
NavFromAssets(assets, supply) ==
  IF supply = 0 THEN 0 ELSE (assets * Precision) \div supply

\* compute_tranche_waterfall, as the assets of the two tranches after it; and
\* the mutant that takes a loss from both in proportion.
WaterfallProRata(updated_nav) ==
  [t \in TrancheNames |-> AssetsFromSupply(EffectiveSupply(t), updated_nav)]

Waterfall(updated_nav) ==
  LET previous == [t \in TrancheNames |-> AssetsFromSupply(EffectiveSupply(t), tranche_nav[t])]
      previous_total == previous["senior"] + previous["junior"]
      updated_total  == AssetsFromSupply(EffectiveSupply("senior"), updated_nav)
                          + AssetsFromSupply(EffectiveSupply("junior"), updated_nav)
      target_accrual ==
        ((previous["senior"] * settings.senior_target_bps * (now - last_waterfall))
            \div MAX_BPS) \div SecondsPerYear
      senior_credit == Min({updated_total - previous_total, target_accrual})
      junior_loss   == Min({previous_total - updated_total, previous["junior"]})
      senior_loss   == (previous_total - updated_total) - junior_loss
      senior == IF updated_total >= previous_total
                  THEN previous["senior"] + senior_credit
                  ELSE previous["senior"] - senior_loss
  IN  [t \in TrancheNames |-> IF t = "senior" THEN senior ELSE updated_total - senior]

\* The first waterfall sets both values to the aggregate one.
FirstWaterfall == last_waterfall = 0 /\ \A t \in TrancheNames : tranche_nav[t] = 0

\* apply_tranche_waterfall's supply cache, and the mutant that takes it back to
\* the supply of the mint.
MintedSupply == mint_supply

PreservedSupply == [t \in TrancheNames |-> EffectiveSupply(t)]

\* update_vault_nav of a tranche vault.
UpdateVaultNav(updated_nav) ==
  /\ nav_version < MaxUpdates
  /\ tranche_nav' =
       [t \in TrancheNames |->
          IF FirstWaterfall
            THEN IF EffectiveSupply(t) = 0 THEN 0 ELSE updated_nav
            ELSE NavFromAssets(Waterfall(updated_nav)[t], EffectiveSupply(t))]
  /\ tranche_supply' = PreservedSupply
  /\ last_waterfall' = now
  /\ nav' = updated_nav
  /\ nav_version' = nav_version + 1
  /\ UNCHANGED <<settings, total_asset_balance, lane, mint_supply, request, now, burnt>>

-----------------------------------------------------------------------------
\* Outside the program: holders burn shares, time passes.

BurnShares(tranche) ==
  /\ mint_supply[tranche] > 0
  /\ burnt[tranche] < MaxBurnt
  /\ mint_supply' = [mint_supply EXCEPT ![tranche] = @ - 1]
  /\ burnt' = [burnt EXCEPT ![tranche] = @ + 1]
  /\ UNCHANGED <<settings, vault_vars, tranche_vars, request, now>>

Tick ==
  /\ now < MaxTime
  /\ now' = now + 1
  /\ UNCHANGED <<settings, vault_vars, tranche_vars, mint_supply, request, burnt>>

CreateTrancheRequest ==
  \E r \in Requests, t \in TrancheNames, amount \in Amounts :
    CreateDepositRequest(r, t, amount) \/ CreateRedeemRequest(r, t, amount)

SettleTrancheRequest ==
  \E r \in Requests :
    \/ ApproveDeposit(r) \/ ApproveRedeem(r)
    \/ RejectRequest(r)
    \/ CancelRequest(r) \/ SkipCanceledQueueRequest(r)
    \/ Claim(r)

TranchesNext ==
  \/ CreateTrancheRequest
  \/ SettleTrancheRequest
  \/ \E n \in Navs : UpdateVaultNav(n)
  \/ \E t \in TrancheNames : BurnShares(t)
  \/ Tick

TranchesSpec == TranchesInit /\ [][TranchesNext]_vars

-----------------------------------------------------------------------------
\* Properties.

\* Shares the vault still answers for besides the minted ones: approved deposits
\* that are not claimed and redemptions that are not settled.
InState(t, type, state) ==
  {r \in Requests : IsState(r, state) /\ request[r].lane = <<t, type>>}

AmountIn(S) == AmountOf(request, S)

CommittedShares(t) ==
  mint_supply[t] + AmountIn(InState(t, "Deposit", "Claimable"))
                 + AmountIn(InState(t, "Redeem", "Pending"))

\* The supply cached for a tranche is exactly what it stands for: the minted
\* shares, those of approved deposits nobody has claimed, and those of
\* redemptions that still wait (burnt shares stay in it).  A NAV update between
\* the approval and the claim must not forget them.
SupplyCacheExact ==
  \A t \in TrancheNames : tranche_supply[t] = CommittedShares(t) + burnt[t]

\* No request is left behind: a live request of a lane always has a number the
\* lane has given out and not yet passed, and no two the same, so that settling
\* the lane in order reaches each of them.
NoneLeftBehind ==
  \A r \in Requests :
    ~IsState(r, "Closed") /\ ~IsState(r, "Claimable") /\ request[r].queue_id # NoQueueId =>
      /\ lane[request[r].lane].last_processed < request[r].queue_id
      /\ request[r].queue_id <= lane[request[r].lane].request_total
      /\ \A s \in Requests \ {r} :
           ~IsState(s, "Closed") /\ ~IsState(s, "Claimable") /\ request[s].lane = request[r].lane
             => request[s].queue_id # request[r].queue_id

\* Junior's part of the value, counting every share the vault answers for.
JuniorRatioHolds ==
  LET value(t) == AssetsFromSupply(CommittedShares(t), Price(t))
  IN  (value("senior") + value("junior") # 0) =>
        (value("junior") * MAX_BPS) \div (value("senior") + value("junior"))
          >= settings.min_junior_ratio_bps

\* No approval of a senior deposit or a junior redemption leaves junior with less
\* than its floor, shares that are approved and not claimed included (unless
\* holders burnt shares, which the cache goes on counting).
KeepsJuniorFloor(r) ==
  /\ request[r].request_state = "Pending" /\ request'[r].request_state = "Claimable"
  /\ request[r].lane \in {<<"senior", "Deposit">>, <<"junior", "Redeem">>}
  /\ \A t \in TrancheNames : burnt[t] = 0
  => JuniorRatioHolds'

ApprovalKeepsJuniorFloor == [][\A r \in Requests : KeepsJuniorFloor(r)]_vars

\* A NAV update takes value from senior only when it leaves junior nothing; but
\* for what its two divisions round away, which is less than a unit of assets
\* and a unit of price per share.
TakesFromSeniorLast ==
  LET shares == tranche_supply'["senior"]
      lost   == (tranche_nav["senior"] - tranche_nav'["senior"]) * shares
  IN  nav_version' # nav_version /\ CommittedShares("senior") > 0
        /\ lost > (Precision - 1) + (shares - 1)
        => tranche_nav'["junior"] = 0

SeniorLosesLast == [][TakesFromSeniorLast]_vars

\* What a NAV update leaves the two tranches is what the vault is worth and no
\* more: at the new prices all shares together claim at most the aggregate
\* value of them.
PricesNeverOverstate ==
  [][nav_version' # nav_version =>
       AssetsFromSupply(tranche_supply'["senior"], Price("senior")')
         + AssetsFromSupply(tranche_supply'["junior"], Price("junior")')
       <= AssetsFromSupply(tranche_supply'["senior"], nav')
            + AssetsFromSupply(tranche_supply'["junior"], nav')]_vars

\* A loss the waterfall gives to junior stays with junior: shares whose value it
\* took are priced at what it left them.  The documents keep the aggregate value
\* for tranches that have no shares yet.
LossesStayWithJunior ==
  [][/\ nav' < nav
     /\ tranche_nav["junior"] > 0 /\ tranche_supply'["junior"] > 0
     => Price("junior")' = tranche_nav'["junior"]]_vars
==============================================================================
