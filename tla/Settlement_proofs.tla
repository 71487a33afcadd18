--------------------------- MODULE Settlement_proofs ---------------------------
(***************************************************************************)
(* What settling requests may and may not do: approvals are final, a pause *)
(* stops them, redemptions are metered, caps are kept, at a constant net   *)
(* asset value no round trip creates value, and whoever waits can leave.   *)
(***************************************************************************)
EXTENDS Queue_proofs

-----------------------------------------------------------------------------
(* Approvals are final *)

\* A step that leaves a claimable request alone.
LEMMA Untouched ==
  ASSUME TypeOK, NEW r \in Requests, IsState(r, "Claimable"), request'[r] = request[r]
  PROVE  KeepsOrPays(r)
<1>1. request[r] \in RequestRecords
  BY LiveRequest DEF IsState
<1> QED BY <1>1 DEF KeepsOrPays, RequestRecords, Closed, IsState

\* The instructions on a request that is not claimable yet.
LEMMA SettleOther ==
  ASSUME TypeOK, NEW r \in Requests, IsState(r, "Claimable"), NEW s \in Requests, s # r,
         NEW q, request' = [request EXCEPT ![s] = q]
  PROVE  KeepsOrPays(r)
  BY Untouched DEF TypeOK

LEMMA ApprovalStep ==
  ASSUME TypeOK, [Next]_vars, NEW r \in Requests, IsState(r, "Claimable")
  PROVE  KeepsOrPays(r)
<1>0. /\ request[r] \in RequestRecords /\ request \in [Requests -> RequestRecords \cup {Closed}]
      /\ request[r].owner \in Users /\ request[r].asset_mint \in Assets
  BY LiveRequest DEF IsState, TypeOK
<1>1. ASSUME NEW s \in Requests, NEW q, request' = [request EXCEPT ![s] = q], s # r
      PROVE  KeepsOrPays(r)
  BY <1>1, SettleOther
<1>2. CASE Create
  <2>1. PICK s \in Requests :
          IsState(s, "Closed") /\ \E q : request' = [request EXCEPT ![s] = q]
    BY <1>2 DEF Create, CreateDepositRequest, CreateRedeemRequest, OpenRequest
  <2>2. PICK q : request' = [request EXCEPT ![s] = q]
    BY <2>1
  <2> QED BY <1>1, <2>1, <2>2 DEF IsState
<1>3. ASSUME NEW s \in Requests, ApproveDeposit(s) \/ ApproveRedeem(s)
      PROVE  KeepsOrPays(r)
  <2>1. PICK claimable : request' = [request EXCEPT ![s].amount = claimable, ![s].price = nav,
                                                    ![s].request_state = "Claimable"]
    BY <1>3 DEF ApproveDeposit, ApproveRedeem, MarkClaimable
  <2>2. IsState(s, "Pending")
    BY <1>3 DEF ApproveDeposit, ApproveRedeem, CanApprove
  <2>3. request'[r] = request[r]
    BY <1>0, <2>1, <2>2 DEF IsState
  <2> QED BY <2>3, Untouched
<1>4. ASSUME NEW s \in Requests,
             \/ RejectRequest(s) \/ CancelRequest(s) \/ CancelQueued(s)
             \/ SkipCanceledQueueRequest(s)
      PROVE  KeepsOrPays(r)
  <2>1. /\ IsState(s, "Pending") \/ IsState(s, "Canceled")
        /\ \E q : request' = [request EXCEPT ![s] = q]
    BY <1>4 DEF RejectRequest, CancelRequest, CancelQueued, SkipCanceledQueueRequest
  <2> QED BY <1>1, <2>1 DEF IsState
<1>5. ASSUME NEW s \in Requests, NEW signer \in Users, Claim(s, signer)
      PROVE  KeepsOrPays(r)
  <2>1. request' = [request EXCEPT ![s] = Closed]
    BY <1>5 DEF Claim
  <2>2. CASE s = r
    <3>1. CASE ClaimShares(r)
      BY <1>0, <2>1, <2>2, <3>1 DEF ClaimShares, KeepsOrPays, TypeOK
    <3>2. CASE ClaimAssets(r)
      BY <1>0, <2>1, <2>2, <3>2 DEF ClaimAssets, KeepsOrPays, TypeOK
    <3> QED BY <1>5, <2>2, <3>1, <3>2 DEF Claim
  <2> QED BY <1>1, <2>1, <2>2
<1>6. ASSUME NEW s \in Requests, NEW op \in Operators, SetOperator(s, op)
      PROVE  KeepsOrPays(r)
  <2>1. request' = [request EXCEPT ![s].operator = op]
    BY <1>6 DEF SetOperator
  <2>2. CASE s = r
    <3>1. request'[r] = [request[r] EXCEPT !.operator = op]
      BY <1>0, <2>1, <2>2
    <3> QED BY <1>0, <3>1 DEF KeepsOrPays, RequestRecords, Closed
  <2>3. CASE s # r
    BY <1>0, <2>1, <2>3, Untouched
  <2> QED BY <2>2, <2>3
<1>7. CASE Instant \/ Manage \/ Outside \/ UNCHANGED vars
  BY <1>7, OthersKeepRequests, Untouched
<1> QED
  BY <1>2, <1>3, <1>4, <1>5, <1>6, <1>7
     DEF Next, Settle, CancelQueuedDepositRequest, CancelQueuedRedemptionRequest

\* Once approve_request has priced a request, its terms stand until its owner is
\* paid exactly the approved amount.
THEOREM ApprovalsAreFinal == Spec => ApprovalIsFinal
<1>1. TypeOK /\ [Next]_vars
        => [\A r \in Requests : IsState(r, "Claimable") => KeepsOrPays(r)]_vars
  BY ApprovalStep
<1> QED BY <1>1, TypeCorrect, PTL DEF Spec, ApprovalIsFinal

-----------------------------------------------------------------------------
(* A pause stops settlement *)

LEMMA PauseStep ==
  ASSUME TypeOK, [Next]_vars, paused, paused'
  PROVE  SettlesNothing
<1>0. reserve \in Nat /\ request \in [Requests -> RequestRecords \cup {Closed}]
  BY DEF TypeOK
<1>1. ASSUME NEW r \in Requests, RejectRequest(r) \/ SkipCanceledQueueRequest(r)
      PROVE  SettlesNothing
  <2>1. /\ total_asset_balance' = total_asset_balance /\ fee_balance' = fee_balance
        /\ reserve' = reserve /\ request' = [request EXCEPT ![r] = Closed]
        /\ ~IsState(r, "Claimable")
    BY <1>1 DEF RejectRequest, Unwind, SkipCanceledQueueRequest, IsState
  <2> QED BY <1>0, <2>1 DEF SettlesNothing, IsState, Closed
<1>2. ASSUME NEW r \in Requests, NEW op \in Operators, SetOperator(r, op)
      PROVE  SettlesNothing
  <2>1. request[r] \in RequestRecords
    BY <1>2, LiveRequest DEF SetOperator
  <2>2. /\ total_asset_balance' = total_asset_balance /\ fee_balance' = fee_balance
        /\ reserve' = reserve /\ request' = [request EXCEPT ![r].operator = op]
    BY <1>2 DEF SetOperator
  <2>3. \A s \in Requests : request'[s].request_state = request[s].request_state
    BY <1>0, <2>1, <2>2 DEF RequestRecords
  <2> QED BY <1>0, <2>2, <2>3 DEF SettlesNothing, IsState
<1>3. CASE Manage \/ Outside \/ UNCHANGED vars
  <2>1. total_asset_balance' = total_asset_balance /\ fee_balance' = fee_balance
    BY <1>3 DEF Manage, UpdateVaultNav, UpdateVault, ExecuteVaultUpdate, UpdateExtension,
                PauseVault, AddVaultAsset, RemoveVaultAsset, WithdrawAssets, Outside,
                ReturnAssets, Tick, vars
  <2>2. reserve' >= reserve
    <3>1. CASE \E amount \in Amounts : ReturnAssets(amount)
      BY <1>0, <3>1, ConstantsAssumption DEF ReturnAssets
    <3>2. CASE ~\E amount \in Amounts : ReturnAssets(amount)
      <4>1. reserve' = reserve
        BY <1>3, <3>2
           DEF Manage, UpdateVaultNav, UpdateVault, ExecuteVaultUpdate, UpdateExtension,
               PauseVault, AddVaultAsset, RemoveVaultAsset, WithdrawAssets, Outside, Tick,
               vars
      <4> QED BY <1>0, <4>1
    <3> QED BY <3>1, <3>2
  <2> QED BY <1>3, <2>1, <2>2, OthersKeepRequests DEF SettlesNothing, IsState
<1>4. /\ ~Create /\ ~Instant
      /\ \A r \in Requests :
           /\ ~ApproveDeposit(r) /\ ~ApproveRedeem(r) /\ ~CancelRequest(r)
           /\ ~CancelQueuedDepositRequest(r) /\ ~CancelQueuedRedemptionRequest(r)
           /\ \A signer \in Users : ~Claim(r, signer)
  BY DEF Create, CreateDepositRequest, CreateRedeemRequest, Instant, InstantDeposit,
         InstantRedeem, InstantAllowed, ApproveDeposit, ApproveRedeem, CanApprove,
         CancelRequest, CancelQueuedDepositRequest, CancelQueuedRedemptionRequest,
         CancelQueued, Claim
<1> QED BY <1>1, <1>2, <1>3, <1>4 DEF Next, Settle

\* While the vault stays paused no instruction prices, charges or pays anything.
THEOREM PauseIsRespected == Spec => PauseStopsSettlement
<1>1. TypeOK /\ [Next]_vars => [paused /\ paused' => SettlesNothing]_vars
  BY PauseStep
<1> QED BY <1>1, TypeCorrect, PTL DEF Spec, PauseStopsSettlement

-----------------------------------------------------------------------------
(* Redemptions are metered *)

\* What consume_rolling_limit leaves in the window when it lets an amount pass.
LEMMA ConsumedWindow ==
  ASSUME NEW w \in Windows, NEW amount \in Nat, NEW now \in Nat, NEW limit \in Nat,
         NEW length \in Nat, limit > 0, RollingLimitAllows(w, amount, now, limit, length),
         NEW v, v = ConsumeRollingLimit(w, amount, now, limit, length)
  PROVE  /\ v.amount <= limit
         /\ v.amount = amount + IF v.start = w.start THEN w.amount ELSE 0
<1>1. w.start \in Nat /\ w.amount \in Nat
  BY DEF Windows
<1>2. length > 0 /\ CurrentWindow(w, now, length).amount + amount <= limit
  BY DEF RollingLimitAllows
<1>3. /\ v.start = CurrentWindow(w, now, length).start
      /\ v.amount = CurrentWindow(w, now, length).amount + amount
  BY DEF ConsumeRollingLimit, CurrentWindow, Windows
<1>4. CASE WindowExpired(w, now, length)
  <2>1. v.start = now /\ v.amount = amount /\ amount <= limit
    BY <1>2, <1>3, <1>4 DEF CurrentWindow
  <2>2. v.start = w.start => w.amount = 0
    BY <1>1, <1>2, <1>4, <2>1 DEF WindowExpired
  <2> QED BY <2>1, <2>2
<1>5. CASE ~WindowExpired(w, now, length)
  <2>1. v.start = w.start /\ v.amount = w.amount + amount /\ w.amount + amount <= limit
    BY <1>2, <1>3, <1>5 DEF CurrentWindow
  <2> QED BY <1>1, <2>1
<1> QED BY <1>4, <1>5

LEMMA MeterStep ==
  ASSUME TypeOK, [Next]_vars
  PROVE  MetersRedemption
<1>0. /\ config.redemption_rolling_limit \in Nat /\ config.rolling_limit_window_slots \in Nat
      /\ redemption_window \in Windows /\ slot \in Nat /\ total_asset_balance \in Nat
      /\ nav \in Nat
  BY ConfigType DEF TypeOK
<1>1. ASSUME NEW out \in Nat, total_asset_balance' = total_asset_balance - out,
             RollingLimitAllows(redemption_window, out, slot,
               config.redemption_rolling_limit, config.rolling_limit_window_slots),
             redemption_window' = ConsumeRollingLimit(redemption_window, out, slot,
               config.redemption_rolling_limit, config.rolling_limit_window_slots)
      PROVE  MetersRedemption
  <2>1. total_asset_balance - total_asset_balance' = out
    BY <1>0, <1>1
  <2>2. config.redemption_rolling_limit > 0 =>
          /\ redemption_window'.amount <= config.redemption_rolling_limit
          /\ redemption_window'.amount =
               out + IF redemption_window'.start = redemption_window.start
                       THEN redemption_window.amount ELSE 0
    BY <1>0, <1>1, ConsumedWindow
  <2> QED BY <2>1, <2>2 DEF MetersRedemption
<1>2. ASSUME NEW in \in Nat, total_asset_balance' = total_asset_balance + in
      PROVE  MetersRedemption
  <2>1. ~(total_asset_balance - total_asset_balance' > 0)
    BY <1>0, <1>2
  <2> QED BY <2>1 DEF MetersRedemption
<1>3. ASSUME NEW r \in Requests, ApproveRedeem(r)
      PROVE  MetersRedemption
  <2> DEFINE assets == CalculateAssets(nav, PRECISION, request[r].amount)
  <2>1. assets \in Nat
    BY <1>0, <1>3, LiveRequest, CalculateNat DEF ApproveRedeem, CanApprove, IsState
  <2>2. /\ total_asset_balance' = total_asset_balance - assets
        /\ RollingLimitAllows(redemption_window, assets, slot,
             config.redemption_rolling_limit, config.rolling_limit_window_slots)
        /\ redemption_window' = ConsumeRollingLimit(redemption_window, assets, slot,
             config.redemption_rolling_limit, config.rolling_limit_window_slots)
    BY <1>3 DEF ApproveRedeem, RedeemOutcome
  <2> HIDE DEF assets
  <2> QED BY <1>1, <2>1, <2>2
<1>4. ASSUME NEW u \in Users, NEW shares \in Amounts, InstantRedeem(u, shares)
      PROVE  MetersRedemption
  <2> DEFINE gross == CalculateAssets(nav, PRECISION, shares)
  <2>1. gross \in Nat
    BY <1>0, CalculateNat, ConstantsAssumption
  <2>2. /\ total_asset_balance' = total_asset_balance - gross
        /\ RollingLimitAllows(redemption_window, gross, slot,
             config.redemption_rolling_limit, config.rolling_limit_window_slots)
        /\ redemption_window' = ConsumeRollingLimit(redemption_window, gross, slot,
             config.redemption_rolling_limit, config.rolling_limit_window_slots)
    BY <1>4 DEF InstantRedeem
  <2> HIDE DEF gross
  <2> QED BY <1>1, <2>1, <2>2
<1>5. ASSUME NEW r \in Requests, ApproveDeposit(r)
      PROVE  MetersRedemption
  <2> DEFINE net == request[r].amount - DepositFee(request[r].amount)
  <2>1. net \in Nat
    BY <1>5, LiveRequest, FeesNat DEF ApproveDeposit, CanApprove, IsState
  <2>2. total_asset_balance' = total_asset_balance + net
    BY <1>5 DEF ApproveDeposit, DepositOutcome
  <2> HIDE DEF net
  <2> QED BY <1>0, <1>2, <2>1, <2>2
<1>6. ASSUME NEW u \in Users, NEW amount \in Amounts, InstantDeposit(u, amount)
      PROVE  MetersRedemption
  <2> DEFINE net == amount - DepositFee(amount)
  <2>1. net \in Nat
    BY <1>6, FeesNat, ConstantsAssumption DEF InstantDeposit
  <2>2. total_asset_balance' = total_asset_balance + net
    BY <1>6 DEF InstantDeposit
  <2> HIDE DEF net
  <2> QED BY <1>0, <1>2, <2>1, <2>2
<1>7. CASE Manage \/ Outside \/ UNCHANGED vars \/ Create
  <2>1. total_asset_balance' = total_asset_balance
    BY <1>7
       DEF Manage, UpdateVaultNav, UpdateVault, ExecuteVaultUpdate, UpdateExtension,
           PauseVault, AddVaultAsset, RemoveVaultAsset, WithdrawAssets, Outside,
           ReturnAssets, Tick, vars, Create, CreateDepositRequest, CreateRedeemRequest
  <2>2. total_asset_balance' = total_asset_balance + 0
    BY <1>0, <2>1
  <2> QED BY <1>2, <2>2
<1>8. ASSUME NEW r \in Requests,
             \/ RejectRequest(r) \/ CancelRequest(r) \/ CancelQueued(r)
             \/ SkipCanceledQueueRequest(r)
             \/ \E signer \in Users : Claim(r, signer)
             \/ \E op \in Operators : SetOperator(r, op)
      PROVE  MetersRedemption
  <2>1. total_asset_balance' = total_asset_balance
    BY <1>8
       DEF RejectRequest, CancelRequest, CancelQueued, Unwind, SkipCanceledQueueRequest,
           Claim, SetOperator
  <2>2. total_asset_balance' = total_asset_balance + 0
    BY <1>0, <2>1
  <2> QED BY <1>2, <2>2
<1> QED
  BY <1>3, <1>4, <1>5, <1>6, <1>7, <1>8
     DEF Next, Settle, Instant, CancelQueuedDepositRequest, CancelQueuedRedemptionRequest

\* No redemption, approved or instant, leaves the virtual balance without being
\* charged to the redemption window and fitting under its limit.
THEOREM RedemptionsAreMetered == Spec => RedemptionsMetered
<1>1. TypeOK /\ [Next]_vars => [MetersRedemption]_vars
  BY MeterStep
<1> QED BY <1>1, TypeCorrect, PTL DEF Spec, RedemptionsMetered

-----------------------------------------------------------------------------
(* The deposit cap *)

\* The configuration does not tighten its cap: it keeps, raises or drops it.
CapNotTightened ==
  \/ config'.deposit_cap = 0
  \/ config.deposit_cap > 0 /\ config'.deposit_cap >= config.deposit_cap

LEMMA CapStep ==
  ASSUME TypeOK, TypeOK', CapRespected, [Next]_vars, CapNotTightened \/ UNCHANGED vars
  PROVE  CapRespected'
<1> DEFINE total == total_asset_balance
           pending == pending_deposit_amount[Primary]
           cap == config.deposit_cap
<1>0. /\ Primary \in Assets /\ total \in Nat /\ pending \in Nat /\ cap \in Nat
      /\ total' \in Nat /\ pending' \in Nat /\ cap' \in Nat
      /\ pending_deposit_amount \in [Assets -> Nat]
  BY ConfigType DEF TypeOK, Assets
<1>1. ASSUME NEW less \in Nat, total' + pending' + less = total + pending
      PROVE  CapRespected'
  <2>1. CASE UNCHANGED vars
    BY <2>1 DEF vars, configVars, escrowVars, CapRespected
  <2>2. CASE CapNotTightened
    BY <1>0, <1>1, <2>2 DEF CapNotTightened, CapRespected
  <2> QED BY <2>1, <2>2
<1>2. ASSUME NEW amount \in Nat, NEW fee \in Nat, VaultCapAllows(amount),
             total' + pending' + fee = total + pending + amount,
             config' = config
      PROVE  CapRespected'
  BY <1>0, <1>2 DEF VaultCapAllows, CapRespected
<1>3. ASSUME NEW r \in Requests, NEW u \in Users, NEW asset \in Assets,
             NEW amount \in Amounts, NEW op \in Operators \cup {NoOperator},
             CreateDepositRequest(r, u, asset, amount, op)
      PROVE  CapRespected'
  <2>1. /\ amount \in Nat /\ total' = total /\ config' = config
        /\ pending_deposit_amount' = [pending_deposit_amount EXCEPT ![asset] = @ + amount]
    BY <1>3, ConstantsAssumption DEF CreateDepositRequest, configVars
  <2>2. CASE asset = Primary
    <3>1. VaultCapAllows(amount)
      BY <1>3, <2>2 DEF CreateDepositRequest, DepositCapAllows
    <3>2. total' + pending' + 0 = total + pending + amount
      BY <1>0, <2>1, <2>2
    <3> QED BY <1>2, <2>1, <3>1, <3>2
  <2>3. CASE asset # Primary
    <3>1. total' + pending' + 0 = total + pending
      BY <1>0, <2>1, <2>3
    <3> QED BY <1>1, <3>1
  <2> QED BY <2>2, <2>3
<1>4. ASSUME NEW r \in Requests, ApproveDeposit(r)
      PROVE  CapRespected'
  <2> DEFINE amount == request[r].amount
             fee == DepositFee(amount)
  <2>1. amount \in Nat /\ fee \in Nat
    BY <1>4, LiveRequest, FeesNat DEF ApproveDeposit, CanApprove, IsState
  <2>2. /\ total' = total + (amount - fee)
        /\ pending_deposit_amount' = [pending_deposit_amount EXCEPT ![Primary] = @ - amount]
    BY <1>4 DEF ApproveDeposit, DepositOutcome
  <2> HIDE DEF amount, fee
  <2>3. total' + pending' + fee = total + pending
    BY <1>0, <2>1, <2>2
  <2> QED BY <1>1, <2>1, <2>3
<1>5. ASSUME NEW r \in Requests, ApproveRedeem(r)
      PROVE  CapRespected'
  <2> DEFINE assets == CalculateAssets(nav, PRECISION, request[r].amount)
  <2>1. assets \in Nat
    BY <1>5, LiveRequest, CalculateNat DEF ApproveRedeem, CanApprove, IsState, TypeOK
  <2>2. total' = total - assets /\ pending_deposit_amount' = pending_deposit_amount
    BY <1>5 DEF ApproveRedeem, RedeemOutcome
  <2> HIDE DEF assets
  <2>3. total' + pending' + assets = total + pending
    BY <1>0, <2>1, <2>2
  <2> QED BY <1>1, <2>1, <2>3
<1>6. ASSUME NEW r \in Requests, RejectRequest(r) \/ CancelRequest(r) \/ CancelQueued(r)
      PROVE  CapRespected'
  <2>1. Unwind(r) /\ ~IsState(r, "Closed")
    BY <1>6 DEF RejectRequest, CancelRequest, CancelQueued, IsState
  <2> DEFINE asset == request[r].asset_mint
             amount == request[r].amount
  <2>2. amount \in Nat /\ asset \in Assets
    BY <2>1, LiveRequest
  <2>3. /\ total' = total
        /\ \/ pending_deposit_amount' = pending_deposit_amount
           \/ pending_deposit_amount' = [pending_deposit_amount EXCEPT ![asset] = @ - amount]
    BY <2>1 DEF Unwind, RefundDeposit, RefundRedeem, escrowVars
  <2> HIDE DEF amount, asset
  <2>4. total' + pending' + 0 = total + pending \/ total' + pending' + amount = total + pending
    BY <1>0, <2>2, <2>3
  <2> QED BY <1>1, <2>2, <2>4
<1>7. ASSUME NEW u \in Users, NEW amount \in Amounts, InstantDeposit(u, amount)
      PROVE  CapRespected'
  <2> DEFINE fee == DepositFee(amount)
  <2>1. amount \in Nat /\ fee \in Nat
    BY FeesNat, ConstantsAssumption
  <2>2. /\ total' = total + (amount - fee) /\ VaultCapAllows(amount)
        /\ config' = config /\ pending_deposit_amount' = pending_deposit_amount
    BY <1>7 DEF InstantDeposit, configVars, escrowVars
  <2> HIDE DEF fee
  <2>3. total' + pending' + fee = total + pending + amount
    BY <1>0, <2>1, <2>2
  <2> QED BY <1>2, <2>1, <2>2, <2>3
<1>8. ASSUME NEW u \in Users, NEW shares \in Amounts, InstantRedeem(u, shares)
      PROVE  CapRespected'
  <2> DEFINE gross == CalculateAssets(nav, PRECISION, shares)
  <2>1. gross \in Nat
    BY CalculateNat, ConstantsAssumption DEF TypeOK
  <2>2. total' = total - gross /\ pending_deposit_amount' = pending_deposit_amount
    BY <1>8 DEF InstantRedeem, escrowVars
  <2> HIDE DEF gross
  <2>3. total' + pending' + gross = total + pending
    BY <1>0, <2>1, <2>2
  <2> QED BY <1>1, <2>1, <2>3
<1>9. CASE \/ Manage \/ Outside \/ UNCHANGED vars
           \/ \E r \in Requests, u \in Users, asset \in Assets, amount \in Amounts,
                op \in Operators \cup {NoOperator} : CreateRedeemRequest(r, u, asset, amount, op)
           \/ \E r \in Requests : \/ SkipCanceledQueueRequest(r)
                                  \/ \E signer \in Users : Claim(r, signer)
                                  \/ \E op \in Operators : SetOperator(r, op)
  <2>1. total' = total /\ pending_deposit_amount' = pending_deposit_amount
    BY <1>9
       DEF Manage, UpdateVaultNav, UpdateVault, ExecuteVaultUpdate, UpdateExtension,
           PauseVault, AddVaultAsset, RemoveVaultAsset, WithdrawAssets, Outside,
           ReturnAssets, Tick, vars, CreateRedeemRequest, SkipCanceledQueueRequest, Claim,
           SetOperator, escrowVars
  <2>2. total' + pending' + 0 = total + pending
    BY <1>0, <2>1
  <2> QED BY <1>1, <2>2
<1> QED
  BY <1>3, <1>4, <1>5, <1>6, <1>7, <1>8, <1>9
     DEF Next, Create, Settle, Instant, CancelQueuedDepositRequest,
         CancelQueuedRedemptionRequest

\* As long as the curator does not tighten the cap, confirmed and pending
\* deposits together stay under it: assert_deposit_cap_allows counts what is
\* still in escrow, so requests cannot be created past the cap and then approved.
THEOREM CapIsRespected == Spec /\ [][CapNotTightened]_vars => []CapRespected
<1>1. Init => CapRespected
  <2> SUFFICES ASSUME Init PROVE CapRespected
    OBVIOUS
  <2>1. config.deposit_cap \in Nat
    BY ConfigType DEF Init
  <2> QED BY <2>1 DEF Init, CapRespected, Assets
<1>2. TypeOK /\ TypeOK' /\ CapRespected /\ [Next]_vars /\ [CapNotTightened]_vars
        => CapRespected'
  BY CapStep
<1> QED BY <1>1, <1>2, TypeCorrect, PTL DEF Spec

-----------------------------------------------------------------------------
(* Assets with deposits in escrow stay approved *)

\* A pending deposit weighs something, so that an asset with one has a positive
\* pending_deposit_amount and remove_vault_asset refuses it.
PendingDepositsWeigh ==
  \A r \in PendingRequests : IsType(r, "Deposit") => request[r].amount > 0

LEMMA WeighsSomething ==
  ASSUME TypeOK, NEW asset, NEW r \in PendingDeposits(asset), request[r].amount > 0
  PROVE  TotalAmount(PendingDeposits(asset)) > 0
<1> DEFINE S == PendingDeposits(asset)
           a == [s \in S |-> request[s].amount]
<1>1. IsFiniteSet(S) /\ \A s \in S : a[s] \in Nat
  <2>1. S \subseteq Requests /\ \A s \in S : ~IsState(s, "Closed")
    BY DEF PendingDeposits, PendingRequests, IsState
  <2>2. IsFiniteSet(S)
    BY <2>1, FS_Subset, ConstantsAssumption
  <2> QED BY <2>1, <2>2, LiveRequest
<1>2. TotalAmount(S) = Cardinality(Units(a, S))
  BY DEF TotalAmount, AmountOf
<1>3. r \in S /\ a[r] \in Nat /\ a[r] > 0
  BY <1>1
<1> HIDE DEF S, a
<1>4. IsFiniteSet(Units(a, S)) /\ Cardinality(Units(a, S)) \in Nat
  BY <1>1, UnitsFinite
<1>5. Units(a, S) # {}
  <2>1. <<r, 1>> \in {r} \X (1 .. a[r])
    BY <1>3
  <2> QED BY <1>3, <2>1 DEF Units
<1>6. Cardinality(Units(a, S)) # 0
  BY <1>4, <1>5, FS_EmptySet
<1> QED BY <1>2, <1>4, <1>6 DEF S

LEMMA ApprovedStep ==
  ASSUME TypeOK, TypeOK', PendingDepositsExact, PendingAssetsApproved, PendingDepositsWeigh,
         [Next]_vars
  PROVE  PendingAssetsApproved' /\ PendingDepositsWeigh'
<1> DEFINE Good(r) == IsState(r, "Pending") /\ request[r].request_type = "Deposit"
                        => /\ IsApproved(request[r].asset_mint)
                           /\ request[r].amount > 0
<1>0. /\ request \in [Requests -> RequestRecords \cup {Closed}]
      /\ vault_asset \in [SecondaryAssets -> Nat \cup {NotApproved}]
      /\ \A r \in Requests : Good(r)
  BY DEF TypeOK, PendingAssetsApproved, PendingDepositsWeigh, PendingRequests, IsType, IsState
<1>1. (\A r \in Requests : Good(r)') => PendingAssetsApproved' /\ PendingDepositsWeigh'
  BY DEF PendingAssetsApproved, PendingDepositsWeigh, PendingRequests, IsType, IsState,
         IsApproved
<1>2. ASSUME vault_asset' = vault_asset, NEW s \in Requests,
             \A r \in Requests \ {s} : request'[r] = request[r],
             Good(s)'
      PROVE  \A r \in Requests : Good(r)'
  BY <1>0, <1>2 DEF IsState, IsApproved
<1>3. ASSUME NEW s \in Requests, NEW u \in Users, NEW asset \in Assets,
             NEW amount \in Amounts, NEW op \in Operators \cup {NoOperator},
             CreateDepositRequest(s, u, asset, amount, op)
      PROVE  \A r \in Requests : Good(r)'
  <2>1. /\ IsApproved(asset) /\ vault_asset' = vault_asset
        /\ amount \in Nat /\ amount > 0
        /\ request' = [request EXCEPT ![s] = NewRequest("Deposit", u, asset, amount, op)]
    <3>1. amount \in Nat /\ DepositFee(amount) \in Nat
      BY FeesNat, ConstantsAssumption
    <3>2. amount > DepositFee(amount)
      BY <1>3 DEF CreateDepositRequest
    <3>3. amount > 0
      BY <3>1, <3>2
    <3> QED
      BY <1>3, <3>1, <3>3 DEF CreateDepositRequest, DepositCapAllows, OpenRequest, assetVars
  <2>2. Good(s)'
    BY <1>0, <2>1 DEF NewRequest, IsApproved
  <2>3. \A r \in Requests \ {s} : request'[r] = request[r]
    BY <1>0, <2>1
  <2> QED BY <1>2, <2>1, <2>2, <2>3
<1>4. ASSUME NEW s \in Requests, NEW u \in Users, NEW asset \in Assets,
             NEW amount \in Amounts, NEW op \in Operators \cup {NoOperator},
             CreateRedeemRequest(s, u, asset, amount, op)
      PROVE  \A r \in Requests : Good(r)'
  <2>1. /\ vault_asset' = vault_asset
        /\ request' = [request EXCEPT ![s] = NewRequest("Redeem", u, asset, amount, op)]
    BY <1>4 DEF CreateRedeemRequest, OpenRequest, assetVars
  <2>2. Good(s)'
    BY <1>0, <2>1 DEF NewRequest
  <2>3. \A r \in Requests \ {s} : request'[r] = request[r]
    BY <1>0, <2>1
  <2> QED BY <1>2, <2>1, <2>2, <2>3
<1>5. ASSUME NEW s \in Requests, ApproveDeposit(s) \/ ApproveRedeem(s)
      PROVE  \A r \in Requests : Good(r)'
  <2>1. PICK claimable : request' = [request EXCEPT ![s].amount = claimable, ![s].price = nav,
                                                    ![s].request_state = "Claimable"]
    BY <1>5 DEF ApproveDeposit, ApproveRedeem, MarkClaimable
  <2>2. vault_asset' = vault_asset /\ IsState(s, "Pending")
    BY <1>5 DEF ApproveDeposit, ApproveRedeem, CanApprove, assetVars
  <2>3. request[s] \in RequestRecords
    BY <2>2, LiveRequest DEF IsState
  <2>4. Good(s)'
    BY <1>0, <2>1, <2>3 DEF RequestRecords, IsState
  <2>5. \A r \in Requests \ {s} : request'[r] = request[r]
    BY <1>0, <2>1
  <2> QED BY <1>2, <2>2, <2>4, <2>5
<1>6. ASSUME NEW s \in Requests,
             \/ RejectRequest(s) \/ CancelRequest(s) \/ SkipCanceledQueueRequest(s)
             \/ \E signer \in Users : Claim(s, signer)
      PROVE  \A r \in Requests : Good(r)'
  <2>1. vault_asset' = vault_asset /\ request' = [request EXCEPT ![s] = Closed]
    BY <1>6 DEF RejectRequest, CancelRequest, Unwind, SkipCanceledQueueRequest, Claim, assetVars
  <2>2. Good(s)' /\ \A r \in Requests \ {s} : request'[r] = request[r]
    BY <1>0, <2>1 DEF IsState, Closed
  <2> QED BY <1>2, <2>1, <2>2
<1>7. ASSUME NEW s \in Requests, CancelQueued(s)
      PROVE  \A r \in Requests : Good(r)'
  <2>1. /\ vault_asset' = vault_asset /\ request' = [request EXCEPT ![s] = Tombstone(@)]
        /\ request[s] \in RequestRecords
    BY <1>7, LiveRequest DEF CancelQueued, Unwind, assetVars, IsState
  <2>2. Good(s)' /\ \A r \in Requests \ {s} : request'[r] = request[r]
    BY <1>0, <2>1 DEF IsState, Tombstone, RequestRecords
  <2> QED BY <1>2, <2>1, <2>2
<1>8. ASSUME NEW s \in Requests, NEW op \in Operators, SetOperator(s, op)
      PROVE  \A r \in Requests : Good(r)'
  <2>1. /\ vault_asset' = vault_asset /\ request' = [request EXCEPT ![s].operator = op]
        /\ request[s] \in RequestRecords
    BY <1>8, LiveRequest DEF SetOperator, assetVars
  <2>2. /\ request'[s].request_state = request[s].request_state
        /\ request'[s].request_type = request[s].request_type
        /\ request'[s].asset_mint = request[s].asset_mint
        /\ request'[s].amount = request[s].amount
        /\ \A r \in Requests \ {s} : request'[r] = request[r]
    BY <1>0, <2>1 DEF RequestRecords
  <2>3. Good(s)'
    BY <1>0, <2>1, <2>2 DEF IsState, IsApproved
  <2> QED BY <1>2, <2>1, <2>2, <2>3
<1>9. CASE Instant \/ Manage \/ Outside \/ UNCHANGED vars
  <2>1. request' = request
    BY <1>9, OthersKeepRequests
  <2>2. ASSUME NEW asset \in SecondaryAssets, NEW cap \in Amounts, AddVaultAsset(asset, cap)
        PROVE  \A r \in Requests : Good(r)'
    <3>1. vault_asset' = [vault_asset EXCEPT ![asset] = cap] /\ cap \in Nat
      BY <2>2, ConstantsAssumption DEF AddVaultAsset
    <3>2. \A a \in Assets : IsApproved(a) => IsApproved(a)'
      BY <1>0, <3>1 DEF IsApproved, Assets, NotApproved
    <3> QED BY <1>0, <2>1, <3>2, LiveRequest DEF IsState
  <2>3. ASSUME NEW asset \in SecondaryAssets, RemoveVaultAsset(asset)
        PROVE  \A r \in Requests : Good(r)'
    <3>1. vault_asset' = [vault_asset EXCEPT ![asset] = NotApproved]
          /\ pending_deposit_amount[asset] = 0 /\ asset \in Assets
      BY <2>3 DEF RemoveVaultAsset, Assets
    <3>2. \A r \in Requests :
            IsState(r, "Pending") /\ request[r].request_type = "Deposit"
              => request[r].asset_mint # asset
      <4> SUFFICES ASSUME NEW r \in Requests, IsState(r, "Pending"),
                          request[r].request_type = "Deposit", request[r].asset_mint = asset
                   PROVE  FALSE
        OBVIOUS
      <4>1. r \in PendingDeposits(asset) /\ request[r].amount > 0
        BY <1>0 DEF PendingDeposits, PendingRequests, IsType, IsState
      <4>2. TotalAmount(PendingDeposits(asset)) > 0
        BY <4>1, WeighsSomething
      <4> QED BY <3>1, <4>2 DEF PendingDepositsExact
    <3>3. \A a \in Assets : a # asset /\ IsApproved(a) => IsApproved(a)'
      BY <1>0, <3>1 DEF IsApproved, Assets
    <3> QED BY <1>0, <2>1, <3>2, <3>3, LiveRequest DEF IsState
  <2>4. CASE /\ ~\E asset \in SecondaryAssets, cap \in Amounts : AddVaultAsset(asset, cap)
             /\ ~\E asset \in SecondaryAssets : RemoveVaultAsset(asset)
    <3>1. vault_asset' = vault_asset
      BY <1>9, <2>4
         DEF Instant, InstantDeposit, InstantRedeem, Manage, UpdateVaultNav, UpdateVault,
             ExecuteVaultUpdate, UpdateExtension, PauseVault, WithdrawAssets, Outside,
             ReturnAssets, Tick, vars, assetVars
    <3> QED BY <1>0, <1>1, <2>1, <3>1 DEF IsState, IsApproved
  <2> QED BY <1>1, <2>2, <2>3, <2>4
<1> QED
  BY <1>1, <1>3, <1>4, <1>5, <1>6, <1>7, <1>8, <1>9
     DEF Next, Create, Settle, CancelQueuedDepositRequest, CancelQueuedRedemptionRequest

\* remove_vault_asset never strands a deposit: an asset that a pending deposit
\* was made in keeps its VaultAsset account, which a refund needs.
THEOREM PendingAssetsStayApproved == Spec => []PendingAssetsApproved
<1>1. Init => PendingAssetsApproved /\ PendingDepositsWeigh
  BY DEF Init, PendingAssetsApproved, PendingDepositsWeigh, PendingRequests, IsState, Closed
<1>2. TypeOK /\ TypeOK' /\ PendingDepositsExact /\ PendingAssetsApproved
      /\ PendingDepositsWeigh /\ [Next]_vars
        => PendingAssetsApproved' /\ PendingDepositsWeigh'
  BY ApprovedStep
<1> QED BY <1>1, <1>2, TypeCorrect, PendingDepositsAreExact, PTL DEF Spec

-----------------------------------------------------------------------------
(* No round trip creates value at a constant net asset value *)

\* What request r weighs in AssetsOf(u) and in SharesOf(u).
AssetWeight(r, u) ==
  IF r \in InEscrow(Primary) /\ request[r].owner = u THEN request[r].amount ELSE 0
ShareWeight(r, u) == IF r \in ClaimsOnShares(u) THEN request[r].amount ELSE 0

\* The value of what a user has, in units of 1/PRECISION of an asset.
Value(u, n) == PRECISION * AssetsOf(u) + n * SharesOf(u)

LEMMA AssetsOfStep ==
  ASSUME TypeOK, TypeOK', NEW r \in Requests, TouchesOnly(r), NEW u \in Users
  PROVE  /\ AssetsOf(u) \in Nat /\ AssetsOf(u)' \in Nat
         /\ AssetsOf(u)' = AssetsOf(u) + (wallet'[u][Primary] - wallet[u][Primary])
                              - AssetWeight(r, u) + AssetWeight(r, u)'
<1> DEFINE S == {s \in InEscrow(Primary) : request[s].owner = u}
           T == {s \in InEscrow(Primary)' : request'[s].owner = u}
<1> USE DEF InEscrow, ClaimableRedeems, PendingDeposits, PendingRequests
<1>1. IsFiniteSet(S) /\ IsFiniteSet(T)
  <2>1. S \subseteq Requests /\ T \subseteq Requests
    OBVIOUS
  <2> QED BY <2>1, FS_Subset, ConstantsAssumption
<1>2. S \ {r} = T \ {r}
  BY DEF IsState, IsType, TouchesOnly
<1>3. \A s \in S : request[s].amount \in Nat
  BY LiveAmounts DEF IsState
<1>4. \A s \in T : request'[s].amount \in Nat
  BY LiveAmountsAfter DEF IsState
<1>5. \A s \in S \ {r} : request'[s].amount = request[s].amount
  BY DEF TouchesOnly
<1> HIDE DEF InEscrow, ClaimableRedeems, PendingDeposits, PendingRequests
<1>6. /\ AssetsOf(u) = wallet[u][Primary] + AmountOf(request, S)
      /\ AssetsOf(u)' = wallet'[u][Primary] + AmountOf(request', T)
  BY DEF AssetsOf, TotalAmount
<1>7. /\ AssetWeight(r, u) = IF r \in S THEN request[r].amount ELSE 0
      /\ AssetWeight(r, u)' = IF r \in T THEN request'[r].amount ELSE 0
  BY DEF AssetWeight
<1>8. wallet[u][Primary] \in Nat /\ wallet'[u][Primary] \in Nat
  BY DEF TypeOK, Assets
<1> DEFINE old == request
           new == request'
           x == AssetWeight(r, u)
           y == AssetWeight(r, u)'
<1> HIDE DEF S, T, old, new, x, y
<1>9. /\ AmountOf(new, T) = AmountOf(old, S) - x + y
      /\ AmountOf(new, T) \in Nat /\ AmountOf(old, S) \in Nat /\ x \in Nat /\ y \in Nat
  <2>1. /\ \A s \in S : old[s].amount \in Nat
        /\ \A s \in T : new[s].amount \in Nat
        /\ \A s \in S \ {r} : new[s].amount = old[s].amount
        /\ x = IF r \in S THEN old[r].amount ELSE 0
        /\ y = IF r \in T THEN new[r].amount ELSE 0
    BY <1>3, <1>4, <1>5, <1>7 DEF old, new, x, y
  <2>2. x \in Nat /\ y \in Nat
    BY <2>1
  <2> QED BY <1>1, <1>2, <2>1, <2>2, AmountReplaced, AmountNat
<1> QED BY <1>6, <1>8, <1>9 DEF old, new, x, y

LEMMA SharesOfStep ==
  ASSUME TypeOK, TypeOK', NEW r \in Requests, TouchesOnly(r), NEW u \in Users
  PROVE  /\ SharesOf(u) \in Nat /\ SharesOf(u)' \in Nat
         /\ SharesOf(u)' = SharesOf(u) + (share_balance'[u] - share_balance[u])
                              - ShareWeight(r, u) + ShareWeight(r, u)'
<1> DEFINE S == ClaimsOnShares(u)
           T == ClaimsOnShares(u)'
<1> USE DEF ClaimsOnShares
<1>1. IsFiniteSet(S) /\ IsFiniteSet(T)
  <2>1. S \subseteq Requests /\ T \subseteq Requests
    OBVIOUS
  <2> QED BY <2>1, FS_Subset, ConstantsAssumption
<1>2. S \ {r} = T \ {r}
  BY DEF IsState, IsType, TouchesOnly
<1>3. \A s \in S : request[s].amount \in Nat
  BY LiveAmounts DEF IsState
<1>4. \A s \in T : request'[s].amount \in Nat
  BY LiveAmountsAfter DEF IsState
<1>5. \A s \in S \ {r} : request'[s].amount = request[s].amount
  BY DEF TouchesOnly
<1> HIDE DEF ClaimsOnShares
<1>6. /\ SharesOf(u) = share_balance[u] + AmountOf(request, S)
      /\ SharesOf(u)' = share_balance'[u] + AmountOf(request', T)
  BY DEF SharesOf, TotalAmount
<1>7. /\ ShareWeight(r, u) = IF r \in S THEN request[r].amount ELSE 0
      /\ ShareWeight(r, u)' = IF r \in T THEN request'[r].amount ELSE 0
  BY DEF ShareWeight
<1>8. share_balance[u] \in Nat /\ share_balance'[u] \in Nat
  BY DEF TypeOK
<1> DEFINE old == request
           new == request'
           x == ShareWeight(r, u)
           y == ShareWeight(r, u)'
<1> HIDE DEF S, T, old, new, x, y
<1>9. /\ AmountOf(new, T) = AmountOf(old, S) - x + y
      /\ AmountOf(new, T) \in Nat /\ AmountOf(old, S) \in Nat /\ x \in Nat /\ y \in Nat
  <2>1. /\ \A s \in S : old[s].amount \in Nat
        /\ \A s \in T : new[s].amount \in Nat
        /\ \A s \in S \ {r} : new[s].amount = old[s].amount
        /\ x = IF r \in S THEN old[r].amount ELSE 0
        /\ y = IF r \in T THEN new[r].amount ELSE 0
    BY <1>3, <1>4, <1>5, <1>7 DEF old, new, x, y
  <2>2. x \in Nat /\ y \in Nat
    BY <2>1
  <2> QED BY <1>1, <1>2, <2>1, <2>2, AmountReplaced, AmountNat
<1> QED BY <1>6, <1>8, <1>9 DEF old, new, x, y

\* The conversions round in the vault's favour.
LEMMA ConversionsRoundDown ==
  ASSUME NEW n \in Nat, NEW amount \in Nat
  PROVE  /\ PRECISION * CalculateAssets(n, PRECISION, amount) <= n * amount
         /\ n > 0 => n * CalculateShares(n, PRECISION, amount) <= PRECISION * amount
<1>1. ASSUME NEW a \in Nat, NEW b \in Nat \ {0} PROVE b * (a \div b) <= a
  BY <1>1, SMT
<1>2. amount * n \in Nat /\ amount * PRECISION \in Nat
  BY MulNat, ConstantsAssumption
<1>3. PRECISION * ((amount * n) \div PRECISION) <= amount * n
  BY <1>1, <1>2, ConstantsAssumption
<1>4. n > 0 => n * ((amount * PRECISION) \div n) <= amount * PRECISION
  BY <1>1, <1>2
<1>5. amount * n = n * amount /\ amount * PRECISION = PRECISION * amount
  BY ConstantsAssumption, SMT
<1> QED BY <1>3, <1>4, <1>5 DEF CalculateAssets, CalculateShares

\* Assets that come in and shares that go out, or the other way round.
LEMMA Traded ==
  ASSUME NEW p \in Nat, NEW n \in Nat, NEW a \in Int, NEW s \in Int,
         NEW da \in Int, NEW ds \in Int, p * da + n * ds <= 0
  PROVE  p * (a + da) + n * (s + ds) <= p * a + n * s
<1>1. p * (a + da) = p * a + p * da /\ n * (s + ds) = n * s + n * ds
  BY SMT
<1>2. p * a \in Int /\ n * s \in Int /\ p * da \in Int /\ n * ds \in Int
  BY SMT
<1> QED BY <1>1, <1>2

\* What a step on request r adds to a user's assets and shares.
AssetsGained(r, u) ==
  (wallet'[u][Primary] - wallet[u][Primary]) - AssetWeight(r, u) + AssetWeight(r, u)'
SharesGained(r, u) ==
  (share_balance'[u] - share_balance[u]) - ShareWeight(r, u) + ShareWeight(r, u)'

LEMMA ValueStep ==
  ASSUME TypeOK, TypeOK', NEW r \in Requests, TouchesOnly(r), NEW u \in Users,
         NEW n \in Nat, NEW da \in Int, NEW ds \in Int,
         AssetsGained(r, u) = da, SharesGained(r, u) = ds, PRECISION * da + n * ds <= 0
  PROVE  Value(u, n)' <= Value(u, n)
<1> DEFINE A == AssetsOf(u)
           B == SharesOf(u)
<1>1. A \in Nat /\ B \in Nat /\ A' \in Int /\ B' \in Int
  BY AssetsOfStep, SharesOfStep
<1>2. A' = A + (wallet'[u][Primary] - wallet[u][Primary])
             - AssetWeight(r, u) + AssetWeight(r, u)'
  BY AssetsOfStep
<1>3. B' = B + (share_balance'[u] - share_balance[u])
             - ShareWeight(r, u) + ShareWeight(r, u)'
  BY SharesOfStep
<1>4. /\ wallet[u][Primary] \in Nat /\ wallet'[u][Primary] \in Nat
      /\ share_balance[u] \in Nat /\ share_balance'[u] \in Nat
  BY DEF TypeOK, Assets
<1>5. /\ AssetWeight(r, u) \in Nat /\ AssetWeight(r, u)' \in Nat
      /\ ShareWeight(r, u) \in Nat /\ ShareWeight(r, u)' \in Nat
  BY LiveAmounts, LiveAmountsAfter
     DEF AssetWeight, ShareWeight, InEscrow, ClaimableRedeems, PendingDeposits,
         PendingRequests, ClaimsOnShares, IsState
<1> HIDE DEF A, B
<1>6. A' = A + da
  <2> SUFFICES ASSUME NEW w \in Int, NEW w1 \in Int, NEW x \in Int, NEW x1 \in Int, NEW a1,
                      w = wallet[u][Primary], w1 = wallet'[u][Primary],
                      x = AssetWeight(r, u), x1 = AssetWeight(r, u)', a1 = A'
               PROVE  a1 = A + da
    BY <1>4, <1>5
  <2>1. da = (w1 - w) - x + x1 /\ a1 = A + (w1 - w) - x + x1
    BY <1>2 DEF AssetsGained
  <2> QED BY <1>1, <2>1
<1>7. B' = B + ds
  BY <1>1, <1>3, <1>4, <1>5 DEF SharesGained
<1>8. PRECISION * (A + da) + n * (B + ds) <= PRECISION * A + n * B
  BY <1>1, Traded, ConstantsAssumption
<1> QED BY <1>6, <1>7, <1>8 DEF Value, A, B

\* A step that only moves a user's assets between wallet and escrow, and shares
\* between balance and claims.
LEMMA ValueKept ==
  ASSUME TypeOK, TypeOK', NEW r \in Requests, TouchesOnly(r), NEW u \in Users,
         NEW n \in Nat, AssetsGained(r, u) = 0, SharesGained(r, u) = 0
  PROVE  Value(u, n)' <= Value(u, n)
<1>1. PRECISION * 0 + n * 0 <= 0
  BY ConstantsAssumption, SMT
<1> QED BY <1>1, ValueStep

LEMMA WorthOf ==
  ASSUME NEW r \in Requests, NEW u
  PROVE  /\ AssetWeight(r, u) =
              IF /\ request[r].owner = u /\ request[r].asset_mint = Primary
                 /\ \/ IsState(r, "Pending") /\ request[r].request_type = "Deposit"
                    \/ IsState(r, "Claimable") /\ request[r].request_type = "Redeem"
                THEN request[r].amount ELSE 0
         /\ ShareWeight(r, u) =
              IF /\ request[r].owner = u
                 /\ \/ IsState(r, "Pending") /\ request[r].request_type = "Redeem"
                    \/ IsState(r, "Claimable") /\ request[r].request_type = "Deposit"
                THEN request[r].amount ELSE 0
  BY DEF AssetWeight, ShareWeight, InEscrow, ClaimableRedeems, PendingDeposits,
         PendingRequests, ClaimsOnShares, IsState, IsType

LEMMA WorthOfAfter ==
  ASSUME NEW r \in Requests, NEW u
  PROVE  /\ AssetWeight(r, u)' =
              IF /\ request'[r].owner = u /\ request'[r].asset_mint = Primary
                 /\ \/ IsState(r, "Pending")' /\ request'[r].request_type = "Deposit"
                    \/ IsState(r, "Claimable")' /\ request'[r].request_type = "Redeem"
                THEN request'[r].amount ELSE 0
         /\ ShareWeight(r, u)' =
              IF /\ request'[r].owner = u
                 /\ \/ IsState(r, "Pending")' /\ request'[r].request_type = "Redeem"
                    \/ IsState(r, "Claimable")' /\ request'[r].request_type = "Deposit"
                THEN request'[r].amount ELSE 0
  BY DEF AssetWeight, ShareWeight, InEscrow, ClaimableRedeems, PendingDeposits,
         PendingRequests, ClaimsOnShares, IsState, IsType

LEMMA CreateKeepsValue ==
  ASSUME TypeOK, TypeOK', Create, NEW v \in Users, NEW n \in Nat
  PROVE  Value(v, n)' <= Value(v, n)
<1>0. /\ request \in [Requests -> RequestRecords \cup {Closed}]
      /\ wallet \in [Users -> [Assets -> Nat]] /\ share_balance \in [Users -> Nat]
      /\ Primary \in Assets
  BY DEF TypeOK, Assets
<1>1. ASSUME NEW r \in Requests, NEW u \in Users, NEW asset \in Assets,
             NEW amount \in Amounts, NEW op \in Operators \cup {NoOperator},
             CreateDepositRequest(r, u, asset, amount, op)
      PROVE  Value(v, n)' <= Value(v, n)
  <2>1. /\ IsState(r, "Closed") /\ amount \in Nat
        /\ request' = [request EXCEPT ![r] = NewRequest("Deposit", u, asset, amount, op)]
        /\ wallet' = [wallet EXCEPT ![u][asset] = @ - amount]
        /\ share_balance' = share_balance
    BY <1>1, ConstantsAssumption DEF CreateDepositRequest, OpenRequest
  <2>2. /\ TouchesOnly(r) /\ IsState(r, "Pending")'
        /\ request'[r].request_type = "Deposit" /\ request'[r].owner = u
        /\ request'[r].asset_mint = asset /\ request'[r].amount = amount
    BY <1>0, <2>1 DEF TouchesOnly, IsState, NewRequest
  <2>3. /\ AssetWeight(r, v) = 0 /\ ShareWeight(r, v) = 0 /\ ShareWeight(r, v)' = 0
        /\ AssetWeight(r, v)' = IF u = v /\ asset = Primary THEN amount ELSE 0
    BY <2>1, <2>2, WorthOf, WorthOfAfter DEF IsState
  <2>4. wallet'[v][Primary]
          = wallet[v][Primary] - IF u = v /\ asset = Primary THEN amount ELSE 0
    BY <1>0, <2>1
  <2>5. AssetsGained(r, v) = 0 /\ SharesGained(r, v) = 0
    BY <1>0, <2>1, <2>3, <2>4 DEF AssetsGained, SharesGained
  <2> QED BY <2>2, <2>5, ValueKept
<1>2. ASSUME NEW r \in Requests, NEW u \in Users, NEW asset \in Assets,
             NEW amount \in Amounts, NEW op \in Operators \cup {NoOperator},
             CreateRedeemRequest(r, u, asset, amount, op)
      PROVE  Value(v, n)' <= Value(v, n)
  <2>1. /\ IsState(r, "Closed") /\ amount \in Nat
        /\ request' = [request EXCEPT ![r] = NewRequest("Redeem", u, asset, amount, op)]
        /\ share_balance' = [share_balance EXCEPT ![u] = @ - amount]
        /\ wallet' = wallet
    BY <1>2, ConstantsAssumption DEF CreateRedeemRequest, OpenRequest
  <2>2. /\ TouchesOnly(r) /\ IsState(r, "Pending")'
        /\ request'[r].request_type = "Redeem" /\ request'[r].owner = u
        /\ request'[r].amount = amount
    BY <1>0, <2>1 DEF TouchesOnly, IsState, NewRequest
  <2>3. /\ AssetWeight(r, v) = 0 /\ ShareWeight(r, v) = 0 /\ AssetWeight(r, v)' = 0
        /\ ShareWeight(r, v)' = IF u = v THEN amount ELSE 0
    BY <2>1, <2>2, WorthOf, WorthOfAfter DEF IsState
  <2>4. share_balance'[v] = share_balance[v] - IF u = v THEN amount ELSE 0
    BY <1>0, <2>1
  <2>5. AssetsGained(r, v) = 0 /\ SharesGained(r, v) = 0
    BY <1>0, <2>1, <2>3, <2>4 DEF AssetsGained, SharesGained
  <2> QED BY <2>2, <2>5, ValueKept
<1> QED BY <1>1, <1>2 DEF Create

LEMMA ApproveDepositKeepsValue ==
  ASSUME TypeOK, TypeOK', NEW r \in Requests, ApproveDeposit(r), NEW v \in Users,
         NEW n \in Nat, nav \in {0, n}
  PROVE  Value(v, n)' <= Value(v, n)
<1> DEFINE amount == request[r].amount
           net == amount - DepositFee(amount)
           shares == CalculateShares(nav, PRECISION, net)
<1>1. /\ TouchesOnly(r) /\ IsState(r, "Pending") /\ request[r].request_type = "Deposit"
      /\ request[r].asset_mint = Primary /\ amount \in Nat /\ nav > 0 /\ nav = n
      /\ request[r] \in RequestRecords
  BY LiveRequest DEF ApproveDeposit, CanApprove, MarkClaimable, TouchesOnly, TypeOK, IsState
<1>2. net \in Nat /\ net <= amount
  BY <1>1, FeesNat DEF ApproveDeposit
<1>3. shares \in Nat /\ n * shares <= PRECISION * net /\ PRECISION * net <= PRECISION * amount
  BY <1>1, <1>2, CalculateNat, ConversionsRoundDown, MulMonotone, ConstantsAssumption
<1>4. /\ IsState(r, "Claimable")' /\ request'[r].request_type = "Deposit"
      /\ request'[r].owner = request[r].owner /\ request'[r].amount = shares
  BY <1>1 DEF ApproveDeposit, MarkClaimable, DepositOutcome, IsState, TypeOK, RequestRecords
<1>5. wallet' = wallet /\ share_balance' = share_balance
  BY DEF ApproveDeposit, userVars
<1>6. /\ wallet[v][Primary] \in Nat /\ share_balance[v] \in Nat
  BY DEF TypeOK, Assets
<1> DEFINE mine == request[r].owner = v
<1>7. /\ AssetWeight(r, v) = (IF mine THEN amount ELSE 0) /\ AssetWeight(r, v)' = 0
      /\ ShareWeight(r, v) = 0 /\ ShareWeight(r, v)' = (IF mine THEN shares ELSE 0)
  BY <1>1, <1>4, WorthOf, WorthOfAfter DEF IsState
<1> HIDE DEF amount, net, shares, mine
<1>8. CASE mine
  <2>1. AssetsGained(r, v) = -amount /\ SharesGained(r, v) = shares
    BY <1>1, <1>3, <1>5, <1>6, <1>7, <1>8 DEF AssetsGained, SharesGained
  <2>2. PRECISION * (-amount) + n * shares <= 0
    <3>1. PRECISION * (-amount) = -(PRECISION * amount) /\ PRECISION * amount \in Nat
          /\ PRECISION * net \in Nat /\ n * shares \in Nat
      BY <1>1, <1>2, <1>3, ConstantsAssumption, SMT
    <3> QED BY <1>3, <3>1
  <2> QED BY <1>1, <1>3, <2>1, <2>2, ValueStep
<1>9. CASE ~mine
  <2>1. AssetsGained(r, v) = 0 /\ SharesGained(r, v) = 0
    BY <1>5, <1>6, <1>7, <1>9 DEF AssetsGained, SharesGained
  <2> QED BY <1>1, <2>1, ValueKept
<1> QED BY <1>8, <1>9

LEMMA ApproveRedeemKeepsValue ==
  ASSUME TypeOK, TypeOK', NEW r \in Requests, ApproveRedeem(r), NEW v \in Users,
         NEW n \in Nat, nav \in {0, n}
  PROVE  Value(v, n)' <= Value(v, n)
<1> DEFINE amount == request[r].amount
           assets == CalculateAssets(nav, PRECISION, amount)
           net == assets - WithdrawalFee(assets)
<1>1. /\ TouchesOnly(r) /\ IsState(r, "Pending") /\ request[r].request_type = "Redeem"
      /\ request[r].asset_mint = Primary /\ amount \in Nat /\ nav > 0 /\ nav = n
      /\ request[r] \in RequestRecords
  BY LiveRequest DEF ApproveRedeem, CanApprove, MarkClaimable, TouchesOnly, TypeOK, IsState
<1>2. assets \in Nat
  BY <1>1, CalculateNat
<1>3. net \in Nat /\ net <= assets
  BY <1>2, FeesNat DEF ApproveRedeem
<1>4. PRECISION * net <= PRECISION * assets /\ PRECISION * assets <= n * amount
  BY <1>1, <1>2, <1>3, ConversionsRoundDown, MulMonotone, ConstantsAssumption
<1>5. /\ IsState(r, "Claimable")' /\ request'[r].request_type = "Redeem"
      /\ request'[r].owner = request[r].owner /\ request'[r].amount = net
      /\ request'[r].asset_mint = Primary
  BY <1>1 DEF ApproveRedeem, MarkClaimable, RedeemOutcome, IsState, TypeOK, RequestRecords
<1>6. wallet' = wallet /\ share_balance' = share_balance
  BY DEF ApproveRedeem, userVars
<1>7. /\ wallet[v][Primary] \in Nat /\ share_balance[v] \in Nat
  BY DEF TypeOK, Assets
<1> DEFINE mine == request[r].owner = v
<1>8. /\ ShareWeight(r, v) = (IF mine THEN amount ELSE 0) /\ ShareWeight(r, v)' = 0
      /\ AssetWeight(r, v) = 0 /\ AssetWeight(r, v)' = (IF mine THEN net ELSE 0)
  BY <1>1, <1>5, WorthOf, WorthOfAfter DEF IsState
<1> HIDE DEF amount, assets, net, mine
<1>9. CASE mine
  <2>1. AssetsGained(r, v) = net /\ SharesGained(r, v) = -amount
    BY <1>1, <1>3, <1>6, <1>7, <1>8, <1>9 DEF AssetsGained, SharesGained
  <2>2. PRECISION * net + n * (-amount) <= 0
    <3>1. n * (-amount) = -(n * amount) /\ n * amount \in Nat
          /\ PRECISION * net \in Nat /\ PRECISION * assets \in Nat
      BY <1>1, <1>2, <1>3, ConstantsAssumption, SMT
    <3> QED BY <1>4, <3>1
  <2> QED BY <1>1, <1>3, <2>1, <2>2, ValueStep
<1>10. CASE ~mine
  <2>1. AssetsGained(r, v) = 0 /\ SharesGained(r, v) = 0
    BY <1>6, <1>7, <1>8, <1>10 DEF AssetsGained, SharesGained
  <2> QED BY <1>1, <2>1, ValueKept
<1> QED BY <1>9, <1>10

LEMMA RefundKeepsValue ==
  ASSUME TypeOK, TypeOK', NEW r \in Requests, NEW v \in Users, NEW n \in Nat,
         RejectRequest(r) \/ CancelRequest(r) \/ CancelQueued(r)
  PROVE  Value(v, n)' <= Value(v, n)
<1> DEFINE amount == request[r].amount
           asset == request[r].asset_mint
           mine == request[r].owner = v
<1>1. Unwind(r) /\ IsState(r, "Pending")
  BY DEF RejectRequest, CancelRequest, CancelQueued
<1>2. /\ request[r] \in RequestRecords /\ amount \in Nat /\ asset \in Assets
      /\ request[r].owner \in Users /\ request[r].request_type \in RequestTypes
  BY <1>1, LiveRequest DEF IsState
<1>3. \/ request' = [request EXCEPT ![r] = Closed]
      \/ request' = [request EXCEPT ![r] = Tombstone(@)]
  BY DEF RejectRequest, CancelRequest, CancelQueued
<1>4. TouchesOnly(r) /\ ~IsState(r, "Pending")' /\ ~IsState(r, "Claimable")'
  BY <1>2, <1>3 DEF TypeOK, TouchesOnly, IsState, Closed, Tombstone, RequestRecords
<1>5. /\ wallet \in [Users -> [Assets -> Nat]] /\ share_balance \in [Users -> Nat]
      /\ Primary \in Assets
  BY DEF TypeOK, Assets
<1>6. CASE RefundDeposit(r)
  <2>1. /\ request[r].request_type = "Deposit" /\ share_balance' = share_balance
        /\ wallet' = [wallet EXCEPT ![request[r].owner][asset] = @ + amount]
    BY <1>6 DEF RefundDeposit
  <2>2. /\ AssetWeight(r, v) = (IF mine /\ asset = Primary THEN amount ELSE 0)
        /\ AssetWeight(r, v)' = 0 /\ ShareWeight(r, v) = 0 /\ ShareWeight(r, v)' = 0
    BY <1>1, <1>4, <2>1, WorthOf, WorthOfAfter DEF IsState
  <2>3. wallet'[v][Primary]
          = wallet[v][Primary] + (IF mine /\ asset = Primary THEN amount ELSE 0)
    BY <1>2, <1>5, <2>1
  <2> HIDE DEF amount, asset, mine
  <2>4. AssetsGained(r, v) = 0 /\ SharesGained(r, v) = 0
    BY <1>2, <1>5, <2>1, <2>2, <2>3 DEF AssetsGained, SharesGained
  <2> QED BY <1>4, <2>4, ValueKept
<1>7. CASE RefundRedeem(r)
  <2>1. /\ request[r].request_type = "Redeem" /\ wallet' = wallet
        /\ share_balance' = [share_balance EXCEPT ![request[r].owner] = @ + amount]
    BY <1>7 DEF RefundRedeem
  <2>2. /\ ShareWeight(r, v) = (IF mine THEN amount ELSE 0)
        /\ AssetWeight(r, v)' = 0 /\ AssetWeight(r, v) = 0 /\ ShareWeight(r, v)' = 0
    BY <1>1, <1>4, <2>1, WorthOf, WorthOfAfter DEF IsState
  <2>3. share_balance'[v] = share_balance[v] + (IF mine THEN amount ELSE 0)
    BY <1>2, <1>5, <2>1
  <2> HIDE DEF amount, asset, mine
  <2>4. AssetsGained(r, v) = 0 /\ SharesGained(r, v) = 0
    BY <1>2, <1>5, <2>1, <2>2, <2>3 DEF AssetsGained, SharesGained
  <2> QED BY <1>4, <2>4, ValueKept
<1> QED BY <1>1, <1>6, <1>7 DEF Unwind

LEMMA ClaimKeepsValue ==
  ASSUME TypeOK, TypeOK', NEW r \in Requests, NEW v \in Users, NEW n \in Nat,
         NEW signer \in Users, Claim(r, signer)
  PROVE  Value(v, n)' <= Value(v, n)
<1> DEFINE amount == request[r].amount
           asset == request[r].asset_mint
           mine == request[r].owner = v
<1>1. /\ IsState(r, "Claimable") /\ IsState(r, "Closed")' /\ TouchesOnly(r)
  BY DEF Claim, TypeOK, IsState, Closed, TouchesOnly
<1>2. /\ amount \in Nat /\ asset \in Assets /\ request[r].owner \in Users
  BY <1>1, LiveRequest DEF IsState
<1>3. /\ wallet \in [Users -> [Assets -> Nat]] /\ share_balance \in [Users -> Nat]
      /\ Primary \in Assets
  BY DEF TypeOK, Assets
<1>4. CASE ClaimShares(r)
  <2>1. /\ request[r].request_type = "Deposit" /\ wallet' = wallet
        /\ share_balance' = [share_balance EXCEPT ![request[r].owner] = @ + amount]
    BY <1>4 DEF ClaimShares
  <2>2. /\ ShareWeight(r, v) = (IF mine THEN amount ELSE 0)
        /\ AssetWeight(r, v)' = 0 /\ AssetWeight(r, v) = 0 /\ ShareWeight(r, v)' = 0
    BY <1>1, <2>1, WorthOf, WorthOfAfter DEF IsState
  <2>3. share_balance'[v] = share_balance[v] + (IF mine THEN amount ELSE 0)
    BY <1>2, <1>3, <2>1
  <2> HIDE DEF amount, asset, mine
  <2>4. AssetsGained(r, v) = 0 /\ SharesGained(r, v) = 0
    BY <1>2, <1>3, <2>1, <2>2, <2>3 DEF AssetsGained, SharesGained
  <2> QED BY <1>1, <2>4, ValueKept
<1>5. CASE ClaimAssets(r)
  <2>1. /\ request[r].request_type = "Redeem" /\ share_balance' = share_balance
        /\ wallet' = [wallet EXCEPT ![request[r].owner][asset] = @ + amount]
    BY <1>5 DEF ClaimAssets
  <2>2. /\ AssetWeight(r, v) = (IF mine /\ asset = Primary THEN amount ELSE 0)
        /\ AssetWeight(r, v)' = 0 /\ ShareWeight(r, v) = 0 /\ ShareWeight(r, v)' = 0
    BY <1>1, <2>1, WorthOf, WorthOfAfter DEF IsState
  <2>3. wallet'[v][Primary]
          = wallet[v][Primary] + (IF mine /\ asset = Primary THEN amount ELSE 0)
    BY <1>2, <1>3, <2>1
  <2> HIDE DEF amount, asset, mine
  <2>4. AssetsGained(r, v) = 0 /\ SharesGained(r, v) = 0
    BY <1>2, <1>3, <2>1, <2>2, <2>3 DEF AssetsGained, SharesGained
  <2> QED BY <1>1, <2>4, ValueKept
<1> QED BY <1>4, <1>5 DEF Claim

\* Skipping a tombstone and naming an operator move nothing of value.
LEMMA RestKeepsValue ==
  ASSUME TypeOK, TypeOK', NEW r \in Requests, NEW v \in Users, NEW n \in Nat,
         SkipCanceledQueueRequest(r) \/ \E op \in Operators : SetOperator(r, op)
  PROVE  Value(v, n)' <= Value(v, n)
<1>1. wallet' = wallet /\ share_balance' = share_balance /\ TouchesOnly(r)
  BY DEF SkipCanceledQueueRequest, SetOperator, userVars, TouchesOnly, TypeOK
<1>2. AssetWeight(r, v)' = AssetWeight(r, v) /\ ShareWeight(r, v)' = ShareWeight(r, v)
  <2>1. CASE SkipCanceledQueueRequest(r)
    <3>1. IsState(r, "Canceled") /\ IsState(r, "Closed")'
      BY <2>1 DEF SkipCanceledQueueRequest, IsState, Closed, TypeOK
    <3> QED BY <3>1, WorthOf, WorthOfAfter DEF IsState
  <2>2. ASSUME NEW op \in Operators, SetOperator(r, op)
        PROVE  AssetWeight(r, v)' = AssetWeight(r, v) /\ ShareWeight(r, v)' = ShareWeight(r, v)
    <3>1. request[r] \in RequestRecords
      BY <2>2, LiveRequest DEF SetOperator
    <3>2. /\ request'[r].request_state = request[r].request_state
          /\ request'[r].request_type = request[r].request_type
          /\ request'[r].asset_mint = request[r].asset_mint
          /\ request'[r].amount = request[r].amount
          /\ request'[r].owner = request[r].owner
      BY <2>2, <3>1 DEF SetOperator, TypeOK, RequestRecords
    <3> QED BY <3>2, WorthOf, WorthOfAfter DEF IsState
  <2> QED BY <2>1, <2>2
<1>3. /\ wallet[v][Primary] \in Nat /\ share_balance[v] \in Nat
      /\ AssetWeight(r, v) \in Nat /\ ShareWeight(r, v) \in Nat
  BY LiveAmounts
     DEF TypeOK, Assets, AssetWeight, ShareWeight, InEscrow, ClaimableRedeems,
         PendingDeposits, PendingRequests, ClaimsOnShares, IsState
<1>4. AssetsGained(r, v) = 0 /\ SharesGained(r, v) = 0
  BY <1>1, <1>2, <1>3 DEF AssetsGained, SharesGained
<1> QED BY <1>1, <1>4, ValueKept

\* With the requests as they were, only wallets and balances count.
LEMMA SameRequestsValue ==
  ASSUME TypeOK, TypeOK', request' = request, NEW v \in Users, NEW n \in Nat,
         NEW da \in Int, NEW ds \in Int, PRECISION * da + n * ds <= 0,
         wallet'[v][Primary] = wallet[v][Primary] + da,
         share_balance'[v] = share_balance[v] + ds
  PROVE  Value(v, n)' <= Value(v, n)
<1> DEFINE S == {s \in InEscrow(Primary) : request[s].owner = v}
           T == ClaimsOnShares(v)
<1>1. S' = S /\ T' = T
  BY DEF InEscrow, ClaimableRedeems, PendingDeposits, PendingRequests, ClaimsOnShares,
         IsState, IsType
<1>2. TotalAmount(S) \in Nat /\ TotalAmount(T) \in Nat
  <2>1. S \subseteq Requests /\ T \subseteq Requests
    BY DEF InEscrow, ClaimableRedeems, PendingDeposits, PendingRequests, ClaimsOnShares
  <2>2. IsFiniteSet(S) /\ IsFiniteSet(T)
    BY <2>1, FS_Subset, ConstantsAssumption
  <2>3. /\ \A s \in S : request[s].amount \in Nat
        /\ \A s \in T : request[s].amount \in Nat
    BY LiveAmounts
       DEF InEscrow, ClaimableRedeems, PendingDeposits, PendingRequests, ClaimsOnShares,
           IsState
  <2> HIDE DEF S, T
  <2> QED BY <2>2, <2>3, AmountNat DEF TotalAmount
<1>3. /\ AssetsOf(v) = wallet[v][Primary] + TotalAmount(S)
      /\ AssetsOf(v)' = wallet'[v][Primary] + TotalAmount(S)
      /\ SharesOf(v) = share_balance[v] + TotalAmount(T)
      /\ SharesOf(v)' = share_balance'[v] + TotalAmount(T)
  BY <1>1 DEF AssetsOf, SharesOf, TotalAmount
<1>4. wallet[v][Primary] \in Nat /\ share_balance[v] \in Nat
  BY DEF TypeOK, Assets
<1> DEFINE A == AssetsOf(v)
           B == SharesOf(v)
<1>5. A \in Int /\ B \in Int /\ A' = A + da /\ B' = B + ds
  <2> HIDE DEF S, T
  <2> QED BY <1>2, <1>3, <1>4
<1> HIDE DEF A, B
<1>6. PRECISION * (A + da) + n * (B + ds) <= PRECISION * A + n * B
  BY <1>5, Traded, ConstantsAssumption
<1> QED BY <1>5, <1>6 DEF Value, A, B

LEMMA SameHoldingsValue ==
  ASSUME TypeOK, TypeOK', request' = request, NEW v \in Users, NEW n \in Nat,
         wallet'[v][Primary] = wallet[v][Primary], share_balance'[v] = share_balance[v]
  PROVE  Value(v, n)' <= Value(v, n)
<1> SUFFICES ASSUME NEW z \in Int, z = 0
             PROVE  Value(v, n)' <= Value(v, n)
  OBVIOUS
<1>1. /\ wallet[v][Primary] \in Nat /\ share_balance[v] \in Nat
  BY DEF TypeOK, Assets
<1>2. /\ wallet'[v][Primary] = wallet[v][Primary] + z
      /\ share_balance'[v] = share_balance[v] + z
  BY <1>1
<1>3. PRECISION * z + n * z <= 0
  BY ConstantsAssumption, SMT
<1> QED BY <1>2, <1>3, SameRequestsValue

LEMMA InstantDepositKeepsValue ==
  ASSUME TypeOK, TypeOK', NEW u \in Users, NEW amount \in Amounts, InstantDeposit(u, amount),
         NEW v \in Users, NEW n \in Nat, nav \in {0, n}
  PROVE  Value(v, n)' <= Value(v, n)
<1> DEFINE net == amount - DepositFee(amount)
           shares == CalculateShares(nav, PRECISION, net)
<1>1. /\ request' = request /\ amount \in Nat /\ nav > 0 /\ nav = n
      /\ wallet' = [wallet EXCEPT ![u][Primary] = @ - amount]
      /\ share_balance' = [share_balance EXCEPT ![u] = @ + shares]
  BY ConstantsAssumption DEF InstantDeposit, InstantAllowed, TypeOK
<1>2. net \in Nat /\ net <= amount
  BY <1>1, FeesNat DEF InstantDeposit
<1>3. shares \in Nat /\ n * shares <= PRECISION * net /\ PRECISION * net <= PRECISION * amount
  BY <1>1, <1>2, CalculateNat, ConversionsRoundDown, MulMonotone, ConstantsAssumption
<1>4. /\ wallet \in [Users -> [Assets -> Nat]] /\ share_balance \in [Users -> Nat]
      /\ Primary \in Assets
  BY DEF TypeOK, Assets
<1> HIDE DEF net, shares
<1>5. CASE u = v
  <2>1. /\ wallet'[v][Primary] = wallet[v][Primary] + (-amount)
        /\ share_balance'[v] = share_balance[v] + shares
    BY <1>1, <1>4, <1>5
  <2>2. PRECISION * (-amount) + n * shares <= 0
    <3>1. PRECISION * (-amount) = -(PRECISION * amount) /\ PRECISION * amount \in Nat
          /\ PRECISION * net \in Nat /\ n * shares \in Nat
      BY <1>1, <1>2, <1>3, ConstantsAssumption, SMT
    <3> QED BY <1>3, <3>1
  <2> QED BY <1>1, <1>3, <2>1, <2>2, SameRequestsValue
<1>6. CASE u # v
  BY <1>1, <1>4, <1>6, SameHoldingsValue
<1> QED BY <1>5, <1>6

LEMMA InstantRedeemKeepsValue ==
  ASSUME TypeOK, TypeOK', NEW u \in Users, NEW shares \in Amounts, InstantRedeem(u, shares),
         NEW v \in Users, NEW n \in Nat, nav \in {0, n}
  PROVE  Value(v, n)' <= Value(v, n)
<1> DEFINE gross == CalculateAssets(nav, PRECISION, shares)
           fee == WithdrawalFee(gross)
                    + GetFee(Percentage(config.instant_redemption_fee_bps), gross)
           net == gross - fee
<1>1. /\ request' = request /\ shares \in Nat /\ nav > 0 /\ nav = n
      /\ wallet' = [wallet EXCEPT ![u][Primary] = @ + net]
      /\ share_balance' = [share_balance EXCEPT ![u] = @ - shares]
      /\ gross > fee
  BY ConstantsAssumption DEF InstantRedeem, InstantAllowed, TypeOK
<1>2. gross \in Nat
  BY <1>1, CalculateNat
<1>3. fee \in Nat
  BY <1>2, FeesNat, InstantFeeNat
<1>4. net \in Nat /\ net <= gross
  <2> HIDE DEF gross, fee
  <2> QED BY <1>1, <1>2, <1>3
<1>5. PRECISION * net <= PRECISION * gross /\ PRECISION * gross <= n * shares
  BY <1>1, <1>2, <1>4, ConversionsRoundDown, MulMonotone, ConstantsAssumption
<1>6. /\ wallet \in [Users -> [Assets -> Nat]] /\ share_balance \in [Users -> Nat]
      /\ Primary \in Assets
  BY DEF TypeOK, Assets
<1> HIDE DEF gross, fee, net
<1>7. CASE u = v
  <2>1. /\ wallet'[v][Primary] = wallet[v][Primary] + net
        /\ share_balance'[v] = share_balance[v] + (-shares)
    BY <1>1, <1>4, <1>6, <1>7
  <2>2. PRECISION * net + n * (-shares) <= 0
    <3>1. n * (-shares) = -(n * shares) /\ n * shares \in Nat
          /\ PRECISION * net \in Nat /\ PRECISION * gross \in Nat
      BY <1>1, <1>2, <1>4, ConstantsAssumption, SMT
    <3> QED BY <1>5, <3>1
  <2> QED BY <1>1, <1>4, <2>1, <2>2, SameRequestsValue
<1>8. CASE u # v
  BY <1>1, <1>6, <1>8, SameHoldingsValue
<1> QED BY <1>7, <1>8

\* Managing the vault, transfers to the reserve and time leave users alone.
LEMMA OthersKeepValue ==
  ASSUME TypeOK, TypeOK', Manage \/ Outside \/ UNCHANGED vars, NEW v \in Users, NEW n \in Nat
  PROVE  Value(v, n)' <= Value(v, n)
<1>1. request' = request /\ wallet' = wallet /\ share_balance' = share_balance
  BY DEF Manage, UpdateVaultNav, UpdateVault, ExecuteVaultUpdate, UpdateExtension, PauseVault,
         AddVaultAsset, RemoveVaultAsset, WithdrawAssets, Outside, ReturnAssets, Tick, vars,
         userVars
<1> QED BY <1>1, SameHoldingsValue

LEMMA StepKeepsValue ==
  ASSUME TypeOK, TypeOK', NEW n \in Nat, nav \in {0, n}, [Next]_vars, NEW v \in Users
  PROVE  Value(v, n)' <= Value(v, n)
<1>1. CASE Create
  BY <1>1, CreateKeepsValue
<1>2. ASSUME NEW r \in Requests, ApproveDeposit(r) \/ ApproveRedeem(r)
      PROVE  Value(v, n)' <= Value(v, n)
  BY <1>2, ApproveDepositKeepsValue, ApproveRedeemKeepsValue
<1>3. ASSUME NEW r \in Requests, RejectRequest(r) \/ CancelRequest(r) \/ CancelQueued(r)
      PROVE  Value(v, n)' <= Value(v, n)
  BY <1>3, RefundKeepsValue
<1>4. ASSUME NEW r \in Requests, NEW signer \in Users, Claim(r, signer)
      PROVE  Value(v, n)' <= Value(v, n)
  BY <1>4, ClaimKeepsValue
<1>5. ASSUME NEW r \in Requests,
             SkipCanceledQueueRequest(r) \/ \E op \in Operators : SetOperator(r, op)
      PROVE  Value(v, n)' <= Value(v, n)
  BY <1>5, RestKeepsValue
<1>6. CASE Settle
  BY <1>6, <1>2, <1>3, <1>4, <1>5
     DEF Settle, CancelQueuedDepositRequest, CancelQueuedRedemptionRequest
<1>7. CASE Instant
  BY <1>7, InstantDepositKeepsValue, InstantRedeemKeepsValue DEF Instant
<1>8. CASE Manage \/ Outside \/ UNCHANGED vars
  BY <1>8, OthersKeepValue
<1> QED BY <1>1, <1>6, <1>7, <1>8 DEF Next

\* The net asset value is the constant one, or not set yet.
NavIs(n) == nav \in {0, n}

\* What no user's value exceeds: the wallet everyone starts with.
WithinFunds(n) == \A u \in Users : Value(u, n) <= PRECISION * Funds

IntValues(n) == \A u \in Users : Value(u, n) \in Int

LEMMA NavStep ==
  ASSUME NEW n, Navs = {n}, NavIs(n), [Next]_vars
  PROVE  NavIs(n)'
<1>1. CASE Create
  BY <1>1 DEF Create, CreateDepositRequest, CreateRedeemRequest, navVars, NavIs
<1>2. CASE Settle
  <2>1. ASSUME NEW r \in Requests, ApproveDeposit(r) \/ ApproveRedeem(r)
        PROVE  nav' = nav
    BY <2>1 DEF ApproveDeposit, ApproveRedeem, navVars
  <2>2. ASSUME NEW r \in Requests, RejectRequest(r) \/ CancelRequest(r) \/ CancelQueued(r)
        PROVE  nav' = nav
    BY <2>2 DEF RejectRequest, CancelRequest, CancelQueued, Unwind, RefundDeposit,
                RefundRedeem, navVars
  <2>3. ASSUME NEW r \in Requests, NEW signer \in Users, Claim(r, signer)
        PROVE  nav' = nav
    BY <2>3 DEF Claim, ClaimShares, ClaimAssets, navVars
  <2>4. ASSUME NEW r \in Requests,
               SkipCanceledQueueRequest(r) \/ \E op \in Operators : SetOperator(r, op)
        PROVE  nav' = nav
    BY <2>4 DEF SkipCanceledQueueRequest, SetOperator, navVars
  <2>5. nav' = nav
    BY <1>2, <2>1, <2>2, <2>3, <2>4
       DEF Settle, CancelQueuedDepositRequest, CancelQueuedRedemptionRequest
  <2> QED BY <2>5 DEF NavIs
<1>3. CASE Instant
  BY <1>3 DEF Instant, InstantDeposit, InstantRedeem, navVars, NavIs
<1>4. CASE Manage
  BY <1>4 DEF Manage, UpdateVaultNav, UpdateVault, ExecuteVaultUpdate, UpdateExtension,
              PauseVault, AddVaultAsset, RemoveVaultAsset, WithdrawAssets, navVars, NavIs
<1>5. CASE Outside \/ UNCHANGED vars
  BY <1>5 DEF Outside, ReturnAssets, Tick, vars, navVars, NavIs
<1> QED BY <1>1, <1>2, <1>3, <1>4, <1>5 DEF Next

LEMMA ValuesAreInts ==
  ASSUME NEW n \in Nat, TypeOK
  PROVE  IntValues(n)
<1> SUFFICES ASSUME NEW u \in Users PROVE Value(u, n) \in Int
  BY DEF IntValues
<1> DEFINE S == {s \in InEscrow(Primary) : request[s].owner = u}
           T == ClaimsOnShares(u)
<1>1. TotalAmount(S) \in Nat /\ TotalAmount(T) \in Nat
  <2>1. S \subseteq Requests /\ T \subseteq Requests
    BY DEF InEscrow, ClaimableRedeems, PendingDeposits, PendingRequests, ClaimsOnShares
  <2>2. IsFiniteSet(S) /\ IsFiniteSet(T)
    BY <2>1, FS_Subset, ConstantsAssumption
  <2>3. /\ \A s \in S : request[s].amount \in Nat
        /\ \A s \in T : request[s].amount \in Nat
    BY LiveAmounts
       DEF InEscrow, ClaimableRedeems, PendingDeposits, PendingRequests, ClaimsOnShares,
           IsState
  <2> HIDE DEF S, T
  <2> QED BY <2>2, <2>3, AmountNat DEF TotalAmount
<1>2. wallet[u][Primary] \in Nat /\ share_balance[u] \in Nat
  BY DEF TypeOK, Assets
<1>3. AssetsOf(u) \in Nat /\ SharesOf(u) \in Nat
  BY <1>1, <1>2 DEF AssetsOf, SharesOf
<1> QED BY <1>3, ConstantsAssumption DEF Value

LEMMA FirstValue ==
  ASSUME Init, NEW n \in Nat
  PROVE  WithinFunds(n)
<1> SUFFICES ASSUME NEW u \in Users PROVE Value(u, n) <= PRECISION * Funds
  BY DEF WithinFunds
<1>1. InEscrow(Primary) = {} /\ ClaimsOnShares(u) = {}
  BY DEF Init, InEscrow, ClaimableRedeems, PendingDeposits, PendingRequests, ClaimsOnShares,
         IsState, Closed
<1>2. {r \in InEscrow(Primary) : request[r].owner = u} = {}
  BY <1>1
<1>3. TotalAmount({}) = 0
  <2>1. Units([r \in {} |-> request[r].amount], {}) = {}
    BY DEF Units
  <2> QED BY <2>1, FS_EmptySet DEF TotalAmount, AmountOf
<1>4. AssetsOf(u) = Funds + 0 /\ SharesOf(u) = 0 + 0
  BY <1>1, <1>2, <1>3 DEF Init, AssetsOf, SharesOf, Assets
<1>5. PRECISION * (Funds + 0) + n * (0 + 0) = PRECISION * Funds
  BY ConstantsAssumption, SMT
<1>6. PRECISION * Funds <= PRECISION * Funds
  BY ConstantsAssumption, SMT
<1> QED BY <1>4, <1>5, <1>6 DEF Value

\* At a net asset value that never changes (any one, which is what the constant
\* Navs says) nobody ends up with more than the wallet held at first, whatever
\* the order of deposits, redemptions, instant settlements, approvals, refunds
\* and claims, at any fees: every conversion rounds in the vault's favour.
THEOREM ValueIsNeverFree ==
  ASSUME NEW CONSTANT n, Navs = {n}
  PROVE  Spec => []NoFreeValue
<1>0. n \in Nat
  BY ConstantsAssumption
<1>1. Init => NavIs(n) /\ WithinFunds(n)
  BY <1>0, FirstValue DEF Init, NavIs
<1>2. TypeOK => IntValues(n)
  BY <1>0, ValuesAreInts
<1>3. TypeOK /\ TypeOK' /\ IntValues(n) /\ IntValues(n)' /\ NavIs(n) /\ WithinFunds(n)
      /\ [Next]_vars
        => NavIs(n)' /\ WithinFunds(n)'
  <2> SUFFICES ASSUME TypeOK, TypeOK', IntValues(n), IntValues(n)', NavIs(n), WithinFunds(n),
                      [Next]_vars
               PROVE  NavIs(n)' /\ WithinFunds(n)'
    OBVIOUS
  <2>1. NavIs(n)'
    BY NavStep
  <2>2. ASSUME NEW u \in Users
        PROVE  Value(u, n)' <= PRECISION * Funds
    <3>1. Value(u, n)' <= Value(u, n) /\ Value(u, n) <= PRECISION * Funds
      BY <1>0, StepKeepsValue DEF NavIs, WithinFunds
    <3>2. Value(u, n) \in Int /\ Value(u, n)' \in Int /\ PRECISION * Funds \in Int
      BY ConstantsAssumption DEF IntValues
    <3> QED BY <3>1, <3>2
  <2> QED BY <2>1, <2>2 DEF WithinFunds
<1>4. WithinFunds(n) => NoFreeValue
  BY DEF WithinFunds, Value, NoFreeValue
<1> QED BY <1>1, <1>2, <1>3, <1>4, TypeCorrect, PTL DEF Spec
-----------------------------------------------------------------------------
(* Whoever waits can leave *)

\* What an instruction that refunds request r asks of the state: a count to leave,
\* and for a deposit the VaultAsset account and two balances to subtract from.
RefundPossible(r) ==
  /\ pending_async_requests > 0
  /\ request[r].request_type = "Deposit" =>
       /\ IsApproved(request[r].asset_mint)
       /\ pending_vault[request[r].asset_mint] >= request[r].amount
       /\ pending_deposit_amount[request[r].asset_mint] >= request[r].amount

RejectPossible(r) == IsState(r, "Pending") /\ InFifoOrder(r) /\ RefundPossible(r)

SkipPossible(r) == IsState(r, "Canceled") /\ InFifoOrder(r)

\* What claim asks of the state, beside an unpaused vault and a signer.
PayoutPossible(r) ==
  request[r].request_type = "Redeem" =>
    /\ IsApproved(request[r].asset_mint)
    /\ pending_vault[request[r].asset_mint] >= request[r].amount

\* In a queue that is not empty somebody has the turn and can leave; a pending
\* request without a queue can leave; every pending request can be refunded when
\* its turn comes, and every approved one can be paid.
NobodyStuck ==
  /\ \A type \in RequestTypes : (\E r \in Requests : InQueue(r, type)) =>
       \E r \in Requests : InQueue(r, type) /\ (RejectPossible(r) \/ SkipPossible(r))
  /\ \A r \in PendingRequests : /\ RefundPossible(r)
                                /\ ~HasQueue[request[r].request_type] => RejectPossible(r)
  /\ \A r \in Requests : IsState(r, "Claimable") => PayoutPossible(r)

\* That these are all the conditions: when they hold, the state that rejecting
\* request r leads to, variable by variable, is a step of RejectRequest.
RejectsTo(r) ==
  LET deposit == request[r].request_type = "Deposit"
      asset == request[r].asset_mint
      amount == request[r].amount
      u == request[r].owner
  IN
  /\ request' = [request EXCEPT ![r] = Closed]
  /\ queue' = QueueAfterAdvance(r)
  /\ pending_async_requests' = pending_async_requests - 1
  /\ pending_vault' =
       IF deposit THEN [pending_vault EXCEPT ![asset] = @ - amount] ELSE pending_vault
  /\ pending_deposit_amount' =
       IF deposit THEN [pending_deposit_amount EXCEPT ![asset] = @ - amount]
                  ELSE pending_deposit_amount
  /\ wallet' = IF deposit THEN [wallet EXCEPT ![u][asset] = @ + amount] ELSE wallet
  /\ share_balance' =
       IF deposit THEN share_balance ELSE [share_balance EXCEPT ![u] = @ + amount]
  /\ UNCHANGED <<configVars, navVars, limitVars, assetVars, outVars,
                 total_asset_balance, reserve, fee_balance, slot>>

LEMMA RejectPossibleSuffices ==
  ASSUME TypeOK, NEW r \in Requests, RejectPossible(r), RejectsTo(r)
  PROVE  RejectRequest(r)
<1>1. request[r].request_type \in {"Deposit", "Redeem"}
  BY LiveRequest DEF RejectPossible, IsState, RequestTypes
<1>2. CASE request[r].request_type = "Deposit"
  <2>1. RefundDeposit(r)
    BY <1>2 DEF RejectPossible, RefundPossible, RejectsTo, RefundDeposit
  <2> QED
    BY <2>1 DEF RejectPossible, RefundPossible, RejectsTo, RejectRequest, Unwind,
                LeavePendingCount
<1>3. CASE request[r].request_type = "Redeem"
  <2>1. RefundRedeem(r)
    BY <1>3 DEF RejectsTo, RefundRedeem, escrowVars
  <2> QED
    BY <2>1 DEF RejectPossible, RefundPossible, RejectsTo, RejectRequest, Unwind,
                LeavePendingCount
<1> QED BY <1>1, <1>2, <1>3

\* The same of SkipCanceledQueueRequest.
SkipsTo(r) ==
  /\ request' = [request EXCEPT ![r] = Closed]
  /\ queue' = QueueAfterAdvance(r)
  /\ UNCHANGED <<configVars, navVars, limitVars, assetVars, outVars, escrowVars, userVars,
                 pending_async_requests, total_asset_balance, reserve, fee_balance, slot>>

LEMMA SkipPossibleSuffices ==
  ASSUME NEW r \in Requests, SkipPossible(r), SkipsTo(r)
  PROVE  SkipCanceledQueueRequest(r)
  BY DEF SkipPossible, SkipsTo, SkipCanceledQueueRequest

\* And of a claim by the owner of the request, in a vault that is not paused.
PaysTo(r) ==
  LET deposit == request[r].request_type = "Deposit"
      asset == request[r].asset_mint
      amount == request[r].amount
      u == request[r].owner
  IN
  /\ request' = [request EXCEPT ![r] = Closed]
  /\ pending_vault' =
       IF deposit THEN pending_vault ELSE [pending_vault EXCEPT ![asset] = @ - amount]
  /\ wallet' = IF deposit THEN wallet ELSE [wallet EXCEPT ![u][asset] = @ + amount]
  /\ share_balance' =
       IF deposit THEN [share_balance EXCEPT ![u] = @ + amount] ELSE share_balance
  /\ UNCHANGED <<configVars, navVars, limitVars, assetVars, outVars, pending_deposit_amount,
                 pending_async_requests, total_asset_balance, queue, reserve,
                 fee_balance, slot>>

LEMMA PayoutPossibleSuffices ==
  ASSUME TypeOK, NEW r \in Requests, IsState(r, "Claimable"), ~paused, PayoutPossible(r),
         PaysTo(r)
  PROVE  Claim(r, request[r].owner)
<1>1. request[r].request_type \in {"Deposit", "Redeem"}
  BY LiveRequest DEF IsState, RequestTypes
<1>2. CASE request[r].request_type = "Deposit"
  <2>1. ClaimShares(r)
    BY <1>2 DEF PaysTo, ClaimShares
  <2> QED BY <2>1 DEF PaysTo, Claim
<1>3. CASE request[r].request_type = "Redeem"
  <2>1. ClaimAssets(r)
    BY <1>3 DEF PayoutPossible, PaysTo, ClaimAssets
  <2> QED BY <2>1 DEF PaysTo, Claim
<1> QED BY <1>1, <1>2, <1>3

\* A sum is at least each of its parts.
LEMMA PartWithinTotal ==
  ASSUME NEW S, IsFiniteSet(S), \A s \in S : request[s].amount \in Nat, NEW r \in S
  PROVE  TotalAmount(S) >= request[r].amount
<1> DEFINE T == S \ {r}
           rest == AmountOf(request, T)
<1>1. IsFiniteSet(T) /\ r \notin T /\ S = T \cup {r} /\ \A s \in T : request[s].amount \in Nat
  BY FS_RemoveElement
<1>2. request[r].amount \in Nat
  OBVIOUS
<1> HIDE DEF T
<1>3. rest \in Nat
  BY <1>1, AmountNat
<1>4. AmountOf(request, S) = rest + request[r].amount
  BY <1>1, <1>2, AmountAdded
<1> HIDE DEF rest
<1> QED BY <1>2, <1>3, <1>4 DEF TotalAmount

\* approve_request accepts the primary asset only.
ClaimsInPrimary ==
  \A r \in Requests : IsState(r, "Claimable") => request[r].asset_mint = Primary

LEMMA ClaimsInPrimaryStep ==
  ASSUME TypeOK, ClaimsInPrimary, [Next]_vars
  PROVE  ClaimsInPrimary'
<1>0. request \in [Requests -> RequestRecords \cup {Closed}]
  BY DEF TypeOK
<1>1. ASSUME NEW s \in Requests, NEW q, request' = [request EXCEPT ![s] = q],
             q.request_state # "Claimable"
      PROVE  ClaimsInPrimary'
  BY <1>0, <1>1 DEF ClaimsInPrimary, IsState
<1>2. CASE Create
  <2>1. PICK s \in Requests : \E type, u, asset, amount, op :
          request' = [request EXCEPT ![s] = NewRequest(type, u, asset, amount, op)]
    BY <1>2 DEF Create, CreateDepositRequest, CreateRedeemRequest, OpenRequest
  <2>2. PICK type, u, asset, amount, op :
          request' = [request EXCEPT ![s] = NewRequest(type, u, asset, amount, op)]
    BY <2>1
  <2>3. NewRequest(type, u, asset, amount, op).request_state # "Claimable"
    BY DEF NewRequest
  <2> QED BY <1>1, <2>2, <2>3
<1>3. ASSUME NEW s \in Requests, ApproveDeposit(s) \/ ApproveRedeem(s)
      PROVE  ClaimsInPrimary'
  <2>1. PICK claimable : request' = [request EXCEPT ![s].amount = claimable, ![s].price = nav,
                                                    ![s].request_state = "Claimable"]
    BY <1>3 DEF ApproveDeposit, ApproveRedeem, MarkClaimable
  <2>2. request[s].asset_mint = Primary /\ IsState(s, "Pending")
    BY <1>3 DEF ApproveDeposit, ApproveRedeem, CanApprove
  <2>3. request[s] \in RequestRecords
    BY <2>2, LiveRequest DEF IsState
  <2>4. request'[s].asset_mint = request[s].asset_mint
    BY <1>0, <2>1, <2>3 DEF RequestRecords
  <2>5. \A r \in Requests : r # s => request'[r] = request[r]
    BY <1>0, <2>1
  <2> QED BY <2>2, <2>4, <2>5 DEF ClaimsInPrimary, IsState
<1>4. ASSUME NEW s \in Requests,
             \/ RejectRequest(s) \/ CancelRequest(s) \/ SkipCanceledQueueRequest(s)
             \/ \E signer \in Users : Claim(s, signer)
      PROVE  ClaimsInPrimary'
  <2>1. request' = [request EXCEPT ![s] = Closed]
    BY <1>4 DEF RejectRequest, CancelRequest, SkipCanceledQueueRequest, Claim
  <2>2. Closed.request_state # "Claimable"
    BY DEF Closed
  <2> QED BY <1>1, <2>1, <2>2
<1>5. ASSUME NEW s \in Requests, CancelQueued(s)
      PROVE  ClaimsInPrimary'
  <2>1. request' = [request EXCEPT ![s] = Tombstone(request[s])] /\ IsState(s, "Pending")
    BY <1>0, <1>5 DEF CancelQueued
  <2>2. request[s] \in RequestRecords
    BY <2>1, LiveRequest DEF IsState
  <2>3. Tombstone(request[s]).request_state = "Canceled"
    BY <2>2 DEF Tombstone, RequestRecords
  <2> QED BY <1>1, <2>1, <2>3
<1>6. ASSUME NEW s \in Requests, NEW op \in Operators, SetOperator(s, op)
      PROVE  ClaimsInPrimary'
  <2>1. /\ request' = [request EXCEPT ![s].operator = op]
        /\ request[s] \in RequestRecords
    BY <1>6, LiveRequest DEF SetOperator
  <2>2. /\ request'[s].asset_mint = request[s].asset_mint
        /\ request'[s].request_state = request[s].request_state
    BY <1>0, <2>1 DEF RequestRecords
  <2>3. \A r \in Requests : r # s => request'[r] = request[r]
    BY <1>0, <2>1
  <2> QED BY <2>2, <2>3 DEF ClaimsInPrimary, IsState
<1>7. CASE Instant \/ Manage \/ Outside \/ UNCHANGED vars
  BY <1>7, OthersKeepRequests DEF ClaimsInPrimary, IsState
<1> QED
  BY <1>2, <1>3, <1>4, <1>5, <1>6, <1>7
     DEF Next, Settle, CancelQueuedDepositRequest, CancelQueuedRedemptionRequest

\* A refund and a payout subtract what the exact accounts contain.
LEMMA AccountsCover ==
  ASSUME TypeOK, AccountsExact, PendingAssetsApproved, ClaimsInPrimary, NEW r \in Requests
  PROVE  /\ IsState(r, "Pending") => RefundPossible(r)
         /\ IsState(r, "Claimable") => PayoutPossible(r)
<1> DEFINE asset == request[r].asset_mint
<1>1. ASSUME NEW S, S \subseteq Requests, \A s \in S : ~IsState(s, "Closed"), r \in S
      PROVE  TotalAmount(S) >= request[r].amount
  <2>1. IsFiniteSet(S)
    BY <1>1, FS_Subset, ConstantsAssumption
  <2> QED BY <1>1, <2>1, LiveAmounts, PartWithinTotal
<1>2. CASE IsState(r, "Pending")
  <2> SUFFICES RefundPossible(r)
    BY <1>2 DEF IsState
  <2>1. asset \in Assets
    BY <1>2, LiveRequest DEF IsState
  <2>2. IsFiniteSet(PendingRequests) /\ r \in PendingRequests
    BY <1>2, FS_Subset, ConstantsAssumption DEF PendingRequests
  <2>3. pending_async_requests > 0
    <3>1. Cardinality(PendingRequests) # 0 /\ Cardinality(PendingRequests) \in Nat
      BY <2>2, FS_EmptySet, FS_CardinalityType
    <3> QED BY <3>1 DEF AccountsExact, PendingCountExact
  <2>4. CASE request[r].request_type = "Deposit"
    <3>1. r \in PendingDeposits(asset) /\ r \in InEscrow(asset) /\ IsType(r, "Deposit")
      BY <1>2, <2>2, <2>4 DEF PendingDeposits, InEscrow, IsType, IsState
    <3>2. /\ PendingDeposits(asset) \subseteq Requests /\ InEscrow(asset) \subseteq Requests
          /\ \A s \in InEscrow(asset) : ~IsState(s, "Closed")
          /\ \A s \in PendingDeposits(asset) : ~IsState(s, "Closed")
      BY DEF InEscrow, PendingDeposits, ClaimableRedeems, PendingRequests, IsState
    <3>3. /\ TotalAmount(PendingDeposits(asset)) >= request[r].amount
          /\ TotalAmount(InEscrow(asset)) >= request[r].amount
      BY <1>1, <3>1, <3>2
    <3>4. IsApproved(asset)
      BY <2>2, <3>1 DEF PendingAssetsApproved
    <3>5. /\ pending_vault[asset] = TotalAmount(InEscrow(asset))
          /\ pending_deposit_amount[asset] = TotalAmount(PendingDeposits(asset))
      BY <2>1 DEF AccountsExact, EscrowBacked, PendingDepositsExact
    <3> QED BY <2>3, <3>3, <3>4, <3>5 DEF RefundPossible
  <2>5. CASE request[r].request_type # "Deposit"
    BY <2>3, <2>5 DEF RefundPossible
  <2> QED BY <2>4, <2>5
<1>3. CASE IsState(r, "Claimable")
  <2> SUFFICES ASSUME request[r].request_type = "Redeem"
               PROVE  IsApproved(asset) /\ pending_vault[asset] >= request[r].amount
    BY <1>3 DEF PayoutPossible, IsState
  <2>1. asset \in Assets /\ asset = Primary
    BY <1>3, LiveRequest DEF IsState, ClaimsInPrimary
  <2>2. r \in InEscrow(asset)
    BY <1>3 DEF InEscrow, ClaimableRedeems, IsType, IsState
  <2>3. InEscrow(asset) \subseteq Requests /\ \A s \in InEscrow(asset) : ~IsState(s, "Closed")
    BY DEF InEscrow, PendingDeposits, ClaimableRedeems, PendingRequests, IsState
  <2>4. TotalAmount(InEscrow(asset)) >= request[r].amount
    BY <1>1, <2>2, <2>3
  <2> QED BY <2>1, <2>4 DEF AccountsExact, EscrowBacked, IsApproved
<1> QED BY <1>2, <1>3

\* The request in the first place of a queue is the one the program accepts next.
LEMMA HeadHasTheTurn ==
  ASSUME TypeOK, NEW type \in RequestTypes, Filled(type), NEW s \in Requests, InQueue(s, type)
  PROVE  \E r \in Requests : InQueue(r, type) /\ InFifoOrder(r)
<1> DEFINE q == queue[type]
<1>1. q \in Queues
  BY DEF TypeOK
<1>2. s \in Members(type)
  BY DEF Members
<1>3. PICK i \in 1 .. QueueLength(q) : Carried[s] = IdAt(q, i)
  BY <1>2 DEF Filled, Tiled
<1>4. QueueLength(q) \in Nat /\ 1 \in 1 .. QueueLength(q)
  BY <1>1, <1>3, LengthType
<1>5. PICK r \in Members(type) : Carried[r] = IdAt(q, 1)
  BY <1>4 DEF Filled, Tiled
<1>6. r \in Requests /\ InQueue(r, type) /\ request[r].queue_id = IdAt(q, 1)
  BY <1>5 DEF Members, Carried
<1>7. q.last_processed \in Ids
  BY <1>1 DEF Queues
<1>8. IdAt(q, 1) = WrappingAdd1(q.last_processed)
  BY <1>7, U64MaxAssumption DEF IdAt, WrappingAdd1, Ids
<1> QED BY <1>6, <1>8 DEF InFifoOrder, IsHead, InQueue

\* Nobody is locked in.  Whatever was paused, repriced, capped, removed or
\* tombstoned before, reject_request or skip_canceled_queue_request can take the
\* head of each queue: none of their checked_subs, transfers and account
\* constraints fails.  An approved request can be claimed as soon as the vault is
\* not paused.  This is what QueueDrains needs beside fairness.
THEOREM NobodyGetsStuck == Spec => []NobodyStuck
<1>1. Init => ClaimsInPrimary
  BY DEF Init, ClaimsInPrimary, IsState, Closed
<1>2. TypeOK /\ ClaimsInPrimary /\ [Next]_vars => ClaimsInPrimary'
  BY ClaimsInPrimaryStep
<1>3. ASSUME TypeOK, AccountsExact, PendingAssetsApproved, ClaimsInPrimary, QueuesFilled
      PROVE  NobodyStuck
  <2>1. ASSUME NEW type \in RequestTypes, NEW s \in Requests, InQueue(s, type)
        PROVE  \E r \in Requests : InQueue(r, type) /\ (RejectPossible(r) \/ SkipPossible(r))
    <3>1. Filled(type)
      BY <1>3 DEF QueuesFilled, RequestTypes
    <3>2. PICK r \in Requests : InQueue(r, type) /\ InFifoOrder(r)
      BY <1>3, <2>1, <3>1, HeadHasTheTurn
    <3>3. IsState(r, "Pending") \/ IsState(r, "Canceled")
      BY <3>2 DEF InQueue
    <3>4. IsState(r, "Pending") => RefundPossible(r)
      BY <1>3, AccountsCover
    <3> QED BY <3>2, <3>3, <3>4 DEF RejectPossible, SkipPossible
  <2>2. ASSUME NEW r \in PendingRequests
        PROVE  /\ RefundPossible(r)
               /\ ~HasQueue[request[r].request_type] => RejectPossible(r)
    <3>1. r \in Requests /\ IsState(r, "Pending")
      BY DEF PendingRequests
    <3>2. RefundPossible(r)
      BY <1>3, <3>1, AccountsCover
    <3> QED BY <3>1, <3>2 DEF RejectPossible, InFifoOrder
  <2>3. ASSUME NEW r \in Requests, IsState(r, "Claimable")
        PROVE  PayoutPossible(r)
    BY <1>3, <2>3, AccountsCover
  <2> QED BY <2>1, <2>2, <2>3 DEF NobodyStuck
<1> QED
  BY <1>1, <1>2, <1>3, TypeCorrect, AccountsExactInvariant, PendingAssetsStayApproved,
     QueuesFilledInvariant, PTL DEF Spec
=============================================================================
