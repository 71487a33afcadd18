--------------------------- MODULE AsyncVault_proofs ---------------------------
(***************************************************************************)
(* Theorems about AsyncVault, for every number of users, requests and      *)
(* assets, every set of amounts and NAVs and every bound.                  *)
(*                                                                         *)
(* First the types; then the accounts that count requests, which are exact *)
(* in every state: the escrow of every asset, pending_deposit_amount and   *)
(* pending_async_requests.                                                 *)
(***************************************************************************)
EXTENDS AsyncVault, Units_proofs

-----------------------------------------------------------------------------
(* Arithmetic *)

\* A quotient of naturals, as the fee and the conversions compute it.
LEMMA DivNat ==
  ASSUME NEW a \in Nat, NEW b \in Nat \ {0}
  PROVE  a \div b \in Nat
  BY SMT

\* Products are ordered as their second factors: what the provers need to bound
\* a percentage.
LEMMA MulMonotone ==
  ASSUME NEW a \in Nat, NEW b \in Nat, NEW c \in Nat, b <= c
  PROVE  a * b <= a * c
  BY SMT

LEMMA MulNat ==
  ASSUME NEW a \in Nat, NEW b \in Nat
  PROVE  a * b \in Nat
  BY SMT

\* FeeType::get_fee returns a u64.
LEMMA GetFeeNat ==
  ASSUME NEW fee, IsFee(fee), NEW total \in Nat
  PROVE  GetFee(fee, total) \in Nat
<1>1. total * fee.value + (MAX_BPS - 1) \in Nat
  BY MulNat DEF IsFee, MAX_BPS
<1> QED BY <1>1, DivNat DEF GetFee, IsFee, MAX_BPS

\* A percentage that is rounded up never exceeds the whole: split_protocol_fee
\* can always subtract the protocol's share, and get_deposit_fee the fee.
LEMMA PercentageWithinTotal ==
  ASSUME NEW bps \in Nat, bps <= MAX_BPS, NEW total \in Nat
  PROVE  /\ GetFee(Percentage(bps), total) \in Nat
         /\ GetFee(Percentage(bps), total) <= total
<1>1. total * bps \in Nat /\ total * bps <= total * MAX_BPS
  BY MulNat, MulMonotone DEF MAX_BPS
<1>2. (total * bps + (MAX_BPS - 1)) \div MAX_BPS \in Nat
  BY <1>1, DivNat DEF MAX_BPS
<1>3. (total * bps + (MAX_BPS - 1)) \div MAX_BPS <= total
  BY <1>1, SMT DEF MAX_BPS
<1> QED BY <1>2, <1>3 DEF GetFee, Percentage

LEMMA ProtocolFeeWithinFee ==
  ASSUME NEW bps \in Nat, bps <= MAX_BPS, NEW fee \in Nat
  PROVE  ProtocolFee(fee, bps) \in Nat /\ ProtocolFee(fee, bps) <= fee
  BY PercentageWithinTotal DEF ProtocolFee

LEMMA CalculateNat ==
  ASSUME NEW n \in Nat, NEW amount \in Nat
  PROVE  /\ CalculateAssets(n, PRECISION, amount) \in Nat
         /\ n > 0 => CalculateShares(n, PRECISION, amount) \in Nat
<1>1. amount * n \in Nat /\ amount * PRECISION \in Nat
  BY MulNat, ConstantsAssumption
<1> QED BY <1>1, DivNat, ConstantsAssumption DEF CalculateAssets, CalculateShares

-----------------------------------------------------------------------------
(* What the type invariant says of the values the instructions compute *)

LEMMA ConfigType ==
  ASSUME NEW c \in Configs
  PROVE  /\ IsFee(c.deposit_fee) /\ IsFee(c.withdrawal_fee)
         /\ c.deposit_cap \in Nat
         /\ c.rolling_limit_window_slots \in Nat
         /\ c.redemption_rolling_limit \in Nat
         /\ c.external_withdraw_rolling_limit \in Nat
         /\ c.timelock_delay_slots \in Nat
         /\ c.protocol_fee_bps \in Nat
         /\ c.instant_redemption_fee_bps \in Nat
         /\ c.max_user_deposit_amount \in Nat
         /\ c.max_user_redeem_shares \in Nat
  BY ConstantsAssumption
     DEF IsConfig, ConfigFields, VaultFields, ExtensionFields, ThresholdFields

LEMMA FeePaidType ==
  ASSUME TypeOK, NEW fee \in Nat
  PROVE  FeePaid(fee) \in [recipient : Nat, protocol : Nat]
<1>1. config.protocol_fee_bps \in Nat /\ config.protocol_fee_bps <= MAX_BPS
  BY ConfigType DEF TypeOK, ValidateConfig
<1>2. ProtocolFee(fee, config.protocol_fee_bps) \in Nat
      /\ ProtocolFee(fee, config.protocol_fee_bps) <= fee
  BY <1>1, ProtocolFeeWithinFee
<1> QED BY <1>2 DEF FeePaid, TypeOK

LEMMA FeesNat ==
  ASSUME TypeOK, NEW amount \in Nat
  PROVE  DepositFee(amount) \in Nat /\ WithdrawalFee(amount) \in Nat
  BY ConfigType, GetFeeNat DEF TypeOK, DepositFee, WithdrawalFee

\* The instant redemption fee comes on top of the withdrawal fee.
LEMMA InstantFeeNat ==
  ASSUME TypeOK, NEW amount \in Nat
  PROVE  GetFee(Percentage(config.instant_redemption_fee_bps), amount) \in Nat
<1>1. config.instant_redemption_fee_bps \in Nat
      /\ config.instant_redemption_fee_bps <= MAX_BPS
  BY ConfigType DEF TypeOK, ValidateConfig
<1> QED BY <1>1, PercentageWithinTotal

LEMMA WindowType ==
  ASSUME NEW w \in Windows, NEW amount \in Nat, NEW now \in Nat, NEW limit, NEW length
  PROVE  ConsumeRollingLimit(w, amount, now, limit, length) \in Windows
<1>1. CurrentWindow(w, now, length) \in Windows
  BY DEF CurrentWindow, Windows
<1> QED BY <1>1 DEF ConsumeRollingLimit, Windows

LEMMA QueueType ==
  ASSUME TypeOK, NEW type \in RequestTypes
  PROVE  /\ queue[type] \in Queues
         /\ WrappingAdd1(queue[type].total) \in Ids
         /\ WrappingAdd1(queue[type].last_processed) \in Ids
         /\ NextQueueId(type) \in Ids \cup {NoQueueId}
         /\ QueueAfterCreate(type) \in [RequestTypes -> Queues]
<1>1. queue[type] \in Queues /\ queue \in [RequestTypes -> Queues]
  BY DEF TypeOK
<1>2. \A id \in Ids : WrappingAdd1(id) \in Ids
  BY U64MaxAssumption DEF WrappingAdd1, Ids
<1>3. /\ WrappingAdd1(queue[type].total) \in Ids
      /\ WrappingAdd1(queue[type].last_processed) \in Ids
  BY <1>1, <1>2 DEF Queues
<1>4. IncrementTotal(queue[type]) \in Queues
  BY <1>1, <1>3 DEF IncrementTotal, Queues
<1> QED BY <1>1, <1>3, <1>4 DEF NextQueueId, QueueAfterCreate

LEMMA LiveRequest ==
  ASSUME TypeOK, NEW r \in Requests, ~IsState(r, "Closed")
  PROVE  /\ request[r] \in RequestRecords
         /\ request[r].request_type \in RequestTypes
         /\ request[r].request_state \in {"Pending", "Claimable", "Canceled"}
         /\ request[r].owner \in Users
         /\ request[r].amount \in Nat
         /\ request[r].asset_mint \in Assets
         /\ request[r].queue_id \in Ids \cup {NoQueueId}
  BY DEF TypeOK, IsState, Closed, RequestRecords

LEMMA AdvanceType ==
  ASSUME TypeOK, NEW r \in Requests, ~IsState(r, "Closed"), InFifoOrder(r)
  PROVE  QueueAfterAdvance(r) \in [RequestTypes -> Queues]
<1> DEFINE type == request[r].request_type
<1>1. type \in RequestTypes
  BY LiveRequest
<1>2. HasQueue[type] => request[r].queue_id \in Ids
  BY <1>1, QueueType DEF InFifoOrder, IsHead
<1>3. HasQueue[type] => AdvanceTo(queue[type], request[r].queue_id) \in Queues
  BY <1>1, <1>2, QueueType DEF AdvanceTo, Queues
<1> QED BY <1>1, <1>3 DEF QueueAfterAdvance, TypeOK

-----------------------------------------------------------------------------
(* Type correctness, one lemma per group of instructions *)

LEMMA OpenRequestType ==
  ASSUME TypeOK, NEW r \in Requests, NEW type \in RequestTypes, NEW u \in Users,
         NEW asset \in Assets, NEW amount \in Amounts,
         NEW op \in Operators \cup {NoOperator},
         OpenRequest(r, type, u, asset, amount, op)
  PROVE  /\ request' \in [Requests -> RequestRecords \cup {Closed}]
         /\ pending_async_requests' \in 0 .. U16_MAX
         /\ queue' \in [RequestTypes -> Queues]
<1>1. NewRequest(type, u, asset, amount, op) \in RequestRecords
  BY QueueType, ConstantsAssumption DEF NewRequest, RequestRecords, TypeOK
<1>2. request' \in [Requests -> RequestRecords \cup {Closed}]
  BY <1>1 DEF OpenRequest, TypeOK
<1>3. pending_async_requests' \in 0 .. U16_MAX
  BY ConstantsAssumption DEF OpenRequest, TypeOK
<1> QED BY <1>2, <1>3, QueueType DEF OpenRequest

LEMMA CreateDepositType ==
  ASSUME TypeOK, NEW r \in Requests, NEW u \in Users, NEW asset \in Assets,
         NEW amount \in Amounts, NEW op \in Operators \cup {NoOperator},
         CreateDepositRequest(r, u, asset, amount, op)
  PROVE  TypeOK'
<1>1. /\ request' \in [Requests -> RequestRecords \cup {Closed}]
      /\ pending_async_requests' \in 0 .. U16_MAX
      /\ queue' \in [RequestTypes -> Queues]
  BY OpenRequestType DEF CreateDepositRequest, RequestTypes
<1>2. wallet' \in [Users -> [Assets -> Nat]]
  BY ConstantsAssumption DEF CreateDepositRequest, TypeOK
<1>3. pending_vault' \in [Assets -> Nat] /\ pending_deposit_amount' \in [Assets -> Nat]
  BY ConstantsAssumption DEF CreateDepositRequest, TypeOK
<1> QED
  BY <1>1, <1>2, <1>3
     DEF CreateDepositRequest, TypeOK, configVars, navVars, limitVars, assetVars, outVars

LEMMA CreateRedeemType ==
  ASSUME TypeOK, NEW r \in Requests, NEW u \in Users, NEW asset \in Assets,
         NEW amount \in Amounts, NEW op \in Operators \cup {NoOperator},
         CreateRedeemRequest(r, u, asset, amount, op)
  PROVE  TypeOK'
<1>1. /\ request' \in [Requests -> RequestRecords \cup {Closed}]
      /\ pending_async_requests' \in 0 .. U16_MAX
      /\ queue' \in [RequestTypes -> Queues]
  BY OpenRequestType DEF CreateRedeemRequest, RequestTypes
<1>2. share_balance' \in [Users -> Nat]
  BY ConstantsAssumption DEF CreateRedeemRequest, TypeOK
<1> QED
  BY <1>1, <1>2
     DEF CreateRedeemRequest, TypeOK, configVars, navVars, limitVars, assetVars, outVars,
         escrowVars

\* What approve_request, of either type, does to the request, the count and the
\* queue.
LEMMA MarkClaimableType ==
  ASSUME TypeOK, NEW r \in Requests, CanApprove(r), NEW claimable \in Nat,
         MarkClaimable(r, claimable)
  PROVE  /\ request' \in [Requests -> RequestRecords \cup {Closed}]
         /\ pending_async_requests' \in 0 .. U16_MAX
         /\ queue' \in [RequestTypes -> Queues]
<1>0. ~IsState(r, "Closed")
  BY DEF CanApprove, IsState
<1>1. request[r] \in RequestRecords
  BY <1>0, LiveRequest
<1>2. request' \in [Requests -> RequestRecords \cup {Closed}]
  BY <1>1 DEF MarkClaimable, RequestRecords, TypeOK
<1>3. pending_async_requests' \in 0 .. U16_MAX
  BY ConstantsAssumption DEF MarkClaimable, LeavePendingCount, TypeOK
<1>4. queue' \in [RequestTypes -> Queues]
  BY <1>0, AdvanceType DEF MarkClaimable, CanApprove
<1> QED BY <1>2, <1>3, <1>4

LEMMA ApproveDepositType ==
  ASSUME TypeOK, NEW r \in Requests, ApproveDeposit(r)
  PROVE  TypeOK'
<1> DEFINE amount == request[r].amount
           fee    == DepositFee(amount)
           net    == amount - fee
           shares == CalculateShares(nav, PRECISION, net)
<1>0. ~IsState(r, "Closed") /\ CanApprove(r) /\ nav \in Nat /\ nav > 0
  BY DEF ApproveDeposit, CanApprove, IsState, TypeOK
<1>1. amount \in Nat /\ fee \in Nat
  BY <1>0, LiveRequest, FeesNat
<1>2. net \in Nat
  BY <1>1 DEF ApproveDeposit
<1>3. shares \in Nat
  BY <1>0, <1>2, CalculateNat
<1>4. /\ request' \in [Requests -> RequestRecords \cup {Closed}]
      /\ pending_async_requests' \in 0 .. U16_MAX
      /\ queue' \in [RequestTypes -> Queues]
  BY <1>0, <1>3, MarkClaimableType DEF ApproveDeposit, DepositOutcome
<1>5. fee_balance' \in [recipient : Nat, protocol : Nat]
  BY <1>1, FeePaidType DEF ApproveDeposit
<1>6. pending_vault' \in [Assets -> Nat] /\ pending_deposit_amount' \in [Assets -> Nat]
  BY <1>1 DEF ApproveDeposit, DepositOutcome, TypeOK, Assets
<1>7. reserve' \in Nat /\ total_asset_balance' \in Nat
  BY <1>2 DEF ApproveDeposit, DepositOutcome, TypeOK
<1> QED
  BY <1>4, <1>5, <1>6, <1>7
     DEF ApproveDeposit, TypeOK, configVars, navVars, limitVars, assetVars, outVars, userVars

LEMMA ApproveRedeemType ==
  ASSUME TypeOK, NEW r \in Requests, ApproveRedeem(r)
  PROVE  TypeOK'
<1> DEFINE assets == CalculateAssets(nav, PRECISION, request[r].amount)
           fee    == WithdrawalFee(assets)
           net    == assets - fee
<1>0. ~IsState(r, "Closed") /\ CanApprove(r) /\ nav \in Nat
  BY DEF ApproveRedeem, CanApprove, IsState, TypeOK
<1>1. assets \in Nat
  BY <1>0, LiveRequest, CalculateNat
<1>2. fee \in Nat /\ net \in Nat
  BY <1>1, FeesNat DEF ApproveRedeem
<1>4. /\ request' \in [Requests -> RequestRecords \cup {Closed}]
      /\ pending_async_requests' \in 0 .. U16_MAX
      /\ queue' \in [RequestTypes -> Queues]
  BY <1>0, <1>2, MarkClaimableType DEF ApproveRedeem, RedeemOutcome
<1>5. fee_balance' \in [recipient : Nat, protocol : Nat]
  BY <1>2, FeePaidType DEF ApproveRedeem
<1>6. pending_vault' \in [Assets -> Nat]
  BY <1>2 DEF ApproveRedeem, TypeOK, Assets
<1>7. reserve' \in Nat /\ total_asset_balance' \in Nat
  BY <1>1 DEF ApproveRedeem, RedeemOutcome, TypeOK
<1>8. redemption_window' \in Windows
  BY <1>1, WindowType DEF ApproveRedeem, TypeOK
<1> QED
  BY <1>4, <1>5, <1>6, <1>7, <1>8
     DEF ApproveRedeem, TypeOK, configVars, navVars, assetVars, outVars, userVars

\* The refund of a rejected or cancelled request.
LEMMA UnwindType ==
  ASSUME TypeOK, NEW r \in Requests, ~IsState(r, "Closed"), Unwind(r),
         request' \in [Requests -> RequestRecords \cup {Closed}],
         queue' \in [RequestTypes -> Queues]
  PROVE  TypeOK'
<1>1. /\ request[r].owner \in Users
      /\ request[r].amount \in Nat
      /\ request[r].asset_mint \in Assets
  BY LiveRequest
<1>2. pending_async_requests' \in 0 .. U16_MAX
  BY ConstantsAssumption DEF Unwind, LeavePendingCount, TypeOK
<1>3. /\ wallet' \in [Users -> [Assets -> Nat]] /\ share_balance' \in [Users -> Nat]
      /\ pending_vault' \in [Assets -> Nat] /\ pending_deposit_amount' \in [Assets -> Nat]
  <2>1. CASE RefundDeposit(r)
    BY <1>1, <2>1 DEF RefundDeposit, TypeOK
  <2>2. CASE RefundRedeem(r)
    BY <1>1, <2>2 DEF RefundRedeem, TypeOK, escrowVars
  <2> QED BY <2>1, <2>2 DEF Unwind
<1> QED
  BY <1>2, <1>3 DEF Unwind, TypeOK, configVars, navVars, limitVars, assetVars, outVars

LEMMA RejectRequestType ==
  ASSUME TypeOK, NEW r \in Requests, RejectRequest(r)
  PROVE  TypeOK'
<1>1. ~IsState(r, "Closed")
  BY DEF RejectRequest, IsState
<1>2. request' \in [Requests -> RequestRecords \cup {Closed}]
  BY DEF RejectRequest, TypeOK
<1>3. queue' \in [RequestTypes -> Queues]
  BY <1>1, AdvanceType DEF RejectRequest
<1> QED BY <1>1, <1>2, <1>3, UnwindType DEF RejectRequest

LEMMA CancelRequestType ==
  ASSUME TypeOK, NEW r \in Requests, CancelRequest(r)
  PROVE  TypeOK'
<1>1. ~IsState(r, "Closed")
  BY DEF CancelRequest, IsState
<1>2. request' \in [Requests -> RequestRecords \cup {Closed}]
  BY DEF CancelRequest, TypeOK
<1>3. queue' \in [RequestTypes -> Queues]
  BY DEF CancelRequest, TypeOK
<1> QED BY <1>1, <1>2, <1>3, UnwindType DEF CancelRequest

LEMMA CancelQueuedType ==
  ASSUME TypeOK, NEW r \in Requests, CancelQueued(r)
  PROVE  TypeOK'
<1>1. ~IsState(r, "Closed")
  BY DEF CancelQueued, IsState
<1>2. Tombstone(request[r]) \in RequestRecords
  BY <1>1, LiveRequest DEF Tombstone, RequestRecords
<1>3. request' \in [Requests -> RequestRecords \cup {Closed}]
  BY <1>2 DEF CancelQueued, TypeOK
<1>4. queue' \in [RequestTypes -> Queues]
  BY DEF CancelQueued, TypeOK
<1> QED BY <1>1, <1>3, <1>4, UnwindType DEF CancelQueued

LEMMA SkipType ==
  ASSUME TypeOK, NEW r \in Requests, SkipCanceledQueueRequest(r)
  PROVE  TypeOK'
<1>1. ~IsState(r, "Closed")
  BY DEF SkipCanceledQueueRequest, IsState
<1>2. queue' \in [RequestTypes -> Queues]
  BY <1>1, AdvanceType DEF SkipCanceledQueueRequest
<1> QED
  BY <1>2 DEF SkipCanceledQueueRequest, TypeOK, configVars, navVars, limitVars, assetVars,
              outVars, escrowVars, userVars

LEMMA ClaimType ==
  ASSUME TypeOK, NEW r \in Requests, NEW signer \in Users, Claim(r, signer)
  PROVE  TypeOK'
<1>1. ~IsState(r, "Closed")
  BY DEF Claim, IsState
<1>2. /\ request[r].owner \in Users
      /\ request[r].amount \in Nat
      /\ request[r].asset_mint \in Assets
  BY <1>1, LiveRequest
<1>3. /\ wallet' \in [Users -> [Assets -> Nat]] /\ share_balance' \in [Users -> Nat]
      /\ pending_vault' \in [Assets -> Nat]
  <2>1. CASE ClaimShares(r)
    BY <1>2, <2>1 DEF ClaimShares, TypeOK
  <2>2. CASE ClaimAssets(r)
    BY <1>2, <2>2 DEF ClaimAssets, TypeOK
  <2> QED BY <2>1, <2>2 DEF Claim
<1> QED
  BY <1>3 DEF Claim, TypeOK, configVars, navVars, limitVars, assetVars, outVars

LEMMA SetOperatorType ==
  ASSUME TypeOK, NEW r \in Requests, NEW op \in Operators, SetOperator(r, op)
  PROVE  TypeOK'
<1>1. request[r] \in RequestRecords
  BY LiveRequest DEF SetOperator
<1>2. request' \in [Requests -> RequestRecords \cup {Closed}]
  BY <1>1 DEF SetOperator, RequestRecords, TypeOK
<1> QED
  BY <1>2 DEF SetOperator, TypeOK, configVars, navVars, limitVars, assetVars, outVars,
              escrowVars, userVars

LEMMA InstantDepositType ==
  ASSUME TypeOK, NEW u \in Users, NEW amount \in Amounts, InstantDeposit(u, amount)
  PROVE  TypeOK'
<1> DEFINE fee == DepositFee(amount)
           net == amount - fee
           shares == CalculateShares(nav, PRECISION, net)
<1>1. amount \in Nat /\ fee \in Nat /\ nav \in Nat /\ nav > 0 /\ Primary \in Assets
  BY FeesNat, ConstantsAssumption DEF InstantDeposit, InstantAllowed, TypeOK, Assets
<1>2. net \in Nat
  BY <1>1 DEF InstantDeposit
<1>3. shares \in Nat
  BY <1>1, <1>2, CalculateNat
<1>4. instant_user' \in [Users -> [deposit : Windows, redeem : Windows]]
  BY <1>1, WindowType DEF InstantDeposit, TypeOK
<1>5. wallet' \in [Users -> [Assets -> Nat]]
  BY <1>1 DEF InstantDeposit, TypeOK
<1>6. share_balance' \in [Users -> Nat]
  BY <1>3 DEF InstantDeposit, TypeOK
<1>7. fee_balance' \in [recipient : Nat, protocol : Nat]
  BY <1>1, FeePaidType DEF InstantDeposit
<1>8. reserve' \in Nat /\ total_asset_balance' \in Nat
  BY <1>2 DEF InstantDeposit, TypeOK
<1> QED
  BY <1>4, <1>5, <1>6, <1>7, <1>8
     DEF InstantDeposit, TypeOK, configVars, navVars, assetVars, outVars, escrowVars

LEMMA InstantRedeemType ==
  ASSUME TypeOK, NEW u \in Users, NEW shares \in Amounts, InstantRedeem(u, shares)
  PROVE  TypeOK'
<1> DEFINE gross == CalculateAssets(nav, PRECISION, shares)
           fee == WithdrawalFee(gross)
                    + GetFee(Percentage(config.instant_redemption_fee_bps), gross)
<1>1. shares \in Nat /\ gross \in Nat /\ Primary \in Assets
  BY CalculateNat, ConstantsAssumption DEF TypeOK, Assets
<1>2. fee \in Nat
  BY <1>1, FeesNat, InstantFeeNat
<1>3. instant_user' \in [Users -> [deposit : Windows, redeem : Windows]]
  BY <1>1, WindowType DEF InstantRedeem, TypeOK
<1>4. redemption_window' \in Windows
  BY <1>1, WindowType DEF InstantRedeem, TypeOK
<1>5. gross - fee \in Nat
  BY <1>1, <1>2 DEF InstantRedeem
<1>6. wallet' \in [Users -> [Assets -> Nat]]
  BY <1>1, <1>5 DEF InstantRedeem, TypeOK
<1>7. share_balance' \in [Users -> Nat]
  BY <1>1 DEF InstantRedeem, TypeOK
<1>8. fee_balance' \in [recipient : Nat, protocol : Nat]
  BY <1>2, FeePaidType DEF InstantRedeem
<1>9. reserve' \in Nat /\ total_asset_balance' \in Nat
  BY <1>1 DEF InstantRedeem, TypeOK
<1> QED
  BY <1>3, <1>4, <1>6, <1>7, <1>8, <1>9
     DEF InstantRedeem, TypeOK, configVars, navVars, assetVars, outVars, escrowVars

LEMMA ManageType ==
  ASSUME TypeOK, Manage
  PROVE  TypeOK'
<1> USE DEF configVars, navVars, limitVars, assetVars, outVars, escrowVars, userVars
<1>1. CASE \E n \in Navs : UpdateVaultNav(n)
  BY <1>1, ConstantsAssumption DEF UpdateVaultNav, TypeOK
<1>2. CASE \E c \in Configs, p \in BOOLEAN : UpdateVault(c, p)
  BY <1>2 DEF UpdateVault, TypeOK
<1>3. CASE \E c \in Configs : ExecuteVaultUpdate(c)
  BY <1>3 DEF ExecuteVaultUpdate, TypeOK
<1>4. CASE \E c \in Configs : UpdateExtension(c)
  <2>1. PICK c \in Configs : UpdateExtension(c)
    BY <1>4
  <2>2. \A f \in VaultFields : c[f] = config[f]
    BY <2>1 DEF UpdateExtension, DiffersIn, ConfigFields, VaultFields, ExtensionFields
  <2>3. ValidateConfig(c)
    BY <2>2 DEF ValidateConfig, TypeOK, VaultFields
  <2> QED BY <2>1, <2>3 DEF UpdateExtension, TypeOK, ValidateConfig
<1>5. CASE PauseVault
  BY <1>5 DEF PauseVault, TypeOK
<1>6. CASE \E asset \in SecondaryAssets, cap \in Amounts : AddVaultAsset(asset, cap)
  BY <1>6, ConstantsAssumption DEF AddVaultAsset, TypeOK
<1>7. CASE \E asset \in SecondaryAssets : RemoveVaultAsset(asset)
  BY <1>7 DEF RemoveVaultAsset, TypeOK
<1>8. CASE \E amount \in Amounts : WithdrawAssets(amount)
  <2>1. PICK amount \in Amounts : WithdrawAssets(amount)
    BY <1>8
  <2>2. amount \in Nat /\ external_withdraw_window' \in Windows
    BY <2>1, WindowType, ConstantsAssumption DEF WithdrawAssets, TypeOK
  <2>3. reserve' \in Nat /\ withdrawn' \in Nat
    BY <2>1, <2>2 DEF WithdrawAssets, TypeOK
  <2> QED BY <2>1, <2>2, <2>3 DEF WithdrawAssets, TypeOK
<1> QED BY <1>1, <1>2, <1>3, <1>4, <1>5, <1>6, <1>7, <1>8 DEF Manage

LEMMA OutsideType ==
  ASSUME TypeOK, Outside
  PROVE  TypeOK'
<1> USE DEF configVars, navVars, limitVars, assetVars, outVars, escrowVars, userVars
<1>1. CASE \E amount \in Amounts : ReturnAssets(amount)
  BY <1>1, ConstantsAssumption DEF ReturnAssets, TypeOK
<1>2. CASE Tick
  BY <1>2 DEF Tick, TypeOK
<1> QED BY <1>1, <1>2 DEF Outside

LEMMA InitType == Init => TypeOK
<1> SUFFICES ASSUME Init PROVE TypeOK
  OBVIOUS
<1>1. NewQueue \in Queues
  BY U64MaxAssumption DEF NewQueue, Queues, Ids
<1>2. NoWindow \in Windows
  BY DEF NoWindow, Windows
<1>3. /\ queue \in [RequestTypes -> Queues]
      /\ instant_user \in [Users -> [deposit : Windows, redeem : Windows]]
      /\ redemption_window \in Windows /\ external_withdraw_window \in Windows
  BY <1>1, <1>2 DEF Init
<1>4. /\ request \in [Requests -> RequestRecords \cup {Closed}]
      /\ vault_asset \in [SecondaryAssets -> Nat \cup {NotApproved}]
  BY DEF Init
<1>5. /\ pending_deposit_amount \in [Assets -> Nat] /\ pending_vault \in [Assets -> Nat]
      /\ wallet \in [Users -> [Assets -> Nat]] /\ share_balance \in [Users -> Nat]
      /\ fee_balance \in [recipient : Nat, protocol : Nat]
  BY ConstantsAssumption DEF Init
<1>6. /\ nav \in Nat /\ nav_version \in Nat /\ last_nav_update_slot \in Nat /\ slot \in Nat
      /\ pending_async_requests \in 0 .. U16_MAX
      /\ total_asset_balance \in Nat /\ approved_asset_count \in Nat
      /\ reserve \in Nat /\ withdrawn \in Nat /\ returned \in Nat
  BY ConstantsAssumption DEF Init
<1>7. config \in Configs /\ ValidateConfig(config) /\ paused \in BOOLEAN
  BY DEF Init
<1> QED BY <1>3, <1>4, <1>5, <1>6, <1>7 DEF TypeOK

\* Every instruction keeps every account within its type: checked subtractions
\* that pass leave naturals, a count never exceeds u16, ids never leave u64, a
\* fee never exceeds what it is taken from.
THEOREM TypeCorrect == Spec => []TypeOK
<1>1. TypeOK /\ [Next]_vars => TypeOK'
  <2> SUFFICES ASSUME TypeOK, [Next]_vars PROVE TypeOK'
    OBVIOUS
  <2>1. CASE Create
    BY <2>1, CreateDepositType, CreateRedeemType DEF Create
  <2>2. CASE Settle
    BY <2>2, ApproveDepositType, ApproveRedeemType, RejectRequestType, CancelRequestType,
       CancelQueuedType, SkipType, ClaimType, SetOperatorType
       DEF Settle, CancelQueuedDepositRequest, CancelQueuedRedemptionRequest
  <2>3. CASE Instant
    BY <2>3, InstantDepositType, InstantRedeemType DEF Instant
  <2>4. CASE Manage
    BY <2>4, ManageType
  <2>5. CASE Outside
    BY <2>5, OutsideType
  <2>6. CASE UNCHANGED vars
    BY <2>6 DEF vars, configVars, navVars, limitVars, assetVars, outVars, escrowVars,
                userVars, TypeOK
  <2> QED BY <2>1, <2>2, <2>3, <2>4, <2>5, <2>6 DEF Next
<1> QED BY InitType, <1>1, PTL DEF Spec

-----------------------------------------------------------------------------
(* The virtual balance *)

\* Settlements move the reserve and total_asset_balance together; what else
\* moves the reserve is an external withdrawal or a return, which the other two
\* terms count.
LEMMA VirtualReserveStep ==
  ASSUME TypeOK, BalanceIsVirtualReserve, [Next]_vars
  PROVE  BalanceIsVirtualReserve'
<1> USE DEF BalanceIsVirtualReserve
<1>0. /\ total_asset_balance \in Nat /\ reserve \in Nat
      /\ withdrawn \in Nat /\ returned \in Nat
  BY DEF TypeOK
<1>1. \A r \in Requests, u \in Users, asset \in Assets, amount \in Amounts,
         op \in Operators \cup {NoOperator} :
        CreateDepositRequest(r, u, asset, amount, op)
          \/ CreateRedeemRequest(r, u, asset, amount, op) => BalanceIsVirtualReserve'
  BY DEF CreateDepositRequest, CreateRedeemRequest, outVars
<1>2. ASSUME NEW r \in Requests, ApproveDeposit(r)
      PROVE  BalanceIsVirtualReserve'
  <2> DEFINE net == request[r].amount - DepositFee(request[r].amount)
  <2>1. ~IsState(r, "Closed")
    BY <1>2 DEF ApproveDeposit, CanApprove, IsState
  <2>2. net \in Int
    BY <2>1, LiveRequest, FeesNat
  <2>3. /\ reserve' = reserve + net
        /\ total_asset_balance' = total_asset_balance + net
        /\ withdrawn' = withdrawn /\ returned' = returned
    BY <1>2 DEF ApproveDeposit, DepositOutcome, outVars
  <2> HIDE DEF net
  <2> QED BY <1>0, <2>2, <2>3
<1>3. ASSUME NEW r \in Requests, ApproveRedeem(r)
      PROVE  BalanceIsVirtualReserve'
  <2> DEFINE assets == CalculateAssets(nav, PRECISION, request[r].amount)
  <2>1. ~IsState(r, "Closed") /\ nav \in Nat
    BY <1>3 DEF ApproveRedeem, CanApprove, IsState, TypeOK
  <2>2. assets \in Nat
    BY <2>1, LiveRequest, CalculateNat
  <2>3. /\ reserve' = reserve - assets
        /\ total_asset_balance' = total_asset_balance - assets
        /\ withdrawn' = withdrawn /\ returned' = returned
    BY <1>3 DEF ApproveRedeem, RedeemOutcome, outVars
  <2> HIDE DEF assets
  <2> QED BY <1>0, <2>2, <2>3
<1>4. ASSUME NEW r \in Requests,
             RejectRequest(r) \/ CancelRequest(r) \/ CancelQueued(r)
      PROVE  BalanceIsVirtualReserve'
  BY <1>4 DEF RejectRequest, CancelRequest, CancelQueued, Unwind, outVars
<1>5. ASSUME NEW r \in Requests,
             \/ SkipCanceledQueueRequest(r)
             \/ \E signer \in Users : Claim(r, signer)
             \/ \E op \in Operators : SetOperator(r, op)
      PROVE  BalanceIsVirtualReserve'
  BY <1>5 DEF SkipCanceledQueueRequest, Claim, SetOperator, outVars
<1>6. ASSUME NEW u \in Users, NEW amount \in Amounts, InstantDeposit(u, amount)
      PROVE  BalanceIsVirtualReserve'
  <2> DEFINE net == amount - DepositFee(amount)
  <2>1. net \in Int
    BY FeesNat, ConstantsAssumption
  <2>2. /\ reserve' = reserve + net
        /\ total_asset_balance' = total_asset_balance + net
        /\ withdrawn' = withdrawn /\ returned' = returned
    BY <1>6 DEF InstantDeposit, outVars
  <2> HIDE DEF net
  <2> QED BY <1>0, <2>1, <2>2
<1>7. ASSUME NEW u \in Users, NEW shares \in Amounts, InstantRedeem(u, shares)
      PROVE  BalanceIsVirtualReserve'
  <2> DEFINE gross == CalculateAssets(nav, PRECISION, shares)
  <2>1. gross \in Nat
    BY CalculateNat, ConstantsAssumption DEF TypeOK
  <2>2. /\ reserve' = reserve - gross
        /\ total_asset_balance' = total_asset_balance - gross
        /\ withdrawn' = withdrawn /\ returned' = returned
    BY <1>7 DEF InstantRedeem, outVars
  <2> HIDE DEF gross
  <2> QED BY <1>0, <2>1, <2>2
<1>8. CASE Manage
  <2>1. CASE \E amount \in Amounts : WithdrawAssets(amount)
    <3>1. PICK amount \in Amounts : WithdrawAssets(amount)
      BY <2>1
    <3>2. /\ reserve' = reserve - amount /\ withdrawn' = withdrawn + amount
          /\ total_asset_balance' = total_asset_balance /\ returned' = returned
      BY <3>1 DEF WithdrawAssets
    <3> QED BY <1>0, <3>2, ConstantsAssumption
  <2>2. CASE ~ \E amount \in Amounts : WithdrawAssets(amount)
    BY <1>8, <2>2
       DEF Manage, UpdateVaultNav, UpdateVault, ExecuteVaultUpdate, UpdateExtension,
           PauseVault, AddVaultAsset, RemoveVaultAsset, outVars
  <2> QED BY <2>1, <2>2
<1>9. CASE Outside
  <2>1. CASE \E amount \in Amounts : ReturnAssets(amount)
    <3>1. PICK amount \in Amounts : ReturnAssets(amount)
      BY <2>1
    <3>2. /\ reserve' = reserve + amount /\ returned' = returned + amount
          /\ total_asset_balance' = total_asset_balance /\ withdrawn' = withdrawn
      BY <3>1 DEF ReturnAssets
    <3> QED BY <1>0, <3>2, ConstantsAssumption
  <2>2. CASE Tick
    BY <2>2 DEF Tick, outVars
  <2> QED BY <1>9, <2>1, <2>2 DEF Outside
<1>10. CASE UNCHANGED vars
  BY <1>10 DEF vars, outVars
<1> QED
  BY <1>1, <1>2, <1>3, <1>4, <1>5, <1>6, <1>7, <1>8, <1>9, <1>10
     DEF Next, Create, Settle, Instant, CancelQueuedDepositRequest,
         CancelQueuedRedemptionRequest

\* The virtual balance that prices caps and bounds redemptions is the reserve
\* plus what was withdrawn minus what was sent back, whatever else happened.
THEOREM VirtualReserve == Spec => []BalanceIsVirtualReserve
<1>1. Init => BalanceIsVirtualReserve
  BY DEF Init, BalanceIsVirtualReserve
<1> QED BY <1>1, TypeCorrect, VirtualReserveStep, PTL DEF Spec
-----------------------------------------------------------------------------
(* One instruction changes one request account *)

\* What request r weighs in pending_deposit_amount, in the escrow account of an
\* asset and in pending_async_requests.
DepositWeight(r, asset) == IF r \in PendingDeposits(asset) THEN request[r].amount ELSE 0
EscrowWeight(r, asset) == IF r \in InEscrow(asset) THEN request[r].amount ELSE 0
CountWeight(r) == IF r \in PendingRequests THEN 1 ELSE 0

\* An instruction leaves every request account but r alone.
TouchesOnly(r) == \A s \in Requests \ {r} : request'[s] = request[s]

LEMMA LiveAmounts ==
  ASSUME TypeOK
  PROVE  \A r \in Requests : ~IsState(r, "Closed") => request[r].amount \in Nat
  BY LiveRequest

LEMMA LiveAmountsAfter ==
  ASSUME TypeOK'
  PROVE  \A r \in Requests : ~IsState(r, "Closed")' => request'[r].amount \in Nat
  BY DEF TypeOK, IsState, Closed, RequestRecords

LEMMA PendingDepositsStep ==
  ASSUME TypeOK, TypeOK', NEW r \in Requests, TouchesOnly(r), NEW asset
  PROVE  TotalAmount(PendingDeposits(asset))'
           = TotalAmount(PendingDeposits(asset)) - DepositWeight(r, asset)
                                                 + DepositWeight(r, asset)'
<1> DEFINE S == PendingDeposits(asset)
           T == PendingDeposits(asset)'
<1>1. IsFiniteSet(S)
  <2>1. S \subseteq Requests
    BY DEF PendingDeposits, PendingRequests
  <2> QED BY <2>1, FS_Subset, ConstantsAssumption
<1>2. S \ {r} = T \ {r}
  BY DEF PendingDeposits, PendingRequests, IsState, IsType, TouchesOnly
<1>3. \A s \in S : request[s].amount \in Nat
  BY LiveAmounts DEF PendingDeposits, PendingRequests, IsState
<1>4. \A s \in T : request'[s].amount \in Nat
  BY LiveAmountsAfter DEF PendingDeposits, PendingRequests, IsState
<1>5. \A s \in S \ {r} : request'[s].amount = request[s].amount
  BY DEF PendingDeposits, PendingRequests, TouchesOnly
<1>6. /\ TotalAmount(PendingDeposits(asset)) = AmountOf(request, S)
      /\ TotalAmount(PendingDeposits(asset))' = AmountOf(request', T)
  BY DEF TotalAmount
<1>7. /\ DepositWeight(r, asset) = IF r \in S THEN request[r].amount ELSE 0
      /\ DepositWeight(r, asset)' = IF r \in T THEN request'[r].amount ELSE 0
  BY DEF DepositWeight
<1> DEFINE old == request
           new == request'
           x == DepositWeight(r, asset)
           y == DepositWeight(r, asset)'
<1> HIDE DEF S, T, old, new, x, y
<1>8. AmountOf(new, T) = AmountOf(old, S) - x + y
  <2>1. /\ \A s \in S : old[s].amount \in Nat
        /\ \A s \in T : new[s].amount \in Nat
        /\ \A s \in S \ {r} : new[s].amount = old[s].amount
        /\ x = IF r \in S THEN old[r].amount ELSE 0
        /\ y = IF r \in T THEN new[r].amount ELSE 0
    BY <1>3, <1>4, <1>5, <1>7 DEF old, new, x, y
  <2> QED BY <1>1, <1>2, <2>1, AmountReplaced
<1> QED BY <1>6, <1>8 DEF old, new, x, y

LEMMA InEscrowStep ==
  ASSUME TypeOK, TypeOK', NEW r \in Requests, TouchesOnly(r), NEW asset
  PROVE  TotalAmount(InEscrow(asset))'
           = TotalAmount(InEscrow(asset)) - EscrowWeight(r, asset) + EscrowWeight(r, asset)'
<1> DEFINE S == InEscrow(asset)
           T == InEscrow(asset)'
<1> USE DEF InEscrow, ClaimableRedeems, PendingDeposits, PendingRequests
<1>1. IsFiniteSet(S)
  <2>1. S \subseteq Requests
    OBVIOUS
  <2> QED BY <2>1, FS_Subset, ConstantsAssumption
<1>2. S \ {r} = T \ {r}
  BY DEF IsState, IsType, TouchesOnly
<1>3. \A s \in S : request[s].amount \in Nat
  BY LiveAmounts DEF IsState
<1>4. \A s \in T : request'[s].amount \in Nat
  BY LiveAmountsAfter DEF IsState
<1>5. \A s \in S \ {r} : request'[s].amount = request[s].amount
  BY DEF TouchesOnly
<1> HIDE DEF InEscrow, ClaimableRedeems, PendingDeposits, PendingRequests
<1>6. /\ TotalAmount(InEscrow(asset)) = AmountOf(request, S)
      /\ TotalAmount(InEscrow(asset))' = AmountOf(request', T)
  BY DEF TotalAmount
<1>7. /\ EscrowWeight(r, asset) = IF r \in S THEN request[r].amount ELSE 0
      /\ EscrowWeight(r, asset)' = IF r \in T THEN request'[r].amount ELSE 0
  BY DEF EscrowWeight
<1> DEFINE old == request
           new == request'
           x == EscrowWeight(r, asset)
           y == EscrowWeight(r, asset)'
<1> HIDE DEF S, T, old, new, x, y
<1>8. AmountOf(new, T) = AmountOf(old, S) - x + y
  <2>1. /\ \A s \in S : old[s].amount \in Nat
        /\ \A s \in T : new[s].amount \in Nat
        /\ \A s \in S \ {r} : new[s].amount = old[s].amount
        /\ x = IF r \in S THEN old[r].amount ELSE 0
        /\ y = IF r \in T THEN new[r].amount ELSE 0
    BY <1>3, <1>4, <1>5, <1>7 DEF old, new, x, y
  <2> QED BY <1>1, <1>2, <2>1, AmountReplaced
<1> QED BY <1>6, <1>8 DEF old, new, x, y

LEMMA PendingCountStep ==
  ASSUME NEW r \in Requests, TouchesOnly(r)
  PROVE  Cardinality(PendingRequests)'
           = Cardinality(PendingRequests) - CountWeight(r) + CountWeight(r)'
<1> DEFINE S == PendingRequests
           T == PendingRequests'
<1>1. IsFiniteSet(S) /\ IsFiniteSet(T)
  <2>1. S \subseteq Requests /\ T \subseteq Requests
    BY DEF PendingRequests
  <2> QED BY <2>1, FS_Subset, ConstantsAssumption
<1>2. S \ {r} = T \ {r}
  BY DEF PendingRequests, IsState, TouchesOnly
<1>3. /\ CountWeight(r) = IF r \in S THEN 1 ELSE 0
      /\ CountWeight(r)' = IF r \in T THEN 1 ELSE 0
  BY DEF CountWeight
<1> HIDE DEF S, T
<1>4. Cardinality(S \ {r}) = Cardinality(S) - (IF r \in S THEN 1 ELSE 0)
  BY <1>1, FS_RemoveElement, FS_CardinalityType
<1>5. Cardinality(T \ {r}) = Cardinality(T) - (IF r \in T THEN 1 ELSE 0)
  BY <1>1, FS_RemoveElement, FS_CardinalityType
<1>6. Cardinality(S) \in Nat /\ Cardinality(T) \in Nat
  BY <1>1, FS_CardinalityType
<1>7. Cardinality(T) = Cardinality(S) - (IF r \in S THEN 1 ELSE 0) + (IF r \in T THEN 1 ELSE 0)
  <2>1. Cardinality(S \ {r}) = Cardinality(T \ {r})
    BY <1>2
  <2> QED BY <2>1, <1>4, <1>5, <1>6
<1> QED BY <1>3, <1>7 DEF S, T

-----------------------------------------------------------------------------
(* The inductive invariant: the three accounts together *)

AccountsExact == EscrowBacked /\ PendingDepositsExact /\ PendingCountExact

\* An instruction that changes one request, and each account by the difference
\* of what that request weighed before and weighs after, keeps them exact.
LEMMA Rebalance ==
  ASSUME TypeOK, TypeOK', AccountsExact, NEW r \in Requests, TouchesOnly(r),
         \A asset \in Assets :
           pending_vault'[asset]
             = pending_vault[asset] - EscrowWeight(r, asset) + EscrowWeight(r, asset)',
         \A asset \in Assets :
           pending_deposit_amount'[asset]
             = pending_deposit_amount[asset] - DepositWeight(r, asset)
                                             + DepositWeight(r, asset)',
         pending_async_requests' = pending_async_requests - CountWeight(r) + CountWeight(r)'
  PROVE  AccountsExact'
<1>1. EscrowBacked'
  <2> SUFFICES ASSUME NEW asset \in Assets
               PROVE  pending_vault'[asset] = TotalAmount(InEscrow(asset))'
    BY DEF EscrowBacked
  <2> QED BY InEscrowStep DEF AccountsExact, EscrowBacked
<1>2. PendingDepositsExact'
  <2> SUFFICES ASSUME NEW asset \in Assets
               PROVE  pending_deposit_amount'[asset] = TotalAmount(PendingDeposits(asset))'
    BY DEF PendingDepositsExact
  <2> QED BY PendingDepositsStep DEF AccountsExact, PendingDepositsExact
<1>3. PendingCountExact'
  BY PendingCountStep DEF AccountsExact, PendingCountExact
<1> QED BY <1>1, <1>2, <1>3 DEF AccountsExact

\* The weights of a request in each of its states.
LEMMA Weights ==
  ASSUME NEW r \in Requests, NEW asset
  PROVE  /\ DepositWeight(r, asset) =
              IF IsState(r, "Pending") /\ request[r].request_type = "Deposit"
                   /\ request[r].asset_mint = asset
                THEN request[r].amount ELSE 0
         /\ EscrowWeight(r, asset) =
              IF request[r].asset_mint = asset
                   /\ \/ IsState(r, "Pending") /\ request[r].request_type = "Deposit"
                      \/ IsState(r, "Claimable") /\ request[r].request_type = "Redeem"
                THEN request[r].amount ELSE 0
         /\ CountWeight(r) = IF IsState(r, "Pending") THEN 1 ELSE 0
<1>1. r \in PendingDeposits(asset) <=>
        /\ IsState(r, "Pending") /\ request[r].request_type = "Deposit"
        /\ request[r].asset_mint = asset
  BY DEF PendingDeposits, PendingRequests, IsState, IsType
<1>2. r \in ClaimableRedeems(asset) <=>
        /\ IsState(r, "Claimable") /\ request[r].request_type = "Redeem"
        /\ request[r].asset_mint = asset
  BY DEF ClaimableRedeems, IsState, IsType
<1>3. r \in PendingRequests <=> IsState(r, "Pending")
  BY DEF PendingRequests
<1> QED BY <1>1, <1>2, <1>3 DEF DepositWeight, EscrowWeight, CountWeight, InEscrow

LEMMA WeightsAfter ==
  ASSUME NEW r \in Requests, NEW asset
  PROVE  /\ DepositWeight(r, asset)' =
              IF IsState(r, "Pending")' /\ request'[r].request_type = "Deposit"
                   /\ request'[r].asset_mint = asset
                THEN request'[r].amount ELSE 0
         /\ EscrowWeight(r, asset)' =
              IF request'[r].asset_mint = asset
                   /\ \/ IsState(r, "Pending")' /\ request'[r].request_type = "Deposit"
                      \/ IsState(r, "Claimable")' /\ request'[r].request_type = "Redeem"
                THEN request'[r].amount ELSE 0
         /\ CountWeight(r)' = IF IsState(r, "Pending")' THEN 1 ELSE 0
<1>1. r \in PendingDeposits(asset)' <=>
        /\ IsState(r, "Pending")' /\ request'[r].request_type = "Deposit"
        /\ request'[r].asset_mint = asset
  BY DEF PendingDeposits, PendingRequests, IsState, IsType
<1>2. r \in ClaimableRedeems(asset)' <=>
        /\ IsState(r, "Claimable")' /\ request'[r].request_type = "Redeem"
        /\ request'[r].asset_mint = asset
  BY DEF ClaimableRedeems, IsState, IsType
<1>3. r \in PendingRequests' <=> IsState(r, "Pending")'
  BY DEF PendingRequests
<1> QED BY <1>1, <1>2, <1>3 DEF DepositWeight, EscrowWeight, CountWeight, InEscrow

-----------------------------------------------------------------------------
(* One lemma per instruction *)

LEMMA CreateDepositExact ==
  ASSUME TypeOK, TypeOK', AccountsExact, NEW r \in Requests, NEW u \in Users,
         NEW asset \in Assets, NEW amount \in Amounts,
         NEW op \in Operators \cup {NoOperator},
         CreateDepositRequest(r, u, asset, amount, op)
  PROVE  AccountsExact'
<1>1. amount \in Nat /\ TouchesOnly(r) /\ IsState(r, "Closed")
  BY ConstantsAssumption DEF CreateDepositRequest, OpenRequest, TouchesOnly, TypeOK
<1>2. /\ IsState(r, "Pending")' /\ request'[r].request_type = "Deposit"
      /\ request'[r].asset_mint = asset /\ request'[r].amount = amount
  BY DEF CreateDepositRequest, OpenRequest, NewRequest, IsState, TypeOK
<1>3. \A a \in Assets :
        /\ DepositWeight(r, a) = 0 /\ EscrowWeight(r, a) = 0
        /\ DepositWeight(r, a)' = IF a = asset THEN amount ELSE 0
        /\ EscrowWeight(r, a)' = IF a = asset THEN amount ELSE 0
  BY <1>1, <1>2, Weights, WeightsAfter DEF IsState
<1>4. CountWeight(r) = 0 /\ CountWeight(r)' = 1
  BY <1>1, <1>2, Weights, WeightsAfter DEF IsState
<1>5. \A a \in Assets :
        /\ pending_vault'[a] = pending_vault[a] + (IF a = asset THEN amount ELSE 0)
        /\ pending_deposit_amount'[a]
             = pending_deposit_amount[a] + (IF a = asset THEN amount ELSE 0)
  BY <1>1 DEF CreateDepositRequest, TypeOK
<1>6. pending_async_requests' = pending_async_requests + 1
  BY DEF CreateDepositRequest, OpenRequest
<1>7. /\ \A a \in Assets : pending_vault[a] \in Nat /\ pending_deposit_amount[a] \in Nat
      /\ pending_async_requests \in Nat
  BY DEF TypeOK
<1> QED BY <1>1, <1>3, <1>4, <1>5, <1>6, <1>7, Rebalance

LEMMA CreateRedeemExact ==
  ASSUME TypeOK, TypeOK', AccountsExact, NEW r \in Requests, NEW u \in Users,
         NEW asset \in Assets, NEW amount \in Amounts,
         NEW op \in Operators \cup {NoOperator},
         CreateRedeemRequest(r, u, asset, amount, op)
  PROVE  AccountsExact'
<1>1. TouchesOnly(r) /\ IsState(r, "Closed")
  BY DEF CreateRedeemRequest, OpenRequest, TouchesOnly, TypeOK
<1>2. IsState(r, "Pending")' /\ request'[r].request_type = "Redeem"
  BY DEF CreateRedeemRequest, OpenRequest, NewRequest, IsState, TypeOK
<1>3. \A a \in Assets :
        /\ DepositWeight(r, a) = 0 /\ EscrowWeight(r, a) = 0
        /\ DepositWeight(r, a)' = 0 /\ EscrowWeight(r, a)' = 0
  BY <1>1, <1>2, Weights, WeightsAfter DEF IsState
<1>4. CountWeight(r) = 0 /\ CountWeight(r)' = 1
  BY <1>1, <1>2, Weights, WeightsAfter DEF IsState
<1>5. /\ pending_vault' = pending_vault /\ pending_deposit_amount' = pending_deposit_amount
      /\ pending_async_requests' = pending_async_requests + 1
  BY DEF CreateRedeemRequest, OpenRequest, escrowVars
<1>6. /\ \A a \in Assets : pending_vault[a] \in Nat /\ pending_deposit_amount[a] \in Nat
      /\ pending_async_requests \in Nat
  BY DEF TypeOK
<1> QED BY <1>1, <1>3, <1>4, <1>5, <1>6, Rebalance

LEMMA ApproveDepositExact ==
  ASSUME TypeOK, TypeOK', AccountsExact, NEW r \in Requests, ApproveDeposit(r)
  PROVE  AccountsExact'
<1> DEFINE amount == request[r].amount
<1>1. /\ TouchesOnly(r) /\ IsState(r, "Pending") /\ request[r].request_type = "Deposit"
      /\ request[r].asset_mint = Primary /\ amount \in Nat /\ Primary \in Assets
  BY LiveRequest DEF ApproveDeposit, CanApprove, MarkClaimable, TouchesOnly, TypeOK, IsState,
                     Assets
<1>2. IsState(r, "Claimable")' /\ request'[r].request_type = "Deposit"
  <2>1. request[r] \in RequestRecords
    BY <1>1, LiveRequest DEF IsState
  <2> QED BY <1>1, <2>1 DEF ApproveDeposit, MarkClaimable, IsState, TypeOK, RequestRecords
<1>3. \A a \in Assets :
        /\ DepositWeight(r, a) = IF a = Primary THEN amount ELSE 0
        /\ EscrowWeight(r, a) = IF a = Primary THEN amount ELSE 0
        /\ DepositWeight(r, a)' = 0 /\ EscrowWeight(r, a)' = 0
  BY <1>1, <1>2, Weights, WeightsAfter DEF IsState
<1>4. CountWeight(r) = 1 /\ CountWeight(r)' = 0
  BY <1>1, <1>2, Weights, WeightsAfter DEF IsState
<1>5. \A a \in Assets :
        /\ pending_vault'[a] = pending_vault[a] - (IF a = Primary THEN amount ELSE 0)
        /\ pending_deposit_amount'[a]
             = pending_deposit_amount[a] - (IF a = Primary THEN amount ELSE 0)
  BY <1>1 DEF ApproveDeposit, DepositOutcome, TypeOK
<1>6. pending_async_requests' = pending_async_requests - 1
  BY DEF ApproveDeposit, MarkClaimable, LeavePendingCount
<1>7. /\ \A a \in Assets : pending_vault[a] \in Nat /\ pending_deposit_amount[a] \in Nat
      /\ pending_async_requests \in Nat
  BY DEF TypeOK
<1> HIDE DEF amount
<1> QED BY <1>1, <1>3, <1>4, <1>5, <1>6, <1>7, Rebalance

LEMMA ApproveRedeemExact ==
  ASSUME TypeOK, TypeOK', AccountsExact, NEW r \in Requests, ApproveRedeem(r)
  PROVE  AccountsExact'
<1> DEFINE assets == CalculateAssets(nav, PRECISION, request[r].amount)
           net    == assets - WithdrawalFee(assets)
<1>1. /\ TouchesOnly(r) /\ IsState(r, "Pending") /\ request[r].request_type = "Redeem"
      /\ request[r].asset_mint = Primary /\ Primary \in Assets
  BY DEF ApproveRedeem, CanApprove, MarkClaimable, TouchesOnly, TypeOK, Assets
<1>2. /\ IsState(r, "Claimable")' /\ request'[r].request_type = "Redeem"
      /\ request'[r].asset_mint = Primary /\ request'[r].amount = net
  <2>1. request[r] \in RequestRecords
    BY <1>1, LiveRequest DEF IsState
  <2> QED BY <1>1, <2>1
             DEF ApproveRedeem, MarkClaimable, RedeemOutcome, IsState, TypeOK, RequestRecords
<1>3. net \in Int
  <2>1. assets \in Nat
    BY <1>1, LiveRequest, CalculateNat DEF TypeOK, IsState
  <2> QED BY <2>1, FeesNat
<1>4. /\ \A a \in Assets : pending_vault'[a] = pending_vault[a] + (IF a = Primary THEN net ELSE 0)
      /\ pending_deposit_amount' = pending_deposit_amount
      /\ pending_async_requests' = pending_async_requests - 1
  BY <1>1, <1>3 DEF ApproveRedeem, MarkClaimable, LeavePendingCount, TypeOK
<1> HIDE DEF net
<1>5. \A a \in Assets :
        /\ DepositWeight(r, a) = 0 /\ EscrowWeight(r, a) = 0
        /\ DepositWeight(r, a)' = 0
        /\ EscrowWeight(r, a)' = IF a = Primary THEN net ELSE 0
  BY <1>1, <1>2, Weights, WeightsAfter DEF IsState
<1>6. CountWeight(r) = 1 /\ CountWeight(r)' = 0
  BY <1>1, <1>2, Weights, WeightsAfter DEF IsState
<1>7. /\ \A a \in Assets : pending_vault[a] \in Nat /\ pending_deposit_amount[a] \in Nat
      /\ pending_async_requests \in Nat
  BY DEF TypeOK
<1> QED BY <1>1, <1>3, <1>4, <1>5, <1>6, <1>7, Rebalance

\* Rejections and cancellations: the refunded request is closed or a tombstone.
LEMMA UnwindExact ==
  ASSUME TypeOK, TypeOK', AccountsExact, NEW r \in Requests, Unwind(r),
         IsState(r, "Pending"), TouchesOnly(r),
         ~IsState(r, "Pending")', ~IsState(r, "Claimable")'
  PROVE  AccountsExact'
<1> DEFINE amount == request[r].amount
           refund(a) == IF request[r].request_type = "Deposit" /\ a = request[r].asset_mint
                          THEN amount ELSE 0
<1>1. amount \in Nat /\ request[r].asset_mint \in Assets
  BY LiveRequest DEF IsState
<1>2. \A a \in Assets :
        /\ DepositWeight(r, a) = refund(a) /\ EscrowWeight(r, a) = refund(a)
        /\ DepositWeight(r, a)' = 0 /\ EscrowWeight(r, a)' = 0
  BY Weights, WeightsAfter DEF IsState
<1>3. CountWeight(r) = 1 /\ CountWeight(r)' = 0
  BY Weights, WeightsAfter
<1>4. \A a \in Assets :
        /\ pending_vault'[a] = pending_vault[a] - refund(a)
        /\ pending_deposit_amount'[a] = pending_deposit_amount[a] - refund(a)
  <2>1. CASE RefundDeposit(r)
    BY <1>1, <2>1 DEF RefundDeposit, TypeOK
  <2>2. CASE RefundRedeem(r)
    BY <1>1, <2>2 DEF RefundRedeem, TypeOK, escrowVars
  <2> QED BY <2>1, <2>2 DEF Unwind
<1>5. pending_async_requests' = pending_async_requests - 1
  BY DEF Unwind, LeavePendingCount
<1>6. /\ \A a \in Assets : pending_vault[a] \in Nat /\ pending_deposit_amount[a] \in Nat
      /\ pending_async_requests \in Nat
      /\ \A a \in Assets : refund(a) \in Nat
  BY <1>1 DEF TypeOK
<1> HIDE DEF amount, refund
<1> QED BY <1>2, <1>3, <1>4, <1>5, <1>6, Rebalance

LEMMA RefundsExact ==
  ASSUME TypeOK, TypeOK', AccountsExact, NEW r \in Requests,
         RejectRequest(r) \/ CancelRequest(r) \/ CancelQueued(r)
  PROVE  AccountsExact'
<1>1. Unwind(r) /\ IsState(r, "Pending")
  BY DEF RejectRequest, CancelRequest, CancelQueued
<1>2. request[r] \in RequestRecords
  BY <1>1, LiveRequest DEF IsState
<1>3. \/ request' = [request EXCEPT ![r] = Closed]
      \/ request' = [request EXCEPT ![r] = Tombstone(@)]
  BY DEF RejectRequest, CancelRequest, CancelQueued
<1>4. TouchesOnly(r) /\ ~IsState(r, "Pending")' /\ ~IsState(r, "Claimable")'
  BY <1>2, <1>3 DEF TypeOK, TouchesOnly, IsState, Closed, Tombstone, RequestRecords
<1> QED BY <1>1, <1>4, UnwindExact

LEMMA SkipExact ==
  ASSUME TypeOK, TypeOK', AccountsExact, NEW r \in Requests, SkipCanceledQueueRequest(r)
  PROVE  AccountsExact'
<1>1. /\ IsState(r, "Canceled") /\ IsState(r, "Closed")' /\ TouchesOnly(r)
      /\ pending_vault' = pending_vault /\ pending_deposit_amount' = pending_deposit_amount
      /\ pending_async_requests' = pending_async_requests
  BY DEF SkipCanceledQueueRequest, TypeOK, IsState, Closed, TouchesOnly, escrowVars
<1>2. \A a \in Assets :
        /\ DepositWeight(r, a) = 0 /\ EscrowWeight(r, a) = 0
        /\ DepositWeight(r, a)' = 0 /\ EscrowWeight(r, a)' = 0
  BY <1>1, Weights, WeightsAfter DEF IsState
<1>3. CountWeight(r) = 0 /\ CountWeight(r)' = 0
  BY <1>1, Weights, WeightsAfter DEF IsState
<1>4. /\ \A a \in Assets : pending_vault[a] \in Nat /\ pending_deposit_amount[a] \in Nat
      /\ pending_async_requests \in Nat
  BY DEF TypeOK
<1> QED BY <1>1, <1>2, <1>3, <1>4, Rebalance

LEMMA ClaimExact ==
  ASSUME TypeOK, TypeOK', AccountsExact, NEW r \in Requests, NEW signer \in Users,
         Claim(r, signer)
  PROVE  AccountsExact'
<1> DEFINE amount == request[r].amount
           paid(a) == IF request[r].request_type = "Redeem" /\ a = request[r].asset_mint
                        THEN amount ELSE 0
<1>1. /\ IsState(r, "Claimable") /\ IsState(r, "Closed")' /\ TouchesOnly(r)
      /\ pending_deposit_amount' = pending_deposit_amount
      /\ pending_async_requests' = pending_async_requests
  BY DEF Claim, TypeOK, IsState, Closed, TouchesOnly
<1>2. amount \in Nat /\ request[r].asset_mint \in Assets
  BY <1>1, LiveRequest DEF IsState
<1>3. \A a \in Assets :
        /\ DepositWeight(r, a) = 0 /\ EscrowWeight(r, a) = paid(a)
        /\ DepositWeight(r, a)' = 0 /\ EscrowWeight(r, a)' = 0
  BY <1>1, Weights, WeightsAfter DEF IsState
<1>4. CountWeight(r) = 0 /\ CountWeight(r)' = 0
  BY <1>1, Weights, WeightsAfter DEF IsState
<1>5. \A a \in Assets : pending_vault'[a] = pending_vault[a] - paid(a)
  <2>1. CASE ClaimShares(r)
    BY <1>2, <2>1 DEF ClaimShares, TypeOK
  <2>2. CASE ClaimAssets(r)
    BY <1>2, <2>2 DEF ClaimAssets, TypeOK
  <2> QED BY <2>1, <2>2 DEF Claim
<1>6. /\ \A a \in Assets : pending_vault[a] \in Nat /\ pending_deposit_amount[a] \in Nat
      /\ pending_async_requests \in Nat
      /\ \A a \in Assets : paid(a) \in Nat
  BY <1>2 DEF TypeOK
<1> HIDE DEF amount, paid
<1> QED BY <1>1, <1>3, <1>4, <1>5, <1>6, Rebalance

LEMMA SetOperatorExact ==
  ASSUME TypeOK, TypeOK', AccountsExact, NEW r \in Requests, NEW op \in Operators,
         SetOperator(r, op)
  PROVE  AccountsExact'
<1>1. request[r] \in RequestRecords
  BY LiveRequest DEF SetOperator
<1>2. /\ request'[r].request_state = request[r].request_state
      /\ request'[r].request_type = request[r].request_type
      /\ request'[r].asset_mint = request[r].asset_mint
      /\ request'[r].amount = request[r].amount /\ request[r].amount \in Nat
  BY <1>1 DEF SetOperator, TypeOK, RequestRecords
<1>3. /\ TouchesOnly(r)
      /\ pending_vault' = pending_vault /\ pending_deposit_amount' = pending_deposit_amount
      /\ pending_async_requests' = pending_async_requests
  BY DEF SetOperator, TypeOK, TouchesOnly, escrowVars
<1>4. \A a \in Assets :
        /\ DepositWeight(r, a)' = DepositWeight(r, a) /\ DepositWeight(r, a) \in Nat
        /\ EscrowWeight(r, a)' = EscrowWeight(r, a) /\ EscrowWeight(r, a) \in Nat
  BY <1>2, Weights, WeightsAfter DEF IsState
<1>5. CountWeight(r)' = CountWeight(r) /\ CountWeight(r) \in Nat
  BY <1>2, Weights, WeightsAfter DEF IsState
<1>6. /\ \A a \in Assets : pending_vault[a] \in Nat /\ pending_deposit_amount[a] \in Nat
      /\ pending_async_requests \in Nat
  BY DEF TypeOK
<1> QED BY <1>3, <1>4, <1>5, <1>6, Rebalance

\* Instant settlements, administration and the outside world leave requests and
\* their accounts alone.
LEMMA OthersKeepRequests ==
  ASSUME Instant \/ Manage \/ Outside \/ UNCHANGED vars
  PROVE  /\ request' = request /\ pending_vault' = pending_vault
         /\ pending_deposit_amount' = pending_deposit_amount
         /\ pending_async_requests' = pending_async_requests
<1>1. CASE Instant
  BY <1>1 DEF Instant, InstantDeposit, InstantRedeem, escrowVars
<1>2. CASE Manage
  BY <1>2 DEF Manage, UpdateVaultNav, UpdateVault, ExecuteVaultUpdate, UpdateExtension,
              PauseVault, AddVaultAsset, RemoveVaultAsset, WithdrawAssets, escrowVars
<1>3. CASE Outside
  BY <1>3 DEF Outside, ReturnAssets, Tick, escrowVars
<1>4. CASE UNCHANGED vars
  BY <1>4 DEF vars, escrowVars
<1> QED BY <1>1, <1>2, <1>3, <1>4

LEMMA OthersExact ==
  ASSUME AccountsExact, Instant \/ Manage \/ Outside \/ UNCHANGED vars
  PROVE  AccountsExact'
<1>1. /\ request' = request /\ pending_vault' = pending_vault
      /\ pending_deposit_amount' = pending_deposit_amount
      /\ pending_async_requests' = pending_async_requests
  BY OthersKeepRequests
<1>2. PendingRequests' = PendingRequests
  BY <1>1 DEF PendingRequests, IsState
<1>3. \A a : PendingDeposits(a)' = PendingDeposits(a)
  BY <1>1 DEF PendingDeposits, PendingRequests, IsState, IsType
<1>4. \A a : InEscrow(a)' = InEscrow(a)
  BY <1>1, <1>3 DEF InEscrow, ClaimableRedeems, IsState, IsType
<1> QED
  BY <1>1, <1>2, <1>3, <1>4
     DEF AccountsExact, EscrowBacked, PendingDepositsExact, PendingCountExact, TotalAmount

LEMMA InitExact == Init => AccountsExact
<1> SUFFICES ASSUME Init PROVE AccountsExact
  OBVIOUS
<1>1. \A r \in Requests : IsState(r, "Closed")
  BY DEF Init, IsState, Closed
<1>2. PendingRequests = {}
  BY <1>1 DEF PendingRequests, IsState
<1>3. \A a : PendingDeposits(a) = {} /\ InEscrow(a) = {}
  BY <1>1 DEF PendingDeposits, InEscrow, ClaimableRedeems, PendingRequests, IsState
<1>4. TotalAmount({}) = 0
  BY NoAmount DEF TotalAmount
<1>5. Cardinality({}) = 0
  BY FS_EmptySet
<1> QED
  BY <1>2, <1>3, <1>4, <1>5
     DEF Init, AccountsExact, EscrowBacked, PendingDepositsExact, PendingCountExact

LEMMA ExactStep ==
  ASSUME TypeOK, TypeOK', AccountsExact, [Next]_vars
  PROVE  AccountsExact'
<1>1. CASE Create
  BY <1>1, CreateDepositExact, CreateRedeemExact DEF Create
<1>2. CASE Settle
  BY <1>2, ApproveDepositExact, ApproveRedeemExact, RefundsExact, SkipExact, ClaimExact,
     SetOperatorExact
     DEF Settle, CancelQueuedDepositRequest, CancelQueuedRedemptionRequest
<1> QED BY <1>1, <1>2, OthersExact DEF Next

-----------------------------------------------------------------------------
(* Theorems *)

LEMMA AccountsExactInvariant == Spec => []AccountsExact
<1>1. TypeOK /\ TypeOK' /\ AccountsExact /\ [Next]_vars => AccountsExact'
  BY ExactStep
<1> QED BY <1>1, InitExact, TypeCorrect, PTL DEF Spec

\* Every escrow account holds exactly the pending deposits and the approved
\* redemptions of its asset, after every sequence of instructions.
THEOREM EscrowExact == Spec => []EscrowBacked
<1>1. AccountsExact => EscrowBacked
  BY DEF AccountsExact
<1> QED BY <1>1, AccountsExactInvariant, PTL

\* pending_deposit_amount is the sum of the pending deposits of the asset.
THEOREM PendingDepositsAreExact == Spec => []PendingDepositsExact
<1>1. AccountsExact => PendingDepositsExact
  BY DEF AccountsExact
<1> QED BY <1>1, AccountsExactInvariant, PTL

\* pending_async_requests is the number of pending requests.
THEOREM PendingCountIsExact == Spec => []PendingCountExact
<1>1. AccountsExact => PendingCountExact
  BY DEF AccountsExact
<1> QED BY <1>1, AccountsExactInvariant, PTL
=============================================================================
