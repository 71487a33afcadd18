---------------------------- MODULE MCAsyncVault ----------------------------
(***************************************************************************)
(* Instances of AsyncVault for TLC: the configurations and the extension   *)
(* sets that the runs give to its constants.                               *)
(***************************************************************************)
EXTENDS AsyncVault, TLC

Symmetry == Permutations(Requests)

NoQueues   == [type \in RequestTypes |-> FALSE]
BothQueues == [type \in RequestTypes |-> TRUE]

\* create_vault's settings, with no extension active.
BaseConfig ==
  [deposit_cap |-> 0, require_fresh_nav |-> TRUE, max_nav_staleness_slots |-> 0,
   rolling_limit_window_slots |-> 0, redemption_rolling_limit |-> 0,
   external_withdraw_rolling_limit |-> 0, timelock_delay_slots |-> 0,
   protocol_fee_bps |-> 0, instant_redemption_fee_bps |-> 0,
   deposit_fee |-> FixedAmount(0), withdrawal_fee |-> FixedAmount(0),
   subscriptions_paused |-> FALSE, redemptions_paused |-> FALSE,
   min_subscription |-> 0, min_redemption |-> 0,
   min_deposit_amount |-> 0, max_deposit_amount |-> 0,
   min_redeem_shares |-> 0, max_redeem_shares |-> 0,
   max_user_deposit_amount |-> 0, max_user_redeem_shares |-> 0]

PlainConfigs == {BaseConfig}

\* Fees on both sides, half of them the protocol's, and instant settlement.
FeeConfig ==
  [BaseConfig EXCEPT !.deposit_fee = Percentage(2000), !.withdrawal_fee = FixedAmount(1),
                     !.protocol_fee_bps = 5000, !.instant_redemption_fee_bps = 100,
                     !.max_nav_staleness_slots = 1, !.deposit_cap = 5]

\* The curator switches the deposit fee on and off, under the same cap.
FeeConfigs == {FeeConfig, [FeeConfig EXCEPT !.deposit_fee = FixedAmount(0)]}

\* Limits on every exit, per window of one slot, and a NAV that goes stale.
LimitConfig ==
  [BaseConfig EXCEPT !.rolling_limit_window_slots = 1, !.redemption_rolling_limit = 3,
                     !.external_withdraw_rolling_limit = 1, !.max_user_deposit_amount = 3,
                     !.max_user_redeem_shares = 2, !.max_nav_staleness_slots = 1,
                     !.withdrawal_fee = FixedAmount(1), !.instant_redemption_fee_bps = 1,
                     !.require_fresh_nav = FALSE, !.min_redeem_shares = 2,
                     !.max_deposit_amount = 3]

LimitConfigs == {LimitConfig}

\* A curator who lowers the cap and switches a timelock on, and who stops one
\* door or raises one fee after requests were created.
TimelockedConfig == [BaseConfig EXCEPT !.deposit_cap = 1, !.timelock_delay_slots = 1]

ChangingConfigs ==
  {BaseConfig, TimelockedConfig,
   [BaseConfig EXCEPT !.redemptions_paused = TRUE],
   [BaseConfig EXCEPT !.deposit_fee = FixedAmount(2)]}

AdminConfigs == {BaseConfig, TimelockedConfig, [BaseConfig EXCEPT !.subscriptions_paused = TRUE]}
=============================================================================
