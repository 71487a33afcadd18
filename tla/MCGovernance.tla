---------------------------- MODULE MCGovernance ----------------------------
(***************************************************************************)
(* One run of Governance with four alphabets of inputs, of which the first *)
(* state chooses one: the hand-over of the authority, the timelock, the    *)
(* setup, and the integration tests.  Each alphabet is an INSTANCE of      *)
(* Governance over the same variables, so every property is checked on all *)
(* of them.                                                                *)
(***************************************************************************)
EXTENDS GovernanceTests

VARIABLE scenario

One(field, value) == field :> value

\* Three keys: roles go to outsiders and to the former authority, and a change
\* waits while the authority moves on, and back.
RoleUpdates ==
  {One("timelock_delay_slots", 1), One("manager", Admin), One("fulfiller", NewOne),
   One("breaker", Admin), One("hot_manager", Another)}

Handover == INSTANCE Governance WITH
  Keys <- {Admin, NewOne, Another}, Accounts <- {"first"}, VaultUpdates <- RoleUpdates,
  MaxSlot <- 2

\* Two accounts: each update is valid alone in some state, not every sequence of
\* them is; delays are raised and removed while changes wait.
TimelockUpdates ==
  {One("timelock_delay_slots", 2), One("timelock_delay_slots", 0),
   One("manager_rolling_limit", 1), One("rolling_limit_window_slots", 1),
   One("rolling_limit_window_slots", 0)}
SomeFeeUpdates == {[kind |-> "DepositFee", fee |-> Percentage(bps)] : bps \in {1, MAX_BPS + 1}}
SomeExtensionUpdates ==
  {[kind |-> "PausableRedemptions", threshold |-> 0, paused |-> TRUE],
   [kind |-> "PausableRedemptions", threshold |-> 1, paused |-> FALSE]}

Timelock == INSTANCE Governance WITH
  Keys <- {Admin}, VaultUpdates <- TimelockUpdates, FeeUpdates <- SomeFeeUpdates,
  ExtensionUpdates <- SomeExtensionUpdates,
  ExtensionInits <- {<<"DepositFee", FixedAmount(1)>>, <<"PausableRedemptions", FALSE>>},
  MaxSlot <- 3

\* Updates that the rules allow only with or without another setting.
SetupUpdates ==
  {One("timelock_delay_slots", 1), One("performance_fee_bps", 1),
   One("performance_fee_bps", 0), One("max_nav_staleness_slots", 1),
   One("max_nav_delta_bps", MAX_BPS + 1), One("nav_mode", "Oracle"),
   One("protocol_fee_bps", 1), One("protocol_fee_recipient", DefaultKey)}
SomeInstantArgs ==
  {[instant_redemption_fee_bps |-> 1, min_deposit_amount |-> 1,
    max_deposit_amount |-> m, min_redeem_shares |-> 0, max_redeem_shares |-> 0] : m \in {0, 1}}
SomeTrancheArgs ==
  {[senior_target_bps |-> 0, min_junior_ratio_bps |-> MAX_BPS, min_request_amount |-> 1,
    max_request_amount |-> 2, senior_share_mint |-> s, junior_share_mint |-> j]
     : s, j \in {ShareMint, AssetMint, "other_mint"}}

BeforeUse == INSTANCE Governance WITH
  Keys <- {Admin}, Accounts <- {"first"}, VaultUpdates <- SetupUpdates,
  ExtensionInits <- {<<"DepositFee", FixedAmount(1)>>},
  InstantArgs <- SomeInstantArgs, TrancheArgs <- SomeTrancheArgs,
  Recipients <- {DefaultKey, Admin}, MaxSlot <- 1

\* While another alphabet is explored the first test has been replayed.
NoTest == test = 1 /\ pc = Len(Tests[1]) + 1

MCInit ==
  \/ scenario = "tests" /\ TestInit
  \/ /\ scenario \in {"handover", "timelock", "setup"}
     /\ Init /\ vault.authority = Admin
     /\ NoTest

MCNext ==
  \/ scenario = "tests" /\ TestNext /\ UNCHANGED scenario
  \/ /\ \/ scenario = "handover" /\ Handover!GovernanceNext
        \/ scenario = "timelock" /\ Timelock!GovernanceNext
        \/ scenario = "setup" /\ BeforeUse!GovernanceNext
     /\ UNCHANGED <<scenario, test, pc>>

MCSpec == MCInit /\ [][MCNext]_<<governanceVars, test, pc, scenario>>
=============================================================================
