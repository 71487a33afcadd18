-------------------------- MODULE GovernanceTests ---------------------------
(***************************************************************************)
(* The tests of src/integration-tests/src/async_vault_v2 about the setup,  *)
(* the configuration and the authority of a vault, replayed on Governance. *)
(* A test is a sequence of steps on the vault set_up_async_vault_v2        *)
(* creates; the parameters of a test_case are the operator's parameters.   *)
(***************************************************************************)
EXTENDS Governance, Replay, TLC

Admin   == "authority"
Other   == "unauthorized"
NewOne  == "new_authority"
Another == "another"

Initialize(who)            == [op |-> "initialize_vault", who |-> who]
InitExtension(type, v)     == [op |-> "initialize_extension", who |-> Admin, type |-> type, v |-> v]
InitInstant(who, args)     == [op |-> "initialize_instant_settlement", who |-> who, args |-> args]
InitTranches(who, args)    == [op |-> "initialize_tranches", who |-> who, args |-> args]
Update(who, field, value)  == [op |-> "update_vault", who |-> who, args |-> field :> value]
Pause(who)                 == [op |-> "pause_vault", who |-> who]
SetExtension(args)         == [op |-> "update_extension", who |-> Admin, args |-> args]
QueueField(field, value)   == [op |-> "queue_vault_update", who |-> Admin, a |-> "first",
                               args |-> field :> value]
QueueFee(args)             == [op |-> "queue_fee_update", who |-> Admin, a |-> "first", args |-> args]
QueueExtension(who, a, args) ==
  [op |-> "queue_extension_update", who |-> who, a |-> a, args |-> args]
Execute(kind, a)           == [op |-> "execute", kind |-> kind, a |-> a]
Cancel(who)                == [op |-> "cancel", who |-> who, a |-> "first"]
Invite(who, invited)       == [op |-> "invite", who |-> who, invited |-> invited]
Accept(who)                == [op |-> "accept", who |-> who]
InitRouting(recipient)     == [op |-> "initialize_protocol_fee_config", who |-> Admin,
                               recipient |-> recipient]
UpdateRouting(who, recipient) ==
  [op |-> "update_protocol_fee_config", who |-> who, recipient |-> recipient]

InitFee(who, kind, fee) == [InitExtension(kind, fee) EXCEPT !.who = who]
SetFee(who, kind, fee)  ==
  [op |-> "update_fee", who |-> who, args |-> [kind |-> kind, fee |-> fee]]

\* set_sysvar of a clock n slots later.
Wait(n) == [i \in 1..n |-> Succeeds([op |-> "clock"])]

Closed(a) == Expect(<<"open", a>>, FALSE)
Open(a)   == Expect(<<"open", a>>, TRUE)

-----------------------------------------------------------------------------
(* initialize_vault.rs, update_async_vault.rs *)

TestInitializeVault(valid, pre_initialize) ==
  << Expect(<<"vault", "initialized">>, FALSE) >>
  \o (IF pre_initialize THEN << Succeeds(Initialize(Admin)) >> ELSE <<>>)
  \o (IF valid /\ ~pre_initialize
        THEN << Succeeds(Initialize(Admin)), Expect(<<"vault", "initialized">>, TRUE) >>
        ELSE << Fails(Initialize(IF valid THEN Admin ELSE Other)) >>)

TestUpdateAsyncVault(field, value) ==
  << Succeeds(Update(Admin, field, value)),
     Expect(<<"vault", field>>, value),
     Expect(<<"vault", "authority">>, Admin) >>

TestUpdateUnauthorizedSignerFails == << Fails(Update(Other, "paused", TRUE)) >>

TestBreakerCanPauseButNotUnpause ==
  << Succeeds(Update(Admin, "breaker", Another)),
     Succeeds(Pause(Another)),
     Expect(<<"vault", "paused">>, TRUE),
     Fails(Update(Another, "paused", FALSE)) >>

TestTimelockedVaultUpdateExecutesAfterEta ==
  << Succeeds(Update(Admin, "timelock_delay_slots", 5)),
     Fails(Update(Admin, "deposit_cap", 1234)),
     Succeeds(Update(Admin, "paused", TRUE)),
     Succeeds(QueueField("deposit_cap", 1234)),
     Expect(<<"queued_by", "first">>, Admin),
     Expect(<<"delay", "first">>, 5),
     Fails(Execute("Vault", "first")) >>
  \o Wait(5) \o
  << Succeeds(Execute("Vault", "first")),
     Expect(<<"vault", "deposit_cap">>, 1234),
     Closed("first") >>

TestTimelockedVaultUpdateCancel ==
  << Succeeds(Update(Admin, "timelock_delay_slots", 3)),
     Succeeds(QueueField("max_nav_staleness_slots", 7)),
     Succeeds(Cancel(Admin)),
     Expect(<<"vault", "max_nav_staleness_slots">>, 0),
     Closed("first") >>

TestTimelockQueueRejectsPauseChange ==
  << Succeeds(Update(Admin, "timelock_delay_slots", 3)),
     Fails(QueueField("paused", TRUE)) >>

TestTimelockBreakerChange ==
  << Succeeds(Update(Admin, "timelock_delay_slots", 3)),
     Succeeds(Update(Admin, "breaker", Another)),
     Expect(<<"vault", "breaker">>, Another),
     Fails(QueueField("breaker", Admin)) >>

TestTimelockQueueRequiresConfiguredDelay == << Fails(QueueField("deposit_cap", 100)) >>

TransferAuthority == << Succeeds(Invite(Admin, NewOne)), Succeeds(Accept(NewOne)) >>

TestExecuteRejectsStaleCurator ==
  << Succeeds(Update(Admin, "timelock_delay_slots", 2)),
     Succeeds(QueueField("deposit_cap", 9999)) >>
  \o TransferAuthority \o Wait(2) \o << Fails(Execute("Vault", "first")) >>

-----------------------------------------------------------------------------
(* update_authority.rs; who may publish a NAV is not part of Governance *)

TestInviteNewAuthority(valid) ==
  IF valid
    THEN << Succeeds(Invite(Admin, NewOne)), Expect(<<"vault", "pending_authority">>, NewOne) >>
    ELSE << Fails(Invite(Other, NewOne)) >>

TestInviteOverwritesPending ==
  << Succeeds(Invite(Admin, NewOne)),
     Succeeds(Invite(Admin, Another)),
     Expect(<<"vault", "pending_authority">>, Another) >>

TestAcceptAuthorityInvitation(invite_first, correct) ==
  (IF invite_first THEN << Succeeds(Invite(Admin, NewOne)) >> ELSE <<>>)
  \o (IF invite_first /\ correct
        THEN << Succeeds(Accept(NewOne)),
                Expect(<<"vault", "authority">>, NewOne),
                Expect(<<"vault", "pending_authority">>, DefaultKey) >>
        ELSE << Fails(Accept(IF correct THEN NewOne ELSE Other)) >>)

TestFullAuthorityTransfer ==
  TransferAuthority \o
  << Expect(<<"vault", "authority">>, NewOne),
     Expect(<<"vault", "curator">>, NewOne),
     Expect(<<"vault", "manager">>, NewOne),
     Expect(<<"vault", "hot_manager">>, NewOne),
     Expect(<<"vault", "fulfiller">>, NewOne),
     Expect(<<"vault", "breaker">>, NewOne),
     Fails(Invite(Admin, Another)),
     Fails(Pause(Admin)),
     Succeeds(Invite(NewOne, Another)) >>

-----------------------------------------------------------------------------
(* fee_extensions.rs *)

TestInitializeAndUpdateFee(kind, initial, updated) ==
  << Succeeds(InitFee(Admin, kind, initial)),
     Expect(<<"vault", "initialized">>, FALSE),
     Succeeds(SetFee(Admin, kind, updated)) >>

TestInitializeBothFees ==
  << Succeeds(InitFee(Admin, "DepositFee", FixedAmount(100))),
     Succeeds(InitFee(Admin, "WithdrawalFee", Percentage(300))) >>

TestDuplicateInitFails(kind, fee) ==
  << Succeeds(InitFee(Admin, kind, fee)), Fails(InitFee(Admin, kind, fee)) >>

TestUpdateBeforeInitFails(kind, fee) == << Fails(SetFee(Admin, kind, fee)) >>

TestInvalidBpsInitFails(kind) == << Fails(InitFee(Admin, kind, Percentage(10001))) >>

TestInitializeFeeUnauthorizedSignerFails ==
  << Fails(InitFee(Other, "DepositFee", FixedAmount(100))) >>

TestUpdateFeeUnauthorizedSignerFails ==
  << Succeeds(InitFee(Admin, "DepositFee", FixedAmount(100))),
     Fails(SetFee(Other, "DepositFee", FixedAmount(200))) >>

TestUpdateFeeRequiresTimelockQueue ==
  << Succeeds(InitFee(Admin, "DepositFee", FixedAmount(100))),
     Succeeds(Update(Admin, "timelock_delay_slots", 2)),
     Fails(SetFee(Admin, "DepositFee", FixedAmount(200))) >>

TestQueuedFeeUpdateExecutesAfterEta ==
  << Succeeds(InitFee(Admin, "DepositFee", FixedAmount(100))),
     Succeeds(Update(Admin, "timelock_delay_slots", 4)),
     Succeeds(QueueFee([kind |-> "DepositFee", fee |-> Percentage(250)])),
     Expect(<<"queued_by", "first">>, Admin),
     Expect(<<"delay", "first">>, 4),
     Fails(Execute("Fee", "first")) >>
  \o Wait(4) \o
  << Succeeds(Execute("Fee", "first")),
     Expect(<<"extension", "DepositFee">>, Percentage(250)),
     Closed("first") >>

TestQueuedFeeUpdateCancel ==
  << Succeeds(InitFee(Admin, "WithdrawalFee", Percentage(100))),
     Succeeds(Update(Admin, "timelock_delay_slots", 4)),
     Succeeds(QueueFee([kind |-> "WithdrawalFee", fee |-> FixedAmount(42)])),
     Succeeds(Cancel(Admin)),
     Expect(<<"extension", "WithdrawalFee">>, Percentage(100)),
     Closed("first") >>
-----------------------------------------------------------------------------
(* extension_timelock.rs *)

MIN_SUBSCRIPTION_THRESHOLD == 1000000
MIN_REDEMPTION_THRESHOLD   == 2000000

Threshold(kind, n) == [kind |-> kind, threshold |-> n, paused |-> FALSE]
Pausable(kind, p)  == [kind |-> kind, threshold |-> 0, paused |-> p]
TwiceTheMinimum    == Threshold("MinSubscription", 2 * MIN_SUBSCRIPTION_THRESHOLD)

InitializeAllMutableExtensions ==
  << Succeeds(InitExtension("MinSubscription", MIN_SUBSCRIPTION_THRESHOLD)),
     Succeeds(InitExtension("MinRedemption", MIN_REDEMPTION_THRESHOLD)),
     Succeeds(InitExtension("PausableSubscriptions", FALSE)),
     Succeeds(InitExtension("PausableRedemptions", TRUE)) >>

InitializeVaultAndTimelock(delay) ==
  << Succeeds(Initialize(Admin)), Succeeds(Update(Admin, "timelock_delay_slots", delay)) >>

WithTimelock(delay) == InitializeAllMutableExtensions \o InitializeVaultAndTimelock(delay)

TestDirectExtensionUpdatesRequireQueue ==
  WithTimelock(3) \o
  << Fails(SetExtension(Threshold("MinSubscription", MIN_SUBSCRIPTION_THRESHOLD + 1))),
     Fails(SetExtension(Threshold("MinRedemption", MIN_REDEMPTION_THRESHOLD + 1))),
     Fails(SetExtension(Pausable("PausableSubscriptions", TRUE))),
     Fails(SetExtension(Pausable("PausableRedemptions", FALSE))) >>

TestQueuedMinSubscriptionWaitsForEta ==
  WithTimelock(4) \o
  << Succeeds(QueueExtension(Admin, "first", TwiceTheMinimum)),
     Expect(<<"queued_by", "first">>, Admin),
     Expect(<<"delay", "first">>, 4),
     Fails(Execute("Extension", "first")) >>
  \o Wait(4) \o
  << Succeeds(Execute("Extension", "first")),
     Expect(<<"extension", "MinSubscription">>, 2 * MIN_SUBSCRIPTION_THRESHOLD),
     Closed("first") >>

TestQueuedMinRedemptionCanBeCanceled ==
  WithTimelock(4) \o
  << Succeeds(QueueExtension(Admin, "first",
                Threshold("MinRedemption", 2 * MIN_REDEMPTION_THRESHOLD))),
     Succeeds(Cancel(Admin)),
     Expect(<<"extension", "MinRedemption">>, MIN_REDEMPTION_THRESHOLD),
     Closed("first") >>

TestQueuedPausableUpdatesToggle ==
  WithTimelock(2) \o
  << Succeeds(QueueExtension(Admin, "first", Pausable("PausableSubscriptions", TRUE))),
     Succeeds(QueueExtension(Admin, "second", Pausable("PausableRedemptions", FALSE))) >>
  \o Wait(2) \o
  << Succeeds(Execute("Extension", "first")),
     Succeeds(Execute("Extension", "second")),
     Expect(<<"extension", "PausableSubscriptions">>, TRUE),
     Expect(<<"extension", "PausableRedemptions">>, FALSE) >>

TestQueueExtensionUpdateValidates ==
  << Succeeds(InitExtension("MinSubscription", MIN_SUBSCRIPTION_THRESHOLD)),
     Succeeds(Initialize(Admin)),
     Fails(QueueExtension(Admin, "first", TwiceTheMinimum)),
     Succeeds(Update(Admin, "timelock_delay_slots", 2)),
     Fails(QueueExtension(Other, "first", TwiceTheMinimum)),
     Fails(QueueExtension(Admin, "first",
             [Pausable("PausableSubscriptions", TRUE) EXCEPT !.threshold = 1])),
     Closed("first"),
     Fails(QueueExtension(Admin, "first",
             Threshold("MinRedemption", 2 * MIN_REDEMPTION_THRESHOLD))),
     Closed("first") >>

TestCancelRequiresCurrentCurator ==
  WithTimelock(2) \o
  << Succeeds(QueueExtension(Admin, "first", TwiceTheMinimum)),
     Fails(Cancel(Other)),
     Open("first") >>

TestExecuteExtensionRejectsStaleCurator ==
  WithTimelock(2) \o << Succeeds(QueueExtension(Admin, "first", TwiceTheMinimum)) >>
  \o TransferAuthority \o Wait(2) \o
  << Fails(Execute("Extension", "first")),
     Expect(<<"extension", "MinSubscription">>, MIN_SUBSCRIPTION_THRESHOLD),
     Open("first"),
     Succeeds(Cancel(NewOne)) >>

-----------------------------------------------------------------------------
(* protocol_fee_config.rs *)

Routing(recipient) == [authority |-> Admin, protocol_fee_recipient |-> recipient]

TestProtocolFeeConfigIsSet ==
  << Succeeds(InitRouting(Another)), Expect(<<"routing">>, {Routing(Another)}) >>

TestProtocolFeeConfigRejectsDefaultAndReinit ==
  << Fails(InitRouting(DefaultKey)),
     Succeeds(InitRouting(Another)),
     Fails(InitRouting(Another)) >>

TestUpdateProtocolFeeConfig ==
  << Succeeds(InitRouting(NewOne)),
     Fails(UpdateRouting(Other, Another)),
     Fails(UpdateRouting(Admin, DefaultKey)),
     Succeeds(UpdateRouting(Admin, Another)),
     Expect(<<"routing">>, {Routing(Another)}) >>

-----------------------------------------------------------------------------
(* instant_settlement.rs, the setup of the extension *)

InstantSettlement(fee_bps, min_deposit, max_deposit, min_redeem, max_redeem) ==
  [instant_redemption_fee_bps |-> fee_bps, min_deposit_amount |-> min_deposit,
   max_deposit_amount |-> max_deposit, min_redeem_shares |-> min_redeem,
   max_redeem_shares |-> max_redeem]

ConfigureNavStaleness == << Succeeds(Update(Admin, "max_nav_staleness_slots", 64)) >>
FeeOnly(fee_bps) == InstantSettlement(fee_bps, 0, 0, 0, 0)

TestInstantRejectsNonCurator == << Fails(InitInstant(Other, FeeOnly(0))) >>

TestInstantFails(init_vault_first) ==
  (IF init_vault_first
     THEN << Succeeds(Initialize(Admin)) >>
     ELSE ConfigureNavStaleness \o << Succeeds(InitInstant(Admin, FeeOnly(1))) >>)
  \o ConfigureNavStaleness \o << Fails(InitInstant(Admin, FeeOnly(1))) >>

TestInstantStoresThresholds ==
  ConfigureNavStaleness \o
  << Succeeds(InitInstant(Admin, InstantSettlement(125, 10, 100, 5, 50))),
     Expect(<<"extension", "InstantSettlement">>, InstantSettlement(125, 10, 100, 5, 50)) >>

TestInstantRejectsInvalidThresholds(min_deposit, max_deposit, min_redeem, max_redeem) ==
  ConfigureNavStaleness \o
  << Fails(InitInstant(Admin,
             InstantSettlement(1, min_deposit, max_deposit, min_redeem, max_redeem))) >>

TestInstantRequiresFeeAndStaleness(fee_bps, configure_staleness) ==
  (IF configure_staleness THEN ConfigureNavStaleness ELSE <<>>)
  \o << Fails(InitInstant(Admin, FeeOnly(fee_bps))) >>

-----------------------------------------------------------------------------
(* tranches.rs, the setup of tranches *)

TrancheSetup ==
  [senior_target_bps |-> 700, min_junior_ratio_bps |-> 2500,
   min_request_amount |-> 0, max_request_amount |-> 0,
   senior_share_mint |-> ShareMint, junior_share_mint |-> "junior_mint"]

TestInitializeTranchesSucceeds ==
  << Succeeds(InitTranches(Admin, TrancheSetup)), Expect(<<"tranches">>, {TrancheSetup}) >>

TestInitializeTranchesRejectsNonCurator == << Fails(InitTranches(Other, TrancheSetup)) >>

TestTranchesRejectExistingPerformanceFee ==
  << Succeeds(Update(Admin, "performance_fee_bps", 100)),
     Fails(InitTranches(Admin, TrancheSetup)) >>

TestPerformanceFeeRejectedAfterTranches ==
  << Succeeds(InitTranches(Admin, TrancheSetup)),
     Fails(Update(Admin, "performance_fee_bps", 100)) >>

TestTranchesRejectedAfterInitialization ==
  << Succeeds(Initialize(Admin)), Fails(InitTranches(Admin, TrancheSetup)) >>

TestTranchesRejectInvalidMints ==
  << Fails(InitTranches(Admin, [TrancheSetup EXCEPT !.junior_share_mint = ShareMint])),
     Fails(InitTranches(Admin, [TrancheSetup EXCEPT !.junior_share_mint = AssetMint])) >>

TestTranchesRequireExistingShareMint ==
  << Fails(InitTranches(Admin, [TrancheSetup EXCEPT !.senior_share_mint = "senior_mint"])) >>

TestTranchesRejectInvalidBps ==
  << Fails(InitTranches(Admin, [TrancheSetup EXCEPT !.senior_target_bps = 10001])) >>

TestTranchesRejectInvalidLimits ==
  << Fails(InitTranches(Admin, [TrancheSetup EXCEPT !.min_request_amount = 100,
                                                    !.max_request_amount = 99])) >>

-----------------------------------------------------------------------------
Tests ==
  << TestInitializeVault(TRUE, FALSE), TestInitializeVault(TRUE, TRUE),
     TestInitializeVault(FALSE, FALSE),
     TestUpdateAsyncVault("paused", TRUE), TestUpdateAsyncVault("paused", FALSE),
     TestUpdateAsyncVault("fee_recipient", Another),
     TestUpdateUnauthorizedSignerFails, TestBreakerCanPauseButNotUnpause,
     TestTimelockedVaultUpdateExecutesAfterEta, TestTimelockedVaultUpdateCancel,
     TestTimelockQueueRejectsPauseChange, TestTimelockBreakerChange,
     TestTimelockQueueRequiresConfiguredDelay, TestExecuteRejectsStaleCurator,
     TestInviteNewAuthority(TRUE), TestInviteNewAuthority(FALSE), TestInviteOverwritesPending,
     TestAcceptAuthorityInvitation(TRUE, TRUE), TestAcceptAuthorityInvitation(FALSE, TRUE),
     TestAcceptAuthorityInvitation(TRUE, FALSE), TestFullAuthorityTransfer,
     TestInitializeAndUpdateFee("DepositFee", FixedAmount(100), Percentage(500)),
     TestInitializeAndUpdateFee("WithdrawalFee", Percentage(200), FixedAmount(50)),
     TestInitializeBothFees,
     TestDuplicateInitFails("DepositFee", FixedAmount(100)),
     TestDuplicateInitFails("WithdrawalFee", Percentage(100)),
     TestUpdateBeforeInitFails("DepositFee", FixedAmount(100)),
     TestUpdateBeforeInitFails("WithdrawalFee", Percentage(100)),
     TestInvalidBpsInitFails("DepositFee"), TestInvalidBpsInitFails("WithdrawalFee"),
     TestInitializeFeeUnauthorizedSignerFails, TestUpdateFeeUnauthorizedSignerFails,
     TestUpdateFeeRequiresTimelockQueue, TestQueuedFeeUpdateExecutesAfterEta,
     TestQueuedFeeUpdateCancel,
     TestDirectExtensionUpdatesRequireQueue, TestQueuedMinSubscriptionWaitsForEta,
     TestQueuedMinRedemptionCanBeCanceled, TestQueuedPausableUpdatesToggle,
     TestQueueExtensionUpdateValidates, TestCancelRequiresCurrentCurator,
     TestExecuteExtensionRejectsStaleCurator,
     TestProtocolFeeConfigIsSet, TestProtocolFeeConfigRejectsDefaultAndReinit,
     TestUpdateProtocolFeeConfig,
     TestInstantRejectsNonCurator, TestInstantFails(TRUE), TestInstantFails(FALSE),
     TestInstantStoresThresholds,
     TestInstantRejectsInvalidThresholds(100, 99, 0, 0),
     TestInstantRejectsInvalidThresholds(0, 0, 100, 99),
     TestInstantRequiresFeeAndStaleness(0, TRUE), TestInstantRequiresFeeAndStaleness(1, FALSE),
     TestInitializeTranchesSucceeds, TestInitializeTranchesRejectsNonCurator,
     TestTranchesRejectExistingPerformanceFee, TestPerformanceFeeRejectedAfterTranches,
     TestTranchesRejectedAfterInitialization, TestTranchesRejectInvalidMints,
     TestTranchesRequireExistingShareMint, TestTranchesRejectInvalidBps,
     TestTranchesRejectInvalidLimits >>

VARIABLES test, pc        \* the test, and its next step

Step == Tests[test][pc]

PerformSetup(call) ==
  \/ call.op = "initialize_vault" /\ InitializeVault(call.who)
  \/ call.op = "initialize_extension" /\ InitializeExtension(call.who, call.type, call.v)
  \/ call.op = "initialize_instant_settlement"
       /\ InitializeInstantSettlement(call.who, call.args)
  \/ call.op = "initialize_tranches" /\ InitializeTranches(call.who, call.args)
  \/ call.op = "initialize_protocol_fee_config"
       /\ InitializeProtocolFeeConfig(call.who, call.recipient)

PerformChange(call) ==
  \/ call.op = "update_vault" /\ UpdateVault(call.who, call.args)
  \/ call.op = "pause_vault" /\ PauseVault(call.who)
  \/ call.op = "update_fee" /\ UpdateFee(call.who, call.args)
  \/ call.op = "update_extension" /\ UpdateExtension(call.who, call.args)
  \/ call.op = "update_protocol_fee_config"
       /\ UpdateProtocolFeeConfig(call.who, call.recipient)
  \/ call.op = "invite" /\ InviteNewAuthority(call.who, call.invited)
  \/ call.op = "accept" /\ AcceptAuthorityInvitation(call.who)

PerformQueued(call) ==
  \/ call.op = "queue_vault_update" /\ QueueVaultUpdate(call.who, call.a, call.args)
  \/ call.op = "queue_fee_update" /\ QueueFeeUpdate(call.who, call.a, call.args)
  \/ call.op = "queue_extension_update" /\ QueueExtensionUpdate(call.who, call.a, call.args)
  \/ call.op = "execute" /\ call.kind = "Vault" /\ ExecuteVaultUpdate(call.a)
  \/ call.op = "execute" /\ call.kind = "Fee" /\ ExecuteFeeUpdate(call.a)
  \/ call.op = "execute" /\ call.kind = "Extension" /\ ExecuteExtensionUpdate(call.a)
  \/ call.op = "cancel" /\ CancelUpdate(call.who, call.a)
  \/ call.op = "clock" /\ Tick

Perform(call) == PerformSetup(call) \/ PerformChange(call) \/ PerformQueued(call)

Observed(field) ==
  CASE field[1] = "vault"     -> vault[field[2]]
    [] field[1] = "extension" -> extension[field[2]]
    [] field[1] = "open"      -> field[2] \in DOMAIN pending
    [] field[1] = "queued_by" -> pending[field[2]].queued_by
    [] field[1] = "delay"     -> pending[field[2]].eta_slot - pending[field[2]].created_slot
    [] field[1] = "routing"   -> protocol_fee_config
    [] field[1] = "tranches"  -> tranche_config

TestInit ==
  /\ Init /\ vault.authority = Admin
  /\ test \in DOMAIN Tests /\ pc = 1

TestNext ==
  /\ pc <= Len(Tests[test])
  /\ \/ Step.kind = "succeeds" /\ Perform(Step.call)
     \/ Step.kind # "succeeds" /\ UNCHANGED governanceVars
  /\ pc' = pc + 1
  /\ UNCHANGED test

TestSpec == TestInit /\ [][TestNext]_<<governanceVars, test, pc>>

\* The model accepts every call the integration tests of a vault's setup,
\* configuration, timelock and authority see accepted, refuses every one they see
\* refused, and holds what they assert.
AgreesWithGovernanceTests ==
  pc <= Len(Tests[test]) =>
    CASE Step.kind = "succeeds" -> ENABLED Perform(Step.call)
      [] Step.kind = "fails"    -> ~ENABLED Perform(Step.call)
      [] Step.kind = "expect"   -> Observed(Step.field) = Step.value
=============================================================================
