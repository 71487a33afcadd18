---------------------------- MODULE TrancheTests ----------------------------
(***************************************************************************)
(* The tests of src/integration-tests/src/async_vault_v2/tranches.rs that  *)
(* create, settle and price requests, replayed on Tranches.  Amounts are   *)
(* the tests' own, except that supplies of a billion are a thousand here,  *)
(* prices of a billion are 10 (the value 10 ^ 9 of a share of 9 decimals,  *)
(* with Precision = 10), and a year has four seconds.                      *)
(***************************************************************************)
EXTENDS Tranches, Replay

Deposit(r, t, amount) == [op |-> "deposit", r |-> r, t |-> t, amount |-> amount]
Redeem(r, t, amount)  == [op |-> "redeem", r |-> r, t |-> t, amount |-> amount]
Approve(r)            == [op |-> "approve", r |-> r]
Cancel(r)             == [op |-> "cancel", r |-> r]
Skip(r)               == [op |-> "skip", r |-> r]
ClaimFor(r)           == [op |-> "claim", r |-> r]
PublishNav(updated)   == [op |-> "nav", updated |-> updated]
AdvanceClock          == [op |-> "clock"]

Unlimited == [l \in Lanes |-> 0]
Config(target_bps, ratio_bps, queues) ==
  [senior_target_bps |-> target_bps, min_junior_ratio_bps |-> ratio_bps,
   min_request_amounts |-> Unlimited, max_request_amounts |-> Unlimited,
   queues |-> queues]

\* What set_share_balance and set_vault_total_asset_balance write before the
\* first call.
Holding(senior, junior, balance) ==
  [minted |-> [t \in TrancheNames |-> IF t = "senior" THEN senior ELSE junior],
   balance |-> balance]
Nothing == Holding(0, 0, 0)

-----------------------------------------------------------------------------
(* Lanes *)

SubscriptionLanesAdvanceIndependently ==
  [config |-> Config(700, 0, {"Deposit"}), start |-> Nothing, steps |->
   << Succeeds(PublishNav(10)),
      Succeeds(Deposit(1, "senior", 100)),
      Succeeds(Deposit(2, "junior", 100)),
      Succeeds(Deposit(3, "senior", 100)),
      Expect(<<"queue_id", 1>>, 1),
      Expect(<<"queue_id", 2>>, 1),
      Expect(<<"queue_id", 3>>, 2),
      Succeeds(Approve(2)),
      Fails(Approve(3)),
      Succeeds(Approve(1)),
      Succeeds(Approve(3)),
      Expect(<<"request_total", <<"senior", "Deposit">>>>, 2),
      Expect(<<"last_processed", <<"senior", "Deposit">>>>, 2),
      Expect(<<"request_total", <<"junior", "Deposit">>>>, 1),
      Expect(<<"last_processed", <<"junior", "Deposit">>>>, 1) >>]

CancelAndSkipAdvanceSelectedLane ==
  [config |-> Config(700, 0, {"Deposit"}), start |-> Nothing, steps |->
   << Succeeds(PublishNav(10)),
      Succeeds(Deposit(1, "junior", 100)),
      Succeeds(Deposit(2, "junior", 100)),
      Succeeds(Cancel(1)),
      Expect(<<"request_state", 1>>, "Canceled"),
      Succeeds(Skip(1)),
      Expect(<<"last_processed", <<"junior", "Deposit">>>>, 1),
      Expect(<<"last_processed", <<"senior", "Deposit">>>>, 0),
      Succeeds(Approve(2)) >>]

RedemptionLanesAdvanceIndependently ==
  [config |-> Config(700, 0, {"Redeem"}), start |-> Holding(1000, 1000, 10000), steps |->
   << Succeeds(PublishNav(10)),
      Succeeds(Redeem(1, "senior", 100)),
      Succeeds(Redeem(2, "junior", 100)),
      Succeeds(Redeem(3, "senior", 100)),
      Expect(<<"queue_id", 1>>, 1),
      Expect(<<"queue_id", 2>>, 1),
      Expect(<<"queue_id", 3>>, 2),
      Succeeds(Approve(2)),
      Fails(Approve(3)),
      Succeeds(Approve(1)),
      Succeeds(Approve(3)),
      Expect(<<"request_total", <<"senior", "Redeem">>>>, 2),
      Expect(<<"last_processed", <<"senior", "Redeem">>>>, 2),
      Expect(<<"request_total", <<"junior", "Redeem">>>>, 1),
      Expect(<<"last_processed", <<"junior", "Redeem">>>>, 1) >>]

-----------------------------------------------------------------------------
(* Limits of a request *)

SeniorDepositRespectsMinimum ==
  [config |-> [Config(700, 2500, {}) EXCEPT
                 !.min_request_amounts[<<"senior", "Deposit">>] = 100],
   start |-> Nothing, steps |->
   << Fails(Deposit(1, "senior", 99)),
      Succeeds(Deposit(2, "senior", 100)) >>]

JuniorRedeemRespectsMaximum ==
  [config |-> [Config(700, 2500, {}) EXCEPT
                 !.max_request_amounts[<<"junior", "Redeem">>] = 50],
   start |-> Holding(0, 60, 0), steps |->
   << Fails(Redeem(1, "junior", 51)),
      Expect(<<"minted", "junior">>, 60),
      Succeeds(Redeem(2, "junior", 50)),
      Expect(<<"minted", "junior">>, 10) >>]

-----------------------------------------------------------------------------
(* The waterfall *)

WaterfallInitializes ==
  [config |-> Config(1000, 2500, {}), start |-> Holding(1000, 1000, 0), steps |->
   << Succeeds(PublishNav(10)),
      Expect(<<"nav", "senior">>, 10),
      Expect(<<"nav", "junior">>, 10),
      Expect(<<"supply", "senior">>, 1000),
      Expect(<<"supply", "junior">>, 1000) >>]

WaterfallCreditsSeniorTarget ==
  [config |-> Config(1000, 2500, {}), start |-> Holding(1000, 1000, 0), steps |->
   << Succeeds(PublishNav(10)),
      Succeeds(AdvanceClock), Succeeds(AdvanceClock),
      Succeeds(AdvanceClock), Succeeds(AdvanceClock),
      Succeeds(PublishNav(13)),
      Expect(<<"nav", "senior">>, 11),
      Expect(<<"nav", "junior">>, 15) >>]

WaterfallLossesHitJuniorFirst ==
  [config |-> Config(1000, 2500, {}), start |-> Holding(1000, 1000, 0), steps |->
   << Succeeds(PublishNav(10)),
      Succeeds(AdvanceClock),
      Succeeds(PublishNav(4)),
      Expect(<<"nav", "senior">>, 8),
      Expect(<<"nav", "junior">>, 0) >>]

-----------------------------------------------------------------------------
(* A junior position from deposit to claim, and the floor under junior.  The  *)
(* share mint a caller passes along is not part of Tranches, so the two calls *)
(* of the first test with the wrong one are not replayed.                     *)

JuniorDepositAndRedeem ==
  [config |-> Config(1000, 2500, {}), start |-> Nothing, steps |->
   << Succeeds(PublishNav(10)),
      Succeeds(Deposit(1, "junior", 100)),
      Succeeds(Approve(1)),
      Expect(<<"minted", "junior">>, 0),
      Succeeds(ClaimFor(1)),
      Expect(<<"minted", "junior">>, 100),
      Expect(<<"minted", "senior">>, 0),
      Succeeds(Redeem(2, "junior", 40)),
      Expect(<<"minted", "junior">>, 60),
      Succeeds(Approve(2)),
      Expect(<<"amount", 2>>, 40),
      Succeeds(ClaimFor(2)) >>]

SeniorDepositKeepsFloor ==
  [config |-> Config(0, 5000, {}), start |-> Holding(100, 100, 0), steps |->
   << Succeeds(PublishNav(10)),
      Succeeds(Deposit(1, "senior", 100)),
      Fails(Approve(1)) >>]

UnclaimedSeniorSharesCount ==
  [config |-> Config(0, 5000, {}), start |-> Holding(100, 200, 0), steps |->
   << Succeeds(PublishNav(10)),
      Succeeds(Deposit(1, "senior", 100)),
      Succeeds(Approve(1)),
      Expect(<<"supply", "senior">>, 200),
      Succeeds(PublishNav(10)),
      Expect(<<"supply", "senior">>, 200),
      Succeeds(Deposit(2, "senior", 100)),
      Fails(Approve(2)) >>]

JuniorRedeemKeepsFloor ==
  [config |-> Config(0, 5000, {}), start |-> Holding(100, 100, 200), steps |->
   << Succeeds(PublishNav(10)),
      Succeeds(Redeem(1, "junior", 1)),
      Fails(Approve(1)) >>]

-----------------------------------------------------------------------------
Tests ==
  {SubscriptionLanesAdvanceIndependently, CancelAndSkipAdvanceSelectedLane,
   RedemptionLanesAdvanceIndependently, SeniorDepositRespectsMinimum,
   JuniorRedeemRespectsMaximum, WaterfallInitializes, WaterfallCreditsSeniorTarget,
   WaterfallLossesHitJuniorFirst, JuniorDepositAndRedeem, SeniorDepositKeepsFloor,
   UnclaimedSeniorSharesCount, JuniorRedeemKeepsFloor}

VARIABLES test, pc        \* the test, and its next step

Step == test.steps[pc]

Perform(call) ==
  \/ call.op = "deposit" /\ CreateDepositRequest(call.r, call.t, call.amount)
  \/ call.op = "redeem" /\ CreateRedeemRequest(call.r, call.t, call.amount)
  \/ call.op = "approve" /\ (ApproveDeposit(call.r) \/ ApproveRedeem(call.r))
  \/ call.op = "cancel" /\ CancelRequest(call.r)
  \/ call.op = "skip" /\ SkipCanceledQueueRequest(call.r)
  \/ call.op = "claim" /\ Claim(call.r)
  \/ call.op = "nav" /\ UpdateVaultNav(call.updated)
  \/ call.op = "clock" /\ Tick

Observed(field) ==
  CASE field[1] = "queue_id"       -> request[field[2]].queue_id
    [] field[1] = "request_state"  -> request[field[2]].request_state
    [] field[1] = "amount"         -> request[field[2]].amount
    [] field[1] = "request_total"  -> lane[field[2]].request_total
    [] field[1] = "last_processed" -> lane[field[2]].last_processed
    [] field[1] = "minted"         -> mint_supply[field[2]]
    [] field[1] = "nav"            -> tranche_nav[field[2]]
    [] field[1] = "supply"         -> tranche_supply[field[2]]

TestInit ==
  /\ test \in Tests /\ pc = 1
  /\ settings = test.config
  /\ mint_supply = test.start.minted
  /\ total_asset_balance = test.start.balance
  /\ nav = 0 /\ nav_version = 0
  /\ tranche_nav = [t \in TrancheNames |-> 0]
  /\ tranche_supply = [t \in TrancheNames |-> 0]
  /\ lane = [l \in Lanes |-> [request_total |-> 0, last_processed |-> 0]]
  /\ last_waterfall = 0
  /\ request = [r \in Requests |-> Closed]
  /\ now = 1
  /\ burnt = [t \in TrancheNames |-> 0]

TestNext ==
  /\ pc <= Len(test.steps)
  /\ \/ Step.kind = "succeeds" /\ Perform(Step.call)
     \/ Step.kind # "succeeds" /\ UNCHANGED vars
  /\ pc' = pc + 1
  /\ UNCHANGED test

TestSpec == TestInit /\ [][TestNext]_<<vars, test, pc>>

\* The model accepts every call the integration tests of the tranches see
\* accepted, refuses every one they see refused, and holds what they assert.
AgreesWithTrancheTests ==
  pc <= Len(test.steps) =>
    CASE Step.kind = "succeeds" -> ENABLED Perform(Step.call)
      [] Step.kind = "fails"    -> ~ENABLED Perform(Step.call)
      [] Step.kind = "expect"   -> Observed(Step.field) = Step.value
=============================================================================
