---------------------------- MODULE MCComponents ----------------------------
(***************************************************************************)
(* The three components of Components and three more, explored in one      *)
(* run: the first state chooses the one that moves, the others rest in an  *)
(* initial state of theirs, so that no property needs to know which it is. *)
(***************************************************************************)
EXTENDS Components, Tlv, MerklePolicy, TLC

CONSTANTS token, vault, alice, bob, prog

VARIABLES
  part,
  tranche_settings, test_nav, test_nav_version, total_asset_balance, tranche_nav,
  tranche_supply, lane, last_waterfall, mint_supply, tranche_request, test_time,
  burnt, test, pc                                                        \* TrancheTests

-----------------------------------------------------------------------------
\* One configuration of the fee for every kind of guard.
Free    == [interval |-> 0, protocol_fee_bps |-> 0,
            max_nav_delta_bps |-> 0, max_implied_apy_bps |-> 0]
Spaced  == [Free EXCEPT !.interval = 2, !.protocol_fee_bps = 3000]
Guarded == [Free EXCEPT !.max_nav_delta_bps = 10000, !.max_implied_apy_bps = 20000]
FeeConfigs == {Free, Spaced, Guarded}

FreshnessSettings == [require_fresh_nav : BOOLEAN, max_nav_staleness_slots : {0, 1}]

\* A fee and the two queues, with values of one or two cells that hold zeros, type
\* numbers and lengths.
SomeDataLen == (1 :> 2) @@ (5 :> 1) @@ (6 :> 1)
SomeQueueOf == (1 :> 5) @@ (2 :> 6)

Meta(key, signer, writable) == [key |-> key, is_signer |-> signer, is_writable |-> writable]
Call(strategist, version, data, accounts) ==
  [strategist |-> strategist, policy_version |-> version, target_program |-> prog,
   data |-> data, accounts |-> accounts]

\* Neighbours of one call that differ in the strategist, the version, the
\* discriminator, the amount, the length, and an account or its privileges; the
\* discriminator and the amount are one cell each.
SomeCalls ==
  {Call(alice, 1, <<0, 0, 1>>, <<Meta(vault, FALSE, TRUE)>>),
   Call(bob, 1, <<0, 0, 1>>, <<Meta(vault, FALSE, TRUE)>>),
   Call(alice, 2, <<0, 0, 1>>, <<Meta(vault, FALSE, TRUE)>>),
   Call(alice, 1, <<1, 0, 1>>, <<Meta(token, FALSE, TRUE)>>),
   Call(alice, 1, <<0, 1, 1>>, <<Meta(vault, TRUE, FALSE)>>),
   Call(alice, 1, <<0, 0>>, <<Meta(token, FALSE, FALSE)>>)}

Bytes(offset, length) == [tag |-> "IngestInstruction", offset |-> offset, length |-> length]
Account(index)        == [tag |-> "IngestAccount", index |-> index]
Amount(offset)        == [tag |-> "ManagerLimitAmount", offset |-> offset]
SomeOperators ==
  {<<Bytes(1, 2), Account(0)>>, <<Amount(1), Account(0)>>, <<Bytes(1, 1), Bytes(1, 2)>>,
   <<Account(1)>>, <<Amount(1), Amount(0)>>}

\* The tests' amounts, scaled as TrancheTests says.
Tests == INSTANCE TrancheTests WITH
  Requests <- {1, 2, 3}, Amounts <- {1, 40, 50, 100}, Navs <- {4, 10, 13}, Settings <- {},
  Precision <- 10, SecondsPerYear <- 4, MaxTime <- 5, MaxUpdates <- 2, MaxIds <- 2,
  MaxShares <- 1000, MaxBurnt <- 0,
  settings <- tranche_settings, nav <- test_nav, nav_version <- test_nav_version,
  request <- tranche_request, now <- test_time

ASSUME ComponentsAssumption ==
  /\ Fee!NavUpdateAssumption
  /\ Decisions!FulfillmentAssumption
  /\ RollingWindowAssumption

-----------------------------------------------------------------------------
feeVars == <<cfg, performance_fee_bps, nav, nav_version, high_water_mark,
             last_fee_crystallization_timestamp, last_nav_update_timestamp, supply,
             fee_recipient, protocol_fee_recipient, now, charges>>
decisionVars == <<settings, request, seen_version, last_nav_update_slot, time, sent>>
windowVars == <<slot, window, spent>>
testVars == <<tranche_settings, test_nav, test_nav_version, total_asset_balance,
              tranche_nav, tranche_supply, lane, last_waterfall, mint_supply,
              tranche_request, test_time, burnt, test, pc>>

\* Where a part with several initial states rests.
RestingPolicy ==
  LET allowed == <<Call(alice, 1, <<0, 0, 1>>, <<Meta(vault, FALSE, TRUE)>>),
                   <<Amount(1), Account(0)>>>>
  IN  <<allowed, allowed>>

MCInit ==
  /\ part \in {"fee", "decisions", "window", "area", "policy", "tests"}
  /\ Fee!NavInit
  /\ part # "fee" => cfg = Free /\ performance_fee_bps = 0
  /\ Decisions!FulfillmentInit
  /\ part # "decisions" => settings = [require_fresh_nav |-> TRUE, max_nav_staleness_slots |-> 0]
  /\ Init
  /\ TlvInit
  /\ \/ part = "policy" /\ MerkleInit
     \/ part # "policy" /\ policy = RestingPolicy /\ levels = <<LeavesOf(policy)>>
  /\ Tests!TestInit
  /\ part # "tests" => test = Tests!WaterfallInitializes

MCNext ==
  \/ /\ part = "fee" /\ Fee!NavNext
     /\ UNCHANGED <<part, decisionVars, windowVars, tlvVars, merkleVars, testVars>>
  \/ /\ part = "decisions" /\ Decisions!FulfillmentNext
     /\ UNCHANGED <<part, feeVars, windowVars, tlvVars, merkleVars, testVars>>
  \/ /\ part = "window" /\ Next
     /\ UNCHANGED <<part, feeVars, decisionVars, tlvVars, merkleVars, testVars>>
  \/ /\ part = "area" /\ TlvNext
     /\ UNCHANGED <<part, feeVars, decisionVars, windowVars, merkleVars, testVars>>
  \/ /\ part = "policy" /\ MerkleNext
     /\ UNCHANGED <<part, feeVars, decisionVars, windowVars, tlvVars, testVars>>
  \/ /\ part = "tests" /\ Tests!TestNext
     /\ UNCHANGED <<part, feeVars, decisionVars, windowVars, tlvVars, merkleVars>>

MCSpec ==
  MCInit /\ [][MCNext]_<<part, feeVars, decisionVars, windowVars, tlvVars,
                         merkleVars, testVars>>

-----------------------------------------------------------------------------
\* The properties of the other modules, each stated and explained in its own.

\* TrancheTests: Tranches accepts, refuses and holds what the integration tests say.
AgreesWithTrancheTests == Tests!AgreesWithTrancheTests
=============================================================================
