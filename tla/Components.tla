------------------------------ MODULE Components ------------------------------
(***************************************************************************)
(* Three components that share no state, side by side: a rolling window,   *)
(* the performance fee of NavUpdate and the late decisions of Fulfillment, *)
(* each with constants and variables of its own.                           *)
(***************************************************************************)
EXTENDS RollingWindow

CONSTANTS
  SecondsPerYear, Precision, Configs, FeeRates, Navs, Supplies, MaxTime, MaxUpdates,
  Owners, RequestAmounts, Settings, MaxRequestTime, MaxVersion, MaxSent

VARIABLES
  cfg, performance_fee_bps, nav, nav_version, high_water_mark,
  last_fee_crystallization_timestamp, last_nav_update_timestamp, supply,
  fee_recipient, protocol_fee_recipient, now, charges,                   \* NavUpdate
  settings, request, seen_version, last_nav_update_slot, time, sent      \* Fulfillment

Fee == INSTANCE NavUpdate

Decisions == INSTANCE Fulfillment WITH
  Amounts <- RequestAmounts, MaxTime <- MaxRequestTime,
  nav_version <- seen_version, now <- time

-----------------------------------------------------------------------------
\* The properties of NavUpdate and Fulfillment, stated and explained there.

\* No gain is charged twice (maybe_crystallize_performance_fee).
EachGainChargedOnce == Fee!EachGainChargedOnce
\* Performance fees are an interval apart (IntervalElapsed).
ChargesSpaced == Fee!ChargesSpaced
\* Fee shares are worth the fee once minted (calculate_performance_fee_shares).
FeeDilutionExact == Fee!FeeDilutionExact
\* No approval by a decision older than the request (ApprovalRequestMismatch).
DecisionsAreNotOlder == Decisions!DecisionsAreNotOlder
\* The price came after the request and is not stale (assert_fresh_nav_for_request).
PriceIsUnknownWhenAsked == Decisions!PriceIsUnknownWhenAsked
===============================================================================
