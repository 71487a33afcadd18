------------------------------ MODULE VaultMath ------------------------------
(***************************************************************************)
(* The vault's integer arithmetic: fees, the protocol's share of a fee,    *)
(* and the conversions between assets and shares at a net asset value.     *)
(* Fees round up and conversions round down, so that every rounding is in  *)
(* the vault's favour.  The products are computed in u128 from u64 factors *)
(* and cannot overflow there; only the widths of counters that can be      *)
(* exhausted are modelled (see AsyncVault).                                *)
(***************************************************************************)
EXTENDS Integers

\* Basis points in a whole (libs/vault_common MAX_BPS).
MAX_BPS == 10000

\* A fee is a fixed amount or a percentage, in basis points, of the total.
FixedAmount(amount) == [kind |-> "FixedAmount", value |-> amount]
Percentage(bps)     == [kind |-> "Percentage",  value |-> bps]

\* FeeType::validate: a percentage is at most the whole.
IsFee(fee) ==
  /\ fee.kind \in {"FixedAmount", "Percentage"}
  /\ fee.value \in Nat
  /\ fee.kind = "Percentage" => fee.value <= MAX_BPS

\* FeeType::get_fee: percentages round up, fixed fees ignore the total.
GetFee(fee, total) ==
  IF fee.kind = "Percentage"
    THEN (total * fee.value + (MAX_BPS - 1)) \div MAX_BPS
    ELSE fee.value

\* split_protocol_fee: the protocol's part of a fee, rounded up; the fee
\* recipient gets what is left.
ProtocolFee(total_fee, bps) ==
  IF total_fee = 0 \/ bps = 0 THEN 0 ELSE GetFee(Percentage(bps), total_fee)

\* calculate_shares: what a net deposit buys, rounded down, and the mutant that
\* rounds up.
CalculateSharesRoundedUp(nav, precision, net) ==
  (net * precision + nav - 1) \div nav

CalculateShares(nav, precision, net) == (net * precision) \div nav

\* calculate_assets: what shares are worth, rounded down.  The code fails
\* when this is 0; the callers state that as a guard.
CalculateAssets(nav, precision, shares) == (shares * nav) \div precision
==============================================================================
