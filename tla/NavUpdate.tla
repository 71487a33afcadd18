------------------------------ MODULE NavUpdate ------------------------------
(***************************************************************************)
(* update_vault_nav of a vault without tranches: the guards on a published *)
(* net asset value, and the performance fee that is paid in new shares     *)
(* when the value passes the high-water mark.  Tranches has the other half *)
(* of the instruction; a vault with tranches charges no performance fee.   *)
(*                                                                         *)
(* charges is not part of the program: it remembers what each fee was      *)
(* taken on, for the properties.                                           *)
(***************************************************************************)
EXTENDS VaultMath, FiniteSets

CONSTANTS
  SecondsPerYear,   \* SECONDS_PER_YEAR, 31536000 in the code
  Precision,        \* 10 ^ decimals of the share mint
  Configs,          \* settings that stay: interval, protocol_fee_bps,
                    \* max_nav_delta_bps, max_implied_apy_bps
  FeeRates,         \* values of performance_fee_bps
  Navs,             \* values that are published
  Supplies,         \* share supplies that deposits and redemptions lead to
  MaxTime,          \* bound: the clock
  MaxUpdates        \* bound: the number of NAV updates

\* What the module asks of its constants.
NavUpdateAssumption ==
  /\ SecondsPerYear \in Nat \ {0} /\ Precision \in Nat \ {0}
  /\ FeeRates \subseteq 0 .. MAX_BPS
  /\ Navs \subseteq Nat /\ Supplies \subseteq Nat
  /\ MaxTime \in Nat \ {0} /\ MaxUpdates \in Nat
  /\ \A c \in Configs :
       /\ c \in [{"interval", "protocol_fee_bps", "max_nav_delta_bps",
                  "max_implied_apy_bps"} -> Nat]
       /\ c.protocol_fee_bps <= MAX_BPS

VARIABLES
  cfg,                   \* a member of Configs
  performance_fee_bps,
  nav, nav_version, high_water_mark,
  last_fee_crystallization_timestamp, last_nav_update_timestamp,
  supply,                \* of the share mint
  fee_recipient, protocol_fee_recipient,   \* the shares each was minted
  now,
  charges                \* records [from, to, at] of the fees taken

published == <<nav, nav_version, last_nav_update_timestamp>>
minted    == <<supply, fee_recipient, protocol_fee_recipient>>
fee_state == <<high_water_mark, last_fee_crystallization_timestamp, charges>>
vars == <<cfg, performance_fee_bps, published, minted, fee_state, now>>

NavInit ==
  /\ cfg \in Configs
  /\ performance_fee_bps \in FeeRates
  /\ nav = 0 /\ nav_version = 0 /\ high_water_mark = 0
  /\ last_fee_crystallization_timestamp = 0 /\ last_nav_update_timestamp = 0
  /\ supply = 0 /\ fee_recipient = 0 /\ protocol_fee_recipient = 0
  /\ now = 1
  /\ charges = {}

-----------------------------------------------------------------------------
\* The guards.

AbsDiff(a, b) == IF a >= b THEN a - b ELSE b - a

\* The move from the last value is within max_nav_delta_bps of it.
ValidateNavDelta(updated_nav) ==
  cfg.max_nav_delta_bps # 0 /\ nav # 0 =>
    (AbsDiff(updated_nav, nav) * MAX_BPS) \div nav <= cfg.max_nav_delta_bps

\* A gain, annualised over the seconds since the last update, is within
\* max_implied_apy_bps.  Nothing is asked of a loss, of the first update, or
\* of an update in the second of the last one.
ValidateImpliedApy(updated_nav) ==
  LET elapsed  == now - last_nav_update_timestamp
      gain_bps == ((updated_nav - nav) * MAX_BPS) \div nav
  IN  /\ cfg.max_implied_apy_bps # 0
      /\ nav # 0 /\ updated_nav > nav
      /\ last_nav_update_timestamp # 0 /\ elapsed > 0
      => (gain_bps * SecondsPerYear) \div elapsed <= cfg.max_implied_apy_bps

ValidateNavUpdate(updated_nav) ==
  ValidateNavDelta(updated_nav) /\ ValidateImpliedApy(updated_nav)

-----------------------------------------------------------------------------
\* The performance fee.

TotalAssets(updated_nav, share_supply) == (share_supply * updated_nav) \div Precision

\* The part of the gain above the mark that is the fee, in assets.
FeeAssets(updated_nav, mark, share_supply) ==
  ((((share_supply * (updated_nav - mark)) \div Precision) * performance_fee_bps)
     \div MAX_BPS)

\* calculate_performance_fee_shares: the shares that are worth the fee once
\* they are minted, rounded down; and the mutant that divides by the value
\* before the fee is taken out of it.
PerformanceFeeSharesUndiluted(updated_nav, mark, share_supply) ==
  LET fee_assets == FeeAssets(updated_nav, mark, share_supply)
  IN  IF fee_assets = 0
        THEN 0
        ELSE (fee_assets * share_supply) \div TotalAssets(updated_nav, share_supply)

PerformanceFeeShares(updated_nav, mark, share_supply) ==
  LET fee_assets == FeeAssets(updated_nav, mark, share_supply)
  IN  IF share_supply = 0 \/ updated_nav <= mark \/ fee_assets = 0
        THEN 0
        ELSE (fee_assets * share_supply)
               \div (TotalAssets(updated_nav, share_supply) - fee_assets)

\* The denominator must not be 0: a fee of all the vault is worth fails.
FeeCanBePaid(updated_nav, mark, share_supply) ==
  LET fee_assets == FeeAssets(updated_nav, mark, share_supply)
  IN  fee_assets = 0 \/ TotalAssets(updated_nav, share_supply) > fee_assets

\* A fee is due no sooner than the interval after the last crystallization.
\* The mark of a vault that charges no fee, or has none yet, moves at once.
IntervalElapsed ==
  \/ performance_fee_bps = 0
  \/ high_water_mark = 0
  \/ cfg.interval = 0
  \/ now - last_fee_crystallization_timestamp >= cfg.interval

FeeIsDue == performance_fee_bps > 0 /\ high_water_mark > 0

MintFee(shares) ==
  LET protocol == ProtocolFee(shares, cfg.protocol_fee_bps)
  IN  /\ supply' = supply + shares
      /\ fee_recipient' = fee_recipient + (shares - protocol)
      /\ protocol_fee_recipient' = protocol_fee_recipient + protocol

\* maybe_crystallize_performance_fee, after the mutant that does not note when
\* it crystallized.
CrystallizeForgettingWhen(updated_nav) ==
  \/ /\ updated_nav <= high_water_mark \/ ~IntervalElapsed
     /\ UNCHANGED <<minted, fee_state>>
  \/ /\ updated_nav > high_water_mark /\ IntervalElapsed
     /\ high_water_mark' = updated_nav
     /\ UNCHANGED last_fee_crystallization_timestamp
     /\ IF FeeIsDue
          THEN /\ FeeCanBePaid(updated_nav, high_water_mark, supply)
               /\ MintFee(PerformanceFeeShares(updated_nav, high_water_mark, supply))
               /\ charges' = charges \cup
                    {[from |-> high_water_mark, to |-> updated_nav, at |-> now,
                      version |-> nav_version]}
          ELSE UNCHANGED <<minted, charges>>

MaybeCrystallizePerformanceFee(updated_nav) ==
  \/ /\ updated_nav <= high_water_mark \/ ~IntervalElapsed
     /\ UNCHANGED <<minted, fee_state>>
  \/ /\ updated_nav > high_water_mark /\ IntervalElapsed
     /\ high_water_mark' = updated_nav
     /\ last_fee_crystallization_timestamp' = now
     /\ IF FeeIsDue
          THEN /\ FeeCanBePaid(updated_nav, high_water_mark, supply)
               /\ MintFee(PerformanceFeeShares(updated_nav, high_water_mark, supply))
               /\ charges' = charges \cup
                    {[from |-> high_water_mark, to |-> updated_nav, at |-> now,
                      version |-> nav_version]}
          ELSE UNCHANGED <<minted, charges>>

\* update_vault_nav, after the mutant whose mark follows the value down.
UpdateVaultNavMarkFollows(updated_nav) ==
  /\ nav_version < MaxUpdates
  /\ ValidateNavUpdate(updated_nav)
  /\ \/ /\ updated_nav < high_water_mark
        /\ high_water_mark' = updated_nav
        /\ UNCHANGED <<minted, charges, last_fee_crystallization_timestamp>>
     \/ updated_nav >= high_water_mark /\ MaybeCrystallizePerformanceFee(updated_nav)
  /\ nav' = updated_nav
  /\ nav_version' = nav_version + 1
  /\ last_nav_update_timestamp' = now
  /\ UNCHANGED <<cfg, performance_fee_bps, now>>

UpdateVaultNav(updated_nav) ==
  /\ nav_version < MaxUpdates
  /\ ValidateNavUpdate(updated_nav)
  /\ MaybeCrystallizePerformanceFee(updated_nav)
  /\ nav' = updated_nav
  /\ nav_version' = nav_version + 1
  /\ last_nav_update_timestamp' = now
  /\ UNCHANGED <<cfg, performance_fee_bps, now>>

\* update_vault, directly or out of its queue: another fee rate.
SetPerformanceFee(bps) ==
  /\ performance_fee_bps # bps
  /\ performance_fee_bps' = bps
  /\ UNCHANGED <<cfg, published, minted, fee_state, now>>

\* Claims, instant settlement and redemptions change the supply in between.
SetSupply(shares) ==
  /\ supply # shares
  /\ supply' = shares
  /\ UNCHANGED <<cfg, performance_fee_bps, published, fee_state, now,
                 fee_recipient, protocol_fee_recipient>>

Tick ==
  /\ now < MaxTime
  /\ now' = now + 1
  /\ UNCHANGED <<cfg, performance_fee_bps, published, minted, fee_state>>

NavNext ==
  \/ \E n \in Navs : UpdateVaultNav(n)
  \/ \E bps \in FeeRates : SetPerformanceFee(bps)
  \/ \E shares \in Supplies : SetSupply(shares)
  \/ Tick

NavSpec == NavInit /\ [][NavNext]_vars

-----------------------------------------------------------------------------
\* No gain is charged twice: the spans of value that performance fees were taken
\* on do not overlap, whatever the published value, the fee rate and the supply
\* did in between.  After a fall, holders pay nothing again until the old
\* high-water mark is passed (maybe_crystallize_performance_fee).
EachGainChargedOnce ==
  \A c, d \in charges : c # d => c.to <= d.from \/ d.to <= c.from

\* Two performance fees are at least the crystallization interval apart, even
\* when the fee was switched off and on between them.
ChargesSpaced ==
  \A c, d \in charges : c # d => AbsDiff(c.at, d.at) >= cfg.interval

\* The dilution is exact: the shares minted for a fee are the most that are, once
\* minted, worth no more than the fee (calculate_performance_fee_shares solves
\* against the supply after the mint).  When all shares together are worth less
\* than a unit, any number of them is worth nothing, and none are minted.
DilutesExactly ==
  charges' # charges =>
    LET shares == supply' - supply
        fee    == FeeAssets(nav', high_water_mark, supply)
        total  == TotalAssets(nav', supply)
    IN  /\ shares * total <= fee * (supply + shares)
        /\ IF total = 0 THEN shares = 0
                        ELSE (shares + 1) * total > fee * (supply + shares + 1)

FeeDilutionExact == [][DilutesExactly]_vars
==============================================================================
