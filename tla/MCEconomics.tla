---------------------------- MODULE MCEconomics ----------------------------
(***************************************************************************)
(* One run of AsyncVault in two scenarios, which the first configuration   *)
(* chooses: fees and a deposit cap on two requests at a time, and limits   *)
(* on every exit, over three slots, on one.                                *)
(***************************************************************************)
EXTENDS MCAsyncVault

EconomyConfigs == FeeConfigs \cup LimitConfigs

AtMostOneOpen == \A r, s \in Requests : IsState(r, "Closed") \/ IsState(s, "Closed") \/ r = s

\* The steps of a scenario: the curator stays with its configurations, time passes
\* where there are limits, and assets are sent back where there are fees.
InScenario ==
  IF config \in FeeConfigs
    THEN config' \in FeeConfigs /\ slot' = 0
    ELSE config' \in LimitConfigs /\ returned' = 0 /\ AtMostOneOpen'
=============================================================================
