------------------------- MODULE MCStrategyPolicies -------------------------
(***************************************************************************)
(* One run of StrategyPolicies with three alphabets of inputs, of which    *)
(* the first state chooses one: positions of two assets at two venues,     *)
(* managed calls at one venue, and queued policy updates.                  *)
(***************************************************************************)
EXTENDS StrategyPolicies, TLC

CONSTANTS Alice, prog, disc, v3

VARIABLE scenario

\* The registry, the approvals, the positions and the tokens; no policy.
AtVenues == INSTANCE Venues WITH
  VaultUpdates <- {}, VenueIds <- VenueIds \ {v3}, MaxSlot <- 0, MaxTokens <- 2

Leaf(version, metered) ==
  [strategist |-> Alice, policy_version |-> version, target_program |-> prog,
   discriminator |-> disc, metered |-> metered]

\* The curator prepares roots for the version the policy will have: here for two.
SomeLeaves == {Leaf(v, v = 1) : v \in 1 .. 2}
SomePolicyUpdates ==
  {[merkle_root |-> SomeLeaves, paused |-> FALSE],
   [merkle_root |-> {Leaf(1, TRUE)}, paused |-> TRUE]}

\* Alice loses the manager's role and stays hot manager; moves get metered.
StrategyUpdates ==
  {"manager" :> DefaultKey,
   ("manager_rolling_limit" :> 1) @@ ("rolling_limit_window_slots" :> 2)}

Calling == INSTANCE StrategyPolicies WITH
  VaultUpdates <- StrategyUpdates, PolicyAccounts <- {}, VenueIds <- {v3}, Assets <- {},
  ExtensionInits <- {<<"ExternallyManagedWithdrawals", TRUE>>}, MaxSlot <- 1

\* The timelock is armed, and disarmed by a queued change.
TimelockUpdates == {"timelock_delay_slots" :> 1, "timelock_delay_slots" :> 0}

Queueing == INSTANCE StrategyPolicies WITH
  VaultUpdates <- TimelockUpdates, VenueIds <- {}, Assets <- {}, Amounts <- {}, Recipients <- {},
  MaxSlot <- 2

\* Neither the two venues nor the two accounts are told apart by an input.
MCSymmetry == Permutations(VenueIds \ {v3}) \cup Permutations(PolicyAccounts)

MCInit == scenario \in {"venues", "calls", "queue"} /\ StrategyInit

MCNext ==
  /\ \/ scenario = "venues" /\ AtVenues!VenuesNext /\ UNCHANGED policyVars
     \/ scenario = "calls" /\ Calling!StrategyNext
     \/ scenario = "queue" /\ Queueing!StrategyNext
  /\ UNCHANGED scenario

MCSpec == MCInit /\ [][MCNext]_<<strategyVars, scenario>>
=============================================================================
