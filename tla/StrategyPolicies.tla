-------------------------- MODULE StrategyPolicies --------------------------
(***************************************************************************)
(* Strategy policies on top of Venues: for each strategist one account     *)
(* with a Merkle root of the calls it may have the vault sign, changed     *)
(* directly or through the timelock, stopped at once by the curator or the *)
(* breaker, and closed by the curator.                                     *)
(*                                                                         *)
(* A root is the set of leaves it commits to and {} the zero root:         *)
(* MerklePolicy shows that a proof is accepted exactly for those.  A       *)
(* managed call is one step: the program sets `executing' and flushes it   *)
(* before the call and clears it after, a failure of the call or of the    *)
(* checks after it undoes everything, and the runtime refuses a callback   *)
(* into a program that is already on the call stack.                       *)
(***************************************************************************)
EXTENDS Venues

CONSTANTS
  Leaves,             \* calls a root may commit to
  PolicyUpdates,      \* StrategyPolicyUpdateArgs: [merkle_root, paused]
  PolicyAccounts,     \* addresses of PendingStrategyPolicyUpdate accounts
  ThisProgram,        \* crate::ID
  MaxVersion          \* bound: a policy's version

ASSUME StrategyAssumption ==
  /\ \A u \in PolicyUpdates : u.merkle_root \subseteq Leaves /\ u.paused \in BOOLEAN
  /\ MaxVersion \in Nat

VARIABLES
  policy,             \* StrategyPolicy accounts, by strategist
  pending_policy,     \* PendingStrategyPolicyUpdate accounts
  \* history, read by no instruction
  orphaned,           \* pending updates whose policy was closed
  outdated,           \* the other ones, queued before a change of the policy
  standing,           \* by strategist: calls approved since its last stop
  called,             \* {} or the call the last step made, with the venue it used
  policy_notice       \* by pending account: the delay in force when it was queued

policyVars == <<policy, pending_policy, orphaned, outdated, standing,
                called, policy_notice>>
strategyVars == <<venuesVars, policyVars>>

PendingFor(s) == {a \in DOMAIN pending_policy : pending_policy[a].strategist = s}

-----------------------------------------------------------------------------
(* Life of a policy *)

InitializeStrategyPolicy(who, s) ==
  /\ Curator(who)
  /\ s # DefaultKey
  /\ s \notin DOMAIN policy
  /\ policy' = With(policy, s, [merkle_root |-> {}, version |-> 0, paused |-> TRUE])
  /\ called' = {}
  /\ UNCHANGED <<venuesVars, pending_policy, orphaned, outdated, standing, policy_notice>>

\* validate_strategy_policy_update
ValidPolicyUpdate(args) == ~args.paused => args.merkle_root # {}

\* apply_strategy_policy_update, to the policy of s.
ApplyPolicyUpdate(s, args) ==
  /\ ValidPolicyUpdate(args)
  /\ policy[s].version < MaxVersion
  /\ policy' = [policy EXCEPT ![s] =
       [merkle_root |-> args.merkle_root, paused |-> args.paused,
        version |-> @.version + 1]]
  /\ standing' = [standing EXCEPT ![s] = IF args.paused THEN {} ELSE args.merkle_root]
  /\ called' = {}

\* update_strategy_policy is refused while a timelock is configured, which the
\* mutant does not look at.
UpdateWithoutNotice(who, s, args) ==
  /\ Curator(who)
  /\ s \in DOMAIN policy
  /\ ApplyPolicyUpdate(s, args)
  /\ outdated' = outdated \cup (PendingFor(s) \ orphaned)
  /\ UNCHANGED <<venuesVars, pending_policy, orphaned, policy_notice>>

UpdateStrategyPolicy(who, s, args) ==
  /\ CuratorUntimed(who)
  /\ s \in DOMAIN policy
  /\ ApplyPolicyUpdate(s, args)
  /\ outdated' = outdated \cup (PendingFor(s) \ orphaned)
  /\ UNCHANGED <<venuesVars, pending_policy, orphaned, policy_notice>>

QueueStrategyPolicyUpdate(who, a, s, args) ==
  /\ Curator(who)
  /\ vault.timelock_delay_slots > 0
  /\ s \in DOMAIN policy
  /\ a \notin DOMAIN pending_policy
  /\ ValidPolicyUpdate(args)
  /\ pending_policy' = With(pending_policy, a,
       [strategist |-> s, queued_by |-> who, created_slot |-> slot,
        eta_slot |-> slot + vault.timelock_delay_slots,
        expected_version |-> policy[s].version, args |-> args])
  /\ policy_notice' = With(policy_notice, a, vault.timelock_delay_slots)
  /\ called' = {}
  /\ UNCHANGED <<venuesVars, policy, orphaned, outdated, standing>>

\* Forgetting the account that is closed, in the history too.
ClosePending(a) ==
  pending_policy' = Without(pending_policy, a)

\* Anyone may execute.  The mutant does not compare the versions.
ExecuteAnyVersion(a) ==
  /\ a \in DOMAIN pending_policy
  /\ LET p == pending_policy[a]
     IN /\ p.strategist \in DOMAIN policy
        /\ slot >= p.eta_slot
        /\ p.queued_by = vault.curator
        /\ ApplyPolicyUpdate(p.strategist, p.args)
        /\ outdated' = (outdated \cup (PendingFor(p.strategist) \ orphaned)) \ {a}
  /\ ClosePending(a)
  /\ orphaned' = orphaned \ {a}
  /\ UNCHANGED <<venuesVars, policy_notice>>

ExecuteStrategyPolicyUpdate(a) ==
  /\ a \in DOMAIN pending_policy
  /\ LET p == pending_policy[a]
     IN /\ p.strategist \in DOMAIN policy
        /\ slot >= p.eta_slot
        /\ p.queued_by = vault.curator
        /\ policy[p.strategist].version = p.expected_version
        /\ ApplyPolicyUpdate(p.strategist, p.args)
        /\ outdated' = (outdated \cup (PendingFor(p.strategist) \ orphaned)) \ {a}
  /\ ClosePending(a)
  /\ orphaned' = orphaned \ {a}
  /\ UNCHANGED <<venuesVars, policy_notice>>

CancelStrategyPolicyUpdate(who, a) ==
  /\ Curator(who)
  /\ a \in DOMAIN pending_policy
  /\ ClosePending(a)
  /\ orphaned' = orphaned \ {a}
  /\ outdated' = outdated \ {a}
  /\ called' = {}
  /\ UNCHANGED <<venuesVars, policy, standing, policy_notice>>

\* The emergency stop: it ignores the timelock.  The mutant forgets the flag.
StopByVersionOnly(who, s) ==
  /\ who \in {vault.curator, vault.breaker}
  /\ s \in DOMAIN policy
  /\ policy[s].version < MaxVersion
  /\ policy' = [policy EXCEPT ![s].version = @ + 1]
  /\ outdated' = outdated \cup (PendingFor(s) \ orphaned)
  /\ standing' = [standing EXCEPT ![s] = {}]
  /\ called' = {}
  /\ UNCHANGED <<venuesVars, pending_policy, orphaned, policy_notice>>

PauseStrategyPolicy(who, s) ==
  /\ who \in {vault.curator, vault.breaker}
  /\ s \in DOMAIN policy
  /\ policy[s].version < MaxVersion
  /\ policy' = [policy EXCEPT ![s].paused = TRUE, ![s].version = @ + 1]
  /\ outdated' = outdated \cup (PendingFor(s) \ orphaned)
  /\ standing' = [standing EXCEPT ![s] = {}]
  /\ called' = {}
  /\ UNCHANGED <<venuesVars, pending_policy, orphaned, policy_notice>>

\* What was queued for the closed policy stays, and would apply to a new one.
CloseStrategyPolicy(who, s) ==
  /\ Curator(who)
  /\ s \in DOMAIN policy
  /\ policy' = Without(policy, s)
  /\ outdated' = outdated \ PendingFor(s)
  /\ orphaned' = orphaned \cup PendingFor(s)
  /\ standing' = [standing EXCEPT ![s] = {}]
  /\ called' = {}
  /\ UNCHANGED <<venuesVars, pending_policy, policy_notice>>

-----------------------------------------------------------------------------
(* Managed calls *)

\* StrategyPolicy::assert_active
PolicyActive(s) ==
  /\ s \in DOMAIN policy
  /\ ~policy[s].paused
  /\ policy[s].merkle_root # {}

\* The venue's program, with the vault as a signer, can move any of its tokens; a
\* call that leaves the share supply changed fails.
TargetEffect(amount) ==
  \/ UNCHANGED <<reserve, position_token>>
  \/ \E m \in Mints :
       /\ reserve[m] >= amount
       /\ reserve' = [reserve EXCEPT ![m] = @ - amount]
       /\ UNCHANGED position_token
  \/ \E p \in DOMAIN position_token :
       /\ position_token[p] >= amount
       /\ position_token' = [position_token EXCEPT ![p] = @ - amount]
       /\ UNCHANGED reserve

\* The program computes the leaf from the call: it names the strategist and the
\* version the caller gave, which has to be the policy's.
ManageVaultWithMerkleVerification(who, e, leaf, amount) ==
  /\ UnpausedAndInitialized
  /\ PolicyActive(who)
  /\ leaf.strategist = who
  /\ leaf.policy_version = policy[who].version
  /\ VenueActive(e)
  /\ ManagerAuthorized(e, who)
  /\ leaf.target_program = venue_entry[e].target_program
  /\ leaf.target_program = vault_venue[e].target_program
  /\ leaf.target_program # ThisProgram
  /\ leaf.discriminator \in venue_entry[e].allowed_discriminators
  /\ leaf \in policy[who].merkle_root
  /\ leaf.metered =>
       RollingLimitAllows(manager_window, amount, slot, vault.manager_rolling_limit,
                          vault.rolling_limit_window_slots)
  /\ manager_window' =
       IF leaf.metered THEN Metered(manager_window, amount) ELSE manager_window
  /\ TargetEffect(amount)
  /\ called' = {[entry |-> e, leaf |-> leaf, amount |-> amount]}
  /\ UNCHANGED <<governanceVars, venue_entry, vault_venue, vault_asset, position,
                 external_window, policy, pending_policy, orphaned,
                 outdated, standing, policy_notice>>

-----------------------------------------------------------------------------
(* Specification *)

StrategyInit ==
  /\ VenuesInit
  /\ policy = [s \in {} |-> 0]
  /\ pending_policy = [a \in {} |-> 0]
  /\ orphaned = {}
  /\ outdated = {}
  /\ standing = [s \in Keys |-> {}]
  /\ called = {}
  /\ policy_notice = [a \in {} |-> 0]

PolicyLife(who, s) ==
  \/ InitializeStrategyPolicy(who, s)
  \/ \E args \in PolicyUpdates :
       \/ UpdateStrategyPolicy(who, s, args)
       \/ \E a \in PolicyAccounts : QueueStrategyPolicyUpdate(who, a, s, args)
  \/ PauseStrategyPolicy(who, s)
  \/ CloseStrategyPolicy(who, s)

PolicyTimelock(who, a) ==
  ExecuteStrategyPolicyUpdate(a) \/ CancelStrategyPolicyUpdate(who, a)

StrategyNext ==
  \/ \E who, s \in Keys : PolicyLife(who, s)
  \/ \E who \in Keys, a \in PolicyAccounts : PolicyTimelock(who, a)
  \/ \E who \in Keys, e \in DOMAIN vault_venue, leaf \in Leaves, amount \in Amounts :
       ManageVaultWithMerkleVerification(who, e, leaf, amount)
  \/ /\ VenuesNext
     /\ called' = {}
     /\ UNCHANGED <<policy, pending_policy, orphaned, outdated, standing,
                    policy_notice>>

StrategySpec == StrategyInit /\ [][StrategyNext]_strategyVars

-----------------------------------------------------------------------------
(* Properties *)

\* What has to hold of the venue, the role and the manager's window when a call is made.
VenueStands(call) ==
  /\ call.entry \in DOMAIN vault_venue
  /\ ~vault_venue[call.entry].paused /\ ~venue_entry[call.entry].paused
  /\ call.leaf.target_program = vault_venue[call.entry].target_program
  /\ call.leaf.discriminator \in venue_entry[call.entry].allowed_discriminators

RoleStands(call) ==
  \/ call.leaf.strategist = vault.manager
  \/ call.leaf.strategist = vault.hot_manager /\ vault_venue[call.entry].routine_safe

Counted(call) ==
  call.leaf.metered /\ vault.manager_rolling_limit # 0 =>
    /\ call.amount <= manager_window.amount
    /\ manager_window.amount <= vault.manager_rolling_limit

\* Everything that has to allow a call stands when it is made, each in the hands of
\* others: the policy, approved after its last stop by the curator or the breaker;
\* the vault, not paused; the venue, which its registry has not paused and the curator
\* approved and has not removed since, for the program that is called; the role, where
\* a hot manager may use routine-safe venues only; and for a metered call the limit,
\* under which the manager's window counts it (manage_vault_with_merkle_verification,
\* pause_strategy_policy, set_venue_entry_paused, remove_vault_venue).
CallsNeedStandingApproval ==
  \A call \in called :
    /\ call.leaf \in standing[call.leaf.strategist]
    /\ ~vault.paused
    /\ VenueStands(call) /\ RoleStands(call) /\ Counted(call)

\* No step unbalances the books of the positions, and none but a managed call, whose
\* target may move tokens past the books, leaves them without the tokens
\* (PositionLedger, deploy_venue_position, pull_venue_position, remove_vault_asset).
KeepsLedger ==
  /\ LedgerBalanced'
  /\ LedgerBacked /\ called' = {} => LedgerBacked'
LedgerHolds == [][KeepsLedger]_strategyVars

\* As long as a policy is not closed, an update queued for it is applied only if
\* nothing changed the policy since: no other update and no stop (expected_version).
RefusesStale ==
  \A a \in outdated : a \in DOMAIN pending_policy' \/ policy' = policy
StaleUpdatesRefused == [][RefusesStale]_strategyVars

\* While a timelock is configured a policy gets a new root, or is set running again,
\* only by an update that waited for the delay in force when it was queued.
GivesPolicyNotice ==
  vault.timelock_delay_slots > 0 =>
    \A s \in DOMAIN policy \cap DOMAIN policy' :
      \/ policy'[s].merkle_root = policy[s].merkle_root
           /\ (policy'[s].paused \/ ~policy[s].paused)
      \/ \E a \in DOMAIN pending_policy \ DOMAIN pending_policy' :
           slot >= pending_policy[a].created_slot + policy_notice[a]
PolicyNoticeGiven == [][GivesPolicyNotice]_strategyVars
=============================================================================
