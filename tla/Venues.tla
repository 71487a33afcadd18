------------------------------- MODULE Venues -------------------------------
(***************************************************************************)
(* Where a vault's assets may be put to work: a registry of venues that    *)
(* anyone can open, the venues and secondary assets a curator approved,    *)
(* and the positions that hold what managers deployed.                     *)
(*                                                                         *)
(* Accounts that come and go are functions with a changing domain, as in   *)
(* Governance, whose actions stay possible between these.  A VenueEntry is *)
(* identified by its seeds <<registry authority, venue id>>, a Position by *)
(* <<venue entry, mint>>.  Token accounts are kept apart from the program's *)
(* own books: reserve[m] and position_token[p] are what the token program  *)
(* says, idle_balance, deployed_balance and amount what the program wrote. *)
(***************************************************************************)
EXTENDS Governance, RollingLimit, Units, FiniteSetsExt

CONSTANTS
  VenueIds,           \* ids a registry authority registers
  TargetPrograms, Discriminators,
  Assets,             \* secondary asset mints
  Amounts,            \* amounts deployed, pulled, withdrawn or sent
  MaxTokens           \* bound: tokens of one mint that reach the vault

MAX_VENUE_DISCRIMINATORS == 8
MAX_APPROVED_ASSETS == 8

ASSUME VenuesAssumption ==
  /\ AssetMint \notin Assets
  /\ IsFiniteSet(Keys) /\ IsFiniteSet(VenueIds) /\ IsFiniteSet(Assets)
  /\ Amounts \subseteq Nat
  /\ MaxTokens \in Nat

Mints == Assets \cup {AssetMint}
Entries == Keys \X VenueIds
Positions == Entries \X Mints

VARIABLES
  venue_entry,        \* VenueEntry accounts, never closed
  vault_venue,        \* VaultVenue accounts of this vault
  vault_asset,        \* VaultAsset accounts of secondary assets
  position,           \* Position accounts
  position_token,     \* tokens in each position's token account
  reserve,            \* tokens in the vault's token account of each mint
  manager_window,     \* the vault's window for moves of the primary asset
  external_window     \* the vault's window for external withdrawals

venueVars == <<venue_entry, vault_venue, vault_asset, position, position_token,
               reserve, manager_window, external_window>>
venuesVars == <<governanceVars, venueVars>>

IsPrimaryAsset(m) == m = AssetMint

\* VaultAsset::assert_matches: the primary asset needs no VaultAsset account.
AssetApproved(m) == IsPrimaryAsset(m) \/ m \in DOMAIN vault_asset

\* VenueEntry::assert_active and VaultVenue::assert_active.  No instruction sets
\* the second flag.  The mutant leaves out the first check.
VenueApproved(e) ==
  /\ e \in DOMAIN vault_venue
  /\ ~vault_venue[e].paused

VenueActive(e) ==
  /\ e \in DOMAIN vault_venue
  /\ ~venue_entry[e].paused
  /\ ~vault_venue[e].paused

\* VaultVenue::assert_manager_authorized
ManagerAuthorized(e, who) ==
  \/ who = vault.manager
  \/ who = vault.hot_manager /\ vault_venue[e].routine_safe

UnpausedAndInitialized == ~vault.paused /\ vault.initialized

CuratorUntimed(who) == Curator(who) /\ vault.timelock_delay_slots = 0

-----------------------------------------------------------------------------
(* The registry and the venues a vault uses *)

RegisterVenue(who, id, target, allowed, routine_safe) ==
  /\ <<who, id>> \notin DOMAIN venue_entry
  /\ Cardinality(allowed) \in 1 .. MAX_VENUE_DISCRIMINATORS
  /\ venue_entry' = With(venue_entry, <<who, id>>,
       [target_program |-> target, allowed_discriminators |-> allowed,
        routine_safe |-> routine_safe, paused |-> FALSE])
  /\ UNCHANGED <<governanceVars, vault_venue, vault_asset, position, position_token,
                 reserve, manager_window, external_window>>

SetVenueEntryPaused(who, e, paused) ==
  /\ e \in DOMAIN venue_entry
  /\ who = e[1]
  /\ venue_entry' = [venue_entry EXCEPT ![e].paused = paused]
  /\ UNCHANGED <<governanceVars, vault_venue, vault_asset, position, position_token,
                 reserve, manager_window, external_window>>

\* The target program and the flag for hot managers are copied from the entry.
ApproveVaultVenue(who, e, recipient) ==
  /\ CuratorUntimed(who)
  /\ recipient # DefaultKey
  /\ e \in DOMAIN venue_entry \ DOMAIN vault_venue
  /\ ~venue_entry[e].paused
  /\ vault_venue' = With(vault_venue, e,
       [recipient_authority |-> recipient,
        target_program |-> venue_entry[e].target_program,
        routine_safe |-> venue_entry[e].routine_safe,
        paused |-> FALSE, position_count |-> 0])
  /\ UNCHANGED <<governanceVars, venue_entry, vault_asset, position, position_token,
                 reserve, manager_window, external_window>>

RemoveVaultVenue(who, e) ==
  /\ CuratorUntimed(who)
  /\ e \in DOMAIN vault_venue
  /\ vault_venue[e].position_count = 0
  /\ vault_venue' = Without(vault_venue, e)
  /\ UNCHANGED <<governanceVars, venue_entry, vault_asset, position, position_token,
                 reserve, manager_window, external_window>>

-----------------------------------------------------------------------------
(* Secondary assets *)

AddVaultAsset(who, m) ==
  /\ CuratorUntimed(who)
  /\ ~IsPrimaryAsset(m)
  /\ m \notin DOMAIN vault_asset
  /\ Cardinality(DOMAIN vault_asset) < MAX_APPROVED_ASSETS
  /\ vault_asset' = With(vault_asset, m,
       [idle_balance |-> 0, deployed_balance |-> 0, manager_window |-> NoWindow])
  /\ UNCHANGED <<governanceVars, venue_entry, vault_venue, position, position_token,
                 reserve, manager_window, external_window>>

\* Pending deposits are AsyncVault's: here there are none.
RemoveVaultAsset(who, m) ==
  /\ CuratorUntimed(who)
  /\ m \in DOMAIN vault_asset
  /\ vault_asset[m].idle_balance = 0
  /\ vault_asset[m].deployed_balance = 0
  /\ reserve[m] = 0
  /\ vault_asset' = Without(vault_asset, m)
  /\ UNCHANGED <<governanceVars, venue_entry, vault_venue, position, position_token,
                 reserve, manager_window, external_window>>

-----------------------------------------------------------------------------
(* Positions *)

\* The mutant does not count the position.
CreateUncountedPosition(who, e, m) ==
  /\ CuratorUntimed(who)
  /\ AssetApproved(m)
  /\ VenueActive(e)
  /\ <<e, m>> \notin DOMAIN position
  /\ position' = With(position, <<e, m>>, 0)
  /\ position_token' = With(position_token, <<e, m>>, 0)
  /\ UNCHANGED <<governanceVars, venue_entry, vault_venue, vault_asset, reserve,
                 manager_window, external_window>>

CreateVenuePosition(who, e, m) ==
  /\ CuratorUntimed(who)
  /\ AssetApproved(m)
  /\ VenueActive(e)
  /\ <<e, m>> \notin DOMAIN position
  /\ position' = With(position, <<e, m>>, 0)
  /\ position_token' = With(position_token, <<e, m>>, 0)
  /\ vault_venue' = [vault_venue EXCEPT ![e].position_count = @ + 1]
  /\ UNCHANGED <<governanceVars, venue_entry, vault_asset, reserve,
                 manager_window, external_window>>

\* What deploying and pulling share: the signer, the venue, and the manager's
\* window of the asset, which moves in both directions use up.
ManagerMove(who, e, m, amount) ==
  /\ UnpausedAndInitialized
  /\ <<e, m>> \in DOMAIN position
  /\ VenueActive(e)
  /\ ManagerAuthorized(e, who)
  /\ AssetApproved(m)
  /\ RollingLimitAllows(
       IF IsPrimaryAsset(m) THEN manager_window ELSE vault_asset[m].manager_window,
       amount, slot, vault.manager_rolling_limit, vault.rolling_limit_window_slots)

Metered(w, amount) ==
  ConsumeRollingLimit(w, amount, slot, vault.manager_rolling_limit,
                      vault.rolling_limit_window_slots)

\* PositionLedger::deploy and ::pull write the three numbers of a secondary asset
\* together; delta is negative for a pull.  The primary asset has no such ledger:
\* its reserve counts in full.
LedgerMove(m, amount, delta) ==
  IF IsPrimaryAsset(m)
    THEN /\ manager_window' = Metered(manager_window, amount)
         /\ UNCHANGED vault_asset
    ELSE /\ vault_asset' = [vault_asset EXCEPT
              ![m].idle_balance = @ - delta,
              ![m].deployed_balance = @ + delta,
              ![m].manager_window = Metered(@, amount)]
         /\ UNCHANGED manager_window

DeployVenuePosition(who, e, m, amount) ==
  /\ ManagerMove(who, e, m, amount)
  /\ ~IsPrimaryAsset(m) => vault_asset[m].idle_balance >= amount
  /\ reserve[m] >= amount
  /\ reserve' = [reserve EXCEPT ![m] = @ - amount]
  /\ position_token' = [position_token EXCEPT ![<<e, m>>] = @ + amount]
  /\ position' = [position EXCEPT ![<<e, m>>] = @ + amount]
  /\ LedgerMove(m, amount, amount)
  /\ UNCHANGED <<governanceVars, venue_entry, vault_venue, external_window>>

\* The mutant checks the asset's deployed balance and not this position's part.
PullFromAnyPosition(who, e, m, amount) ==
  /\ ManagerMove(who, e, m, amount)
  /\ ~IsPrimaryAsset(m) => vault_asset[m].deployed_balance >= amount
  /\ position_token[<<e, m>>] >= amount
  /\ reserve' = [reserve EXCEPT ![m] = @ + amount]
  /\ position_token' = [position_token EXCEPT ![<<e, m>>] = @ - amount]
  /\ LedgerMove(m, amount, -amount)
  /\ UNCHANGED <<governanceVars, venue_entry, vault_venue, position, external_window>>

PullVenuePosition(who, e, m, amount) ==
  /\ ManagerMove(who, e, m, amount)
  /\ position[<<e, m>>] >= amount
  /\ ~IsPrimaryAsset(m) => vault_asset[m].deployed_balance >= amount
  /\ position_token[<<e, m>>] >= amount
  /\ reserve' = [reserve EXCEPT ![m] = @ + amount]
  /\ position_token' = [position_token EXCEPT ![<<e, m>>] = @ - amount]
  /\ position' = [position EXCEPT ![<<e, m>>] = @ - amount]
  /\ LedgerMove(m, amount, -amount)
  /\ UNCHANGED <<governanceVars, venue_entry, vault_venue, external_window>>

\* remove_venue_position closes the position and its token account.
RemoveVenuePosition(who, e, m) ==
  /\ CuratorUntimed(who)
  /\ <<e, m>> \in DOMAIN position
  /\ e \in DOMAIN vault_venue
  /\ AssetApproved(m)
  /\ position[<<e, m>>] = 0
  /\ position_token[<<e, m>>] = 0
  /\ position' = Without(position, <<e, m>>)
  /\ position_token' = Without(position_token, <<e, m>>)
  /\ vault_venue' = [vault_venue EXCEPT ![e].position_count = @ - 1]
  /\ UNCHANGED <<governanceVars, venue_entry, vault_asset, reserve,
                 manager_window, external_window>>

\* withdraw_assets, as far as the venue and its window go; the request side of the
\* reserve is AsyncVault's.
WithdrawAssets(who, e, amount) ==
  /\ Curator(who)
  /\ UnpausedAndInitialized
  /\ "ExternallyManagedWithdrawals" \in DOMAIN extension
  /\ VenueActive(e)
  /\ reserve[AssetMint] >= amount
  /\ RollingLimitAllows(external_window, amount, slot,
       vault.external_withdraw_rolling_limit, vault.rolling_limit_window_slots)
  /\ external_window' = ConsumeRollingLimit(external_window, amount, slot,
       vault.external_withdraw_rolling_limit, vault.rolling_limit_window_slots)
  /\ reserve' = [reserve EXCEPT ![AssetMint] = @ - amount]
  /\ UNCHANGED <<governanceVars, venue_entry, vault_venue, vault_asset, position,
                 position_token, manager_window>>

-----------------------------------------------------------------------------
(* Tokens that arrive from outside *)

\* What the bound counts: the tokens the vault has of a mint, or believes it has.
TokensOf(m) ==
  reserve[m] + MapThenSumSet(
    LAMBDA p : IF position[p] > position_token[p] THEN position[p] ELSE position_token[p],
    {p \in DOMAIN position : p[2] = m})

\* Anyone may send tokens to a token account of the vault.
SendToReserve(m, amount) ==
  /\ AssetApproved(m)
  /\ TokensOf(m) + amount <= MaxTokens
  /\ reserve' = [reserve EXCEPT ![m] = @ + amount]
  /\ UNCHANGED <<governanceVars, venue_entry, vault_venue, vault_asset, position,
                 position_token, manager_window, external_window>>

SendToPosition(p, amount) ==
  /\ p \in DOMAIN position_token
  /\ TokensOf(p[2]) + amount <= MaxTokens
  /\ position_token' = [position_token EXCEPT ![p] = @ + amount]
  /\ UNCHANGED <<governanceVars, venue_entry, vault_venue, vault_asset, position,
                 reserve, manager_window, external_window>>

\* The idle balance of a secondary asset is "pre-funded" together with its reserve:
\* approvals reject secondary assets, and no other instruction credits it.
PreFund(m, amount) ==
  /\ m \in DOMAIN vault_asset
  /\ TokensOf(m) + amount <= MaxTokens
  /\ reserve' = [reserve EXCEPT ![m] = @ + amount]
  /\ vault_asset' = [vault_asset EXCEPT ![m].idle_balance = @ + amount]
  /\ UNCHANGED <<governanceVars, venue_entry, vault_venue, position,
                 position_token, manager_window, external_window>>

-----------------------------------------------------------------------------
(* Specification *)

VenuesInit ==
  /\ Init
  /\ venue_entry = [e \in {} |-> 0]
  /\ vault_venue = [e \in {} |-> 0]
  /\ vault_asset = [m \in {} |-> 0]
  /\ position = [p \in {} |-> 0]
  /\ position_token = [p \in {} |-> 0]
  /\ reserve = [m \in Mints |-> 0]
  /\ manager_window = NoWindow
  /\ external_window = NoWindow

Registry(who) ==
  \/ \E id \in VenueIds, target \in TargetPrograms,
        allowed \in SUBSET Discriminators, routine_safe \in BOOLEAN :
       RegisterVenue(who, id, target, allowed, routine_safe)
  \/ \E e \in DOMAIN venue_entry, paused \in BOOLEAN : SetVenueEntryPaused(who, e, paused)

Approvals(who) ==
  \/ \E e \in DOMAIN venue_entry, recipient \in Recipients :
       ApproveVaultVenue(who, e, recipient)
  \/ \E e \in DOMAIN vault_venue : RemoveVaultVenue(who, e)
  \/ \E m \in Assets : AddVaultAsset(who, m) \/ RemoveVaultAsset(who, m)
  \/ \E e \in DOMAIN vault_venue, m \in Mints : CreateVenuePosition(who, e, m)
  \/ \E p \in DOMAIN position : RemoveVenuePosition(who, p[1], p[2])

Moves(who, amount) ==
  \/ \E p \in DOMAIN position :
       \/ DeployVenuePosition(who, p[1], p[2], amount)
       \/ PullVenuePosition(who, p[1], p[2], amount)
  \/ \E e \in DOMAIN vault_venue : WithdrawAssets(who, e, amount)

Arrivals(amount) ==
  \/ \E m \in Mints : SendToReserve(m, amount)
  \/ \E m \in Assets : PreFund(m, amount)
  \/ \E p \in DOMAIN position : SendToPosition(p, amount)

VenuesNext ==
  \/ \E who \in Keys :
       \/ Registry(who)
       \/ Approvals(who)
       \/ \E amount \in Amounts : Moves(who, amount)
  \/ \E amount \in Amounts : Arrivals(amount)
  \/ GovernanceNext /\ UNCHANGED venueVars

VenuesSpec == VenuesInit /\ [][VenuesNext]_venuesVars

-----------------------------------------------------------------------------
(* Properties *)

\* A venue counts exactly its open positions, so it cannot be removed, and its
\* approval forgotten, while a position still refers to it (remove_vault_venue,
\* create_venue_position, remove_venue_position).
PositionsAt(e) == {p \in DOMAIN position : p[1] = e}
PositionCountExact ==
  /\ \A e \in DOMAIN vault_venue :
       vault_venue[e].position_count = Cardinality(PositionsAt(e))
  /\ \A p \in DOMAIN position : p[1] \in DOMAIN vault_venue

\* A secondary asset's deployed balance is what its positions hold, over all
\* venues, and no position outlives the approval of an asset it still holds
\* (PositionLedger, remove_vault_asset): what was deployed can be pulled.
DeployedIn(m) == Cardinality(Units(position, {p \in DOMAIN position : p[2] = m}))
LedgerBalanced ==
  \A m \in Assets :
    IF m \in DOMAIN vault_asset
      THEN vault_asset[m].deployed_balance = DeployedIn(m)
      ELSE DeployedIn(m) = 0

\* The token accounts hold at least what the books say.
LedgerBacked ==
  /\ \A m \in DOMAIN vault_asset : vault_asset[m].idle_balance <= reserve[m]
  /\ \A p \in DOMAIN position : position[p] <= position_token[p]
=============================================================================
