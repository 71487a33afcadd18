----------------------------- MODULE Governance -----------------------------
(***************************************************************************)
(* Who may change a vault, what they may change and how long everybody is  *)
(* told in advance: the setup of a vault between create_vault and          *)
(* initialize_vault, direct updates by the curator, updates that wait in   *)
(* accounts of their own while a timelock is configured, the hand-over of  *)
(* the authority, the breaker's pause, and the program-wide protocol fee   *)
(* routing.                                                                *)
(*                                                                         *)
(* One action is one instruction, as in AsyncVault; `who' is the signer    *)
(* the instruction checks.  The arguments of an update are a function      *)
(* whose domain is the set of fields given (the Some fields of             *)
(* UpdateVaultArgs).  Accounts that may be absent are functions with a     *)
(* changing domain: DOMAIN pending is the set of open Pending*Update       *)
(* accounts, DOMAIN extension the set of TLV extensions of the vault.      *)
(***************************************************************************)
EXTENDS VaultMath

CONSTANTS
  Keys,               \* signers
  DefaultKey,         \* Pubkey::default(), which nobody can sign for
  Accounts,           \* addresses a Pending*Update account can be created at
  ShareMint, AssetMint, OtherMints,
  VaultUpdates,       \* UpdateVaultArgs that are tried
  FeeUpdates,         \* FeeUpdateArgs
  ExtensionUpdates,   \* ExtensionUpdateArgs
  ExtensionInits,     \* <<extension type, initial value>>
  InstantArgs,        \* InitializeInstantSettlementArgs
  TrancheArgs,        \* InitializeTranchesArgs
  Recipients,         \* recipients the protocol fee is routed to
  MaxSlot             \* bound: the clock

KeyFields ==
  {"fee_recipient", "manager", "hot_manager", "fulfiller", "breaker",
   "protocol_fee_recipient"}
BpsFields ==
  {"max_nav_delta_bps", "performance_fee_bps", "protocol_fee_bps",
   "instant_redemption_fee_bps"}
LimitFields ==
  {"manager_rolling_limit", "external_withdraw_rolling_limit",
   "redemption_rolling_limit"}
AmountFields ==
  BpsFields \cup LimitFields \cup
  {"max_implied_apy_bps", "max_nav_staleness_slots", "deposit_cap",
   "rolling_limit_window_slots", "timelock_delay_slots",
   "performance_fee_crystallization_interval_seconds"}
FlagFields == {"paused", "require_fresh_nav"}
UpdateFields == KeyFields \cup AmountFields \cup FlagFields \cup {"nav_mode"}

\* has_timelocked_fields: all but the pause and the breaker, which the curator
\* changes at once; and the mutant that forgets the deposit cap.
TimelockedFieldsButCap == UpdateFields \ {"paused", "breaker", "deposit_cap"}

TimelockedFields == UpdateFields \ {"paused", "breaker"}

\* The roles that follow the authority when it is handed over.
TransferredRoles == {"manager", "hot_manager", "fulfiller", "breaker"}
Roles == {"authority", "curator"} \cup TransferredRoles

FeeTypes == {"DepositFee", "WithdrawalFee"}
ThresholdTypes == {"MinSubscription", "MinRedemption"}
PausableTypes == {"PausableSubscriptions", "PausableRedemptions"}
QueueTypes == {"SubscriptionQueue", "RedemptionQueue"}
ExtensionType ==
  FeeTypes \cup ThresholdTypes \cup PausableTypes \cup QueueTypes
    \cup {"ExternallyManagedWithdrawals", "InstantSettlement"}

ASSUME GovernanceAssumption ==
  /\ DefaultKey \notin Keys
  /\ \A args \in VaultUpdates :
       /\ DOMAIN args \subseteq UpdateFields
       /\ \A f \in DOMAIN args \cap KeyFields : args[f] \in Keys \cup {DefaultKey}
       /\ \A f \in DOMAIN args \cap AmountFields : args[f] \in Nat
       /\ \A f \in DOMAIN args \cap FlagFields : args[f] \in BOOLEAN
  /\ \A e \in ExtensionInits : e[1] \in ExtensionType
  /\ MaxSlot \in Nat

VARIABLES
  vault,                \* the Vault account: UpdateFields, roles and lifecycle
  extension,            \* its TLV area: a function from the types present
  tranche_config,       \* {} or the one TrancheConfig account of the vault
  pending,              \* the open Pending*Update accounts
  protocol_fee_config,  \* {} or the one ProtocolFeeConfig account
  slot,
  \* history, read by no instruction
  notice,               \* the delay in force when an account was queued
  ousted                \* keys that handed the vault over and got nothing back

vaultVars == <<vault, extension, tranche_config>>
historyVars == <<notice, ousted>>
governanceVars == <<vaultVars, pending, protocol_fee_config, slot, historyVars>>

\* A function extended or overwritten at one argument, and one without it.
With(f, x, v) == [y \in DOMAIN f \cup {x} |-> IF y = x THEN v ELSE f[y]]
Without(f, x) == [y \in DOMAIN f \ {x} |-> f[y]]

Curator(who) == who = vault.curator

-----------------------------------------------------------------------------
(* Vault configuration *)

\* apply_vault_update, before it validates.
Updated(v, args) == [f \in DOMAIN v |-> IF f \in DOMAIN args THEN args[f] ELSE v[f]]

\* The rules that relate several fields.
FieldsAgree(v) ==
  /\ tranche_config # {} => v.performance_fee_bps = 0
  /\ v.protocol_fee_bps > 0 => v.protocol_fee_recipient # DefaultKey
  /\ v.rolling_limit_window_slots > 0 \/ \A f \in LimitFields : v[f] = 0

ValidateConfig(v) ==
  /\ \A f \in BpsFields : v[f] <= MAX_BPS
  /\ v.nav_mode = "AuthoritySigned"
  /\ FieldsAgree(v)

HasTimelockedFields(args) == DOMAIN args \cap TimelockedFields # {}

ValidateQueuedVaultUpdate(args) ==
  /\ HasTimelockedFields(args)
  /\ DOMAIN args \cap {"paused", "breaker"} = {}
  /\ \A f \in DOMAIN args \cap BpsFields : args[f] <= MAX_BPS
  /\ "nav_mode" \in DOMAIN args => args["nav_mode"] = "AuthoritySigned"
  /\ FieldsAgree(Updated(vault, args))

\* apply_vault_update: a result that fails validate_config fails the whole
\* instruction.
ApplyVaultUpdate(args) ==
  /\ ValidateConfig(Updated(vault, args))
  /\ vault' = Updated(vault, args)
  /\ UNCHANGED <<extension, tranche_config>>

\* Keys an update gives a role to.
Granted(args) == {args[f] : f \in DOMAIN args \cap TransferredRoles}

UpdateVault(who, args) ==
  /\ Curator(who)
  /\ vault.timelock_delay_slots > 0 => ~HasTimelockedFields(args)
  /\ ApplyVaultUpdate(args)
  /\ ousted' = ousted \ Granted(args)
  /\ UNCHANGED <<pending, protocol_fee_config, slot, notice>>

PauseVault(who) ==
  /\ who = vault.breaker
  /\ vault' = [vault EXCEPT !.paused = TRUE]
  /\ UNCHANGED <<extension, tranche_config, pending, protocol_fee_config, slot,
                 historyVars>>

-----------------------------------------------------------------------------
(* Extensions *)

ExtensionValue(type, v) == type \in FeeTypes => IsFee(v)

\* update_vault_extension: an extension that is absent fails the instruction.
UpdateVaultExtension(type, v) ==
  /\ type \in DOMAIN extension
  /\ extension' = With(extension, type, v)
  /\ UNCHANGED <<vault, tranche_config>>

\* validate_extension_update and the value apply_extension_update writes.
ValidateExtensionUpdate(args) ==
  \/ args.kind \in ThresholdTypes /\ ~args.paused
  \/ args.kind \in PausableTypes /\ args.threshold = 0

ApplyFeeUpdate(args) == IsFee(args.fee) /\ UpdateVaultExtension(args.kind, args.fee)

ApplyExtensionUpdate(args) ==
  /\ ValidateExtensionUpdate(args)
  /\ UpdateVaultExtension(args.kind,
       IF args.kind \in ThresholdTypes THEN args.threshold ELSE args.paused)

\* The direct updates of fees, thresholds and pauses (BasicExtensionAccounts).
UpdateFee(who, args) ==
  /\ Curator(who)
  /\ vault.timelock_delay_slots = 0
  /\ ApplyFeeUpdate(args)
  /\ UNCHANGED <<pending, protocol_fee_config, slot, historyVars>>

UpdateExtension(who, args) ==
  /\ Curator(who)
  /\ vault.timelock_delay_slots = 0
  /\ ApplyExtensionUpdate(args)
  /\ UNCHANGED <<pending, protocol_fee_config, slot, historyVars>>

-----------------------------------------------------------------------------
(* Setup: create_vault has run, initialize_vault ends it *)

\* init_vault_extension and the ten instructions that call it.
InitVaultExtension(type, v) ==
  /\ ~vault.initialized
  /\ type \notin DOMAIN extension
  /\ ExtensionValue(type, v)
  /\ extension' = With(extension, type, v)

InitializeExtension(who, type, v) ==
  /\ Curator(who)
  /\ InitVaultExtension(type, v)
  /\ UNCHANGED <<vault, tranche_config, pending, protocol_fee_config, slot, historyVars>>

Ordered(min, max) == max = 0 \/ min <= max

InitializeInstantSettlement(who, args) ==
  /\ Curator(who)
  /\ args.instant_redemption_fee_bps <= MAX_BPS
  /\ args.instant_redemption_fee_bps > 0
  /\ vault.max_nav_staleness_slots > 0
  /\ Ordered(args.min_deposit_amount, args.max_deposit_amount)
  /\ Ordered(args.min_redeem_shares, args.max_redeem_shares)
  /\ tranche_config = {}
  /\ InitVaultExtension("InstantSettlement", args)
  /\ vault' = [vault EXCEPT !.instant_redemption_fee_bps = args.instant_redemption_fee_bps]
  /\ UNCHANGED <<tranche_config, pending, protocol_fee_config, slot, historyVars>>

\* initialize_tranches.  The mints' supplies, owners and mint authorities are
\* inputs the token program vouches for; and the mutant that does not look at
\* the performance fee.
TrancheMintsValid(args) ==
  /\ args.senior_share_mint # args.junior_share_mint
  /\ AssetMint \notin {args.senior_share_mint, args.junior_share_mint}
  /\ ShareMint \in {args.senior_share_mint, args.junior_share_mint}

InitializeTranchesAnyFee(who, args) ==
  /\ ~vault.initialized
  /\ Curator(who)
  /\ tranche_config = {}
  /\ TrancheMintsValid(args)
  /\ tranche_config' = {args}
  /\ UNCHANGED <<vault, extension, pending, protocol_fee_config, slot, historyVars>>

InitializeTranches(who, args) ==
  /\ ~vault.initialized
  /\ Curator(who)
  /\ tranche_config = {}
  /\ vault.performance_fee_bps = 0
  /\ args.senior_target_bps <= MAX_BPS /\ args.min_junior_ratio_bps <= MAX_BPS
  /\ Ordered(args.min_request_amount, args.max_request_amount)
  /\ TrancheMintsValid(args)
  /\ tranche_config' = {args}
  /\ UNCHANGED <<vault, extension, pending, protocol_fee_config, slot, historyVars>>

InitializeVault(who) ==
  /\ Curator(who)
  /\ ~vault.initialized
  /\ vault' = [vault EXCEPT !.initialized = TRUE]
  /\ UNCHANGED <<extension, tranche_config, pending, protocol_fee_config, slot,
                 historyVars>>

-----------------------------------------------------------------------------
(* Queued changes *)

\* What the three queue_*_update instructions share, after the mutant whose
\* change is ready at once.
QueueAtOnce(who, a, kind, args) ==
  /\ Curator(who)
  /\ vault.timelock_delay_slots > 0
  /\ a \notin DOMAIN pending
  /\ pending' = With(pending, a,
       [kind |-> kind, queued_by |-> who, created_slot |-> slot, eta_slot |-> slot,
        args |-> args])
  /\ notice' = With(notice, a, vault.timelock_delay_slots)
  /\ UNCHANGED <<vaultVars, protocol_fee_config, slot, ousted>>

Queue(who, a, kind, args) ==
  /\ Curator(who)
  /\ vault.timelock_delay_slots > 0
  /\ a \notin DOMAIN pending
  /\ pending' = With(pending, a,
       [kind |-> kind, queued_by |-> who, created_slot |-> slot,
        eta_slot |-> slot + vault.timelock_delay_slots, args |-> args])
  /\ notice' = With(notice, a, vault.timelock_delay_slots)
  /\ UNCHANGED <<vaultVars, protocol_fee_config, slot, ousted>>

QueueVaultUpdate(who, a, args) ==
  ValidateQueuedVaultUpdate(args) /\ Queue(who, a, "Vault", args)

\* The fee extension need not exist yet.
QueueFeeUpdate(who, a, args) ==
  IsFee(args.fee) /\ Queue(who, a, "Fee", args)

QueueExtensionUpdate(who, a, args) ==
  /\ ValidateExtensionUpdate(args)
  /\ args.kind \in DOMAIN extension
  /\ Queue(who, a, "Extension", args)

\* What the execute_*_update instructions share: anyone may call them, and
\* whoever queued the change is still curator.
Ready(a, kind) ==
  /\ a \in DOMAIN pending
  /\ pending[a].kind = kind
  /\ slot >= pending[a].eta_slot
  /\ pending[a].queued_by = vault.curator

Close(a) == pending' = Without(pending, a)

\* Roles granted by a change the present curator queued are the curator's grants.
ExecuteVaultUpdate(a) ==
  /\ Ready(a, "Vault")
  /\ ValidateQueuedVaultUpdate(pending[a].args)
  /\ ApplyVaultUpdate(pending[a].args)
  /\ Close(a)
  /\ ousted' = IF pending[a].queued_by = vault.curator
                 THEN ousted \ Granted(pending[a].args) ELSE ousted
  /\ UNCHANGED <<protocol_fee_config, slot, notice>>

ExecuteFeeUpdate(a) ==
  /\ Ready(a, "Fee")
  /\ ApplyFeeUpdate(pending[a].args)
  /\ Close(a)
  /\ UNCHANGED <<protocol_fee_config, slot, historyVars>>

ExecuteExtensionUpdate(a) ==
  /\ Ready(a, "Extension")
  /\ ApplyExtensionUpdate(pending[a].args)
  /\ Close(a)
  /\ UNCHANGED <<protocol_fee_config, slot, historyVars>>

\* cancel_vault_update, cancel_fee_update and cancel_extension_update.
CancelUpdate(who, a) ==
  /\ Curator(who)
  /\ a \in DOMAIN pending
  /\ Close(a)
  /\ UNCHANGED <<vaultVars, protocol_fee_config, slot, historyVars>>

-----------------------------------------------------------------------------
(* Hand-over of the authority *)

InviteNewAuthority(who, invited) ==
  /\ Curator(who)
  /\ vault' = [vault EXCEPT !.pending_authority = invited]
  /\ UNCHANGED <<extension, tranche_config, pending, protocol_fee_config, slot,
                 historyVars>>

\* The vault after `new' accepts: the roles of the previous authority follow,
\* those it had given to others stay; and the mutant that forgets the breaker.
HandedOverButBreaker(new) ==
  [f \in DOMAIN vault |->
     IF \/ f \in {"authority", "curator"}
        \/ f \in TransferredRoles \ {"breaker"} /\ vault[f] = vault.authority
       THEN new
       ELSE IF f = "pending_authority" THEN DefaultKey ELSE vault[f]]

HandedOver(new) ==
  [f \in DOMAIN vault |->
     IF \/ f \in {"authority", "curator"}
        \/ f \in TransferredRoles /\ vault[f] = vault.authority
       THEN new
       ELSE IF f = "pending_authority" THEN DefaultKey ELSE vault[f]]

AcceptAuthorityInvitation(who) ==
  /\ who = vault.pending_authority
  /\ vault' = HandedOver(who)
  /\ ousted' = (ousted \cup {vault.authority}) \ {who}
  /\ UNCHANGED <<extension, tranche_config, pending, protocol_fee_config, slot, notice>>

-----------------------------------------------------------------------------
(* Protocol fee routing: whoever initializes the singleton owns it *)

InitializeProtocolFeeConfig(who, recipient) ==
  /\ protocol_fee_config = {}
  /\ recipient # DefaultKey
  /\ protocol_fee_config' = {[authority |-> who, protocol_fee_recipient |-> recipient]}
  /\ UNCHANGED <<vaultVars, pending, slot, historyVars>>

UpdateProtocolFeeConfig(who, recipient) ==
  \E c \in protocol_fee_config :
    /\ who = c.authority
    /\ recipient # DefaultKey
    /\ protocol_fee_config' = {[c EXCEPT !.protocol_fee_recipient = recipient]}
    /\ UNCHANGED <<vaultVars, pending, slot, historyVars>>

-----------------------------------------------------------------------------
(* Specification *)

\* Vault { .. } as create_vault writes it.
CreatedVault(k, recipient) ==
  [f \in UpdateFields \cup Roles \cup {"pending_authority", "initialized"} |->
     CASE f \in Roles                                        -> k
       [] f \in {"fee_recipient", "protocol_fee_recipient"}  -> recipient
       [] f \in AmountFields                                 -> 0
       [] f = "nav_mode"                                     -> "AuthoritySigned"
       [] f = "pending_authority"                            -> DefaultKey
       [] OTHER                                              -> f = "require_fresh_nav"]

Init ==
  /\ \E k \in Keys : vault = CreatedVault(k, k)
  /\ extension = [t \in {} |-> 0]
  /\ tranche_config = {}
  /\ pending = [a \in {} |-> 0]
  /\ protocol_fee_config = {}
  /\ slot = 0
  /\ notice = [a \in {} |-> 0]
  /\ ousted = {}

\* The clock: slots only ever increase.
Tick ==
  /\ slot < MaxSlot
  /\ slot' = slot + 1
  /\ UNCHANGED <<vaultVars, pending, protocol_fee_config, historyVars>>

Setup(who) ==
  \/ \E i \in ExtensionInits : InitializeExtension(who, i[1], i[2])
  \/ \E args \in InstantArgs : InitializeInstantSettlement(who, args)
  \/ \E args \in TrancheArgs : InitializeTranches(who, args)
  \/ InitializeVault(who)

DirectChange(who) ==
  \/ \E args \in VaultUpdates : UpdateVault(who, args)
  \/ \E args \in FeeUpdates : UpdateFee(who, args)
  \/ \E args \in ExtensionUpdates : UpdateExtension(who, args)
  \/ PauseVault(who)

QueuedChange(who, a) ==
  \/ \E args \in VaultUpdates : QueueVaultUpdate(who, a, args)
  \/ \E args \in FeeUpdates : QueueFeeUpdate(who, a, args)
  \/ \E args \in ExtensionUpdates : QueueExtensionUpdate(who, a, args)
  \/ ExecuteVaultUpdate(a) \/ ExecuteFeeUpdate(a) \/ ExecuteExtensionUpdate(a)
  \/ CancelUpdate(who, a)

HandOver(who) ==
  \/ \E invited \in Keys : InviteNewAuthority(who, invited)
  \/ AcceptAuthorityInvitation(who)

ProtocolFeeRouting(who) ==
  \E recipient \in Recipients :
    \/ InitializeProtocolFeeConfig(who, recipient)
    \/ UpdateProtocolFeeConfig(who, recipient)

GovernanceNext ==
  \/ \E who \in Keys :
       \/ Setup(who) \/ DirectChange(who) \/ HandOver(who) \/ ProtocolFeeRouting(who)
       \/ \E a \in Accounts : QueuedChange(who, a)
  \/ Tick

GovernanceSpec == Init /\ [][GovernanceNext]_governanceVars

-----------------------------------------------------------------------------
(* Properties *)

\* In whatever order setup steps and queued changes that were each valid when they
\* were queued take effect, the vault never charges a performance fee next to
\* tranches, never has a rolling limit without a window, never skims a protocol
\* fee for nobody, and never leaves the supported NAV mode (validate_config).
ConfigSound ==
  /\ ValidateConfig(vault)
  /\ \A c \in protocol_fee_config : c.protocol_fee_recipient # DefaultKey

\* A key that handed the vault over holds no role any more, not even through a
\* change it queued before and somebody executes after (accept_authority_invitation,
\* the StaleTimelockAuthority check), until a later curator grants it one.
OustedKeysHoldNoRole == \A role \in Roles : vault[role] \notin ousted

\* The change that account a announced is made now.
Announced(a) ==
  /\ a \in DOMAIN pending
  /\ a \notin DOMAIN pending'
  /\ slot >= pending[a].created_slot + notice[a]

\* Roles may also follow the authority when it is handed over.
GivesNotice ==
  vault.initialized /\ vault.timelock_delay_slots > 0 =>
    /\ \A f \in UpdateFields \ {"paused", "breaker"} :
         vault'[f] # vault[f] =>
           \/ \E a \in Accounts :
                /\ Announced(a) /\ pending[a].kind = "Vault"
                /\ f \in DOMAIN pending[a].args /\ pending[a].args[f] = vault'[f]
           \/ f \in TransferredRoles /\ vault[f] = vault.authority
                                     /\ vault'[f] = vault.pending_authority
    /\ extension' # extension => \E a \in Accounts : Announced(a)

\* While an initialized vault has a timelock, a timelocked setting or an extension's
\* value changes only when a queued change is executed, and no earlier than the
\* delay that was in force when it was queued; roles may also follow the authority
\* when it is handed over.
NoticeGiven == [][GivesNotice]_governanceVars
=============================================================================
