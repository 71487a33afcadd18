----------------------- MODULE StrategyPolicies_proofs -----------------------
(***************************************************************************)
(* Theorems about Governance, Venues and StrategyPolicies, for every set   *)
(* of keys, accounts, venues, assets and calls.                            *)
(*                                                                         *)
(* Governance: the invariant is about the accounts in which changes wait.  *)
(* A queued vault update carries fields an update can have and nothing     *)
(* else, and its time is the slot of its creation plus the delay of that   *)
(* moment, whatever happened to the delay since.                           *)
(*                                                                         *)
(* Venues: every venue counts its open positions, and the deployed balance *)
(* of an asset is the sum of its positions, behind which the tokens stand  *)
(* as long as nothing but the program moves them.  StrategyPolicies: what  *)
(* a running policy commits to is what stands approved, and no queued      *)
(* update is ahead of the policy it was queued for, which are the two      *)
(* facts that calls and late updates rest on.                              *)
(***************************************************************************)
EXTENDS StrategyPolicies, Units_proofs

-----------------------------------------------------------------------------
(* Accounts in which changes wait *)

VaultFields == UpdateFields \cup Roles \cup {"pending_authority", "initialized"}

QueuedWell(a) ==
  /\ a \in DOMAIN notice
  /\ pending[a].eta_slot = pending[a].created_slot + notice[a]
  /\ pending[a].kind = "Vault" => pending[a].args \in VaultUpdates

AccountsWellFormed ==
  /\ DOMAIN vault = VaultFields
  /\ \A a \in DOMAIN pending : QueuedWell(a)

-----------------------------------------------------------------------------
(* Functions that grow and shrink by one argument *)

LEMMA WithFacts ==
  ASSUME NEW f, NEW x, NEW v
  PROVE  /\ DOMAIN With(f, x, v) = DOMAIN f \cup {x}
         /\ With(f, x, v)[x] = v
         /\ \A y \in DOMAIN f : y # x => With(f, x, v)[y] = f[y]
  BY DEF With

LEMMA WithoutFacts ==
  ASSUME NEW f, NEW x
  PROVE  /\ DOMAIN Without(f, x) = DOMAIN f \ {x}
         /\ \A y \in DOMAIN f : y # x => Without(f, x)[y] = f[y]
  BY DEF Without

-----------------------------------------------------------------------------
(* What the instructions do to the vault account *)

LEMMA UpdatedFacts ==
  ASSUME DOMAIN vault = VaultFields, NEW args
  PROVE  /\ DOMAIN Updated(vault, args) = VaultFields
         /\ \A f \in VaultFields :
              Updated(vault, args)[f] = IF f \in DOMAIN args THEN args[f] ELSE vault[f]
  BY DEF Updated

LEMMA HandedOverFacts ==
  ASSUME DOMAIN vault = VaultFields, NEW new
  PROVE  /\ DOMAIN HandedOver(new) = VaultFields
         /\ \A f \in VaultFields :
              HandedOver(new)[f] =
                IF \/ f \in {"authority", "curator"}
                   \/ f \in TransferredRoles /\ vault[f] = vault["authority"]
                  THEN new
                  ELSE IF f = "pending_authority" THEN DefaultKey ELSE vault[f]
  BY DEF HandedOver

\* An update has no say in who is authority and curator.
LEMMA UpdateDomain ==
  ASSUME NEW args \in VaultUpdates
  PROVE  DOMAIN args \subseteq UpdateFields
  BY GovernanceAssumption

-----------------------------------------------------------------------------
(* The accounts stay well formed *)

LEMMA InitWellFormed == Init => AccountsWellFormed
<1> SUFFICES ASSUME Init PROVE AccountsWellFormed
  OBVIOUS
<1>1. PICK k \in Keys : vault = CreatedVault(k, k)
  BY DEF Init
<1>2. DOMAIN vault = VaultFields
  BY <1>1 DEF CreatedVault, VaultFields
<1>3. DOMAIN pending = {}
  BY DEF Init
<1> QED BY <1>2, <1>3 DEF AccountsWellFormed

\* Instructions that do not touch the queue.
LEMMA QueueUntouched ==
  ASSUME AccountsWellFormed, DOMAIN vault' = VaultFields, pending' = pending, notice' = notice
  PROVE  AccountsWellFormed'
  BY DEF AccountsWellFormed, QueuedWell

LEMMA QueueWellFormed ==
  ASSUME AccountsWellFormed, NEW who, NEW a, NEW kind, NEW args,
         kind = "Vault" => args \in VaultUpdates, Queue(who, a, kind, args)
  PROVE  AccountsWellFormed'
<1> DEFINE new == [kind |-> kind, queued_by |-> who, created_slot |-> slot,
                   eta_slot |-> slot + vault.timelock_delay_slots, args |-> args]
<1>1. /\ a \notin DOMAIN pending
      /\ pending' = With(pending, a, new)
      /\ notice' = With(notice, a, vault.timelock_delay_slots)
      /\ vault' = vault
  BY DEF Queue, vaultVars
<1>2. QueuedWell(a)'
  <2>1. pending'[a] = new /\ notice'[a] = vault.timelock_delay_slots /\ a \in DOMAIN notice'
    <3> HIDE DEF new
    <3> QED BY <1>1 DEF With
  <2> QED BY <2>1 DEF QueuedWell
<1>3. \A b \in DOMAIN pending : QueuedWell(b)'
  <2> SUFFICES ASSUME NEW b \in DOMAIN pending PROVE QueuedWell(b)'
    OBVIOUS
  <2>1. QueuedWell(b) /\ b # a
    BY <1>1 DEF AccountsWellFormed
  <2>2. pending'[b] = pending[b] /\ notice'[b] = notice[b] /\ b \in DOMAIN notice'
    <3> HIDE DEF new
    <3> QED BY <1>1, <2>1 DEF With, QueuedWell
  <2> QED BY <2>1, <2>2 DEF QueuedWell
<1>4. DOMAIN pending' = DOMAIN pending \cup {a}
  BY <1>1, WithFacts
<1> QED BY <1>1, <1>2, <1>3, <1>4 DEF AccountsWellFormed

LEMMA CloseWellFormed ==
  ASSUME AccountsWellFormed, DOMAIN vault' = VaultFields, NEW a, Close(a), notice' = notice
  PROVE  AccountsWellFormed'
<1>1. DOMAIN pending' = DOMAIN pending \ {a}
  BY WithoutFacts DEF Close
<1>2. \A b \in DOMAIN pending' : QueuedWell(b)'
  <2> SUFFICES ASSUME NEW b \in DOMAIN pending' PROVE QueuedWell(b)'
    OBVIOUS
  <2>1. b \in DOMAIN pending /\ QueuedWell(b) /\ pending'[b] = pending[b]
    BY <1>1, WithoutFacts DEF Close, AccountsWellFormed
  <2> QED BY <2>1 DEF QueuedWell
<1> QED BY <1>2 DEF AccountsWellFormed

LEMMA WellFormedStep ==
  ASSUME AccountsWellFormed, [GovernanceNext]_governanceVars
  PROVE  AccountsWellFormed'
<1>0. DOMAIN vault = VaultFields
  BY DEF AccountsWellFormed
<1>1. ASSUME NEW who \in Keys, Setup(who) PROVE AccountsWellFormed'
  <2>1. DOMAIN vault' = VaultFields /\ pending' = pending /\ notice' = notice
    BY <1>0, <1>1 DEF Setup, InitializeExtension, InitializeInstantSettlement,
       InitializeTranches, InitializeVault, historyVars
  <2> QED BY <2>1, QueueUntouched
<1>2. ASSUME NEW who \in Keys, DirectChange(who) PROVE AccountsWellFormed'
  <2>1. DOMAIN vault' = VaultFields /\ pending' = pending /\ notice' = notice
    BY <1>0, <1>2, UpdatedFacts DEF DirectChange, UpdateVault, ApplyVaultUpdate, UpdateFee,
       ApplyFeeUpdate, UpdateExtension, ApplyExtensionUpdate, UpdateVaultExtension, PauseVault,
       historyVars
  <2> QED BY <2>1, QueueUntouched
<1>3. ASSUME NEW who \in Keys, HandOver(who) PROVE AccountsWellFormed'
  <2>1. DOMAIN vault' = VaultFields /\ pending' = pending /\ notice' = notice
    BY <1>0, <1>3, HandedOverFacts
       DEF HandOver, InviteNewAuthority, AcceptAuthorityInvitation, historyVars
  <2> QED BY <2>1, QueueUntouched
<1>4. ASSUME NEW who \in Keys, ProtocolFeeRouting(who) PROVE AccountsWellFormed'
  <2>1. DOMAIN vault' = VaultFields /\ pending' = pending /\ notice' = notice
    BY <1>0, <1>4 DEF ProtocolFeeRouting, InitializeProtocolFeeConfig,
       UpdateProtocolFeeConfig, vaultVars, historyVars
  <2> QED BY <2>1, QueueUntouched
<1>5. ASSUME NEW who \in Keys, NEW a \in Accounts, QueuedChange(who, a)
      PROVE  AccountsWellFormed'
  <2>1. ASSUME NEW args \in VaultUpdates, QueueVaultUpdate(who, a, args)
        PROVE  AccountsWellFormed'
    BY <2>1, QueueWellFormed DEF QueueVaultUpdate
  <2>2. ASSUME NEW args, QueueFeeUpdate(who, a, args) \/ QueueExtensionUpdate(who, a, args)
        PROVE  AccountsWellFormed'
    BY <2>2, QueueWellFormed DEF QueueFeeUpdate, QueueExtensionUpdate
  <2>3. CASE ExecuteVaultUpdate(a)
    BY <1>0, <2>3, UpdatedFacts, CloseWellFormed DEF ExecuteVaultUpdate, ApplyVaultUpdate
  <2>4. CASE ExecuteFeeUpdate(a) \/ ExecuteExtensionUpdate(a)
    BY <1>0, <2>4, CloseWellFormed
       DEF ExecuteFeeUpdate, ExecuteExtensionUpdate, ApplyFeeUpdate, ApplyExtensionUpdate,
           UpdateVaultExtension, historyVars
  <2>5. CASE CancelUpdate(who, a)
    BY <1>0, <2>5, CloseWellFormed DEF CancelUpdate, vaultVars, historyVars
  <2> QED BY <1>5, <2>1, <2>2, <2>3, <2>4, <2>5 DEF QueuedChange
<1>6. CASE Tick \/ UNCHANGED governanceVars
  BY <1>0, <1>6, QueueUntouched DEF Tick, governanceVars, vaultVars, historyVars
<1> QED BY <1>1, <1>2, <1>3, <1>4, <1>5, <1>6 DEF GovernanceNext

LEMMA WellFormedInvariant == GovernanceSpec => []AccountsWellFormed
<1>1. AccountsWellFormed /\ [GovernanceNext]_governanceVars => AccountsWellFormed'
  BY WellFormedStep
<1> QED BY <1>1, InitWellFormed, PTL DEF GovernanceSpec

-----------------------------------------------------------------------------
(* The settings agree with each other *)

\* The fields validate_config looks at.
CheckedFields ==
  BpsFields \cup LimitFields
    \cup {"nav_mode", "protocol_fee_recipient", "rolling_limit_window_slots"}

\* A step that leaves those fields and the tranches alone.
LEMMA CheckedFieldsKept ==
  ASSUME ValidateConfig(vault), tranche_config' = tranche_config,
         \A f \in CheckedFields : vault'[f] = vault[f]
  PROVE  ValidateConfig(vault)'
  BY DEF ValidateConfig, FieldsAgree, CheckedFields, BpsFields, LimitFields

\* The routing account has its two fields.
RoutingWellFormed ==
  \A c \in protocol_fee_config : DOMAIN c = {"authority", "protocol_fee_recipient"}

LEMMA RoutingStep ==
  ASSUME RoutingWellFormed, [GovernanceNext]_governanceVars
  PROVE  RoutingWellFormed'
<1>1. ASSUME NEW who \in Keys, NEW recipient \in Recipients,
             InitializeProtocolFeeConfig(who, recipient)
      PROVE  RoutingWellFormed'
  BY <1>1 DEF InitializeProtocolFeeConfig, RoutingWellFormed
<1>2. ASSUME NEW who \in Keys, NEW recipient \in Recipients,
             UpdateProtocolFeeConfig(who, recipient)
      PROVE  RoutingWellFormed'
  BY <1>2 DEF UpdateProtocolFeeConfig, RoutingWellFormed
<1>3. ASSUME protocol_fee_config' = protocol_fee_config
      PROVE  RoutingWellFormed'
  BY <1>3 DEF RoutingWellFormed
<1>4. ASSUME NEW who \in Keys, Setup(who) \/ DirectChange(who) \/ HandOver(who)
      PROVE  RoutingWellFormed'
  BY <1>3, <1>4
     DEF Setup, InitializeExtension, InitializeInstantSettlement, InitializeTranches,
         InitializeVault, DirectChange, UpdateVault, UpdateFee, UpdateExtension, PauseVault,
         HandOver, InviteNewAuthority, AcceptAuthorityInvitation
<1>5. ASSUME NEW who \in Keys, NEW a \in Accounts, QueuedChange(who, a)
      PROVE  RoutingWellFormed'
  BY <1>3, <1>5
     DEF QueuedChange, QueueVaultUpdate, QueueFeeUpdate, QueueExtensionUpdate, Queue,
         ExecuteVaultUpdate, ExecuteFeeUpdate, ExecuteExtensionUpdate, CancelUpdate
<1>6. CASE Tick \/ UNCHANGED governanceVars
  BY <1>3, <1>6 DEF Tick, governanceVars
<1> QED BY <1>1, <1>2, <1>4, <1>5, <1>6 DEF GovernanceNext, ProtocolFeeRouting

LEMMA RoutingInvariant == GovernanceSpec => []RoutingWellFormed
<1>1. Init => RoutingWellFormed
  BY DEF Init, RoutingWellFormed
<1>2. RoutingWellFormed /\ [GovernanceNext]_governanceVars => RoutingWellFormed'
  BY RoutingStep
<1> QED BY <1>1, <1>2, PTL DEF GovernanceSpec

LEMMA InitConfigSound == Init => ConfigSound
<1> SUFFICES ASSUME Init PROVE ConfigSound
  OBVIOUS
<1>1. PICK k \in Keys : vault = CreatedVault(k, k)
  BY DEF Init
<1>2. \A f \in BpsFields \cup LimitFields : vault[f] = 0
  <2> SUFFICES ASSUME NEW f \in BpsFields \cup LimitFields PROVE vault[f] = 0
    OBVIOUS
  <2>1. /\ f \in AmountFields /\ f \in UpdateFields /\ f \notin Roles
        /\ f \notin {"fee_recipient", "protocol_fee_recipient"}
        /\ f \notin {"nav_mode", "pending_authority"}
    BY DEF AmountFields, BpsFields, LimitFields, UpdateFields, Roles, TransferredRoles
  <2> QED BY <1>1, <2>1 DEF CreatedVault
<1>3. vault["nav_mode"] = "AuthoritySigned"
  <2>1. /\ "nav_mode" \in UpdateFields /\ "nav_mode" \notin Roles
        /\ "nav_mode" \notin AmountFields
        /\ "nav_mode" \notin {"fee_recipient", "protocol_fee_recipient"}
    BY DEF AmountFields, BpsFields, LimitFields, UpdateFields, Roles, TransferredRoles
  <2> QED BY <1>1, <2>1 DEF CreatedVault
<1> QED
  BY <1>2, <1>3
     DEF Init, ConfigSound, ValidateConfig, FieldsAgree, BpsFields, LimitFields, MAX_BPS

LEMMA ConfigSoundStep ==
  ASSUME AccountsWellFormed, RoutingWellFormed, ConfigSound,
         [GovernanceNext]_governanceVars
  PROVE  ConfigSound'
<1>0. DOMAIN vault = VaultFields /\ ValidateConfig(vault)
  BY DEF AccountsWellFormed, ConfigSound
<1>1. ASSUME NEW who \in Keys, NEW args \in InstantArgs, InitializeInstantSettlement(who, args)
      PROVE  ConfigSound'
  <2>1. /\ vault'["instant_redemption_fee_bps"] <= MAX_BPS
        /\ \A f \in CheckedFields \ {"instant_redemption_fee_bps"} : vault'[f] = vault[f]
    BY <1>0, <1>1 DEF InitializeInstantSettlement, VaultFields, CheckedFields, BpsFields,
       LimitFields, UpdateFields, AmountFields, KeyFields
  <2>2. tranche_config' = tranche_config /\ protocol_fee_config' = protocol_fee_config
    BY <1>1 DEF InitializeInstantSettlement
  <2> QED BY <1>0, <2>1, <2>2
          DEF ConfigSound, ValidateConfig, FieldsAgree, CheckedFields, BpsFields, LimitFields
<1>2. ASSUME NEW who \in Keys, NEW args \in TrancheArgs, InitializeTranches(who, args)
      PROVE  ConfigSound'
  BY <1>0, <1>2 DEF InitializeTranches, ConfigSound, ValidateConfig, FieldsAgree
<1>3. ASSUME NEW args, ApplyVaultUpdate(args), protocol_fee_config' = protocol_fee_config
      PROVE  ConfigSound'
  BY <1>3 DEF ApplyVaultUpdate, ConfigSound, ValidateConfig, FieldsAgree
<1>4. ASSUME NEW who \in Keys, HandOver(who)
      PROVE  ConfigSound'
  <2>1. \A f \in CheckedFields :
          f \in VaultFields /\ f \notin Roles /\ f # "pending_authority"
    BY DEF VaultFields, CheckedFields, BpsFields, LimitFields, UpdateFields, AmountFields,
       KeyFields, Roles, TransferredRoles
  <2>2. /\ \A f \in CheckedFields : vault'[f] = vault[f]
        /\ tranche_config' = tranche_config /\ protocol_fee_config' = protocol_fee_config
    BY <1>0, <1>4, <2>1, HandedOverFacts
       DEF HandOver, InviteNewAuthority, AcceptAuthorityInvitation, Roles
  <2> QED BY <1>0, <2>2, CheckedFieldsKept DEF ConfigSound
<1>5. ASSUME NEW who \in Keys, PauseVault(who) \/ InitializeVault(who)
      PROVE  ConfigSound'
  <2>1. \A f \in CheckedFields : f \in VaultFields /\ f # "paused" /\ f # "initialized"
    BY DEF VaultFields, CheckedFields, BpsFields, LimitFields, UpdateFields, AmountFields,
       KeyFields
  <2>2. /\ \A f \in CheckedFields : vault'[f] = vault[f]
        /\ tranche_config' = tranche_config /\ protocol_fee_config' = protocol_fee_config
    BY <1>0, <1>5, <2>1 DEF PauseVault, InitializeVault
  <2> QED BY <1>0, <2>2, CheckedFieldsKept DEF ConfigSound
<1>6. ASSUME NEW who \in Keys, ProtocolFeeRouting(who)
      PROVE  ConfigSound'
  <2>1. vault' = vault /\ tranche_config' = tranche_config
    BY <1>6 DEF ProtocolFeeRouting, InitializeProtocolFeeConfig, UpdateProtocolFeeConfig,
       vaultVars
  <2>2. \A c \in protocol_fee_config' : c.protocol_fee_recipient # DefaultKey
    <3>1. PICK recipient \in Recipients :
            \/ InitializeProtocolFeeConfig(who, recipient)
            \/ UpdateProtocolFeeConfig(who, recipient)
      BY <1>6 DEF ProtocolFeeRouting
    <3>2. CASE InitializeProtocolFeeConfig(who, recipient)
      BY <3>2 DEF InitializeProtocolFeeConfig
    <3>3. CASE UpdateProtocolFeeConfig(who, recipient)
      BY <3>3 DEF UpdateProtocolFeeConfig, RoutingWellFormed
    <3> QED BY <3>1, <3>2, <3>3
  <2> QED BY <1>0, <2>1, <2>2 DEF ConfigSound, ValidateConfig, FieldsAgree
<1>7. ASSUME vault' = vault, tranche_config' = tranche_config,
             protocol_fee_config' = protocol_fee_config
      PROVE  ConfigSound'
  BY <1>7 DEF ConfigSound, ValidateConfig, FieldsAgree
<1>8. ASSUME NEW who \in Keys, Setup(who)
      PROVE  ConfigSound'
  BY <1>1, <1>2, <1>5, <1>7, <1>8 DEF Setup, InitializeExtension
<1>9. ASSUME NEW who \in Keys, DirectChange(who)
      PROVE  ConfigSound'
  BY <1>3, <1>5, <1>7, <1>9
     DEF DirectChange, UpdateVault, UpdateFee, UpdateExtension, ApplyFeeUpdate,
         ApplyExtensionUpdate, UpdateVaultExtension
<1>10. ASSUME NEW who \in Keys, NEW a \in Accounts, QueuedChange(who, a)
       PROVE  ConfigSound'
  BY <1>3, <1>7, <1>10
     DEF QueuedChange, QueueVaultUpdate, QueueFeeUpdate, QueueExtensionUpdate, Queue,
         ExecuteVaultUpdate, ExecuteFeeUpdate, ExecuteExtensionUpdate, CancelUpdate,
         ApplyFeeUpdate, ApplyExtensionUpdate, UpdateVaultExtension, vaultVars
<1>11. CASE Tick \/ UNCHANGED governanceVars
  BY <1>7, <1>11 DEF Tick, governanceVars, vaultVars
<1> QED BY <1>4, <1>6, <1>8, <1>9, <1>10, <1>11 DEF GovernanceNext

\* No order of setup steps, direct changes, queued changes and hand-overs leads to
\* a vault whose settings contradict each other: validate_config holds of it after
\* every instruction, also of those that do not call it.
THEOREM SettingsStaySound == GovernanceSpec => []ConfigSound
<1>1. AccountsWellFormed /\ RoutingWellFormed /\ ConfigSound
        /\ [GovernanceNext]_governanceVars => ConfigSound'
  BY ConfigSoundStep
<1> QED BY <1>1, InitConfigSound, WellFormedInvariant, RoutingInvariant, PTL DEF GovernanceSpec

-----------------------------------------------------------------------------
(* Keys that handed the vault over *)

\* An update that is the present curator's own clears what it grants.
LEMMA GrantsCleared ==
  ASSUME DOMAIN vault = VaultFields, OustedKeysHoldNoRole, NEW args \in VaultUpdates,
         ApplyVaultUpdate(args), ousted' = ousted \ Granted(args)
  PROVE  OustedKeysHoldNoRole'
<1> SUFFICES ASSUME NEW role \in Roles PROVE vault'[role] \notin ousted'
  BY DEF OustedKeysHoldNoRole
<1>1. role \in VaultFields /\ vault[role] \notin ousted
  BY DEF VaultFields, OustedKeysHoldNoRole
<1>2. vault'[role] = IF role \in DOMAIN args THEN args[role] ELSE vault[role]
  BY <1>1, UpdatedFacts DEF ApplyVaultUpdate
<1>3. role \in DOMAIN args => role \in TransferredRoles
  BY UpdateDomain
     DEF Roles, UpdateFields, KeyFields, AmountFields, BpsFields, LimitFields, FlagFields,
         TransferredRoles
<1> QED BY <1>1, <1>2, <1>3 DEF Granted

LEMMA OustedStep ==
  ASSUME AccountsWellFormed, OustedKeysHoldNoRole, [GovernanceNext]_governanceVars
  PROVE  OustedKeysHoldNoRole'
<1>0. DOMAIN vault = VaultFields /\ Roles \subseteq VaultFields
  BY DEF AccountsWellFormed, VaultFields
<1>1. ASSUME NEW who \in Keys, NEW args \in VaultUpdates, UpdateVault(who, args)
      PROVE  OustedKeysHoldNoRole'
  BY <1>0, <1>1, GrantsCleared DEF UpdateVault
<1>2. ASSUME NEW a \in Accounts, ExecuteVaultUpdate(a)
      PROVE  OustedKeysHoldNoRole'
  <2>1. pending[a].args \in VaultUpdates
    BY <1>2 DEF ExecuteVaultUpdate, Ready, AccountsWellFormed, QueuedWell
  <2>2. ousted' = ousted \ Granted(pending[a].args)
    BY <1>2 DEF ExecuteVaultUpdate, Ready
  <2> QED BY <1>0, <1>2, <2>1, <2>2, GrantsCleared DEF ExecuteVaultUpdate
<1>3. ASSUME NEW who \in Keys, AcceptAuthorityInvitation(who)
      PROVE  OustedKeysHoldNoRole'
  <2> SUFFICES ASSUME NEW role \in Roles PROVE vault'[role] \notin ousted'
    BY DEF OustedKeysHoldNoRole
  <2>1. vault[role] \notin ousted /\ role \in VaultFields /\ role # "pending_authority"
    BY <1>0 DEF OustedKeysHoldNoRole, Roles, TransferredRoles
  <2>2. vault'[role] = who \/ (vault'[role] = vault[role] /\ vault[role] # vault["authority"])
    BY <1>0, <1>3, <2>1, HandedOverFacts DEF AcceptAuthorityInvitation, Roles
  <2>3. ousted' = (ousted \cup {vault["authority"]}) \ {who}
    BY <1>3 DEF AcceptAuthorityInvitation
  <2> QED BY <2>1, <2>2, <2>3
<1>4. ASSUME ousted' = ousted, \A role \in Roles : vault'[role] = vault[role]
      PROVE  OustedKeysHoldNoRole'
  BY <1>4 DEF OustedKeysHoldNoRole
<1>5. /\ "pending_authority" \notin Roles /\ "paused" \notin Roles
      /\ "initialized" \notin Roles /\ "instant_redemption_fee_bps" \notin Roles
  BY DEF Roles, TransferredRoles
<1>6. ASSUME NEW who \in Keys, Setup(who) \/ PauseVault(who)
                                 \/ \E invited \in Keys : InviteNewAuthority(who, invited)
      PROVE  OustedKeysHoldNoRole'
  <2>1. ousted' = ousted /\ \A role \in Roles : vault'[role] = vault[role]
    BY <1>0, <1>5, <1>6
       DEF Setup, InitializeExtension, InitializeInstantSettlement, InitializeTranches,
           InitializeVault, PauseVault, InviteNewAuthority, historyVars
  <2> QED BY <1>4, <2>1
<1>7. ASSUME NEW who \in Keys, DirectChange(who)
      PROVE  OustedKeysHoldNoRole'
  BY <1>1, <1>4, <1>6, <1>7
     DEF DirectChange, UpdateFee, UpdateExtension, ApplyFeeUpdate, ApplyExtensionUpdate,
         UpdateVaultExtension, historyVars
<1>8. ASSUME NEW who \in Keys, NEW a \in Accounts, QueuedChange(who, a)
      PROVE  OustedKeysHoldNoRole'
  BY <1>2, <1>4, <1>8
     DEF QueuedChange, QueueVaultUpdate, QueueFeeUpdate, QueueExtensionUpdate, Queue,
         ExecuteFeeUpdate, ExecuteExtensionUpdate, CancelUpdate, ApplyFeeUpdate,
         ApplyExtensionUpdate, UpdateVaultExtension, vaultVars, historyVars
<1>9. ASSUME NEW who \in Keys, ProtocolFeeRouting(who)
      PROVE  OustedKeysHoldNoRole'
  BY <1>4, <1>9 DEF ProtocolFeeRouting, InitializeProtocolFeeConfig, UpdateProtocolFeeConfig,
                    vaultVars, historyVars
<1>10. CASE Tick \/ UNCHANGED governanceVars
  BY <1>4, <1>10 DEF Tick, governanceVars, vaultVars, historyVars
<1> QED
  BY <1>3, <1>6, <1>7, <1>8, <1>9, <1>10 DEF GovernanceNext, HandOver

\* A former authority has no role left and gets none back by a change it left in
\* the queue: only a change of a later curator gives it one.
THEOREM OustedKeysStayOut == GovernanceSpec => []OustedKeysHoldNoRole
<1>1. Init => OustedKeysHoldNoRole
  BY DEF Init, OustedKeysHoldNoRole
<1>2. AccountsWellFormed /\ OustedKeysHoldNoRole /\ [GovernanceNext]_governanceVars
        => OustedKeysHoldNoRole'
  BY OustedStep
<1> QED BY <1>1, <1>2, WellFormedInvariant, PTL DEF GovernanceSpec

-----------------------------------------------------------------------------
(* Notice *)

\* What an execute instruction that closes account a has waited for.
LEMMA ReadyIsAnnounced ==
  ASSUME AccountsWellFormed, NEW a \in Accounts, NEW kind, Ready(a, kind), Close(a)
  PROVE  Announced(a)
<1>1. a \in DOMAIN pending /\ slot >= pending[a].eta_slot /\ QueuedWell(a)
  BY DEF Ready, AccountsWellFormed
<1>2. a \notin DOMAIN pending'
  BY WithoutFacts DEF Close
<1> QED BY <1>1, <1>2 DEF Announced, QueuedWell

LEMMA NoticeStep ==
  ASSUME AccountsWellFormed, [GovernanceNext]_governanceVars
  PROVE  GivesNotice
<1> SUFFICES ASSUME vault.initialized, vault.timelock_delay_slots > 0
             PROVE  GivesNotice
  BY DEF GivesNotice
<1> DEFINE Timed == UpdateFields \ {"paused", "breaker"}
<1>0. /\ DOMAIN vault = VaultFields /\ Timed \subseteq VaultFields
      /\ Timed = TimelockedFields /\ vault.timelock_delay_slots # 0
  BY DEF AccountsWellFormed, VaultFields, TimelockedFields
<1>1. ASSUME \A f \in Timed : vault'[f] = vault[f], extension' = extension
      PROVE  GivesNotice
  BY <1>1 DEF GivesNotice
<1> HIDE DEF Timed
<1>2. ASSUME NEW who \in Keys, Setup(who)
      PROVE  GivesNotice
  BY <1>2 DEF Setup, InitializeExtension, InitializeInstantSettlement, InitVaultExtension,
              InitializeTranches, InitializeVault
<1>3. ASSUME NEW who \in Keys, NEW args \in VaultUpdates, UpdateVault(who, args)
      PROVE  GivesNotice
  <2>1. \A f \in Timed : f \notin DOMAIN args
    BY <1>0, <1>3 DEF UpdateVault, HasTimelockedFields
  <2>2. \A f \in Timed : vault'[f] = vault[f]
    BY <1>0, <1>3, <2>1, UpdatedFacts DEF UpdateVault, ApplyVaultUpdate
  <2> QED BY <1>1, <1>3, <2>2 DEF UpdateVault, ApplyVaultUpdate
<1>4. ASSUME NEW who \in Keys, PauseVault(who)
      PROVE  GivesNotice
  <2>1. \A f \in Timed : vault'[f] = vault[f]
    BY <1>0, <1>4 DEF PauseVault, Timed
  <2> QED BY <1>1, <1>4, <2>1 DEF PauseVault
<1>5. ASSUME NEW who \in Keys, DirectChange(who)
      PROVE  GivesNotice
  BY <1>0, <1>3, <1>4, <1>5 DEF DirectChange, UpdateFee, UpdateExtension
<1>6. ASSUME NEW who \in Keys, NEW invited, InviteNewAuthority(who, invited)
      PROVE  GivesNotice
  <2>1. "pending_authority" \notin Timed
    BY DEF Timed, UpdateFields, KeyFields, AmountFields, BpsFields, LimitFields, FlagFields
  <2>2. \A f \in Timed : vault'[f] = vault[f]
    BY <1>0, <1>6, <2>1 DEF InviteNewAuthority
  <2> QED BY <1>1, <1>6, <2>2 DEF InviteNewAuthority
<1>7. ASSUME NEW who \in Keys, AcceptAuthorityInvitation(who)
      PROVE  GivesNotice
  <2>1. ASSUME NEW f \in Timed, vault'[f] # vault[f]
        PROVE  /\ f \in TransferredRoles /\ vault[f] = vault.authority
               /\ vault'[f] = vault.pending_authority
    <3>1. f \in VaultFields /\ f \notin {"authority", "curator", "pending_authority"}
      BY <1>0 DEF Timed, UpdateFields, KeyFields, AmountFields, BpsFields, LimitFields,
         FlagFields
    <3> QED BY <1>0, <1>7, <2>1, <3>1, HandedOverFacts DEF AcceptAuthorityInvitation
  <2> QED BY <1>7, <2>1 DEF GivesNotice, AcceptAuthorityInvitation, Timed
<1>8. ASSUME NEW a \in Accounts, ExecuteVaultUpdate(a)
      PROVE  GivesNotice
  <2>1. Announced(a) /\ pending[a].kind = "Vault"
    BY <1>8, ReadyIsAnnounced DEF ExecuteVaultUpdate, Ready
  <2>2. ASSUME NEW f \in Timed, vault'[f] # vault[f]
        PROVE  f \in DOMAIN pending[a].args /\ pending[a].args[f] = vault'[f]
    BY <1>0, <1>8, <2>2, UpdatedFacts DEF ExecuteVaultUpdate, ApplyVaultUpdate
  <2>3. extension' = extension
    BY <1>8 DEF ExecuteVaultUpdate, ApplyVaultUpdate
  <2> QED BY <2>1, <2>2, <2>3 DEF GivesNotice, Timed
<1>9. ASSUME NEW a \in Accounts, ExecuteFeeUpdate(a) \/ ExecuteExtensionUpdate(a)
      PROVE  GivesNotice
  <2>1. Announced(a)
    BY <1>9, ReadyIsAnnounced DEF ExecuteFeeUpdate, ExecuteExtensionUpdate
  <2>2. vault' = vault
    BY <1>9 DEF ExecuteFeeUpdate, ExecuteExtensionUpdate, ApplyFeeUpdate,
                ApplyExtensionUpdate, UpdateVaultExtension
  <2> QED BY <2>1, <2>2 DEF GivesNotice
<1>10. ASSUME NEW who \in Keys, NEW a \in Accounts, QueuedChange(who, a)
       PROVE  GivesNotice
  BY <1>1, <1>8, <1>9, <1>10
     DEF QueuedChange, QueueVaultUpdate, QueueFeeUpdate, QueueExtensionUpdate, Queue,
         CancelUpdate, vaultVars
<1>11. ASSUME NEW who \in Keys, ProtocolFeeRouting(who)
       PROVE  GivesNotice
  BY <1>1, <1>11 DEF ProtocolFeeRouting, InitializeProtocolFeeConfig,
                     UpdateProtocolFeeConfig, vaultVars
<1>12. CASE Tick \/ UNCHANGED governanceVars
  BY <1>1, <1>12 DEF Tick, governanceVars, vaultVars
<1> QED
  BY <1>2, <1>5, <1>6, <1>7, <1>10, <1>11, <1>12 DEF GovernanceNext, HandOver

\* Once a vault is in use and has a timelock, nobody changes a timelocked setting
\* or an extension without the notice that was promised when the change was
\* queued, whoever executes it and however the delay was changed meanwhile.
THEOREM NoticeIsGiven == GovernanceSpec => NoticeGiven
<1>1. AccountsWellFormed /\ [GovernanceNext]_governanceVars => [GivesNotice]_governanceVars
  BY NoticeStep
<1> QED BY <1>1, WellFormedInvariant, PTL DEF GovernanceSpec, NoticeGiven

-----------------------------------------------------------------------------
(* Venues count their positions *)

\* A position is named by a venue and a mint, there are finitely many, and an
\* approved venue has a counter.
PositionsWellFormed ==
  /\ IsFiniteSet(DOMAIN position)
  /\ \A p \in DOMAIN position : p = <<p[1], p[2]>>
  /\ \A e \in DOMAIN vault_venue : "position_count" \in DOMAIN vault_venue[e]

PositionsCounted == PositionsWellFormed /\ PositionCountExact

\* A step that opens and closes no position and leaves the counters as they are.
LEMMA SamePositions ==
  ASSUME PositionsCounted, DOMAIN position' = DOMAIN position, vault_venue' = vault_venue
  PROVE  PositionsCounted'
<1>1. \A e : PositionsAt(e)' = PositionsAt(e)
  BY DEF PositionsAt
<1> QED BY <1>1 DEF PositionsCounted, PositionsWellFormed, PositionCountExact

LEMMA ApproveCounts ==
  ASSUME PositionsCounted, NEW who, NEW e, NEW recipient, ApproveVaultVenue(who, e, recipient)
  PROVE  PositionsCounted'
<1> DEFINE venue == [recipient_authority |-> recipient,
                     target_program |-> venue_entry[e].target_program,
                     routine_safe |-> venue_entry[e].routine_safe,
                     paused |-> FALSE, position_count |-> 0]
<1>1. /\ vault_venue' = With(vault_venue, e, venue) /\ position' = position
      /\ e \notin DOMAIN vault_venue
  BY DEF ApproveVaultVenue
<1>2. "position_count" \in DOMAIN venue /\ venue.position_count = 0
  OBVIOUS
<1> HIDE DEF venue
<1>3. /\ DOMAIN vault_venue' = DOMAIN vault_venue \cup {e} /\ vault_venue'[e] = venue
      /\ \A d \in DOMAIN vault_venue : vault_venue'[d] = vault_venue[d]
  <2>1. DOMAIN vault_venue' = DOMAIN vault_venue \cup {e}
    BY <1>1 DEF With
  <2>2. /\ vault_venue'[e] = venue
        /\ \A d \in DOMAIN vault_venue : d # e => vault_venue'[d] = vault_venue[d]
    BY <1>1 DEF With
  <2>3. \A d \in DOMAIN vault_venue : d # e
    BY <1>1
  <2> QED BY <2>1, <2>2, <2>3
<1>4. \A d : PositionsAt(d)' = PositionsAt(d)
  BY <1>1 DEF PositionsAt
<1>5. PositionsAt(e) = {}
  BY <1>1 DEF PositionsCounted, PositionCountExact, PositionsAt
<1>6. Cardinality(PositionsAt(e)) = 0
  BY <1>5, FS_EmptySet
<1> QED
  BY <1>1, <1>2, <1>3, <1>4, <1>6 DEF PositionsCounted, PositionsWellFormed, PositionCountExact

LEMMA RemoveCounts ==
  ASSUME PositionsCounted, NEW who, NEW e, RemoveVaultVenue(who, e)
  PROVE  PositionsCounted'
<1>1. /\ vault_venue' = Without(vault_venue, e) /\ position' = position
      /\ e \in DOMAIN vault_venue /\ vault_venue[e].position_count = 0
  BY DEF RemoveVaultVenue
<1>2. /\ DOMAIN vault_venue' = DOMAIN vault_venue \ {e}
      /\ \A d \in DOMAIN vault_venue' : vault_venue'[d] = vault_venue[d]
  BY <1>1, WithoutFacts
<1>3. \A d : PositionsAt(d)' = PositionsAt(d)
  BY <1>1 DEF PositionsAt
<1>4. PositionsAt(e) = {}
  <2>1. Cardinality(PositionsAt(e)) = 0
    BY <1>1 DEF PositionsCounted, PositionCountExact
  <2>2. IsFiniteSet(PositionsAt(e))
    <3>1. PositionsAt(e) \subseteq DOMAIN position
      BY DEF PositionsAt
    <3> QED BY <3>1, FS_Subset DEF PositionsCounted, PositionsWellFormed
  <2> QED BY <2>1, <2>2, FS_EmptySet
<1>5. \A p \in DOMAIN position : p[1] # e
  BY <1>4 DEF PositionsAt
<1> QED
  BY <1>1, <1>2, <1>3, <1>5 DEF PositionsCounted, PositionsWellFormed, PositionCountExact

LEMMA OpenCounts ==
  ASSUME PositionsCounted, NEW who, NEW e, NEW m, CreateVenuePosition(who, e, m)
  PROVE  PositionsCounted'
<1>1. /\ e \in DOMAIN vault_venue /\ <<e, m>> \notin DOMAIN position
      /\ position' = With(position, <<e, m>>, 0)
      /\ vault_venue' = [vault_venue EXCEPT ![e].position_count = @ + 1]
  BY DEF CreateVenuePosition, VenueActive
<1>2. DOMAIN position' = DOMAIN position \cup {<<e, m>>}
  BY <1>1, WithFacts
<1>3. /\ PositionsAt(e)' = PositionsAt(e) \cup {<<e, m>>}
      /\ \A d : d # e => PositionsAt(d)' = PositionsAt(d)
      /\ <<e, m>> \notin PositionsAt(e)
  BY <1>1, <1>2 DEF PositionsAt
<1>4. IsFiniteSet(PositionsAt(e))
  <2>1. PositionsAt(e) \subseteq DOMAIN position
    BY DEF PositionsAt
  <2> QED BY <2>1, FS_Subset DEF PositionsCounted, PositionsWellFormed
<1>5. Cardinality(PositionsAt(e)') = Cardinality(PositionsAt(e)) + 1
  BY <1>3, <1>4, FS_AddElement
<1>6. /\ DOMAIN vault_venue' = DOMAIN vault_venue
      /\ vault_venue'[e].position_count = vault_venue[e].position_count + 1
      /\ \A d \in DOMAIN vault_venue : d # e => vault_venue'[d] = vault_venue[d]
      /\ DOMAIN vault_venue'[e] = DOMAIN vault_venue[e]
  BY <1>1 DEF PositionsCounted, PositionsWellFormed
<1>7. PositionCountExact'
  <2>1. /\ \A d \in DOMAIN vault_venue :
             vault_venue[d].position_count = Cardinality(PositionsAt(d))
        /\ \A p \in DOMAIN position : p[1] \in DOMAIN vault_venue
    BY DEF PositionsCounted, PositionCountExact
  <2>2. ASSUME NEW d \in DOMAIN vault_venue'
        PROVE  vault_venue'[d].position_count = Cardinality(PositionsAt(d)')
    <3>1. CASE d = e
      BY <1>1, <1>5, <1>6, <2>1, <3>1
    <3>2. CASE d # e
      BY <1>3, <1>6, <2>1, <3>2
    <3> QED BY <3>1, <3>2
  <2>3. \A p \in DOMAIN position' : p[1] \in DOMAIN vault_venue'
    BY <1>1, <1>2, <1>6, <2>1
  <2> QED BY <2>2, <2>3 DEF PositionCountExact
<1>8. IsFiniteSet(DOMAIN position')
  BY <1>2, FS_AddElement DEF PositionsCounted, PositionsWellFormed
<1> QED BY <1>2, <1>6, <1>7, <1>8 DEF PositionsCounted, PositionsWellFormed

LEMMA CloseCounts ==
  ASSUME PositionsCounted, NEW who, NEW e, NEW m, RemoveVenuePosition(who, e, m)
  PROVE  PositionsCounted'
<1>1. /\ e \in DOMAIN vault_venue /\ <<e, m>> \in DOMAIN position
      /\ position' = Without(position, <<e, m>>)
      /\ vault_venue' = [vault_venue EXCEPT ![e].position_count = @ - 1]
  BY DEF RemoveVenuePosition
<1>2. DOMAIN position' = DOMAIN position \ {<<e, m>>}
  BY <1>1, WithoutFacts
<1>3. /\ PositionsAt(e)' = PositionsAt(e) \ {<<e, m>>}
      /\ \A d : d # e => PositionsAt(d)' = PositionsAt(d)
      /\ <<e, m>> \in PositionsAt(e)
  BY <1>1, <1>2 DEF PositionsAt
<1>4. IsFiniteSet(PositionsAt(e))
  <2>1. PositionsAt(e) \subseteq DOMAIN position
    BY DEF PositionsAt
  <2> QED BY <2>1, FS_Subset DEF PositionsCounted, PositionsWellFormed
<1>5. Cardinality(PositionsAt(e)') = Cardinality(PositionsAt(e)) - 1
  BY <1>3, <1>4, FS_RemoveElement
<1>6. /\ DOMAIN vault_venue' = DOMAIN vault_venue
      /\ vault_venue'[e].position_count = vault_venue[e].position_count - 1
      /\ \A d \in DOMAIN vault_venue : d # e => vault_venue'[d] = vault_venue[d]
      /\ DOMAIN vault_venue'[e] = DOMAIN vault_venue[e]
  BY <1>1 DEF PositionsCounted, PositionsWellFormed
<1>7. PositionCountExact'
  <2>1. /\ \A d \in DOMAIN vault_venue :
             vault_venue[d].position_count = Cardinality(PositionsAt(d))
        /\ \A p \in DOMAIN position : p[1] \in DOMAIN vault_venue
    BY DEF PositionsCounted, PositionCountExact
  <2>2. ASSUME NEW d \in DOMAIN vault_venue'
        PROVE  vault_venue'[d].position_count = Cardinality(PositionsAt(d)')
    <3>1. CASE d = e
      BY <1>1, <1>5, <1>6, <2>1, <3>1
    <3>2. CASE d # e
      BY <1>3, <1>6, <2>1, <3>2
    <3> QED BY <3>1, <3>2
  <2>3. \A p \in DOMAIN position' : p[1] \in DOMAIN vault_venue'
    BY <1>1, <1>2, <1>6, <2>1
  <2> QED BY <2>2, <2>3 DEF PositionCountExact
<1>8. IsFiniteSet(DOMAIN position')
  BY <1>2, FS_RemoveElement DEF PositionsCounted, PositionsWellFormed
<1> QED BY <1>2, <1>6, <1>7, <1>8 DEF PositionsCounted, PositionsWellFormed

LEMMA VenuesStepCounts ==
  ASSUME PositionsCounted, VenuesNext \/ UNCHANGED venuesVars
  PROVE  PositionsCounted'
<1>1. ASSUME NEW who \in Keys, Registry(who)
      PROVE  PositionsCounted'
  <2>1. position' = position /\ vault_venue' = vault_venue
    BY <1>1 DEF Registry, RegisterVenue, SetVenueEntryPaused
  <2> QED BY <2>1, SamePositions
<1>2. ASSUME NEW who \in Keys, NEW m, AddVaultAsset(who, m) \/ RemoveVaultAsset(who, m)
      PROVE  PositionsCounted'
  <2>1. position' = position /\ vault_venue' = vault_venue
    BY <1>2 DEF AddVaultAsset, RemoveVaultAsset
  <2> QED BY <2>1, SamePositions
<1>3. ASSUME NEW who \in Keys, Approvals(who)
      PROVE  PositionsCounted'
  BY <1>2, <1>3, ApproveCounts, RemoveCounts, OpenCounts, CloseCounts DEF Approvals
<1>4. ASSUME NEW who \in Keys, NEW amount \in Amounts, Moves(who, amount)
      PROVE  PositionsCounted'
  <2>1. DOMAIN position' = DOMAIN position /\ vault_venue' = vault_venue
    BY <1>4 DEF Moves, DeployVenuePosition, PullVenuePosition, WithdrawAssets
  <2> QED BY <2>1, SamePositions
<1>5. ASSUME NEW amount \in Amounts, Arrivals(amount)
      PROVE  PositionsCounted'
  <2>1. position' = position /\ vault_venue' = vault_venue
    BY <1>5 DEF Arrivals, SendToReserve, PreFund, SendToPosition
  <2> QED BY <2>1, SamePositions
<1>6. CASE UNCHANGED venueVars
  <2>1. position' = position /\ vault_venue' = vault_venue
    BY <1>6 DEF venueVars
  <2> QED BY <2>1, SamePositions
<1> QED BY <1>1, <1>3, <1>4, <1>5, <1>6 DEF VenuesNext, venuesVars

\* A venue counts exactly its open positions, through every order of approvals,
\* positions opened and closed, removals and managed calls, so that
\* remove_vault_venue, which looks at the counter alone, never forgets a venue
\* that a position refers to.
THEOREM VenuesCountTheirPositions == StrategySpec => []PositionCountExact
<1>1. StrategyInit => PositionsCounted
  <2> SUFFICES ASSUME StrategyInit PROVE PositionsCounted
    OBVIOUS
  <2>1. DOMAIN position = {} /\ DOMAIN vault_venue = {}
    BY DEF StrategyInit, VenuesInit
  <2> QED BY <2>1, FS_EmptySet DEF PositionsCounted, PositionsWellFormed, PositionCountExact
<1>2. PositionsCounted /\ [StrategyNext]_strategyVars => PositionsCounted'
  <2> SUFFICES ASSUME PositionsCounted, [StrategyNext]_strategyVars
               PROVE  PositionsCounted'
    OBVIOUS
  <2>1. ASSUME NEW who \in Keys, NEW s \in Keys, PolicyLife(who, s)
        PROVE  UNCHANGED venuesVars
    BY <2>1 DEF PolicyLife, InitializeStrategyPolicy, UpdateStrategyPolicy,
                QueueStrategyPolicyUpdate, PauseStrategyPolicy, CloseStrategyPolicy
  <2>2. ASSUME NEW who \in Keys, NEW a \in PolicyAccounts, PolicyTimelock(who, a)
        PROVE  UNCHANGED venuesVars
    BY <2>2 DEF PolicyTimelock, ExecuteStrategyPolicyUpdate, CancelStrategyPolicyUpdate
  <2>3. ASSUME NEW who, NEW e, NEW leaf, NEW amount,
               ManageVaultWithMerkleVerification(who, e, leaf, amount)
        PROVE  PositionsCounted'
    <3>1. position' = position /\ vault_venue' = vault_venue
      BY <2>3 DEF ManageVaultWithMerkleVerification
    <3> QED BY <3>1, SamePositions
  <2> QED BY <2>1, <2>2, <2>3, VenuesStepCounts DEF StrategyNext, strategyVars
<1>3. PositionsCounted => PositionCountExact
  BY DEF PositionsCounted
<1> QED BY <1>1, <1>2, <1>3, PTL DEF StrategySpec

-----------------------------------------------------------------------------
(* The ledger of secondary assets *)

PositionTypes ==
  /\ IsFiniteSet(DOMAIN position)
  /\ \A p \in DOMAIN position : p = <<p[1], p[2]>> /\ position[p] \in Nat

TokenTypes ==
  /\ DOMAIN position_token = DOMAIN position
  /\ \A p \in DOMAIN position_token : position_token[p] \in Nat
  /\ reserve \in [Mints -> Nat]

AssetFields == {"idle_balance", "deployed_balance", "manager_window"}

AssetTypes ==
  /\ DOMAIN vault_asset \subseteq Assets
  /\ \A m \in DOMAIN vault_asset :
       /\ DOMAIN vault_asset[m] = AssetFields
       /\ vault_asset[m].idle_balance \in Nat /\ vault_asset[m].deployed_balance \in Nat

LedgerTypes == PositionTypes /\ TokenTypes /\ AssetTypes

LedgerKept == LedgerTypes /\ LedgerBalanced

\* Mints whose positions stay have as much deployed as before.
LEMMA SameDeployed ==
  ASSUME position' = position
  PROVE  \A m : DeployedIn(m)' = DeployedIn(m)
BY DEF DeployedIn

\* One position comes, goes or changes.
LEMMA DeployedChanges ==
  ASSUME PositionTypes, PositionTypes', NEW e, NEW m, NEW x, NEW y,
         DOMAIN position' \ {<<e, m>>} = DOMAIN position \ {<<e, m>>},
         \A p \in DOMAIN position \ {<<e, m>>} : position'[p] = position[p],
         x = IF <<e, m>> \in DOMAIN position THEN position[<<e, m>>] ELSE 0,
         y = IF <<e, m>> \in DOMAIN position' THEN position'[<<e, m>>] ELSE 0
  PROVE  /\ DeployedIn(m) \in Nat /\ DeployedIn(m)' = DeployedIn(m) - x + y
         /\ \A k : k # m => DeployedIn(k)' = DeployedIn(k)
<1> DEFINE q == <<e, m>>
           In(k) == {p \in DOMAIN position : p[2] = k}
           After(k) == {p \in DOMAIN position' : p[2] = k}
<1>1. q[2] = m
  OBVIOUS
<1>2. \A k : DeployedIn(k) = Cardinality(Units(position, In(k)))
  BY DEF DeployedIn
<1>3. \A k : DeployedIn(k)' = Cardinality(Units(position', After(k)))
  BY DEF DeployedIn
<1>4. /\ IsFiniteSet(In(m))
      /\ \A p \in In(m) : position[p] \in Nat
      /\ \A p \in After(m) : position'[p] \in Nat
  <2>1. In(m) \in SUBSET DOMAIN position
    OBVIOUS
  <2>2. IsFiniteSet(In(m))
    BY <2>1, FS_Subset DEF PositionTypes
  <2>3. \A p \in DOMAIN position' : position'[p] \in Nat
    BY DEF PositionTypes
  <2> QED BY <2>2, <2>3 DEF PositionTypes
<1>5. In(m) \ {q} = After(m) \ {q}
  OBVIOUS
<1>6. \A p \in In(m) \ {q} : position'[p] = position[p]
  OBVIOUS
<1>7. /\ x = IF q \in In(m) THEN position[q] ELSE 0
      /\ y = IF q \in After(m) THEN position'[q] ELSE 0
  BY <1>1
<1>8. ASSUME NEW k, k # m
      PROVE  DeployedIn(k)' = DeployedIn(k)
  <2>1. In(k) = After(k)
    BY <1>1, <1>8
  <2>2. \A p \in In(k) : position[p] = position'[p]
    BY <1>1, <1>8
  <2>3. /\ DeployedIn(k) = Cardinality(Units(position, In(k)))
        /\ DeployedIn(k)' = Cardinality(Units(position', In(k)))
    BY <1>2, <1>3, <2>1, Zenon
  <2> DEFINE S == In(k)
             new == position'
  <2>4. \A s \in S : position[s] = new[s]
    BY <2>2
  <2> HIDE DEF q, In, After, S, new
  <2>5. Units(position, S) = Units(new, S)
    BY <2>4, UnitsSame, Zenon
  <2> QED BY <2>3, <2>5, Zenon DEF S, new
<1> HIDE DEF q, In, After
<1>9. /\ Cardinality(Units(position, In(m))) \in Nat
      /\ Cardinality(Units(position', After(m)))
           = Cardinality(Units(position, In(m))) - x + y
  <2> DEFINE S == In(m)
             T == After(m)
             new == position'
  <2>1. /\ IsFiniteSet(S) /\ S \ {q} = T \ {q}
        /\ \A s \in S : position[s] \in Nat
        /\ \A s \in T : new[s] \in Nat
        /\ \A s \in S \ {q} : new[s] = position[s]
        /\ x = IF q \in S THEN position[q] ELSE 0
        /\ y = IF q \in T THEN new[q] ELSE 0
    BY <1>4, <1>5, <1>6, <1>7
  <2> HIDE DEF S, T, new
  <2>2. Cardinality(Units(position, S)) \in Nat
    BY <2>1, UnitsFinite
  <2>3. Cardinality(Units(new, T)) = Cardinality(Units(position, S)) - x + y
    BY <2>1, UnitsReplaced
  <2> QED BY <2>2, <2>3 DEF S, T, new
<1>10. /\ DeployedIn(m) = Cardinality(Units(position, In(m)))
       /\ DeployedIn(m)' = Cardinality(Units(position', After(m)))
  BY <1>2, <1>3
<1> QED BY <1>8, <1>9, <1>10, Zenon

LEMMA LedgerUntouched ==
  ASSUME LedgerKept, position' = position, vault_asset' = vault_asset, TokenTypes'
  PROVE  LedgerKept'
<1>1. \A m : DeployedIn(m)' = DeployedIn(m)
  BY SameDeployed
<1> QED
  BY <1>1 DEF LedgerKept, LedgerTypes, PositionTypes, AssetTypes, LedgerBalanced

LEMMA AddAssetKeeps ==
  ASSUME LedgerKept, NEW who, NEW m \in Assets, AddVaultAsset(who, m)
  PROVE  LedgerKept' /\ (LedgerBacked => LedgerBacked')
<1> DEFINE asset == [idle_balance |-> 0, deployed_balance |-> 0, manager_window |-> NoWindow]
<1>1. /\ vault_asset' = With(vault_asset, m, asset) /\ m \notin DOMAIN vault_asset
      /\ position' = position /\ position_token' = position_token /\ reserve' = reserve
  BY DEF AddVaultAsset
<1>2. /\ DOMAIN asset = AssetFields
      /\ asset.idle_balance = 0 /\ asset.deployed_balance = 0
  BY DEF AssetFields
<1> HIDE DEF asset
<1>3. /\ DOMAIN vault_asset' = DOMAIN vault_asset \cup {m} /\ vault_asset'[m] = asset
      /\ \A k \in DOMAIN vault_asset : vault_asset'[k] = vault_asset[k]
  <2>1. \A k \in DOMAIN vault_asset : k # m
    BY <1>1
  <2>2. DOMAIN vault_asset' = DOMAIN vault_asset \cup {m}
    BY <1>1 DEF With
  <2>3. /\ vault_asset'[m] = asset
        /\ \A k \in DOMAIN vault_asset : k # m => vault_asset'[k] = vault_asset[k]
    BY <1>1 DEF With
  <2> QED BY <2>1, <2>2, <2>3
<1>4. \A k : DeployedIn(k)' = DeployedIn(k)
  BY <1>1, SameDeployed
<1>5. LedgerTypes'
  BY <1>1, <1>2, <1>3 DEF LedgerKept, LedgerTypes, PositionTypes, TokenTypes, AssetTypes
<1>6. LedgerBalanced'
  BY <1>1, <1>2, <1>3, <1>4 DEF LedgerKept, LedgerBalanced
<1>7. reserve[m] \in Nat
  BY DEF LedgerKept, LedgerTypes, TokenTypes, Mints
<1>8. LedgerBacked => LedgerBacked'
  BY <1>1, <1>2, <1>3, <1>7 DEF LedgerBacked
<1> QED BY <1>5, <1>6, <1>8 DEF LedgerKept

\* remove_vault_asset looks at the deployed balance, which is what the positions
\* hold.
LEMMA RemoveAssetKeeps ==
  ASSUME LedgerKept, NEW who, NEW m \in Assets, RemoveVaultAsset(who, m)
  PROVE  LedgerKept' /\ (LedgerBacked => LedgerBacked')
<1>1. /\ vault_asset' = Without(vault_asset, m) /\ m \in DOMAIN vault_asset
      /\ vault_asset[m].deployed_balance = 0
      /\ position' = position /\ position_token' = position_token /\ reserve' = reserve
  BY DEF RemoveVaultAsset
<1>2. /\ DOMAIN vault_asset' = DOMAIN vault_asset \ {m}
      /\ \A k \in DOMAIN vault_asset' : vault_asset'[k] = vault_asset[k]
  BY <1>1, WithoutFacts
<1>3. \A k : DeployedIn(k)' = DeployedIn(k)
  BY <1>1, SameDeployed
<1>4. DeployedIn(m) = 0
  BY <1>1 DEF LedgerKept, LedgerBalanced
<1>5. LedgerTypes'
  BY <1>1, <1>2 DEF LedgerKept, LedgerTypes, PositionTypes, TokenTypes, AssetTypes
<1>6. LedgerBalanced'
  BY <1>1, <1>2, <1>3, <1>4 DEF LedgerKept, LedgerBalanced
<1>7. LedgerBacked => LedgerBacked'
  BY <1>1, <1>2 DEF LedgerBacked
<1> QED BY <1>5, <1>6, <1>7 DEF LedgerKept

LEMMA OpenKeeps ==
  ASSUME LedgerKept, NEW who, NEW e, NEW m, CreateVenuePosition(who, e, m)
  PROVE  LedgerKept' /\ (LedgerBacked => LedgerBacked')
<1>1. /\ <<e, m>> \notin DOMAIN position
      /\ position' = With(position, <<e, m>>, 0)
      /\ position_token' = With(position_token, <<e, m>>, 0)
      /\ vault_asset' = vault_asset /\ reserve' = reserve
  BY DEF CreateVenuePosition
<1>2. /\ DOMAIN position' = DOMAIN position \cup {<<e, m>>} /\ position'[<<e, m>>] = 0
      /\ \A p \in DOMAIN position : position'[p] = position[p]
  <2>1. \A p \in DOMAIN position : p # <<e, m>>
    BY <1>1
  <2>2. DOMAIN position' = DOMAIN position \cup {<<e, m>>}
    BY <1>1 DEF With
  <2>3. /\ position'[<<e, m>>] = 0
        /\ \A p \in DOMAIN position : p # <<e, m>> => position'[p] = position[p]
    BY <1>1 DEF With
  <2> QED BY <2>1, <2>2, <2>3
<1>3. /\ DOMAIN position_token' = DOMAIN position_token \cup {<<e, m>>}
      /\ position_token'[<<e, m>>] = 0
      /\ \A p \in DOMAIN position_token : p # <<e, m>> =>
           position_token'[p] = position_token[p]
  <2>1. DOMAIN position_token' = DOMAIN position_token \cup {<<e, m>>}
    BY <1>1 DEF With
  <2>2. /\ position_token'[<<e, m>>] = 0
        /\ \A p \in DOMAIN position_token : p # <<e, m>> =>
             position_token'[p] = position_token[p]
    BY <1>1 DEF With
  <2> QED BY <2>1, <2>2
<1>4. IsFiniteSet(DOMAIN position')
  BY <1>2, FS_AddElement DEF LedgerKept, LedgerTypes, PositionTypes
<1>5. PositionTypes'
  BY <1>2, <1>4 DEF LedgerKept, LedgerTypes, PositionTypes
<1>6. TokenTypes' /\ AssetTypes'
  BY <1>1, <1>2, <1>3 DEF LedgerKept, LedgerTypes, TokenTypes, AssetTypes
<1>7. /\ DOMAIN position' \ {<<e, m>>} = DOMAIN position \ {<<e, m>>}
      /\ \A p \in DOMAIN position \ {<<e, m>>} : position'[p] = position[p]
      /\ 0 = IF <<e, m>> \in DOMAIN position THEN position[<<e, m>>] ELSE 0
      /\ 0 = IF <<e, m>> \in DOMAIN position' THEN position'[<<e, m>>] ELSE 0
  BY <1>1, <1>2
<1>8. \A k : DeployedIn(k)' = DeployedIn(k)
  <2>1. PositionTypes
    BY DEF LedgerKept, LedgerTypes
  <2>2. /\ DeployedIn(m) \in Nat /\ DeployedIn(m)' = DeployedIn(m) - 0 + 0
        /\ \A k : k # m => DeployedIn(k)' = DeployedIn(k)
    BY <1>5, <1>7, <2>1, DeployedChanges
  <2> QED BY <2>2
<1>9. LedgerBalanced'
  BY <1>1, <1>8 DEF LedgerKept, LedgerBalanced
<1>10. LedgerBacked => LedgerBacked'
  BY <1>1, <1>2, <1>3 DEF LedgerKept, LedgerTypes, TokenTypes, LedgerBacked
<1> QED BY <1>5, <1>6, <1>9, <1>10 DEF LedgerKept, LedgerTypes

LEMMA CloseKeeps ==
  ASSUME LedgerKept, NEW who, NEW e, NEW m, RemoveVenuePosition(who, e, m)
  PROVE  LedgerKept' /\ (LedgerBacked => LedgerBacked')
<1>1. /\ <<e, m>> \in DOMAIN position /\ position[<<e, m>>] = 0
      /\ position' = Without(position, <<e, m>>)
      /\ position_token' = Without(position_token, <<e, m>>)
      /\ vault_asset' = vault_asset /\ reserve' = reserve
  BY DEF RemoveVenuePosition
<1>2. /\ DOMAIN position' = DOMAIN position \ {<<e, m>>}
      /\ \A p \in DOMAIN position' : position'[p] = position[p]
  BY <1>1, WithoutFacts
<1>3. /\ DOMAIN position_token' = DOMAIN position_token \ {<<e, m>>}
      /\ \A p \in DOMAIN position_token' : position_token'[p] = position_token[p]
  BY <1>1, WithoutFacts
<1>4. IsFiniteSet(DOMAIN position')
  BY <1>2, FS_RemoveElement DEF LedgerKept, LedgerTypes, PositionTypes
<1>5. PositionTypes'
  BY <1>2, <1>4 DEF LedgerKept, LedgerTypes, PositionTypes
<1>6. TokenTypes' /\ AssetTypes'
  BY <1>1, <1>2, <1>3 DEF LedgerKept, LedgerTypes, TokenTypes, AssetTypes
<1>7. /\ DOMAIN position' \ {<<e, m>>} = DOMAIN position \ {<<e, m>>}
      /\ \A p \in DOMAIN position \ {<<e, m>>} : position'[p] = position[p]
      /\ 0 = IF <<e, m>> \in DOMAIN position THEN position[<<e, m>>] ELSE 0
      /\ 0 = IF <<e, m>> \in DOMAIN position' THEN position'[<<e, m>>] ELSE 0
  BY <1>1, <1>2
<1>8. \A k : DeployedIn(k)' = DeployedIn(k)
  <2>1. PositionTypes
    BY DEF LedgerKept, LedgerTypes
  <2>2. /\ DeployedIn(m) \in Nat /\ DeployedIn(m)' = DeployedIn(m) - 0 + 0
        /\ \A k : k # m => DeployedIn(k)' = DeployedIn(k)
    BY <1>5, <1>7, <2>1, DeployedChanges
  <2> QED BY <2>2
<1>9. LedgerBalanced'
  BY <1>1, <1>8 DEF LedgerKept, LedgerBalanced
<1>10. LedgerBacked => LedgerBacked'
  BY <1>1, <1>2, <1>3 DEF LedgerKept, LedgerTypes, TokenTypes, LedgerBacked
<1> QED BY <1>5, <1>6, <1>9, <1>10 DEF LedgerKept, LedgerTypes

\* What deploying (delta = amount) and pulling (delta = -amount) do to the four
\* numbers; the guards keep each of them a natural.
LEMMA MoveKeeps ==
  ASSUME LedgerKept, NEW e, NEW m, NEW amount \in Int, NEW delta \in Int,
         <<e, m>> \in DOMAIN position, AssetApproved(m),
         reserve' = [reserve EXCEPT ![m] = @ - delta],
         position_token' = [position_token EXCEPT ![<<e, m>>] = @ + delta],
         position' = [position EXCEPT ![<<e, m>>] = @ + delta],
         LedgerMove(m, amount, delta),
         reserve[m] >= delta,
         position[<<e, m>>] >= -delta,
         position_token[<<e, m>>] >= -delta,
         ~IsPrimaryAsset(m) => /\ vault_asset[m].idle_balance >= delta
                               /\ vault_asset[m].deployed_balance >= -delta
  PROVE  LedgerKept' /\ (LedgerBacked => LedgerBacked')
<1> DEFINE q == <<e, m>>
<1>0. PositionTypes /\ TokenTypes /\ AssetTypes
  BY DEF LedgerKept, LedgerTypes
<1>1. /\ DOMAIN position' = DOMAIN position
      /\ \A p \in DOMAIN position \ {q} : position'[p] = position[p]
      /\ position[q] \in Nat /\ position'[q] = position[q] + delta /\ position'[q] \in Nat
  BY <1>0 DEF PositionTypes
<1>2. /\ DOMAIN position_token' = DOMAIN position_token
      /\ \A p \in DOMAIN position_token \ {q} : position_token'[p] = position_token[p]
      /\ position_token[q] \in Nat
      /\ position_token'[q] = position_token[q] + delta /\ position_token'[q] \in Nat
  BY <1>0 DEF TokenTypes
<1>3. m \in Mints /\ AssetMint \notin Assets
  BY <1>0, VenuesAssumption DEF AssetApproved, IsPrimaryAsset, Mints, AssetTypes
<1>4. /\ reserve' \in [Mints -> Nat]
      /\ reserve[m] \in Nat /\ reserve'[m] = reserve[m] - delta
      /\ \A k \in Mints : k # m => reserve'[k] = reserve[k]
  BY <1>0, <1>3 DEF TokenTypes
<1>5. PositionTypes'
  BY <1>0, <1>1 DEF PositionTypes
<1>6. TokenTypes'
  BY <1>0, <1>1, <1>2, <1>4 DEF TokenTypes
<1>7. /\ DeployedIn(m) \in Nat
      /\ DeployedIn(m)' = DeployedIn(m) - position[q] + position'[q]
      /\ \A k : k # m => DeployedIn(k)' = DeployedIn(k)
  <2>1. /\ DOMAIN position' \ {<<e, m>>} = DOMAIN position \ {<<e, m>>}
        /\ \A p \in DOMAIN position \ {<<e, m>>} : position'[p] = position[p]
        /\ position[q] = IF <<e, m>> \in DOMAIN position THEN position[<<e, m>>] ELSE 0
        /\ position'[q] = IF <<e, m>> \in DOMAIN position' THEN position'[<<e, m>>] ELSE 0
    BY <1>1
  <2> HIDE DEF q
  <2> QED BY <1>0, <1>5, <2>1, DeployedChanges
<1>8. DeployedIn(m)' = DeployedIn(m) + delta
  BY <1>1, <1>7
<1>9. CASE IsPrimaryAsset(m)
  <2>1. vault_asset' = vault_asset /\ m \notin Assets
    BY <1>3, <1>9 DEF LedgerMove, IsPrimaryAsset
  <2>2. \A k \in Assets : DeployedIn(k)' = DeployedIn(k)
    BY <1>7, <2>1
  <2>3. AssetTypes' /\ LedgerBalanced'
    BY <1>0, <2>1, <2>2 DEF AssetTypes, LedgerKept, LedgerBalanced
  <2>4. ASSUME LedgerBacked
        PROVE  LedgerBacked'
    <3>1. \A k \in DOMAIN vault_asset : reserve'[k] = reserve[k]
      BY <1>0, <1>4, <2>1 DEF AssetTypes, Mints
    <3>2. \A p \in DOMAIN position' : position'[p] <= position_token'[p]
      <4>1. position[q] <= position_token[q]
        BY <2>4 DEF LedgerBacked
      <4>2. position'[q] <= position_token'[q]
        BY <1>1, <1>2, <4>1
      <4>3. ASSUME NEW p \in DOMAIN position', p # q
            PROVE  position'[p] <= position_token'[p]
        BY <1>0, <1>1, <1>2, <2>4, <4>3 DEF LedgerBacked, TokenTypes
      <4> QED BY <4>2, <4>3
    <3> QED BY <2>1, <2>4, <3>1, <3>2 DEF LedgerBacked
  <2> QED BY <1>5, <1>6, <2>3, <2>4 DEF LedgerKept, LedgerTypes
<1>10. CASE ~IsPrimaryAsset(m)
  <2>1. /\ m \in DOMAIN vault_asset /\ m \in Assets
        /\ vault_asset' = [vault_asset EXCEPT
             ![m].idle_balance = @ - delta,
             ![m].deployed_balance = @ + delta,
             ![m].manager_window = Metered(@, amount)]
    BY <1>0, <1>10 DEF LedgerMove, AssetApproved, AssetTypes
  <2>2. /\ DOMAIN vault_asset[m] = AssetFields
        /\ vault_asset[m].idle_balance \in Nat /\ vault_asset[m].deployed_balance \in Nat
    BY <1>0, <2>1 DEF AssetTypes
  <2>3. /\ DOMAIN vault_asset' = DOMAIN vault_asset
        /\ \A k \in DOMAIN vault_asset : k # m => vault_asset'[k] = vault_asset[k]
    BY <2>1
  <2>4. /\ DOMAIN vault_asset'[m] = AssetFields
        /\ vault_asset'[m].idle_balance = vault_asset[m].idle_balance - delta
        /\ vault_asset'[m].deployed_balance = vault_asset[m].deployed_balance + delta
    BY <2>1, <2>2 DEF AssetFields
  <2>5. vault_asset'[m].idle_balance \in Nat /\ vault_asset'[m].deployed_balance \in Nat
    BY <1>10, <2>2, <2>4
  <2>6. AssetTypes'
    BY <1>0, <2>3, <2>4, <2>5 DEF AssetTypes
  <2>7. LedgerBalanced'
    <3>1. vault_asset[m].deployed_balance = DeployedIn(m)
      BY <2>1 DEF LedgerKept, LedgerBalanced
    <3>2. vault_asset'[m].deployed_balance = DeployedIn(m)'
      BY <1>8, <2>4, <3>1
    <3> QED BY <1>7, <2>1, <2>3, <3>2 DEF LedgerKept, LedgerBalanced
  <2>8. ASSUME LedgerBacked
        PROVE  LedgerBacked'
    <3>1. vault_asset'[m].idle_balance <= reserve'[m]
      <4>1. vault_asset[m].idle_balance <= reserve[m]
        BY <2>1, <2>8 DEF LedgerBacked
      <4> QED BY <1>4, <2>2, <2>4, <4>1
    <3>2. \A k \in DOMAIN vault_asset' : vault_asset'[k].idle_balance <= reserve'[k]
      BY <1>0, <1>4, <2>3, <2>8, <3>1 DEF LedgerBacked, AssetTypes, Mints
    <3>3. \A p \in DOMAIN position' : position'[p] <= position_token'[p]
      <4>1. position[q] <= position_token[q]
        BY <2>8 DEF LedgerBacked
      <4>2. position'[q] <= position_token'[q]
        BY <1>1, <1>2, <4>1
      <4>3. ASSUME NEW p \in DOMAIN position', p # q
            PROVE  position'[p] <= position_token'[p]
        BY <1>0, <1>1, <1>2, <2>8, <4>3 DEF LedgerBacked, TokenTypes
      <4> QED BY <4>2, <4>3
    <3> QED BY <3>2, <3>3 DEF LedgerBacked
  <2> QED BY <1>5, <1>6, <2>6, <2>7, <2>8 DEF LedgerKept, LedgerTypes
<1> QED BY <1>9, <1>10

LEMMA MovesKeep ==
  ASSUME LedgerKept, NEW who, NEW amount \in Amounts, Moves(who, amount)
  PROVE  LedgerKept' /\ (LedgerBacked => LedgerBacked')
<1>0. /\ amount \in Nat /\ PositionTypes /\ TokenTypes /\ AssetTypes
      /\ AssetMint \notin Assets
  BY VenuesAssumption DEF LedgerKept, LedgerTypes
<1>1. ASSUME NEW e, NEW m, <<e, m>> \in DOMAIN position, AssetApproved(m)
      PROVE  /\ position[<<e, m>>] \in Nat /\ position_token[<<e, m>>] \in Nat
             /\ reserve[m] \in Nat
             /\ ~IsPrimaryAsset(m) => /\ m \in DOMAIN vault_asset
                                      /\ vault_asset[m].idle_balance \in Nat
                                      /\ vault_asset[m].deployed_balance \in Nat
  BY <1>0, <1>1
     DEF PositionTypes, TokenTypes, AssetTypes, Mints, AssetApproved, IsPrimaryAsset
<1>2. ASSUME NEW e, NEW m, DeployVenuePosition(who, e, m, amount)
      PROVE  LedgerKept' /\ (LedgerBacked => LedgerBacked')
  <2>1. /\ <<e, m>> \in DOMAIN position /\ AssetApproved(m)
        /\ ~IsPrimaryAsset(m) => vault_asset[m].idle_balance >= amount
        /\ reserve[m] >= amount
        /\ reserve' = [reserve EXCEPT ![m] = @ - amount]
        /\ position_token' = [position_token EXCEPT ![<<e, m>>] = @ + amount]
        /\ position' = [position EXCEPT ![<<e, m>>] = @ + amount]
        /\ LedgerMove(m, amount, amount)
    BY <1>2 DEF DeployVenuePosition, ManagerMove
  <2>2. /\ amount \in Int
        /\ position[<<e, m>>] >= -amount /\ position_token[<<e, m>>] >= -amount
        /\ ~IsPrimaryAsset(m) => vault_asset[m].deployed_balance >= -amount
    BY <1>0, <1>1, <2>1
  <2> QED BY <2>1, <2>2, MoveKeeps
<1>3. ASSUME NEW e, NEW m, PullVenuePosition(who, e, m, amount)
      PROVE  LedgerKept' /\ (LedgerBacked => LedgerBacked')
  <2> DEFINE delta == -amount
  <2>1. /\ <<e, m>> \in DOMAIN position /\ AssetApproved(m)
        /\ ~IsPrimaryAsset(m) => vault_asset[m].deployed_balance >= amount
        /\ position[<<e, m>>] >= amount /\ position_token[<<e, m>>] >= amount
        /\ reserve' = [reserve EXCEPT ![m] = @ + amount]
        /\ position_token' = [position_token EXCEPT ![<<e, m>>] = @ - amount]
        /\ position' = [position EXCEPT ![<<e, m>>] = @ - amount]
        /\ LedgerMove(m, amount, delta)
    BY <1>3 DEF PullVenuePosition, ManagerMove
  <2>2. /\ amount \in Int /\ delta \in Int
        /\ reserve[m] >= delta
        /\ position[<<e, m>>] >= -delta /\ position_token[<<e, m>>] >= -delta
        /\ ~IsPrimaryAsset(m) => /\ vault_asset[m].idle_balance >= delta
                                 /\ vault_asset[m].deployed_balance >= -delta
    BY <1>0, <1>1, <2>1
  <2>3. /\ reserve[m] + amount = reserve[m] - delta
        /\ position_token[<<e, m>>] - amount = position_token[<<e, m>>] + delta
        /\ position[<<e, m>>] - amount = position[<<e, m>>] + delta
    BY <1>0, <1>1, <2>1
  <2> HIDE DEF delta
  <2>4. /\ reserve' = [reserve EXCEPT ![m] = @ - delta]
        /\ position_token' = [position_token EXCEPT ![<<e, m>>] = @ + delta]
        /\ position' = [position EXCEPT ![<<e, m>>] = @ + delta]
    BY <2>1, <2>3
  <2> QED BY <2>1, <2>2, <2>4, MoveKeeps
<1>4. ASSUME NEW e, WithdrawAssets(who, e, amount)
      PROVE  LedgerKept' /\ (LedgerBacked => LedgerBacked')
  <2>1. /\ reserve[AssetMint] >= amount
        /\ reserve' = [reserve EXCEPT ![AssetMint] = @ - amount]
        /\ position' = position /\ vault_asset' = vault_asset
        /\ position_token' = position_token
    BY <1>4 DEF WithdrawAssets
  <2>2. /\ reserve' \in [Mints -> Nat]
        /\ \A k \in Mints : k # AssetMint => reserve'[k] = reserve[k]
    BY <1>0, <2>1 DEF TokenTypes, Mints
  <2>3. TokenTypes'
    BY <1>0, <2>1, <2>2 DEF TokenTypes
  <2>4. \A k \in DOMAIN vault_asset : reserve'[k] = reserve[k]
    BY <1>0, <2>2 DEF AssetTypes, Mints
  <2> QED BY <2>1, <2>3, <2>4, LedgerUntouched DEF LedgerBacked
<1> QED BY <1>2, <1>3, <1>4 DEF Moves

LEMMA ArrivalsKeep ==
  ASSUME LedgerKept, NEW amount \in Amounts, Arrivals(amount)
  PROVE  LedgerKept' /\ (LedgerBacked => LedgerBacked')
<1>0. /\ amount \in Nat /\ PositionTypes /\ TokenTypes /\ AssetTypes
  BY VenuesAssumption DEF LedgerKept, LedgerTypes
<1>1. ASSUME NEW m \in Mints, SendToReserve(m, amount)
      PROVE  LedgerKept' /\ (LedgerBacked => LedgerBacked')
  <2>1. /\ reserve' = [reserve EXCEPT ![m] = @ + amount]
        /\ position' = position /\ vault_asset' = vault_asset
        /\ position_token' = position_token
    BY <1>1 DEF SendToReserve
  <2>2. /\ reserve' \in [Mints -> Nat]
        /\ \A k \in Mints : reserve[k] \in Nat /\ reserve'[k] >= reserve[k]
    BY <1>0, <2>1 DEF TokenTypes
  <2>3. TokenTypes'
    BY <1>0, <2>1, <2>2 DEF TokenTypes
  <2>4. ASSUME LedgerBacked, NEW k \in DOMAIN vault_asset
        PROVE  vault_asset[k].idle_balance <= reserve'[k]
    <3>1. /\ k \in Mints /\ vault_asset[k].idle_balance \in Nat
          /\ vault_asset[k].idle_balance <= reserve[k]
      BY <1>0, <2>4 DEF AssetTypes, Mints, LedgerBacked
    <3>2. reserve[k] \in Nat /\ reserve'[k] \in Nat /\ reserve'[k] >= reserve[k]
      BY <2>2, <3>1
    <3> QED BY <3>1, <3>2
  <2> QED BY <2>1, <2>3, <2>4, LedgerUntouched DEF LedgerBacked
<1>2. ASSUME NEW m \in Assets, PreFund(m, amount)
      PROVE  LedgerKept' /\ (LedgerBacked => LedgerBacked')
  <2>1. /\ m \in DOMAIN vault_asset
        /\ reserve' = [reserve EXCEPT ![m] = @ + amount]
        /\ vault_asset' = [vault_asset EXCEPT ![m].idle_balance = @ + amount]
        /\ position' = position /\ position_token' = position_token
    BY <1>2 DEF PreFund
  <2>2. m \in Mints
    BY DEF Mints
  <2>3. /\ reserve' \in [Mints -> Nat] /\ reserve[m] \in Nat
        /\ reserve'[m] = reserve[m] + amount
        /\ \A k \in Mints : k # m => reserve'[k] = reserve[k]
    BY <1>0, <2>1, <2>2 DEF TokenTypes
  <2>4. /\ DOMAIN vault_asset[m] = AssetFields
        /\ vault_asset[m].idle_balance \in Nat /\ vault_asset[m].deployed_balance \in Nat
    BY <1>0, <2>1 DEF AssetTypes
  <2>5. /\ DOMAIN vault_asset' = DOMAIN vault_asset
        /\ \A k \in DOMAIN vault_asset : k # m => vault_asset'[k] = vault_asset[k]
        /\ DOMAIN vault_asset'[m] = AssetFields
        /\ vault_asset'[m].idle_balance = vault_asset[m].idle_balance + amount
        /\ vault_asset'[m].deployed_balance = vault_asset[m].deployed_balance
    BY <2>1, <2>4 DEF AssetFields
  <2>6. TokenTypes' /\ PositionTypes'
    BY <1>0, <2>1, <2>3 DEF TokenTypes, PositionTypes
  <2>7. AssetTypes'
    BY <1>0, <2>4, <2>5 DEF AssetTypes
  <2>8. \A k : DeployedIn(k)' = DeployedIn(k)
    BY <2>1, SameDeployed
  <2>9. LedgerBalanced'
    BY <2>5, <2>8 DEF LedgerKept, LedgerBalanced
  <2>10. ASSUME LedgerBacked, NEW k \in DOMAIN vault_asset'
         PROVE  vault_asset'[k].idle_balance <= reserve'[k]
    <3>1. k \in DOMAIN vault_asset /\ k \in Mints
      BY <1>0, <2>5 DEF AssetTypes, Mints
    <3>2. vault_asset[k].idle_balance <= reserve[k]
      BY <2>10, <3>1 DEF LedgerBacked
    <3>3. CASE k = m
      BY <1>0, <2>3, <2>4, <2>5, <3>2, <3>3
    <3>4. CASE k # m
      BY <2>3, <2>5, <3>1, <3>2, <3>4
    <3> QED BY <3>3, <3>4
  <2>11. LedgerBacked => LedgerBacked'
    BY <2>1, <2>10 DEF LedgerBacked
  <2> QED BY <2>6, <2>7, <2>9, <2>11 DEF LedgerKept, LedgerTypes
<1>3. ASSUME NEW q \in DOMAIN position, SendToPosition(q, amount)
      PROVE  LedgerKept' /\ (LedgerBacked => LedgerBacked')
  <2>1. /\ position_token' = [position_token EXCEPT ![q] = @ + amount]
        /\ position' = position /\ vault_asset' = vault_asset /\ reserve' = reserve
    BY <1>3 DEF SendToPosition
  <2>2. /\ DOMAIN position_token' = DOMAIN position_token
        /\ \A p \in DOMAIN position_token :
             /\ position_token[p] \in Nat /\ position_token'[p] \in Nat
             /\ position_token'[p] >= position_token[p]
    BY <1>0, <2>1 DEF TokenTypes
  <2>3. TokenTypes'
    BY <1>0, <2>1, <2>2 DEF TokenTypes
  <2>4. ASSUME LedgerBacked, NEW p \in DOMAIN position
        PROVE  position[p] <= position_token'[p]
    <3>1. position[p] \in Nat /\ position[p] <= position_token[p] /\ p \in DOMAIN position_token
      BY <1>0, <2>4 DEF PositionTypes, TokenTypes, LedgerBacked
    <3> QED BY <2>2, <3>1
  <2> QED BY <2>1, <2>3, <2>4, LedgerUntouched DEF LedgerBacked
<1> QED BY <1>1, <1>2, <1>3 DEF Arrivals

LEMMA VenuesStepKeeps ==
  ASSUME LedgerKept, VenuesNext \/ UNCHANGED venuesVars
  PROVE  LedgerKept' /\ (LedgerBacked => LedgerBacked')
<1>1. ASSUME vault_asset' = vault_asset, position' = position,
             position_token' = position_token, reserve' = reserve
      PROVE  LedgerKept' /\ (LedgerBacked => LedgerBacked')
  <2>1. TokenTypes'
    BY <1>1 DEF LedgerKept, LedgerTypes, TokenTypes
  <2> QED BY <1>1, <2>1, LedgerUntouched DEF LedgerBacked
<1>2. ASSUME NEW who \in Keys, Registry(who)
      PROVE  LedgerKept' /\ (LedgerBacked => LedgerBacked')
  <2>1. /\ vault_asset' = vault_asset /\ position' = position
        /\ position_token' = position_token /\ reserve' = reserve
    BY <1>2 DEF Registry, RegisterVenue, SetVenueEntryPaused
  <2> QED BY <1>1, <2>1
<1>3. ASSUME NEW who, NEW e, NEW recipient,
             ApproveVaultVenue(who, e, recipient) \/ RemoveVaultVenue(who, e)
      PROVE  LedgerKept' /\ (LedgerBacked => LedgerBacked')
  <2>1. /\ vault_asset' = vault_asset /\ position' = position
        /\ position_token' = position_token /\ reserve' = reserve
    BY <1>3 DEF ApproveVaultVenue, RemoveVaultVenue
  <2> QED BY <1>1, <2>1
<1>4. ASSUME NEW who \in Keys, Approvals(who)
      PROVE  LedgerKept' /\ (LedgerBacked => LedgerBacked')
  BY <1>3, <1>4, AddAssetKeeps, RemoveAssetKeeps, OpenKeeps, CloseKeeps DEF Approvals
<1>5. CASE UNCHANGED venueVars
  BY <1>1, <1>5 DEF venueVars
<1> QED BY <1>2, <1>4, <1>5, MovesKeep, ArrivalsKeep DEF VenuesNext, venuesVars

LEMMA LedgerInit ==
  ASSUME VenuesInit
  PROVE  LedgerKept /\ LedgerBacked
<1>1. /\ DOMAIN position = {} /\ DOMAIN position_token = {} /\ DOMAIN vault_asset = {}
      /\ reserve \in [Mints -> Nat]
  BY DEF VenuesInit
<1>2. LedgerTypes
  BY <1>1, FS_EmptySet DEF LedgerTypes, PositionTypes, TokenTypes, AssetTypes
<1>3. \A m : DeployedIn(m) = 0
  <2>1. \A m : {p \in DOMAIN position : p[2] = m} = {}
    BY <1>1
  <2>2. Units(position, {}) = {}
    BY DEF Units
  <2> QED BY <2>1, <2>2, FS_EmptySet DEF DeployedIn
<1> QED BY <1>1, <1>2, <1>3 DEF LedgerKept, LedgerBalanced, LedgerBacked

LEMMA StrategyStepKeeps ==
  ASSUME LedgerKept, [StrategyNext]_strategyVars
  PROVE  LedgerKept' /\ (LedgerBacked /\ called' = {} => LedgerBacked')
<1>1. ASSUME NEW who \in Keys, NEW s \in Keys, PolicyLife(who, s)
      PROVE  UNCHANGED venuesVars
  BY <1>1 DEF PolicyLife, InitializeStrategyPolicy, UpdateStrategyPolicy,
              QueueStrategyPolicyUpdate, PauseStrategyPolicy, CloseStrategyPolicy
<1>2. ASSUME NEW who \in Keys, NEW a \in PolicyAccounts, PolicyTimelock(who, a)
      PROVE  UNCHANGED venuesVars
  BY <1>2 DEF PolicyTimelock, ExecuteStrategyPolicyUpdate, CancelStrategyPolicyUpdate
<1>3. ASSUME NEW who, NEW e, NEW leaf, NEW amount \in Amounts,
             ManageVaultWithMerkleVerification(who, e, leaf, amount)
      PROVE  LedgerKept' /\ called' # {}
  <2>1. /\ position' = position /\ vault_asset' = vault_asset /\ TargetEffect(amount)
        /\ called' # {}
    BY <1>3 DEF ManageVaultWithMerkleVerification
  <2>2. amount \in Nat /\ TokenTypes
    BY VenuesAssumption DEF LedgerKept, LedgerTypes
  <2>3. TokenTypes'
    <3>1. CASE UNCHANGED <<reserve, position_token>>
      BY <2>1, <2>2, <3>1 DEF TokenTypes
    <3>2. ASSUME NEW m \in Mints, reserve[m] >= amount,
                 reserve' = [reserve EXCEPT ![m] = @ - amount],
                 position_token' = position_token
          PROVE  TokenTypes'
      <4>1. reserve' \in [Mints -> Nat]
        BY <2>2, <3>2 DEF TokenTypes
      <4> QED BY <2>1, <2>2, <3>2, <4>1 DEF TokenTypes
    <3>3. ASSUME NEW p \in DOMAIN position_token, position_token[p] >= amount,
                 position_token' = [position_token EXCEPT ![p] = @ - amount],
                 reserve' = reserve
          PROVE  TokenTypes'
      BY <2>1, <2>2, <3>3 DEF TokenTypes
    <3> QED BY <2>1, <3>1, <3>2, <3>3 DEF TargetEffect
  <2> QED BY <2>1, <2>3, LedgerUntouched
<1> QED BY <1>1, <1>2, <1>3, VenuesStepKeeps DEF StrategyNext, strategyVars

\* The deployed balance of a secondary asset is what its positions hold, and an
\* asset whose approval was removed has nothing deployed, so that whatever the
\* books say was deployed can be pulled; managed calls do not touch the books.
THEOREM LedgerStaysBalanced == StrategySpec => []LedgerBalanced
<1>1. StrategyInit => LedgerKept
  BY LedgerInit DEF StrategyInit
<1>2. LedgerKept /\ [StrategyNext]_strategyVars => LedgerKept'
  BY StrategyStepKeeps
<1>3. LedgerKept => LedgerBalanced
  BY DEF LedgerKept
<1> QED BY <1>1, <1>2, <1>3, PTL DEF StrategySpec

\* No step of any instruction unbalances the books, and none but a managed call
\* takes from an idle balance or a position the tokens behind it.
THEOREM LedgerIsKept == StrategySpec => LedgerHolds
<1>1. StrategyInit => LedgerKept
  BY LedgerInit DEF StrategyInit
<1>2. LedgerKept /\ [StrategyNext]_strategyVars => LedgerKept' /\ [KeepsLedger]_strategyVars
  BY StrategyStepKeeps DEF KeepsLedger, LedgerKept
<1> QED BY <1>1, <1>2, PTL DEF StrategySpec, LedgerHolds

\* Without managed calls the token accounts hold at least what the books say:
\* deploying, pulling, closing and withdrawing never leave a position or an idle
\* balance without its tokens.
THEOREM LedgerStaysBacked == VenuesSpec => []LedgerBacked
<1>1. VenuesInit => LedgerKept /\ LedgerBacked
  BY LedgerInit
<1>2. LedgerKept /\ LedgerBacked /\ [VenuesNext]_venuesVars => LedgerKept' /\ LedgerBacked'
  BY VenuesStepKeeps
<1> QED BY <1>1, <1>2, PTL DEF VenuesSpec

-----------------------------------------------------------------------------
(* Calls need a standing approval *)

PolicyFields == {"merkle_root", "version", "paused"}

\* What consume_rolling_limit adds to is an amount.
IsWindow(w) == DOMAIN w = {"start", "amount"} /\ w.amount \in Nat

ManagerWindowStands == IsWindow(manager_window)

\* A window holds what it just consumed and is within the limit it was checked against.
LEMMA ConsumedWithinLimit ==
  ASSUME NEW w, IsWindow(w), NEW amount \in Nat, NEW at, NEW limit, NEW window_slots
  PROVE  LET after == ConsumeRollingLimit(w, amount, at, limit, window_slots) IN
         /\ IsWindow(after)
         /\ limit # 0 => amount <= after.amount
         /\ limit # 0 /\ RollingLimitAllows(w, amount, at, limit, window_slots)
              => after.amount <= limit
<1> DEFINE current == CurrentWindow(w, at, window_slots)
<1>1. DOMAIN current = {"start", "amount"} /\ current.amount \in Nat
  BY DEF CurrentWindow, IsWindow
<1>2. RollingLimitAllows(w, amount, at, limit, window_slots) /\ limit # 0
        => current.amount + amount <= limit
  BY DEF RollingLimitAllows
<1>3. ConsumeRollingLimit(w, amount, at, limit, window_slots)
        = IF limit = 0 THEN w ELSE [current EXCEPT !.amount = current.amount + amount]
  BY DEF ConsumeRollingLimit
<1> HIDE DEF current
<1> QED BY <1>1, <1>2, <1>3 DEF IsWindow

\* Besides managed calls only moves of the primary asset use the window.
LEMMA WindowKept ==
  ASSUME ManagerWindowStands, VenuesNext
  PROVE  ManagerWindowStands'
<1>1. ASSUME NEW who, Registry(who) \/ Approvals(who)
      PROVE  manager_window' = manager_window
  BY <1>1 DEF Registry, RegisterVenue, SetVenueEntryPaused, Approvals, ApproveVaultVenue,
              RemoveVaultVenue, AddVaultAsset, RemoveVaultAsset, CreateVenuePosition,
              RemoveVenuePosition
<1>2. ASSUME NEW who, NEW amount \in Amounts, Moves(who, amount)
      PROVE  ManagerWindowStands'
  <2>1. manager_window' \in {manager_window, Metered(manager_window, amount)}
    BY <1>2 DEF Moves, DeployVenuePosition, PullVenuePosition, LedgerMove, WithdrawAssets
  <2>2. IsWindow(Metered(manager_window, amount))
    BY VenuesAssumption, ConsumedWithinLimit DEF Metered, ManagerWindowStands
  <2> QED BY <2>1, <2>2 DEF ManagerWindowStands
<1>3. ASSUME NEW amount, Arrivals(amount)
      PROVE  manager_window' = manager_window
  BY <1>3 DEF Arrivals, SendToReserve, PreFund, SendToPosition
<1>4. UNCHANGED venueVars => manager_window' = manager_window
  BY DEF venueVars
<1> QED BY <1>1, <1>2, <1>3, <1>4 DEF VenuesNext, ManagerWindowStands

\* A policy that runs commits to exactly what stands approved for its strategist, and
\* the manager's window holds an amount.
PoliciesStand ==
  /\ ManagerWindowStands
  /\ DOMAIN standing = Keys
  /\ \A s \in DOMAIN policy :
       /\ s \in Keys /\ DOMAIN policy[s] = PolicyFields
       /\ ~policy[s].paused => policy[s].merkle_root = standing[s]

LEMMA PolicyLifeStands ==
  ASSUME PoliciesStand, NEW who \in Keys, NEW s \in Keys, PolicyLife(who, s)
  PROVE  PoliciesStand' /\ called' = {}
<1>0. ManagerWindowStands'
  BY DEF PoliciesStand, ManagerWindowStands, IsWindow, PolicyLife, InitializeStrategyPolicy,
         UpdateStrategyPolicy, QueueStrategyPolicyUpdate, PauseStrategyPolicy,
         CloseStrategyPolicy, venuesVars, venueVars
<1>1. ASSUME InitializeStrategyPolicy(who, s)
      PROVE  PoliciesStand' /\ called' = {}
  BY <1>1, <1>0 DEF InitializeStrategyPolicy, PoliciesStand, With, PolicyFields
<1>2. ASSUME NEW args, UpdateStrategyPolicy(who, s, args)
      PROVE  PoliciesStand' /\ called' = {}
  BY <1>2, <1>0 DEF UpdateStrategyPolicy, ApplyPolicyUpdate, PoliciesStand, PolicyFields
<1>3. ASSUME NEW args, NEW a, QueueStrategyPolicyUpdate(who, a, s, args)
      PROVE  PoliciesStand' /\ called' = {}
  BY <1>3, <1>0 DEF QueueStrategyPolicyUpdate, PoliciesStand
<1>4. ASSUME PauseStrategyPolicy(who, s)
      PROVE  PoliciesStand' /\ called' = {}
  <2>1. /\ policy' = [policy EXCEPT ![s] = [policy[s] EXCEPT !.paused = TRUE,
                                                             !.version = policy[s].version + 1]]
        /\ standing' = [standing EXCEPT ![s] = {}] /\ called' = {}
    BY <1>4 DEF PauseStrategyPolicy
  <2> QED BY <2>1, <1>0 DEF PoliciesStand, PolicyFields
<1>5. ASSUME CloseStrategyPolicy(who, s)
      PROVE  PoliciesStand' /\ called' = {}
  BY <1>5, <1>0 DEF CloseStrategyPolicy, PoliciesStand, Without
<1> QED BY <1>1, <1>2, <1>3, <1>4, <1>5 DEF PolicyLife

LEMMA PolicyTimelockStands ==
  ASSUME PoliciesStand, NEW who \in Keys, NEW a, PolicyTimelock(who, a)
  PROVE  PoliciesStand' /\ called' = {}
<1>0. ManagerWindowStands'
  BY DEF PoliciesStand, ManagerWindowStands, IsWindow, PolicyTimelock,
         ExecuteStrategyPolicyUpdate, CancelStrategyPolicyUpdate, venuesVars, venueVars
<1>1. ASSUME ExecuteStrategyPolicyUpdate(a)
      PROVE  PoliciesStand' /\ called' = {}
  BY <1>1, <1>0 DEF ExecuteStrategyPolicyUpdate, ApplyPolicyUpdate, PoliciesStand, PolicyFields
<1>2. ASSUME CancelStrategyPolicyUpdate(who, a)
      PROVE  PoliciesStand' /\ called' = {}
  BY <1>2, <1>0 DEF CancelStrategyPolicyUpdate, PoliciesStand
<1> QED BY <1>1, <1>2 DEF PolicyTimelock

LEMMA ManagedCallStands ==
  ASSUME PoliciesStand, NEW who, NEW e, NEW leaf, NEW amount \in Amounts,
         ManageVaultWithMerkleVerification(who, e, leaf, amount)
  PROVE  PoliciesStand' /\ CallsNeedStandingApproval'
<1> DEFINE call == [entry |-> e, leaf |-> leaf, amount |-> amount]
<1>1. /\ policy' = policy /\ standing' = standing /\ vault' = vault
      /\ venue_entry' = venue_entry /\ vault_venue' = vault_venue /\ called' = {call}
  BY DEF ManageVaultWithMerkleVerification, governanceVars, vaultVars
<1>2. /\ who \in DOMAIN policy /\ ~policy[who].paused /\ leaf.strategist = who
      /\ leaf \in policy[who].merkle_root
      /\ ~vault.paused
  BY DEF ManageVaultWithMerkleVerification, PolicyActive, UnpausedAndInitialized
<1>3. leaf \in standing[leaf.strategist]
  BY <1>2 DEF PoliciesStand
<1>4. VenueStands(call)
  BY DEF ManageVaultWithMerkleVerification, VenueActive, VenueStands
<1>5. RoleStands(call)
  BY DEF ManageVaultWithMerkleVerification, ManagerAuthorized, RoleStands
<1>6. ManagerWindowStands' /\ Counted(call)'
  <2>1. amount \in Nat /\ IsWindow(manager_window)
    BY VenuesAssumption DEF PoliciesStand, ManagerWindowStands
  <2>2. CASE leaf.metered
    <3>1. /\ manager_window' = Metered(manager_window, amount)
          /\ RollingLimitAllows(manager_window, amount, slot, vault.manager_rolling_limit,
                                vault.rolling_limit_window_slots)
      BY <2>2 DEF ManageVaultWithMerkleVerification
    <3> QED
      BY <1>1, <2>1, <2>2, <3>1, ConsumedWithinLimit
         DEF Metered, ManagerWindowStands, Counted
  <2>3. CASE ~leaf.metered
    BY <2>1, <2>3 DEF ManageVaultWithMerkleVerification, ManagerWindowStands, Counted
  <2> QED BY <2>2, <2>3
<1> HIDE DEF call
<1>7. VenueStands(call)' /\ RoleStands(call)'
  BY <1>1, <1>4, <1>5 DEF VenueStands, RoleStands
<1>8. call.leaf = leaf
  BY DEF call
<1> QED
  BY <1>1, <1>2, <1>3, <1>6, <1>7, <1>8 DEF PoliciesStand, CallsNeedStandingApproval

\* Nothing the vault signs for a strategist was stopped before: a call is in the
\* root approved last, since the last pause or closing of the policy, through a venue
\* its registry and the curator let be used at that moment, by a strategist who is
\* then a manager for it, and within the limit if it is metered, whatever queued
\* updates, removals and hand-overs of roles came in between.
THEOREM CallsAreApproved == StrategySpec => []CallsNeedStandingApproval
<1>1. StrategyInit => PoliciesStand /\ CallsNeedStandingApproval
  BY DEF StrategyInit, VenuesInit, NoWindow, PoliciesStand, ManagerWindowStands, IsWindow,
         CallsNeedStandingApproval
<1>2. PoliciesStand /\ CallsNeedStandingApproval /\ [StrategyNext]_strategyVars
        => PoliciesStand' /\ CallsNeedStandingApproval'
  <2> SUFFICES ASSUME PoliciesStand, CallsNeedStandingApproval, [StrategyNext]_strategyVars
               PROVE  PoliciesStand' /\ CallsNeedStandingApproval'
    OBVIOUS
  <2>1. called' = {} => CallsNeedStandingApproval'
    BY DEF CallsNeedStandingApproval
  <2>2. ASSUME VenuesNext, called' = {},
               UNCHANGED <<policy, pending_policy, orphaned, outdated, standing,
                           policy_notice>>
        PROVE  PoliciesStand' /\ CallsNeedStandingApproval'
    BY <2>1, <2>2, WindowKept DEF PoliciesStand
  <2>3. CASE UNCHANGED strategyVars
    BY <2>3 DEF PoliciesStand, ManagerWindowStands, CallsNeedStandingApproval, VenueStands,
                RoleStands, Counted, strategyVars, policyVars, venuesVars, venueVars,
                governanceVars, vaultVars
  <2> QED
    BY <2>1, <2>2, <2>3, PolicyLifeStands, PolicyTimelockStands, ManagedCallStands
       DEF StrategyNext
<1> QED BY <1>1, <1>2, PTL DEF StrategySpec

-----------------------------------------------------------------------------
(* Queued updates: none is late, none is early *)

\* What is known of the update waiting in account a.
Waiting(a) ==
  LET p == pending_policy[a] IN
  /\ p.expected_version \in Nat
  /\ a \in DOMAIN policy_notice /\ p.eta_slot = p.created_slot + policy_notice[a]
  /\ a \notin orphaned =>
       p.strategist \in DOMAIN policy /\ p.expected_version <= policy[p.strategist].version
  /\ a \in outdated =>
       a \notin orphaned /\ p.expected_version < policy[p.strategist].version

\* Policies have versions; no pending update whose policy was not closed expects a
\* version that is still to come, and one that something overtook expects an
\* earlier one.
UpdatesInOrder ==
  /\ \A s \in DOMAIN policy : DOMAIN policy[s] = PolicyFields /\ policy[s].version \in Nat
  /\ outdated \subseteq DOMAIN pending_policy
  /\ \A a \in DOMAIN pending_policy : Waiting(a)

LEMMA OvertakenStaysInOrder ==
  ASSUME UpdatesInOrder, NEW s \in DOMAIN policy, NEW gone,
         DOMAIN policy' = DOMAIN policy,
         DOMAIN policy'[s] = PolicyFields, policy'[s].version = policy[s].version + 1,
         \A t \in DOMAIN policy : t # s => policy'[t] = policy[t],
         DOMAIN pending_policy' = DOMAIN pending_policy \ gone,
         \A a \in DOMAIN pending_policy' : pending_policy'[a] = pending_policy[a],
         orphaned' = orphaned \ gone, policy_notice' = policy_notice,
         outdated' = (outdated \cup (PendingFor(s) \ orphaned)) \ gone
  PROVE  UpdatesInOrder'
<1>1. \A t \in DOMAIN policy : DOMAIN policy'[t] = PolicyFields /\ policy'[t].version \in Nat
  BY DEF UpdatesInOrder
<1>2. outdated' \subseteq DOMAIN pending_policy'
  BY DEF UpdatesInOrder, PendingFor
<1>3. ASSUME NEW a \in DOMAIN pending_policy'
      PROVE  Waiting(a)'
  <2> DEFINE p == pending_policy[a]
  <2>1. a \in DOMAIN pending_policy /\ pending_policy'[a] = p /\ Waiting(a) /\ a \notin gone
    BY DEF UpdatesInOrder
  <2>2. /\ p.expected_version \in Nat /\ p.eta_slot = p.created_slot + policy_notice[a]
        /\ a \in DOMAIN policy_notice
        /\ a \notin orphaned => p.strategist \in DOMAIN policy
                                  /\ p.expected_version <= policy[p.strategist].version
        /\ a \in outdated => a \notin orphaned
                               /\ p.expected_version < policy[p.strategist].version
    BY <2>1 DEF Waiting
  <2>3. /\ a \in orphaned' <=> a \in orphaned
        /\ a \in outdated' <=> a \in outdated \/ (p.strategist = s /\ a \notin orphaned)
    BY <2>1 DEF PendingFor
  <2> HIDE DEF p
  <2>4. ASSUME a \notin orphaned
        PROVE  /\ policy[p.strategist].version \in Nat
               /\ p.strategist = s => policy'[p.strategist].version
                                        = policy[p.strategist].version + 1
               /\ p.strategist # s => policy'[p.strategist].version
                                        = policy[p.strategist].version
    BY <2>2, <2>4 DEF UpdatesInOrder
  <2>5. /\ a \notin orphaned' => p.strategist \in DOMAIN policy'
                                   /\ p.expected_version <= policy'[p.strategist].version
        /\ a \in outdated' => a \notin orphaned'
                                /\ p.expected_version < policy'[p.strategist].version
    BY <2>2, <2>3, <2>4
  <2> QED BY <2>1, <2>2, <2>5 DEF Waiting
<1> QED BY <1>1, <1>2, <1>3 DEF UpdatesInOrder

LEMMA QueueingKeepsOrder ==
  ASSUME UpdatesInOrder, NEW who, NEW a, NEW s, NEW args,
         QueueStrategyPolicyUpdate(who, a, s, args)
  PROVE  UpdatesInOrder'
<1> DEFINE p == [strategist |-> s, queued_by |-> who, created_slot |-> slot,
                 eta_slot |-> slot + vault.timelock_delay_slots,
                 expected_version |-> policy[s].version, args |-> args]
           delay == vault.timelock_delay_slots
<1>1. /\ a \notin DOMAIN pending_policy /\ s \in DOMAIN policy
      /\ pending_policy' = With(pending_policy, a, p)
      /\ policy_notice' = With(policy_notice, a, delay)
      /\ policy' = policy /\ orphaned' = orphaned /\ outdated' = outdated
  BY DEF QueueStrategyPolicyUpdate
<1>2. /\ p.eta_slot = p.created_slot + delay /\ p.strategist = s
      /\ p.expected_version = policy[s].version
  OBVIOUS
<1> HIDE DEF p, delay
<1>3. /\ DOMAIN pending_policy' = DOMAIN pending_policy \cup {a}
      /\ pending_policy'[a] = p
      /\ a \in DOMAIN policy_notice' /\ policy_notice'[a] = delay
  BY <1>1 DEF With
<1>4. \A b \in DOMAIN pending_policy :
        pending_policy'[b] = pending_policy[b]
  BY <1>1 DEF With
<1>5. ASSUME NEW b \in DOMAIN pending_policy PROVE Waiting(b)'
  <2>1. b \in DOMAIN policy_notice' /\ policy_notice'[b] = policy_notice[b]
    BY <1>1, <1>5 DEF With, UpdatesInOrder, Waiting
  <2> QED BY <1>1, <1>4, <2>1 DEF UpdatesInOrder, Waiting
<1>6. Waiting(a)'
  <2>1. policy[s].version \in Nat /\ policy[s].version <= policy[s].version
    BY <1>1 DEF UpdatesInOrder
  <2>2. a \notin outdated
    BY <1>1 DEF UpdatesInOrder
  <2> QED BY <1>1, <1>2, <1>3, <2>1, <2>2 DEF Waiting
<1> QED BY <1>1, <1>3, <1>5, <1>6 DEF UpdatesInOrder

LEMMA ClosingKeepsOrder ==
  ASSUME UpdatesInOrder, NEW who, NEW s, CloseStrategyPolicy(who, s)
  PROVE  UpdatesInOrder'
<1>1. /\ policy' = Without(policy, s) /\ pending_policy' = pending_policy
      /\ policy_notice' = policy_notice
      /\ outdated' = outdated \ PendingFor(s) /\ orphaned' = orphaned \cup PendingFor(s)
  BY DEF CloseStrategyPolicy
<1>2. /\ DOMAIN policy' = DOMAIN policy \ {s}
      /\ \A t \in DOMAIN policy' : policy'[t] = policy[t]
  BY <1>1, WithoutFacts
<1>3. ASSUME NEW a \in DOMAIN pending_policy PROVE Waiting(a)'
  <2>1. Waiting(a)
    BY DEF UpdatesInOrder
  <2>2. a \notin orphaned' => a \notin orphaned /\ pending_policy[a].strategist # s
    BY <1>1 DEF PendingFor
  <2>3. a \in outdated' => a \in outdated /\ a \notin PendingFor(s)
    BY <1>1
  <2> QED BY <1>1, <1>2, <2>1, <2>2, <2>3 DEF Waiting
<1>4. \A t \in DOMAIN policy' : DOMAIN policy'[t] = PolicyFields /\ policy'[t].version \in Nat
  BY <1>2 DEF UpdatesInOrder
<1> QED BY <1>1, <1>3, <1>4 DEF UpdatesInOrder

LEMMA OpeningKeepsOrder ==
  ASSUME UpdatesInOrder, NEW who, NEW s, InitializeStrategyPolicy(who, s)
  PROVE  UpdatesInOrder'
<1> DEFINE new == [merkle_root |-> {}, version |-> 0, paused |-> TRUE]
<1>1. /\ s \notin DOMAIN policy /\ policy' = With(policy, s, new)
      /\ UNCHANGED <<pending_policy, orphaned, outdated, policy_notice>>
  BY DEF InitializeStrategyPolicy
<1>2. DOMAIN new = PolicyFields /\ new.version \in Nat
  BY DEF PolicyFields
<1> HIDE DEF new
<1>3. /\ DOMAIN policy' = DOMAIN policy \cup {s} /\ policy'[s] = new
      /\ \A t \in DOMAIN policy : policy'[t] = policy[t]
  BY <1>1 DEF With
<1> QED BY <1>1, <1>2, <1>3 DEF UpdatesInOrder, Waiting

LEMMA ChangesKeepOrder ==
  ASSUME UpdatesInOrder, NEW who, NEW s
  PROVE  /\ \A args : UpdateStrategyPolicy(who, s, args) => UpdatesInOrder'
         /\ PauseStrategyPolicy(who, s) => UpdatesInOrder'
<1>1. ASSUME NEW args, UpdateStrategyPolicy(who, s, args)
      PROVE  UpdatesInOrder'
  <2>1. /\ s \in DOMAIN policy
        /\ policy' = [policy EXCEPT ![s] = [merkle_root |-> args.merkle_root,
                        paused |-> args.paused, version |-> policy[s].version + 1]]
        /\ outdated' = (outdated \cup (PendingFor(s) \ orphaned)) \ {}
        /\ UNCHANGED <<pending_policy, policy_notice>> /\ orphaned' = orphaned \ {}
    BY <1>1 DEF UpdateStrategyPolicy, ApplyPolicyUpdate
  <2>2. /\ DOMAIN policy' = DOMAIN policy /\ policy'[s].version = policy[s].version + 1
        /\ DOMAIN policy'[s] = PolicyFields
        /\ \A t \in DOMAIN policy : t # s => policy'[t] = policy[t]
    BY <2>1 DEF PolicyFields
  <2>3. /\ DOMAIN pending_policy' = DOMAIN pending_policy \ {}
        /\ \A a \in DOMAIN pending_policy' : pending_policy'[a] = pending_policy[a]
    BY <2>1
  <2> QED BY <2>1, <2>2, <2>3, OvertakenStaysInOrder
<1>2. ASSUME PauseStrategyPolicy(who, s)
      PROVE  UpdatesInOrder'
  <2>1. /\ s \in DOMAIN policy
        /\ policy' = [policy EXCEPT ![s] = [policy[s] EXCEPT !.paused = TRUE,
                                                             !.version = policy[s].version + 1]]
        /\ outdated' = (outdated \cup (PendingFor(s) \ orphaned)) \ {}
        /\ UNCHANGED <<pending_policy, policy_notice>> /\ orphaned' = orphaned \ {}
    BY <1>2 DEF PauseStrategyPolicy
  <2>2. /\ DOMAIN policy' = DOMAIN policy /\ policy'[s].version = policy[s].version + 1
        /\ DOMAIN policy'[s] = PolicyFields
        /\ \A t \in DOMAIN policy : t # s => policy'[t] = policy[t]
    BY <2>1 DEF UpdatesInOrder, PolicyFields
  <2>3. /\ DOMAIN pending_policy' = DOMAIN pending_policy \ {}
        /\ \A a \in DOMAIN pending_policy' : pending_policy'[a] = pending_policy[a]
    BY <2>1
  <2> QED BY <2>1, <2>2, <2>3, OvertakenStaysInOrder
<1> QED BY <1>1, <1>2

LEMMA ExecutingKeepsOrder ==
  ASSUME UpdatesInOrder, NEW a, ExecuteStrategyPolicyUpdate(a)
  PROVE  UpdatesInOrder'
<1> DEFINE s == pending_policy[a].strategist
           args == pending_policy[a].args
<1>1. /\ s \in DOMAIN policy
      /\ policy' = [policy EXCEPT ![s] = [merkle_root |-> args.merkle_root,
                      paused |-> args.paused, version |-> policy[s].version + 1]]
      /\ outdated' = (outdated \cup (PendingFor(s) \ orphaned)) \ {a}
      /\ pending_policy' = Without(pending_policy, a)
      /\ policy_notice' = policy_notice /\ orphaned' = orphaned \ {a}
  BY DEF ExecuteStrategyPolicyUpdate, ApplyPolicyUpdate, ClosePending
<1> HIDE DEF s, args
<1>2. /\ DOMAIN policy' = DOMAIN policy /\ policy'[s].version = policy[s].version + 1
      /\ DOMAIN policy'[s] = PolicyFields
      /\ \A t \in DOMAIN policy : t # s => policy'[t] = policy[t]
  BY <1>1 DEF PolicyFields
<1>3. /\ DOMAIN pending_policy' = DOMAIN pending_policy \ {a}
      /\ \A b \in DOMAIN pending_policy' : pending_policy'[b] = pending_policy[b]
  BY <1>1, WithoutFacts
<1> QED BY <1>1, <1>2, <1>3, OvertakenStaysInOrder

LEMMA CancelingKeepsOrder ==
  ASSUME UpdatesInOrder, NEW who, NEW a, CancelStrategyPolicyUpdate(who, a)
  PROVE  UpdatesInOrder'
<1>1. /\ pending_policy' = Without(pending_policy, a) /\ policy' = policy
      /\ policy_notice' = policy_notice
      /\ orphaned' = orphaned \ {a} /\ outdated' = outdated \ {a}
  BY DEF CancelStrategyPolicyUpdate, ClosePending
<1>2. /\ DOMAIN pending_policy' = DOMAIN pending_policy \ {a}
      /\ \A b \in DOMAIN pending_policy' : pending_policy'[b] = pending_policy[b]
  BY <1>1, WithoutFacts
<1> QED BY <1>1, <1>2 DEF UpdatesInOrder, Waiting

LEMMA OrderKept ==
  ASSUME UpdatesInOrder, [StrategyNext]_strategyVars
  PROVE  UpdatesInOrder'
<1>1. ASSUME NEW who \in Keys, NEW s \in Keys, PolicyLife(who, s)
      PROVE  UpdatesInOrder'
  BY <1>1, QueueingKeepsOrder, ClosingKeepsOrder, OpeningKeepsOrder, ChangesKeepOrder
     DEF PolicyLife
<1>2. ASSUME NEW who \in Keys, NEW a \in PolicyAccounts, PolicyTimelock(who, a)
      PROVE  UpdatesInOrder'
  BY <1>2, ExecutingKeepsOrder, CancelingKeepsOrder DEF PolicyTimelock
<1>3. UNCHANGED <<policy, pending_policy, orphaned, outdated, policy_notice>> => UpdatesInOrder'
  BY DEF UpdatesInOrder, Waiting
<1>4. ASSUME NEW who, NEW e, NEW leaf, NEW amount,
             ManageVaultWithMerkleVerification(who, e, leaf, amount)
      PROVE  UpdatesInOrder'
  BY <1>3, <1>4 DEF ManageVaultWithMerkleVerification
<1>5. CASE UNCHANGED strategyVars
  BY <1>3, <1>5 DEF strategyVars, policyVars
<1> QED BY <1>1, <1>2, <1>3, <1>4, <1>5 DEF StrategyNext

LEMMA InOrderAtFirst ==
  ASSUME StrategyInit
  PROVE  UpdatesInOrder
  BY DEF StrategyInit, UpdatesInOrder

\* An update that something overtook is refused: it still waits, or was canceled,
\* after every step that changes a policy (expected_version), unless the policy
\* was closed, which is the case that a test of the program does not cover.
THEOREM StaleUpdatesAreRefused == StrategySpec => StaleUpdatesRefused
<1>1. UpdatesInOrder /\ [StrategyNext]_strategyVars => [RefusesStale]_strategyVars
  <2> SUFFICES ASSUME UpdatesInOrder, StrategyNext, NEW a \in outdated,
                      a \notin DOMAIN pending_policy'
               PROVE  policy' = policy
    BY DEF RefusesStale
  <2>1. a \in DOMAIN pending_policy
    BY DEF UpdatesInOrder
  <2>2. ASSUME NEW who, NEW s, PolicyLife(who, s)
        PROVE  FALSE
    <3>1. DOMAIN pending_policy \subseteq DOMAIN pending_policy'
      BY <2>2 DEF PolicyLife, InitializeStrategyPolicy, UpdateStrategyPolicy,
                  QueueStrategyPolicyUpdate, PauseStrategyPolicy, CloseStrategyPolicy, With
    <3> QED BY <2>1, <3>1
  <2>3. ASSUME NEW who, NEW b, PolicyTimelock(who, b)
        PROVE  policy' = policy
    <3>1. ASSUME ExecuteStrategyPolicyUpdate(b)
          PROVE  FALSE
      <4>1. /\ DOMAIN pending_policy' = DOMAIN pending_policy \ {b}
            /\ policy[pending_policy[b].strategist].version
                 = pending_policy[b].expected_version
        BY <3>1 DEF ExecuteStrategyPolicyUpdate, ClosePending, Without
      <4>2. a = b
        BY <2>1, <4>1
      <4>3. /\ pending_policy[a].expected_version
                 < policy[pending_policy[a].strategist].version
            /\ pending_policy[a].expected_version \in Nat
        BY <2>1 DEF UpdatesInOrder, Waiting
      <4> QED BY <4>1, <4>2, <4>3
    <3>2. ASSUME CancelStrategyPolicyUpdate(who, b)
          PROVE  policy' = policy
      BY <3>2 DEF CancelStrategyPolicyUpdate
    <3> QED BY <2>3, <3>1, <3>2 DEF PolicyTimelock
  <2>4. ASSUME NEW who, NEW e, NEW leaf, NEW amount,
               ManageVaultWithMerkleVerification(who, e, leaf, amount)
        PROVE  policy' = policy
    BY <2>4 DEF ManageVaultWithMerkleVerification
  <2> QED BY <2>2, <2>3, <2>4 DEF StrategyNext
<1> QED BY <1>1, InOrderAtFirst, OrderKept, PTL DEF StrategySpec, StaleUpdatesRefused

\* With a timelock a policy is not loosened unannounced: a new root, or a policy
\* set running again, is an update whose delay, the one in force when it was
\* queued, has passed, whatever happened to the delay and the roles meanwhile.
THEOREM PolicyNoticeIsGiven == StrategySpec => PolicyNoticeGiven
<1>1. UpdatesInOrder /\ [StrategyNext]_strategyVars => [GivesPolicyNotice]_strategyVars
  <2> SUFFICES ASSUME UpdatesInOrder, StrategyNext, vault.timelock_delay_slots > 0,
                      NEW s \in DOMAIN policy \cap DOMAIN policy'
               PROVE  \/ policy'[s].merkle_root = policy[s].merkle_root
                           /\ (policy'[s].paused \/ ~policy[s].paused)
                      \/ \E a \in DOMAIN pending_policy \ DOMAIN pending_policy' :
                           slot >= pending_policy[a].created_slot + policy_notice[a]
    BY DEF GivesPolicyNotice
  <2>0. policy'[s] = policy[s] => policy'[s].merkle_root = policy[s].merkle_root
                                    /\ (policy'[s].paused \/ ~policy[s].paused)
    OBVIOUS
  <2>1. ASSUME NEW who, NEW t, InitializeStrategyPolicy(who, t) \/ CloseStrategyPolicy(who, t)
        PROVE  policy'[s] = policy[s]
    BY <2>1 DEF InitializeStrategyPolicy, CloseStrategyPolicy, With, Without
  <2>2. ASSUME NEW who, NEW t, NEW args, UpdateStrategyPolicy(who, t, args)
        PROVE  FALSE
    BY <2>2 DEF UpdateStrategyPolicy, CuratorUntimed
  <2>3. ASSUME NEW who, NEW t, NEW a, NEW args, QueueStrategyPolicyUpdate(who, a, t, args)
        PROVE  policy'[s] = policy[s]
    BY <2>3 DEF QueueStrategyPolicyUpdate
  <2>4. ASSUME NEW who, NEW t, PauseStrategyPolicy(who, t)
        PROVE  policy'[s].merkle_root = policy[s].merkle_root
                 /\ (policy'[s].paused \/ ~policy[s].paused)
    <3>1. policy' = [policy EXCEPT ![t] = [policy[t] EXCEPT !.paused = TRUE,
                                                            !.version = policy[t].version + 1]]
      BY <2>4 DEF PauseStrategyPolicy
    <3>2. CASE s = t
      <4>1. policy'[s] = [policy[s] EXCEPT !.paused = TRUE, !.version = policy[s].version + 1]
        BY <3>1, <3>2
      <4>2. policy'[s].merkle_root = policy[s].merkle_root
        BY <4>1 DEF UpdatesInOrder, PolicyFields
      <4>3. policy'[s].paused = TRUE
        BY <4>1 DEF UpdatesInOrder, PolicyFields
      <4> QED BY <4>2, <4>3
    <3>3. CASE s # t
      BY <2>0, <3>1, <3>3
    <3> QED BY <3>2, <3>3
  <2>5. ASSUME NEW a, ExecuteStrategyPolicyUpdate(a)
        PROVE  \E b \in DOMAIN pending_policy \ DOMAIN pending_policy' :
                 slot >= pending_policy[b].created_slot + policy_notice[b]
    <3>1. /\ a \in DOMAIN pending_policy \ DOMAIN pending_policy'
          /\ slot >= pending_policy[a].eta_slot
      BY <2>5 DEF ExecuteStrategyPolicyUpdate, ClosePending, Without
    <3>2. pending_policy[a].eta_slot = pending_policy[a].created_slot + policy_notice[a]
      BY <3>1 DEF UpdatesInOrder, Waiting
    <3> QED BY <3>1, <3>2
  <2>6. ASSUME NEW who, NEW a, CancelStrategyPolicyUpdate(who, a)
        PROVE  policy'[s] = policy[s]
    BY <2>6 DEF CancelStrategyPolicyUpdate
  <2>7. ASSUME NEW who, NEW e, NEW leaf, NEW amount,
               ManageVaultWithMerkleVerification(who, e, leaf, amount)
        PROVE  policy'[s] = policy[s]
    BY <2>7 DEF ManageVaultWithMerkleVerification
  <2> QED
    BY <2>0, <2>1, <2>2, <2>3, <2>4, <2>5, <2>6, <2>7
       DEF StrategyNext, PolicyLife, PolicyTimelock
<1> QED BY <1>1, InOrderAtFirst, OrderKept, PTL DEF StrategySpec, PolicyNoticeGiven
=============================================================================
