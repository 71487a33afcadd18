----------------------------- MODULE Fulfillment -----------------------------
(***************************************************************************)
(* The fulfiller and the owner of a request, who do not see each other:    *)
(* the fulfiller reads a request, decides, and sends approve_request or    *)
(* reject_request with the terms it read.  Until the transaction runs the  *)
(* owner may cancel, and open another request at the same address, and     *)
(* the NAV may be published again.  A transaction can be late, and the     *)
(* fulfiller can send it again.                                            *)
(*                                                                         *)
(* Only the address, the terms and the NAV's age are modelled; balances,   *)
(* fees and queues are in AsyncVault.                                      *)
(***************************************************************************)
EXTENDS Naturals, FiniteSets

CONSTANTS
  Owners, Amounts,
  Settings,       \* require_fresh_nav and max_nav_staleness_slots
  MaxTime,        \* bound: the clock
  MaxVersion,     \* bound: the number of NAV updates
  MaxSent         \* bound: the transactions the fulfiller sends

\* What the module asks of its constants.
FulfillmentAssumption ==
  /\ Amounts \subseteq Nat \ {0}
  /\ Settings \subseteq [require_fresh_nav : BOOLEAN, max_nav_staleness_slots : Nat]
  /\ MaxTime \in Nat /\ MaxVersion \in Nat /\ MaxSent \in Nat

VARIABLES
  settings,
  request,        \* the account at the address, {} when it is closed
  nav_version, last_nav_update_slot,   \* version 0: no NAV yet
  now,            \* slots and seconds alike
  sent            \* the fulfiller's transactions; each can still be run

vars == <<settings, request, nav_version, last_nav_update_slot, now, sent>>

RequestTypes == {"Deposit", "Redeem"}

\* ApproveRequestArgs and RejectRequestArgs: the terms the signer has read.
TermFields == {"owner", "request_type", "amount", "created_at", "nav_update_version"}
Terms(q) == [f \in TermFields |-> q[f]]

FulfillmentInit ==
  /\ settings \in Settings
  /\ request = {}
  /\ nav_version = 0 /\ last_nav_update_slot = 0
  /\ now = 1
  /\ sent = {}

CreateRequest(owner, type, amount) ==
  /\ request = {}
  /\ request' = {[owner |-> owner, request_type |-> type, amount |-> amount,
                  created_at |-> now, nav_update_version |-> nav_version,
                  request_state |-> "Pending"]}
  /\ UNCHANGED <<settings, nav_version, last_nav_update_slot, now, sent>>

\* cancel_request by the owner, or claim of what was approved.
CloseRequest ==
  /\ request # {}
  /\ request' = {}
  /\ UNCHANGED <<settings, nav_version, last_nav_update_slot, now, sent>>

\* The fulfiller reads the account and decides.
Decide(instruction) ==
  \E q \in request :
    /\ q.request_state = "Pending"
    /\ Cardinality(sent) < MaxSent
    /\ sent' = sent \cup {[instruction |-> instruction, args |-> Terms(q), decided_at |-> now]}
    /\ UNCHANGED <<settings, request, nav_version, last_nav_update_slot, now>>

\* ApprovalRequestMismatch otherwise; the mutant compares what is paid and to
\* whom, and not which request it is.
SameParties(q, args) ==
  \A f \in {"owner", "request_type", "amount"} : q[f] = args[f]

MatchesArgs(q, args) == Terms(q) = args

\* assert_fresh_nav_for_request, and the mutant that takes the NAV the request
\* was created under.
NavAtLeastAsFresh(q) == settings.require_fresh_nav => nav_version >= q.nav_update_version

FreshNav(q) == settings.require_fresh_nav => nav_version > q.nav_update_version

\* assert_nav_not_stale.
NavNotStale ==
  settings.max_nav_staleness_slots > 0 =>
    now - last_nav_update_slot <= settings.max_nav_staleness_slots

ApproveRequest(m) ==
  \E q \in request :
    /\ m.instruction = "approve_request"
    /\ q.request_state = "Pending"
    /\ MatchesArgs(q, m.args)
    /\ nav_version > 0
    /\ FreshNav(q)
    /\ NavNotStale
    /\ request' = {[q EXCEPT !.request_state = "Claimable"]}
    /\ UNCHANGED <<settings, nav_version, last_nav_update_slot, now, sent>>

\* The account is closed, without a look at the NAV.
RejectRequest(m) ==
  \E q \in request :
    /\ m.instruction = "reject_request"
    /\ q.request_state = "Pending"
    /\ MatchesArgs(q, m.args)
    /\ request' = {}
    /\ UNCHANGED <<settings, nav_version, last_nav_update_slot, now, sent>>

UpdateVaultNav ==
  /\ nav_version < MaxVersion
  /\ nav_version' = nav_version + 1
  /\ last_nav_update_slot' = now
  /\ UNCHANGED <<settings, request, now, sent>>

Tick ==
  /\ now < MaxTime
  /\ now' = now + 1
  /\ UNCHANGED <<settings, request, nav_version, last_nav_update_slot, sent>>

FulfillmentNext ==
  \/ \E o \in Owners, t \in RequestTypes, amount \in Amounts : CreateRequest(o, t, amount)
  \/ CloseRequest
  \/ \E instruction \in {"approve_request", "reject_request"} : Decide(instruction)
  \/ \E m \in sent : ApproveRequest(m) \/ RejectRequest(m)
  \/ UpdateVaultNav
  \/ Tick

FulfillmentSpec == FulfillmentInit /\ [][FulfillmentNext]_vars

-----------------------------------------------------------------------------
Approved ==
  {q \in request : q.request_state = "Pending" /\
                   \E p \in request' : p.request_state = "Claimable"}

\* Nobody's request is approved by a decision that is older than the request: a
\* late approval of a canceled request never settles the one that took its
\* address (ApprovalRequestMismatch in approve_request).
DecidedSinceCreated ==
  \A q \in Approved :
    \E m \in sent : m.instruction = "approve_request" /\ m.args.owner = q.owner
                    /\ m.args.amount = q.amount /\ m.decided_at >= q.created_at

DecisionsAreNotOlder == [][DecidedSinceCreated]_vars

\* With require_fresh_nav the price of an approval was published after the
\* request was made, so that nobody asks for a price that is already known; and
\* with a staleness bound it is no older than that bound.
PricedSinceCreated ==
  \A q \in Approved :
    /\ settings.require_fresh_nav =>
         last_nav_update_slot >= q.created_at /\ nav_version # q.nav_update_version
    /\ settings.max_nav_staleness_slots > 0 =>
         now <= last_nav_update_slot + settings.max_nav_staleness_slots

PriceIsUnknownWhenAsked == [][PricedSinceCreated]_vars
==============================================================================
