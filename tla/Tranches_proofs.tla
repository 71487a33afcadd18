---------------------------- MODULE Tranches_proofs ----------------------------
(***************************************************************************)
(* Theorems about Tranches, for every set of requests, amounts, values,    *)
(* settings and precisions.                                                *)
(*                                                                         *)
(* The lanes leave nobody behind.  The cached supplies are exact, which is *)
(* what the floor under junior and the waterfall compute with; from that   *)
(* every approval keeps the floor, and senior is the last to lose.         *)
(***************************************************************************)
EXTENDS Tranches, Units_proofs

-----------------------------------------------------------------------------
(* Arithmetic *)

LEMMA Quotient ==
  ASSUME NEW a \in Nat, NEW b \in Nat \ {0}
  PROVE  a \div b \in Nat /\ b * (a \div b) <= a /\ a < b * (a \div b) + b
  BY SMT

LEMMA Product ==
  ASSUME NEW a \in Nat, NEW b \in Nat
  PROVE  a * b \in Nat
  BY SMT

LEMMA MaxOfTwo ==
  ASSUME NEW a \in Int, NEW b \in Int
  PROVE  Max({a, b}) = IF a >= b THEN a ELSE b
<1>1. \E x \in {a, b} : \A y \in {a, b} : x >= y
  OBVIOUS
<1>2. Max({a, b}) \in {a, b} /\ \A y \in {a, b} : Max({a, b}) >= y
  BY <1>1 DEF Max
<1> QED BY <1>2

LEMMA MinOfTwo ==
  ASSUME NEW a \in Int, NEW b \in Int
  PROVE  Min({a, b}) = IF a <= b THEN a ELSE b
<1>1. \E x \in {a, b} : \A y \in {a, b} : x <= y
  OBVIOUS
<1>2. Min({a, b}) \in {a, b} /\ \A y \in {a, b} : Min({a, b}) <= y
  BY <1>1 DEF Min
<1> QED BY <1>2

-----------------------------------------------------------------------------
(* Types *)

\* Values that waterfalls leave are natural numbers, and the last one is past.
TranchesTypeOK ==
  /\ settings \in Settings
  /\ nav \in Nat /\ nav_version \in Nat /\ total_asset_balance \in Nat
  /\ tranche_nav \in [TrancheNames -> Nat]
  /\ tranche_supply \in [TrancheNames -> Nat]
  /\ lane \in [Lanes -> [request_total : Nat, last_processed : Nat]]
  /\ mint_supply \in [TrancheNames -> Nat]
  /\ request \in [Requests -> RequestRecords \cup {Closed}]
  /\ burnt \in [TrancheNames -> Nat]
  /\ now \in Nat /\ last_waterfall \in Nat /\ last_waterfall <= now

LEMMA LiveRequest ==
  ASSUME TranchesTypeOK, NEW r \in Requests, request[r].request_state # "Closed"
  PROVE  /\ request[r] \in RequestRecords
         /\ request[r].amount \in Nat /\ request[r].lane \in Lanes
         /\ request[r].queue_id \in Nat \cup {NoQueueId}
         /\ TrancheOf(r) \in TrancheNames /\ TypeOf(r) \in RequestTypes
         /\ request[r].lane = <<TrancheOf(r), TypeOf(r)>>
<1>1. request[r] \in RequestRecords
  BY DEF TranchesTypeOK, Closed
<1> QED BY <1>1 DEF RequestRecords, Lanes, TrancheOf, TypeOf

LEMMA PriceNat ==
  ASSUME TranchesTypeOK, NEW t \in TrancheNames
  PROVE  Price(t) \in Nat /\ (nav > 0 => Price(t) > 0)
  BY DEF Price, TranchesTypeOK

LEMMA EffectiveNat ==
  ASSUME TranchesTypeOK, NEW t \in TrancheNames
  PROVE  EffectiveSupply(t) \in Nat
  BY MaxOfTwo DEF EffectiveSupply, TranchesTypeOK

LEMMA AssetsNat ==
  ASSUME NEW supply \in Nat, NEW price \in Nat
  PROVE  AssetsFromSupply(supply, price) \in Nat
  BY Product, Quotient, TranchesAssumption DEF AssetsFromSupply

LEMMA SettingsNat ==
  ASSUME TranchesTypeOK
  PROVE  settings.senior_target_bps \in Nat /\ now - last_waterfall \in Nat
<1>1. settings \in Settings
  BY DEF TranchesTypeOK
<1>2. settings.senior_target_bps \in 0 .. MAX_BPS
  <2>1. \A s \in Settings : s.senior_target_bps \in 0 .. MAX_BPS
    BY TranchesAssumption, Zenon
  <2> QED BY <1>1, <2>1
<1>3. settings.senior_target_bps \in Nat
  <2>1. \A x \in 0 .. MAX_BPS : x \in Nat
    BY DEF MAX_BPS
  <2> QED BY <1>2, <2>1, Zenon
<1>4. now - last_waterfall \in Nat
  <2>1. now \in Nat /\ last_waterfall \in Nat /\ last_waterfall <= now
    BY DEF TranchesTypeOK
  <2> QED BY <2>1
<1> QED BY <1>3, <1>4

\* What the waterfall leaves a tranche is never negative, and senior has less
\* assets after it than before only when junior has none.
LEMMA WaterfallNat ==
  ASSUME TranchesTypeOK, NEW n \in Nat
  PROVE  LET previous(t) == AssetsFromSupply(EffectiveSupply(t), tranche_nav[t])
             updated(t)  == AssetsFromSupply(EffectiveSupply(t), n)
         IN  /\ \A t \in TrancheNames : Waterfall(n)[t] \in Nat
             /\ \A t \in TrancheNames : previous(t) \in Nat /\ updated(t) \in Nat
             /\ Waterfall(n)["senior"] < previous("senior") => Waterfall(n)["junior"] = 0
<1> DEFINE S == EffectiveSupply("senior")
           J == EffectiveSupply("junior")
           ps == AssetsFromSupply(S, tranche_nav["senior"])
           pj == AssetsFromSupply(J, tranche_nav["junior"])
           us == AssetsFromSupply(S, n)
           uj == AssetsFromSupply(J, n)
           accrual == ((ps * settings.senior_target_bps * (now - last_waterfall))
                          \div MAX_BPS) \div SecondsPerYear
           credit == Min({(us + uj) - (ps + pj), accrual})
           junior_loss == Min({(ps + pj) - (us + uj), pj})
           senior == IF us + uj >= ps + pj
                       THEN ps + credit
                       ELSE ps - (((ps + pj) - (us + uj)) - junior_loss)
<1>1. S \in Nat /\ J \in Nat
  BY EffectiveNat DEF TrancheNames
<1>2. ps \in Nat /\ pj \in Nat /\ us \in Nat /\ uj \in Nat
  BY <1>1, AssetsNat DEF TranchesTypeOK, TrancheNames
<1>3. accrual \in Nat
  <2>1. settings.senior_target_bps \in Nat /\ now - last_waterfall \in Nat
    BY SettingsNat DEF TranchesTypeOK
  <2>2. ps * settings.senior_target_bps * (now - last_waterfall) \in Nat
    <3>1. ps * settings.senior_target_bps \in Nat
      BY <1>2, <2>1, Product
    <3> QED BY <2>1, <3>1, Product
  <2>3. (ps * settings.senior_target_bps * (now - last_waterfall)) \div MAX_BPS \in Nat
    BY <2>2, Quotient DEF MAX_BPS
  <2> QED BY <2>3, Quotient, TranchesAssumption
<1>4. /\ Waterfall(n)["senior"] = senior
      /\ Waterfall(n)["junior"] = (us + uj) - senior
  BY DEF Waterfall, TrancheNames
<1> HIDE DEF S, J, ps, pj, us, uj, accrual
<1>5. /\ credit = IF (us + uj) - (ps + pj) <= accrual THEN (us + uj) - (ps + pj) ELSE accrual
      /\ junior_loss = IF (ps + pj) - (us + uj) <= pj THEN (ps + pj) - (us + uj) ELSE pj
  BY <1>2, <1>3, MinOfTwo
<1> HIDE DEF credit, junior_loss
<1>6. /\ senior \in Nat /\ (us + uj) - senior \in Nat
      /\ senior < ps => (us + uj) - senior = 0
  BY <1>2, <1>3, <1>5
<1> HIDE DEF senior
<1>7. /\ \A t \in TrancheNames : Waterfall(n)[t] \in Nat
      /\ Waterfall(n)["senior"] < ps => Waterfall(n)["junior"] = 0
  BY <1>4, <1>6 DEF TrancheNames
<1>8. \A t \in TrancheNames :
        /\ AssetsFromSupply(EffectiveSupply(t), tranche_nav[t]) \in Nat
        /\ AssetsFromSupply(EffectiveSupply(t), n) \in Nat
  BY EffectiveNat, AssetsNat DEF TranchesTypeOK
<1> QED BY <1>7, <1>8 DEF ps, S

LEMMA NavFromAssetsNat ==
  ASSUME NEW assets \in Nat, NEW supply \in Nat
  PROVE  NavFromAssets(assets, supply) \in Nat
BY Product, Quotient, TranchesAssumption DEF NavFromAssets

LEMMA ConstantsNat ==
  /\ Amounts \subseteq Nat /\ Navs \subseteq Nat
  /\ Precision \in Nat \ {0}
  /\ IsFiniteSet(Requests)
BY TranchesAssumption, Zenon

\* Shares of a deposit and assets of a redemption are natural numbers.
LEMMA ApprovedNat ==
  ASSUME TranchesTypeOK, NEW r \in Requests, CanApprove(r)
  PROVE  /\ CalculateShares(Price(TrancheOf(r)), Precision, request[r].amount) \in Nat
         /\ CalculateAssets(Price(TrancheOf(r)), Precision, request[r].amount) \in Nat
<1>1. request[r].amount \in Nat /\ TrancheOf(r) \in TrancheNames /\ nav > 0
  BY LiveRequest DEF CanApprove, IsState
<1>2. Price(TrancheOf(r)) \in Nat \ {0}
  BY <1>1, PriceNat
<1> DEFINE p == Price(TrancheOf(r))
           a == request[r].amount
<1> HIDE DEF p, a
<1>3. p \in Nat \ {0} /\ a \in Nat /\ Precision \in Nat \ {0}
  BY <1>1, <1>2, ConstantsNat DEF p, a
<1>4. a * Precision \in Nat /\ a * p \in Nat
  BY <1>3, Product
<1>5. CalculateShares(p, Precision, a) \in Nat /\ CalculateAssets(p, Precision, a) \in Nat
  BY <1>3, <1>4, Quotient DEF CalculateShares, CalculateAssets
<1> QED BY <1>5 DEF p, a

\* What a settled request leaves of its lane.
LEMMA AdvancedLane ==
  ASSUME TranchesTypeOK, NEW r \in Requests, ~IsState(r, "Closed"), IsNextOfLane(r)
  PROVE  /\ AdvanceLane(r) \in [Lanes -> [request_total : Nat, last_processed : Nat]]
         /\ \A l \in Lanes :
              /\ AdvanceLane(r)[l].request_total = lane[l].request_total
              /\ AdvanceLane(r)[l].last_processed =
                   IF l = request[r].lane /\ TypeOf(r) \in settings.queues
                     THEN request[r].queue_id ELSE lane[l].last_processed
         /\ TypeOf(r) \in settings.queues =>
              request[r].queue_id = lane[request[r].lane].last_processed + 1
<1>1. request[r].lane \in Lanes
  BY LiveRequest DEF IsState
<1>2. lane \in [Lanes -> [request_total : Nat, last_processed : Nat]]
  BY DEF TranchesTypeOK
<1>3. TypeOf(r) \in settings.queues =>
        request[r].queue_id = lane[request[r].lane].last_processed + 1
  BY DEF IsNextOfLane
<1>4. request[r].queue_id \in Nat \/ TypeOf(r) \notin settings.queues
  BY <1>1, <1>2, <1>3
<1>5. CASE TypeOf(r) \notin settings.queues
  BY <1>2, <1>5 DEF AdvanceLane
<1>6. CASE TypeOf(r) \in settings.queues
  <2> DEFINE m == request[r].lane
             id == request[r].queue_id
  <2>1. AdvanceLane(r) = [lane EXCEPT ![m].last_processed = id]
    BY <1>6 DEF AdvanceLane
  <2>2. m \in Lanes /\ id \in Nat
    BY <1>1, <1>4, <1>6
  <2> HIDE DEF m, id
  <2>3. /\ AdvanceLane(r) \in [Lanes -> [request_total : Nat, last_processed : Nat]]
        /\ \A l \in Lanes :
             /\ AdvanceLane(r)[l].request_total = lane[l].request_total
             /\ AdvanceLane(r)[l].last_processed = IF l = m THEN id ELSE lane[l].last_processed
    BY <1>2, <2>1, <2>2
  <2> QED BY <1>3, <1>6, <2>3 DEF m, id
<1> QED BY <1>5, <1>6

LEMMA PostApprovalNat ==
  ASSUME TranchesTypeOK, NEW r \in Requests, ~IsState(r, "Closed"), NEW d \in Nat
  PROVE  /\ \A t \in TrancheNames : SupplyAfter(r, d)[t] \in Nat
         /\ UpdateSupplyCache(r, d) \in [TrancheNames -> Nat]
<1>1. TrancheOf(r) \in TrancheNames
  BY LiveRequest DEF IsState
<1>2. \A t \in TrancheNames : tranche_supply[t] \in Nat /\ mint_supply[t] \in Nat
  BY DEF TranchesTypeOK
<1>3. \A t \in TrancheNames :
        /\ Max({tranche_supply[t], mint_supply[t]}) =
             IF tranche_supply[t] >= mint_supply[t] THEN tranche_supply[t] ELSE mint_supply[t]
        /\ Max({tranche_supply[t], mint_supply[t] + d}) =
             IF tranche_supply[t] >= mint_supply[t] + d
               THEN tranche_supply[t] ELSE mint_supply[t] + d
  BY <1>2, MaxOfTwo
<1>4. \A t \in TrancheNames : SupplyAfter(r, d)[t] \in Nat
  <2> SUFFICES ASSUME NEW t \in TrancheNames PROVE SupplyAfter(r, d)[t] \in Nat
    OBVIOUS
  <2> DEFINE m == Max({tranche_supply[t], mint_supply[t]})
             k == Max({tranche_supply[t], mint_supply[t] + d})
  <2>1. SupplyAfter(r, d)[t] =
          IF t = TrancheOf(r) THEN IF TypeOf(r) = "Deposit" THEN m + d ELSE k - d ELSE m
    BY DEF SupplyAfter, PostApprovalSupply
  <2>2. m \in Nat /\ k \in Nat /\ k >= d
    <3> HIDE DEF m, k
    <3>1. /\ m = IF tranche_supply[t] >= mint_supply[t]
                   THEN tranche_supply[t] ELSE mint_supply[t]
          /\ k = IF tranche_supply[t] >= mint_supply[t] + d
                   THEN tranche_supply[t] ELSE mint_supply[t] + d
      BY <1>3 DEF m, k
    <3> QED BY <1>2, <3>1
  <2> HIDE DEF m, k
  <2> QED BY <2>1, <2>2
<1> QED BY <1>1, <1>4 DEF UpdateSupplyCache, TranchesTypeOK

LEMMA TypeStep ==
  ASSUME TranchesTypeOK, [TranchesNext]_vars
  PROVE  TranchesTypeOK'
<1> USE DEF TranchesTypeOK
<1>1. ASSUME NEW r \in Requests, NEW t \in TrancheNames, NEW amount \in Amounts,
             CreateDepositRequest(r, t, amount) \/ CreateRedeemRequest(r, t, amount)
      PROVE  TranchesTypeOK'
  <2>1. PICK l \in Lanes : l[1] = t /\ Open(r, l, amount)
    BY <1>1 DEF CreateDepositRequest, CreateRedeemRequest, Lanes, RequestTypes
  <2>2. amount \in Nat /\ Price(t) \in Nat
    BY ConstantsNat, PriceNat
  <2>3. NextQueueId(l) \in Nat \cup {NoQueueId}
        /\ lane' \in [Lanes -> [request_total : Nat, last_processed : Nat]]
    BY <2>1 DEF Open, NextQueueId, LaneAfterCreate
  <2>4. request' \in [Requests -> RequestRecords \cup {Closed}]
    BY <2>1, <2>2, <2>3 DEF Open, RequestRecords
  <2>5. mint_supply' \in [TrancheNames -> Nat]
    BY <1>1, <2>2 DEF CreateDepositRequest, CreateRedeemRequest
  <2> QED BY <1>1, <2>3, <2>4, <2>5 DEF CreateDepositRequest, CreateRedeemRequest, vault_vars
<1>2. ASSUME NEW r \in Requests, ApproveDeposit(r) \/ ApproveRedeem(r)
      PROVE  TranchesTypeOK'
  <2>1. CanApprove(r) /\ ~IsState(r, "Closed") /\ IsNextOfLane(r)
    BY <1>2 DEF ApproveDeposit, ApproveRedeem, CanApprove, IsState
  <2>2. /\ CalculateShares(Price(TrancheOf(r)), Precision, request[r].amount) \in Nat
        /\ CalculateAssets(Price(TrancheOf(r)), Precision, request[r].amount) \in Nat
    BY <2>1, ApprovedNat
  <2>3. /\ request[r] \in RequestRecords /\ request[r].amount \in Nat
        /\ Price(TrancheOf(r)) \in Nat
    BY <2>1, LiveRequest, PriceNat DEF IsState
  <2>4. lane' \in [Lanes -> [request_total : Nat, last_processed : Nat]]
    BY <1>2, <2>1, AdvancedLane DEF ApproveDeposit, ApproveRedeem
  <2>5. tranche_supply' \in [TrancheNames -> Nat]
    BY <1>2, <2>1, <2>2, <2>3, PostApprovalNat DEF ApproveDeposit, ApproveRedeem
  <2>6. request' \in [Requests -> RequestRecords \cup {Closed}]
    BY <1>2, <2>2, <2>3 DEF ApproveDeposit, ApproveRedeem, MarkClaimable, RequestRecords
  <2>7. total_asset_balance' \in Nat
    BY <1>2, <2>2, <2>3 DEF ApproveDeposit, ApproveRedeem
  <2> QED BY <1>2, <2>4, <2>5, <2>6, <2>7 DEF ApproveDeposit, ApproveRedeem
<1>3. ASSUME NEW r \in Requests,
             \/ RejectRequest(r) \/ CancelRequest(r)
             \/ SkipCanceledQueueRequest(r) \/ Claim(r)
      PROVE  TranchesTypeOK'
  <2>1. ~IsState(r, "Closed")
    BY <1>3 DEF RejectRequest, CancelRequest, SkipCanceledQueueRequest, Claim, IsState
  <2>2. /\ request[r] \in RequestRecords /\ request[r].amount \in Nat
        /\ TrancheOf(r) \in TrancheNames
    BY <2>1, LiveRequest DEF IsState
  <2>3. lane' \in [Lanes -> [request_total : Nat, last_processed : Nat]]
    BY <1>3, <2>1, AdvancedLane
       DEF RejectRequest, CancelRequest, SkipCanceledQueueRequest, Claim, tranche_vars
  <2>4. request' \in [Requests -> RequestRecords \cup {Closed}]
    BY <1>3, <2>2
       DEF RejectRequest, CancelRequest, SkipCanceledQueueRequest, Claim, RequestRecords
  <2>5. mint_supply' \in [TrancheNames -> Nat]
    BY <1>3, <2>2 DEF RejectRequest, CancelRequest, SkipCanceledQueueRequest, Claim, MintBack
  <2> QED BY <1>3, <2>3, <2>4, <2>5
          DEF RejectRequest, CancelRequest, SkipCanceledQueueRequest, Claim,
              vault_vars, tranche_vars
<1>4. ASSUME NEW n \in Navs, UpdateVaultNav(n)
      PROVE  TranchesTypeOK'
  <2>1. n \in Nat
    BY ConstantsNat
  <2>2. \A t \in TrancheNames : EffectiveSupply(t) \in Nat /\ Waterfall(n)[t] \in Nat
    BY <2>1, EffectiveNat, WaterfallNat
  <2>3. \A t \in TrancheNames : NavFromAssets(Waterfall(n)[t], EffectiveSupply(t)) \in Nat
    BY <2>2, NavFromAssetsNat
  <2>4. tranche_nav' \in [TrancheNames -> Nat] /\ tranche_supply' \in [TrancheNames -> Nat]
    BY <1>4, <2>1, <2>2, <2>3 DEF UpdateVaultNav, PreservedSupply
  <2> QED BY <1>4, <2>1, <2>4 DEF UpdateVaultNav
<1>5. ASSUME NEW t \in TrancheNames, BurnShares(t)
      PROVE  TranchesTypeOK'
  <2>1. mint_supply' \in [TrancheNames -> Nat] /\ burnt' \in [TrancheNames -> Nat]
    BY <1>5 DEF BurnShares
  <2> QED BY <1>5, <2>1 DEF BurnShares, vault_vars, tranche_vars
<1>6. CASE Tick
  BY <1>6 DEF Tick, vault_vars, tranche_vars
<1>7. CASE UNCHANGED vars
  BY <1>7 DEF vars, vault_vars, tranche_vars
<1> QED BY <1>1, <1>2, <1>3, <1>4, <1>5, <1>6, <1>7
        DEF TranchesNext, CreateTrancheRequest, SettleTrancheRequest

LEMMA TypeInit ==
  ASSUME TranchesInit
  PROVE  TranchesTypeOK
BY ConstantsNat DEF TranchesInit, TranchesTypeOK, Closed

-----------------------------------------------------------------------------
(* The lanes leave nobody behind. *)

Waits(r) == ~IsState(r, "Closed") /\ ~IsState(r, "Claimable")

\* A lane never passes a number it has not given out.
LanesInOrder ==
  /\ TranchesTypeOK
  /\ \A l \in Lanes : lane[l].last_processed <= lane[l].request_total
  /\ NoneLeftBehind

\* A request that is settled was the next of its lane, if its direction queues.
LEMMA LeavesLane ==
  ASSUME LanesInOrder, TranchesTypeOK', NEW r \in Requests,
         ~IsState(r, "Closed"), ~IsState(r, "Claimable"), IsNextOfLane(r),
         lane' = AdvanceLane(r),
         \A s \in Requests \ {r} : request'[s] = request[s],
         request'[r].request_state \in {"Closed", "Claimable"}
  PROVE  LanesInOrder'
<1>1. TranchesTypeOK /\ NoneLeftBehind
  BY DEF LanesInOrder
<1>2. /\ \A l \in Lanes :
           /\ lane'[l].request_total = lane[l].request_total
           /\ lane'[l].last_processed =
                IF l = request[r].lane /\ TypeOf(r) \in settings.queues
                  THEN request[r].queue_id ELSE lane[l].last_processed
      /\ TypeOf(r) \in settings.queues =>
           request[r].queue_id = lane[request[r].lane].last_processed + 1
  BY <1>1, AdvancedLane
<1>3. request[r].lane \in Lanes /\ request[r].queue_id \in Nat \cup {NoQueueId}
  BY <1>1, LiveRequest DEF IsState
<1>4. \A l \in Lanes :
        /\ lane[l].last_processed \in Nat /\ lane[l].request_total \in Nat
        /\ lane[l].last_processed <= lane[l].request_total
  BY DEF LanesInOrder, TranchesTypeOK
<1>5. TypeOf(r) \in settings.queues =>
        /\ request[r].queue_id # NoQueueId
        /\ request[r].queue_id <= lane[request[r].lane].request_total
  <2>1. TypeOf(r) \in settings.queues => request[r].queue_id # NoQueueId
    BY <1>2, <1>3, <1>4 DEF NoQueueId
  <2> QED BY <1>1, <2>1 DEF NoneLeftBehind
<1>6. \A l \in Lanes : lane'[l].last_processed <= lane'[l].request_total
  BY <1>2, <1>4, <1>5
<1>7. NoneLeftBehind'
  <2>1. SUFFICES ASSUME NEW s \in Requests,
                        request'[s].request_state # "Closed",
                        request'[s].request_state # "Claimable",
                        request'[s].queue_id # NoQueueId
                 PROVE  /\ lane'[request'[s].lane].last_processed < request'[s].queue_id
                        /\ request'[s].queue_id <= lane'[request'[s].lane].request_total
                        /\ \A q \in Requests \ {s} :
                             /\ request'[q].request_state # "Closed"
                             /\ request'[q].request_state # "Claimable"
                             /\ request'[q].lane = request'[s].lane
                             => request'[q].queue_id # request'[s].queue_id
    BY DEF NoneLeftBehind, IsState
  <2>2. s # r /\ request'[s] = request[s]
    BY <2>1
  <2>3. /\ lane[request[s].lane].last_processed < request[s].queue_id
        /\ request[s].queue_id <= lane[request[s].lane].request_total
        /\ \A q \in Requests \ {s} :
             ~IsState(q, "Closed") /\ ~IsState(q, "Claimable") /\ request[q].lane = request[s].lane
               => request[q].queue_id # request[s].queue_id
    BY <1>1, <2>1, <2>2 DEF NoneLeftBehind, IsState
  <2>4. \A q \in Requests \ {s} :
          /\ request'[q].request_state # "Closed" /\ request'[q].request_state # "Claimable"
          /\ request'[q].lane = request'[s].lane
          => request'[q].queue_id # request'[s].queue_id
    BY <2>2, <2>3 DEF IsState
  <2>5. request[s].lane \in Lanes /\ request[s].queue_id \in Nat
    <3>1. request[s].request_state # "Closed" /\ request[s].queue_id # NoQueueId
      BY <2>1, <2>2
    <3> QED BY <1>1, <3>1, LiveRequest
  <2>6. lane'[request[s].lane].last_processed < request[s].queue_id
    <3>1. CASE request[s].lane = request[r].lane /\ TypeOf(r) \in settings.queues
      <4>1. request[r].queue_id # request[s].queue_id
        BY <2>2, <2>3, <3>1
      <4>2. lane'[request[s].lane].last_processed = lane[request[s].lane].last_processed + 1
            /\ request[r].queue_id = lane[request[s].lane].last_processed + 1
        BY <1>2, <2>5, <3>1
      <4> QED BY <1>4, <2>3, <2>5, <4>1, <4>2
    <3>2. CASE ~(request[s].lane = request[r].lane /\ TypeOf(r) \in settings.queues)
      BY <1>2, <2>3, <2>5, <3>2
    <3> QED BY <3>1, <3>2
  <2> QED BY <1>2, <2>2, <2>3, <2>4, <2>5, <2>6
<1> QED BY <1>6, <1>7 DEF LanesInOrder

LEMMA JoinsLane ==
  ASSUME LanesInOrder, TranchesTypeOK', NEW r \in Requests, NEW l \in Lanes, NEW amount,
         Open(r, l, amount)
  PROVE  LanesInOrder'
<1>1. TranchesTypeOK /\ NoneLeftBehind
  BY DEF LanesInOrder
<1>2. \A m \in Lanes :
        /\ lane[m].last_processed \in Nat /\ lane[m].request_total \in Nat
        /\ lane[m].last_processed <= lane[m].request_total
  BY DEF LanesInOrder, TranchesTypeOK
<1>3. \A m \in Lanes :
        /\ lane'[m].last_processed = lane[m].last_processed
        /\ lane'[m].request_total =
             IF m = l /\ l[2] \in settings.queues
               THEN lane[m].request_total + 1 ELSE lane[m].request_total
  BY <1>1 DEF Open, LaneAfterCreate, TranchesTypeOK
<1>4. /\ \A s \in Requests \ {r} : request'[s] = request[s]
      /\ request'[r].lane = l
      /\ request'[r].queue_id =
           IF l[2] \in settings.queues THEN lane[l].request_total + 1 ELSE NoQueueId
  <2>1. request \in [Requests -> RequestRecords \cup {Closed}]
    BY <1>1 DEF TranchesTypeOK
  <2> QED BY <2>1 DEF Open, NextQueueId
<1>5. \A m \in Lanes : lane'[m].last_processed <= lane'[m].request_total
  BY <1>2, <1>3
<1>6. NoneLeftBehind'
  <2>1. SUFFICES ASSUME NEW s \in Requests,
                        request'[s].request_state # "Closed",
                        request'[s].request_state # "Claimable",
                        request'[s].queue_id # NoQueueId
                 PROVE  /\ lane'[request'[s].lane].last_processed < request'[s].queue_id
                        /\ request'[s].queue_id <= lane'[request'[s].lane].request_total
                        /\ \A q \in Requests \ {s} :
                             /\ request'[q].request_state # "Closed"
                             /\ request'[q].request_state # "Claimable"
                             /\ request'[q].lane = request'[s].lane
                             => request'[q].queue_id # request'[s].queue_id
    BY DEF NoneLeftBehind, IsState
  <2>2. \A q \in Requests \ {r} :
          request[q].request_state # "Closed" /\ request[q].request_state # "Claimable" =>
            /\ request[q].lane \in Lanes
            /\ request[q].queue_id \in Nat \cup {NoQueueId}
            /\ request[q].queue_id # NoQueueId =>
                 request[q].queue_id <= lane[request[q].lane].request_total
    BY <1>1, LiveRequest DEF NoneLeftBehind, IsState
  <2>3. CASE s = r
    <3>1. /\ request'[s].lane = l /\ l[2] \in settings.queues
          /\ request'[s].queue_id = lane[l].request_total + 1
          /\ lane'[l].last_processed = lane[l].last_processed
          /\ lane'[l].request_total = lane[l].request_total + 1
      BY <1>3, <1>4, <2>1, <2>3
    <3>2. \A q \in Requests \ {s} :
            /\ request'[q].request_state # "Closed"
            /\ request'[q].request_state # "Claimable"
            /\ request'[q].lane = l
            => request'[q].queue_id # lane[l].request_total + 1
      <4>1. SUFFICES ASSUME NEW q \in Requests \ {s},
                            request'[q].request_state # "Closed",
                            request'[q].request_state # "Claimable",
                            request'[q].lane = l
                     PROVE  request'[q].queue_id # lane[l].request_total + 1
        OBVIOUS
      <4>2. request'[q] = request[q]
        BY <1>4, <2>3
      <4>3. request[q].queue_id = NoQueueId \/
              (request[q].queue_id \in Nat /\ request[q].queue_id <= lane[l].request_total)
        BY <2>2, <2>3, <4>1, <4>2
      <4> QED BY <1>2, <4>2, <4>3 DEF NoQueueId
    <3> QED BY <1>2, <3>1, <3>2
  <2>4. CASE s # r
    <3>1. request'[s] = request[s]
      BY <1>4, <2>4
    <3>2. /\ lane[request[s].lane].last_processed < request[s].queue_id
          /\ request[s].queue_id <= lane[request[s].lane].request_total
          /\ \A q \in Requests \ {s} :
               ~IsState(q, "Closed") /\ ~IsState(q, "Claimable")
                 /\ request[q].lane = request[s].lane
                 => request[q].queue_id # request[s].queue_id
      BY <1>1, <2>1, <3>1 DEF NoneLeftBehind, IsState
    <3>3. request[s].lane \in Lanes /\ request[s].queue_id \in Nat
      <4>1. request[s].request_state # "Closed" /\ request[s].queue_id # NoQueueId
        BY <2>1, <3>1
      <4> QED BY <1>1, <4>1, LiveRequest
    <3>4. /\ lane'[request[s].lane].last_processed < request[s].queue_id
          /\ request[s].queue_id <= lane'[request[s].lane].request_total
      BY <1>2, <1>3, <3>2, <3>3
    <3>5. \A q \in Requests \ {s, r} :
            /\ request'[q].request_state # "Closed" /\ request'[q].request_state # "Claimable"
            /\ request'[q].lane = request[s].lane
            => request'[q].queue_id # request[s].queue_id
      BY <1>4, <3>2 DEF IsState
    <3>6. request'[r].lane = request[s].lane => request'[r].queue_id # request[s].queue_id
      BY <1>2, <1>4, <3>2, <3>3 DEF NoQueueId
    <3> QED BY <3>1, <3>4, <3>5, <3>6
  <2> QED BY <2>3, <2>4
<1> QED BY <1>5, <1>6 DEF LanesInOrder

LEMMA LanesStep ==
  ASSUME LanesInOrder, [TranchesNext]_vars
  PROVE  LanesInOrder'
<1>1. TranchesTypeOK /\ TranchesTypeOK'
  BY TypeStep DEF LanesInOrder
<1>2. ASSUME NEW r \in Requests, NEW t \in TrancheNames, NEW amount \in Amounts,
             CreateDepositRequest(r, t, amount) \/ CreateRedeemRequest(r, t, amount)
      PROVE  LanesInOrder'
  <2>1. PICK l \in Lanes : Open(r, l, amount)
    BY <1>2 DEF CreateDepositRequest, CreateRedeemRequest, Lanes, RequestTypes
  <2> QED BY <1>1, <2>1, JoinsLane
<1>3. ASSUME NEW r \in Requests, ApproveDeposit(r) \/ ApproveRedeem(r)
      PROVE  LanesInOrder'
  <2>1. /\ ~IsState(r, "Closed") /\ ~IsState(r, "Claimable") /\ IsNextOfLane(r)
        /\ lane' = AdvanceLane(r)
    BY <1>3 DEF ApproveDeposit, ApproveRedeem, CanApprove, IsState
  <2>2. /\ \A s \in Requests \ {r} : request'[s] = request[s]
        /\ request'[r].request_state = "Claimable"
    <3>1. request[r] \in RequestRecords
      BY <1>1, <2>1, LiveRequest DEF IsState
    <3> QED BY <1>1, <1>3, <3>1
            DEF ApproveDeposit, ApproveRedeem, MarkClaimable, RequestRecords, TranchesTypeOK
  <2> QED BY <1>1, <2>1, <2>2, LeavesLane
<1>4. ASSUME NEW r \in Requests, RejectRequest(r) \/ SkipCanceledQueueRequest(r)
      PROVE  LanesInOrder'
  <2>1. /\ ~IsState(r, "Closed") /\ ~IsState(r, "Claimable") /\ IsNextOfLane(r)
        /\ lane' = AdvanceLane(r)
    BY <1>4 DEF RejectRequest, SkipCanceledQueueRequest, IsState
  <2>2. /\ \A s \in Requests \ {r} : request'[s] = request[s]
        /\ request'[r].request_state = "Closed"
    BY <1>1, <1>4 DEF RejectRequest, SkipCanceledQueueRequest, Closed, TranchesTypeOK
  <2> QED BY <1>1, <2>1, <2>2, LeavesLane
<1>5. ASSUME lane' = lane,
             \A r \in Requests :
               \/ request'[r].request_state \in {"Closed", "Claimable"}
               \/ /\ request[r].request_state \notin {"Closed", "Claimable"}
                  /\ request'[r].lane = request[r].lane
                  /\ request'[r].queue_id = request[r].queue_id
      PROVE  LanesInOrder'
  BY <1>1, <1>5 DEF LanesInOrder, NoneLeftBehind, IsState
<1>6. ASSUME NEW r \in Requests, CancelRequest(r) \/ Claim(r)
      PROVE  LanesInOrder'
  <2>1. request[r] \in RequestRecords
    BY <1>1, <1>6, LiveRequest DEF CancelRequest, Claim, IsState
  <2>2. /\ \A s \in Requests \ {r} : request'[s] = request[s]
        /\ \/ request'[r].request_state \in {"Closed", "Claimable"}
           \/ /\ request[r].request_state \notin {"Closed", "Claimable"}
              /\ request'[r].lane = request[r].lane
              /\ request'[r].queue_id = request[r].queue_id
    BY <1>1, <1>6, <2>1
       DEF CancelRequest, Claim, Closed, RequestRecords, IsState, TranchesTypeOK
  <2>3. lane' = lane
    BY <1>6 DEF CancelRequest, Claim, tranche_vars
  <2> QED BY <1>5, <2>2, <2>3
<1>7. ASSUME \/ \E n \in Navs : UpdateVaultNav(n)
             \/ \E t \in TrancheNames : BurnShares(t)
             \/ Tick
             \/ UNCHANGED vars
      PROVE  LanesInOrder'
  <2>1. lane' = lane /\ request' = request
    BY <1>7 DEF UpdateVaultNav, BurnShares, Tick, vars, vault_vars, tranche_vars
  <2> QED BY <1>5, <2>1
<1> QED BY <1>2, <1>3, <1>4, <1>6, <1>7
        DEF TranchesNext, CreateTrancheRequest, SettleTrancheRequest

\* A live queued request always has a number its lane has given out and not yet
\* passed, and no two the same: settling a lane in order reaches everyone in it.
THEOREM NobodyIsLeftBehind == TranchesSpec => []NoneLeftBehind
<1>1. TranchesInit => LanesInOrder
  BY TypeInit DEF LanesInOrder, TranchesInit, NoneLeftBehind, IsState, Closed
<1>2. LanesInOrder /\ [TranchesNext]_vars => LanesInOrder'
  BY LanesStep
<1>3. LanesInOrder => NoneLeftBehind
  BY DEF LanesInOrder
<1> QED BY <1>1, <1>2, <1>3, PTL DEF TranchesSpec

-----------------------------------------------------------------------------
(* The cached supplies are exact. *)

TouchesOnly(r) == \A s \in Requests \ {r} : request'[s] = request[s]

ClaimableShares(r, t) ==
  IF IsState(r, "Claimable") /\ request[r].lane = <<t, "Deposit">>
    THEN request[r].amount ELSE 0

WaitingShares(r, t) ==
  IF IsState(r, "Pending") /\ request[r].lane = <<t, "Redeem">>
    THEN request[r].amount ELSE 0

LEMMA InStateNat ==
  ASSUME TranchesTypeOK, NEW t, NEW type, NEW state, state # "Closed"
  PROVE  AmountIn(InState(t, type, state)) \in Nat
<1>1. InState(t, type, state) \subseteq Requests
  BY DEF InState
<1>2. IsFiniteSet(InState(t, type, state))
  BY <1>1, ConstantsNat, FS_Subset
<1>3. \A r \in InState(t, type, state) : request[r].amount \in Nat
  BY LiveRequest DEF InState, IsState
<1> QED BY <1>2, <1>3, AmountNat DEF AmountIn

LEMMA ClaimableStep ==
  ASSUME TranchesTypeOK, TranchesTypeOK', NEW r \in Requests, TouchesOnly(r), NEW t
  PROVE  AmountIn(InState(t, "Deposit", "Claimable"))'
           = AmountIn(InState(t, "Deposit", "Claimable"))
               - ClaimableShares(r, t) + ClaimableShares(r, t)'
<1> DEFINE S == InState(t, "Deposit", "Claimable")
           T == InState(t, "Deposit", "Claimable")'
           old == request
           new == request'
           x == ClaimableShares(r, t)
           y == ClaimableShares(r, t)'
<1>1. IsFiniteSet(S)
  <2>1. S \subseteq Requests
    BY DEF InState
  <2> QED BY <2>1, ConstantsNat, FS_Subset
<1>2. S \ {r} = T \ {r}
  BY DEF InState, IsState, TouchesOnly
<1>3. \A s \in S : request[s].amount \in Nat
  BY LiveRequest DEF InState, IsState
<1>4. \A s \in T : request'[s].amount \in Nat
  <2>1. \A s \in Requests :
          request'[s].request_state = "Claimable" => request'[s].amount \in Nat
    BY DEF TranchesTypeOK, RequestRecords, Closed
  <2> QED BY <2>1 DEF InState, IsState
<1>5. \A s \in S \ {r} : request'[s].amount = request[s].amount
  BY DEF TouchesOnly, InState
<1>6. /\ x = IF r \in S THEN request[r].amount ELSE 0
      /\ y = IF r \in T THEN request'[r].amount ELSE 0
  BY DEF ClaimableShares, InState, IsState
<1>7. /\ AmountIn(InState(t, "Deposit", "Claimable")) = AmountOf(old, S)
      /\ AmountIn(InState(t, "Deposit", "Claimable"))' = AmountOf(new, T)
  BY DEF AmountIn
<1> HIDE DEF S, T, old, new, x, y
<1>8. AmountOf(new, T) = AmountOf(old, S) - x + y
  <2>1. /\ \A s \in S : old[s].amount \in Nat
        /\ \A s \in T : new[s].amount \in Nat
        /\ \A s \in S \ {r} : new[s].amount = old[s].amount
        /\ x = IF r \in S THEN old[r].amount ELSE 0
        /\ y = IF r \in T THEN new[r].amount ELSE 0
    BY <1>3, <1>4, <1>5, <1>6 DEF old, new
  <2> QED BY <1>1, <1>2, <2>1, AmountReplaced
<1> QED BY <1>7, <1>8 DEF x, y

LEMMA WaitingStep ==
  ASSUME TranchesTypeOK, TranchesTypeOK', NEW r \in Requests, TouchesOnly(r), NEW t
  PROVE  AmountIn(InState(t, "Redeem", "Pending"))'
           = AmountIn(InState(t, "Redeem", "Pending"))
               - WaitingShares(r, t) + WaitingShares(r, t)'
<1> DEFINE S == InState(t, "Redeem", "Pending")
           T == InState(t, "Redeem", "Pending")'
           old == request
           new == request'
           x == WaitingShares(r, t)
           y == WaitingShares(r, t)'
<1>1. IsFiniteSet(S)
  <2>1. S \subseteq Requests
    BY DEF InState
  <2> QED BY <2>1, ConstantsNat, FS_Subset
<1>2. S \ {r} = T \ {r}
  BY DEF InState, IsState, TouchesOnly
<1>3. \A s \in S : request[s].amount \in Nat
  BY LiveRequest DEF InState, IsState
<1>4. \A s \in T : request'[s].amount \in Nat
  <2>1. \A s \in Requests :
          request'[s].request_state = "Pending" => request'[s].amount \in Nat
    BY DEF TranchesTypeOK, RequestRecords, Closed
  <2> QED BY <2>1 DEF InState, IsState
<1>5. \A s \in S \ {r} : request'[s].amount = request[s].amount
  BY DEF TouchesOnly, InState
<1>6. /\ x = IF r \in S THEN request[r].amount ELSE 0
      /\ y = IF r \in T THEN request'[r].amount ELSE 0
  BY DEF WaitingShares, InState, IsState
<1>7. /\ AmountIn(InState(t, "Redeem", "Pending")) = AmountOf(old, S)
      /\ AmountIn(InState(t, "Redeem", "Pending"))' = AmountOf(new, T)
  BY DEF AmountIn
<1> HIDE DEF S, T, old, new, x, y
<1>8. AmountOf(new, T) = AmountOf(old, S) - x + y
  <2>1. /\ \A s \in S : old[s].amount \in Nat
        /\ \A s \in T : new[s].amount \in Nat
        /\ \A s \in S \ {r} : new[s].amount = old[s].amount
        /\ x = IF r \in S THEN old[r].amount ELSE 0
        /\ y = IF r \in T THEN new[r].amount ELSE 0
    BY <1>3, <1>4, <1>5, <1>6 DEF old, new
  <2> QED BY <1>1, <1>2, <2>1, AmountReplaced
<1> QED BY <1>7, <1>8 DEF x, y

\* What the vault answers for changes by what the one request it touched stands
\* for, and by the shares minted and burnt.
LEMMA CommittedStep ==
  ASSUME TranchesTypeOK, TranchesTypeOK', NEW r \in Requests, TouchesOnly(r),
         NEW t \in TrancheNames
  PROVE  CommittedShares(t)' =
           CommittedShares(t) + (mint_supply'[t] - mint_supply[t])
             + (ClaimableShares(r, t)' - ClaimableShares(r, t))
             + (WaitingShares(r, t)' - WaitingShares(r, t))
<1> DEFINE D == AmountIn(InState(t, "Deposit", "Claimable"))
           R == AmountIn(InState(t, "Redeem", "Pending"))
           d == AmountIn(InState(t, "Deposit", "Claimable"))'
           k == AmountIn(InState(t, "Redeem", "Pending"))'
           x == ClaimableShares(r, t)
           y == ClaimableShares(r, t)'
           v == WaitingShares(r, t)
           w == WaitingShares(r, t)'
           m == mint_supply[t]
           n == mint_supply'[t]
<1>1. d = D - x + y /\ k = R - v + w
  BY ClaimableStep, WaitingStep
<1>2. CommittedShares(t) = m + D + R /\ CommittedShares(t)' = n + d + k
  BY DEF CommittedShares
<1>3. D \in Nat /\ R \in Nat /\ m \in Nat /\ n \in Nat
  BY InStateNat DEF TranchesTypeOK
<1>4. x \in Nat /\ v \in Nat
  BY LiveRequest DEF ClaimableShares, WaitingShares, IsState
<1>5. y \in Nat /\ w \in Nat
  <2>1. request'[r].request_state # "Closed" => request'[r].amount \in Nat
    BY DEF TranchesTypeOK, RequestRecords, Closed
  <2> QED BY <2>1 DEF ClaimableShares, WaitingShares, IsState
<1> HIDE DEF D, R, d, k, x, y, v, w, m, n
<1>6. n + d + k = (m + D + R) + (n - m) + (y - x) + (w - v)
  BY <1>1, <1>3, <1>4, <1>5
<1> QED BY <1>2, <1>6 DEF x, y, v, w, m, n

\* The cache counts at least the minted shares and those of every redemption
\* that waits.
LEMMA CacheCovers ==
  ASSUME TranchesTypeOK, SupplyCacheExact, NEW t \in TrancheNames
  PROVE  /\ tranche_supply[t] \in Nat /\ mint_supply[t] \in Nat /\ burnt[t] \in Nat
         /\ CommittedShares(t) \in Nat
         /\ tranche_supply[t] = CommittedShares(t) + burnt[t]
         /\ mint_supply[t] <= tranche_supply[t]
         /\ Max({tranche_supply[t], mint_supply[t]}) = tranche_supply[t]
         /\ EffectiveSupply(t) = tranche_supply[t]
<1> DEFINE D == AmountIn(InState(t, "Deposit", "Claimable"))
           R == AmountIn(InState(t, "Redeem", "Pending"))
<1>1. D \in Nat /\ R \in Nat
  BY InStateNat
<1>2. tranche_supply[t] \in Nat /\ mint_supply[t] \in Nat /\ burnt[t] \in Nat
  BY DEF TranchesTypeOK
<1>3. /\ CommittedShares(t) = mint_supply[t] + D + R
      /\ tranche_supply[t] = CommittedShares(t) + burnt[t]
  BY DEF CommittedShares, SupplyCacheExact
<1> HIDE DEF D, R
<1>4. CommittedShares(t) \in Nat /\ mint_supply[t] <= tranche_supply[t]
  BY <1>1, <1>2, <1>3
<1>5. /\ Max({tranche_supply[t], mint_supply[t]}) = tranche_supply[t]
      /\ Max({mint_supply[t], tranche_supply[t]}) = tranche_supply[t]
  BY <1>2, <1>4, MaxOfTwo
<1> QED BY <1>2, <1>3, <1>4, <1>5 DEF EffectiveSupply

\* A pending redemption is part of what the cache counts besides minted shares.
LEMMA WaitingIsCounted ==
  ASSUME TranchesTypeOK, SupplyCacheExact, NEW r \in Requests, IsState(r, "Pending"),
         TypeOf(r) = "Redeem"
  PROVE  mint_supply[TrancheOf(r)] + request[r].amount <= tranche_supply[TrancheOf(r)]
<1> DEFINE t == TrancheOf(r)
           S == InState(t, "Redeem", "Pending")
           D == AmountIn(InState(t, "Deposit", "Claimable"))
           a == request[r].amount
           gone == S \ {r}
           rest == AmountOf(request, S \ {r})
<1>1. t \in TrancheNames /\ a \in Nat /\ request[r].lane = <<t, "Redeem">>
  BY LiveRequest DEF IsState
<1>2. S \subseteq Requests /\ r \in S
  BY <1>1 DEF InState
<1>3. IsFiniteSet(S) /\ IsFiniteSet(gone)
  BY <1>2, ConstantsNat, FS_Subset
<1>4. \A s \in S : request[s].amount \in Nat
  BY LiveRequest DEF InState, IsState
<1>5. D \in Nat /\ rest \in Nat
  <2>1. \A s \in gone : request[s].amount \in Nat
    BY <1>4
  <2> QED BY <1>3, <2>1, InStateNat, AmountNat
<1>6. AmountOf(request, S) = rest + a
  <2>1. S = gone \cup {r} /\ r \notin gone
    BY <1>2
  <2>2. \A s \in gone : request[s].amount \in Nat
    BY <1>4
  <2> HIDE DEF S, gone
  <2> QED BY <1>1, <1>3, <2>1, <2>2, AmountAdded DEF gone
<1>7. CommittedShares(t) = mint_supply[t] + D + AmountOf(request, S)
  BY DEF CommittedShares, AmountIn
<1>8. /\ tranche_supply[t] = CommittedShares(t) + burnt[t]
      /\ burnt[t] \in Nat /\ mint_supply[t] \in Nat
  BY <1>1, CacheCovers
<1> HIDE DEF t, S, D, a, rest
<1>9. mint_supply[t] + a <= tranche_supply[t]
  BY <1>1, <1>5, <1>6, <1>7, <1>8
<1> QED BY <1>9 DEF t, a

SuppliesExact == TranchesTypeOK /\ SupplyCacheExact

\* The cache stays exact when it moves with the mint, the burnt shares and what
\* the request stands for.
LEMMA CacheMoves ==
  ASSUME SuppliesExact, TranchesTypeOK', NEW r \in Requests, TouchesOnly(r),
         NEW t \in TrancheNames,
         NEW minted \in Int, minted = mint_supply'[t] - mint_supply[t],
         NEW gone \in Int, gone = burnt'[t] - burnt[t],
         NEW c \in Int, c = ClaimableShares(r, t)' - ClaimableShares(r, t),
         NEW w \in Int, w = WaitingShares(r, t)' - WaitingShares(r, t),
         tranche_supply'[t] = tranche_supply[t] + minted + gone + c + w
  PROVE  tranche_supply'[t] = CommittedShares(t)' + burnt'[t]
<1> DEFINE before == CommittedShares(t)
           after == CommittedShares(t)'
           old == burnt[t]
           new == burnt'[t]
           cache == tranche_supply[t]
<1>1. after = before + minted + c + w
  <2>1. CommittedShares(t)' =
          CommittedShares(t) + (mint_supply'[t] - mint_supply[t])
            + (ClaimableShares(r, t)' - ClaimableShares(r, t))
            + (WaitingShares(r, t)' - WaitingShares(r, t))
    BY CommittedStep DEF SuppliesExact
  <2> QED BY <2>1
<1>2. before \in Nat /\ cache = before + old /\ old \in Nat /\ new \in Nat /\ gone = new - old
  BY CacheCovers DEF SuppliesExact, TranchesTypeOK
<1> HIDE DEF before, after, old, new, cache
<1>3. cache + minted + gone + c + w = after + new
  BY <1>1, <1>2
<1> QED BY <1>3 DEF after, new, cache

LEMMA SuppliesStep ==
  ASSUME SuppliesExact, [TranchesNext]_vars
  PROVE  SuppliesExact'
<1>1. TranchesTypeOK /\ TranchesTypeOK' /\ SupplyCacheExact
  BY TypeStep DEF SuppliesExact
<1>2. request \in [Requests -> RequestRecords \cup {Closed}]
  BY <1>1 DEF TranchesTypeOK
<1>3. \A t \in TrancheNames :
        /\ tranche_supply[t] \in Nat /\ mint_supply[t] \in Nat /\ burnt[t] \in Nat
        /\ tranche_supply'[t] \in Nat /\ mint_supply'[t] \in Nat /\ burnt'[t] \in Nat
  BY <1>1 DEF TranchesTypeOK
<1>4. mint_supply \in [TrancheNames -> Nat] /\ burnt \in [TrancheNames -> Nat]
  BY <1>1 DEF TranchesTypeOK
<1>5. ASSUME NEW r \in Requests, NEW t \in TrancheNames, NEW amount \in Amounts,
             CreateDepositRequest(r, t, amount) \/ CreateRedeemRequest(r, t, amount)
      PROVE  SupplyCacheExact'
  <2>1. SUFFICES ASSUME NEW u \in TrancheNames
                 PROVE  tranche_supply'[u] = CommittedShares(u)' + burnt'[u]
    BY DEF SupplyCacheExact
  <2>2. amount \in Nat /\ TouchesOnly(r)
    BY <1>2, <1>5, ConstantsNat
       DEF CreateDepositRequest, CreateRedeemRequest, Open, TouchesOnly
  <2>3. tranche_supply'[u] = tranche_supply[u] /\ burnt'[u] = burnt[u]
    BY <1>5 DEF CreateDepositRequest, CreateRedeemRequest
  <2>4. ClaimableShares(r, u) = 0 /\ WaitingShares(r, u) = 0
    BY <1>5 DEF CreateDepositRequest, CreateRedeemRequest, Open, ClaimableShares,
                WaitingShares, IsState
  <2>5. CASE CreateDepositRequest(r, t, amount)
    <3>1. request'[r].request_state = "Pending" /\ request'[r].lane = <<t, "Deposit">>
      BY <1>2, <2>5 DEF CreateDepositRequest, Open
    <3>2. ClaimableShares(r, u)' = 0 /\ WaitingShares(r, u)' = 0
      BY <3>1 DEF ClaimableShares, WaitingShares, IsState
    <3>3. mint_supply'[u] = mint_supply[u]
      BY <2>5 DEF CreateDepositRequest
    <3> QED BY <1>1, <1>3, <2>2, <2>3, <2>4, <3>2, <3>3, CacheMoves DEF SuppliesExact
  <2>6. CASE CreateRedeemRequest(r, t, amount)
    <3>1. /\ request'[r].request_state = "Pending" /\ request'[r].lane = <<t, "Redeem">>
          /\ request'[r].amount = amount
      BY <1>2, <2>6 DEF CreateRedeemRequest, Open
    <3>2. /\ ClaimableShares(r, u)' = 0
          /\ WaitingShares(r, u)' = IF u = t THEN amount ELSE 0
      BY <3>1 DEF ClaimableShares, WaitingShares, IsState
    <3>3. mint_supply'[u] = IF u = t THEN mint_supply[u] - amount ELSE mint_supply[u]
      BY <1>4, <2>6 DEF CreateRedeemRequest
    <3> QED BY <1>1, <1>3, <2>2, <2>3, <2>4, <3>2, <3>3, CacheMoves DEF SuppliesExact
  <2> QED BY <1>5, <2>5, <2>6
<1>6. ASSUME NEW r \in Requests, ApproveDeposit(r)
      PROVE  SupplyCacheExact'
  <2>1. SUFFICES ASSUME NEW u \in TrancheNames
                 PROVE  tranche_supply'[u] = CommittedShares(u)' + burnt'[u]
    BY DEF SupplyCacheExact
  <2> DEFINE d == CalculateShares(Price(TrancheOf(r)), Precision, request[r].amount)
             t == TrancheOf(r)
  <2>2. /\ request[r] \in RequestRecords /\ t \in TrancheNames
        /\ request[r].lane = <<t, "Deposit">> /\ d \in Nat
    BY <1>1, <1>6, LiveRequest, ApprovedNat DEF ApproveDeposit, CanApprove, IsState
  <2>3. /\ request'[r].request_state = "Claimable" /\ request'[r].amount = d
        /\ request'[r].lane = <<t, "Deposit">> /\ TouchesOnly(r)
    BY <1>2, <1>6, <2>2 DEF ApproveDeposit, MarkClaimable, TouchesOnly, RequestRecords
  <2>4. /\ ClaimableShares(r, u) = 0 /\ WaitingShares(r, u) = 0
        /\ ClaimableShares(r, u)' = (IF u = t THEN d ELSE 0) /\ WaitingShares(r, u)' = 0
    <3>1. request[r].request_state = "Pending"
      BY <1>6 DEF ApproveDeposit, CanApprove, IsState
    <3> HIDE DEF d, t
    <3> QED BY <2>2, <2>3, <3>1 DEF ClaimableShares, WaitingShares, IsState
  <2>5. mint_supply'[u] = mint_supply[u] /\ burnt'[u] = burnt[u]
    BY <1>6 DEF ApproveDeposit
  <2>6. tranche_supply'[u] = tranche_supply[u] + (IF u = t THEN d ELSE 0)
    <3>1. Max({tranche_supply[t], mint_supply[t]}) = tranche_supply[t]
      BY <1>1, <2>2, CacheCovers
    <3>2. SupplyAfter(r, d)[t] = Max({tranche_supply[t], mint_supply[t]}) + d
      BY <1>6, <2>2 DEF SupplyAfter, PostApprovalSupply, ApproveDeposit
    <3>3. tranche_supply' = [tranche_supply EXCEPT ![t] = SupplyAfter(r, d)[t]]
      BY <1>6 DEF ApproveDeposit, UpdateSupplyCache
    <3>4. tranche_supply \in [TrancheNames -> Nat]
      BY <1>1 DEF TranchesTypeOK
    <3> HIDE DEF d, t
    <3> QED BY <1>3, <2>2, <3>1, <3>2, <3>3, <3>4
  <2> HIDE DEF d, t
  <2> QED BY <1>1, <1>3, <2>2, <2>3, <2>4, <2>5, <2>6, CacheMoves DEF SuppliesExact
<1>7. ASSUME NEW r \in Requests, ApproveRedeem(r)
      PROVE  SupplyCacheExact'
  <2>1. SUFFICES ASSUME NEW u \in TrancheNames
                 PROVE  tranche_supply'[u] = CommittedShares(u)' + burnt'[u]
    BY DEF SupplyCacheExact
  <2> DEFINE d == request[r].amount
             t == TrancheOf(r)
  <2>2. /\ request[r] \in RequestRecords /\ t \in TrancheNames
        /\ request[r].lane = <<t, "Redeem">> /\ d \in Nat
        /\ request[r].request_state = "Pending"
    BY <1>1, <1>7, LiveRequest DEF ApproveRedeem, CanApprove, IsState
  <2>3. /\ request'[r].request_state = "Claimable"
        /\ request'[r].lane = <<t, "Redeem">> /\ TouchesOnly(r)
    BY <1>2, <1>7, <2>2 DEF ApproveRedeem, MarkClaimable, TouchesOnly, RequestRecords
  <2>4. /\ ClaimableShares(r, u) = 0 /\ WaitingShares(r, u) = (IF u = t THEN d ELSE 0)
        /\ ClaimableShares(r, u)' = 0 /\ WaitingShares(r, u)' = 0
    <3>1. d = request[r].amount
      OBVIOUS
    <3> HIDE DEF d, t
    <3> QED BY <2>2, <2>3, <3>1 DEF ClaimableShares, WaitingShares, IsState
  <2>5. mint_supply'[u] = mint_supply[u] /\ burnt'[u] = burnt[u]
    BY <1>7 DEF ApproveRedeem
  <2>6. tranche_supply'[u] = tranche_supply[u] - (IF u = t THEN d ELSE 0)
    <3>1. mint_supply[t] + d <= tranche_supply[t]
      BY <1>1, <1>7, WaitingIsCounted DEF ApproveRedeem, CanApprove
    <3>2. Max({tranche_supply[t], mint_supply[t] + d}) = tranche_supply[t]
      <4>1. tranche_supply[t] \in Int /\ mint_supply[t] + d \in Int
        BY <1>3, <2>2
      <4>2. Max({tranche_supply[t], mint_supply[t] + d}) =
              IF tranche_supply[t] >= mint_supply[t] + d
                THEN tranche_supply[t] ELSE mint_supply[t] + d
        BY <4>1, MaxOfTwo
      <4> HIDE DEF d, t
      <4> QED BY <3>1, <4>1, <4>2
    <3>3. SupplyAfter(r, d)[t] = Max({tranche_supply[t], mint_supply[t] + d}) - d
      BY <1>7, <2>2 DEF SupplyAfter, PostApprovalSupply, ApproveRedeem
    <3>4. tranche_supply' = [tranche_supply EXCEPT ![t] = SupplyAfter(r, d)[t]]
      BY <1>7 DEF ApproveRedeem, UpdateSupplyCache
    <3>5. tranche_supply \in [TrancheNames -> Nat]
      BY <1>1 DEF TranchesTypeOK
    <3> HIDE DEF d, t
    <3> QED BY <1>3, <2>2, <3>2, <3>3, <3>4, <3>5
  <2> HIDE DEF d, t
  <2> QED BY <1>1, <1>3, <2>2, <2>3, <2>4, <2>5, <2>6, CacheMoves DEF SuppliesExact
<1>8. ASSUME NEW r \in Requests,
             RejectRequest(r) \/ CancelRequest(r) \/ SkipCanceledQueueRequest(r) \/ Claim(r)
      PROVE  SupplyCacheExact'
  <2>1. SUFFICES ASSUME NEW u \in TrancheNames
                 PROVE  tranche_supply'[u] = CommittedShares(u)' + burnt'[u]
    BY DEF SupplyCacheExact
  <2>2. /\ request[r] \in RequestRecords /\ TrancheOf(r) \in TrancheNames
        /\ request[r].lane = <<TrancheOf(r), TypeOf(r)>>
        /\ request[r].amount \in Nat
    BY <1>1, <1>8, LiveRequest
       DEF RejectRequest, CancelRequest, SkipCanceledQueueRequest, Claim, IsState
  <2>3. request'[r].request_state \in {"Closed", "Canceled"} /\ TouchesOnly(r)
    BY <1>2, <1>8, <2>2
       DEF RejectRequest, CancelRequest, SkipCanceledQueueRequest, Claim, TouchesOnly,
           RequestRecords, Closed
  <2>4. ClaimableShares(r, u)' = 0 /\ WaitingShares(r, u)' = 0
    BY <2>3 DEF ClaimableShares, WaitingShares, IsState
  <2>5. tranche_supply'[u] = tranche_supply[u] /\ burnt'[u] = burnt[u]
    BY <1>8
       DEF RejectRequest, CancelRequest, SkipCanceledQueueRequest, Claim, tranche_vars
  <2>6. mint_supply'[u] = mint_supply[u] + ClaimableShares(r, u) + WaitingShares(r, u)
    <3>1. CASE RejectRequest(r) \/ CancelRequest(r)
      <4>1. mint_supply' = MintBack(r) /\ request[r].request_state = "Pending"
        BY <3>1 DEF RejectRequest, CancelRequest, IsState
      <4>2. MintBack(r)[u] =
              IF TypeOf(r) = "Redeem" /\ u = TrancheOf(r)
                THEN mint_supply[u] + request[r].amount ELSE mint_supply[u]
        BY <1>4, <2>2 DEF MintBack
      <4>3. /\ ClaimableShares(r, u) = 0
            /\ WaitingShares(r, u) =
                 IF TypeOf(r) = "Redeem" /\ u = TrancheOf(r) THEN request[r].amount ELSE 0
        BY <2>2, <4>1 DEF ClaimableShares, WaitingShares, IsState
      <4> QED BY <1>3, <2>2, <4>1, <4>2, <4>3
    <3>2. CASE SkipCanceledQueueRequest(r)
      <4>1. ClaimableShares(r, u) = 0 /\ WaitingShares(r, u) = 0
        BY <3>2 DEF SkipCanceledQueueRequest, ClaimableShares, WaitingShares, IsState
      <4>2. mint_supply' = mint_supply
        BY <3>2 DEF SkipCanceledQueueRequest
      <4> QED BY <1>3, <4>1, <4>2
    <3>3. CASE Claim(r)
      <4>1. /\ WaitingShares(r, u) = 0
            /\ ClaimableShares(r, u) =
                 IF TypeOf(r) = "Deposit" /\ u = TrancheOf(r) THEN request[r].amount ELSE 0
        BY <2>2, <3>3 DEF Claim, ClaimableShares, WaitingShares, IsState
      <4>2. mint_supply'[u] =
              IF TypeOf(r) = "Deposit" /\ u = TrancheOf(r)
                THEN mint_supply[u] + request[r].amount ELSE mint_supply[u]
        BY <1>4, <2>2, <3>3 DEF Claim
      <4> QED BY <1>3, <2>2, <4>1, <4>2
    <3> QED BY <1>8, <3>1, <3>2, <3>3
  <2>7. ClaimableShares(r, u) \in Nat /\ WaitingShares(r, u) \in Nat
    BY <2>2 DEF ClaimableShares, WaitingShares
  <2> QED BY <1>1, <1>3, <2>3, <2>4, <2>5, <2>6, <2>7, CacheMoves DEF SuppliesExact
<1>9. ASSUME request' = request,
             \A u \in TrancheNames :
               tranche_supply'[u] - mint_supply'[u] - burnt'[u]
                 = tranche_supply[u] - mint_supply[u] - burnt[u]
      PROVE  SupplyCacheExact'
  <2>1. SUFFICES ASSUME NEW u \in TrancheNames
                 PROVE  tranche_supply'[u] = CommittedShares(u)' + burnt'[u]
    BY DEF SupplyCacheExact
  <2> DEFINE D == AmountIn(InState(u, "Deposit", "Claimable"))
             R == AmountIn(InState(u, "Redeem", "Pending"))
             c == CommittedShares(u)
             d == CommittedShares(u)'
  <2>2. c = mint_supply[u] + D + R /\ d = mint_supply'[u] + D + R
    BY <1>9 DEF CommittedShares, AmountIn, InState, IsState
  <2>3. D \in Nat /\ R \in Nat
    BY <1>1, InStateNat
  <2>4. tranche_supply[u] = c + burnt[u]
    BY <1>1, CacheCovers
  <2> HIDE DEF D, R, c, d
  <2>5. tranche_supply'[u] = d + burnt'[u]
    <3>1. tranche_supply'[u] - mint_supply'[u] - burnt'[u]
            = tranche_supply[u] - mint_supply[u] - burnt[u]
      BY <1>9
    <3>2. /\ tranche_supply[u] \in Nat /\ mint_supply[u] \in Nat /\ burnt[u] \in Nat
          /\ tranche_supply'[u] \in Nat /\ mint_supply'[u] \in Nat /\ burnt'[u] \in Nat
      BY <1>3
    <3>3. tranche_supply'[u] = mint_supply'[u] + (D + R) + burnt'[u]
      <4>1. tranche_supply[u] - mint_supply[u] - burnt[u] = D + R
        BY <2>2, <2>3, <2>4, <3>2
      <4> QED BY <2>3, <3>1, <3>2, <4>1
    <3> QED BY <2>2, <2>3, <3>2, <3>3
  <2> QED BY <2>5 DEF d
<1>10. ASSUME NEW n \in Navs, UpdateVaultNav(n)
       PROVE  SupplyCacheExact'
  <2>1. \A u \in TrancheNames : tranche_supply'[u] = tranche_supply[u]
    BY <1>1, <1>10, CacheCovers DEF UpdateVaultNav, PreservedSupply
  <2>2. request' = request /\ mint_supply' = mint_supply /\ burnt' = burnt
    BY <1>10 DEF UpdateVaultNav
  <2> QED BY <1>9, <2>1, <2>2
<1>11. ASSUME NEW t \in TrancheNames, BurnShares(t)
       PROVE  SupplyCacheExact'
  <2>1. request' = request /\ tranche_supply' = tranche_supply
    BY <1>11 DEF BurnShares, tranche_vars
  <2>2. \A u \in TrancheNames :
          /\ mint_supply'[u] = IF u = t THEN mint_supply[u] - 1 ELSE mint_supply[u]
          /\ burnt'[u] = IF u = t THEN burnt[u] + 1 ELSE burnt[u]
    BY <1>4, <1>11 DEF BurnShares
  <2>3. \A u \in TrancheNames :
          tranche_supply'[u] - mint_supply'[u] - burnt'[u]
            = tranche_supply[u] - mint_supply[u] - burnt[u]
    BY <1>3, <2>1, <2>2
  <2> QED BY <1>9, <2>1, <2>3
<1>12. ASSUME Tick \/ UNCHANGED vars
       PROVE  SupplyCacheExact'
  <2>1. /\ request' = request /\ tranche_supply' = tranche_supply
        /\ mint_supply' = mint_supply /\ burnt' = burnt
    BY <1>12 DEF Tick, vars, vault_vars, tranche_vars
  <2> QED BY <1>9, <2>1
<1>13. SupplyCacheExact'
  BY <1>5, <1>6, <1>7, <1>8, <1>10, <1>11, <1>12
     DEF TranchesNext, CreateTrancheRequest, SettleTrancheRequest
<1> QED BY <1>1, <1>13 DEF SuppliesExact

LEMMA SuppliesInit ==
  ASSUME TranchesInit
  PROVE  SuppliesExact
<1>1. TranchesTypeOK
  BY TypeInit
<1>2. \A t, type, state : state # "Closed" => InState(t, type, state) = {}
  BY DEF TranchesInit, InState, IsState, Closed
<1>3. AmountIn({}) = 0
  BY NoAmount DEF AmountIn
<1>4. \A t \in TrancheNames : mint_supply[t] = 0 /\ burnt[t] = 0 /\ tranche_supply[t] = 0
  BY DEF TranchesInit
<1>5. ASSUME NEW t \in TrancheNames
      PROVE  CommittedShares(t) = 0
  <2>1. /\ InState(t, "Deposit", "Claimable") = {}
        /\ InState(t, "Redeem", "Pending") = {}
    BY <1>2
  <2>2. /\ AmountIn(InState(t, "Deposit", "Claimable")) = 0
        /\ AmountIn(InState(t, "Redeem", "Pending")) = 0
    BY <1>3, <2>1, Zenon
  <2> QED BY <1>4, <2>2 DEF CommittedShares
<1> QED BY <1>1, <1>4, <1>5 DEF SuppliesExact, SupplyCacheExact

\* The supply cached for a tranche is the minted shares, those of approved
\* deposits nobody has claimed, those of redemptions that wait and the burnt ones.
THEOREM SuppliesAreExact == TranchesSpec => []SupplyCacheExact
<1>1. TranchesInit => SuppliesExact
  BY SuppliesInit
<1>2. SuppliesExact /\ [TranchesNext]_vars => SuppliesExact'
  BY SuppliesStep
<1>3. SuppliesExact => SupplyCacheExact
  BY DEF SuppliesExact
<1> QED BY <1>1, <1>2, <1>3, PTL DEF TranchesSpec

-----------------------------------------------------------------------------
(* The floor under junior. *)

LEMMA OnlyApprovalsMakeClaimable ==
  ASSUME TranchesTypeOK, [TranchesNext]_vars, NEW r \in Requests,
         request[r].request_state = "Pending", request'[r].request_state = "Claimable"
  PROVE  ApproveDeposit(r) \/ ApproveRedeem(r)
<1>1. request \in [Requests -> RequestRecords \cup {Closed}]
  BY DEF TranchesTypeOK
<1>2. request[r] \in RequestRecords
  BY LiveRequest
<1>3. ASSUME NEW s \in Requests, NEW t \in TrancheNames, NEW amount \in Amounts,
             CreateDepositRequest(s, t, amount) \/ CreateRedeemRequest(s, t, amount)
      PROVE  FALSE
  BY <1>1, <1>3 DEF CreateDepositRequest, CreateRedeemRequest, Open, IsState
<1>4. ASSUME NEW s \in Requests, ApproveDeposit(s) \/ ApproveRedeem(s)
      PROVE  s = r
  BY <1>1, <1>4 DEF ApproveDeposit, ApproveRedeem, MarkClaimable
<1>5. ASSUME NEW s \in Requests,
             \/ RejectRequest(s) \/ CancelRequest(s)
             \/ SkipCanceledQueueRequest(s) \/ Claim(s)
      PROVE  FALSE
  <2>1. CASE RejectRequest(s) \/ SkipCanceledQueueRequest(s) \/ Claim(s)
    BY <1>1, <2>1 DEF RejectRequest, SkipCanceledQueueRequest, Claim, Closed
  <2>2. CASE CancelRequest(s)
    BY <1>1, <1>2, <2>2 DEF CancelRequest, Closed, RequestRecords
  <2> QED BY <1>5, <2>1, <2>2
<1>6. ASSUME \/ \E n \in Navs : UpdateVaultNav(n)
             \/ \E t \in TrancheNames : BurnShares(t)
             \/ Tick
             \/ UNCHANGED vars
      PROVE  FALSE
  <2>1. request' = request
    BY <1>6 DEF UpdateVaultNav, BurnShares, Tick, vars
  <2> QED BY <2>1
<1> QED BY <1>3, <1>4, <1>5, <1>6
        DEF TranchesNext, CreateTrancheRequest, SettleTrancheRequest

CommittedCounts == \A t \in TrancheNames : CommittedShares(t) \in Nat

LEMMA CommittedNat == SuppliesExact => CommittedCounts
BY CacheCovers DEF SuppliesExact, CommittedCounts

\* What the floor is checked with is what the vault answers for afterwards.
LEMMA FloorCounts ==
  ASSUME SuppliesExact, SuppliesExact', NEW r \in Requests, NEW d \in Nat,
         ~IsState(r, "Closed"), tranche_supply' = UpdateSupplyCache(r, d), burnt' = burnt,
         \A t \in TrancheNames : burnt[t] = 0
  PROVE  /\ SupplyAfter(r, d)["senior"] = CommittedShares("senior")'
         /\ SupplyAfter(r, d)["junior"] = CommittedShares("junior")'
<1>1. TrancheOf(r) \in TrancheNames
  BY LiveRequest DEF SuppliesExact, IsState
<1>2. \A t \in TrancheNames : tranche_supply'[t] = SupplyAfter(r, d)[t]
  <2>1. \A t \in TrancheNames :
          /\ Max({tranche_supply[t], mint_supply[t]}) = tranche_supply[t]
    BY CacheCovers DEF SuppliesExact
  <2>2. \A t \in TrancheNames : t # TrancheOf(r) => SupplyAfter(r, d)[t] = tranche_supply[t]
    BY <2>1 DEF SupplyAfter
  <2>3. tranche_supply \in [TrancheNames -> Nat]
    BY DEF SuppliesExact, TranchesTypeOK
  <2> QED BY <1>1, <2>2, <2>3 DEF UpdateSupplyCache
<1>3. ASSUME NEW t \in TrancheNames
      PROVE  tranche_supply'[t] = CommittedShares(t)'
  <2> DEFINE c == CommittedShares(t)'
  <2>1. tranche_supply'[t] = c + burnt'[t] /\ burnt'[t] = 0
    BY DEF SuppliesExact, SupplyCacheExact
  <2>2. c \in Nat
    <3>1. CommittedCounts'
      BY CommittedNat, PTL
    <3> QED BY <3>1 DEF CommittedCounts
  <2> HIDE DEF c
  <2>3. tranche_supply'[t] = c
    BY <2>1, <2>2
  <2> QED BY <2>3 DEF c
<1>4. "senior" \in TrancheNames /\ "junior" \in TrancheNames
  BY DEF TrancheNames
<1> QED BY <1>2, <1>3, <1>4

LEMMA FloorStep ==
  ASSUME SuppliesExact, [TranchesNext]_vars, NEW r \in Requests
  PROVE  KeepsJuniorFloor(r)
<1>1. SUFFICES ASSUME request[r].request_state = "Pending",
                      request'[r].request_state = "Claimable",
                      request[r].lane \in {<<"senior", "Deposit">>, <<"junior", "Redeem">>},
                      \A t \in TrancheNames : burnt[t] = 0
               PROVE  JuniorRatioHolds'
  BY DEF KeepsJuniorFloor
<1>2. TranchesTypeOK /\ SuppliesExact'
  BY SuppliesStep DEF SuppliesExact
<1>3. ApproveDeposit(r) \/ ApproveRedeem(r)
  BY <1>1, <1>2, OnlyApprovalsMakeClaimable
<1>4. /\ ~IsState(r, "Closed") /\ CanApprove(r)
      /\ burnt' = burnt /\ settings' = settings /\ tranche_nav' = tranche_nav /\ nav' = nav
  BY <1>3 DEF ApproveDeposit, ApproveRedeem, CanApprove, IsState
<1>5. PICK d \in Nat : tranche_supply' = UpdateSupplyCache(r, d) /\ JuniorFloor(r, d)
  <2>1. /\ CalculateShares(Price(TrancheOf(r)), Precision, request[r].amount) \in Nat
        /\ request[r].amount \in Nat
    BY <1>1, <1>2, <1>4, ApprovedNat, LiveRequest
  <2> QED BY <1>3, <2>1 DEF ApproveDeposit, ApproveRedeem
<1>6. JuniorRatioAllows(SupplyAfter(r, d))
  BY <1>1, <1>5 DEF JuniorFloor
<1>7. /\ SupplyAfter(r, d)["senior"] = CommittedShares("senior")'
      /\ SupplyAfter(r, d)["junior"] = CommittedShares("junior")'
  BY <1>1, <1>2, <1>4, <1>5, FloorCounts
<1>8. /\ Price("senior")' = Price("senior")
      /\ Price("junior")' = Price("junior")
  BY <1>4 DEF Price
<1> QED BY <1>4, <1>6, <1>7, <1>8 DEF JuniorRatioAllows, JuniorRatioHolds, AssetsFromSupply

\* No approval leaves junior below its floor, counting every share the vault
\* answers for.
THEOREM JuniorFloorIsKept == TranchesSpec => ApprovalKeepsJuniorFloor
<1>1. TranchesInit => SuppliesExact
  BY SuppliesInit
<1>2. SuppliesExact /\ [TranchesNext]_vars => SuppliesExact'
  BY SuppliesStep
<1>3. SuppliesExact /\ [TranchesNext]_vars => [\A r \in Requests : KeepsJuniorFloor(r)]_vars
  BY FloorStep
<1> QED BY <1>1, <1>2, <1>3, PTL DEF TranchesSpec, ApprovalKeepsJuniorFloor

-----------------------------------------------------------------------------
(* Losses reach senior last. *)

\* Assets that a tranche keeps are worth to its shares what they were, but for
\* what the two divisions round away.
LEMMA RoundingLoss ==
  ASSUME NEW S \in Nat \ {0}, NEW P \in Nat \ {0}, NEW before \in Nat,
         NEW after \in Nat, NEW old \in Nat, NEW kept \in Nat,
         old = (S * before) \div P, kept >= old, after = (kept * P) \div S
  PROVE  (before - after) * S <= (P - 1) + (S - 1)
<1> DEFINE sb == S * before
           kp == kept * P
           sa == S * after
           po == P * old
<1>1. sb \in Nat /\ kp \in Nat /\ sa \in Nat /\ po \in Nat
  BY Product
<1>2. sb < po + P
  BY <1>1, Quotient
<1>3. kp < sa + S
  BY <1>1, Quotient
<1>4. po <= kp
  <2>1. PICK k \in Nat : kept = old + k
    <3>1. kept - old \in Nat /\ kept = old + (kept - old)
      OBVIOUS
    <3> QED BY <3>1
  <2>2. kp = po + k * P /\ k * P \in Nat
    BY <2>1, Product
  <2> HIDE DEF kp, po
  <2> QED BY <1>1, <2>2
<1>5. (before - after) * S = sb - sa
  OBVIOUS
<1> HIDE DEF sb, kp, sa, po
<1> QED BY <1>1, <1>2, <1>3, <1>4, <1>5

LEMMA SeniorStep ==
  ASSUME SuppliesExact, [TranchesNext]_vars
  PROVE  TakesFromSeniorLast
<1> DEFINE S == tranche_supply'["senior"]
           before == tranche_nav["senior"]
           after == tranche_nav'["senior"]
           lost == (before - after) * S
<1>1. SUFFICES ASSUME nav_version' # nav_version, CommittedShares("senior") > 0,
                      lost > (Precision - 1) + (S - 1)
               PROVE  tranche_nav'["junior"] = 0
  BY DEF TakesFromSeniorLast
<1>2. TranchesTypeOK /\ TranchesTypeOK'
  BY TypeStep DEF SuppliesExact
<1>3. PICK n \in Navs : UpdateVaultNav(n)
  <2>1. ASSUME NEW r \in Requests,
               \/ ApproveDeposit(r) \/ ApproveRedeem(r) \/ RejectRequest(r)
               \/ CancelRequest(r) \/ SkipCanceledQueueRequest(r) \/ Claim(r)
        PROVE  nav_version' = nav_version
    BY <2>1 DEF ApproveDeposit, ApproveRedeem, RejectRequest, CancelRequest,
                SkipCanceledQueueRequest, Claim, vault_vars
  <2>2. ASSUME NEW r \in Requests, NEW t \in TrancheNames, NEW amount \in Amounts,
               CreateDepositRequest(r, t, amount) \/ CreateRedeemRequest(r, t, amount)
        PROVE  nav_version' = nav_version
    BY <2>2 DEF CreateDepositRequest, CreateRedeemRequest, vault_vars
  <2>3. ASSUME (\E t \in TrancheNames : BurnShares(t)) \/ Tick \/ UNCHANGED vars
        PROVE  nav_version' = nav_version
    BY <2>3 DEF BurnShares, Tick, vars, vault_vars
  <2> QED BY <1>1, <2>1, <2>2, <2>3
          DEF TranchesNext, CreateTrancheRequest, SettleTrancheRequest
<1>4. "senior" \in TrancheNames /\ "junior" \in TrancheNames
  BY DEF TrancheNames
<1>5. /\ S = EffectiveSupply("senior") /\ S \in Nat \ {0}
      /\ EffectiveSupply("junior") \in Nat
      /\ before \in Nat /\ after \in Nat /\ n \in Nat
  <2>1. S = EffectiveSupply("senior")
    BY <1>3, <1>4 DEF UpdateVaultNav, PreservedSupply
  <2>2. /\ EffectiveSupply("senior") = CommittedShares("senior") + burnt["senior"]
        /\ CommittedShares("senior") \in Nat /\ burnt["senior"] \in Nat
    BY <1>4, CacheCovers DEF SuppliesExact
  <2>3. EffectiveSupply("senior") \in Nat \ {0}
    BY <1>1, <2>2
  <2>4. EffectiveSupply("junior") \in Nat
    BY <1>2, <1>4, EffectiveNat
  <2>5. before \in Nat /\ after \in Nat
    BY <1>2, <1>4 DEF TranchesTypeOK
  <2> QED BY <2>1, <2>3, <2>4, <2>5, ConstantsNat
<1>6. ~FirstWaterfall
  <2>1. SUFFICES ASSUME FirstWaterfall PROVE FALSE
    OBVIOUS
  <2>2. before = 0
    BY <1>4, <2>1 DEF FirstWaterfall
  <2>3. after * S \in Nat /\ Precision \in Nat \ {0}
    BY <1>5, Product, ConstantsNat
  <2>4. lost = 0 - after * S
    BY <1>5, <2>2
  <2> DEFINE q == after * S
  <2> HIDE DEF lost, q, S
  <2>5. q \in Nat /\ lost = 0 - q
    BY <2>3, <2>4 DEF q, S
  <2> QED BY <1>1, <1>5, <2>3, <2>5
<1> DEFINE W == Waterfall(n)
           old == AssetsFromSupply(S, before)
<1>7. /\ after = NavFromAssets(W["senior"], S)
      /\ tranche_nav'["junior"] = NavFromAssets(W["junior"], EffectiveSupply("junior"))
  BY <1>3, <1>4, <1>5, <1>6 DEF UpdateVaultNav
<1>8. /\ W["senior"] \in Nat /\ old \in Nat
      /\ W["senior"] < old => W["junior"] = 0
  BY <1>2, <1>4, <1>5, WaterfallNat
<1>9. W["senior"] < old
  <2> DEFINE kept == W["senior"]
  <2>1. SUFFICES ASSUME kept >= old PROVE FALSE
    BY <1>8
  <2>2. /\ old = (S * before) \div Precision /\ after = (kept * Precision) \div S
        /\ Precision \in Nat \ {0}
    BY <1>5, <1>7, ConstantsNat DEF AssetsFromSupply, NavFromAssets
  <2> HIDE DEF S, before, after, old, kept, W
  <2>3. lost <= (Precision - 1) + (S - 1)
    BY <1>5, <1>8, <2>1, <2>2, RoundingLoss DEF kept
  <2>4. lost \in Int
    BY <1>5
  <2> HIDE DEF lost
  <2> QED BY <1>1, <1>5, <2>2, <2>3, <2>4
<1>10. NavFromAssets(0, EffectiveSupply("junior")) = 0
  <2> DEFINE J == EffectiveSupply("junior")
  <2>1. J \in Nat /\ 0 * Precision = 0
    BY <1>5, ConstantsNat
  <2> HIDE DEF J
  <2>2. J # 0 => 0 \div J = 0
    BY <2>1
  <2> QED BY <2>1, <2>2 DEF NavFromAssets, J
<1> QED BY <1>7, <1>8, <1>9, <1>10

\* A NAV update takes from senior only when it leaves junior nothing, whatever
\* the precision, but for less than one unit of assets and one of price a share.
THEOREM SeniorIsLastToLose == TranchesSpec => SeniorLosesLast
<1>1. TranchesInit => SuppliesExact
  BY SuppliesInit
<1>2. SuppliesExact /\ [TranchesNext]_vars => SuppliesExact'
  BY SuppliesStep
<1>3. SuppliesExact /\ [TranchesNext]_vars => [TakesFromSeniorLast]_vars
  BY SeniorStep
<1> QED BY <1>1, <1>2, <1>3, PTL DEF TranchesSpec, SeniorLosesLast
=============================================================================
