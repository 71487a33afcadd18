----------------------------- MODULE MCTranches -----------------------------
(***************************************************************************)
(* One run of Tranches in two scenarios.  In "value" two requests at a     *)
(* time meet NAV updates, time and burnt shares, without queues, over a    *)
(* floor of half of the value under junior and with a target that senior   *)
(* reaches in one of the two seconds of a year.  In "lanes" three requests *)
(* wait in the queues of the two tranches, under limits on their amounts.  *)
(***************************************************************************)
EXTENDS Tranches, TLC

VARIABLE scenario

Unlimited == [l \in Lanes |-> 0]
Queued == [senior_target_bps |-> 5000, min_junior_ratio_bps |-> 0,
           min_request_amounts |-> [Unlimited EXCEPT ![<<"senior", "Deposit">>] = 2],
           max_request_amounts |-> [Unlimited EXCEPT ![<<"junior", "Redeem">>] = 1],
           queues |-> RequestTypes]
Floored == [senior_target_bps |-> 10000, min_junior_ratio_bps |-> 5000,
            min_request_amounts |-> Unlimited, max_request_amounts |-> Unlimited,
            queues |-> {}]

MCSettings == {Queued, Floored}
MCSymmetry == Permutations(Requests)

InLanes == INSTANCE Tranches WITH
  Navs <- {1}, MaxTime <- 1, MaxUpdates <- 1, MaxBurnt <- 0

AtMostTwoOpen == Cardinality({r \in Requests : ~IsState(r, "Closed")}) <= 2

MCInit ==
  /\ TranchesInit
  /\ scenario = IF settings = Queued THEN "lanes" ELSE "value"
  /\ scenario = "lanes" => nav = 0

MCNext ==
  /\ \/ scenario = "value" /\ TranchesNext /\ AtMostTwoOpen'
     \/ scenario = "lanes" /\ InLanes!TranchesNext
  /\ UNCHANGED scenario

MCSpec == MCInit /\ [][MCNext]_<<vars, scenario>>
=============================================================================
