-------------------------------- MODULE Units --------------------------------
(***************************************************************************)
(* Sums, as numbers of units: what r weighs are the pairs <<r, 1>> to      *)
(* <<r, amount[r]>>, so a total is the cardinality of a set.  Properties   *)
(* use it for the totals that the program's counters stand for.            *)
(***************************************************************************)
EXTENDS Naturals, FiniteSets

Units(amount, S) == UNION {{r} \X (1 .. amount[r]) : r \in S}

\* The sum of the amounts of some of the accounts.
AmountOf(accounts, S) == Cardinality(Units([r \in S |-> accounts[r].amount], S))
=============================================================================
