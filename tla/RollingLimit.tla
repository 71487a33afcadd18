----------------------------- MODULE RollingLimit -----------------------------
(***************************************************************************)
(* Vault::consume_rolling_limit: the amount spent in the current window of *)
(* slots, bounded by a limit.  One window each exists for redemptions,     *)
(* external withdrawals, manager moves and, per user, instant deposits and *)
(* redemptions; all of them call this function.                            *)
(*                                                                         *)
(* A window is [start, amount].  A limit of 0 switches the check off and   *)
(* leaves the window alone.                                                *)
(***************************************************************************)
EXTENDS Integers

NoWindow == [start |-> 0, amount |-> 0]

Windows == [start : Nat, amount : Nat]

\* The window restarts at the current slot when it was never used or is over.
\* The mutant takes a window to be over as soon as it has begun.
WindowExpiredAtStart(w, slot, window_slots) ==
  (w.start = 0 /\ w.amount = 0) \/ slot >= w.start

WindowExpired(w, slot, window_slots) ==
  (w.start = 0 /\ w.amount = 0) \/ slot >= w.start + window_slots

\* What the current window holds before this amount is added.  The mutant
\* empties the window and forgets to move its start.
CurrentWindowKeepingStart(w, slot, window_slots) ==
  IF WindowExpired(w, slot, window_slots) THEN [w EXCEPT !.amount = 0] ELSE w

CurrentWindow(w, slot, window_slots) ==
  IF WindowExpired(w, slot, window_slots)
    THEN [start |-> slot, amount |-> 0]
    ELSE w

\* The require! calls of consume_rolling_limit.
RollingLimitAllows(w, amount, slot, limit, window_slots) ==
  \/ limit = 0
  \/ /\ window_slots > 0
     /\ CurrentWindow(w, slot, window_slots).amount + amount <= limit

\* The window after a successful call, and the mutant that checks the amount and
\* does not record it.
ConsumeWithoutRecording(w, amount, slot, limit, window_slots) ==
  IF limit = 0 THEN w ELSE CurrentWindow(w, slot, window_slots)

ConsumeRollingLimit(w, amount, slot, limit, window_slots) ==
  IF limit = 0 THEN w
  ELSE [CurrentWindow(w, slot, window_slots) EXCEPT !.amount = @ + amount]
===============================================================================
