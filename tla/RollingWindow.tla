---------------------------- MODULE RollingWindow ----------------------------
(***************************************************************************)
(* A rolling limit in use: calls that consume it at moments the callers    *)
(* choose, against the record of everything they ever consumed.  The       *)
(* record is not part of the program, which keeps [start, amount] only.    *)
(***************************************************************************)
EXTENDS RollingLimit, Units

CONSTANTS
  Limit,          \* the configured limit, not 0
  WindowSlots,    \* rolling_limit_window_slots
  Amounts,        \* amounts of a call
  MaxSlot         \* bound: the clock

\* What the module asks of its constants.
RollingWindowAssumption ==
  /\ Limit \in Nat \ {0} /\ WindowSlots \in Nat \ {0}
  /\ Amounts \subseteq Nat /\ MaxSlot \in Nat

VARIABLES
  slot,     \* the clock
  window,   \* what the program keeps
  spent     \* spent[s]: what was consumed in slot s

vars == <<slot, window, spent>>

Init ==
  /\ slot = 0
  /\ window = NoWindow
  /\ spent = [s \in 0 .. MaxSlot |-> 0]

\* A call that passes the limit.  One that does not changes nothing.
Consume(amount) ==
  /\ RollingLimitAllows(window, amount, slot, Limit, WindowSlots)
  /\ window' = ConsumeRollingLimit(window, amount, slot, Limit, WindowSlots)
  /\ spent' = [spent EXCEPT ![slot] = @ + amount]
  /\ UNCHANGED slot

Tick ==
  /\ slot < MaxSlot
  /\ slot' = slot + 1
  /\ UNCHANGED <<window, spent>>

Next == (\E amount \in Amounts : Consume(amount)) \/ Tick

Spec == Init /\ [][Next]_vars

\* What was consumed in the slots from first to last, as a number of units.
SpentIn(first, last) ==
  Cardinality(Units(spent, (first .. last) \cap DOMAIN spent))

\* The window's amount is what was really consumed since its start: nothing
\* that was consumed in the window is forgotten, nothing older still counts.
WindowCountsSpending == window.amount = SpentIn(window.start, slot)

\* The windows follow one another without sliding, so a span as long as a
\* window can touch two of them: at most twice the limit leaves in it, never
\* more.
SpanWithinTwiceLimit ==
  \A first \in 0 .. MaxSlot : SpentIn(first, first + WindowSlots - 1) <= 2 * Limit
==============================================================================
