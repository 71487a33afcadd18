--------------------------- MODULE Components_proofs ---------------------------
(***************************************************************************)
(* Theorems about three components that share no state: the rolling        *)
(* window, the performance fee of NavUpdate and the late decisions of      *)
(* Fulfillment.  Each is stated for every value of its component's         *)
(* constants that its assumption admits.                                   *)
(***************************************************************************)
EXTENDS Components, Units_proofs

-----------------------------------------------------------------------------
(* What was spent in a span of slots *)

SpentTypeOK == slot \in 0 .. MaxSlot /\ spent \in [0 .. MaxSlot -> Nat]

LEMMA SpanFinite ==
  ASSUME RollingWindowAssumption, SpentTypeOK, NEW a \in Int, NEW b \in Int
  PROVE  /\ IsFiniteSet((a .. b) \cap DOMAIN spent)
         /\ \A s \in (a .. b) \cap DOMAIN spent : spent[s] \in Nat
         /\ IsFiniteSet(Units(spent, (a .. b) \cap DOMAIN spent))
         /\ SpentIn(a, b) \in Nat
<1>1. IsFiniteSet(0 .. MaxSlot)
  BY FS_Interval DEF RollingWindowAssumption
<1>2. DOMAIN spent = 0 .. MaxSlot /\ \A s \in 0 .. MaxSlot : spent[s] \in Nat
  BY DEF SpentTypeOK
<1>3. IsFiniteSet((a .. b) \cap DOMAIN spent)
  <2>1. (a .. b) \cap DOMAIN spent \in SUBSET (0 .. MaxSlot)
    BY <1>2
  <2> QED BY <1>1, <2>1, FS_Subset
<1>4. \A s \in (a .. b) \cap DOMAIN spent : spent[s] \in Nat
  BY <1>2
<1> QED BY <1>3, <1>4, UnitsFinite DEF SpentIn

\* A span is covered by the two parts it is cut into.
LEMMA SpentCut ==
  ASSUME RollingWindowAssumption, SpentTypeOK, NEW a \in Int, NEW b \in Int, NEW c \in Int
  PROVE  SpentIn(a, c) <= SpentIn(a, b - 1) + SpentIn(b, c)
<1> DEFINE A == (a .. (b - 1)) \cap DOMAIN spent
           B == (b .. c) \cap DOMAIN spent
           C == (a .. c) \cap DOMAIN spent
           U == Units(spent, A)
           V == Units(spent, B)
           W == Units(spent, C)
<1>1. /\ IsFiniteSet(U) /\ SpentIn(a, b - 1) = Cardinality(U)
      /\ IsFiniteSet(V) /\ SpentIn(b, c) = Cardinality(V)
      /\ IsFiniteSet(W) /\ SpentIn(a, c) = Cardinality(W)
  BY SpanFinite DEF SpentIn
<1>2. W \subseteq U \cup V
  <2>1. C \subseteq A \cup B
    <3>1. DOMAIN spent \subseteq Int
      BY DEF SpentTypeOK
    <3> QED BY <3>1
  <2> HIDE DEF A, B, C
  <2> QED BY <2>1 DEF Units
<1> HIDE DEF U, V, W
<1>3. /\ IsFiniteSet(U \cup V)
      /\ Cardinality(U \cup V) = Cardinality(U) + Cardinality(V) - Cardinality(U \cap V)
  BY <1>1, FS_Union
<1>4. Cardinality(U \cap V) \in Nat
  <2>1. U \cap V \in SUBSET U
    OBVIOUS
  <2> QED BY <1>1, <2>1, FS_Subset, FS_CardinalityType
<1>5. Cardinality(W) <= Cardinality(U \cup V)
  BY <1>2, <1>3, FS_Subset
<1>6. Cardinality(U) \in Nat /\ Cardinality(V) \in Nat /\ Cardinality(W) \in Nat
  BY <1>1, FS_CardinalityType
<1> QED BY <1>1, <1>3, <1>4, <1>5, <1>6

\* A longer span spends no less.
LEMMA SpentLess ==
  ASSUME RollingWindowAssumption, SpentTypeOK, NEW a \in Int, NEW b \in Int,
         NEW c \in Int, NEW d \in Int, a <= c, d <= b
  PROVE  SpentIn(c, d) <= SpentIn(a, b)
<1> DEFINE C == (c .. d) \cap DOMAIN spent
           A == (a .. b) \cap DOMAIN spent
           V == Units(spent, C)
           U == Units(spent, A)
<1>1. /\ IsFiniteSet(U) /\ SpentIn(a, b) = Cardinality(U)
      /\ IsFiniteSet(V) /\ SpentIn(c, d) = Cardinality(V)
  BY SpanFinite DEF SpentIn
<1>2. V \in SUBSET U
  <2>1. C \subseteq A
    OBVIOUS
  <2> HIDE DEF A, C
  <2> QED BY <2>1 DEF Units
<1> HIDE DEF U, V
<1> QED BY <1>1, <1>2, FS_Subset

\* Nothing was spent where every slot spent nothing.
LEMMA NothingSpent ==
  ASSUME NEW a \in Int, NEW b \in Int, SpentTypeOK,
         \A s \in 0 .. MaxSlot : a <= s /\ s <= b => spent[s] = 0
  PROVE  SpentIn(a, b) = 0
<1> DEFINE S == (a .. b) \cap DOMAIN spent
<1>1. \A s \in S : spent[s] = 0
  BY DEF SpentTypeOK
<1> HIDE DEF S
<1>2. Units(spent, S) = {}
  BY <1>1 DEF Units
<1> QED BY <1>2, FS_EmptySet DEF SpentIn, S

\* A call adds its amount to the spans that hold the current slot.
LEMMA SpentMore ==
  ASSUME RollingWindowAssumption, SpentTypeOK, NEW amount \in Nat,
         spent' = [spent EXCEPT ![slot] = @ + amount],
         NEW a \in Int, NEW b \in Int
  PROVE  SpentIn(a, b)' = SpentIn(a, b) + (IF a <= slot /\ slot <= b THEN amount ELSE 0)
<1> DEFINE T == (a .. b) \cap DOMAIN spent
           S == T \ {slot}
           old == spent
           new == spent'
<1>1. /\ DOMAIN spent = 0 .. MaxSlot /\ DOMAIN spent' = 0 .. MaxSlot
      /\ slot \in 0 .. MaxSlot /\ slot \in Int
      /\ spent[slot] \in Nat /\ spent'[slot] = spent[slot] + amount
      /\ \A s \in 0 .. MaxSlot : s # slot => spent'[s] = spent[s]
  BY DEF SpentTypeOK
<1>2. /\ SpentIn(a, b) = Cardinality(Units(old, T))
      /\ SpentIn(a, b)' = Cardinality(Units(new, T))
  BY <1>1 DEF SpentIn
<1>3. /\ IsFiniteSet(T) /\ \A s \in T : old[s] \in Nat
      /\ Cardinality(Units(old, T)) \in Nat
  BY SpanFinite DEF SpentIn
<1>4. slot \in T <=> a <= slot /\ slot <= b
  BY <1>1
<1>5. \A s \in S : new[s] = old[s]
  BY <1>1
<1>6. S \subseteq T /\ slot \notin S /\ (slot \in T => T = S \cup {slot})
  OBVIOUS
<1>7. slot \notin T => S = T
  OBVIOUS
<1> HIDE DEF S, T
<1>8. CASE slot \in T
  <2> DEFINE x == old[slot]
             y == new[slot]
  <2>1. IsFiniteSet(S) /\ (\A s \in S : old[s] \in Nat)
    BY <1>3, <1>6, FS_Subset
  <2>2. x \in Nat /\ y \in Nat /\ y = x + amount
    BY <1>1
  <2> HIDE DEF old, new
  <2>3. Cardinality(Units(old, T)) = Cardinality(Units(old, S)) + x
    BY <1>6, <1>8, <2>1, <2>2, UnitsAdded
  <2>4. Cardinality(Units(new, T)) = Cardinality(Units(old, S)) + y
    BY <1>5, <1>6, <1>8, <2>1, <2>2, UnitsAdded
  <2>5. Cardinality(Units(old, S)) \in Nat
    BY <2>1, UnitsFinite
  <2> HIDE DEF x, y
  <2> QED BY <1>2, <1>4, <1>8, <2>2, <2>3, <2>4, <2>5
<1>9. CASE slot \notin T
  <2> HIDE DEF old, new
  <2>1. Units(new, T) = Units(old, T)
    BY <1>5, <1>7, <1>9, UnitsSame
  <2> QED BY <1>2, <1>3, <1>4, <1>9, <2>1
<1> QED BY <1>8, <1>9

-----------------------------------------------------------------------------
(* The rolling window *)

IsExpired == WindowExpired(window, slot, WindowSlots)

\* The window is a record of what was consumed since its start, within the
\* limit, and the span before it that a window's length reaches back to spent no
\* more than the limit either.
WindowStands ==
  /\ SpentTypeOK
  /\ window \in Windows
  /\ window.start <= slot
  /\ window.amount <= Limit
  /\ \A s \in 0 .. MaxSlot : s > slot => spent[s] = 0
  /\ IsExpired => spent[slot] = 0
  /\ WindowCountsSpending
  /\ \A a \in 0 .. MaxSlot : a + WindowSlots > window.start =>
                               SpentIn(a, window.start - 1) <= Limit

\* The spans that hold the current slot.
CurrentSpansBounded ==
  \A a \in 0 .. MaxSlot :
    a <= slot /\ slot <= a + WindowSlots - 1 => SpentIn(a, a + WindowSlots - 1) <= 2 * Limit

\* What a span spends from the window's start on is in the window.
LEMMA SpentSinceStart ==
  ASSUME RollingWindowAssumption, WindowStands, NEW b \in Int
  PROVE  SpentIn(window.start, b) <= window.amount
<1>1. SpentTypeOK /\ window.start \in Nat /\ slot \in Nat /\ window.amount \in Nat
  BY DEF WindowStands, Windows, SpentTypeOK
<1> DEFINE since == SpentIn(window.start, slot)
           later == SpentIn(slot + 1, b)
           all == SpentIn(window.start, b)
<1>2. all <= SpentIn(window.start, (slot + 1) - 1) + later
  BY <1>1, SpentCut
<1>3. (slot + 1) - 1 = slot
  BY <1>1
<1>4. later = 0
  <2>1. \A s \in 0 .. MaxSlot : slot + 1 <= s /\ s <= b => spent[s] = 0
    BY <1>1 DEF WindowStands
  <2> QED BY <1>1, <2>1, NothingSpent
<1>5. since = window.amount
  BY DEF WindowStands, WindowCountsSpending
<1>6. all \in Nat
  <2>1. window.start \in Int
    BY <1>1
  <2> QED BY <1>1, <2>1, SpanFinite
<1>7. all <= since + later
  BY <1>2, <1>3
<1> HIDE DEF since, later, all
<1>8. all <= window.amount
  BY <1>1, <1>4, <1>5, <1>6, <1>7
<1> QED BY <1>8 DEF all

LEMMA CurrentSpans == RollingWindowAssumption /\ WindowStands => CurrentSpansBounded
<1> SUFFICES ASSUME RollingWindowAssumption, WindowStands,
                    NEW a \in 0 .. MaxSlot, a <= slot, slot <= a + WindowSlots - 1
             PROVE  SpentIn(a, a + WindowSlots - 1) <= 2 * Limit
  BY DEF CurrentSpansBounded
<1>1. /\ SpentTypeOK /\ window.start \in Nat /\ window.amount \in Nat /\ slot \in Nat
      /\ Limit \in Nat /\ WindowSlots \in Nat /\ a \in Nat
      /\ window.start <= slot /\ window.amount <= Limit
  BY DEF WindowStands, Windows, RollingWindowAssumption, SpentTypeOK
<1> DEFINE end == a + WindowSlots - 1
           before == SpentIn(a, window.start - 1)
           since == SpentIn(window.start, end)
           all == SpentIn(a, end)
<1>2. end \in Int
  BY <1>1
<1>3. all <= before + since
  <2> HIDE DEF end
  <2> QED BY <1>1, <1>2, SpentCut
<1>4. since <= window.amount
  <2> HIDE DEF end
  <2> QED BY <1>2, SpentSinceStart
<1>5. before <= Limit
  <2>1. a + WindowSlots > window.start
    BY <1>1
  <2> QED BY <2>1 DEF WindowStands
<1>6. all \in Nat /\ before \in Nat /\ since \in Nat
  <2>1. window.start - 1 \in Int /\ window.start \in Int /\ a \in Int
    BY <1>1
  <2> HIDE DEF end
  <2> QED BY <1>1, <1>2, <2>1, SpanFinite
<1> HIDE DEF before, since, all
<1>7. all <= 2 * Limit
  BY <1>1, <1>3, <1>4, <1>5, <1>6
<1> QED BY <1>7 DEF all

LEMMA ConsumeStep ==
  ASSUME RollingWindowAssumption, WindowStands, NEW amount \in Amounts, Consume(amount)
  PROVE  WindowStands'
<1>1. /\ SpentTypeOK /\ window \in Windows
      /\ window.start \in Nat /\ window.amount \in Nat /\ window.start <= slot
      /\ slot \in 0 .. MaxSlot /\ slot \in Nat /\ slot \in Int
      /\ Limit \in Nat \ {0} /\ WindowSlots \in Nat \ {0} /\ amount \in Nat
      /\ spent \in [0 .. MaxSlot -> Nat]
  BY DEF WindowStands, Windows, RollingWindowAssumption, SpentTypeOK
<1>2. slot' = slot /\ spent' = [spent EXCEPT ![slot] = @ + amount]
  BY DEF Consume
<1>3. SpentTypeOK' /\ spent'[slot] = spent[slot] + amount
      /\ \A s \in 0 .. MaxSlot : s > slot => spent'[s] = 0
  BY <1>1, <1>2 DEF WindowStands, SpentTypeOK
<1>4. ASSUME NEW a \in Int, NEW b \in Int
      PROVE  SpentIn(a, b)' = SpentIn(a, b) + (IF a <= slot /\ slot <= b THEN amount ELSE 0)
             /\ SpentIn(a, b) \in Nat
  BY <1>1, <1>2, SpentMore, SpanFinite
<1>5. CASE IsExpired
  <2>1. window' = [start |-> slot, amount |-> amount] /\ amount <= Limit
    BY <1>1, <1>5 DEF Consume, RollingLimitAllows, ConsumeRollingLimit, CurrentWindow, IsExpired
  <2>2. spent[slot] = 0
    BY <1>5 DEF WindowStands
  <2>3. SpentIn(slot, slot)' = amount
    <3>1. SpentIn(slot, slot) = 0
      <4>1. \A s \in 0 .. MaxSlot : slot <= s /\ s <= slot => spent[s] = 0
        BY <1>1, <2>2
      <4> QED BY <1>1, <4>1, NothingSpent
    <3>2. SpentIn(slot, slot)' = SpentIn(slot, slot) + amount
      <4>1. PICK a \in Int : a = slot
        BY <1>1
      <4>2. SpentIn(a, a)' = SpentIn(a, a) + (IF a <= slot /\ slot <= a THEN amount ELSE 0)
        BY <1>4
      <4>3. a <= slot /\ slot <= a
        BY <1>1, <4>1
      <4>4. SpentIn(a, a)' = SpentIn(a, a) + amount
        BY <4>2, <4>3
      <4> QED BY <1>2, <4>1, <4>4 DEF SpentIn
    <3> QED BY <1>1, <3>1, <3>2
  <2>4. WindowCountsSpending'
    BY <1>2, <2>1, <2>3 DEF WindowCountsSpending, SpentIn
  <2>5. IsExpired' => spent'[slot] = 0
    BY <1>1, <1>2, <1>3, <2>1, <2>2 DEF IsExpired, WindowExpired
  <2>6. ASSUME NEW a \in 0 .. MaxSlot, a + WindowSlots > slot
        PROVE  SpentIn(a, slot - 1)' <= Limit
    <3> DEFINE b == slot - 1
    <3>1. SpentIn(a, b)' = SpentIn(a, b) /\ SpentIn(a, b) \in Nat
      <4>1. PICK c \in Int : c = slot - 1
        BY <1>1
      <4>2. ~(slot <= c)
        BY <1>1, <4>1
      <4>3. SpentIn(a, c)' = SpentIn(a, c) + 0 /\ SpentIn(a, c) \in Nat
        BY <1>4, <4>2
      <4>4. SpentIn(a, c)' = SpentIn(a, c)
        BY <4>3
      <4> QED BY <1>2, <4>1, <4>3, <4>4 DEF SpentIn
    <3>2. a >= window.start
      BY <1>1, <1>5, <2>6 DEF IsExpired, WindowExpired
    <3>3. SpentIn(a, b) <= SpentIn(window.start, slot)
      <4>1. b <= slot /\ b \in Int /\ window.start \in Int /\ a \in Int /\ window.start <= a
        BY <1>1, <3>2
      <4> HIDE DEF b
      <4> QED BY <1>1, <4>1, SpentLess
    <3>4. SpentIn(window.start, slot) = window.amount /\ window.amount <= Limit
      BY DEF WindowStands, WindowCountsSpending
    <3> DEFINE x == SpentIn(a, b)
    <3>5. x \in Nat /\ x <= window.amount
      BY <3>1, <3>3, <3>4
    <3> HIDE DEF x
    <3>6. x <= Limit
      BY <1>1, <3>4, <3>5
    <3> QED BY <3>1, <3>6 DEF x
  <2>7. \A a \in 0 .. MaxSlot :
          a + WindowSlots > window'.start => SpentIn(a, window.start - 1)' <= Limit
    BY <1>2, <2>1, <2>6 DEF SpentIn
  <2> QED BY <1>1, <1>2, <1>3, <2>1, <2>4, <2>5, <2>7 DEF WindowStands, Windows
<1>6. CASE ~IsExpired
  <2>1. /\ window' = [window EXCEPT !.amount = @ + amount]
        /\ window.amount + amount <= Limit
    BY <1>1, <1>6 DEF Consume, RollingLimitAllows, ConsumeRollingLimit, CurrentWindow, IsExpired
  <2>2. /\ window' \in Windows /\ window'.start = window.start
        /\ window'.amount = window.amount + amount
    BY <1>1, <2>1 DEF Windows
  <2>3. WindowCountsSpending'
    <3>1. PICK a \in Int, b \in Int : a = window.start /\ b = slot
      BY <1>1
    <3>2. SpentIn(a, b)' = SpentIn(a, b) + amount
      <4>1. SpentIn(a, b)' = SpentIn(a, b) + (IF a <= slot /\ slot <= b THEN amount ELSE 0)
        BY <1>4
      <4>2. a <= slot /\ slot <= b
        BY <1>1, <3>1
      <4> QED BY <4>1, <4>2
    <3>3. SpentIn(a, b) = window.amount
      BY <3>1 DEF WindowStands, WindowCountsSpending
    <3>4. SpentIn(a, b)' = window.amount + amount
      BY <3>2, <3>3
    <3> QED BY <1>2, <2>2, <3>1, <3>4 DEF WindowCountsSpending, SpentIn
  <2>4. ~IsExpired'
    BY <1>1, <1>2, <1>6, <2>2 DEF IsExpired, WindowExpired
  <2>5. ASSUME NEW a \in 0 .. MaxSlot, a + WindowSlots > window.start
        PROVE  SpentIn(a, window.start - 1)' <= Limit
    <3>1. PICK c \in Int : c = window.start - 1
      BY <1>1
    <3>2. ~(slot <= c)
      BY <1>1, <3>1
    <3>3. SpentIn(a, c)' = SpentIn(a, c) + 0 /\ SpentIn(a, c) \in Nat
      BY <1>4, <3>2
    <3>4. SpentIn(a, c) <= Limit
      BY <2>5, <3>1 DEF WindowStands
    <3>5. SpentIn(a, c)' <= Limit
      BY <3>3, <3>4
    <3> QED BY <2>2, <3>1, <3>5 DEF SpentIn
  <2> QED BY <1>1, <1>2, <1>3, <2>1, <2>2, <2>3, <2>4, <2>5 DEF WindowStands, SpentIn
<1> QED BY <1>5, <1>6

LEMMA TickStep ==
  ASSUME RollingWindowAssumption, WindowStands, Tick
  PROVE  WindowStands'
<1>1. /\ SpentTypeOK /\ window \in Windows
      /\ window.start \in Nat /\ window.amount \in Nat /\ window.start <= slot
      /\ slot \in Nat /\ slot + 1 \in 0 .. MaxSlot /\ WindowSlots \in Nat \ {0}
      /\ slot' = slot + 1 /\ spent' = spent /\ window' = window
  BY DEF WindowStands, Windows, RollingWindowAssumption, SpentTypeOK, Tick
<1>2. SpentTypeOK'
  BY <1>1 DEF SpentTypeOK
<1>3. (\A s \in 0 .. MaxSlot : s > slot' => spent'[s] = 0) /\ spent'[slot'] = 0
  BY <1>1 DEF WindowStands
<1>4. WindowCountsSpending'
  <2> DEFINE since == SpentIn(window.start, slot)
             more == SpentIn(window.start, slot + 1)
             next == SpentIn(slot + 1, slot + 1)
  <2>1. /\ window.start \in Int /\ slot \in Int /\ slot + 1 \in Int
        /\ (slot + 1) - 1 = slot /\ slot <= slot + 1 /\ window.start <= window.start
    BY <1>1
  <2>2. next = 0
    <3>1. \A s \in 0 .. MaxSlot : slot + 1 <= s /\ s <= slot + 1 => spent[s] = 0
      BY <1>1, <1>3
    <3> QED BY <1>1, <2>1, <3>1, NothingSpent
  <2>3. more <= since + next
    <3>1. more <= SpentIn(window.start, (slot + 1) - 1) + next
      BY <1>1, <2>1, SpentCut
    <3> QED BY <2>1, <3>1
  <2>4. since <= more
    BY <1>1, <2>1, SpentLess
  <2>5. since \in Nat /\ more \in Nat
    BY <1>1, <2>1, SpanFinite
  <2>6. since = window.amount
    BY DEF WindowStands, WindowCountsSpending
  <2> HIDE DEF since, more, next
  <2>7. more = window.amount
    BY <2>2, <2>3, <2>4, <2>5, <2>6
  <2> QED BY <1>1, <2>7 DEF WindowCountsSpending, SpentIn, more
<1>5. \A a \in 0 .. MaxSlot :
        a + WindowSlots > window'.start => SpentIn(a, window.start - 1)' <= Limit
  BY <1>1 DEF WindowStands, SpentIn
<1>6. window'.start <= slot'
  BY <1>1
<1> QED BY <1>1, <1>2, <1>3, <1>4, <1>5, <1>6 DEF WindowStands

LEMMA WindowInit ==
  ASSUME RollingWindowAssumption, Init
  PROVE  WindowStands /\ SpanWithinTwiceLimit
<1>1. /\ SpentTypeOK /\ \A s \in 0 .. MaxSlot : spent[s] = 0
      /\ slot = 0 /\ window = [start |-> 0, amount |-> 0]
      /\ WindowSlots \in Nat /\ Limit \in Nat
  BY DEF Init, SpentTypeOK, NoWindow, RollingWindowAssumption
<1>2. \A a, b \in Int : SpentIn(a, b) = 0
  BY <1>1, NothingSpent
<1>3. SpanWithinTwiceLimit
  <2>1. \A a \in 0 .. MaxSlot : a \in Int /\ a + WindowSlots - 1 \in Int
    BY <1>1
  <2>2. 0 <= 2 * Limit
    BY <1>1
  <2> QED BY <1>2, <2>1, <2>2 DEF SpanWithinTwiceLimit
<1>4. WindowCountsSpending
  BY <1>1, <1>2 DEF WindowCountsSpending
<1>5. \A a \in 0 .. MaxSlot :
        a + WindowSlots > window.start => SpentIn(a, window.start - 1) <= Limit
  <2>1. \A a \in 0 .. MaxSlot : a \in Int /\ window.start - 1 \in Int
    BY <1>1
  <2>2. 0 <= Limit
    BY <1>1
  <2> QED BY <1>2, <2>1, <2>2
<1>6. slot \in 0 .. MaxSlot
  BY <1>1 DEF SpentTypeOK
<1> QED BY <1>1, <1>3, <1>4, <1>5, <1>6 DEF WindowStands, Windows

LEMMA WindowStep ==
  ASSUME RollingWindowAssumption, WindowStands, [Next]_vars
  PROVE  WindowStands'
<1>1. CASE UNCHANGED vars
  <2>1. slot' = slot /\ spent' = spent /\ window' = window
    BY <1>1 DEF vars
  <2> QED BY <2>1 DEF WindowStands, SpentTypeOK, IsExpired, WindowExpired,
                      WindowCountsSpending, SpentIn
<1> QED BY <1>1, ConsumeStep, TickStep DEF Next

\* The window's amount is what was consumed since its start.
THEOREM WindowIsExact ==
  ASSUME RollingWindowAssumption
  PROVE  Spec => []WindowCountsSpending
<1>1. Init => WindowStands
  BY WindowInit
<1>2. WindowStands /\ [Next]_vars => WindowStands'
  BY WindowStep
<1>3. WindowStands => WindowCountsSpending
  BY DEF WindowStands
<1> QED BY <1>1, <1>2, <1>3, PTL DEF Spec

\* A span changes only while it holds the current slot.
LEMMA SpansStep ==
  ASSUME RollingWindowAssumption, WindowStands, SpanWithinTwiceLimit, [Next]_vars,
         CurrentSpansBounded'
  PROVE  SpanWithinTwiceLimit'
<1>1. SUFFICES ASSUME NEW a \in 0 .. MaxSlot
               PROVE  SpentIn(a, a + WindowSlots - 1)' <= 2 * Limit
  BY DEF SpanWithinTwiceLimit
<1>2. /\ SpentTypeOK /\ a \in Int /\ slot \in Int /\ WindowSlots \in Nat
      /\ a + WindowSlots - 1 \in Int
  BY DEF WindowStands, SpentTypeOK, RollingWindowAssumption
<1>3. SpentIn(a, a + WindowSlots - 1) <= 2 * Limit
  BY DEF SpanWithinTwiceLimit
<1>4. CASE spent' = spent
  BY <1>3, <1>4 DEF SpentIn
<1>5. ASSUME NEW amount \in Amounts, Consume(amount)
      PROVE  SpentIn(a, a + WindowSlots - 1)' <= 2 * Limit
  <2>1. slot' = slot /\ spent' = [spent EXCEPT ![slot] = @ + amount] /\ amount \in Nat
    BY <1>5 DEF Consume, RollingWindowAssumption
  <2>2. CASE a <= slot /\ slot <= a + WindowSlots - 1
    BY <2>1, <2>2 DEF CurrentSpansBounded
  <2>3. CASE ~(a <= slot /\ slot <= a + WindowSlots - 1)
    <3>1. PICK b \in Int : b = a + WindowSlots - 1
      BY <1>2
    <3>2. SpentIn(a, b)' = SpentIn(a, b) + 0 /\ SpentIn(a, b) \in Nat
      <4>1. SpentIn(a, b)' = SpentIn(a, b) + (IF a <= slot /\ slot <= b THEN amount ELSE 0)
        BY <1>2, <2>1, SpentMore
      <4>2. ~(a <= slot /\ slot <= b)
        BY <2>3, <3>1
      <4>3. SpentIn(a, b) \in Nat
        BY <1>2, SpanFinite
      <4> QED BY <4>1, <4>2, <4>3
    <3>3. SpentIn(a, b)' = SpentIn(a, b)
      BY <3>2
    <3> QED BY <1>3, <3>1, <3>3
  <2> QED BY <2>2, <2>3
<1>6. CASE Tick \/ UNCHANGED vars
  <2>1. spent' = spent
    BY <1>6 DEF Tick, vars
  <2> QED BY <1>4, <2>1
<1> QED BY <1>5, <1>6 DEF Next

\* In the span of one window at most twice the limit leaves.
THEOREM SpansAreBounded ==
  ASSUME RollingWindowAssumption
  PROVE  Spec => []SpanWithinTwiceLimit
<1>1. Init => WindowStands /\ SpanWithinTwiceLimit
  BY WindowInit
<1>2. WindowStands /\ [Next]_vars => WindowStands'
  BY WindowStep
<1>3. WindowStands => CurrentSpansBounded
  BY CurrentSpans
<1>4. WindowStands /\ SpanWithinTwiceLimit /\ [Next]_vars /\ CurrentSpansBounded'
        => SpanWithinTwiceLimit'
  BY SpansStep
<1> QED BY <1>1, <1>2, <1>3, <1>4, PTL DEF Spec

-----------------------------------------------------------------------------
(* The performance fee *)

\* Every fee was taken on a gain below the mark, no later than the last
\* crystallization.
ChargesBelowMark ==
  /\ cfg.interval \in Nat
  /\ high_water_mark \in Nat /\ now \in Nat
  /\ last_fee_crystallization_timestamp \in Nat
  /\ last_fee_crystallization_timestamp <= now
  /\ \A c \in charges :
       /\ c.from \in Nat /\ c.to \in Nat /\ c.at \in Nat
       /\ c.from <= c.to /\ c.to <= high_water_mark
       /\ c.at <= last_fee_crystallization_timestamp

FeesStand ==
  ChargesBelowMark /\ Fee!EachGainChargedOnce /\ Fee!ChargesSpaced

LEMMA FeeInit ==
  ASSUME Fee!NavUpdateAssumption, Fee!NavInit
  PROVE  FeesStand
<1>1. cfg.interval \in Nat
  BY DEF Fee!NavUpdateAssumption, Fee!NavInit
<1>2. charges = {} /\ high_water_mark = 0 /\ now = 1 /\ last_fee_crystallization_timestamp = 0
  BY DEF Fee!NavInit
<1> QED BY <1>1, <1>2 DEF FeesStand, ChargesBelowMark, Fee!EachGainChargedOnce, Fee!ChargesSpaced

\* A fee is taken on the gain from the mark to the new value, an interval after
\* the last crystallization.
LEMMA ChargeStep ==
  ASSUME FeesStand, NEW n \in Nat, n > high_water_mark,
         high_water_mark' = n, last_fee_crystallization_timestamp' = now,
         now' = now, cfg' = cfg,
         cfg.interval = 0 \/ now - last_fee_crystallization_timestamp >= cfg.interval,
         NEW new, new.from = high_water_mark, new.to = n, new.at = now,
         charges' = charges \cup {new}
  PROVE  FeesStand'
<1>1. /\ cfg.interval \in Nat /\ high_water_mark \in Nat /\ now \in Nat
      /\ last_fee_crystallization_timestamp \in Nat
      /\ last_fee_crystallization_timestamp <= now
  BY DEF FeesStand, ChargesBelowMark
<1>2. \A c \in charges :
        /\ c.from \in Nat /\ c.to \in Nat /\ c.at \in Nat
        /\ c.from <= c.to /\ c.to <= high_water_mark
        /\ c.at <= last_fee_crystallization_timestamp
  BY DEF FeesStand, ChargesBelowMark
<1>3. ChargesBelowMark'
  BY <1>1, <1>2 DEF ChargesBelowMark
<1>4. Fee!EachGainChargedOnce'
  <2>1. \A c \in charges : c.to <= new.from
    BY <1>2
  <2>2. \A c, d \in charges : c # d => c.to <= d.from \/ d.to <= c.from
    BY DEF FeesStand, Fee!EachGainChargedOnce
  <2> QED BY <2>1, <2>2 DEF Fee!EachGainChargedOnce
<1>5. Fee!ChargesSpaced'
  <2>1. \A c \in charges :
          Fee!AbsDiff(c.at, new.at) >= cfg.interval /\ Fee!AbsDiff(new.at, c.at) >= cfg.interval
    BY <1>1, <1>2 DEF Fee!AbsDiff
  <2>2. \A c, d \in charges : c # d => Fee!AbsDiff(c.at, d.at) >= cfg.interval
    BY DEF FeesStand, Fee!ChargesSpaced
  <2>3. \A c, d \in charges' : c # d => Fee!AbsDiff(c.at, d.at) >= cfg.interval
    BY <2>1, <2>2
  <2> QED BY <2>3 DEF Fee!ChargesSpaced, Fee!AbsDiff
<1> QED BY <1>3, <1>4, <1>5 DEF FeesStand

LEMMA FeeStep ==
  ASSUME Fee!NavUpdateAssumption, FeesStand, [Fee!NavNext]_(Fee!vars)
  PROVE  FeesStand'
<1>1. ASSUME charges' = charges, cfg' = cfg, now' \in Nat, now <= now',
             last_fee_crystallization_timestamp' \in
               {last_fee_crystallization_timestamp, now},
             high_water_mark' \in Nat, high_water_mark <= high_water_mark'
      PROVE  FeesStand'
  <2>1. ChargesBelowMark'
    BY <1>1 DEF FeesStand, ChargesBelowMark
  <2>2. Fee!EachGainChargedOnce' /\ Fee!ChargesSpaced'
    BY <1>1 DEF FeesStand, Fee!EachGainChargedOnce, Fee!ChargesSpaced, Fee!AbsDiff
  <2> QED BY <2>1, <2>2 DEF FeesStand
<1>2. high_water_mark \in Nat /\ now \in Nat
  BY DEF FeesStand, ChargesBelowMark
<1>3. ASSUME NEW n \in Navs, Fee!UpdateVaultNav(n)
      PROVE  FeesStand'
  <2>1. n \in Nat /\ cfg' = cfg /\ now' = now /\ Fee!MaybeCrystallizePerformanceFee(n)
    BY <1>3 DEF Fee!UpdateVaultNav, Fee!NavUpdateAssumption
  <2>2. CASE UNCHANGED <<Fee!minted, Fee!fee_state>>
    <3>1. /\ charges' = charges /\ high_water_mark' = high_water_mark
          /\ last_fee_crystallization_timestamp' = last_fee_crystallization_timestamp
      BY <2>2 DEF Fee!fee_state
    <3> QED BY <1>1, <1>2, <2>1, <3>1
  <2>3. CASE /\ n > high_water_mark /\ Fee!IntervalElapsed
             /\ high_water_mark' = n
             /\ last_fee_crystallization_timestamp' = now
             /\ ~Fee!FeeIsDue
             /\ charges' = charges
    BY <1>1, <1>2, <2>1, <2>3
  <2>4. CASE /\ n > high_water_mark /\ Fee!IntervalElapsed
             /\ high_water_mark' = n
             /\ last_fee_crystallization_timestamp' = now
             /\ Fee!FeeIsDue
             /\ charges' = charges \cup
                  {[from |-> high_water_mark, to |-> n, at |-> now, version |-> nav_version]}
    <3> DEFINE new == [from |-> high_water_mark, to |-> n, at |-> now, version |-> nav_version]
    <3>1. cfg.interval = 0 \/ now - last_fee_crystallization_timestamp >= cfg.interval
      <4>1. performance_fee_bps # 0 /\ high_water_mark # 0
        <5>1. performance_fee_bps > 0 /\ high_water_mark > 0
          BY <2>4 DEF Fee!FeeIsDue
        <5> QED BY <5>1
      <4> QED BY <2>4, <4>1 DEF Fee!IntervalElapsed
    <3>2. /\ new.from = high_water_mark /\ new.to = n /\ new.at = now
          /\ charges' = charges \cup {new}
      BY <2>4
    <3> HIDE DEF new
    <3> QED BY <2>1, <2>4, <3>1, <3>2, ChargeStep
  <2> QED BY <2>1, <2>2, <2>3, <2>4 DEF Fee!MaybeCrystallizePerformanceFee
<1>4. ASSUME \/ \E bps \in FeeRates : Fee!SetPerformanceFee(bps)
             \/ \E shares \in Supplies : Fee!SetSupply(shares)
             \/ UNCHANGED Fee!vars
      PROVE  FeesStand'
  <2>1. /\ charges' = charges /\ cfg' = cfg /\ now' = now
        /\ high_water_mark' = high_water_mark
        /\ last_fee_crystallization_timestamp' = last_fee_crystallization_timestamp
    BY <1>4 DEF Fee!SetPerformanceFee, Fee!SetSupply, Fee!vars, Fee!fee_state
  <2> QED BY <1>1, <1>2, <2>1
<1>5. CASE Fee!Tick
  <2>1. /\ charges' = charges /\ cfg' = cfg /\ now' = now + 1
        /\ high_water_mark' = high_water_mark
        /\ last_fee_crystallization_timestamp' = last_fee_crystallization_timestamp
    BY <1>5 DEF Fee!Tick, Fee!fee_state
  <2>2. now' \in Nat /\ now <= now'
    BY <1>2, <2>1
  <2> QED BY <1>1, <1>2, <2>1, <2>2
<1> QED BY <1>3, <1>4, <1>5 DEF Fee!NavNext

\* The spans of value that fees were taken on do not overlap.
THEOREM GainsAreChargedOnce ==
  ASSUME Fee!NavUpdateAssumption
  PROVE  Fee!NavSpec => []EachGainChargedOnce
<1>1. Fee!NavInit => FeesStand
  BY FeeInit
<1>2. FeesStand /\ [Fee!NavNext]_(Fee!vars) => FeesStand'
  BY FeeStep
<1>3. FeesStand => EachGainChargedOnce
  BY DEF FeesStand, EachGainChargedOnce
<1> QED BY <1>1, <1>2, <1>3, PTL DEF Fee!NavSpec

\* Two fees are an interval apart, whatever the fee rate was in between.
THEOREM FeesAreSpaced ==
  ASSUME Fee!NavUpdateAssumption
  PROVE  Fee!NavSpec => []ChargesSpaced
<1>1. Fee!NavInit => FeesStand
  BY FeeInit
<1>2. FeesStand /\ [Fee!NavNext]_(Fee!vars) => FeesStand'
  BY FeeStep
<1>3. FeesStand => ChargesSpaced
  BY DEF FeesStand, ChargesSpaced
<1> QED BY <1>1, <1>2, <1>3, PTL DEF Fee!NavSpec

\* The shares for a fee, solved for against the supply s after the mint; and what
\* it is for them to be the most that are worth no more than the fee.
SolvedFor(shares, s, total, fee) ==
  /\ fee = 0 \/ total > fee
  /\ shares = IF fee = 0 THEN 0 ELSE (fee * s) \div (total - fee)

WorthTheFee(shares, s, total, fee) ==
  /\ shares * total <= fee * (s + shares)
  /\ IF total = 0 THEN shares = 0
                  ELSE (shares + 1) * total > fee * (s + shares + 1)

LEMMA QuotientIsWorthTheFee ==
  ASSUME NEW s \in Nat, NEW fee \in Nat \ {0}, NEW d \in Nat \ {0}, NEW h \in Nat,
         NEW fs \in Nat, fs = fee * s, NEW dh \in Nat, dh = d * h, dh <= fs, fs < dh + d
  PROVE  WorthTheFee(h, s, d + fee, fee)
<1> DEFINE fh == fee * h
           left == h * (d + fee)
           right == fee * (s + h)
           more == (h + 1) * (d + fee)
           less == fee * (s + h + 1)
<1>1. /\ left = dh + fh /\ right = fs + fh
      /\ more = (dh + d) + (fh + fee) /\ less = fs + (fh + fee)
      /\ fh \in Nat
  OBVIOUS
<1> HIDE DEF fh, left, right, more, less
<1>2. left <= right /\ more > less /\ d + fee # 0
  BY <1>1
<1> QED BY <1>2 DEF left, right, more, less, WorthTheFee

LEMMA Dilution ==
  ASSUME NEW s \in Nat, NEW total \in Nat, NEW fee \in Nat, NEW shares,
         SolvedFor(shares, s, total, fee)
  PROVE  shares \in Nat /\ WorthTheFee(shares, s, total, fee)
<1>1. CASE fee = 0
  <2>1. shares = 0
    BY <1>1 DEF SolvedFor
  <2>2. 0 * total = 0 /\ 0 * (s + 0) = 0 /\ (0 + 1) * total = total /\ 0 * (s + 0 + 1) = 0
    OBVIOUS
  <2> QED BY <1>1, <2>1, <2>2 DEF WorthTheFee
<1>2. CASE fee # 0
  <2>1. PICK d \in Nat \ {0} : total = d + fee
    <3>1. total > fee
      BY <1>2 DEF SolvedFor
    <3>2. total - fee \in Nat \ {0} /\ total = (total - fee) + fee
      BY <3>1
    <3> QED BY <3>2
  <2>2. PICK fs \in Nat : fs = fee * s
    OBVIOUS
  <2>3. shares = fs \div d
    <3>1. total - fee = d
      BY <2>1
    <3> QED BY <1>2, <2>2, <3>1, Zenon DEF SolvedFor
  <2>4. PICK h \in Nat, dh \in Nat : h = shares /\ dh = d * h /\ dh <= fs /\ fs < dh + d
    <3>1. /\ fs \div d \in Nat /\ d * (fs \div d) \in Nat
          /\ d * (fs \div d) <= fs /\ fs < d * (fs \div d) + d
      OBVIOUS
    <3> QED BY <2>3, <3>1
  <2> QED BY <1>2, <2>1, <2>2, <2>4, QuotientIsWorthTheFee
<1> QED BY <1>1, <1>2

FeeTypes ==
  /\ performance_fee_bps \in Nat /\ high_water_mark \in Nat /\ supply \in Nat

LEMMA FeeAssetsNat ==
  ASSUME Fee!NavUpdateAssumption, FeeTypes, NEW n \in Nat, n > high_water_mark
  PROVE  /\ Fee!FeeAssets(n, high_water_mark, supply) \in Nat
         /\ Fee!TotalAssets(n, supply) \in Nat
         /\ supply = 0 => Fee!FeeAssets(n, high_water_mark, supply) = 0
<1> DEFINE g == n - high_water_mark
           a == supply * g
           b == a \div Precision
           c == b * performance_fee_bps
           t == supply * n
<1>1. /\ Precision \in Nat \ {0} /\ performance_fee_bps \in Nat /\ supply \in Nat
      /\ g \in Nat
  BY DEF Fee!NavUpdateAssumption, FeeTypes
<1>2. a \in Nat /\ t \in Nat /\ (supply = 0 => a = 0)
  <2> HIDE DEF g
  <2> QED BY <1>1
<1>3. b \in Nat /\ t \div Precision \in Nat /\ (a = 0 => b = 0)
  <2> HIDE DEF a, t
  <2> QED BY <1>1, <1>2
<1>4. c \in Nat /\ (b = 0 => c = 0)
  <2> HIDE DEF b
  <2> QED BY <1>1, <1>3
<1>5. c \div Fee!MAX_BPS \in Nat /\ (c = 0 => c \div Fee!MAX_BPS = 0)
  <2> HIDE DEF c
  <2> QED BY <1>4 DEF Fee!MAX_BPS
<1>6. /\ Fee!FeeAssets(n, high_water_mark, supply) = c \div Fee!MAX_BPS
      /\ Fee!TotalAssets(n, supply) = t \div Precision
  BY DEF Fee!FeeAssets, Fee!TotalAssets
<1> HIDE DEF a, b, c, t
<1> QED BY <1>2, <1>3, <1>4, <1>5, <1>6

\* What a fee mints, and what it is worth.
LEMMA FeeShares ==
  ASSUME Fee!NavUpdateAssumption, FeeTypes, NEW n \in Nat, n > high_water_mark,
         Fee!FeeCanBePaid(n, high_water_mark, supply)
  PROVE  LET shares == Fee!PerformanceFeeShares(n, high_water_mark, supply)
             fee    == Fee!FeeAssets(n, high_water_mark, supply)
             total  == Fee!TotalAssets(n, supply)
         IN  shares \in Nat /\ WorthTheFee(shares, supply, total, fee)
<1> DEFINE shares == Fee!PerformanceFeeShares(n, high_water_mark, supply)
           fee    == Fee!FeeAssets(n, high_water_mark, supply)
           total  == Fee!TotalAssets(n, supply)
<1>1. fee \in Nat /\ total \in Nat /\ (supply = 0 => fee = 0)
  BY FeeAssetsNat
<1>2. fee = 0 \/ total > fee
  BY DEF Fee!FeeCanBePaid
<1>3. supply \in Nat /\ high_water_mark \in Nat
  BY DEF FeeTypes
<1>4. shares = IF fee = 0 THEN 0 ELSE (fee * supply) \div (total - fee)
  <2>1. ~(n <= high_water_mark)
    BY <1>3
  <2>2. shares = IF supply = 0 \/ n <= high_water_mark \/ fee = 0
                   THEN 0 ELSE (fee * supply) \div (total - fee)
    BY DEF Fee!PerformanceFeeShares
  <2> HIDE DEF shares, fee, total
  <2> QED BY <1>1, <2>1, <2>2
<1> HIDE DEF shares, fee, total
<1>5. SolvedFor(shares, supply, total, fee)
  BY <1>2, <1>4 DEF SolvedFor
<1>6. shares \in Nat /\ WorthTheFee(shares, supply, total, fee)
  BY <1>1, <1>3, <1>5, Dilution
<1> QED BY <1>6 DEF shares, fee, total

\* An update that takes a fee, in full.
LEMMA FeeTaken ==
  ASSUME Fee!NavUpdateAssumption, FeeTypes, NEW n \in Navs, Fee!UpdateVaultNav(n)
  PROVE  \/ /\ supply' = supply /\ charges' = charges
            /\ high_water_mark' \in Nat
         \/ /\ n \in Nat /\ n > high_water_mark /\ high_water_mark' = n /\ nav' = n
            /\ Fee!FeeCanBePaid(n, high_water_mark, supply)
            /\ supply' = supply + Fee!PerformanceFeeShares(n, high_water_mark, supply)
<1>1. /\ n \in Nat /\ high_water_mark \in Nat /\ nav' = n
      /\ Fee!MaybeCrystallizePerformanceFee(n)
  BY DEF Fee!UpdateVaultNav, Fee!NavUpdateAssumption, FeeTypes
<1>2. CASE UNCHANGED <<Fee!minted, Fee!fee_state>>
  BY <1>1, <1>2 DEF Fee!minted, Fee!fee_state
<1>3. CASE /\ n > high_water_mark /\ high_water_mark' = n
           /\ UNCHANGED <<Fee!minted, charges>>
  BY <1>1, <1>3 DEF Fee!minted
<1>4. CASE /\ n > high_water_mark /\ high_water_mark' = n
           /\ Fee!FeeCanBePaid(n, high_water_mark, supply)
           /\ Fee!MintFee(Fee!PerformanceFeeShares(n, high_water_mark, supply))
  BY <1>1, <1>4 DEF Fee!MintFee
<1> QED BY <1>1, <1>2, <1>3, <1>4 DEF Fee!MaybeCrystallizePerformanceFee

LEMMA FeeTypesStep ==
  ASSUME Fee!NavUpdateAssumption, FeeTypes, [Fee!NavNext]_(Fee!vars)
  PROVE  FeeTypes'
<1>1. ASSUME NEW n \in Navs, Fee!UpdateVaultNav(n)
      PROVE  FeeTypes'
  <2>1. performance_fee_bps' = performance_fee_bps
    BY <1>1 DEF Fee!UpdateVaultNav
  <2>2. supply' \in Nat /\ high_water_mark' \in Nat
    BY <1>1, FeeTaken, FeeShares DEF FeeTypes
  <2> QED BY <2>1, <2>2 DEF FeeTypes
<1>2. ASSUME NEW bps \in FeeRates, Fee!SetPerformanceFee(bps)
      PROVE  FeeTypes'
  <2>1. bps \in Nat
    <3>1. bps \in 0 .. Fee!MAX_BPS
      BY DEF Fee!NavUpdateAssumption
    <3> QED BY <3>1 DEF Fee!MAX_BPS
  <2> QED BY <1>2, <2>1 DEF Fee!SetPerformanceFee, Fee!fee_state, Fee!minted, FeeTypes
<1>3. ASSUME NEW shares \in Supplies, Fee!SetSupply(shares)
      PROVE  FeeTypes'
  <2>1. shares \in Nat
    BY DEF Fee!NavUpdateAssumption
  <2> QED BY <1>3, <2>1 DEF Fee!SetSupply, Fee!fee_state, FeeTypes
<1>4. CASE Fee!Tick \/ UNCHANGED Fee!vars
  BY <1>4 DEF Fee!Tick, Fee!vars, Fee!fee_state, Fee!minted, FeeTypes
<1> QED BY <1>1, <1>2, <1>3, <1>4 DEF Fee!NavNext

LEMMA DilutionStep ==
  ASSUME Fee!NavUpdateAssumption, FeeTypes, [Fee!NavNext]_(Fee!vars)
  PROVE  Fee!DilutesExactly
<1> SUFFICES ASSUME charges' # charges PROVE Fee!DilutesExactly
  BY DEF Fee!DilutesExactly
<1>1. PICK n \in Navs : Fee!UpdateVaultNav(n)
  BY DEF Fee!NavNext, Fee!SetPerformanceFee, Fee!SetSupply, Fee!Tick, Fee!vars, Fee!fee_state
<1> DEFINE shares == Fee!PerformanceFeeShares(n, high_water_mark, supply)
<1>2. /\ n \in Nat /\ n > high_water_mark /\ nav' = n
      /\ Fee!FeeCanBePaid(n, high_water_mark, supply)
      /\ supply' = supply + shares
  BY <1>1, FeeTaken
<1>3. shares \in Nat
  BY <1>2, FeeShares
<1>4. supply' - supply = shares
  <2>1. supply \in Nat
    BY DEF FeeTypes
  <2> HIDE DEF shares
  <2> QED BY <1>2, <1>3, <2>1
<1> QED BY <1>2, <1>4, FeeShares DEF Fee!DilutesExactly, WorthTheFee

\* The shares minted for a fee are the most that are worth no more than the fee.
THEOREM FeesDiluteExactly ==
  ASSUME Fee!NavUpdateAssumption
  PROVE  Fee!NavSpec => FeeDilutionExact
<1>1. Fee!NavInit => FeeTypes
  <2> SUFFICES ASSUME Fee!NavInit PROVE FeeTypes
    OBVIOUS
  <2>1. performance_fee_bps \in 0 .. Fee!MAX_BPS
    BY DEF Fee!NavInit, Fee!NavUpdateAssumption
  <2> QED BY <2>1 DEF Fee!NavInit, Fee!MAX_BPS, FeeTypes
<1>2. FeeTypes /\ [Fee!NavNext]_(Fee!vars) => FeeTypes'
  BY FeeTypesStep
<1>3. FeeTypes /\ [Fee!NavNext]_(Fee!vars) => [Fee!DilutesExactly]_(Fee!vars)
  BY DilutionStep
<1> QED BY <1>1, <1>2, <1>3, PTL
     DEF Fee!NavSpec, FeeDilutionExact, Fee!FeeDilutionExact

-----------------------------------------------------------------------------
(* Late decisions *)

RequestAccount ==
  [owner : Owners, request_type : Decisions!RequestTypes, amount : RequestAmounts,
   created_at : Nat, nav_update_version : Nat, request_state : {"Pending", "Claimable"}]

\* The address holds one request at most, made no later than now under a NAV
\* that is no newer than the last; a newer NAV was published after it.  No
\* decision was made before the request it read.
DecisionsFollow ==
  /\ time \in Nat /\ last_nav_update_slot \in Nat /\ last_nav_update_slot <= time
  /\ seen_version \in Nat
  /\ settings \in Settings
  /\ request \subseteq RequestAccount
  /\ \A p, q \in request : p = q
  /\ \A q \in request :
       /\ q.created_at <= time /\ q.nav_update_version <= seen_version
       /\ q.nav_update_version < seen_version => q.created_at <= last_nav_update_slot
  /\ \A m \in sent :
       /\ m.args["created_at"] \in Nat /\ m.decided_at \in Nat
       /\ m.args["created_at"] <= m.decided_at

LEMMA DecisionsInit ==
  ASSUME Decisions!FulfillmentAssumption, Decisions!FulfillmentInit
  PROVE  DecisionsFollow
BY DEF Decisions!FulfillmentInit, DecisionsFollow

LEMMA DecisionsStep ==
  ASSUME Decisions!FulfillmentAssumption, DecisionsFollow,
         [Decisions!FulfillmentNext]_(Decisions!vars)
  PROVE  DecisionsFollow'
<1>1. ASSUME NEW o \in Owners, NEW t \in Decisions!RequestTypes, NEW amount \in RequestAmounts,
             Decisions!CreateRequest(o, t, amount)
      PROVE  DecisionsFollow'
  <2> DEFINE new == [owner |-> o, request_type |-> t, amount |-> amount,
                     created_at |-> time, nav_update_version |-> seen_version,
                     request_state |-> "Pending"]
  <2>1. /\ request' = {new}
        /\ UNCHANGED <<settings, seen_version, last_nav_update_slot, time, sent>>
    BY <1>1 DEF Decisions!CreateRequest
  <2>2. /\ new \in RequestAccount
        /\ new.created_at = time /\ new.nav_update_version = seen_version
    BY DEF DecisionsFollow, RequestAccount
  <2> HIDE DEF new
  <2> QED BY <2>1, <2>2 DEF DecisionsFollow, RequestAccount
<1>2. ASSUME Decisions!CloseRequest
      PROVE  DecisionsFollow'
  BY <1>2 DEF Decisions!CloseRequest, DecisionsFollow, RequestAccount
<1>3. ASSUME NEW instruction, Decisions!Decide(instruction)
      PROVE  DecisionsFollow'
  <2>1. PICK q \in request :
          /\ sent' = sent \cup {[instruction |-> instruction, args |-> Decisions!Terms(q),
                                 decided_at |-> time]}
          /\ UNCHANGED <<settings, request, seen_version, last_nav_update_slot, time>>
    BY <1>3 DEF Decisions!Decide
  <2>2. Decisions!Terms(q)["created_at"] = q.created_at
    BY DEF Decisions!Terms, Decisions!TermFields
  <2>3. q.created_at \in Nat /\ q.created_at <= time
    BY DEF DecisionsFollow, RequestAccount
  <2> QED BY <2>1, <2>2, <2>3 DEF DecisionsFollow, RequestAccount
<1>4. ASSUME NEW m \in sent, Decisions!ApproveRequest(m)
      PROVE  DecisionsFollow'
  <2>1. PICK q \in request :
          /\ request' = {[q EXCEPT !.request_state = "Claimable"]}
          /\ UNCHANGED <<settings, seen_version, last_nav_update_slot, time, sent>>
    BY <1>4 DEF Decisions!ApproveRequest
  <2> DEFINE new == [q EXCEPT !.request_state = "Claimable"]
  <2>2. /\ new \in RequestAccount
        /\ new.created_at = q.created_at /\ new.nav_update_version = q.nav_update_version
    BY DEF DecisionsFollow, RequestAccount
  <2>3. request' = {new}
    BY <2>1
  <2> HIDE DEF new
  <2> QED BY <2>1, <2>2, <2>3 DEF DecisionsFollow, RequestAccount
<1>5. ASSUME NEW m \in sent, Decisions!RejectRequest(m)
      PROVE  DecisionsFollow'
  BY <1>5 DEF Decisions!RejectRequest, DecisionsFollow, RequestAccount
<1>6. ASSUME Decisions!UpdateVaultNav
      PROVE  DecisionsFollow'
  BY <1>6 DEF Decisions!UpdateVaultNav, DecisionsFollow, RequestAccount
<1>7. ASSUME Decisions!Tick
      PROVE  DecisionsFollow'
  BY <1>7 DEF Decisions!Tick, DecisionsFollow, RequestAccount
<1>8. ASSUME UNCHANGED Decisions!vars
      PROVE  DecisionsFollow'
  BY <1>8 DEF Decisions!vars, DecisionsFollow, RequestAccount
<1> QED
  BY <1>1, <1>2, <1>3, <1>4, <1>5, <1>6, <1>7, <1>8 DEF Decisions!FulfillmentNext

\* DecisionsFollow holds of every order of requests, NAV updates and late or
\* repeated transactions: accounts and decisions carry the time they were made.
THEOREM DecisionsAreFollowed ==
  ASSUME Decisions!FulfillmentAssumption
  PROVE  Decisions!FulfillmentSpec => []DecisionsFollow
<1>1. Decisions!FulfillmentInit => DecisionsFollow
  BY DecisionsInit
<1>2. DecisionsFollow /\ [Decisions!FulfillmentNext]_(Decisions!vars) => DecisionsFollow'
  BY DecisionsStep
<1> QED BY <1>1, <1>2, PTL DEF Decisions!FulfillmentSpec

\* A request that turns claimable is the one at the address, and a transaction
\* of the fulfiller approved it under its own terms.
LEMMA ApprovedBy ==
  ASSUME DecisionsFollow, [Decisions!FulfillmentNext]_(Decisions!vars),
         NEW q \in Decisions!Approved
  PROVE  /\ q \in request
         /\ Decisions!FreshNav(q) /\ Decisions!NavNotStale
         /\ UNCHANGED <<settings, seen_version, last_nav_update_slot, time>>
         /\ \E m \in sent : /\ m.instruction = "approve_request"
                            /\ Decisions!Terms(q) = m.args
<1>1. PICK p \in request' : p.request_state = "Claimable"
  BY DEF Decisions!Approved
<1>2. q \in request /\ q.request_state = "Pending" /\ \A r \in request : r = q
  BY DEF Decisions!Approved, DecisionsFollow
<1>3. ~ \E o \in Owners, t \in Decisions!RequestTypes, amount \in RequestAmounts :
          Decisions!CreateRequest(o, t, amount)
  BY <1>2 DEF Decisions!CreateRequest
<1>4. request' # {} /\ request' # request
  BY <1>1, <1>2
<1>5. \E m \in sent : Decisions!ApproveRequest(m)
  BY <1>3, <1>4
  DEF Decisions!FulfillmentNext, Decisions!CloseRequest, Decisions!Decide,
      Decisions!RejectRequest, Decisions!UpdateVaultNav, Decisions!Tick, Decisions!vars
<1> QED BY <1>2, <1>5 DEF Decisions!ApproveRequest, Decisions!MatchesArgs

\* A late approval never settles a request made after the decision: it carries
\* the terms the fulfiller read, created_at among them, and approve_request
\* refuses it when the request at the address has others.
THEOREM DecisionsComeAfter ==
  ASSUME Decisions!FulfillmentAssumption
  PROVE  Decisions!FulfillmentSpec => DecisionsAreNotOlder
<1>1. DecisionsFollow /\ [Decisions!FulfillmentNext]_(Decisions!vars)
        => [Decisions!DecidedSinceCreated]_(Decisions!vars)
  <2> SUFFICES ASSUME DecisionsFollow, [Decisions!FulfillmentNext]_(Decisions!vars),
                      NEW q \in Decisions!Approved
               PROVE  \E m \in sent : /\ m.instruction = "approve_request"
                                      /\ m.args.owner = q.owner
                                      /\ m.args.amount = q.amount
                                      /\ m.decided_at >= q.created_at
    BY DEF Decisions!DecidedSinceCreated
  <2>1. PICK m \in sent : m.instruction = "approve_request" /\ Decisions!Terms(q) = m.args
    BY ApprovedBy
  <2>2. /\ m.args["owner"] = q.owner /\ m.args["amount"] = q.amount
        /\ m.args["created_at"] = q.created_at
    BY <2>1 DEF Decisions!Terms, Decisions!TermFields
  <2>3. m.args["created_at"] \in Nat /\ m.decided_at \in Nat /\ m.args["created_at"] <= m.decided_at
    BY DEF DecisionsFollow
  <2> QED BY <2>1, <2>2, <2>3
<1> QED
  BY <1>1, DecisionsAreFollowed, PTL
  DEF Decisions!FulfillmentSpec, DecisionsAreNotOlder, Decisions!DecisionsAreNotOlder

\* The price of an approval was published after the request when the vault
\* requires a fresh NAV, and within the staleness bound when it has one: the
\* version a request carries is older than the NAV's only when that NAV came
\* after the request.
THEOREM PricesComeAfter ==
  ASSUME Decisions!FulfillmentAssumption
  PROVE  Decisions!FulfillmentSpec => PriceIsUnknownWhenAsked
<1>1. DecisionsFollow /\ [Decisions!FulfillmentNext]_(Decisions!vars)
        => [Decisions!PricedSinceCreated]_(Decisions!vars)
  <2> SUFFICES ASSUME DecisionsFollow, [Decisions!FulfillmentNext]_(Decisions!vars),
                      NEW q \in Decisions!Approved
               PROVE  /\ settings.require_fresh_nav =>
                           /\ last_nav_update_slot >= q.created_at
                           /\ seen_version # q.nav_update_version
                      /\ settings.max_nav_staleness_slots > 0 =>
                           time <= last_nav_update_slot + settings.max_nav_staleness_slots
    BY DEF Decisions!PricedSinceCreated
  <2>1. q \in request /\ Decisions!FreshNav(q) /\ Decisions!NavNotStale
    BY ApprovedBy
  <2>2. /\ q.created_at \in Nat /\ q.nav_update_version \in Nat /\ seen_version \in Nat
        /\ last_nav_update_slot \in Nat /\ time \in Nat
        /\ q.nav_update_version < seen_version => q.created_at <= last_nav_update_slot
    BY <2>1 DEF DecisionsFollow, RequestAccount
  <2>3. ASSUME settings.require_fresh_nav
        PROVE  last_nav_update_slot >= q.created_at /\ seen_version # q.nav_update_version
    BY <2>1, <2>2, <2>3 DEF Decisions!FreshNav
  <2>4. ASSUME settings.max_nav_staleness_slots > 0
        PROVE  time <= last_nav_update_slot + settings.max_nav_staleness_slots
    <3>1. settings.max_nav_staleness_slots \in Nat
      BY DEF Decisions!FulfillmentAssumption, DecisionsFollow
    <3> QED BY <2>1, <2>2, <2>4, <3>1 DEF Decisions!NavNotStale
  <2> QED BY <2>3, <2>4
<1> QED
  BY <1>1, DecisionsAreFollowed, PTL
  DEF Decisions!FulfillmentSpec, PriceIsUnknownWhenAsked, Decisions!PriceIsUnknownWhenAsked
==============================================================================
