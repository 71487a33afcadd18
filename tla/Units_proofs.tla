----------------------------- MODULE Units_proofs -----------------------------
(***************************************************************************)
(* What a total becomes when one of its parts comes, goes or changes.      *)
(***************************************************************************)
EXTENDS Units, FiniteSetTheorems, TLAPS

-----------------------------------------------------------------------------
(* Units *)

LEMMA UnitsOfOne ==
  ASSUME NEW r, NEW n \in Nat
  PROVE  IsFiniteSet({r} \X (1 .. n)) /\ Cardinality({r} \X (1 .. n)) = n
<1>1. IsFiniteSet({r}) /\ Cardinality({r}) = 1
  BY FS_Singleton
<1>2. IsFiniteSet(1 .. n) /\ Cardinality(1 .. n) = n
  <2>1. IsFiniteSet(1 .. n) /\ Cardinality(1 .. n) = IF 1 > n THEN 0 ELSE n - 1 + 1
    BY FS_Interval
  <2> QED BY <2>1
<1>3. /\ IsFiniteSet({r} \X (1 .. n))
      /\ Cardinality({r} \X (1 .. n)) = Cardinality({r}) * Cardinality(1 .. n)
  BY <1>1, <1>2, FS_Product
<1> QED BY <1>1, <1>2, <1>3

LEMMA UnitsFinite ==
  ASSUME NEW S, IsFiniteSet(S), NEW a, \A s \in S : a[s] \in Nat
  PROVE  IsFiniteSet(Units(a, S)) /\ Cardinality(Units(a, S)) \in Nat
<1> DEFINE T == {{s} \X (1 .. a[s]) : s \in S}
           f == [s \in S |-> {s} \X (1 .. a[s])]
<1>0. f \in [S -> T] /\ \A t \in T : \E s \in S : f[s] = t
  <2>1. \A s \in S : f[s] = {s} \X (1 .. a[s])
    OBVIOUS
  <2>2. \A t \in T : \E s \in S : f[s] = t
    BY <2>1, Zenon
  <2>3. \A s \in S : f[s] \in T
    BY <2>1, Zenon
  <2>4. f = [s \in S |-> f[s]]
    BY <2>1, Zenon
  <2> HIDE DEF f, T
  <2> QED BY <2>2, <2>3, <2>4
<1>1. \A t \in T : IsFiniteSet(t)
  <2>1. \A s \in S : IsFiniteSet({s} \X (1 .. a[s]))
    BY UnitsOfOne
  <2> QED BY <2>1, Zenon
<1>2. Units(a, S) = UNION T
  BY DEF Units
<1> HIDE DEF T, f
<1>3. f \in Surjection(S, T)
  BY <1>0 DEF Surjection
<1>4. IsFiniteSet(T)
  BY <1>3, FS_Surjection
<1>5. IsFiniteSet(Units(a, S))
  BY <1>1, <1>2, <1>4, FS_UNION
<1> QED BY <1>5, FS_CardinalityType

\* The total only depends on the amounts it is about.
LEMMA UnitsSame ==
  ASSUME NEW S, NEW a, NEW b, \A s \in S : a[s] = b[s]
  PROVE  Units(a, S) = Units(b, S)
  BY DEF Units

\* One more part adds its amount to the total.
LEMMA UnitsAdded ==
  ASSUME NEW S, NEW T, NEW r, NEW a, NEW b, NEW n \in Nat,
         IsFiniteSet(S), r \notin S, T = S \cup {r},
         \A s \in S : a[s] \in Nat, \A s \in S : b[s] = a[s], b[r] = n
  PROVE  Cardinality(Units(b, T)) = Cardinality(Units(a, S)) + n
<1> DEFINE new == {r} \X (1 .. b[r])
<1>1. Units(a, S) = Units(b, S)
  BY UnitsSame
<1>2. Units(b, T) = Units(b, S) \cup new
  BY DEF Units
<1>3. Units(b, S) \cap new = {}
  <2> SUFFICES ASSUME NEW x \in Units(b, S), x \in new PROVE FALSE
    OBVIOUS
  <2>1. PICK s \in S : x \in {s} \X (1 .. b[s])
    BY DEF Units
  <2>2. x[1] = s /\ x[1] = r
    BY <2>1
  <2> QED BY <2>2
<1>4. IsFiniteSet(Units(b, S)) /\ Cardinality(Units(b, S)) \in Nat
  BY UnitsFinite
<1>5. IsFiniteSet(new) /\ Cardinality(new) = n
  BY UnitsOfOne
<1>6. Cardinality(Units(b, S) \cup new)
        = Cardinality(Units(b, S)) + Cardinality(new) - Cardinality(Units(b, S) \cap new)
  BY <1>4, <1>5, FS_Union
<1>7. Cardinality(Units(b, S) \cap new) = 0
  BY <1>3, FS_EmptySet
<1> HIDE DEF new
<1>8. Cardinality(Units(b, S) \cup new) = Cardinality(Units(b, S)) + n
  BY <1>4, <1>5, <1>6, <1>7
<1> QED BY <1>1, <1>2, <1>8, Zenon

\* S before and T after the change differ in r at most, and so do the parts.
LEMMA UnitsReplaced ==
  ASSUME NEW S, NEW T, NEW r, NEW a, NEW b, NEW x, NEW y,
         IsFiniteSet(S), S \ {r} = T \ {r},
         \A s \in S : a[s] \in Nat, \A s \in T : b[s] \in Nat,
         \A s \in S \ {r} : b[s] = a[s],
         x = IF r \in S THEN a[r] ELSE 0, y = IF r \in T THEN b[r] ELSE 0
  PROVE  Cardinality(Units(b, T)) = Cardinality(Units(a, S)) - x + y
<1> DEFINE R == S \ {r}
           rest == Cardinality(Units(a, R))
<1>1. IsFiniteSet(R) /\ r \notin R /\ R \subseteq S /\ R \subseteq T
  BY FS_RemoveElement
<1>2. IF r \in S THEN S = R \cup {r} ELSE S = R
  BY Zenon
<1>3. IF r \in T THEN T = R \cup {r} ELSE T = R
  BY Zenon
<1>4. (\A s \in R : b[s] = a[s]) /\ (\A s \in R : a[s] \in Nat) /\ (\A s \in R : a[s] = a[s])
  OBVIOUS
<1> HIDE DEF R
<1>5. rest \in Nat
  BY <1>1, <1>4, UnitsFinite
<1>6. x \in Nat /\ Cardinality(Units(a, S)) = rest + x
  <2>1. CASE r \in S
    <3>1. x \in Nat /\ x = a[r] /\ S = R \cup {r}
      BY <1>2, <2>1
    <3> QED BY <1>1, <1>4, <3>1, UnitsAdded
  <2>2. CASE r \notin S
    BY <1>2, <1>5, <2>2
  <2> QED BY <2>1, <2>2
<1>7. y \in Nat /\ Cardinality(Units(b, T)) = rest + y
  <2>1. CASE r \in T
    <3>1. y \in Nat /\ y = b[r] /\ T = R \cup {r}
      BY <1>3, <2>1
    <3> QED BY <1>1, <1>4, <3>1, UnitsAdded
  <2>2. CASE r \notin T
    <3>1. Units(b, R) = Units(a, R)
      BY <1>4, UnitsSame
    <3> QED BY <1>3, <1>5, <2>2, <3>1
  <2> QED BY <2>1, <2>2
<1> HIDE DEF rest
<1> QED BY <1>5, <1>6, <1>7

-----------------------------------------------------------------------------
(* Totals over accounts when one account changes *)

LEMMA AmountAdded ==
  ASSUME NEW S, NEW T, NEW r, NEW old, NEW new, NEW n \in Nat,
         IsFiniteSet(S), r \notin S, T = S \cup {r},
         \A s \in S : old[s].amount \in Nat, \A s \in S : new[s].amount = old[s].amount,
         new[r].amount = n
  PROVE  AmountOf(new, T) = AmountOf(old, S) + n
<1> DEFINE a == [s \in S |-> old[s].amount]
           b == [s \in T |-> new[s].amount]
<1>1. (\A s \in S : a[s] \in Nat) /\ (\A s \in S : b[s] = a[s])
  OBVIOUS
<1>2. b[r] = n
  OBVIOUS
<1>3. AmountOf(old, S) = Cardinality(Units(a, S))
  BY DEF AmountOf
<1>4. AmountOf(new, T) = Cardinality(Units(b, T))
  BY DEF AmountOf
<1> HIDE DEF a, b
<1>5. Cardinality(Units(b, T)) = Cardinality(Units(a, S)) + n
  BY <1>1, <1>2, UnitsAdded
<1> QED BY <1>3, <1>4, <1>5

LEMMA AmountNat ==
  ASSUME NEW S, IsFiniteSet(S), NEW accounts, \A s \in S : accounts[s].amount \in Nat
  PROVE  AmountOf(accounts, S) \in Nat
<1> DEFINE a == [s \in S |-> accounts[s].amount]
<1>1. \A s \in S : a[s] \in Nat
  OBVIOUS
<1>2. AmountOf(accounts, S) = Cardinality(Units(a, S))
  BY DEF AmountOf
<1> HIDE DEF a
<1> QED BY <1>1, <1>2, UnitsFinite

LEMMA NoAmount ==
  ASSUME NEW accounts
  PROVE  AmountOf(accounts, {}) = 0
<1>1. Units([r \in {} |-> accounts[r].amount], {}) = {}
  BY DEF Units
<1> QED BY <1>1, FS_EmptySet DEF AmountOf

LEMMA AmountSame ==
  ASSUME NEW S, NEW old, NEW new, \A s \in S : new[s].amount = old[s].amount
  PROVE  AmountOf(new, S) = AmountOf(old, S)
<1>1. [s \in S |-> new[s].amount] = [s \in S |-> old[s].amount]
  OBVIOUS
<1> QED BY <1>1 DEF AmountOf

\* S before and T after the change differ in r at most, and so do the accounts.
LEMMA AmountReplaced ==
  ASSUME NEW S, NEW T, NEW r, NEW old, NEW new, NEW x, NEW y,
         IsFiniteSet(S), S \ {r} = T \ {r},
         \A s \in S : old[s].amount \in Nat,
         \A s \in T : new[s].amount \in Nat,
         \A s \in S \ {r} : new[s].amount = old[s].amount,
         x = IF r \in S THEN old[r].amount ELSE 0,
         y = IF r \in T THEN new[r].amount ELSE 0
  PROVE  AmountOf(new, T) = AmountOf(old, S) - x + y
<1> DEFINE R == S \ {r}
<1>1. IsFiniteSet(R) /\ r \notin R /\ R \subseteq S /\ R \subseteq T
  BY FS_RemoveElement
<1>2. IF r \in S THEN S = R \cup {r} ELSE S = R
  BY Zenon
<1>3. IF r \in T THEN T = R \cup {r} ELSE T = R
  BY Zenon
<1>4. /\ \A s \in R : new[s].amount = old[s].amount
      /\ \A s \in R : old[s].amount \in Nat
  OBVIOUS
<1> HIDE DEF R
<1>5. AmountOf(old, R) \in Nat
  BY <1>1, <1>4, AmountNat
<1>6. AmountOf(old, S) = AmountOf(old, R) + (IF r \in S THEN old[r].amount ELSE 0)
  <2>1. CASE r \in S
    <3>0. /\ \A s \in R : old[s].amount \in Nat
          /\ \A s \in R : old[s].amount = old[s].amount
          /\ old[r].amount \in Nat /\ S = R \cup {r}
      BY <1>2, <1>4, <2>1
    <3>1. AmountOf(old, S) = AmountOf(old, R) + old[r].amount
      BY <1>1, <3>0, AmountAdded
    <3> QED BY <2>1, <3>1
  <2>2. CASE r \notin S
    BY <1>2, <1>5, <2>2
  <2> QED BY <2>1, <2>2
<1>7. AmountOf(new, T) = AmountOf(old, R) + (IF r \in T THEN new[r].amount ELSE 0)
  <2>1. CASE r \in T
    <3>0. new[r].amount \in Nat /\ T = R \cup {r}
      BY <1>3, <2>1
    <3>1. AmountOf(new, T) = AmountOf(old, R) + new[r].amount
      BY <1>1, <1>4, <3>0, AmountAdded
    <3> QED BY <2>1, <3>1
  <2>2. CASE r \notin T
    <3>1. AmountOf(new, R) = AmountOf(old, R)
      BY <1>4, AmountSame
    <3> QED BY <1>3, <1>5, <2>2, <3>1
  <2> QED BY <2>1, <2>2
<1>8. /\ (IF r \in S THEN old[r].amount ELSE 0) \in Nat
      /\ (IF r \in T THEN new[r].amount ELSE 0) \in Nat
  OBVIOUS
<1> QED BY <1>5, <1>6, <1>7, <1>8
=============================================================================
