----------------------------- MODULE Queue_proofs -----------------------------
(***************************************************************************)
(* The queues: two counters and ids scattered over request accounts        *)
(* implement a FIFO queue, across the wrap of the u64 counters, and every  *)
(* open place in it belongs to exactly one request.                        *)
(*                                                                         *)
(* Seen from one queue a step does one of three things: it leaves the      *)
(* queue as it is, a request joins it at the back, or its head leaves it.  *)
(* The arithmetic of the counters is needed for these three only; which    *)
(* instruction does which of them needs no arithmetic.                     *)
(***************************************************************************)
EXTENDS AsyncVault_proofs, SequenceTheorems

-----------------------------------------------------------------------------
(* Arithmetic of the counters *)

LEMMA LengthType ==
  ASSUME NEW q \in Queues
  PROVE  QueueLength(q) \in 0 .. U64_MAX
  BY U64MaxAssumption DEF QueueLength, Queues, Ids

LEMMA PlacesWithinIds ==
  ASSUME NEW n \in 0 .. U64_MAX, NEW i \in 1 .. n
  PROVE  i \in 1 .. U64_MAX
  BY U64MaxAssumption

\* The places of a queue have different ids.
LEMMA IdAtInjective ==
  ASSUME NEW q \in Queues, NEW i \in 1 .. QueueLength(q), NEW j \in 1 .. QueueLength(q),
         IdAt(q, i) = IdAt(q, j)
  PROVE  i = j
<1>1. QueueLength(q) \in 0 .. U64_MAX
  BY LengthType
<1>2. i \in 1 .. U64_MAX /\ j \in 1 .. U64_MAX
  BY <1>1, PlacesWithinIds
<1> QED BY <1>2, U64MaxAssumption DEF IdAt, Queues, Ids

LEMMA IdAtType ==
  ASSUME NEW q \in Queues, NEW i \in 1 .. QueueLength(q)
  PROVE  IdAt(q, i) \in Ids
<1>1. i \in 1 .. U64_MAX
  BY LengthType, PlacesWithinIds
<1> QED BY <1>1, U64MaxAssumption DEF IdAt, Queues, Ids

\* A new request gets one more place at the back.
LEMMA PlaceAdded ==
  ASSUME NEW q \in Queues, WithinActiveWindow(q)
  PROVE  /\ IncrementTotal(q) \in Queues
         /\ QueueLength(IncrementTotal(q)) = QueueLength(q) + 1
         /\ IdAt(IncrementTotal(q), QueueLength(q) + 1) = WrappingAdd1(q.total)
         /\ \A i \in 1 .. QueueLength(q) : IdAt(IncrementTotal(q), i) = IdAt(q, i)
<1>1. /\ IncrementTotal(q) \in Queues
      /\ IncrementTotal(q).total = WrappingAdd1(q.total)
      /\ IncrementTotal(q).last_processed = q.last_processed
  BY U64MaxAssumption DEF IncrementTotal, WrappingAdd1, Queues, Ids
<1>2. q.total \in 0 .. U64_MAX /\ q.last_processed \in 0 .. U64_MAX
  BY DEF Queues, Ids
<1>3. QueueLength(IncrementTotal(q)) = QueueLength(q) + 1
  BY <1>1, <1>2, U64MaxAssumption DEF QueueLength, WrappingAdd1, WithinActiveWindow
<1>4. IdAt(IncrementTotal(q), QueueLength(q) + 1) = WrappingAdd1(q.total)
  BY <1>1, <1>2, U64MaxAssumption DEF QueueLength, IdAt, WrappingAdd1, WithinActiveWindow
<1>5. \A i : IdAt(IncrementTotal(q), i) = IdAt(q, i)
  BY <1>1 DEF IdAt
<1> QED BY <1>1, <1>3, <1>4, <1>5

\* The head leaves and everybody moves up by one place.
LEMMA PlaceRemoved ==
  ASSUME NEW q \in Queues, NEW id, IsHead(q, id), QueueLength(q) > 0
  PROVE  /\ AdvanceTo(q, id) \in Queues
         /\ QueueLength(AdvanceTo(q, id)) = QueueLength(q) - 1
         /\ IdAt(q, 1) = id
         /\ \A i \in 1 .. QueueLength(q) - 1 : IdAt(AdvanceTo(q, id), i) = IdAt(q, i + 1)
<1>1. id \in 0 .. U64_MAX /\ id = WrappingAdd1(q.last_processed)
  BY U64MaxAssumption DEF IsHead, WrappingAdd1, Queues, Ids
<1>2. /\ AdvanceTo(q, id) \in Queues
      /\ AdvanceTo(q, id).total = q.total
      /\ AdvanceTo(q, id).last_processed = id
  BY <1>1 DEF AdvanceTo, Queues, Ids
<1>3. q.total \in 0 .. U64_MAX /\ q.last_processed \in 0 .. U64_MAX
  BY DEF Queues, Ids
<1>4. QueueLength(AdvanceTo(q, id)) = QueueLength(q) - 1
  BY <1>1, <1>2, <1>3, U64MaxAssumption DEF QueueLength, WrappingAdd1
<1>5. IdAt(q, 1) = id
  BY <1>1, <1>3, U64MaxAssumption DEF IdAt, WrappingAdd1
<1>6. \A i \in 1 .. QueueLength(q) - 1 : IdAt(AdvanceTo(q, id), i) = IdAt(q, i + 1)
  <2> SUFFICES ASSUME NEW i \in 1 .. QueueLength(q) - 1
               PROVE  IdAt(AdvanceTo(q, id), i) = IdAt(q, i + 1)
    OBVIOUS
  <2>1. i \in 1 .. U64_MAX
    <3>1. QueueLength(q) \in 0 .. U64_MAX
      BY LengthType
    <3>2. i \in 1 .. QueueLength(q)
      BY <3>1, U64MaxAssumption
    <3> QED BY <3>1, <3>2, PlacesWithinIds
  <2> QED BY <1>1, <1>2, <1>3, <2>1, U64MaxAssumption DEF IdAt, WrappingAdd1
<1> QED BY <1>2, <1>4, <1>5, <1>6

-----------------------------------------------------------------------------
(* The requests S, each with its id, fill the places of queue q *)

Tiled(q, S, id) ==
  /\ \A r \in S : \E i \in 1 .. QueueLength(q) : id[r] = IdAt(q, i)
  /\ \A i \in 1 .. QueueLength(q) : \E r \in S : id[r] = IdAt(q, i)
  /\ \A r, s \in S : id[r] = id[s] => r = s

\* They stand in this order, head first.
Line(q, S, id) == [i \in 1 .. QueueLength(q) |-> CHOOSE r \in S : id[r] = IdAt(q, i)]

LEMMA LineAt ==
  ASSUME NEW q, NEW S, NEW id, Tiled(q, S, id), NEW i \in 1 .. QueueLength(q),
         NEW r \in S, id[r] = IdAt(q, i)
  PROVE  Line(q, S, id)[i] = r
<1> DEFINE item == CHOOSE s \in S : id[s] = IdAt(q, i)
<1>1. Line(q, S, id)[i] = item
  BY DEF Line
<1>2. item \in S /\ id[item] = IdAt(q, i)
  OBVIOUS
<1> HIDE DEF item
<1> QED BY <1>1, <1>2 DEF Tiled

LEMMA LineType ==
  ASSUME NEW q \in Queues, NEW S, NEW id, Tiled(q, S, id)
  PROVE  /\ Line(q, S, id) \in Seq(S)
         /\ Len(Line(q, S, id)) = QueueLength(q)
         /\ \A i \in 1 .. QueueLength(q) :
              Line(q, S, id)[i] \in S /\ id[Line(q, S, id)[i]] = IdAt(q, i)
<1> DEFINE L == QueueLength(q)
           line == Line(q, S, id)
<1>1. L \in Nat
  BY LengthType, U64MaxAssumption
<1>2. \A i \in 1 .. L : line[i] \in S /\ id[line[i]] = IdAt(q, i)
  BY LineAt DEF Tiled
<1>3. line = [i \in 1 .. L |-> line[i]]
  BY DEF Line
<1> HIDE DEF L, line
<1>4. line \in [1 .. L -> S]
  BY <1>2, <1>3
<1>5. line \in Seq(S) /\ Len(line) = L
  BY <1>1, <1>4
<1> QED BY <1>2, <1>5 DEF L, line

\* Two sequences are equal when they agree place by place.
LEMMA SameLine ==
  ASSUME NEW S, NEW T, NEW s \in Seq(S), NEW t \in Seq(T), Len(s) = Len(t),
         \A i \in 1 .. Len(s) : s[i] = t[i]
  PROVE  s = t
<1>1. s \in [1 .. Len(s) -> S] /\ t \in [1 .. Len(t) -> T]
  OBVIOUS
<1> QED BY <1>1

\* The line with one more request at its end, and the id of that request.
IsLonger(new, old, r) == new = Append(old, r)
NextId(q) == WrappingAdd1(q.total)

\* A request that gets the next id stands at the end of the line.
LEMMA LineJoined ==
  ASSUME NEW q \in Queues, NEW S, NEW id, Tiled(q, S, id), WithinActiveWindow(q),
         NEW p, p = IncrementTotal(q), NEW r, NEW T, r \notin S, T = S \cup {r},
         NEW now, now[r] = NextId(q), \A s \in S : now[s] = id[s]
  PROVE  /\ Tiled(p, T, now)
         /\ IsLonger(Line(p, T, now), Line(q, S, id), r)
<1> DEFINE L == QueueLength(q)
<1>1. /\ p \in Queues /\ QueueLength(p) = L + 1 /\ L \in Nat
      /\ IdAt(p, L + 1) = now[r]
      /\ \A i \in 1 .. L : IdAt(p, i) = IdAt(q, i)
  BY PlaceAdded, LengthType, U64MaxAssumption DEF NextId
<1>2. \A i, j \in 1 .. L + 1 : IdAt(p, i) = IdAt(p, j) => i = j
  BY <1>1, IdAtInjective
<1>3. /\ \A s \in S : \E i \in 1 .. L : now[s] = IdAt(p, i)
      /\ \A i \in 1 .. L : \E s \in S : now[s] = IdAt(p, i)
  BY <1>1 DEF Tiled
<1>4. T = S \cup {r} /\ \A t, s \in S : now[t] = now[s] => t = s
  BY DEF Tiled
<1>5. (\A i \in 1 .. L : i \in 1 .. L + 1) /\ L + 1 \in 1 .. L + 1 /\ L + 1 \notin 1 .. L
      /\ \A i \in 1 .. L + 1 : i \in 1 .. L \/ i = L + 1
  BY <1>1
<1> HIDE DEF L
<1>6. \A s \in S : now[s] # now[r]
  BY <1>1, <1>2, <1>3, <1>5
<1>7. Tiled(p, T, now)
  <2>1. \A s \in T : \E i \in 1 .. L + 1 : now[s] = IdAt(p, i)
    BY <1>1, <1>3, <1>4, <1>5
  <2>2. \A i \in 1 .. L + 1 : \E s \in T : now[s] = IdAt(p, i)
    BY <1>1, <1>3, <1>4, <1>5
  <2>3. \A t, s \in T : now[t] = now[s] => t = s
    BY <1>4, <1>6
  <2> QED BY <1>1, <2>1, <2>2, <2>3 DEF Tiled
<1> DEFINE old == Line(q, S, id)
           new == Line(p, T, now)
<1>8. /\ old \in Seq(S) /\ Len(old) = L
      /\ \A i \in 1 .. L : old[i] \in S /\ id[old[i]] = IdAt(q, i)
  BY LineType DEF L
<1>9. new \in Seq(T) /\ Len(new) = L + 1
  BY <1>1, <1>7, LineType
<1>10. new[L + 1] = r
  BY <1>1, <1>4, <1>5, <1>7, LineAt
<1>11. \A i \in 1 .. L : new[i] = old[i]
  <2> SUFFICES ASSUME NEW i \in 1 .. L PROVE new[i] = old[i]
    OBVIOUS
  <2>1. old[i] \in T /\ now[old[i]] = IdAt(p, i) /\ i \in 1 .. QueueLength(p)
    BY <1>1, <1>4, <1>5, <1>8
  <2> HIDE DEF old
  <2> QED BY <1>7, <2>1, LineAt
<1> HIDE DEF old, new
<1>12. Append(old, r) \in Seq(T) /\ Len(Append(old, r)) = L + 1
  BY <1>1, <1>4, <1>8
<1>13. \A i \in 1 .. L + 1 : new[i] = Append(old, r)[i]
  BY <1>1, <1>8, <1>10, <1>11
<1>14. new = Append(old, r)
  BY <1>9, <1>12, <1>13, SameLine
<1> QED BY <1>7, <1>14 DEF IsLonger, old, new

\* When the head leaves everybody behind it moves up.
LEMMA LineLeft ==
  ASSUME NEW q \in Queues, NEW S, NEW id, Tiled(q, S, id),
         NEW r \in S, IsHead(q, id[r]), NEW now, \A s \in S \ {r} : now[s] = id[s]
  PROVE  /\ Line(q, S, id) # <<>>
         /\ Tiled(AdvanceTo(q, id[r]), S \ {r}, now)
         /\ Line(AdvanceTo(q, id[r]), S \ {r}, now) = Tail(Line(q, S, id))
<1> DEFINE p == AdvanceTo(q, id[r])
           T == S \ {r}
           L == QueueLength(q)
<1>0. L \in Nat /\ L > 0
  BY LengthType, U64MaxAssumption DEF Tiled
<1>1. /\ p \in Queues /\ QueueLength(p) = L - 1
      /\ IdAt(q, 1) = id[r]
      /\ \A i \in 1 .. L - 1 : IdAt(p, i) = IdAt(q, i + 1)
  BY <1>0, PlaceRemoved
<1>2. \A i, j \in 1 .. L : IdAt(q, i) = IdAt(q, j) => i = j
  BY IdAtInjective
<1>3. /\ \A s \in S : \E i \in 1 .. L : id[s] = IdAt(q, i)
      /\ \A i \in 1 .. L : \E s \in S : id[s] = IdAt(q, i)
      /\ \A t, s \in S : id[t] = id[s] => t = s
  BY DEF Tiled
<1>4. T = S \ {r} /\ \A s \in T : now[s] = id[s] /\ s # r /\ s \in S
  OBVIOUS
<1> HIDE DEF p, T, L
<1>7. Tiled(p, T, now)
  <2>1. ASSUME NEW s \in T PROVE \E i \in 1 .. L - 1 : now[s] = IdAt(p, i)
    <3>1. PICK i \in 1 .. L : id[s] = IdAt(q, i)
      BY <1>3, <1>4
    <3>2. i # 1
      BY <1>1, <1>3, <1>4, <3>1
    <3>3. i - 1 \in 1 .. L - 1 /\ (i - 1) + 1 = i
      BY <1>0, <3>2
    <3>4. now[s] = IdAt(p, i - 1)
      BY <1>1, <1>4, <3>1, <3>3
    <3> QED BY <3>3, <3>4
  <2>2. ASSUME NEW i \in 1 .. L - 1 PROVE \E s \in T : now[s] = IdAt(p, i)
    <3>1. i + 1 \in 1 .. L /\ 1 \in 1 .. L /\ i + 1 # 1
      BY <1>0
    <3>2. PICK s \in S : id[s] = IdAt(q, i + 1)
      BY <1>3, <3>1
    <3>3. s # r
      BY <1>1, <1>2, <3>1, <3>2
    <3> QED BY <1>1, <1>4, <3>2, <3>3
  <2>3. \A t, s \in T : now[t] = now[s] => t = s
    BY <1>3, <1>4
  <2> QED BY <1>1, <2>1, <2>2, <2>3 DEF Tiled
<1> DEFINE old == Line(q, S, id)
           new == Line(p, T, now)
<1>8. /\ old \in Seq(S) /\ Len(old) = L
      /\ \A i \in 1 .. L : old[i] \in S /\ id[old[i]] = IdAt(q, i)
  BY LineType DEF L
<1>9. /\ new \in Seq(T) /\ Len(new) = L - 1
      /\ \A i \in 1 .. L - 1 : new[i] \in T /\ now[new[i]] = IdAt(p, i)
  BY <1>1, <1>7, LineType
<1> HIDE DEF old, new
<1>10. \A i \in 1 .. L - 1 : new[i] = old[i + 1]
  <2> SUFFICES ASSUME NEW i \in 1 .. L - 1 PROVE new[i] = old[i + 1]
    OBVIOUS
  <2>1. i + 1 \in 1 .. L
    BY <1>0
  <2>2. id[new[i]] = IdAt(q, i + 1) /\ new[i] \in S
    BY <1>1, <1>4, <1>9
  <2>3. id[old[i + 1]] = IdAt(q, i + 1) /\ old[i + 1] \in S
    BY <1>8, <2>1
  <2> QED BY <1>3, <2>2, <2>3, Zenon
<1>11. old # <<>>
  BY <1>0, <1>8
<1>12. /\ Tail(old) \in Seq(S) /\ Len(Tail(old)) = L - 1
       /\ \A i \in 1 .. L - 1 : Tail(old)[i] = old[i + 1]
  BY <1>0, <1>8, <1>11
<1>13. new = Tail(old)
  BY <1>9, <1>10, <1>12, SameLine
<1> QED BY <1>7, <1>11, <1>13 DEF p, T, old, new

-----------------------------------------------------------------------------
(* What a step does to one queue *)

\* The requests with a place in the queue, and the id every request carries.
Members(type) == {r \in Requests : InQueue(r, type)}
Carried == [r \in Requests |-> request[r].queue_id]

StaysAsItIs(type) ==
  /\ queue'[type] = queue[type]
  /\ Members(type)' = Members(type)
  /\ \A r \in Members(type) : Carried'[r] = Carried[r]

JoinsAtBack(r, type) ==
  /\ WithinActiveWindow(queue[type])
  /\ queue'[type] = IncrementTotal(queue[type])
  /\ r \notin Members(type) /\ Members(type)' = Members(type) \cup {r}
  /\ Carried'[r] = WrappingAdd1(queue[type].total)
  /\ \A s \in Members(type) : Carried'[s] = Carried[s]

LeavesFromFront(r, type) ==
  /\ r \in Members(type) /\ Members(type)' = Members(type) \ {r}
  /\ IsHead(queue[type], Carried[r])
  /\ queue'[type] = AdvanceTo(queue[type], Carried[r])
  /\ \A s \in Members(type) \ {r} : Carried'[s] = Carried[s]

QueueStep(type) ==
  \/ StaysAsItIs(type)
  \/ \E r \in Requests : JoinsAtBack(r, type) \/ LeavesFromFront(r, type)

\* The inductive invariant: the requests of a queue fill its places.
Filled(type) == Tiled(queue[type], Members(type), Carried)

LEMMA FilledMeansCovered ==
  (\A type \in RequestTypes : Filled(type)) => QueueCoversIds
  BY DEF QueueCoversIds, Filled, Tiled, Members, Carried

LEMMA ContentsAreLine ==
  ASSUME NEW type \in RequestTypes, Filled(type)
  PROVE  QueueContents(type) = Line(queue[type], Members(type), Carried)
<1> DEFINE line == Line(queue[type], Members(type), Carried)
<1>1. ASSUME NEW i \in 1 .. QueueLength(queue[type])
      PROVE  QueueContents(type)[i] = line[i]
  <2> DEFINE item == CHOOSE r \in Requests :
                       InQueue(r, type) /\ request[r].queue_id = IdAt(queue[type], i)
  <2>1. \E r \in Requests : InQueue(r, type) /\ request[r].queue_id = IdAt(queue[type], i)
    BY DEF Filled, Tiled, Members, Carried
  <2>2. item \in Requests /\ InQueue(item, type) /\ request[item].queue_id = IdAt(queue[type], i)
    BY <2>1
  <2>3. QueueContents(type)[i] = item
    BY DEF QueueContents
  <2> HIDE DEF item
  <2>4. item \in Members(type) /\ Carried[item] = IdAt(queue[type], i)
    BY <2>2 DEF Members, Carried
  <2> QED BY <2>3, <2>4, LineAt DEF Filled
<1>2. /\ QueueContents(type) = [i \in 1 .. QueueLength(queue[type]) |-> QueueContents(type)[i]]
      /\ line = [i \in 1 .. QueueLength(queue[type]) |-> line[i]]
  BY DEF QueueContents, Line
<1> HIDE DEF line
<1>3. QueueContents(type) = line
  BY <1>1, <1>2
<1> QED BY <1>3 DEF line

\* In every state, in a form that also speaks of the state after a step.
ContentsInLine ==
  \A type \in RequestTypes :
    Filled(type) => QueueContents(type) = Line(queue[type], Members(type), Carried)

LEMMA ContentsInLineHolds == ContentsInLine
  BY ContentsAreLine DEF ContentsInLine

\* The abstract queue makes no step, or one at the back, or one at the front.
LEMMA StepFillsPlaces ==
  ASSUME TypeOK, NEW type \in RequestTypes, Filled(type), QueueStep(type)
  PROVE  /\ Filled(type)'
         /\ \/ QueueContents(type)' = QueueContents(type)
            \/ \E r \in Requests :
                 /\ \A i \in 1 .. Len(QueueContents(type)) : QueueContents(type)[i] # r
                 /\ QueueContents(type)' = Append(QueueContents(type), r)
            \/ /\ QueueContents(type) # <<>>
               /\ QueueContents(type)' = Tail(QueueContents(type))
<1> DEFINE q == queue[type]
           S == Members(type)
           id == Carried
           p == queue'[type]
           T == Members(type)'
           now == Carried'
<1>0. q \in Queues /\ Tiled(q, S, id) /\ QueueContents(type) = Line(q, S, id)
  BY ContentsAreLine DEF TypeOK, Filled
<1>1. Filled(type)' <=> Tiled(p, T, now)
  BY DEF Filled
<1>2. Tiled(p, T, now) => QueueContents(type)' = Line(p, T, now)
  <2>1. ContentsInLine'
    BY ContentsInLineHolds, PTL
  <2> QED BY <1>1, <2>1 DEF ContentsInLine
<1>3. CASE StaysAsItIs(type)
  <2>1. p = q /\ T = S /\ \A r \in S : now[r] = id[r]
    BY <1>3 DEF StaysAsItIs
  <2> HIDE DEF p, q, T, S, now, id
  <2>2. Tiled(p, T, now)
    BY <1>0, <2>1 DEF Tiled
  <2>3. Line(p, T, now) = Line(q, S, id)
    <3>1. /\ Line(p, T, now) \in Seq(S) /\ Line(q, S, id) \in Seq(S)
          /\ Len(Line(p, T, now)) = QueueLength(q) /\ Len(Line(q, S, id)) = QueueLength(q)
      BY <1>0, <2>1, <2>2, LineType
    <3>2. \A i \in 1 .. QueueLength(q) : Line(p, T, now)[i] = Line(q, S, id)[i]
      BY <1>0, <2>1, <2>2, LineType, LineAt
    <3> QED BY <3>1, <3>2, SameLine
  <2> QED BY <1>0, <1>1, <1>2, <2>2, <2>3
<1>4. ASSUME NEW r \in Requests, JoinsAtBack(r, type)
      PROVE  /\ Tiled(p, T, now) /\ IsLonger(Line(p, T, now), Line(q, S, id), r)
             /\ \A i \in 1 .. Len(Line(q, S, id)) : Line(q, S, id)[i] # r
  <2>1. /\ WithinActiveWindow(q) /\ p = IncrementTotal(q) /\ r \notin S /\ T = S \cup {r}
        /\ now[r] = NextId(q) /\ \A s \in S : now[s] = id[s]
    BY <1>4 DEF JoinsAtBack, NextId
  <2> HIDE DEF p, q, T, S, now, id
  <2>2. \A i \in 1 .. Len(Line(q, S, id)) : Line(q, S, id)[i] # r
    BY <1>0, <2>1, LineType
  <2> QED BY <1>0, <2>1, <2>2, LineJoined
<1>5. ASSUME NEW r \in Requests, LeavesFromFront(r, type)
      PROVE  /\ Tiled(p, T, now) /\ Line(p, T, now) = Tail(Line(q, S, id))
             /\ Line(q, S, id) # <<>>
  <2>1. /\ r \in S /\ T = S \ {r} /\ IsHead(q, id[r]) /\ p = AdvanceTo(q, id[r])
        /\ \A s \in S \ {r} : now[s] = id[s]
    BY <1>5 DEF LeavesFromFront
  <2> HIDE DEF p, q, T, S, now, id
  <2> QED BY <1>0, <2>1, LineLeft
<1> HIDE DEF p, q, T, S, now, id
<1>6. CASE \E r \in Requests : JoinsAtBack(r, type)
  BY <1>0, <1>1, <1>2, <1>4, <1>6 DEF IsLonger
<1> QED BY <1>0, <1>1, <1>2, <1>3, <1>5, <1>6 DEF QueueStep

-----------------------------------------------------------------------------
(* Which instruction does what to a queue *)

\* Instructions that leave the counters, and of every request the state, the
\* type and the id, alone.
LEMMA Undisturbed ==
  ASSUME queue' = queue, NEW type,
         \A s \in Requests :
           /\ InQueue(s, type)' <=> InQueue(s, type)
           /\ InQueue(s, type) => request'[s].queue_id = request[s].queue_id
  PROVE  StaysAsItIs(type)
  BY DEF StaysAsItIs, Members, Carried

LEMMA OpenRequestQueueStep ==
  ASSUME TypeOK, NEW r \in Requests, NEW t \in RequestTypes, NEW u, NEW asset, NEW amount,
         NEW op, OpenRequest(r, t, u, asset, amount, op), NEW type \in RequestTypes
  PROVE  QueueStep(type)
<1> USE DEF InQueue, IsState
<1>1. /\ IsState(r, "Closed") /\ WithinActiveWindow(queue[t])
      /\ request' = [request EXCEPT ![r] = NewRequest(t, u, asset, amount, op)]
      /\ queue' = QueueAfterCreate(t) /\ request \in [Requests -> RequestRecords \cup {Closed}]
      /\ queue \in [RequestTypes -> Queues]
  BY DEF OpenRequest, TypeOK
<1>2. /\ \A s \in Requests \ {r} : request'[s] = request[s]
      /\ request'[r].request_state = "Pending" /\ request'[r].request_type = t
      /\ request'[r].queue_id = NextQueueId(t)
  BY <1>1 DEF NewRequest
<1>3. CASE HasQueue[t] /\ t = type
  <2>1. queue'[type] = IncrementTotal(queue[type])
    BY <1>1, <1>3 DEF QueueAfterCreate
  <2>2. r \notin Members(type) /\ Members(type)' = Members(type) \cup {r}
    BY <1>1, <1>2, <1>3 DEF Members
  <2>3. Carried'[r] = WrappingAdd1(queue[type].total)
    BY <1>2, <1>3 DEF Carried, NextQueueId
  <2>4. \A s \in Members(type) : Carried'[s] = Carried[s]
    BY <1>1, <1>2 DEF Carried, Members
  <2>5. JoinsAtBack(r, type)
    BY <1>1, <1>3, <2>1, <2>2, <2>3, <2>4 DEF JoinsAtBack
  <2> QED BY <2>5 DEF QueueStep
<1>4. CASE ~(HasQueue[t] /\ t = type)
  <2>1. queue'[type] = queue[type]
    BY <1>1, <1>4 DEF QueueAfterCreate
  <2>2. Members(type)' = Members(type)
    BY <1>1, <1>2, <1>4 DEF Members
  <2>3. \A s \in Members(type) : Carried'[s] = Carried[s]
    BY <1>1, <1>2 DEF Carried, Members
  <2> QED BY <2>1, <2>2, <2>3 DEF QueueStep, StaysAsItIs
<1> QED BY <1>3, <1>4

\* Approvals, rejections and skips: a request that has a place gives it up when
\* it is the head.
LEMMA ServedQueueStep ==
  ASSUME TypeOK, NEW r \in Requests, InFifoOrder(r), queue' = QueueAfterAdvance(r),
         IsState(r, "Pending") \/ IsState(r, "Canceled"),
         \A s \in Requests \ {r} : request'[s] = request[s],
         request'[r].request_state \notin {"Pending", "Canceled"},
         NEW type \in RequestTypes
  PROVE  QueueStep(type)
<1> USE DEF InQueue, IsState
<1> DEFINE t == request[r].request_type
<1>1. t \in RequestTypes /\ queue \in [RequestTypes -> Queues]
  BY LiveRequest DEF TypeOK
<1>2. CASE HasQueue[t] /\ t = type
  <2>1. queue'[type] = AdvanceTo(queue[type], Carried[r])
    BY <1>1, <1>2 DEF QueueAfterAdvance, Carried
  <2>2. r \in Members(type) /\ Members(type)' = Members(type) \ {r}
    BY <1>2 DEF Members
  <2>3. IsHead(queue[type], Carried[r])
    BY <1>2 DEF InFifoOrder, Carried
  <2>4. \A s \in Members(type) \ {r} : Carried'[s] = Carried[s]
    BY DEF Carried, Members
  <2>5. LeavesFromFront(r, type)
    BY <2>1, <2>2, <2>3, <2>4 DEF LeavesFromFront
  <2> QED BY <2>5 DEF QueueStep
<1>3. CASE ~(HasQueue[t] /\ t = type)
  <2>1. queue'[type] = queue[type]
    BY <1>1, <1>3 DEF QueueAfterAdvance
  <2>2. Members(type)' = Members(type) /\ r \notin Members(type)
    BY <1>3 DEF Members
  <2>3. \A s \in Members(type) : Carried'[s] = Carried[s]
    BY <2>2 DEF Carried, Members
  <2> QED BY <2>1, <2>2, <2>3 DEF QueueStep, StaysAsItIs
<1> QED BY <1>2, <1>3

LEMMA SettleQueueStep ==
  ASSUME TypeOK, Settle, NEW type \in RequestTypes, Filled(type)
  PROVE  QueueStep(type)
<1> USE DEF InQueue, IsState
<1>0. request \in [Requests -> RequestRecords \cup {Closed}]
  BY DEF TypeOK
<1>1. ASSUME NEW r \in Requests, ApproveDeposit(r) \/ ApproveRedeem(r)
      PROVE  QueueStep(type)
  <2>1. /\ CanApprove(r) /\ queue' = QueueAfterAdvance(r)
        /\ \E claimable : request' = [request EXCEPT ![r].amount = claimable,
                                                     ![r].price = nav,
                                                     ![r].request_state = "Claimable"]
    BY <1>1 DEF ApproveDeposit, ApproveRedeem, MarkClaimable
  <2>2. IsState(r, "Pending") /\ InFifoOrder(r)
    BY <2>1 DEF CanApprove
  <2>3. request[r] \in RequestRecords
    BY <2>2, LiveRequest
  <2>4. /\ \A s \in Requests \ {r} : request'[s] = request[s]
        /\ request'[r].request_state = "Claimable"
    BY <1>0, <2>1, <2>3 DEF RequestRecords
  <2> QED BY <2>1, <2>2, <2>4, ServedQueueStep
<1>2. ASSUME NEW r \in Requests, RejectRequest(r) \/ SkipCanceledQueueRequest(r)
      PROVE  QueueStep(type)
  <2>1. /\ IsState(r, "Pending") \/ IsState(r, "Canceled")
        /\ InFifoOrder(r) /\ queue' = QueueAfterAdvance(r)
        /\ request' = [request EXCEPT ![r] = Closed]
    BY <1>2 DEF RejectRequest, SkipCanceledQueueRequest
  <2>2. /\ \A s \in Requests \ {r} : request'[s] = request[s]
        /\ request'[r].request_state = "Closed"
    BY <1>0, <2>1 DEF Closed
  <2> QED BY <2>1, <2>2, ServedQueueStep
<1>3. ASSUME NEW r \in Requests, CancelRequest(r)
      PROVE  QueueStep(type)
  <2>1. /\ request[r].queue_id = NoQueueId /\ queue' = queue
        /\ request' = [request EXCEPT ![r] = Closed]
    BY <1>3 DEF CancelRequest
  <2>2. ~InQueue(r, type)
    <3> SUFFICES ASSUME InQueue(r, type) PROVE FALSE
      OBVIOUS
    <3>1. r \in Members(type) /\ Carried[r] = NoQueueId
      BY <2>1 DEF Members, Carried
    <3>2. PICK i \in 1 .. QueueLength(queue[type]) : Carried[r] = IdAt(queue[type], i)
      BY <3>1 DEF Filled, Tiled
    <3>3. IdAt(queue[type], i) \in Ids
      BY QueueType, IdAtType
    <3> QED BY <3>1, <3>2, <3>3, U64MaxAssumption DEF Ids, NoQueueId
  <2>3. StaysAsItIs(type)
    BY <1>0, <2>1, <2>2, Undisturbed DEF Closed
  <2> QED BY <2>3 DEF QueueStep
<1>4. ASSUME NEW r \in Requests, CancelQueued(r)
      PROVE  QueueStep(type)
  <2>1. /\ IsState(r, "Pending") /\ queue' = queue
        /\ request' = [request EXCEPT ![r] = Tombstone(@)]
    BY <1>4 DEF CancelQueued
  <2>2. request[r] \in RequestRecords
    BY <2>1, LiveRequest
  <2>3. StaysAsItIs(type)
    BY <1>0, <2>1, <2>2, Undisturbed DEF Tombstone, RequestRecords
  <2> QED BY <2>3 DEF QueueStep
<1>5. ASSUME NEW r \in Requests, NEW signer \in Users, Claim(r, signer)
      PROVE  QueueStep(type)
  <2>1. IsState(r, "Claimable") /\ queue' = queue /\ request' = [request EXCEPT ![r] = Closed]
    BY <1>5 DEF Claim
  <2>2. StaysAsItIs(type)
    BY <1>0, <2>1, Undisturbed DEF Closed
  <2> QED BY <2>2 DEF QueueStep
<1>6. ASSUME NEW r \in Requests, NEW op \in Operators, SetOperator(r, op)
      PROVE  QueueStep(type)
  <2>1. /\ ~IsState(r, "Closed") /\ queue' = queue
        /\ request' = [request EXCEPT ![r].operator = op]
    BY <1>6 DEF SetOperator
  <2>2. request[r] \in RequestRecords
    BY <2>1, LiveRequest
  <2>3. StaysAsItIs(type)
    BY <1>0, <2>1, <2>2, Undisturbed DEF RequestRecords
  <2> QED BY <2>3 DEF QueueStep
<1> QED
  BY <1>1, <1>2, <1>3, <1>4, <1>5, <1>6
     DEF Settle, CancelQueuedDepositRequest, CancelQueuedRedemptionRequest

LEMMA EveryStepIsAQueueStep ==
  ASSUME TypeOK, [Next]_vars, NEW type \in RequestTypes, Filled(type)
  PROVE  QueueStep(type)
<1>1. CASE Create
  <2>1. PICK r \in Requests, t \in RequestTypes, u \in Users, asset \in Assets,
             amount \in Amounts, op \in Operators \cup {NoOperator} :
               OpenRequest(r, t, u, asset, amount, op)
    BY <1>1 DEF Create, CreateDepositRequest, CreateRedeemRequest, RequestTypes
  <2> QED BY <2>1, OpenRequestQueueStep
<1>2. CASE Instant \/ Manage \/ Outside \/ UNCHANGED vars
  <2>1. request' = request /\ queue' = queue
    <3>1. CASE Instant
      BY <3>1 DEF Instant, InstantDeposit, InstantRedeem
    <3>2. CASE Manage
      BY <3>2 DEF Manage, UpdateVaultNav, UpdateVault, ExecuteVaultUpdate, UpdateExtension,
                  PauseVault, AddVaultAsset, RemoveVaultAsset, WithdrawAssets
    <3>3. CASE Outside
      BY <3>3 DEF Outside, ReturnAssets, Tick
    <3>4. CASE UNCHANGED vars
      BY <3>4 DEF vars
    <3> QED BY <1>2, <3>1, <3>2, <3>3, <3>4
  <2> QED BY <2>1 DEF QueueStep, StaysAsItIs, Members, Carried, InQueue, IsState
<1> QED BY <1>1, <1>2, SettleQueueStep DEF Next

-----------------------------------------------------------------------------
(* Theorems *)

QueuesFilled == Filled("Deposit") /\ Filled("Redeem")

LEMMA InitFilled == Init => QueuesFilled
<1> SUFFICES ASSUME Init, NEW type \in RequestTypes PROVE Filled(type)
  BY DEF QueuesFilled, RequestTypes
<1>1. Members(type) = {}
  BY DEF Init, Members, InQueue, IsState, Closed
<1>2. QueueLength(queue[type]) = 0
  BY DEF Init, NewQueue, QueueLength
<1> QED BY <1>1, <1>2 DEF Filled, Tiled

LEMMA InitEmpty == Init => QueueContents("Deposit") = <<>> /\ QueueContents("Redeem") = <<>>
<1> SUFFICES ASSUME Init, NEW type \in RequestTypes PROVE QueueContents(type) = <<>>
  BY DEF RequestTypes
<1>1. QueueLength(queue[type]) = 0
  BY DEF Init, NewQueue, QueueLength
<1> QED BY <1>1 DEF QueueContents

LEMMA FilledStep ==
  ASSUME TypeOK, QueuesFilled, [Next]_vars
  PROVE  /\ QueuesFilled'
         /\ [SubscriptionFifo!Next]_(QueueContents("Deposit"))
         /\ [RedemptionFifo!Next]_(QueueContents("Redeem"))
<1>1. QueueStep("Deposit") /\ QueueStep("Redeem")
  BY EveryStepIsAQueueStep DEF QueuesFilled, RequestTypes
<1>2. "Deposit" \in RequestTypes /\ "Redeem" \in RequestTypes
  BY DEF RequestTypes
<1>3. QueuesFilled'
  BY <1>1, <1>2, StepFillsPlaces DEF QueuesFilled
<1>4. [SubscriptionFifo!Next]_(QueueContents("Deposit"))
  BY <1>1, <1>2, StepFillsPlaces
     DEF QueuesFilled, SubscriptionFifo!Next, SubscriptionFifo!Leave, SubscriptionFifo!Join,
         SubscriptionFifo!Waiting
<1>5. [RedemptionFifo!Next]_(QueueContents("Redeem"))
  BY <1>1, <1>2, StepFillsPlaces
     DEF QueuesFilled, RedemptionFifo!Next, RedemptionFifo!Leave, RedemptionFifo!Join,
         RedemptionFifo!Waiting
<1> QED BY <1>3, <1>4, <1>5

LEMMA QueuesFilledInvariant == Spec => []QueuesFilled
<1>1. TypeOK /\ QueuesFilled /\ [Next]_vars => QueuesFilled'
  BY FilledStep
<1> QED BY <1>1, InitFilled, TypeCorrect, PTL DEF Spec

\* The open queued requests carry exactly the ids between last_processed and
\* total, each once: the queue never loses a place and never has two requests in
\* one, however often the u64 counters wrap.
THEOREM QueueIdsCovered == Spec => []QueueCoversIds
<1>1. QueuesFilled => QueueCoversIds
  BY FilledMeansCovered DEF QueuesFilled, RequestTypes
<1> QED BY <1>1, QueuesFilledInvariant, PTL

\* check_and_advance_queue and next_queue_request_id implement a FIFO queue of
\* deposits: every instruction is a step of RequestQueue or does not touch it.
THEOREM SubscriptionsServedInOrder == Spec => SubscriptionsInOrder
<1>1. Init => SubscriptionFifo!Init
  BY InitEmpty DEF SubscriptionFifo!Init
<1>2. TypeOK /\ QueuesFilled /\ [Next]_vars
        => [SubscriptionFifo!Next]_(QueueContents("Deposit"))
  BY FilledStep
<1> QED
  BY <1>1, <1>2, TypeCorrect, QueuesFilledInvariant, PTL
     DEF Spec, SubscriptionsInOrder, SubscriptionFifo!Spec

\* The same of redemptions, tombstones and requests for secondary assets
\* included.
THEOREM RedemptionsServedInOrder == Spec => RedemptionsInOrder
<1>1. Init => RedemptionFifo!Init
  BY InitEmpty DEF RedemptionFifo!Init
<1>2. TypeOK /\ QueuesFilled /\ [Next]_vars
        => [RedemptionFifo!Next]_(QueueContents("Redeem"))
  BY FilledStep
<1> QED
  BY <1>1, <1>2, TypeCorrect, QueuesFilledInvariant, PTL
     DEF Spec, RedemptionsInOrder, RedemptionFifo!Spec
=============================================================================
