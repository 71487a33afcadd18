---------------------------- MODULE Formats_proofs ----------------------------
(***************************************************************************)
(* Theorems about the two formats the program reads: the byte area behind  *)
(* an account (Tlv), for every set of extensions, lengths and cell values, *)
(* and the Merkle tree of a strategy policy (MerklePolicy), for every      *)
(* number of leaves and every proof.                                       *)
(*                                                                         *)
(* Both are recursions over data.  They are reasoned about by least        *)
(* elements: a set of naturals that is not all of Nat leaves out a least   *)
(* one, so a set that has 0, and with a number its successor, has them     *)
(* all.  A property P is proved of every number by the set of those that   *)
(* have it, which needs no induction theorem with an operator parameter.   *)
(***************************************************************************)
EXTENDS Tlv, MerklePolicy, WellFoundedInduction, SequenceTheorems, TLAPS

-----------------------------------------------------------------------------
(* Induction *)

LEMMA LeastOf ==
  ASSUME NEW T \in SUBSET Nat, T # {}
  PROVE  \E x \in T : \A y \in T : x <= y
<1> DEFINE R == OpToRel(<, Nat)
<1>1. IsWellFoundedOn(R, Nat)
  BY NatLessThanWellFounded
<1> HIDE DEF R
<1>2. PICK x \in T : \A y \in T : ~(<<y, x>> \in R)
  BY <1>1, WFMin, Zenon
<1>3. ASSUME NEW y \in T
      PROVE  x <= y
  <2>1. <<y, x>> \notin R
    BY <1>2
  <2>2. <<y, x>> \in Nat \X Nat
    OBVIOUS
  <2>3. ~ (y < x)
    BY <2>1, <2>2, Zenon DEF R, OpToRel
  <2> QED BY <2>3
<1> QED BY <1>3

LEMMA InductionOnSet ==
  ASSUME NEW S, 0 \in S, \A n \in Nat : n \in S => n + 1 \in S
  PROVE  \A n \in Nat : n \in S
<1> SUFFICES ASSUME NEW n \in Nat, n \notin S
             PROVE  FALSE
  OBVIOUS
<1> DEFINE T == Nat \ S
<1>1. PICK x \in T : \A y \in T : x <= y
  BY LeastOf
<1>2. x # 0 /\ x - 1 \in Nat /\ x - 1 \notin T
  BY <1>1
<1> QED BY <1>1, <1>2

-----------------------------------------------------------------------------
(* Folding a proof *)

\* g holds what Computed has after each of the first n nodes of the proof.
Folds(g, n, leaf, proof) ==
  g = [k \in 0 .. n |-> IF k = 0 THEN leaf ELSE HashStrategyNode(g[k - 1], proof[k])]

LEMMA FoldsExist ==
  ASSUME NEW leaf, NEW proof
  PROVE  \A n \in Nat : \E g : Folds(g, n, leaf, proof)
<1> DEFINE S == {m \in Nat : \E g : Folds(g, m, leaf, proof)}
<1>1. 0 \in S
  <2> DEFINE g == [k \in 0 .. 0 |-> leaf]
  <2>1. g = [k \in 0 .. 0 |-> IF k = 0 THEN leaf ELSE HashStrategyNode(g[k - 1], proof[k])]
    OBVIOUS
  <2> HIDE DEF g
  <2> QED BY <2>1 DEF Folds
<1>2. ASSUME NEW m \in Nat, m \in S
      PROVE  m + 1 \in S
  <2>1. PICK g : Folds(g, m, leaf, proof)
    BY <1>2
  <2> DEFINE x == HashStrategyNode(g[m], proof[m + 1])
             h == [k \in 0 .. m + 1 |-> IF k = m + 1 THEN x ELSE g[k]]
  <2>2. ASSUME NEW k \in 0 .. m + 1
        PROVE  h[k] = IF k = 0 THEN leaf ELSE HashStrategyNode(h[k - 1], proof[k])
    <3>1. CASE k = m + 1
      BY <3>1
    <3>2. CASE k \in 0 .. m
      <4>1. g[k] = IF k = 0 THEN leaf ELSE HashStrategyNode(g[k - 1], proof[k])
        BY <2>1, <3>2 DEF Folds
      <4>2. h[k] = g[k] /\ (k # 0 => h[k - 1] = g[k - 1])
        BY <3>2
      <4> QED BY <4>1, <4>2
    <3> QED BY <3>1, <3>2
  <2>3. h = [k \in 0 .. m + 1 |-> h[k]]
    OBVIOUS
  <2> HIDE DEF h
  <2>4. Folds(h, m + 1, leaf, proof)
    BY <2>2, <2>3 DEF Folds
  <2> QED BY <2>4
<1> HIDE DEF S
<1>3. \A m \in Nat : m \in S
  BY <1>1, <1>2, InductionOnSet
<1> QED BY <1>3 DEF S

LEMMA FoldsStep ==
  ASSUME NEW g, NEW n, NEW leaf, NEW proof, Folds(g, n, leaf, proof), n \in Nat,
         NEW k \in 1 .. n
  PROVE  g[k] = HashStrategyNode(g[k - 1], proof[k])
<1>1. k \in 0 .. n /\ k # 0
  OBVIOUS
<1> QED BY <1>1 DEF Folds

LEMMA ComputedStepwise ==
  ASSUME NEW leaf, NEW proof, Len(proof) \in Nat
  PROVE  \E after : /\ Folds(after, Len(proof), leaf, proof)
                    /\ Computed(leaf, proof) = after[Len(proof)]
<1> DEFINE after[k \in 0 .. Len(proof)] ==
             IF k = 0 THEN leaf ELSE HashStrategyNode(after[k - 1], proof[k])
<1>1. \E g : Folds(g, Len(proof), leaf, proof)
  BY FoldsExist
<1>2. Folds(after, Len(proof), leaf, proof)
  BY <1>1, Zenon DEF Folds
<1>3. Computed(leaf, proof) = after[Len(proof)]
  BY DEF Computed
<1> HIDE DEF after
<1> QED BY <1>2, <1>3

-----------------------------------------------------------------------------
(* The tree of a policy *)

\* s is a sequence with an element.
Filled(s) == s \in Seq(Range(s)) /\ s # << >>

\* The invariant: level after level from the leaves of the policy, each but the last
\* with a pair still to be hashed.
TreeOfPolicy ==
  /\ \E n \in 1 .. MAX_POLICY_LEAVES : policy \in [1 .. n -> Presentable]
  /\ Filled(levels)
  /\ levels[1] = LeavesOf(policy)
  /\ \A k \in 1 .. Len(levels) : Filled(levels[k])
  /\ \A k \in 1 .. Len(levels) - 1 :
       Len(levels[k]) > 1 /\ levels[k + 1] = NextLevel(levels[k])

LEMMA FilledProperties ==
  ASSUME NEW s, Filled(s)
  PROVE  Len(s) \in Nat \ {0} /\ DOMAIN s = 1 .. Len(s) /\ Last(s) = s[Len(s)]
BY LenProperties, EmptySeq DEF Filled, Last

LEMMA FilledFunction ==
  ASSUME NEW n \in Nat \ {0}, NEW f, f = [i \in 1 .. n |-> f[i]]
  PROVE  Filled(f) /\ Len(f) = n
<1>1. f \in [1 .. n -> Range(f)]
  BY DEF Range
<1>2. f \in Seq(Range(f))
  BY <1>1, SeqDef
<1>3. Len(f) = n
  BY <1>2, <1>1, LenProperties
<1> QED BY <1>2, <1>3, EmptySeq DEF Filled

LEMMA NextLevelFilled ==
  ASSUME NEW level, Filled(level)
  PROVE  Filled(NextLevel(level)) /\ Len(NextLevel(level)) = (Len(level) + 1) \div 2
<1> DEFINE n == (Len(level) + 1) \div 2
<1>1. n \in Nat \ {0}
  BY FilledProperties
<1>2. NextLevel(level) = [i \in 1 .. n |-> NextLevel(level)[i]]
  BY DEF NextLevel
<1> HIDE DEF n
<1> QED BY <1>1, <1>2, FilledFunction DEF n

LEMMA TreeInit ==
  ASSUME MerkleInit
  PROVE  TreeOfPolicy
<1>1. PICK n \in 1 .. MAX_POLICY_LEAVES : policy \in [1 .. n -> Presentable]
  BY DEF MerkleInit
<1>2. n \in Nat \ {0}
  BY MerkleAssumption
<1>3. LeavesOf(policy) = [i \in 1 .. n |-> LeavesOf(policy)[i]]
  BY <1>1 DEF LeavesOf
<1>4. Filled(LeavesOf(policy))
  BY <1>2, <1>3, FilledFunction
<1>5. levels = <<LeavesOf(policy)>>
  BY DEF MerkleInit
<1>6. levels = [i \in 1 .. 1 |-> levels[i]] /\ levels[1] = LeavesOf(policy)
  BY <1>5
<1>7. 1 \in Nat \ {0}
  OBVIOUS
<1>8. Filled(levels) /\ Len(levels) = 1
  BY <1>6, <1>7, FilledFunction, Zenon
<1> QED BY <1>1, <1>4, <1>6, <1>8 DEF TreeOfPolicy

LEMMA TreeStep ==
  ASSUME TreeOfPolicy, [MerkleNext]_merkleVars
  PROVE  TreeOfPolicy'
<1>1. CASE BuildLevel
  <2> DEFINE n == Len(levels)
             new == NextLevel(levels[n])
  <2>1. Filled(levels) /\ n \in Nat \ {0} /\ Last(levels) = levels[n]
    BY FilledProperties DEF TreeOfPolicy
  <2>2. Filled(levels[n]) /\ Len(levels[n]) > 1 /\ levels' = Append(levels, new)
    BY <1>1, <2>1 DEF TreeOfPolicy, BuildLevel
  <2>3. Filled(new)
    BY <2>2, NextLevelFilled
  <2> HIDE DEF new
  <2>4. /\ Len(levels') = n + 1 /\ levels'[n + 1] = new
        /\ \A k \in 1 .. n : levels'[k] = levels[k]
        /\ levels' = [k \in 1 .. n + 1 |-> levels'[k]]
    <3> DEFINE S == Range(levels) \cup {new}
    <3>1. levels \in Seq(Range(levels))
      BY <2>1 DEF Filled
    <3>2. levels \in Seq(S) /\ new \in S
      BY <3>1
    <3> HIDE DEF S
    <3>3. /\ levels' \in Seq(S) /\ Len(levels') = n + 1 /\ levels'[n + 1] = new
          /\ \A k \in 1 .. n : levels'[k] = levels[k]
      BY <2>2, <3>2, AppendProperties
    <3> QED BY <3>3, LenProperties
  <2>5. Filled(levels')
    BY <2>1, <2>4, FilledFunction
  <2>6. levels'[1] = LeavesOf(policy)
    BY <2>1, <2>4 DEF TreeOfPolicy
  <2>7. \A k \in 1 .. n + 1 : Filled(levels'[k])
    <3>1. \A k \in 1 .. n : levels'[k] = levels[k] /\ Filled(levels[k])
      BY <2>4 DEF TreeOfPolicy
    <3>2. \A k \in 1 .. n + 1 : k \in 1 .. n \/ k = n + 1
      BY <2>1
    <3> QED BY <2>3, <2>4, <3>1, <3>2, Zenon
  <2>8. ASSUME NEW k \in 1 .. n
        PROVE  Len(levels'[k]) > 1 /\ levels'[k + 1] = NextLevel(levels'[k])
    <3>1. CASE k = n
      BY <2>1, <2>2, <2>4, <3>1 DEF new
    <3>2. CASE k \in 1 .. n - 1
      <4>1. levels'[k] = levels[k] /\ levels'[k + 1] = levels[k + 1]
        BY <2>1, <2>4, <3>2
      <4>2. Len(levels[k]) > 1 /\ levels[k + 1] = NextLevel(levels[k])
        BY <3>2 DEF TreeOfPolicy
      <4> QED BY <4>1, <4>2
    <3> QED BY <3>1, <3>2, <2>1
  <2>9. policy' = policy /\ LeavesOf(policy)' = LeavesOf(policy)
    BY <1>1 DEF BuildLevel, LeavesOf, HashStrategyPolicyLeaf, NormalizeAccounts
  <2>10. TreeOfPolicy'
    <3> HIDE DEF n
    <3>1. Len(levels') - 1 = n
      BY <2>1, <2>4
    <3> QED BY <2>1, <2>4, <2>5, <2>6, <2>7, <2>8, <2>9, <3>1 DEF TreeOfPolicy, Presentable
  <2> QED BY <2>10
<1>2. CASE UNCHANGED merkleVars
  BY <1>2 DEF merkleVars, TreeOfPolicy, LeavesOf, Presentable
<1> QED BY <1>1, <1>2 DEF MerkleNext

-----------------------------------------------------------------------------
(* Only what the curator allowed is accepted *)

\* A node of the tree is a leaf of the policy or the hash of two nodes.
LEMMA NodeOfTree ==
  ASSUME TreeOfPolicy, NEW x \in Nodes
  PROVE  \/ \E i \in DOMAIN policy : x = LeavesOf(policy)[i]
         \/ \E a, b \in Nodes : x = HashStrategyNode(a, b)
<1>1. PICK k \in DOMAIN levels : x \in Range(levels[k])
  BY DEF Nodes
<1>2. Len(levels) \in Nat /\ DOMAIN levels = 1 .. Len(levels)
  BY FilledProperties DEF TreeOfPolicy
<1>3. PICK i \in DOMAIN levels[k] : x = levels[k][i]
  BY <1>1 DEF Range
<1>4. CASE k = 1
  BY <1>3, <1>4 DEF TreeOfPolicy, LeavesOf
<1>5. CASE k # 1
  <2>1. k - 1 \in 1 .. Len(levels) - 1 /\ k - 1 \in 1 .. Len(levels)
    BY <1>2, <1>5
  <2> DEFINE below == levels[k - 1]
  <2>2. Filled(below) /\ Len(below) > 1 /\ levels[k] = NextLevel(below)
    <3>1. (k - 1) + 1 = k
      BY <1>2
    <3> QED BY <2>1, <3>1 DEF TreeOfPolicy
  <2>3. \A j \in 1 .. Len(below) : below[j] \in Nodes
    <3>1. k - 1 \in DOMAIN levels
      BY <1>2, <2>1
    <3>2. \A j \in DOMAIN below : below[j] \in Range(levels[k - 1])
      BY DEF Range
    <3> QED BY <2>2, <3>1, <3>2, FilledProperties DEF Nodes
  <2> HIDE DEF below
  <2>4. Len(below) \in Nat
    BY <2>2, FilledProperties
  <2>5. /\ i \in 1 .. (Len(below) + 1) \div 2
        /\ x = HashStrategyNode(below[2 * i - 1],
                 IF 2 * i <= Len(below) THEN below[2 * i] ELSE below[2 * i - 1])
    BY <1>3, <2>2 DEF NextLevel
  <2>6. 2 * i - 1 \in 1 .. Len(below) /\ (2 * i <= Len(below) => 2 * i \in 1 .. Len(below))
    BY <2>4, <2>5
  <2> QED BY <2>3, <2>5, <2>6
<1> QED BY <1>4, <1>5

LEMMA ChildrenOfNode ==
  ASSUME TreeOfPolicy, NEW a, NEW b, HashStrategyNode(a, b) \in Nodes
  PROVE  a \in Nodes
<1> DEFINE x == HashStrategyNode(a, b)
<1>1. x[1] = "node" /\ x[2] = {a, b}
  BY DEF HashStrategyNode
<1>2. \A i \in DOMAIN policy : LeavesOf(policy)[i][1] = "leaf"
  BY DEF LeavesOf, HashStrategyPolicyLeaf
<1>3. PICK c, d \in Nodes : x = HashStrategyNode(c, d)
  <2> HIDE DEF x
  <2>1. "node" # "leaf"
    OBVIOUS
  <2> QED BY <1>1, <1>2, <2>1, NodeOfTree DEF x
<1>4. x[2] = {c, d}
  BY <1>3 DEF HashStrategyNode
<1> HIDE DEF x
<1> QED BY <1>1, <1>3, <1>4

\* The last fold is a node of the tree, so every earlier one is, back to the leaf.
LEMMA FoldedFromTree ==
  ASSUME TreeOfPolicy, NEW n \in Nat, NEW after, NEW leaf, NEW proof,
         Folds(after, n, leaf, proof), after[n] \in Nodes
  PROVE  leaf \in Nodes
<1> DEFINE S == {m \in Nat : m <= n => after[n - m] \in Nodes}
<1>1. 0 \in S
  OBVIOUS
<1>2. ASSUME NEW m \in Nat, m \in S
      PROVE  m + 1 \in S
  <2> SUFFICES ASSUME m + 1 <= n
               PROVE  after[n - (m + 1)] \in Nodes
    OBVIOUS
  <2>1. after[n - m] = HashStrategyNode(after[(n - m) - 1], proof[n - m])
    BY DEF Folds
  <2>2. after[n - m] \in Nodes
    BY <1>2
  <2>3. after[(n - m) - 1] \in Nodes
    BY <2>1, <2>2, ChildrenOfNode
  <2>4. (n - m) - 1 = n - (m + 1)
    OBVIOUS
  <2> QED BY <2>3, <2>4
<1> HIDE DEF S
<1>3. n \in S
  BY <1>1, <1>2, InductionOnSet
<1>4. after[0] \in Nodes
  BY <1>3 DEF S
<1> QED BY <1>4 DEF Folds

LEMMA PresentableProperties ==
  ASSUME NEW x \in Presentable
  PROVE  /\ x[1].data \in Seq(Range(x[1].data)) /\ x[1].accounts \in Seq(Range(x[1].accounts))
         /\ x[2] \in Seq(PolicyOperator)
         /\ Hashable(x[1], x[2])
<1>1. x[1] \in Calls /\ x[2] \in Operators /\ Hashable(x[1], x[2])
  BY DEF Presentable
<1> QED BY <1>1, MerkleAssumption

LEMMA NormalizeLen ==
  ASSUME NEW accounts, accounts \in Seq(Range(accounts))
  PROVE  Len(NormalizeAccounts(accounts)) = Len(accounts)
<1> DEFINE f == NormalizeAccounts(accounts)
<1>1. f = [i \in 1 .. Len(accounts) |-> f[i]] /\ Len(accounts) \in Nat
  BY LenProperties DEF NormalizeAccounts
<1>2. f \in [1 .. Len(accounts) -> Range(f)]
  BY <1>1 DEF Range
<1> HIDE DEF f
<1> QED BY <1>1, <1>2, SeqDef, LenProperties DEF f

LEMMA SubSeqElement ==
  ASSUME NEW S, NEW s \in Seq(S), NEW m \in Nat \ {0}, NEW n \in Nat, n <= Len(s),
         NEW k \in m .. n
  PROVE  SubSeq(s, m, n)[k - m + 1] = s[k]
<1>1. \A i \in m .. n : s[i] \in S
  BY LenProperties
<1>2. k - m + 1 \in 1 .. n - m + 1 /\ m + (k - m + 1) - 1 = k
  OBVIOUS
<1>3. m \in Int /\ n \in Int
  OBVIOUS
<1>4. \A i \in 1 .. n - m + 1 : SubSeq(s, m, n)[i] = s[m + i - 1]
  BY <1>1, <1>3, SubSeqProperties
<1>5. SubSeq(s, m, n)[k - m + 1] = s[m + (k - m + 1) - 1]
  BY <1>2, <1>4, Zenon
<1> QED BY <1>2, <1>5, Zenon

\* Equal leaves are leaves of calls that agree on all a policy fixes.
LEMMA EqualLeaves ==
  ASSUME NEW allowed \in Presentable, NEW presented \in Presentable,
         HashStrategyPolicyLeaf(allowed[1], allowed[2])
           = HashStrategyLeaf(presented[1], presented[2])
  PROVE  Covers(allowed, presented)
<1> DEFINE c == allowed[1]
           d == presented[1]
           ops == allowed[2]
           given == presented[2]
           left == HashStrategyPolicyLeaf(c, ops)[2]
           right == HashStrategyLeaf(d, given)[2]
           Committed(op) ==
             CASE op.tag = "IngestInstruction"  -> SubSeq(c.data, op.offset + 1, op.offset + op.length)
               [] op.tag = "IngestAccount"      -> <<NormalizeAccounts(c.accounts)[op.index + 1]>>
               [] op.tag = "ManagerLimitAmount" -> << >>
<1>1. left = right
  OBVIOUS
<1>2. /\ c.strategist = left.strategist /\ c.policy_version = left.version
      /\ c.target_program = left.target_program /\ SubSeq(c.data, 1, DiscLen) = left.discriminator
      /\ Len(c.data) = left.data_len /\ Len(NormalizeAccounts(c.accounts)) = left.account_count
      /\ [i \in DOMAIN ops |-> <<ops[i], Committed(ops[i])>>] = left.operators
  BY DEF HashStrategyPolicyLeaf
<1>3. /\ d.strategist = right.strategist /\ d.policy_version = right.version
      /\ d.target_program = right.target_program /\ SubSeq(d.data, 1, DiscLen) = right.discriminator
      /\ Len(d.data) = right.data_len /\ Len(d.accounts) = right.account_count
      /\ [i \in DOMAIN given |-> <<given[i], Extracted(d, given[i])>>] = right.operators
  <2>1. 0 + 1 = 1 /\ 0 + DiscLen = DiscLen
    BY MerkleAssumption
  <2> QED BY <2>1 DEF HashStrategyLeaf, Range0
<1>4. /\ c.data \in Seq(Range(c.data)) /\ c.accounts \in Seq(Range(c.accounts))
      /\ d.data \in Seq(Range(d.data)) /\ d.accounts \in Seq(Range(d.accounts))
      /\ ops \in Seq(PolicyOperator) /\ given \in Seq(PolicyOperator)
      /\ Hashable(c, ops) /\ Hashable(d, given)
  BY PresentableProperties
<1> HIDE DEF c, d, ops, given, left, right, Committed
<1>5. /\ [i \in DOMAIN ops |-> <<ops[i], Committed(ops[i])>>]
           = [i \in DOMAIN given |-> <<given[i], Extracted(d, given[i])>>]
      /\ DOMAIN ops = DOMAIN given
  BY <1>1, <1>2, <1>3
<1>6. \A i \in DOMAIN ops : ops[i] = given[i] /\ Committed(ops[i]) = Extracted(d, ops[i])
  <2> SUFFICES ASSUME NEW i \in DOMAIN ops
               PROVE  ops[i] = given[i] /\ Committed(ops[i]) = Extracted(d, ops[i])
    OBVIOUS
  <2>1. <<ops[i], Committed(ops[i])>> = <<given[i], Extracted(d, given[i])>>
    BY <1>5
  <2> QED BY <2>1
<1>7. ops = given
  BY <1>4, <1>5, <1>6, SeqDef
<1>8. Len(c.data) = Len(d.data) /\ Len(c.accounts) = Len(d.accounts)
  BY <1>1, <1>2, <1>3, <1>4, NormalizeLen
<1>9. ASSUME NEW k \in DOMAIN c.data
      PROVE  \/ c.data[k] = d.data[k]
             \/ /\ k > DiscLen
                /\ \A i \in WithTag(ops, "IngestInstruction") :
                     k \notin ops[i].offset + 1 .. ops[i].offset + ops[i].length
  <2>1. Len(c.data) \in Nat /\ k \in 1 .. Len(c.data) /\ DiscLen \in Nat /\ DiscLen <= Len(c.data)
    BY <1>4, LenProperties, MerkleAssumption DEF Hashable
  <2>2. CASE k <= DiscLen
    <3>1. k \in 1 .. DiscLen /\ k - 1 + 1 = k /\ 1 \in Nat \ {0}
      BY <2>1, <2>2
    <3>2. SubSeq(c.data, 1, DiscLen)[k - 1 + 1] = c.data[k]
      BY <1>4, <2>1, <3>1, SubSeqElement
    <3>3. SubSeq(d.data, 1, DiscLen)[k - 1 + 1] = d.data[k]
      BY <1>4, <1>8, <2>1, <3>1, SubSeqElement
    <3>4. SubSeq(c.data, 1, DiscLen) = SubSeq(d.data, 1, DiscLen)
      BY <1>1, <1>2, <1>3
    <3> QED BY <3>2, <3>3, <3>4
  <2>3. ASSUME NEW i \in WithTag(ops, "IngestInstruction"),
               k \in ops[i].offset + 1 .. ops[i].offset + ops[i].length
        PROVE  c.data[k] = d.data[k]
    <3> DEFINE m == ops[i].offset + 1
               n == ops[i].offset + ops[i].length
    <3>1. i \in DOMAIN ops /\ ops[i].tag = "IngestInstruction" /\ ops[i] \in PolicyOperator
      BY <1>4 DEF WithTag
    <3>2. ops[i].offset \in Nat /\ ops[i].length \in Nat
      BY <3>1 DEF PolicyOperator
    <3>3. n <= Len(c.data) /\ n <= Len(d.data) /\ m \in Nat \ {0} /\ n \in Nat
      <4>1. OperatorInBounds(c, ops[i])
        BY <1>4, <3>1 DEF Hashable
      <4>2. n <= Len(c.data)
        BY <3>1, <4>1 DEF OperatorInBounds
      <4> QED BY <1>8, <3>2, <4>2
    <3>4. Committed(ops[i]) = SubSeq(c.data, m, n)
      BY <3>1 DEF Committed
    <3>5. Extracted(d, ops[i]) = SubSeq(d.data, m, n)
      BY <3>1 DEF Extracted, Range0
    <3>6. SubSeq(c.data, m, n) = SubSeq(d.data, m, n)
      BY <1>6, <3>1, <3>4, <3>5
    <3> HIDE DEF m, n
    <3>7. k \in m .. n
      BY <2>3 DEF m, n
    <3>8. SubSeq(c.data, m, n)[k - m + 1] = c.data[k]
      BY <1>4, <3>3, <3>7, SubSeqElement
    <3>9. SubSeq(d.data, m, n)[k - m + 1] = d.data[k]
      BY <1>4, <3>3, <3>7, SubSeqElement
    <3> QED BY <3>6, <3>8, <3>9
  <2> QED BY <2>1, <2>2, <2>3
<1>10. ASSUME NEW i \in WithTag(ops, "IngestAccount")
       PROVE  NormalizeAccounts(c.accounts)[ops[i].index + 1]
                = NormalizeAccounts(d.accounts)[ops[i].index + 1]
  <2>1. i \in DOMAIN ops /\ ops[i].tag = "IngestAccount"
    BY DEF WithTag
  <2>2. Committed(ops[i]) = <<NormalizeAccounts(c.accounts)[ops[i].index + 1]>>
    BY <2>1 DEF Committed
  <2>3. Extracted(d, ops[i]) = <<NormalizeAccounts(d.accounts)[ops[i].index + 1]>>
    BY <2>1 DEF Extracted
  <2>4. <<NormalizeAccounts(c.accounts)[ops[i].index + 1]>>
          = <<NormalizeAccounts(d.accounts)[ops[i].index + 1]>>
    BY <1>6, <2>1, <2>2, <2>3
  <2> QED BY <2>4
<1>11. <<c.strategist, c.policy_version, c.target_program>>
         = <<d.strategist, d.policy_version, d.target_program>>
  BY <1>1, <1>2, <1>3
<1> QED BY <1>7, <1>8, <1>9, <1>10, <1>11 DEF Covers, c, d, ops, given

LEMMA RootOfTree ==
  ASSUME TreeOfPolicy, Built
  PROVE  Root \in Nodes
<1> DEFINE n == Len(levels)
<1>1. n \in Nat \ {0} /\ DOMAIN levels = 1 .. n /\ Last(levels) = levels[n]
  BY FilledProperties DEF TreeOfPolicy
<1>2. n \in 1 .. n
  BY <1>1
<1> HIDE DEF n
<1>3. Filled(levels[n]) /\ Len(levels[n]) = 1
  BY <1>1, <1>2 DEF TreeOfPolicy, Built, n
<1>4. DOMAIN levels[n] = 1 .. 1
  BY <1>3, FilledProperties
<1>5. levels[n][1] \in Range(levels[n])
  BY <1>4 DEF Range
<1> QED BY <1>1, <1>2, <1>5 DEF Nodes, Root

\* Whatever is folded, of any length and made of any nodes, of this tree or not.
OnlyAllowedByAnyProof ==
  Built =>
    \A presented \in Presentable :
      (\E proof : Len(proof) \in Nat
                    /\ Computed(HashStrategyLeaf(presented[1], presented[2]), proof) = Root)
        => \E i \in DOMAIN policy : Covers(policy[i], presented)

LEMMA AnyProofOfAllowed ==
  ASSUME TreeOfPolicy
  PROVE  OnlyAllowedByAnyProof
<1> SUFFICES ASSUME Built, NEW presented \in Presentable,
                    NEW proof, Len(proof) \in Nat,
                    Computed(HashStrategyLeaf(presented[1], presented[2]), proof) = Root
             PROVE  \E i \in DOMAIN policy : Covers(policy[i], presented)
  BY DEF OnlyAllowedByAnyProof
<1> DEFINE leaf == HashStrategyLeaf(presented[1], presented[2])
<1>1. PICK after : Folds(after, Len(proof), leaf, proof)
                     /\ Computed(leaf, proof) = after[Len(proof)]
  BY ComputedStepwise
<1>2. leaf \in Nodes
  <2> HIDE DEF leaf
  <2>1. after[Len(proof)] \in Nodes
    BY <1>1, RootOfTree DEF leaf
  <2> QED BY <1>1, <2>1, FoldedFromTree
<1>3. leaf[1] = "leaf" /\ "leaf" # "node"
  BY DEF HashStrategyLeaf
<1>4. \A a, b : HashStrategyNode(a, b)[1] = "node"
  BY DEF HashStrategyNode
<1>5. PICK i \in DOMAIN policy : leaf = LeavesOf(policy)[i]
  <2> HIDE DEF leaf
  <2> QED BY <1>2, <1>3, <1>4, NodeOfTree
<1>6. policy[i] \in Presentable
  BY DEF TreeOfPolicy
<1>7. HashStrategyPolicyLeaf(policy[i][1], policy[i][2]) = leaf
  BY <1>5 DEF LeavesOf
<1> QED BY <1>6, <1>7, EqualLeaves

\* Level by level the client builds the tree of the leaves it started from
\* (build_strategy_policy_merkle_tree).
LEMMA TreeInvariant == MerkleSpec => []TreeOfPolicy
<1>1. MerkleInit => TreeOfPolicy
  BY TreeInit
<1>2. TreeOfPolicy /\ [MerkleNext]_merkleVars => TreeOfPolicy'
  BY TreeStep
<1> QED BY <1>1, <1>2, PTL DEF MerkleSpec

\* Stronger than what the run can check: no proof whatever, of any length and of any
\* nodes, makes the program accept a call the curator did not allow
\* (verify_strategy_proof, build_strategy_policy_merkle_tree).
THEOREM AcceptedWereAllowed == MerkleSpec => []OnlyAllowedByAnyProof
<1>1. TreeOfPolicy => OnlyAllowedByAnyProof
  BY AnyProofOfAllowed
<1> QED BY <1>1, TreeInvariant, PTL

\* A call the program accepts with nodes of the tree is one the curator allowed, for
\* every set of calls and operators and every bound on leaves and proofs
\* (hash_strategy_leaf, hash_strategy_policy_leaf, verify_strategy_proof).
THEOREM OnlyAllowedAccepted == MerkleSpec => []OnlyAllowedCalls
<1>1. ASSUME OnlyAllowedByAnyProof, TreeOfPolicy
      PROVE  OnlyAllowedCalls
  <2> SUFFICES ASSUME Built, NEW presented \in Presentable, NEW proof \in Proofs,
                      ProofAccepted(HashStrategyLeaf(presented[1], presented[2]), proof, Root)
               PROVE  \E i \in DOMAIN policy : Covers(policy[i], presented)
    BY DEF OnlyAllowedCalls
  <2>1. PICK n \in Nat : proof \in [1 .. n -> Nodes]
    BY MerkleAssumption DEF Proofs
  <2>2. Len(proof) \in Nat
    BY <2>1, SeqDef, LenProperties
  <2> QED BY <1>1, <2>2 DEF OnlyAllowedByAnyProof, ProofAccepted
<1> QED BY <1>1, AcceptedWereAllowed, TreeInvariant, PTL

-----------------------------------------------------------------------------
(* What the curator allowed is accepted *)

\* g is Capacity as far as n.
Doubles(g, n) == g = [k \in 0 .. n |-> IF k = 0 THEN 1 ELSE 2 * g[k - 1]]

LEMMA DoublesExist == \A n \in Nat : \E g : Doubles(g, n)
<1> DEFINE S == {m \in Nat : \E g : Doubles(g, m)}
<1>1. 0 \in S
  <2> DEFINE g == [k \in 0 .. 0 |-> 1]
  <2>1. g = [k \in 0 .. 0 |-> IF k = 0 THEN 1 ELSE 2 * g[k - 1]]
    OBVIOUS
  <2> HIDE DEF g
  <2> QED BY <2>1 DEF Doubles
<1>2. ASSUME NEW m \in Nat, m \in S
      PROVE  m + 1 \in S
  <2>1. PICK g : Doubles(g, m)
    BY <1>2
  <2> DEFINE x == 2 * g[m]
             h == [k \in 0 .. m + 1 |-> IF k = m + 1 THEN x ELSE g[k]]
  <2>2. ASSUME NEW k \in 0 .. m + 1
        PROVE  h[k] = IF k = 0 THEN 1 ELSE 2 * h[k - 1]
    <3>1. CASE k = m + 1
      BY <3>1
    <3>2. CASE k \in 0 .. m
      <4>1. g[k] = IF k = 0 THEN 1 ELSE 2 * g[k - 1]
        BY <2>1, <3>2 DEF Doubles
      <4>2. h[k] = g[k] /\ (k # 0 => h[k - 1] = g[k - 1])
        BY <3>2
      <4> QED BY <4>1, <4>2
    <3> QED BY <3>1, <3>2
  <2>3. h = [k \in 0 .. m + 1 |-> h[k]]
    OBVIOUS
  <2> HIDE DEF h
  <2>4. Doubles(h, m + 1)
    BY <2>2, <2>3 DEF Doubles
  <2> QED BY <2>4
<1> HIDE DEF S
<1>3. \A m \in Nat : m \in S
  BY <1>1, <1>2, InductionOnSet
<1> QED BY <1>3 DEF S

LEMMA DoublesAgree ==
  ASSUME NEW m \in Nat, NEW n \in Nat, NEW g, NEW h, Doubles(g, m), Doubles(h, n)
  PROVE  \A k \in Nat : k <= m /\ k <= n => g[k] = h[k]
<1> DEFINE S == {k \in Nat : k <= m /\ k <= n => g[k] = h[k]}
<1>1. 0 \in S
  BY DEF Doubles
<1>2. ASSUME NEW k \in Nat, k \in S
      PROVE  k + 1 \in S
  <2> SUFFICES ASSUME k + 1 <= m, k + 1 <= n
               PROVE  g[k + 1] = h[k + 1]
    OBVIOUS
  <2>1. g[k] = h[k]
    BY <1>2
  <2>2. g[k + 1] = 2 * g[k]
    BY DEF Doubles
  <2>3. h[k + 1] = 2 * h[k]
    BY DEF Doubles
  <2> QED BY <2>1, <2>2, <2>3
<1> HIDE DEF S
<1>3. \A k \in Nat : k \in S
  BY <1>1, <1>2, InductionOnSet
<1> QED BY <1>3 DEF S

LEMMA CapacityStepwise ==
  \A d \in Nat : Capacity[d] = IF d = 0 THEN 1 ELSE 2 * Capacity[d - 1]
<1> DEFINE table(n) == CHOOSE g : Doubles(g, n)
           f == [n \in Nat |-> table(n)[n]]
<1>1. \A n \in Nat : Doubles(table(n), n)
  BY DoublesExist
<1> HIDE DEF table
<1>2. ASSUME NEW n \in Nat
      PROVE  f[n] = IF n = 0 THEN 1 ELSE 2 * f[n - 1]
  <2>1. CASE n = 0
    <3>1. Doubles(table(0), 0)
      BY <1>1
    <3> QED BY <2>1, <3>1 DEF Doubles
  <2>2. CASE n # 0
    <3>1. n - 1 \in Nat
      BY <2>2
    <3>2. Doubles(table(n), n) /\ Doubles(table(n - 1), n - 1)
      BY <1>1, <3>1
    <3>3. table(n)[n - 1] = table(n - 1)[n - 1]
      BY <3>1, <3>2, DoublesAgree
    <3>4. table(n)[n] = 2 * table(n)[n - 1]
      BY <2>2, <3>2 DEF Doubles
    <3> QED BY <2>2, <3>1, <3>3, <3>4
  <2> QED BY <2>1, <2>2
<1>3. f = [n \in Nat |-> IF n = 0 THEN 1 ELSE 2 * f[n - 1]]
  <2>1. f = [n \in Nat |-> f[n]]
    OBVIOUS
  <2> HIDE DEF f
  <2> QED BY <1>2, <2>1
<1> HIDE DEF f
<1>4. \E g : g = [n \in Nat |-> IF n = 0 THEN 1 ELSE 2 * g[n - 1]]
  BY <1>3
<1>5. Capacity = [n \in Nat |-> IF n = 0 THEN 1 ELSE 2 * Capacity[n - 1]]
  BY <1>4, Zenon DEF Capacity
<1> QED BY <1>5

LEMMA CapacityType == \A d \in Nat : Capacity[d] \in Nat
<1> DEFINE S == {d \in Nat : Capacity[d] \in Nat}
<1>1. 0 \in S
  BY CapacityStepwise
<1>2. ASSUME NEW d \in Nat, d \in S
      PROVE  d + 1 \in S
  <2>1. Capacity[d + 1] = 2 * Capacity[(d + 1) - 1]
    BY CapacityStepwise
  <2> QED BY <1>2, <2>1
<1> HIDE DEF S
<1>3. \A d \in Nat : d \in S
  BY <1>1, <1>2, InductionOnSet
<1> QED BY <1>3 DEF S

\* Every level has half the room of the one below, so a proof is never too long.
LEMMA LevelsWithinDepth ==
  ASSUME TreeOfPolicy
  PROVE  Len(levels) - 1 <= MAX_MERKLE_PROOF_DEPTH
<1> DEFINE D == MAX_MERKLE_PROOF_DEPTH
           L == Len(levels)
           S == {m \in Nat : m <= D /\ m + 1 <= L
                               => Len(levels[m + 1]) <= Capacity[D - m]}
<1>1. D \in Nat /\ L \in Nat \ {0}
  BY MerkleAssumption, FilledProperties DEF TreeOfPolicy
<1>2. \A k \in 1 .. L : Len(levels[k]) \in Nat
  BY FilledProperties DEF TreeOfPolicy
<1>3. 0 \in S
  <2>1. PICK n \in 1 .. MAX_POLICY_LEAVES : policy \in [1 .. n -> Presentable]
    BY DEF TreeOfPolicy
  <2>2. Len(levels[1]) = n
    <3>1. levels[1] = [i \in 1 .. n |-> levels[1][i]]
      BY <2>1 DEF TreeOfPolicy, LeavesOf
    <3>2. n \in Nat \ {0}
      BY MerkleAssumption
    <3> QED BY <3>1, <3>2, FilledFunction
  <2>3. n <= Capacity[D] /\ D - 0 = D
    BY <1>1, MerkleAssumption, CapacityType
  <2> QED BY <2>2, <2>3
<1>4. ASSUME NEW m \in Nat, m \in S
      PROVE  m + 1 \in S
  <2> SUFFICES ASSUME m + 1 <= D, m + 2 <= L
               PROVE  Len(levels[m + 2]) <= Capacity[D - (m + 1)]
    OBVIOUS
  <2>1. m + 1 \in 1 .. L - 1 /\ m + 1 \in 1 .. L /\ (m + 1) + 1 = m + 2
    BY <1>1
  <2>2. levels[m + 2] = NextLevel(levels[m + 1]) /\ Filled(levels[m + 1])
    BY <2>1 DEF TreeOfPolicy
  <2>3. Len(levels[m + 2]) = (Len(levels[m + 1]) + 1) \div 2
    BY <2>2, NextLevelFilled
  <2>4. Len(levels[m + 1]) <= Capacity[D - m] /\ Len(levels[m + 1]) \in Nat
    BY <1>1, <1>2, <1>4, <2>1
  <2>5. D - m \in Nat /\ D - m # 0 /\ (D - m) - 1 = D - (m + 1) /\ D - (m + 1) \in Nat
    BY <1>1
  <2>6. Capacity[D - m] = 2 * Capacity[D - (m + 1)] /\ Capacity[D - (m + 1)] \in Nat
    BY <2>5, CapacityStepwise, CapacityType
  <2>7. \A a, c \in Nat : a <= 2 * c => (a + 1) \div 2 <= c
    OBVIOUS
  <2>8. (Len(levels[m + 1]) + 1) \div 2 <= Capacity[D - (m + 1)]
    BY <2>4, <2>6, <2>7
  <2> QED BY <2>3, <2>8
<1> HIDE DEF S
<1>5. \A m \in Nat : m \in S
  BY <1>3, <1>4, InductionOnSet
<1>6. CASE D + 1 <= L - 1
  <2>1. D + 1 \in 1 .. L - 1
    BY <1>1, <1>6
  <2>2. Len(levels[D + 1]) > 1
    BY <2>1 DEF TreeOfPolicy
  <2>3. Len(levels[D + 1]) <= Capacity[D - D]
    BY <1>1, <1>5, <1>6 DEF S
  <2>4. Capacity[D - D] = 1
    BY <1>1, CapacityStepwise
  <2> QED BY <1>1, <1>2, <2>1, <2>2, <2>3, <2>4
<1> QED BY <1>1, <1>6

\* The program's copy of the leaf hash and the client's agree.
LEMMA SameLeaf ==
  ASSUME NEW x \in Presentable
  PROVE  HashStrategyLeaf(x[1], x[2]) = HashStrategyPolicyLeaf(x[1], x[2])
<1> DEFINE c == x[1]
           ops == x[2]
           Committed(op) ==
             CASE op.tag = "IngestInstruction"  -> SubSeq(c.data, op.offset + 1, op.offset + op.length)
               [] op.tag = "IngestAccount"      -> <<NormalizeAccounts(c.accounts)[op.index + 1]>>
               [] op.tag = "ManagerLimitAmount" -> << >>
           left == [i \in DOMAIN ops |-> <<ops[i], Extracted(c, ops[i])>>]
           right == [i \in DOMAIN ops |-> <<ops[i], Committed(ops[i])>>]
<1>1. ops \in Seq(PolicyOperator) /\ c.accounts \in Seq(Range(c.accounts))
  BY PresentableProperties
<1>2. ASSUME NEW i \in DOMAIN ops
      PROVE  Extracted(c, ops[i]) = Committed(ops[i])
  BY DEF Extracted, Range0
<1>3. left = right
  BY <1>2
<1>4. Len(NormalizeAccounts(c.accounts)) = Len(c.accounts)
  BY <1>1, NormalizeLen
<1>5. Range0(c.data, 0, DiscLen) = SubSeq(c.data, 1, DiscLen)
  <2>1. 0 + 1 = 1 /\ 0 + DiscLen = DiscLen
    BY MerkleAssumption
  <2> QED BY <2>1 DEF Range0
<1>6. HashStrategyLeaf(c, ops) =
        <<"leaf",
          [vault |-> Vault, strategist |-> c.strategist, version |-> c.policy_version,
           target_program |-> c.target_program,
           discriminator |-> Range0(c.data, 0, DiscLen),
           data_len |-> Len(c.data), account_count |-> Len(c.accounts),
           operators |-> left]>>
  BY Zenon DEF HashStrategyLeaf
<1>7. HashStrategyPolicyLeaf(c, ops) =
        <<"leaf",
          [vault |-> Vault, strategist |-> c.strategist, version |-> c.policy_version,
           target_program |-> c.target_program,
           discriminator |-> SubSeq(c.data, 1, DiscLen),
           data_len |-> Len(c.data), account_count |-> Len(NormalizeAccounts(c.accounts)),
           operators |-> right]>>
  BY Zenon DEF HashStrategyPolicyLeaf
<1> HIDE DEF c, ops, left, right
<1> QED BY <1>3, <1>4, <1>5, <1>6, <1>7 DEF c, ops

\* at holds the position, on each of the first n levels, of the ancestor of the leaf
\* at index.
Positions(at, n, index) ==
  at = [k \in 1 .. n |-> IF k = 1 THEN index ELSE at[k - 1] \div 2]

LEMMA PositionsExist ==
  ASSUME NEW index
  PROVE  \A n \in Nat : \E at : Positions(at, n, index)
<1> DEFINE S == {m \in Nat : \E at : Positions(at, m, index)}
<1>1. 0 \in S
  <2> DEFINE at == [k \in 1 .. 0 |-> index]
  <2>1. at = [k \in 1 .. 0 |-> IF k = 1 THEN index ELSE at[k - 1] \div 2]
    OBVIOUS
  <2> HIDE DEF at
  <2> QED BY <2>1 DEF Positions
<1>2. ASSUME NEW m \in Nat, m \in S
      PROVE  m + 1 \in S
  <2>1. PICK at : Positions(at, m, index)
    BY <1>2
  <2> DEFINE x == IF m = 0 THEN index ELSE at[m] \div 2
             h == [k \in 1 .. m + 1 |-> IF k = m + 1 THEN x ELSE at[k]]
  <2>2. ASSUME NEW k \in 1 .. m + 1
        PROVE  h[k] = IF k = 1 THEN index ELSE h[k - 1] \div 2
    <3>1. CASE k = m + 1
      BY <3>1
    <3>2. CASE k \in 1 .. m
      <4>1. at[k] = IF k = 1 THEN index ELSE at[k - 1] \div 2
        BY <2>1, <3>2 DEF Positions
      <4>2. h[k] = at[k] /\ (k # 1 => h[k - 1] = at[k - 1])
        BY <3>2
      <4> QED BY <4>1, <4>2
    <3> QED BY <3>1, <3>2
  <2>3. h = [k \in 1 .. m + 1 |-> h[k]]
    OBVIOUS
  <2> HIDE DEF h
  <2>4. Positions(h, m + 1, index)
    BY <2>2, <2>3 DEF Positions
  <2> QED BY <2>4
<1> HIDE DEF S
<1>3. \A m \in Nat : m \in S
  BY <1>1, <1>2, InductionOnSet
<1> QED BY <1>3 DEF S

LEMMA ProofStepwise ==
  ASSUME NEW tree, Len(tree) \in Nat \ {0}, NEW index
  PROVE  \E at : /\ Positions(at, Len(tree), index)
                 /\ StrategyPolicyProof(tree, index)
                      = [k \in 1 .. Len(tree) - 1 |-> Sibling(tree[k], at[k])]
<1> DEFINE at[k \in 1 .. Len(tree)] == IF k = 1 THEN index ELSE at[k - 1] \div 2
<1>1. \E g : Positions(g, Len(tree), index)
  BY PositionsExist
<1>2. Positions(at, Len(tree), index)
  BY <1>1, Zenon DEF Positions
<1>3. StrategyPolicyProof(tree, index)
        = [k \in 1 .. Len(tree) - 1 |-> Sibling(tree[k], at[k])]
  BY DEF StrategyPolicyProof
<1> HIDE DEF at
<1> QED BY <1>2, <1>3

\* A node hashed with its sibling is its parent, on the left and on the right, also
\* where an odd last node has no sibling.
LEMMA ParentHash ==
  ASSUME NEW level, Filled(level), NEW pos \in Nat, pos < Len(level)
  PROVE  /\ pos \div 2 + 1 \in 1 .. Len(NextLevel(level))
         /\ HashStrategyNode(level[pos + 1], Sibling(level, pos))
              = NextLevel(level)[pos \div 2 + 1]
<1> DEFINE n == Len(level)
           i == pos \div 2 + 1
           sibling == IF 2 * i <= n THEN level[2 * i] ELSE level[2 * i - 1]
<1>1. n \in Nat /\ Len(NextLevel(level)) = (n + 1) \div 2
  BY FilledProperties, NextLevelFilled
<1>2. i \in 1 .. (n + 1) \div 2
  BY <1>1
<1>3. NextLevel(level)[i] = HashStrategyNode(level[2 * i - 1], sibling)
  BY <1>2 DEF NextLevel
<1>4. CASE pos % 2 = 0
  <2>1. 2 * i - 1 = pos + 1 /\ 2 * i = pos + 2
    BY <1>4
  <2>2. sibling = Sibling(level, pos)
    BY <1>4, <2>1 DEF Sibling
  <2> QED BY <1>1, <1>2, <1>3, <2>1, <2>2
<1>5. CASE pos % 2 = 1
  <2>1. 2 * i - 1 = pos /\ 2 * i = pos + 1 /\ 2 * i <= n
    BY <1>1, <1>5
  <2>2. sibling = level[pos + 1] /\ Sibling(level, pos) = level[pos]
    BY <1>5, <2>1 DEF Sibling
  <2>3. HashStrategyNode(level[pos], level[pos + 1])
          = HashStrategyNode(level[pos + 1], level[pos])
    BY DEF HashStrategyNode
  <2> QED BY <1>1, <1>2, <1>3, <2>1, <2>2, <2>3
<1> QED BY <1>4, <1>5

LEMMA PositionsInside ==
  ASSUME TreeOfPolicy, NEW index \in Nat, index < Len(levels[1]),
         NEW at, Positions(at, Len(levels), index)
  PROVE  \A k \in 1 .. Len(levels) : at[k] \in Nat /\ at[k] < Len(levels[k])
<1> DEFINE L == Len(levels)
           S == {m \in Nat : m + 1 <= L => at[m + 1] \in Nat /\ at[m + 1] < Len(levels[m + 1])}
<1>1. L \in Nat \ {0}
  BY FilledProperties DEF TreeOfPolicy
<1>2. 0 \in S
  BY <1>1 DEF Positions
<1>3. ASSUME NEW m \in Nat, m \in S
      PROVE  m + 1 \in S
  <2> SUFFICES ASSUME m + 2 <= L
               PROVE  at[m + 2] \in Nat /\ at[m + 2] < Len(levels[m + 2])
    OBVIOUS
  <2>1. m + 1 \in 1 .. L - 1 /\ m + 1 \in 1 .. L /\ m + 2 \in 1 .. L /\ (m + 1) + 1 = m + 2
        /\ (m + 2) - 1 = m + 1 /\ m + 2 # 1
    BY <1>1
  <2>2. levels[m + 2] = NextLevel(levels[m + 1]) /\ Filled(levels[m + 1])
    BY <2>1 DEF TreeOfPolicy
  <2>3. at[m + 2] = at[m + 1] \div 2
    BY <2>1 DEF Positions
  <2>4. at[m + 1] \in Nat /\ at[m + 1] < Len(levels[m + 1])
    BY <1>3, <2>1
  <2>5. Len(NextLevel(levels[m + 1])) \in Nat
    BY <2>2, NextLevelFilled, FilledProperties
  <2>6. at[m + 1] \div 2 + 1 \in 1 .. Len(NextLevel(levels[m + 1]))
    BY <2>2, <2>4, ParentHash
  <2>7. \A a \in Nat, c \in Nat : a \div 2 + 1 \in 1 .. c => a \div 2 \in Nat /\ a \div 2 < c
    OBVIOUS
  <2> QED BY <2>2, <2>3, <2>4, <2>5, <2>6, <2>7
<1> HIDE DEF S
<1>4. \A m \in Nat : m \in S
  BY <1>2, <1>3, InductionOnSet
<1>5. ASSUME NEW k \in 1 .. L
      PROVE  at[k] \in Nat /\ at[k] < Len(levels[k])
  <2>1. k - 1 \in Nat /\ (k - 1) + 1 = k /\ k <= L
    BY <1>1
  <2>2. k - 1 \in S
    BY <1>4, <2>1
  <2> QED BY <2>1, <2>2 DEF S
<1> QED BY <1>5

\* after holds the folds of the leaf at index with the siblings of its ancestors.
FoldsSiblings(after, at, index) ==
  /\ after[0] = levels[1][index + 1]
  /\ \A k \in 1 .. Len(levels) - 1 :
       after[k] = HashStrategyNode(after[k - 1], Sibling(levels[k], at[k]))

\* After k nodes of its proof, a leaf has become its ancestor k levels up.
LEMMA FoldClimbs ==
  ASSUME TreeOfPolicy, NEW index \in Nat, index < Len(levels[1]),
         NEW at, Positions(at, Len(levels), index),
         NEW after, FoldsSiblings(after, at, index)
  PROVE  after[Len(levels) - 1] = levels[Len(levels)][at[Len(levels)] + 1]
<1> DEFINE L == Len(levels)
           S == {m \in Nat : m + 1 <= L => after[m] = levels[m + 1][at[m + 1] + 1]}
<1>1. L \in Nat \ {0}
  BY FilledProperties DEF TreeOfPolicy
<1>2. 0 \in S
  BY <1>1 DEF Positions, FoldsSiblings
<1>3. ASSUME NEW m \in Nat, m \in S
      PROVE  m + 1 \in S
  <2> SUFFICES ASSUME m + 2 <= L
               PROVE  after[m + 1] = levels[m + 2][at[m + 2] + 1]
    OBVIOUS
  <2>1. m + 1 \in 1 .. L - 1 /\ m + 1 \in 1 .. L /\ m + 2 \in 1 .. L /\ (m + 1) + 1 = m + 2
        /\ (m + 2) - 1 = m + 1 /\ m + 2 # 1 /\ (m + 1) - 1 = m
    BY <1>1
  <2>2. levels[m + 2] = NextLevel(levels[m + 1]) /\ Filled(levels[m + 1])
    BY <2>1 DEF TreeOfPolicy
  <2>3. at[m + 2] = at[m + 1] \div 2
    BY <2>1 DEF Positions
  <2>4. at[m + 1] \in Nat /\ at[m + 1] < Len(levels[m + 1])
    BY <2>1, PositionsInside
  <2>5. after[m + 1] = HashStrategyNode(after[m], Sibling(levels[m + 1], at[m + 1]))
    BY <2>1 DEF FoldsSiblings
  <2>6. after[m] = levels[m + 1][at[m + 1] + 1]
    BY <1>3, <2>1
  <2>7. HashStrategyNode(levels[m + 1][at[m + 1] + 1], Sibling(levels[m + 1], at[m + 1]))
          = NextLevel(levels[m + 1])[at[m + 1] \div 2 + 1]
    BY <2>2, <2>4, ParentHash
  <2> QED BY <2>2, <2>3, <2>5, <2>6, <2>7
<1> HIDE DEF S
<1>4. \A m \in Nat : m \in S
  BY <1>2, <1>3, InductionOnSet
<1>5. L - 1 \in Nat /\ (L - 1) + 1 = L
  BY <1>1
<1>6. L - 1 \in S
  BY <1>4, <1>5
<1> QED BY <1>5, <1>6 DEF S

\* Every call the curator allowed is accepted with the proof its client computes, for
\* every number of leaves MAX_POLICY_LEAVES allows
\* (build_strategy_policy_merkle_tree, strategy_policy_proof, verify_strategy_proof).
THEOREM AllowedCallsAccepted == MerkleSpec => []AllowedCallsProvable
<1>1. ASSUME TreeOfPolicy
      PROVE  AllowedCallsProvable
  <2> SUFFICES ASSUME Built, NEW i \in DOMAIN policy
               PROVE  ProofAccepted(HashStrategyLeaf(policy[i][1], policy[i][2]),
                                    StrategyPolicyProof(levels, i - 1), Root)
    BY DEF AllowedCallsProvable
  <2> DEFINE L == Len(levels)
             leaf == HashStrategyLeaf(policy[i][1], policy[i][2])
             proof == StrategyPolicyProof(levels, i - 1)
  <2>1. L \in Nat \ {0} /\ Last(levels) = levels[L]
    BY <1>1, FilledProperties DEF TreeOfPolicy
  <2>2. PICK n \in 1 .. MAX_POLICY_LEAVES : policy \in [1 .. n -> Presentable]
    BY <1>1 DEF TreeOfPolicy
  <2>3. n \in Nat \ {0} /\ i \in 1 .. n /\ policy[i] \in Presentable
    BY <2>2, MerkleAssumption
  <2>4. Len(levels[1]) = n
    <3>1. levels[1] = [k \in 1 .. n |-> levels[1][k]]
      BY <1>1, <2>2 DEF TreeOfPolicy, LeavesOf
    <3> QED BY <2>3, <3>1, FilledFunction
  <2>5. i - 1 \in Nat /\ i - 1 < Len(levels[1]) /\ (i - 1) + 1 = i
    BY <2>3, <2>4
  <2>6. leaf = levels[1][i]
    <3>1. levels[1][i] = HashStrategyPolicyLeaf(policy[i][1], policy[i][2])
      BY <1>1 DEF TreeOfPolicy, LeavesOf
    <3> QED BY <2>3, <3>1, SameLeaf
  <2>7. PICK at : /\ Positions(at, L, i - 1)
                  /\ proof = [k \in 1 .. L - 1 |-> Sibling(levels[k], at[k])]
    <3>1. Len(levels) \in Nat \ {0}
      BY <2>1
    <3>2. \A index : \E at : /\ Positions(at, Len(levels), index)
                             /\ StrategyPolicyProof(levels, index)
                                  = [k \in 1 .. Len(levels) - 1 |-> Sibling(levels[k], at[k])]
      BY <3>1, ProofStepwise
    <3> QED BY <3>2
  <2> HIDE DEF L, leaf, proof
  <2>8. Len(proof) = L - 1 /\ L - 1 \in Nat
    <3> DEFINE T == Range(proof)
    <3>1. L - 1 \in Nat
      BY <2>1
    <3>2. proof \in [1 .. L - 1 -> T]
      BY <2>7 DEF Range
    <3> HIDE DEF T
    <3> QED BY <3>1, <3>2, SeqDef, LenProperties
  <2>9. PICK after : Folds(after, L - 1, leaf, proof) /\ Computed(leaf, proof) = after[L - 1]
    BY <2>8, ComputedStepwise
  <2>10. after[L - 1] = levels[L][at[L] + 1]
    <3>1. after[0] = levels[1][(i - 1) + 1]
      BY <2>5, <2>6, <2>8, <2>9 DEF Folds
    <3>2. \A k \in 1 .. L - 1 : after[k] = HashStrategyNode(after[k - 1], proof[k])
      <4> DEFINE depth == L - 1
      <4>1. depth \in Nat /\ Folds(after, depth, leaf, proof)
        BY <2>8, <2>9
      <4> HIDE DEF depth
      <4>2. \A k \in 1 .. depth : after[k] = HashStrategyNode(after[k - 1], proof[k])
        BY <4>1, FoldsStep
      <4> QED BY <4>2 DEF depth
    <3>3. \A k \in 1 .. L - 1 : proof[k] = Sibling(levels[k], at[k])
      BY <2>7
    <3> DEFINE index == i - 1
    <3>4. FoldsSiblings(after, at, index)
      BY <3>1, <3>2, <3>3 DEF FoldsSiblings, L
    <3>5. Positions(at, Len(levels), index) /\ index \in Nat /\ index < Len(levels[1])
      BY <2>5, <2>7 DEF L
    <3> HIDE DEF index
    <3>6. after[Len(levels) - 1] = levels[Len(levels)][at[Len(levels)] + 1]
      BY <1>1, <3>4, <3>5, FoldClimbs
    <3> QED BY <3>6 DEF L
  <2>11. at[L] \in Nat /\ at[L] < 1
    <3>1. L \in 1 .. L /\ Len(levels[L]) = 1
      BY <2>1 DEF Built, L
    <3> QED BY <1>1, <2>5, <2>7, <3>1, PositionsInside DEF L
  <2>12. Computed(leaf, proof) = Root
    BY <2>1, <2>9, <2>10, <2>11 DEF Root, L
  <2>13. Len(proof) <= MAX_MERKLE_PROOF_DEPTH
    BY <1>1, <2>8, LevelsWithinDepth DEF L
  <2> QED BY <2>12, <2>13 DEF ProofAccepted, leaf, proof
<1> QED BY <1>1, TreeInvariant, PTL

-----------------------------------------------------------------------------
(* Walking an area *)

\* f holds where a walk from each offset >= low ends: at val[offset] if it stops
\* there, else where the walk from next[offset] ends.
Walks(f, low, N, stop, val, next) ==
  f = [o \in low .. N |-> IF o \in stop THEN val[o] ELSE f[next[o]]]

LEMMA WalkExists ==
  ASSUME NEW N \in Nat, NEW stop, NEW val, NEW next,
         \A o \in 0 .. N : o \in stop \/ next[o] \in o + 1 .. N
  PROVE  \E f : Walks(f, 0, N, stop, val, next)
<1> DEFINE S == {m \in Nat : m <= N => \E f : Walks(f, N - m, N, stop, val, next)}
<1>1. 0 \in S
  <2> DEFINE f == [o \in N .. N |-> val[N]]
  <2>1. N \in stop
    OBVIOUS
  <2>2. f = [o \in N .. N |-> IF o \in stop THEN val[o] ELSE f[next[o]]]
    BY <2>1
  <2> HIDE DEF f
  <2>3. Walks(f, N, N, stop, val, next) /\ N - 0 = N
    BY <2>2 DEF Walks
  <2> QED BY <2>3
<1>2. ASSUME NEW m \in Nat, m \in S
      PROVE  m + 1 \in S
  <2> SUFFICES ASSUME m + 1 <= N
               PROVE  \E f : Walks(f, N - (m + 1), N, stop, val, next)
    OBVIOUS
  <2>1. PICK f : Walks(f, N - m, N, stop, val, next)
    BY <1>2
  <2> DEFINE low == N - (m + 1)
             x == IF low \in stop THEN val[low] ELSE f[next[low]]
             h == [o \in low .. N |-> IF o = low THEN x ELSE f[o]]
  <2>2. low \in Nat /\ N - m = low + 1
    OBVIOUS
  <2>3. ASSUME NEW o \in low .. N
        PROVE  h[o] = IF o \in stop THEN val[o] ELSE h[next[o]]
    <3>1. o \in 0 .. N /\ (o \in stop \/ next[o] \in o + 1 .. N)
      BY <2>2
    <3>2. CASE o = low
      BY <2>2, <3>1, <3>2
    <3>3. CASE o # low
      <4>1. o \in low + 1 .. N
        BY <2>2, <3>3
      <4>2. f[o] = IF o \in stop THEN val[o] ELSE f[next[o]]
        BY <2>1, <2>2, <4>1 DEF Walks
      <4>3. o \in stop \/ h[next[o]] = f[next[o]]
        BY <2>2, <3>1, <4>1
      <4> QED BY <3>3, <4>2, <4>3
    <3> QED BY <3>2, <3>3
  <2>4. h = [o \in low .. N |-> h[o]]
    OBVIOUS
  <2> HIDE DEF h
  <2>5. Walks(h, low, N, stop, val, next)
    BY <2>3, <2>4 DEF Walks
  <2> QED BY <2>5
<1> HIDE DEF S
<1>3. N \in S
  BY <1>1, <1>2, InductionOnSet
<1>4. N - N = 0
  OBVIOUS
<1> QED BY <1>3, <1>4 DEF S

\* An area: cells that hold naturals, so that a length always leads forward.
Area(area) == area \in Seq(Nat)

FindFrom(f, area, type) ==
  f = [offset \in 0 .. Len(area) |->
        IF offset + TLV_HEADER_SIZE > Len(area) THEN NotFound
        ELSE LET value_end == offset + TLV_HEADER_SIZE + area[offset + 2]
             IN  IF value_end > Len(area) THEN NotFound
                 ELSE IF area[offset + 1] = type THEN offset ELSE f[value_end]]

LEMMA FindStepwise ==
  ASSUME NEW area, Area(area), NEW type
  PROVE  \E f : FindFrom(f, area, type) /\ Find(area, type) = f[0]
<1> DEFINE N == Len(area)
           end(o) == o + TLV_HEADER_SIZE + area[o + 2]
           out(o) == o + TLV_HEADER_SIZE > N \/ end(o) > N
           stop == {o \in 0 .. N : out(o) \/ area[o + 1] = type}
           val == [o \in 0 .. N |-> IF out(o) THEN NotFound ELSE o]
           next == [o \in 0 .. N |-> end(o)]
<1>1. N \in Nat /\ \A i \in 1 .. N : area[i] \in Nat
  BY LenProperties DEF Area
<1>2. ASSUME NEW o \in 0 .. N
      PROVE  o \in stop \/ next[o] \in o + 1 .. N
  BY <1>1 DEF TLV_HEADER_SIZE
<1>3. PICK g : Walks(g, 0, N, stop, val, next)
  <2> HIDE DEF N, stop, val, next
  <2> QED BY <1>1, <1>2, WalkExists
<1>4. FindFrom(g, area, type)
  <2>1. ASSUME NEW offset \in 0 .. Len(area)
        PROVE  g[offset] = IF offset + TLV_HEADER_SIZE > Len(area) THEN NotFound
                 ELSE LET value_end == offset + TLV_HEADER_SIZE + area[offset + 2]
                      IN  IF value_end > Len(area) THEN NotFound
                          ELSE IF area[offset + 1] = type THEN offset ELSE g[value_end]
    <3>1. g[offset] = IF offset \in stop THEN val[offset] ELSE g[next[offset]]
      BY <1>3 DEF Walks
    <3> QED BY <3>1
  <2>2. g = [offset \in 0 .. Len(area) |-> g[offset]]
    BY <1>3 DEF Walks
  <2> QED BY <2>1, <2>2 DEF FindFrom
<1> HIDE DEF N, end, out, stop, val, next
<1> DEFINE from[offset \in 0 .. Len(area)] ==
        IF offset + TLV_HEADER_SIZE > Len(area) THEN NotFound
        ELSE LET value_end == offset + TLV_HEADER_SIZE + area[offset + 2]
             IN  IF value_end > Len(area) THEN NotFound
                 ELSE IF area[offset + 1] = type THEN offset ELSE from[value_end]
<1>5. FindFrom(from, area, type)
  BY <1>4, Zenon DEF FindFrom
<1>6. Find(area, type) = from[0]
  BY DEF Find
<1> HIDE DEF from
<1> QED BY <1>5, <1>6

UsedFrom(f, area) ==
  f = [offset \in 0 .. Len(area) |->
        IF offset + TLV_HEADER_SIZE > Len(area) THEN offset
        ELSE LET next == offset + TLV_HEADER_SIZE + area[offset + 2]
             IN  IF area[offset + 1] = 0 \/ next > Len(area) THEN offset ELSE f[next]]

LEMMA UsedStepwise ==
  ASSUME NEW area, Area(area)
  PROVE  \E f : UsedFrom(f, area) /\ TlvUsedLen(area) = f[0]
<1> DEFINE N == Len(area)
           end(o) == o + TLV_HEADER_SIZE + area[o + 2]
           stop == {o \in 0 .. N : o + TLV_HEADER_SIZE > N \/ area[o + 1] = 0 \/ end(o) > N}
           val == [o \in 0 .. N |-> o]
           next == [o \in 0 .. N |-> end(o)]
<1>1. N \in Nat /\ \A i \in 1 .. N : area[i] \in Nat
  BY LenProperties DEF Area
<1>2. ASSUME NEW o \in 0 .. N
      PROVE  o \in stop \/ next[o] \in o + 1 .. N
  BY <1>1 DEF TLV_HEADER_SIZE
<1>3. PICK g : Walks(g, 0, N, stop, val, next)
  <2> HIDE DEF N, stop, val, next
  <2> QED BY <1>1, <1>2, WalkExists
<1>4. UsedFrom(g, area)
  <2>1. ASSUME NEW offset \in 0 .. Len(area)
        PROVE  g[offset] = IF offset + TLV_HEADER_SIZE > Len(area) THEN offset
                 ELSE LET n == offset + TLV_HEADER_SIZE + area[offset + 2]
                      IN  IF area[offset + 1] = 0 \/ n > Len(area) THEN offset ELSE g[n]
    <3>1. g[offset] = IF offset \in stop THEN val[offset] ELSE g[next[offset]]
      BY <1>3 DEF Walks
    <3> QED BY <3>1
  <2>2. g = [offset \in 0 .. Len(area) |-> g[offset]]
    BY <1>3 DEF Walks
  <2> QED BY <2>1, <2>2 DEF UsedFrom
<1> HIDE DEF N, end, stop, val
<1> DEFINE from[offset \in 0 .. Len(area)] ==
        IF offset + TLV_HEADER_SIZE > Len(area) THEN offset
        ELSE LET n == offset + TLV_HEADER_SIZE + area[offset + 2]
             IN  IF area[offset + 1] = 0 \/ n > Len(area) THEN offset ELSE from[n]
<1>5. UsedFrom(from, area)
  BY <1>4, Zenon DEF UsedFrom
<1>6. TlvUsedLen(area) = from[0]
  BY DEF TlvUsedLen
<1> HIDE DEF from
<1> QED BY <1>5, <1>6

\* One step of each walk, with the header's two cells counted.
LEMMA FindStep ==
  ASSUME NEW area, Area(area), NEW type, NEW f, FindFrom(f, area, type),
         NEW offset \in 0 .. Len(area)
  PROVE  /\ offset + 2 > Len(area) => f[offset] = -1
         /\ offset + 2 <= Len(area) /\ offset + 2 + area[offset + 2] <= Len(area) =>
              f[offset] = IF area[offset + 1] = type THEN offset
                          ELSE f[offset + 2 + area[offset + 2]]
<1>1. Len(area) \in Nat /\ \A i \in 1 .. Len(area) : area[i] \in Nat
  BY LenProperties DEF Area
<1> QED BY <1>1 DEF FindFrom, TLV_HEADER_SIZE, NotFound

LEMMA UsedStep ==
  ASSUME NEW area, Area(area), NEW f, UsedFrom(f, area), NEW offset \in 0 .. Len(area)
  PROVE  /\ offset + 2 > Len(area) => f[offset] = offset
         /\ offset + 2 <= Len(area) /\ area[offset + 1] = 0 => f[offset] = offset
         /\ /\ offset + 2 <= Len(area) /\ area[offset + 1] # 0
            /\ offset + 2 + area[offset + 2] <= Len(area)
            => f[offset] = f[offset + 2 + area[offset + 2]]
<1>1. Len(area) \in Nat /\ \A i \in 1 .. Len(area) : area[i] \in Nat
  BY LenProperties DEF Area
<1> QED BY <1>1 DEF UsedFrom, TLV_HEADER_SIZE

-----------------------------------------------------------------------------
(* The number of a queued request *)

LEMMA AreaFunction ==
  ASSUME NEW n \in Nat, NEW area \in [1 .. n -> Nat]
  PROVE  Area(area) /\ Len(area) = n
BY SeqDef, LenProperties DEF Area

\* An entry of one cell, with or without three zeros behind it.
RequestEntry(area, t, id) ==
  \E n \in {3, 6} :
    area = [i \in 1 .. n |-> IF i = 1 THEN t ELSE IF i = 2 THEN 1 ELSE IF i = 3 THEN id ELSE 0]

LEMMA RequestEntryReads ==
  ASSUME NEW area, NEW t \in {1, 2}, NEW id \in Nat, RequestEntry(area, t, id), NEW u \in {1, 2}
  PROVE  IF u = t THEN GetExtensionBytes(area, u) = <<id>> ELSE ~HasExtension(area, u)
<1>1. PICK n \in {3, 6} :
        area = [i \in 1 .. n |-> IF i = 1 THEN t ELSE IF i = 2 THEN 1 ELSE IF i = 3 THEN id ELSE 0]
  BY DEF RequestEntry
<1>2. area \in [1 .. n -> Nat] /\ n \in Nat
  BY <1>1
<1>3. Area(area) /\ Len(area) = n
  BY <1>2, AreaFunction
<1>4. area[1] = t /\ area[2] = 1 /\ area[3] = id /\ (n = 6 => area[4] = 0 /\ area[5] = 0)
  BY <1>1
<1>5. PICK f : FindFrom(f, area, u) /\ Find(area, u) = f[0]
  BY <1>3, FindStepwise
<1> HIDE DEF RequestEntry
<1>6. f[0] = IF t = u THEN 0 ELSE f[3]
  <2>1. 0 \in 0 .. Len(area) /\ 0 + 2 = 2 /\ 0 + 1 = 1 /\ 0 + 2 + area[0 + 2] = 3
        /\ 2 <= Len(area) /\ 3 <= Len(area)
    BY <1>3, <1>4
  <2> QED BY <1>3, <1>4, <1>5, <2>1, FindStep
<1>7. CASE u = t
  <2>1. Find(area, u) = 0
    BY <1>5, <1>6, <1>7
  <2>2. GetExtensionBytes(area, u) = SubSeq(area, 3, 3)
    <3>1. 0 + TLV_HEADER_SIZE + 1 = 3 /\ 0 + TLV_HEADER_SIZE + area[0 + 2] = 3
      BY <1>4 DEF TLV_HEADER_SIZE
    <3> QED BY <2>1, <3>1 DEF GetExtensionBytes
  <2>3. SubSeq(area, 3, 3) = <<id>>
    <3>1. area \in Seq(Nat) /\ 3 \in Nat \ {0} /\ 3 \in Nat /\ 3 <= Len(area) /\ 3 \in 3 .. 3
      BY <1>3 DEF Area
    <3>2. SubSeq(area, 3, 3)[3 - 3 + 1] = area[3]
      BY <3>1, SubSeqElement
    <3>3. SubSeq(area, 3, 3) \in Seq(Nat) /\ Len(SubSeq(area, 3, 3)) = 1
      <4>1. \A i \in 3 .. 3 : area[i] \in Nat
        BY <3>1, LenProperties
      <4> QED BY <4>1, SubSeqProperties
    <3> DEFINE s == SubSeq(area, 3, 3)
    <3>4. s[1] = id
      BY <1>4, <3>2
    <3>5. DOMAIN s = 1 .. 1 /\ s = [i \in 1 .. 1 |-> s[i]]
      BY <3>3, LenProperties
    <3> HIDE DEF s
    <3>6. s = <<id>>
      BY <3>4, <3>5
    <3> QED BY <3>6 DEF s
  <2> QED BY <1>7, <2>2, <2>3
<1>8. CASE u # t
  <2>1. f[3] = -1
    <3>1. CASE n = 3
      <4>1. 3 \in 0 .. Len(area) /\ 3 + 2 > Len(area)
        BY <1>3, <3>1
      <4> QED BY <1>3, <1>5, <4>1, FindStep
    <3>2. CASE n = 6
      <4>1. f[3] = f[5]
        <5>1. 3 \in 0 .. Len(area) /\ 3 + 2 = 5 /\ 3 + 1 = 4 /\ 3 + 2 + area[3 + 2] = 5
              /\ 5 <= Len(area) /\ area[4] # u
          BY <1>3, <1>4, <3>2
        <5> QED BY <1>3, <1>5, <5>1, FindStep
      <4>2. f[5] = -1
        <5>1. 5 \in 0 .. Len(area) /\ 5 + 2 > Len(area)
          BY <1>3, <3>2
        <5> QED BY <1>3, <1>5, <5>1, FindStep
      <4> QED BY <4>1, <4>2
    <3> QED BY <3>1, <3>2
  <2> QED BY <1>5, <1>6, <1>8, <2>1 DEF HasExtension, NotFound
<1> QED BY <1>7, <1>8

LEMMA RequestEntryWritten ==
  ASSUME NEW n \in {3, 6}, NEW t \in {1, 2}, NEW id
  PROVE  RequestEntry(WriteExtension(Zeros(n), TlvUsedLen(Zeros(n)), t, RequestDataLen, <<id>>), t, id)
<1> DEFINE area == Zeros(n)
<1>1. area \in [1 .. n -> Nat] /\ n \in Nat
  BY DEF Zeros
<1>2. Area(area) /\ Len(area) = n
  BY <1>1, AreaFunction
<1>3. PICK f : UsedFrom(f, area) /\ TlvUsedLen(area) = f[0]
  BY <1>2, UsedStepwise
<1>4. TlvUsedLen(area) = 0
  <2>1. area[1] = 0 /\ 0 + 1 = 1 /\ 0 \in 0 .. Len(area) /\ 0 + 2 <= Len(area)
    BY <1>2 DEF Zeros
  <2> QED BY <1>2, <1>3, <2>1, UsedStep
<1>5. ASSUME NEW i \in 1 .. n
      PROVE  (CASE i = 0 + 1 -> t
                [] i = 0 + 2 -> RequestDataLen
                [] i \in 0 + TLV_HEADER_SIZE + 1 .. 0 + TLV_HEADER_SIZE + RequestDataLen
                     -> Padded(<<id>>, RequestDataLen)[i - 0 - TLV_HEADER_SIZE]
                [] OTHER -> area[i])
               = IF i = 1 THEN t ELSE IF i = 2 THEN 1 ELSE IF i = 3 THEN id ELSE 0
  <2>1. Padded(<<id>>, RequestDataLen)[1] = id
    BY DEF Padded, RequestDataLen
  <2>2. 0 + TLV_HEADER_SIZE + 1 = 3 /\ 0 + TLV_HEADER_SIZE + RequestDataLen = 3 /\ RequestDataLen = 1
        /\ 3 - 0 - TLV_HEADER_SIZE = 1
    BY DEF TLV_HEADER_SIZE, RequestDataLen
  <2>3. area[i] = 0
    BY DEF Zeros
  <2>4. i \in 3 .. 3 <=> i = 3
    OBVIOUS
  <2> HIDE DEF area
  <2> QED BY <2>1, <2>2, <2>3, <2>4
<1> QED BY <1>2, <1>4, <1>5 DEF RequestEntry, WriteExtension

LEMMA SpaceOfQueue ==
  ASSUME NEW area, NEW t \in DOMAIN QueueOf, HasExtension(area, QueueOf[t])
  PROVE  RequestExtensionSpace(area) \in {3, 6}
<1>1. t = 1 \/ t = 2
  BY TlvAssumption
<1> QED BY <1>1 DEF RequestExtensionSpace, TLV_HEADER_SIZE, RequestDataLen

\* The invariant: a request with a number holds one entry, of its direction.
RequestLaidOut ==
  \/ tag = << >>
  \/ \E t \in DOMAIN QueueOf, id \in Cells :
       tag = <<t, id>> /\ RequestEntry(request_area, t, id)

LEMMA RequestInit == TlvInit => RequestLaidOut
BY DEF TlvInit, RequestLaidOut

LEMMA RequestStep ==
  ASSUME RequestLaidOut, [TlvNext]_tlvVars
  PROVE  RequestLaidOut'
<1>1. CASE UNCHANGED <<request_area, tag>>
  BY <1>1 DEF RequestLaidOut, RequestEntry
<1>2. ASSUME NEW t \in DOMAIN QueueOf, NEW id \in Cells, CreateRequest(t, id)
      PROVE  RequestLaidOut'
  <2> DEFINE n == RequestExtensionSpace(vault_area)
  <2>1. n \in {3, 6}
    BY <1>2, SpaceOfQueue DEF CreateRequest
  <2>2. t \in {1, 2}
    BY TlvAssumption
  <2>3. /\ request_area' = WriteExtension(Zeros(n), TlvUsedLen(Zeros(n)), t, RequestDataLen, <<id>>)
        /\ tag' = <<t, id>>
    BY <1>2 DEF CreateRequest
  <2> HIDE DEF n
  <2>4. RequestEntry(request_area', t, id)
    BY <2>1, <2>2, <2>3, RequestEntryWritten
  <2> QED BY <2>3, <2>4 DEF RequestLaidOut, RequestEntry
<1>3. CASE CloseRequest
  BY <1>3 DEF CloseRequest, RequestLaidOut
<1>4. ASSUME NEW t, NEW v, InitVaultExtension(t, v) \/ UpdateVaultExtension(t, v)
      PROVE  UNCHANGED <<request_area, tag>>
  BY <1>4 DEF InitVaultExtension, UpdateVaultExtension
<1>5. InitializeVault \/ UNCHANGED tlvVars => UNCHANGED <<request_area, tag>>
  BY DEF InitializeVault, tlvVars
<1> QED BY <1>1, <1>2, <1>3, <1>4, <1>5 DEF TlvNext

\* A request reads the number it was given under its own direction and none under the
\* other, and always had room for it, for every layout of the vault's extensions
\* (compute_request_extension_space, init_request_extension).
THEOREM RequestNumberReadBack == TlvSpec => []RequestReadsItsNumber
<1>1. ASSUME RequestLaidOut
      PROVE  RequestReadsItsNumber
  <2>1. ASSUME NEW t \in DOMAIN QueueOf, HasExtension(vault_area, QueueOf[t])
        PROVE  CanWrite(Zeros(RequestExtensionSpace(vault_area)), 0, RequestDataLen, <<0>>)
    <3> DEFINE n == RequestExtensionSpace(vault_area)
    <3>1. n \in {3, 6}
      BY <2>1, SpaceOfQueue
    <3> HIDE DEF n
    <3>2. Zeros(n) \in [1 .. n -> Nat] /\ n \in Nat
      BY <3>1 DEF Zeros
    <3>3. Len(Zeros(n)) = n
      BY <3>2, AreaFunction
    <3>4. CanWrite(Zeros(n), 0, RequestDataLen, <<0>>)
      BY <3>1, <3>3 DEF CanWrite, RequestDataLen, TLV_HEADER_SIZE
    <3> QED BY <3>4 DEF n
  <2>2. ASSUME tag # << >>, NEW u \in DOMAIN QueueOf
        PROVE  IF u = tag[1] THEN GetExtensionBytes(request_area, u) = <<tag[2]>>
                             ELSE ~HasExtension(request_area, u)
    <3>1. PICK t \in DOMAIN QueueOf, id \in Cells :
            tag = <<t, id>> /\ RequestEntry(request_area, t, id)
      BY <1>1, <2>2 DEF RequestLaidOut
    <3>2. t \in {1, 2} /\ u \in {1, 2} /\ id \in Nat
      BY TlvAssumption
    <3>3. IF u = t THEN GetExtensionBytes(request_area, u) = <<id>> ELSE ~HasExtension(request_area, u)
      BY <3>1, <3>2, RequestEntryReads
    <3>4. tag[1] = t /\ tag[2] = id
      BY <3>1
    <3> QED BY <3>3, <3>4
  <2> QED BY <2>1, <2>2 DEF RequestReadsItsNumber
<1>2. RequestLaidOut /\ [TlvNext]_tlvVars => RequestLaidOut'
  BY RequestStep
<1> QED BY <1>1, <1>2, RequestInit, PTL DEF TlvSpec

-----------------------------------------------------------------------------
(* The extensions of a vault *)

\* The area starts with n entries, of different types ty[1] .. ty[n], which end at the
\* offsets b[1] .. b[n].
Entries(area, n, b, ty) ==
  /\ b \in [0 .. n -> 0 .. Len(area)] /\ b[0] = 0
  /\ ty \in [1 .. n -> DOMAIN DataLen]
  /\ \A i, j \in 1 .. n : ty[i] = ty[j] => i = j
  /\ \A i \in 1 .. n :
       /\ b[i] = b[i - 1] + 2 + DataLen[ty[i]]
       /\ area[b[i - 1] + 1] = ty[i] /\ area[b[i - 1] + 2] = DataLen[ty[i]]
       /\ \A k \in b[i - 1] + 3 .. b[i] : area[k] \in Cells

LEMMA EntryFacts ==
  ASSUME NEW area, Area(area), NEW n \in Nat, NEW b, NEW ty, Entries(area, n, b, ty),
         NEW i \in 1 .. n
  PROVE  /\ b[i - 1] \in Nat /\ b[i] \in Nat /\ b[i] <= Len(area) /\ Len(area) \in Nat
         /\ ty[i] \in DOMAIN DataLen /\ ty[i] \in Nat \ {0} /\ DataLen[ty[i]] \in Nat
         /\ b[i] = b[i - 1] + 2 + DataLen[ty[i]]
         /\ area[b[i - 1] + 1] = ty[i] /\ area[b[i - 1] + 2] = DataLen[ty[i]]
         /\ \A k \in b[i - 1] + 3 .. b[i] : area[k] \in Cells
<1>1. Len(area) \in Nat
  BY LenProperties DEF Area
<1>2. i - 1 \in 0 .. n /\ i \in 0 .. n
  OBVIOUS
<1>3. b[i - 1] \in 0 .. Len(area) /\ b[i] \in 0 .. Len(area) /\ ty[i] \in DOMAIN DataLen
  BY <1>2 DEF Entries
<1>4. ty[i] \in Nat \ {0} /\ DataLen[ty[i]] \in Nat
  BY <1>3, TlvAssumption
<1>5. /\ b[i] = b[i - 1] + 2 + DataLen[ty[i]]
      /\ area[b[i - 1] + 1] = ty[i] /\ area[b[i - 1] + 2] = DataLen[ty[i]]
      /\ \A k \in b[i - 1] + 3 .. b[i] : area[k] \in Cells
  BY DEF Entries
<1> QED BY <1>1, <1>3, <1>4, <1>5

\* Entries follow one another.
LEMMA EntryOrder ==
  ASSUME NEW area, Area(area), NEW n \in Nat, NEW b, NEW ty, Entries(area, n, b, ty),
         NEW i \in 0 .. n
  PROVE  \A m \in Nat : i + m <= n => b[i] <= b[i + m]
<1> DEFINE S == {m \in Nat : i + m <= n => b[i] <= b[i + m]}
<1>0. \A k \in 0 .. n : b[k] \in Nat
  BY LenProperties DEF Entries, Area
<1>1. 0 \in S
  <2>1. i + 0 = i /\ b[i] \in Nat
    BY <1>0
  <2> QED BY <2>1
<1>2. ASSUME NEW m \in Nat, m \in S
      PROVE  m + 1 \in S
  <2> SUFFICES ASSUME i + (m + 1) <= n
               PROVE  b[i] <= b[i + (m + 1)]
    OBVIOUS
  <2> DEFINE k == i + (m + 1)
  <2>1. k \in 1 .. n /\ k - 1 = i + m
    OBVIOUS
  <2>2. b[i] <= b[k - 1]
    BY <1>2, <2>1
  <2> HIDE DEF k
  <2>3. b[k - 1] \in Nat /\ b[k] = b[k - 1] + 2 + DataLen[ty[k]] /\ DataLen[ty[k]] \in Nat
    BY <2>1, EntryFacts
  <2>4. b[i] <= b[k]
    BY <1>0, <2>2, <2>3
  <2> QED BY <2>4 DEF k
<1> HIDE DEF S
<1>3. \A m \in Nat : m \in S
  BY <1>1, <1>2, InductionOnSet
<1> QED BY <1>3 DEF S

\* The walk goes from entry to entry.
LEMMA FindPasses ==
  ASSUME NEW area, Area(area), NEW n \in Nat, NEW b, NEW ty, Entries(area, n, b, ty),
         NEW t, NEW f, FindFrom(f, area, t), NEW i \in 1 .. n
  PROVE  f[b[i - 1]] = IF ty[i] = t THEN b[i - 1] ELSE f[b[i]]
<1> DEFINE o == b[i - 1]
<1>1. /\ o \in Nat /\ b[i] <= Len(area) /\ Len(area) \in Nat /\ DataLen[ty[i]] \in Nat
      /\ b[i] = o + 2 + DataLen[ty[i]]
      /\ area[o + 1] = ty[i] /\ area[o + 2] = DataLen[ty[i]]
  BY EntryFacts
<1> HIDE DEF o
<1>2. o \in 0 .. Len(area) /\ o + 2 <= Len(area) /\ o + 2 + area[o + 2] = b[i]
      /\ o + 2 + area[o + 2] <= Len(area)
  BY <1>1
<1>3. f[o] = IF area[o + 1] = t THEN o ELSE f[o + 2 + area[o + 2]]
  BY <1>2, FindStep
<1> QED BY <1>1, <1>2, <1>3 DEF o

LEMMA FindEntry ==
  ASSUME NEW area, Area(area), NEW n \in Nat, NEW b, NEW ty, Entries(area, n, b, ty),
         NEW i \in 1 .. n
  PROVE  Find(area, ty[i]) = b[i - 1]
<1>1. PICK f : FindFrom(f, area, ty[i]) /\ Find(area, ty[i]) = f[0]
  BY FindStepwise
<1> DEFINE S == {m \in Nat : m <= i - 1 => f[b[(i - 1) - m]] = b[i - 1]}
<1>2. 0 \in S
  <2>1. f[b[i - 1]] = b[i - 1] /\ (i - 1) - 0 = i - 1
    BY <1>1, FindPasses
  <2> QED BY <2>1
<1>3. ASSUME NEW m \in Nat, m \in S
      PROVE  m + 1 \in S
  <2> SUFFICES ASSUME m + 1 <= i - 1
               PROVE  f[b[(i - 1) - (m + 1)]] = b[i - 1]
    OBVIOUS
  <2> DEFINE k == (i - 1) - m
  <2>1. k \in 1 .. n /\ k # i /\ k - 1 = (i - 1) - (m + 1)
    OBVIOUS
  <2>2. f[b[k]] = b[i - 1]
    BY <1>3
  <2> HIDE DEF k
  <2>3. ty[k] # ty[i]
    BY <2>1 DEF Entries
  <2>4. f[b[k - 1]] = f[b[k]]
    BY <1>1, <2>1, <2>3, FindPasses
  <2> QED BY <2>1, <2>2, <2>4
<1> HIDE DEF S
<1>4. \A m \in Nat : m \in S
  BY <1>2, <1>3, InductionOnSet
<1>5. i - 1 \in Nat /\ (i - 1) - (i - 1) = 0
  OBVIOUS
<1>6. f[b[0]] = b[i - 1]
  BY <1>4, <1>5 DEF S
<1> QED BY <1>1, <1>6 DEF Entries

LEMMA FindNone ==
  ASSUME NEW area, Area(area), NEW n \in Nat, NEW b, NEW ty, Entries(area, n, b, ty),
         b[n] = Len(area), NEW t, \A i \in 1 .. n : ty[i] # t
  PROVE  Find(area, t) = -1
<1>1. PICK f : FindFrom(f, area, t) /\ Find(area, t) = f[0]
  BY FindStepwise
<1>2. Len(area) \in Nat
  BY LenProperties DEF Area
<1> DEFINE S == {m \in Nat : m <= n => f[b[n - m]] = -1}
<1>3. 0 \in S
  <2>1. Len(area) \in 0 .. Len(area) /\ Len(area) + 2 > Len(area)
    BY <1>2
  <2>2. f[Len(area)] = -1 /\ n - 0 = n
    BY <1>1, <2>1, FindStep
  <2> QED BY <2>2
<1>4. ASSUME NEW m \in Nat, m \in S
      PROVE  m + 1 \in S
  <2> SUFFICES ASSUME m + 1 <= n
               PROVE  f[b[n - (m + 1)]] = -1
    OBVIOUS
  <2> DEFINE k == n - m
  <2>1. k \in 1 .. n /\ k - 1 = n - (m + 1)
    OBVIOUS
  <2>2. f[b[k]] = -1
    BY <1>4
  <2> HIDE DEF k
  <2>3. f[b[k - 1]] = f[b[k]]
    BY <1>1, <2>1, FindPasses
  <2> QED BY <2>1, <2>2, <2>3
<1> HIDE DEF S
<1>5. n \in S /\ n - n = 0
  BY <1>3, <1>4, InductionOnSet
<1>6. f[b[0]] = -1
  BY <1>5 DEF S
<1> QED BY <1>1, <1>6 DEF Entries

LEMMA UsedEntries ==
  ASSUME NEW area, Area(area), NEW n \in Nat, NEW b, NEW ty, Entries(area, n, b, ty),
         b[n] + 2 <= Len(area), area[b[n] + 1] = 0
  PROVE  TlvUsedLen(area) = b[n]
<1>1. PICK f : UsedFrom(f, area) /\ TlvUsedLen(area) = f[0]
  BY UsedStepwise
<1>2. Len(area) \in Nat /\ b[n] \in 0 .. Len(area)
  BY LenProperties DEF Area, Entries
<1> DEFINE S == {m \in Nat : m <= n => f[b[n - m]] = b[n]}
<1>3. 0 \in S
  <2>1. f[b[n]] = b[n] /\ n - 0 = n
    BY <1>1, <1>2, UsedStep
  <2> QED BY <2>1
<1>4. ASSUME NEW m \in Nat, m \in S
      PROVE  m + 1 \in S
  <2> SUFFICES ASSUME m + 1 <= n
               PROVE  f[b[n - (m + 1)]] = b[n]
    OBVIOUS
  <2> DEFINE k == n - m
             o == b[k - 1]
  <2>1. k \in 1 .. n /\ k - 1 = n - (m + 1)
    OBVIOUS
  <2>2. f[b[k]] = b[n]
    BY <1>4
  <2> HIDE DEF k
  <2>3. /\ o \in Nat /\ b[k] <= Len(area) /\ DataLen[ty[k]] \in Nat /\ ty[k] \in Nat \ {0}
        /\ b[k] = o + 2 + DataLen[ty[k]]
        /\ area[o + 1] = ty[k] /\ area[o + 2] = DataLen[ty[k]]
    BY <2>1, EntryFacts
  <2> HIDE DEF o
  <2>4. o \in 0 .. Len(area) /\ o + 2 <= Len(area) /\ o + 2 + area[o + 2] = b[k]
        /\ o + 2 + area[o + 2] <= Len(area) /\ area[o + 1] # 0
    BY <1>2, <2>3
  <2>5. f[o] = f[o + 2 + area[o + 2]]
    BY <1>1, <2>4, UsedStep
  <2> QED BY <2>1, <2>2, <2>4, <2>5 DEF o
<1> HIDE DEF S
<1>5. n \in S /\ n - n = 0
  BY <1>3, <1>4, InductionOnSet
<1>6. f[b[0]] = b[n]
  BY <1>5 DEF S
<1> QED BY <1>1, <1>6 DEF Entries

\* What is read of an entry at an offset.
ValueAt(area, offset, len) == [j \in 1 .. len |-> area[offset + 2 + j]]

LEMMA EntryBytes ==
  ASSUME NEW area, Area(area), NEW n \in Nat, NEW b, NEW ty, Entries(area, n, b, ty),
         NEW i \in 1 .. n
  PROVE  GetExtensionBytes(area, ty[i]) = ValueAt(area, b[i - 1], DataLen[ty[i]])
<1> DEFINE o == b[i - 1]
           d == DataLen[ty[i]]
           s == SubSeq(area, o + 2 + 1, o + 2 + d)
<1>1. o \in Nat /\ d \in Nat /\ o + 2 + d <= Len(area) /\ area[o + 2] = d /\ Len(area) \in Nat
  <2>1. /\ b[i - 1] \in Nat /\ b[i] <= Len(area) /\ Len(area) \in Nat
        /\ DataLen[ty[i]] \in Nat /\ b[i] = b[i - 1] + 2 + DataLen[ty[i]]
        /\ area[b[i - 1] + 2] = DataLen[ty[i]]
    BY EntryFacts
  <2> QED BY <2>1
<1>2. Find(area, ty[i]) = o
  BY FindEntry
<1> HIDE DEF o, d
<1>3. GetExtensionBytes(area, ty[i]) = s
  BY <1>1, <1>2 DEF GetExtensionBytes, TLV_HEADER_SIZE
<1>4. s \in Seq(Nat) /\ Len(s) = d
  <2>1. \A k \in o + 2 + 1 .. o + 2 + d : area[k] \in Nat
    BY <1>1, LenProperties DEF Area
  <2>2. o + 2 + 1 \in Int /\ o + 2 + d \in Int
    BY <1>1
  <2>3. s \in Seq(Nat) /\ Len(s) = IF o + 2 + 1 <= o + 2 + d THEN (o + 2 + d) - (o + 2 + 1) + 1 ELSE 0
    BY <2>1, <2>2, SubSeqProperties
  <2> HIDE DEF s
  <2> QED BY <1>1, <2>3
<1>5. ASSUME NEW j \in 1 .. d
      PROVE  s[j] = area[o + 2 + j]
  <2> DEFINE m == o + 2 + 1
             e == o + 2 + d
             k == o + 2 + j
  <2>1. m \in Nat \ {0} /\ e \in Nat /\ e <= Len(area) /\ k \in m .. e /\ k - m + 1 = j
    BY <1>1
  <2>2. area \in Seq(Nat)
    BY DEF Area
  <2> HIDE DEF m, e, k
  <2>3. SubSeq(area, m, e)[k - m + 1] = area[k]
    BY <2>1, <2>2, SubSeqElement
  <2> QED BY <2>1, <2>3 DEF m, e, k
<1>6. s = [j \in 1 .. d |-> s[j]]
  <2> HIDE DEF s
  <2> QED BY <1>4, LenProperties
<1> HIDE DEF s
<1>7. s = [j \in 1 .. d |-> area[o + 2 + j]]
  BY <1>5, <1>6
<1> QED BY <1>3, <1>7 DEF o, d, ValueAt

\* Entries stay where they are in an area that differs only in their values, or behind
\* them.
LEMMA EntriesKept ==
  ASSUME NEW area, Area(area), NEW n \in Nat, NEW b, NEW ty, Entries(area, n, b, ty),
         NEW new, Area(new), Len(area) <= Len(new),
         \A k \in 1 .. b[n] :
           new[k] = area[k] \/ (new[k] \in Cells /\ \E i \in 1 .. n : k \in b[i - 1] + 3 .. b[i])
  PROVE  Entries(new, n, b, ty)
<1>1. Len(area) \in Nat /\ Len(new) \in Nat
  BY LenProperties DEF Area
<1>2. b \in [0 .. n -> 0 .. Len(new)] /\ b[0] = 0
  BY <1>1 DEF Entries
<1>3. ASSUME NEW i \in 1 .. n
      PROVE  b[i] \in 0 .. b[n]
  <2>1. i \in 0 .. n /\ n - i \in Nat /\ i + (n - i) = n
    OBVIOUS
  <2>2. b[i] <= b[n]
    BY <2>1, EntryOrder
  <2> QED BY <2>1, <2>2, <1>2
<1>4. ASSUME NEW i \in 1 .. n
      PROVE  new[b[i - 1] + 1] = area[b[i - 1] + 1] /\ new[b[i - 1] + 2] = area[b[i - 1] + 2]
  <2> DEFINE o == b[i - 1]
  <2>1. o \in Nat /\ b[i] = o + 2 + DataLen[ty[i]] /\ DataLen[ty[i]] \in Nat /\ b[i] \in Nat
    BY EntryFacts
  <2>2. b[n] \in Nat /\ b[i] <= b[n]
    BY <1>1, <1>2, <1>3
  <2>3. ASSUME NEW j \in 1 .. n
        PROVE  b[j - 1] \in Nat /\ b[j] \in Nat /\ (j = i \/ b[j] <= o \/ b[i] <= b[j - 1])
    <3>1. b[j - 1] \in Nat /\ b[j] \in Nat
      BY EntryFacts
    <3>2. CASE j < i
      <4>1. j \in 0 .. n /\ (i - 1) - j \in Nat /\ j + ((i - 1) - j) = i - 1 /\ i - 1 <= n
        BY <3>2
      <4>2. b[j] <= b[i - 1]
        BY <4>1, EntryOrder
      <4> QED BY <3>1, <4>2
    <3>3. CASE i < j
      <4>1. i \in 0 .. n /\ (j - 1) - i \in Nat /\ i + ((j - 1) - i) = j - 1 /\ j - 1 <= n
        BY <3>3
      <4>2. b[i] <= b[j - 1]
        BY <4>1, EntryOrder
      <4> QED BY <3>1, <4>2
    <3> QED BY <3>1, <3>2, <3>3
  <2> HIDE DEF o
  <2>4. ASSUME NEW k \in Nat, k = o + 1 \/ k = o + 2
        PROVE  new[k] = area[k]
    <3>1. k \in 1 .. b[n]
      BY <2>1, <2>2, <2>4
    <3>2. ASSUME NEW j \in 1 .. n
          PROVE  k \notin b[j - 1] + 3 .. b[j]
      <4> DEFINE p == b[j - 1]
                 q == b[j]
      <4>1. p \in Nat /\ q \in Nat /\ (j = i \/ q <= o \/ b[i] <= p)
        BY <2>3
      <4>2. j = i => p = o
        BY DEF o
      <4> HIDE DEF p, q
      <4>3. k > o /\ k < o + 3 /\ k <= b[i]
        BY <2>1, <2>4
      <4>4. k \notin p + 3 .. q
        BY <2>1, <4>1, <4>2, <4>3
      <4> QED BY <4>4 DEF p, q
    <3> QED BY <3>1, <3>2
  <2>5. o + 1 \in Nat /\ o + 2 \in Nat
    BY <2>1
  <2>6. new[o + 1] = area[o + 1] /\ new[o + 2] = area[o + 2]
    BY <2>4, <2>5, Zenon
  <2> QED BY <2>6 DEF o
<1>5. ASSUME NEW i \in 1 .. n
      PROVE  /\ b[i] = b[i - 1] + 2 + DataLen[ty[i]]
             /\ new[b[i - 1] + 1] = ty[i] /\ new[b[i - 1] + 2] = DataLen[ty[i]]
             /\ \A k \in b[i - 1] + 3 .. b[i] : new[k] \in Cells
  <2>1. /\ b[i - 1] \in Nat /\ b[i] \in Nat
        /\ b[i] = b[i - 1] + 2 + DataLen[ty[i]]
        /\ area[b[i - 1] + 1] = ty[i] /\ area[b[i - 1] + 2] = DataLen[ty[i]]
        /\ \A k \in b[i - 1] + 3 .. b[i] : area[k] \in Cells
    BY EntryFacts
  <2>2. new[b[i - 1] + 1] = ty[i] /\ new[b[i - 1] + 2] = DataLen[ty[i]]
    BY <1>4, <2>1
  <2>3. ASSUME NEW k \in b[i - 1] + 3 .. b[i]
        PROVE  new[k] \in Cells
    <3>1. k \in 1 .. b[n]
      BY <1>2, <1>3, <2>1
    <3> QED BY <2>1, <2>3, <3>1
  <2> QED BY <2>1, <2>2, <2>3
<1> QED BY <1>2, <1>5 DEF Entries

\* Decoded, of any area.
MapOf(area) ==
  [t \in {u \in DOMAIN DataLen : HasExtension(area, u)} |-> GetExtensionBytes(area, t)]

\* n entries that fill the area.
Filling(area, n, b, ty) == Area(area) /\ Entries(area, n, b, ty) /\ b[n] = Len(area)

\* The map has the types of the entries, each with the value of its entry.
ReadsEntries(area, n, b, ty) ==
  /\ DOMAIN MapOf(area) = {ty[i] : i \in 1 .. n}
  /\ \A i \in 1 .. n : MapOf(area)[ty[i]] = ValueAt(area, b[i - 1], DataLen[ty[i]])

LEMMA MapOfEntries ==
  ASSUME NEW area, NEW n \in Nat, NEW b, NEW ty, Filling(area, n, b, ty)
  PROVE  ReadsEntries(area, n, b, ty)
<1>1. ASSUME NEW i \in 1 .. n
      PROVE  ty[i] \in DOMAIN DataLen /\ HasExtension(area, ty[i])
  <2>1. b[i - 1] \in Nat /\ ty[i] \in DOMAIN DataLen
    BY EntryFacts DEF Filling
  <2>2. Find(area, ty[i]) = b[i - 1]
    BY FindEntry DEF Filling
  <2> QED BY <2>1, <2>2 DEF HasExtension, NotFound
<1>2. ASSUME NEW t \in DOMAIN DataLen, HasExtension(area, t)
      PROVE  \E i \in 1 .. n : ty[i] = t
  BY <1>2, FindNone DEF Filling, HasExtension, NotFound
<1>3. DOMAIN MapOf(area) = {t \in DOMAIN DataLen : HasExtension(area, t)}
  BY DEF MapOf
<1>4. DOMAIN MapOf(area) = {ty[i] : i \in 1 .. n}
  BY <1>1, <1>2, <1>3
<1>5. ASSUME NEW i \in 1 .. n
      PROVE  MapOf(area)[ty[i]] = ValueAt(area, b[i - 1], DataLen[ty[i]])
  <2>1. MapOf(area)[ty[i]] = GetExtensionBytes(area, ty[i])
    BY <1>1 DEF MapOf
  <2> QED BY <2>1, EntryBytes DEF Filling
<1> QED BY <1>4, <1>5 DEF ReadsEntries

LEMMA PaddedValue ==
  ASSUME NEW t \in DOMAIN DataLen, NEW v \in Written(t)
  PROVE  /\ Padded(v, DataLen[t]) \in [1 .. DataLen[t] -> Cells] /\ DataLen[t] \in Nat
<1>1. DataLen[t] \in Nat /\ 0 \in Cells
  BY TlvAssumption
<1>2. PICK n \in 0 .. DataLen[t] : v \in [1 .. n -> Cells]
  BY DEF Written
<1>3. Len(v) = n /\ n \in Nat
  BY <1>1, <1>2, SeqDef, LenProperties
<1> QED BY <1>1, <1>2, <1>3 DEF Padded

\* An area that the account grew by an entry of zeros, and with the entry written.
Grown(area, t) == area \o Zeros(TLV_HEADER_SIZE + DataLen[t])
Extended(area, t, v) == WriteExtension(Grown(area, t), Len(area), t, DataLen[t], v)

LEMMA WrittenCells ==
  ASSUME NEW area, Area(area), NEW t \in DOMAIN DataLen, NEW v \in Written(t)
  PROVE  /\ Area(Grown(area, t)) /\ Area(Extended(area, t, v))
         /\ Len(Grown(area, t)) = Len(area) + 2 + DataLen[t]
         /\ Len(Extended(area, t, v)) = Len(area) + 2 + DataLen[t]
         /\ \A k \in 1 .. Len(area) :
              Grown(area, t)[k] = area[k] /\ Extended(area, t, v)[k] = area[k]
         /\ Grown(area, t)[Len(area) + 1] = 0
         /\ Extended(area, t, v)[Len(area) + 1] = t
         /\ Extended(area, t, v)[Len(area) + 2] = DataLen[t]
         /\ \A j \in 1 .. DataLen[t] :
              Extended(area, t, v)[Len(area) + 2 + j] = Padded(v, DataLen[t])[j]
<1> DEFINE d == DataLen[t]
           N == Len(area)
           Z == Zeros(2 + d)
           P == Padded(v, d)
           grown == Grown(area, t)
           new == Extended(area, t, v)
<1>1. d \in Nat /\ t \in Nat /\ N \in Nat /\ Cells \subseteq Nat
  BY TlvAssumption, LenProperties DEF Area
<1>2. P \in [1 .. d -> Cells]
  BY PaddedValue
<1>3. Z \in [1 .. 2 + d -> Nat] /\ 2 + d \in Nat /\ \A k \in 1 .. 2 + d : Z[k] = 0
  BY <1>1 DEF Zeros
<1> HIDE DEF Z
<1>4. Z \in Seq(Nat) /\ Len(Z) = 2 + d
  BY <1>3, AreaFunction DEF Area
<1>5. grown = area \o Z
  BY DEF Grown, TLV_HEADER_SIZE, Z
<1> HIDE DEF grown
<1>6. /\ grown \in Seq(Nat) /\ Len(grown) = N + (2 + d)
      /\ \A k \in 1 .. N + (2 + d) : grown[k] = IF k <= N THEN area[k] ELSE Z[k - N]
  BY <1>4, <1>5, ConcatProperties DEF Area
<1>7. \A k \in 1 .. N : grown[k] = area[k]
  BY <1>1, <1>6
<1>8. grown[N + 1] = 0
  <2>1. N + 1 \in 1 .. N + (2 + d) /\ ~(N + 1 <= N) /\ (N + 1) - N = 1 /\ 1 \in 1 .. 2 + d
    BY <1>1
  <2> QED BY <1>3, <1>6, <2>1
<1>9. new = [k \in 1 .. N + (2 + d) |->
               CASE k = N + 1 -> t
                 [] k = N + 2 -> d
                 [] k \in N + 2 + 1 .. N + 2 + d -> P[k - N - 2]
                 [] OTHER -> grown[k]]
  BY <1>6 DEF Extended, WriteExtension, TLV_HEADER_SIZE, grown
<1> HIDE DEF d, N, P, new
<1>10. \A k \in 1 .. N : new[k] = area[k]
  <2> SUFFICES ASSUME NEW k \in 1 .. N
               PROVE  new[k] = area[k]
    OBVIOUS
  <2>1. k \in 1 .. N + (2 + d) /\ k # N + 1 /\ k # N + 2 /\ k \notin N + 2 + 1 .. N + 2 + d
    BY <1>1
  <2> QED BY <1>7, <1>9, <2>1
<1>11. new[N + 1] = t /\ new[N + 2] = d
  <2>1. N + 1 \in 1 .. N + (2 + d) /\ N + 2 \in 1 .. N + (2 + d)
    BY <1>1
  <2>2. N + 2 # N + 1 /\ N + 1 \notin N + 2 + 1 .. N + 2 + d /\ N + 2 \notin N + 2 + 1 .. N + 2 + d
    BY <1>1
  <2> QED BY <1>9, <2>1, <2>2
<1>12. ASSUME NEW j \in 1 .. d
       PROVE  new[N + 2 + j] = P[j]
  <2>1. /\ N + 2 + j \in 1 .. N + (2 + d) /\ N + 2 + j # N + 1 /\ N + 2 + j # N + 2
        /\ N + 2 + j \in N + 2 + 1 .. N + 2 + d /\ (N + 2 + j) - N - 2 = j
    BY <1>1
  <2> QED BY <1>9, <2>1
<1>13. new \in [1 .. N + (2 + d) -> Nat] /\ N + (2 + d) \in Nat
  <2>1. N + (2 + d) \in Nat
    BY <1>1
  <2>2. ASSUME NEW k \in 1 .. N + (2 + d)
        PROVE  new[k] \in Nat
    <3>1. k \in 1 .. N \/ k = N + 1 \/ k = N + 2 \/ (k - N - 2 \in 1 .. d /\ N + 2 + (k - N - 2) = k)
      BY <1>1
    <3>2. \A i \in 1 .. N : area[i] \in Nat
      BY LenProperties DEF Area, N
    <3>3. \A j \in 1 .. d : P[j] \in Nat
      BY <1>1, <1>2
    <3> QED BY <1>1, <1>10, <1>11, <1>12, <3>1, <3>2, <3>3
  <2> QED BY <1>9, <2>1, <2>2
<1>14. Area(new) /\ Len(new) = N + (2 + d)
  BY <1>13, AreaFunction
<1>15. N + (2 + d) = N + 2 + d
  BY <1>1
<1> QED BY <1>6, <1>7, <1>8, <1>10, <1>11, <1>12, <1>14, <1>15 DEF Area, N, d, P, grown, new

LEMMA GrownEntries ==
  ASSUME NEW area, NEW n \in Nat, NEW b, NEW ty, Filling(area, n, b, ty),
         NEW t \in DOMAIN DataLen, NEW v \in Written(t)
  PROVE  /\ Entries(Grown(area, t), n, b, ty) /\ Entries(Extended(area, t, v), n, b, ty)
         /\ TlvUsedLen(Grown(area, t)) = Len(area)
<1> DEFINE grown == Grown(area, t)
           new == Extended(area, t, v)
<1>1. /\ Area(grown) /\ Area(new)
      /\ Len(grown) = Len(area) + 2 + DataLen[t] /\ Len(new) = Len(area) + 2 + DataLen[t]
      /\ \A k \in 1 .. Len(area) : grown[k] = area[k] /\ new[k] = area[k]
      /\ grown[Len(area) + 1] = 0
  BY WrittenCells DEF Filling
<1>2. Area(area) /\ Entries(area, n, b, ty) /\ b[n] = Len(area)
  BY DEF Filling
<1>3. Len(area) \in Nat /\ DataLen[t] \in Nat
  BY <1>2, LenProperties, TlvAssumption DEF Area
<1> HIDE DEF grown, new
<1>4. Len(area) <= Len(grown) /\ Len(area) <= Len(new)
  BY <1>1, <1>3
<1>5. Entries(grown, n, b, ty)
  BY <1>1, <1>2, <1>4, EntriesKept
<1>6. Entries(new, n, b, ty)
  BY <1>1, <1>2, <1>4, EntriesKept
<1>7. b[n] + 2 <= Len(grown) /\ grown[b[n] + 1] = 0
  BY <1>1, <1>2, <1>3
<1>8. TlvUsedLen(grown) = b[n]
  BY <1>1, <1>5, <1>7, UsedEntries
<1> QED BY <1>2, <1>5, <1>6, <1>8 DEF grown, new

LEMMA ExtendedEntries ==
  ASSUME NEW area, NEW n \in Nat, NEW b, NEW ty, Filling(area, n, b, ty),
         NEW t \in DOMAIN DataLen, NEW v \in Written(t), \A i \in 1 .. n : ty[i] # t
  PROVE  Filling(Extended(area, t, v), n + 1,
                 [k \in 0 .. n + 1 |-> IF k = n + 1 THEN Len(area) + 2 + DataLen[t] ELSE b[k]],
                 [k \in 1 .. n + 1 |-> IF k = n + 1 THEN t ELSE ty[k]])
<1> DEFINE new == Extended(area, t, v)
           N == Len(area)
           e == N + 2 + DataLen[t]
           B == [k \in 0 .. n + 1 |-> IF k = n + 1 THEN e ELSE b[k]]
           T == [k \in 1 .. n + 1 |-> IF k = n + 1 THEN t ELSE ty[k]]
<1>1. /\ Area(new) /\ Len(new) = e
      /\ new[N + 1] = t /\ new[N + 2] = DataLen[t]
      /\ \A j \in 1 .. DataLen[t] : new[N + 2 + j] = Padded(v, DataLen[t])[j]
  BY WrittenCells DEF Filling
<1>2. Entries(new, n, b, ty)
  BY GrownEntries
<1>3. N \in Nat /\ DataLen[t] \in Nat /\ b[n] = N
  BY LenProperties, TlvAssumption DEF Filling, Area
<1> HIDE DEF new, N
<1>4. B \in [0 .. n + 1 -> 0 .. Len(new)] /\ B[0] = 0
  <2>1. ASSUME NEW k \in 0 .. n + 1
        PROVE  B[k] \in 0 .. Len(new)
    <3>1. CASE k = n + 1
      BY <1>1, <1>3, <3>1
    <3>2. CASE k \in 0 .. n
      BY <1>2, <3>2 DEF Entries
    <3> QED BY <3>1, <3>2
  <2>2. B[0] = b[0]
    OBVIOUS
  <2> HIDE DEF e
  <2> QED BY <1>2, <2>1, <2>2 DEF Entries
<1>5. T \in [1 .. n + 1 -> DOMAIN DataLen]
  BY <1>2 DEF Entries
<1>6. ASSUME NEW i \in 1 .. n + 1, NEW j \in 1 .. n + 1, T[i] = T[j]
      PROVE  i = j
  <2>1. \A k \in 1 .. n + 1 : k = n + 1 \/ k \in 1 .. n
    OBVIOUS
  <2>2. T[n + 1] = t /\ \A k \in 1 .. n : T[k] = ty[k]
    OBVIOUS
  <2>3. \A k, l \in 1 .. n : ty[k] = ty[l] => k = l
    BY <1>2 DEF Entries
  <2> HIDE DEF T
  <2> QED BY <1>6, <2>1, <2>2, <2>3
<1>7. ASSUME NEW i \in 1 .. n + 1
      PROVE  /\ B[i] = B[i - 1] + 2 + DataLen[T[i]]
             /\ new[B[i - 1] + 1] = T[i] /\ new[B[i - 1] + 2] = DataLen[T[i]]
             /\ \A k \in B[i - 1] + 3 .. B[i] : new[k] \in Cells
  <2>1. CASE i = n + 1
    <3>1. B[i] = e /\ B[i - 1] = N /\ T[i] = t
      BY <1>3, <2>1
    <3>2. ASSUME NEW k \in N + 3 .. e
          PROVE  new[k] \in Cells
      <4>1. k - N - 2 \in 1 .. DataLen[t] /\ N + 2 + (k - N - 2) = k
        BY <1>3
      <4>2. new[k] = Padded(v, DataLen[t])[k - N - 2]
        BY <1>1, <4>1
      <4> QED BY <4>1, <4>2, PaddedValue
    <3> HIDE DEF B, T
    <3> QED BY <1>1, <3>1, <3>2
  <2>2. CASE i \in 1 .. n
    <3>1. B[i] = b[i] /\ B[i - 1] = b[i - 1] /\ T[i] = ty[i]
      BY <2>2
    <3>2. /\ b[i] = b[i - 1] + 2 + DataLen[ty[i]]
          /\ new[b[i - 1] + 1] = ty[i] /\ new[b[i - 1] + 2] = DataLen[ty[i]]
          /\ \A k \in b[i - 1] + 3 .. b[i] : new[k] \in Cells
      BY <1>2, <2>2 DEF Entries
    <3> HIDE DEF B, T
    <3> QED BY <3>1, <3>2
  <2>3. i = n + 1 \/ i \in 1 .. n
    OBVIOUS
  <2> HIDE DEF B, T
  <2> QED BY <2>1, <2>2, <2>3, Zenon
<1>8. B[n + 1] = Len(new)
  BY <1>1
<1> HIDE DEF B, T
<1>9. Filling(new, n + 1, B, T)
  BY <1>1, <1>4, <1>5, <1>6, <1>7, <1>8 DEF Filling, Entries
<1> QED BY <1>9 DEF new, B, T, e, N

LEMMA ValueAtKept ==
  ASSUME NEW area, NEW new, NEW offset \in Nat, NEW len \in Nat,
         \A k \in offset + 3 .. offset + 2 + len : new[k] = area[k]
  PROVE  ValueAt(new, offset, len) = ValueAt(area, offset, len)
<1>1. ASSUME NEW j \in 1 .. len
      PROVE  new[offset + 2 + j] = area[offset + 2 + j]
  <2>1. offset + 2 + j \in offset + 3 .. offset + 2 + len
    OBVIOUS
  <2> QED BY <2>1
<1> QED BY <1>1 DEF ValueAt

\* Adding an extension adds it to the map, and changes nothing else of it.
LEMMA ExtendedMap ==
  ASSUME NEW area, NEW n \in Nat, NEW b, NEW ty, Filling(area, n, b, ty),
         NEW t \in DOMAIN DataLen, NEW v \in Written(t), \A i \in 1 .. n : ty[i] # t
  PROVE  /\ t \notin DOMAIN MapOf(area)
         /\ MapOf(Extended(area, t, v))
              = [u \in DOMAIN MapOf(area) \cup {t} |->
                   IF u = t THEN Padded(v, DataLen[t]) ELSE MapOf(area)[u]]
<1> DEFINE new == Extended(area, t, v)
           N == Len(area)
           B == [k \in 0 .. n + 1 |-> IF k = n + 1 THEN N + 2 + DataLen[t] ELSE b[k]]
           T == [k \in 1 .. n + 1 |-> IF k = n + 1 THEN t ELSE ty[k]]
<1>1. Filling(new, n + 1, B, T)
  BY ExtendedEntries
<1>2. /\ DOMAIN MapOf(area) = {ty[i] : i \in 1 .. n}
      /\ \A i \in 1 .. n : MapOf(area)[ty[i]] = ValueAt(area, b[i - 1], DataLen[ty[i]])
  <2>1. ReadsEntries(area, n, b, ty)
    BY MapOfEntries
  <2> QED BY <2>1 DEF ReadsEntries
<1>3. N \in Nat /\ DataLen[t] \in Nat /\ b[n] = N /\ Area(area) /\ Entries(area, n, b, ty)
  BY LenProperties, TlvAssumption DEF Filling, Area
<1>4. /\ \A k \in 1 .. N : new[k] = area[k]
      /\ \A j \in 1 .. DataLen[t] : new[N + 2 + j] = Padded(v, DataLen[t])[j]
  BY WrittenCells DEF Filling
<1>5. T[n + 1] = t /\ B[(n + 1) - 1] = N
  BY <1>3
<1>6. \A i \in 1 .. n : T[i] = ty[i] /\ B[i - 1] = b[i - 1]
  OBVIOUS
<1> HIDE DEF new, N, B, T
<1>7. /\ DOMAIN MapOf(new) = {T[i] : i \in 1 .. n + 1}
      /\ \A i \in 1 .. n + 1 : MapOf(new)[T[i]] = ValueAt(new, B[i - 1], DataLen[T[i]])
  <2>1. n + 1 \in Nat
    OBVIOUS
  <2>2. ReadsEntries(new, n + 1, B, T)
    BY <1>1, <2>1, MapOfEntries
  <2> QED BY <2>2 DEF ReadsEntries
<1>8. t \notin DOMAIN MapOf(area)
  BY <1>2
<1>9. DOMAIN MapOf(new) = DOMAIN MapOf(area) \cup {t}
  <2>1. \A i : i \in 1 .. n + 1 <=> i \in 1 .. n \/ i = n + 1
    OBVIOUS
  <2> QED BY <1>2, <1>5, <1>6, <1>7, <2>1
<1>10. MapOf(new)[t] = Padded(v, DataLen[t])
  <2>1. n + 1 \in 1 .. n + 1
    OBVIOUS
  <2>2. MapOf(new)[t] = ValueAt(new, N, DataLen[t])
    BY <1>5, <1>7, <2>1
  <2>3. Padded(v, DataLen[t]) = [j \in 1 .. DataLen[t] |-> Padded(v, DataLen[t])[j]]
    BY DEF Padded
  <2>4. ValueAt(new, N, DataLen[t]) = [j \in 1 .. DataLen[t] |-> Padded(v, DataLen[t])[j]]
    BY <1>4 DEF ValueAt
  <2> QED BY <2>2, <2>3, <2>4
<1>11. ASSUME NEW i \in 1 .. n
       PROVE  MapOf(new)[ty[i]] = MapOf(area)[ty[i]]
  <2> DEFINE o == b[i - 1]
             d == DataLen[ty[i]]
  <2>1. i \in 1 .. n + 1
    OBVIOUS
  <2>2. MapOf(new)[ty[i]] = ValueAt(new, o, d)
    BY <1>6, <1>7, <2>1
  <2>3. o \in Nat /\ d \in Nat /\ b[i] = o + 2 + d /\ b[i] <= Len(area)
    BY <1>3, EntryFacts
  <2> HIDE DEF o, d
  <2>4. \A k \in o + 3 .. o + 2 + d : new[k] = area[k]
    <3>1. o + 2 + d <= N
      BY <2>3 DEF N
    <3>2. \A k \in o + 3 .. o + 2 + d : k \in 1 .. N
      BY <1>3, <2>3, <3>1
    <3> QED BY <1>4, <3>2
  <2>5. ValueAt(new, o, d) = ValueAt(area, o, d)
    BY <2>3, <2>4, ValueAtKept
  <2>6. MapOf(area)[ty[i]] = ValueAt(area, o, d)
    BY <1>2 DEF o, d
  <2> QED BY <2>2, <2>5, <2>6
<1>12. ASSUME NEW u \in DOMAIN MapOf(area) \cup {t}
       PROVE  MapOf(new)[u] = IF u = t THEN Padded(v, DataLen[t]) ELSE MapOf(area)[u]
  BY <1>2, <1>10, <1>11
<1>13. MapOf(new) = [u \in DOMAIN MapOf(new) |-> MapOf(new)[u]]
  BY DEF MapOf
<1>14. MapOf(new) = [u \in DOMAIN MapOf(area) \cup {t} |->
                       IF u = t THEN Padded(v, DataLen[t]) ELSE MapOf(area)[u]]
  BY <1>9, <1>12, <1>13
<1> QED BY <1>8, <1>14 DEF new

\* An area in which the value of the entry from start to end was replaced.
Replaced(new, area, start, end, value) ==
  /\ Area(new) /\ Len(new) = Len(area)
  /\ \A k \in 1 .. Len(area) :
       new[k] = IF k \in start + 3 .. end THEN value[k - start - 2] ELSE area[k]

LEMMA UpdatedCells ==
  ASSUME NEW area, NEW n \in Nat, NEW b, NEW ty, Filling(area, n, b, ty),
         NEW i \in 1 .. n, NEW v \in Written(ty[i])
  PROVE  Replaced(UpdateExtension(area, ty[i], v), area, b[i - 1], b[i],
                  Padded(v, DataLen[ty[i]]))
<1> DEFINE new == UpdateExtension(area, ty[i], v)
           N == Len(area)
           o == b[i - 1]
           d == DataLen[ty[i]]
           P == Padded(v, d)
<1>1. Area(area) /\ Entries(area, n, b, ty)
  BY DEF Filling
<1>2. /\ o \in Nat /\ b[i] = o + 2 + d /\ b[i] <= N /\ N \in Nat
      /\ d \in Nat /\ ty[i] \in DOMAIN DataLen /\ area[o + 2] = d
  BY <1>1, EntryFacts
<1>3. Find(area, ty[i]) = o
  BY <1>1, FindEntry
<1>4. P \in [1 .. d -> Cells] /\ Cells \subseteq Nat
  BY <1>2, PaddedValue, TlvAssumption
<1>5. \A k \in 1 .. N : area[k] \in Nat
  BY <1>1, LenProperties DEF Area
<1> HIDE DEF o, d, P
<1>6. new = [k \in 1 .. N |-> IF k \in o + 2 + 1 .. o + 2 + d THEN P[k - (o + 2)] ELSE area[k]]
  BY <1>2, <1>3 DEF UpdateExtension, TLV_HEADER_SIZE, P
<1> HIDE DEF new, N
<1>7. ASSUME NEW k \in 1 .. N
      PROVE  new[k] = IF k \in o + 3 .. b[i] THEN P[k - o - 2] ELSE area[k]
  <2>1. o + 2 + 1 = o + 3 /\ k - (o + 2) = k - o - 2
    BY <1>2
  <2> QED BY <1>2, <1>6, <2>1
<1>8. ASSUME NEW k \in 1 .. N
      PROVE  new[k] \in Nat
  <2>1. k \in o + 3 .. b[i] => k - o - 2 \in 1 .. d
    BY <1>2
  <2>2. \A j \in 1 .. d : P[j] \in Nat
    BY <1>4
  <2> QED BY <1>5, <1>7, <2>1, <2>2
<1>9. new \in [1 .. N -> Nat]
  BY <1>6, <1>8
<1>10. Area(new) /\ Len(new) = N
  BY <1>2, <1>9, AreaFunction
<1> QED BY <1>7, <1>10 DEF new, N, o, d, P, Replaced

LEMMA UpdatedEntries ==
  ASSUME NEW area, NEW n \in Nat, NEW b, NEW ty, Filling(area, n, b, ty),
         NEW i \in 1 .. n, NEW v \in Written(ty[i])
  PROVE  Filling(UpdateExtension(area, ty[i], v), n, b, ty)
<1> DEFINE new == UpdateExtension(area, ty[i], v)
           o == b[i - 1]
           d == DataLen[ty[i]]
           P == Padded(v, d)
<1>1. /\ Area(new) /\ Len(new) = Len(area)
      /\ \A k \in 1 .. Len(area) :
           new[k] = IF k \in o + 3 .. b[i] THEN P[k - o - 2] ELSE area[k]
  <2>1. Replaced(new, area, o, b[i], P)
    BY UpdatedCells
  <2> HIDE DEF new, o, P
  <2> QED BY <2>1 DEF Replaced
<1>2. Area(area) /\ Entries(area, n, b, ty) /\ b[n] = Len(area)
  BY DEF Filling
<1>3. /\ o \in Nat /\ b[i] = o + 2 + d /\ b[i] <= Len(area) /\ Len(area) \in Nat
      /\ d \in Nat /\ ty[i] \in DOMAIN DataLen
  BY <1>2, EntryFacts
<1>4. P \in [1 .. d -> Cells]
  BY <1>3, PaddedValue
<1> HIDE DEF new, d, P, o
<1>5. ASSUME NEW k \in 1 .. b[n]
      PROVE  new[k] = area[k] \/ (new[k] \in Cells /\ \E j \in 1 .. n : k \in b[j - 1] + 3 .. b[j])
  <2>1. CASE k \in o + 3 .. b[i]
    <3>1. k - o - 2 \in 1 .. d
      BY <1>3, <2>1
    <3>2. new[k] \in Cells
      BY <1>1, <1>2, <1>4, <2>1, <3>1
    <3> QED BY <2>1, <3>2 DEF o
  <2>2. CASE k \notin o + 3 .. b[i]
    BY <1>1, <1>2, <2>2
  <2> QED BY <2>1, <2>2
<1>6. Len(area) <= Len(new)
  BY <1>1, <1>3
<1>7. Entries(new, n, b, ty)
  BY <1>1, <1>2, <1>5, <1>6, EntriesKept
<1> QED BY <1>1, <1>2, <1>7 DEF Filling, new

\* Updating an extension replaces its value in the map, and nothing else.
MapReplaces(new, area, t, value) ==
  t \in DOMAIN MapOf(area) /\ MapOf(new) = [MapOf(area) EXCEPT ![t] = value]

LEMMA UpdatedMap ==
  ASSUME NEW area, NEW n \in Nat, NEW b, NEW ty, Filling(area, n, b, ty),
         NEW i \in 1 .. n, NEW v \in Written(ty[i])
  PROVE  MapReplaces(UpdateExtension(area, ty[i], v), area, ty[i], Padded(v, DataLen[ty[i]]))
<1> DEFINE new == UpdateExtension(area, ty[i], v)
           t == ty[i]
           P == Padded(v, DataLen[ty[i]])
<1>1. Filling(new, n, b, ty)
  BY UpdatedEntries
<1>2. /\ DOMAIN MapOf(area) = {ty[j] : j \in 1 .. n}
      /\ \A j \in 1 .. n : MapOf(area)[ty[j]] = ValueAt(area, b[j - 1], DataLen[ty[j]])
  <2>1. ReadsEntries(area, n, b, ty)
    BY MapOfEntries
  <2> QED BY <2>1 DEF ReadsEntries
<1>3. /\ Len(new) = Len(area)
      /\ \A k \in 1 .. Len(area) :
           new[k] = IF k \in b[i - 1] + 3 .. b[i] THEN P[k - b[i - 1] - 2] ELSE area[k]
  <2>1. Replaced(new, area, b[i - 1], b[i], P)
    BY UpdatedCells
  <2> HIDE DEF new, P
  <2> QED BY <2>1 DEF Replaced
<1>4. Area(area) /\ Entries(area, n, b, ty) /\ Len(area) \in Nat
  BY LenProperties DEF Filling, Area
<1> HIDE DEF new
<1>5. /\ DOMAIN MapOf(new) = {ty[j] : j \in 1 .. n}
      /\ \A j \in 1 .. n : MapOf(new)[ty[j]] = ValueAt(new, b[j - 1], DataLen[ty[j]])
  <2>1. ReadsEntries(new, n, b, ty)
    BY <1>1, MapOfEntries
  <2> QED BY <2>1 DEF ReadsEntries
<1>6. MapOf(new)[ty[i]] = P
  <2> DEFINE o == b[i - 1]
             d == DataLen[ty[i]]
  <2>1. o \in Nat /\ d \in Nat /\ b[i] = o + 2 + d /\ b[i] <= Len(area)
    BY <1>4, EntryFacts
  <2>2. P = [j \in 1 .. d |-> P[j]]
    BY DEF Padded
  <2> HIDE DEF P, o, d
  <2>3. ASSUME NEW j \in 1 .. d
        PROVE  new[o + 2 + j] = P[j]
    <3>1. o + 2 + j \in 1 .. Len(area) /\ o + 2 + j \in o + 3 .. b[i] /\ (o + 2 + j) - o - 2 = j
      BY <1>4, <2>1
    <3> QED BY <1>3, <3>1 DEF o
  <2>4. ValueAt(new, o, d) = P
    BY <2>2, <2>3 DEF ValueAt
  <2> QED BY <1>5, <2>4 DEF o, d
<1>7. ASSUME NEW j \in 1 .. n, j # i
      PROVE  MapOf(new)[ty[j]] = MapOf(area)[ty[j]]
  <2> DEFINE o == b[j - 1]
             d == DataLen[ty[j]]
             p == b[i - 1]
             q == b[i]
  <2>1. o \in Nat /\ d \in Nat /\ b[j] = o + 2 + d /\ b[j] <= Len(area)
    BY <1>4, EntryFacts
  <2>2. p \in Nat /\ q \in Nat
    BY <1>4, EntryFacts
  <2>3. b[j] <= p \/ q <= o
    <3>1. CASE j < i
      <4>1. j \in 0 .. n /\ (i - 1) - j \in Nat /\ j + ((i - 1) - j) = i - 1 /\ i - 1 <= n
        BY <3>1
      <4> QED BY <1>4, <4>1, EntryOrder
    <3>2. CASE i < j
      <4>1. i \in 0 .. n /\ (j - 1) - i \in Nat /\ i + ((j - 1) - i) = j - 1 /\ j - 1 <= n
        BY <3>2
      <4> QED BY <1>4, <4>1, EntryOrder
    <3> QED BY <1>7, <3>1, <3>2
  <2>4. \A k \in 1 .. Len(area) : k \notin p + 3 .. q => new[k] = area[k]
    BY <1>3
  <2> HIDE DEF o, d, p, q
  <2>5. \A k \in o + 3 .. o + 2 + d : k \in 1 .. Len(area) /\ k \notin p + 3 .. q
    BY <1>4, <2>1, <2>2, <2>3
  <2>6. ValueAt(new, o, d) = ValueAt(area, o, d)
    BY <2>1, <2>4, <2>5, ValueAtKept
  <2>7. MapOf(new)[ty[j]] = ValueAt(new, o, d) /\ MapOf(area)[ty[j]] = ValueAt(area, o, d)
    BY <1>2, <1>5 DEF o, d
  <2> QED BY <2>6, <2>7
<1>8. \A j \in 1 .. n : ty[j] = ty[i] => j = i
  BY <1>4 DEF Entries
<1>9. ASSUME NEW u \in DOMAIN MapOf(area)
      PROVE  MapOf(new)[u] = IF u = t THEN P ELSE MapOf(area)[u]
  <2>1. PICK j \in 1 .. n : u = ty[j]
    BY <1>2
  <2> HIDE DEF P
  <2> QED BY <1>6, <1>7, <2>1
<1>10. MapOf(new) = [u \in DOMAIN MapOf(new) |-> MapOf(new)[u]]
       /\ MapOf(area) = [u \in DOMAIN MapOf(area) |-> MapOf(area)[u]]
  BY DEF MapOf
<1>11. ty[i] \in DOMAIN MapOf(area) /\ DOMAIN MapOf(new) = DOMAIN MapOf(area)
  BY <1>2, <1>5
<1> HIDE DEF P
<1>12. MapOf(new) = [MapOf(area) EXCEPT ![ty[i]] = P]
  BY <1>9, <1>10, <1>11
<1> QED BY <1>11, <1>12 DEF new, P, MapReplaces

\* The invariant: the vault's area is filled by entries of different types.
VaultLaidOut == \E n \in Nat : \E b, ty : Filling(vault_area, n, b, ty)

LEMMA EmptyArea ==
  ASSUME NEW area, area = << >>
  PROVE  \E b, ty : Filling(area, 0, b, ty)
<1> DEFINE b == [k \in 0 .. 0 |-> 0]
           ty == [k \in 1 .. 0 |-> 0]
<1>1. Area(area) /\ Len(area) = 0
  BY EmptySeq DEF Area
<1>2. Entries(area, 0, b, ty)
  BY <1>1 DEF Entries
<1>3. b[0] = Len(area)
  BY <1>1
<1> HIDE DEF b, ty
<1> QED BY <1>1, <1>2, <1>3 DEF Filling

\* The types of an area that InitVaultExtension accepts a new one for.
LEMMA NewType ==
  ASSUME NEW area, NEW n \in Nat, NEW b, NEW ty, Filling(area, n, b, ty),
         NEW t \in DOMAIN DataLen, NEW v \in Written(t), ~HasExtension(Grown(area, t), t)
  PROVE  \A i \in 1 .. n : ty[i] # t
<1> SUFFICES ASSUME NEW i \in 1 .. n, ty[i] = t
             PROVE  FALSE
  OBVIOUS
<1>1. Area(Grown(area, t)) /\ Entries(Grown(area, t), n, b, ty)
  BY WrittenCells, GrownEntries DEF Filling
<1>2. Find(Grown(area, t), ty[i]) = b[i - 1]
  BY <1>1, FindEntry
<1>3. b[i - 1] \in Nat
  BY <1>1, EntryFacts
<1>4. Find(Grown(area, t), t) \in Nat
  BY <1>2, <1>3
<1> QED BY <1>4 DEF HasExtension, NotFound

\* What the two instructions that write to the vault's area do to it.
LEMMA InitSteps ==
  ASSUME VaultLaidOut, NEW t \in DOMAIN DataLen, NEW v \in Written(t), InitVaultExtension(t, v)
  PROVE  /\ VaultLaidOut'
         /\ t \notin DOMAIN MapOf(vault_area)
         /\ MapOf(vault_area')
              = [u \in DOMAIN MapOf(vault_area) \cup {t} |->
                   IF u = t THEN Padded(v, DataLen[t]) ELSE MapOf(vault_area)[u]]
<1>1. PICK n \in Nat : \E b, ty : Filling(vault_area, n, b, ty)
  BY DEF VaultLaidOut
<1>2. PICK b, ty : Filling(vault_area, n, b, ty)
  BY <1>1
<1>3. ~HasExtension(Grown(vault_area, t), t)
  BY DEF InitVaultExtension, Grown
<1>4. TlvUsedLen(Grown(vault_area, t)) = Len(vault_area)
  BY <1>2, GrownEntries
<1>5. vault_area' = Extended(vault_area, t, v)
  <2>1. vault_area' = WriteExtension(Grown(vault_area, t), TlvUsedLen(Grown(vault_area, t)),
                                     t, DataLen[t], v)
    BY Zenon DEF InitVaultExtension, Grown
  <2> QED BY <1>4, <2>1 DEF Extended
<1>6. \A i \in 1 .. n : ty[i] # t
  BY <1>2, <1>3, NewType
<1>7. \E B, T : Filling(Extended(vault_area, t, v), n + 1, B, T)
  BY <1>2, <1>6, ExtendedEntries
<1>8. VaultLaidOut'
  <2>1. n + 1 \in Nat
    OBVIOUS
  <2>2. \E m \in Nat : \E B, T : Filling(vault_area', m, B, T)
    BY <1>5, <1>7, <2>1
  <2> QED BY <2>2 DEF VaultLaidOut
<1>9. /\ t \notin DOMAIN MapOf(vault_area)
      /\ MapOf(Extended(vault_area, t, v))
           = [u \in DOMAIN MapOf(vault_area) \cup {t} |->
                IF u = t THEN Padded(v, DataLen[t]) ELSE MapOf(vault_area)[u]]
  BY <1>2, <1>6, ExtendedMap
<1> QED BY <1>5, <1>8, <1>9

LEMMA UpdateSteps ==
  ASSUME VaultLaidOut, NEW t \in DOMAIN DataLen, NEW v \in Written(t), UpdateVaultExtension(t, v)
  PROVE  /\ VaultLaidOut'
         /\ t \in DOMAIN MapOf(vault_area)
         /\ MapOf(vault_area') = [MapOf(vault_area) EXCEPT ![t] = Padded(v, DataLen[t])]
<1>1. PICK n \in Nat : \E b, ty : Filling(vault_area, n, b, ty)
  BY DEF VaultLaidOut
<1>2. PICK b, ty : Filling(vault_area, n, b, ty)
  BY <1>1
<1>3. PICK i \in 1 .. n : ty[i] = t
  <2>1. HasExtension(vault_area, t)
    BY DEF UpdateVaultExtension
  <2> QED BY <1>2, <2>1, FindNone DEF Filling, HasExtension, NotFound
<1>4. vault_area' = UpdateExtension(vault_area, t, v)
  BY DEF UpdateVaultExtension
<1>5. Filling(UpdateExtension(vault_area, ty[i], v), n, b, ty)
  BY <1>2, <1>3, UpdatedEntries
<1>6. VaultLaidOut'
  <2>1. \E m \in Nat : \E B, T : Filling(vault_area', m, B, T)
    BY <1>3, <1>4, <1>5
  <2> QED BY <2>1 DEF VaultLaidOut
<1>7. MapReplaces(UpdateExtension(vault_area, ty[i], v), vault_area, ty[i],
                  Padded(v, DataLen[ty[i]]))
  BY <1>2, <1>3, UpdatedMap
<1> QED BY <1>3, <1>4, <1>6, <1>7 DEF MapReplaces

LEMMA VaultStep ==
  ASSUME VaultLaidOut, [TlvNext]_tlvVars
  PROVE  VaultLaidOut'
<1>1. CASE UNCHANGED vault_area
  <2>1. \E n \in Nat : \E b, ty : Filling(vault_area', n, b, ty)
    BY <1>1 DEF VaultLaidOut
  <2> QED BY <2>1 DEF VaultLaidOut
<1>2. ASSUME NEW t \in DOMAIN DataLen, NEW v \in Written(t),
             InitVaultExtension(t, v) \/ UpdateVaultExtension(t, v)
      PROVE  VaultLaidOut'
  BY <1>2, InitSteps, UpdateSteps
<1>3. InitializeVault \/ CloseRequest \/ UNCHANGED tlvVars => UNCHANGED vault_area
  BY DEF InitializeVault, CloseRequest, tlvVars
<1>4. ASSUME NEW t, NEW id, CreateRequest(t, id)
      PROVE  UNCHANGED vault_area
  BY <1>4 DEF CreateRequest
<1> QED BY <1>1, <1>2, <1>3, <1>4 DEF TlvNext

\* The walked area implements the map of extensions: every step of the program adds one
\* extension or replaces the whole value of one, all others read as before, and an
\* updated value reads back with zeros behind it; for every set of extensions, their
\* lengths and whatever bytes they hold (init_vault_extension, update_extension,
\* get_extension_bytes_raw).
THEOREM AreaRefinesMap == TlvSpec => AreaIsAMap
<1>1. TlvInit => VaultLaidOut
  BY EmptyArea DEF TlvInit, VaultLaidOut
<1>2. VaultLaidOut /\ [TlvNext]_tlvVars => VaultLaidOut'
  BY VaultStep
<1>3. Decoded = MapOf(vault_area) /\ Decoded' = MapOf(vault_area')
  BY DEF Decoded, MapOf
<1>4. TlvInit => Extensions!MapInit
  <2> SUFFICES ASSUME TlvInit
               PROVE  Decoded = << >> /\ initialized = FALSE
    BY DEF Extensions!MapInit
  <2>1. PICK b, ty : Filling(vault_area, 0, b, ty)
    BY EmptyArea DEF TlvInit
  <2>2. ReadsEntries(vault_area, 0, b, ty)
    BY <2>1, MapOfEntries
  <2>3. DOMAIN MapOf(vault_area) = {}
    BY <2>2 DEF ReadsEntries
  <2>4. MapOf(vault_area) = [u \in DOMAIN MapOf(vault_area) |-> MapOf(vault_area)[u]]
    BY DEF MapOf
  <2>5. MapOf(vault_area) = << >>
    BY <2>3, <2>4
  <2> QED BY <1>3, <2>5 DEF TlvInit
<1>5. VaultLaidOut /\ [TlvNext]_tlvVars => [Extensions!MapNext]_<<Decoded, initialized>>
  <2> SUFFICES ASSUME VaultLaidOut, [TlvNext]_tlvVars
               PROVE  [Extensions!MapNext]_<<Decoded, initialized>>
    OBVIOUS
  <2>1. CASE UNCHANGED <<vault_area, initialized>>
    BY <1>3, <2>1
  <2>2. CASE InitializeVault
    BY <1>3, <2>2 DEF InitializeVault, Extensions!MapNext, Extensions!Initialize
  <2>3. ASSUME NEW t \in DOMAIN DataLen, NEW v \in Written(t),
               InitVaultExtension(t, v) \/ UpdateVaultExtension(t, v)
        PROVE  Extensions!MapNext
    <3> DEFINE Values == [u \in DOMAIN DataLen |-> [1 .. DataLen[u] -> Cells]]
               P == Padded(v, DataLen[t])
    <3>1. t \in DOMAIN Values /\ P \in Values[t]
      BY PaddedValue
    <3>2. CASE InitVaultExtension(t, v)
      <4>1. /\ t \notin DOMAIN Decoded
            /\ Decoded' = [u \in DOMAIN Decoded \cup {t} |-> IF u = t THEN P ELSE Decoded[u]]
        BY <1>3, <3>2, InitSteps
      <4>2. ~initialized /\ UNCHANGED initialized
        BY <3>2 DEF InitVaultExtension
      <4>3. Extensions!Add(t, P)
        BY <4>1, <4>2 DEF Extensions!Add
      <4> QED BY <3>1, <4>3 DEF Extensions!MapNext
    <3>3. CASE UpdateVaultExtension(t, v)
      <4>1. t \in DOMAIN Decoded /\ Decoded' = [Decoded EXCEPT ![t] = P]
        BY <1>3, <3>3, UpdateSteps
      <4>2. UNCHANGED initialized
        BY <3>3 DEF UpdateVaultExtension
      <4>3. Extensions!Replace(t, P)
        BY <4>1, <4>2 DEF Extensions!Replace
      <4> QED BY <3>1, <4>3 DEF Extensions!MapNext
    <3> QED BY <2>3, <3>2, <3>3
  <2>4. ASSUME NEW t, NEW id, CreateRequest(t, id)
        PROVE  UNCHANGED <<vault_area, initialized>>
    BY <2>4 DEF CreateRequest
  <2>5. CloseRequest \/ UNCHANGED tlvVars => UNCHANGED <<vault_area, initialized>>
    BY DEF CloseRequest, tlvVars
  <2> QED BY <2>1, <2>2, <2>3, <2>4, <2>5 DEF TlvNext
<1>6. VaultLaidOut /\ [TlvNext]_tlvVars =>
        [\A t \in DOMAIN DataLen : \A v \in Written(t) :
           UpdateVaultExtension(t, v) => Decoded'[t] = Padded(v, DataLen[t])]_tlvVars
  <2> SUFFICES ASSUME VaultLaidOut, NEW t \in DOMAIN DataLen, NEW v \in Written(t),
                      UpdateVaultExtension(t, v)
               PROVE  Decoded'[t] = Padded(v, DataLen[t])
    OBVIOUS
  <2>1. t \in DOMAIN Decoded /\ Decoded' = [Decoded EXCEPT ![t] = Padded(v, DataLen[t])]
    BY <1>3, UpdateSteps
  <2> QED BY <2>1
<1> QED BY <1>1, <1>2, <1>4, <1>5, <1>6, PTL DEF TlvSpec, AreaIsAMap, Extensions!MapSpec
===============================================================================
