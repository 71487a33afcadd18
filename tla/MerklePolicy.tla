---------------------------- MODULE MerklePolicy ----------------------------
(***************************************************************************)
(* What a strategy policy's Merkle root commits to.  The curator's client  *)
(* hashes the calls it allows, builds a tree and publishes the root; the   *)
(* strategist presents a call with a proof; the program recomputes the     *)
(* leaf from the call it is about to make and folds the proof.  The two    *)
(* sides are separate implementations of the same hash.                    *)
(*                                                                         *)
(* Hashes are free terms: two are equal only when they were computed from  *)
(* the same input, under the same domain.  A call's data is a sequence of  *)
(* cells of which the first DiscLen are the discriminator; an amount       *)
(* occupies AmountLen cells.                                               *)
(***************************************************************************)
EXTENDS Integers, Sequences, SequencesExt, FiniteSetsExt

CONSTANTS
  Vault,                  \* the vault's address
  DiscLen, AmountLen,     \* 8 bytes each in the code
  Calls,                  \* calls that may be presented, or allowed
  Operators,              \* operator lists a policy may use
  MAX_MANAGE_IX_DATA_LEN, MAX_MANAGE_CPI_ACCOUNTS, MAX_POLICY_OPERATORS,
  MAX_POLICY_INGESTED_INSTRUCTION_BYTES,
  MAX_POLICY_LEAVES, MAX_MERKLE_PROOF_DEPTH

-----------------------------------------------------------------------------
(* Leaves *)

PolicyOperator ==
  [tag : {"IngestInstruction"}, offset : Nat, length : Nat]
    \cup [tag : {"IngestAccount"}, index : Nat]
    \cup [tag : {"ManagerLimitAmount"}, offset : Nat]

\* 1 << depth
Capacity[depth \in Nat] == IF depth = 0 THEN 1 ELSE 2 * Capacity[depth - 1]

ASSUME MerkleAssumption ==
  /\ {DiscLen, AmountLen, MAX_MERKLE_PROOF_DEPTH, MAX_POLICY_LEAVES} \subseteq Nat
  /\ MAX_POLICY_LEAVES <= Capacity[MAX_MERKLE_PROOF_DEPTH]
  /\ Operators \subseteq Seq(PolicyOperator)
  /\ \A call \in Calls :
       call.data \in Seq(Range(call.data)) /\ call.accounts \in Seq(Range(call.accounts))

IngestInstruction(offset, length) ==
  [tag |-> "IngestInstruction", offset |-> offset, length |-> length]
IngestAccount(index) == [tag |-> "IngestAccount", index |-> index]
ManagerLimitAmount(offset) == [tag |-> "ManagerLimitAmount", offset |-> offset]

\* Cells at offset .. offset + length - 1, counted from 0.
Range0(data, offset, length) == SubSeq(data, offset + 1, offset + length)

WithTag(ops, tag) == {i \in DOMAIN ops : ops[i].tag = tag}

\* The vault signs the call and is read-only in it, whatever the transaction says.
NormalizeAccounts(accounts) ==
  [i \in DOMAIN accounts |->
     [key |-> accounts[i].key,
      is_signer |-> accounts[i].is_signer \/ accounts[i].key = Vault,
      is_writable |-> accounts[i].is_writable /\ accounts[i].key # Vault]]

\* The checks of hash_strategy_leaf, which the client's copy repeats.
OperatorInBounds(call, op) ==
  CASE op.tag = "IngestInstruction"  -> op.length > 0 /\ op.offset + op.length <= Len(call.data)
    [] op.tag = "IngestAccount"      -> op.index < Len(call.accounts)
    [] op.tag = "ManagerLimitAmount" -> op.offset + AmountLen <= Len(call.data)

Hashable(call, ops) ==
  /\ Len(call.data) \in DiscLen .. MAX_MANAGE_IX_DATA_LEN
  /\ Len(call.accounts) <= MAX_MANAGE_CPI_ACCOUNTS
  /\ Len(ops) <= MAX_POLICY_OPERATORS
  /\ \A i \in DOMAIN ops : OperatorInBounds(call, ops[i])
  /\ MapThenSumSet(LAMBDA i : ops[i].length, WithTag(ops, "IngestInstruction"))
       <= MAX_POLICY_INGESTED_INSTRUCTION_BYTES
  /\ \A i, j \in WithTag(ops, "ManagerLimitAmount") : i = j

\* What an operator adds to the leaf besides its tag and operands: a dynamic amount
\* adds nothing.
Extracted(call, op) ==
  CASE op.tag = "IngestInstruction"  -> Range0(call.data, op.offset, op.length)
    [] op.tag = "IngestAccount"      -> <<NormalizeAccounts(call.accounts)[op.index + 1]>>
    [] op.tag = "ManagerLimitAmount" -> << >>

\* hash_strategy_leaf
HashStrategyLeaf(call, ops) ==
  <<"leaf",
    [vault |-> Vault, strategist |-> call.strategist, version |-> call.policy_version,
     target_program |-> call.target_program,
     discriminator |-> Range0(call.data, 0, DiscLen),
     data_len |-> Len(call.data), account_count |-> Len(call.accounts),
     operators |-> [i \in DOMAIN ops |-> <<ops[i], Extracted(call, ops[i])>>]]>>

\* hash_strategy_policy_leaf, over accounts that normalize_policy_accounts prepared.
HashStrategyPolicyLeaf(call, ops) ==
  LET accounts == NormalizeAccounts(call.accounts)
      Committed(op) ==
        CASE op.tag = "IngestInstruction"  -> SubSeq(call.data, op.offset + 1, op.offset + op.length)
          [] op.tag = "IngestAccount"      -> <<accounts[op.index + 1]>>
          [] op.tag = "ManagerLimitAmount" -> << >>
  IN <<"leaf",
       [vault |-> Vault, strategist |-> call.strategist, version |-> call.policy_version,
        target_program |-> call.target_program,
        discriminator |-> SubSeq(call.data, 1, DiscLen),
        data_len |-> Len(call.data), account_count |-> Len(accounts),
        operators |-> [i \in DOMAIN ops |-> <<ops[i], Committed(ops[i])>>]]>>

-----------------------------------------------------------------------------
(* Trees and proofs *)

\* hash_strategy_node sorts the pair; the mutant keeps it in the order it is given.
HashOrderedNode(left, right) == <<"node", <<left, right>>>>

HashStrategyNode(left, right) == <<"node", {left, right}>>

\* The fold of a leaf with the nodes of a proof.
Computed(leaf, proof) ==
  LET after[k \in 0 .. Len(proof)] ==
        IF k = 0 THEN leaf ELSE HashStrategyNode(after[k - 1], proof[k])
  IN  after[Len(proof)]

\* verify_strategy_proof, and the mutant whose fold starts from the proof's first
\* node instead of the leaf.
ProofAcceptedFromSibling(leaf, proof, root) ==
  /\ Len(proof) <= MAX_MERKLE_PROOF_DEPTH
  /\ root = IF proof = << >> THEN leaf ELSE Computed(Head(proof), Tail(proof))

ProofAccepted(leaf, proof, root) ==
  /\ Len(proof) <= MAX_MERKLE_PROOF_DEPTH
  /\ Computed(leaf, proof) = root

\* One round of build_strategy_policy_merkle_tree: an odd last node is paired with
\* itself.
NextLevel(level) ==
  [i \in 1 .. (Len(level) + 1) \div 2 |->
     HashStrategyNode(level[2 * i - 1],
                      IF 2 * i <= Len(level) THEN level[2 * i] ELSE level[2 * i - 1])]

\* strategy_policy_proof for the leaf at a position counted from 0: the sibling of
\* its ancestor on every level but the last.
Sibling(level, index) ==
  IF index % 2 = 0
    THEN IF index + 2 <= Len(level) THEN level[index + 2] ELSE level[index + 1]
    ELSE level[index]

StrategyPolicyProof(tree, index) ==
  LET at[k \in 1 .. Len(tree)] == IF k = 1 THEN index ELSE at[k - 1] \div 2
  IN  [k \in 1 .. Len(tree) - 1 |-> Sibling(tree[k], at[k])]

-----------------------------------------------------------------------------
(* The curator's client builds a tree, level by level *)

VARIABLES
  policy,     \* the <<call, operators>> the curator allows, in the order of their hashes
  levels      \* StrategyPolicyMerkleTree.levels so far

merkleVars == <<policy, levels>>

Presentable == {c \in Calls \X Operators : Hashable(c[1], c[2])}

\* At most MAX_POLICY_LEAVES leaves, sorted by a hash that says nothing about them:
\* every order is possible.
LeavesOf(allowed) ==
  [i \in DOMAIN allowed |-> HashStrategyPolicyLeaf(allowed[i][1], allowed[i][2])]

MerkleInit ==
  /\ policy \in UNION {[1 .. n -> Presentable] : n \in 1 .. MAX_POLICY_LEAVES}
  /\ levels = <<LeavesOf(policy)>>

BuildLevel ==
  /\ Len(Last(levels)) > 1
  /\ levels' = Append(levels, NextLevel(Last(levels)))
  /\ UNCHANGED policy

MerkleNext == BuildLevel

MerkleSpec == MerkleInit /\ [][MerkleNext]_merkleVars

-----------------------------------------------------------------------------
(* Properties *)

Built == Len(Last(levels)) = 1
Root == Last(levels)[1]

\* Every call the curator allowed can be made: the proof the client computes for its
\* leaf is short enough and is accepted by the program, for trees of every size the
\* client accepts (build_strategy_policy_merkle_tree, verify_strategy_proof).
AllowedCallsProvable ==
  Built =>
    \A i \in DOMAIN policy :
      ProofAccepted(HashStrategyLeaf(policy[i][1], policy[i][2]),
                    StrategyPolicyProof(levels, i - 1), Root)

\* A call the program accepts is one the curator allowed, up to the cells the policy
\* left open: same strategist and policy version, target, discriminator, sizes and
\* operators, and the same value of everything the operators ingest, with the
\* privileges the venue really receives; whatever proof is presented, made of any
\* nodes of the tree (hash_strategy_leaf, verify_strategy_proof).
Covers(allowed, presented) ==
  LET c == allowed[1]  d == presented[1]  ops == allowed[2]
  IN /\ presented[2] = ops
     /\ <<c.strategist, c.policy_version, c.target_program>>
          = <<d.strategist, d.policy_version, d.target_program>>
     /\ Len(c.data) = Len(d.data) /\ Len(c.accounts) = Len(d.accounts)
     /\ \A k \in DOMAIN c.data :
          \/ c.data[k] = d.data[k]
          \/ /\ k > DiscLen
             /\ \A i \in WithTag(ops, "IngestInstruction") :
                  k \notin ops[i].offset + 1 .. ops[i].offset + ops[i].length
     /\ \A i \in WithTag(ops, "IngestAccount") :
          NormalizeAccounts(c.accounts)[ops[i].index + 1]
            = NormalizeAccounts(d.accounts)[ops[i].index + 1]

Nodes == UNION {Range(levels[k]) : k \in DOMAIN levels}
Proofs == UNION {[1 .. n -> Nodes] : n \in 0 .. MAX_MERKLE_PROOF_DEPTH}

OnlyAllowedCalls ==
  Built =>
    \A presented \in Presentable :
      (\E proof \in Proofs :
         ProofAccepted(HashStrategyLeaf(presented[1], presented[2]), proof, Root))
        => \E i \in DOMAIN policy : Covers(policy[i], presented)
=============================================================================
