---------------------------- MODULE LedgerProofs ----------------------------
(***************************************************************************)
(* Proofs about what the blocks of Blockchain do to proposals and to the   *)
(* unspent outputs.                                                        *)
(***************************************************************************)
EXTENDS Blockchain, SumTheorems

-----------------------------------------------------------------------------
(* Governance.                                                             *)

\* Each transaction that add_block processes is one of the block.
LEMMA OrderElements ==
  ASSUME NEW b \in Blocks
  PROVE  /\ Order(b) \in Seq(Range(b.txs))
         /\ \A i \in DOMAIN Order(b) : \E j \in DOMAIN b.txs : Order(b)[i] = b.txs[j]
<1>1. PICK s, T, t : s = b.txs /\ T = Range(b.txs) /\ t = Order(b)
  BY Zenon
<1>2. s \in Seq(T) /\ s # <<>>
  BY <1>1, BlocksAssumption, Zenon
<1>3. \A i \in DOMAIN s : s[i].fee \in Nat
  BY <1>1, TxsAssumption, Zenon
<1>4. t = <<Head(s)>> \o SortByFee(s, 2 .. Len(s))
  BY <1>1, Zenon DEF Order
<1>5. t \in Seq(T)
  BY <1>2, <1>3, <1>4, SortedRest, Zenon
<1>6. Among(t, s)
  BY <1>2, <1>3, <1>4, SortedRest, Zenon
<1>. QED
  BY <1>1, <1>5, <1>6, Zenon DEF Among

\* New votes leave the rest of a proposal as it was.
LEMMA WithVotesFields ==
  ASSUME NEW p, NEW votes
  PROVE  WithVotes(p, votes).votes = votes /\ WithVotes(p, votes).end = p.end
  BY Zenon DEF WithVotes

\* The end of every active proposal is a height.
EndsTyped == \A id \in DOMAIN proposals : proposals[id].end \in Nat

\* A proposal that is evaluated at all is past its end, where
\* evaluate_proposal_at_height answers Expired before it counts a vote.
LEMMA NothingPasses ==
  ASSUME EndsTyped, NEW h \in Nat, NEW id \in Due(h), NEW pool, NEW mns
  PROVE  Outcome(id, h, pool, mns) # "Passed"
  BY ParamsAssumption DEF EndsTyped, Due, Outcome, EvaluateProposal

\* evaluate_and_apply_governance leaves the parameters and adds no proposal.
LEMMA EvaluateKeepsParams ==
  ASSUME EndsTyped, ParamsFrozen, NEW h \in Nat, NEW pool, NEW mns,
         EvaluateAndApplyGovernance(h, pool, mns)
  PROVE  ParamsFrozen' /\ EndsTyped'
<1>1. {id \in Due(h) : Outcome(id, h, pool, mns) = "Passed"} = {}
  BY NothingPasses, Zenon
<1>2. params' = [p \in DOMAIN params |-> params[p]]
  BY <1>1, Zenon DEF EvaluateAndApplyGovernance
<1>3. EndsTyped'
  BY Zenon DEF EvaluateAndApplyGovernance, EndsTyped, Restrict
<1>. QED
  BY <1>2, <1>3, ParamsAssumption, Zenon DEF ParamsFrozen

\* The proposals and votes of a block keep the ends of the proposals heights.
LEMMA ApplyGovernanceEnds ==
  ASSUME EndsTyped, NEW b \in Blocks, proposals' = ApplyGovernance(Order(b))
  PROVE  EndsTyped'
<1>. DEFINE s == Order(b)
            done == {s[i] : i \in {j \in GovernanceDone(s) : s[j].kind = "proposal"}}
<1>1. \A t \in done : t.end \in Nat
  <2>1. GovernanceDone(s) \subseteq DOMAIN s
    BY Zenon DEF GovernanceDone
  <2>. HIDE DEF s
  <2>. SUFFICES ASSUME NEW i \in DOMAIN s, s[i].kind = "proposal" PROVE s[i].end \in Nat
    BY <2>1, Zenon
  <2>2. PICK j \in DOMAIN b.txs : s[i] = b.txs[j]
    BY OrderElements, Zenon DEF s
  <2>. QED
    BY <2>2, TxsAssumption, Zenon
<1>. SUFFICES ASSUME NEW id \in DOMAIN proposals' PROVE proposals'[id].end \in Nat
  BY Zenon DEF EndsTyped
<1>2. CASE id \in DOMAIN proposals
  BY <1>2, Zenon DEF ApplyGovernance, EndsTyped, WithVotes
<1>3. CASE id \notin DOMAIN proposals
  <2>1. \E t \in done : t.prop = id
    BY <1>3, Zenon DEF ApplyGovernance
  <2>2. proposals'[id] = WithVotes(CHOOSE t \in done : t.prop = id, EmptyMap)
    BY <1>3, <2>1, Zenon DEF ApplyGovernance
  <2>. HIDE DEF done
  <2>3. (CHOOSE t \in done : t.prop = id) \in done
    BY <2>1, Zenon
  <2>. QED
    BY <1>1, <2>2, <2>3, WithVotesFields
<1>. QED
  BY <1>2, <1>3, Zenon

\* No proposal ever changes a parameter, whatever its votes and whatever blocks
\* are offered: evaluate_and_apply_governance looks at a proposal only once
\* its activation delay has run out after its end.
THEOREM ParamsNeverChange == Spec => []ParamsFrozen
<1>1. Init => ParamsFrozen /\ EndsTyped
  BY Zenon DEF Init, ParamsFrozen, EndsTyped, EmptyMap
<1>2. ParamsFrozen /\ EndsTyped /\ [Next]_vars => ParamsFrozen' /\ EndsTyped'
  <2>. SUFFICES ASSUME ParamsFrozen, EndsTyped, [Next]_vars PROVE ParamsFrozen' /\ EndsTyped'
    BY Zenon
  <2>1. ASSUME UNCHANGED <<params, proposals>> PROVE ParamsFrozen' /\ EndsTyped'
    BY <2>1, Zenon DEF ParamsFrozen, EndsTyped
  <2>2. ASSUME NEW b \in Blocks, ProcessBlock(b) PROVE ParamsFrozen' /\ EndsTyped'
    <3>1. CASE ProcessBlockOk(b)
      <4>1. b.height \in Nat
        BY BlocksAssumption, UtxoAssumption
      <4>2. EvaluateAndApplyGovernance(b.height, tickets', masternodes')
        BY <3>1, Zenon DEF ProcessBlockOk
      <4>. QED
        BY <4>1, <4>2, EvaluateKeepsParams, Zenon
    <3>. QED
      BY <2>1, <2>2, <3>1, Zenon DEF ProcessBlock, ProcessBlockRegisterError, ProcessBlockTicketError
  <2>3. ASSUME NEW b \in Blocks, AddBlock(b) PROVE ParamsFrozen' /\ EndsTyped'
    <3>1. proposals' = ApplyGovernance(Order(b)) /\ params' = params
      BY <2>3, Zenon DEF AddBlock, AddBlockRefused, AddBlockRegisterError, AddBlockRootError, AddBlockOk,
         AddBlockApply, AddBlockStore
    <3>. QED
      BY <3>1, ApplyGovernanceEnds, Zenon DEF ParamsFrozen
  <2>4. ASSUME NEW b, RevertBlock(b) PROVE ParamsFrozen' /\ EndsTyped'
    <3>1. proposals' = UndoGovernance(b, UndoStop(b)) /\ params' = params
      BY <2>4, Zenon DEF RevertBlock, RevertBlockError, RevertBlockOk, RevertCommon
    <3>. QED
      BY <3>1, Zenon DEF UndoGovernance, EndsTyped, ParamsFrozen, WithVotes
  <2>5. CASE Other \/ UNCHANGED vars
    BY <2>1, <2>5, Zenon DEF Other, SaveToDisk, AddTransaction, ValidateAndAddTransaction,
       UpdateMasternodeStatus, vars
  <2>. QED
    BY <2>2, <2>3, <2>4, <2>5 DEF Next
<1>. QED
  BY <1>1, <1>2, PTL DEF Spec

\* While no block is reverted, a recorded vote is neither changed nor lost
\* before its proposal is dropped: AcceptsVote, which stands for
\* process_governance_vote, lets no voter vote twice, not even within a block.
THEOREM VotesAreKept == ForwardSpec => VotesStick
<1>. DEFINE Kept1 == \A id \in DOMAIN proposals \cap DOMAIN proposals' :
                       \A v \in DOMAIN proposals[id].votes :
                         /\ v \in DOMAIN proposals'[id].votes
                         /\ proposals'[id].votes[v] = proposals[id].votes[v]
<1>1. ASSUME [ForwardNext]_vars PROVE [Kept1]_vars
  <2>1. CASE proposals' = proposals
    BY <2>1, Zenon
  <2>2. ASSUME NEW b \in Blocks, ProcessBlock(b) PROVE Kept1
    BY <2>2, <2>1, Zenon DEF ProcessBlock, ProcessBlockRegisterError, ProcessBlockTicketError,
       ProcessBlockOk, EvaluateAndApplyGovernance, Restrict
  <2>3. ASSUME NEW b \in Blocks, AddBlock(b) PROVE Kept1
    <3>1. proposals' = ApplyGovernance(Order(b))
      BY <2>3, Zenon DEF AddBlock, AddBlockRefused, AddBlockRegisterError, AddBlockRootError, AddBlockOk,
         AddBlockApply, AddBlockStore
    <3>. SUFFICES ASSUME NEW id \in DOMAIN proposals, NEW v \in DOMAIN proposals[id].votes
                  PROVE  /\ v \in DOMAIN proposals'[id].votes
                         /\ proposals'[id].votes[v] = proposals[id].votes[v]
      BY Zenon
    <3>2. \A i \in GovernanceDone(Order(b)) :
            (Order(b)[i].kind = "vote" /\ Order(b)[i].prop = id) => Order(b)[i].voter # v
      BY Zenon DEF GovernanceDone, AcceptsGovernance, AcceptsVote, CanRecordVote
    <3>. DEFINE done(kind) == {Order(b)[i] : i \in {j \in GovernanceDone(Order(b)) :
                                                      Order(b)[j].kind = kind}}
                voters == {t.voter : t \in {u \in done("vote") : u.prop = id}}
                votes == [w \in DOMAIN proposals[id].votes \cup voters |->
                            IF w \in voters
                            THEN LET t == CHOOSE u \in done("vote") : u.prop = id /\ u.voter = w
                                 IN  [type |-> t.vtype, choice |-> t.choice]
                            ELSE proposals[id].votes[w]]
    <3>3. proposals'[id] = WithVotes(proposals[id], votes)
      BY <3>1, Zenon DEF ApplyGovernance
    <3>4. v \notin voters
      BY <3>2, Zenon
    <3>5. v \in DOMAIN votes /\ votes[v] = proposals[id].votes[v]
      <4>. HIDE DEF voters
      <4>. QED
        BY <3>4, Zenon
    <3>. HIDE DEF votes
    <3>. QED
      BY <3>3, <3>5, WithVotesFields
  <2>4. CASE Other \/ UNCHANGED vars
    BY <2>1, <2>4, Zenon DEF Other, SaveToDisk, AddTransaction, ValidateAndAddTransaction,
       UpdateMasternodeStatus, vars
  <2>. QED
    BY <1>1, <2>2, <2>3, <2>4, Zenon DEF ForwardNext
<1>. QED
  BY <1>1, PTL DEF ForwardSpec, VotesStick

-----------------------------------------------------------------------------
(* The value of the unspent outputs.                                       *)

\* A block whose transactions can be walked through.
Formed(b) ==
  /\ b.txs \in Seq(Range(b.txs))
  /\ \A i \in DOMAIN b.txs : /\ b.txs[i].ins \in Seq(Range(b.txs[i].ins))
                             /\ b.txs[i].outs \in Seq(Nat)

\* A UTXO set whose values can be summed.
Countable(u) == IsFiniteSet(DOMAIN u) /\ \A op \in DOMAIN u : u[op].value \in Nat

LEMMA OfferedFormed ==
  ASSUME NEW b \in Blocks
  PROVE  Formed(b)
  BY BlocksAssumption, TxsAssumption, Zenon DEF Formed

\* A transaction spends and creates finitely many outputs, and so does a block.
LEMMA TxSetsFinite ==
  ASSUME NEW tx, tx.ins \in Seq(Range(tx.ins)), tx.outs \in Seq(Nat)
  PROVE  IsFiniteSet(Inputs(tx)) /\ IsFiniteSet(Outpoints(tx))
<1>1. IsFiniteSet(DOMAIN tx.ins) /\ IsFiniteSet(DOMAIN tx.outs)
  BY PlacesFinite, Zenon
<1>2. IsFiniteSet({tx.ins[i] : i \in DOMAIN tx.ins})
  BY <1>1, ImageIsFinite, Zenon
<1>3. Inputs(tx) = {tx.ins[i] : i \in DOMAIN tx.ins}
  BY Zenon DEF Inputs, Range
<1>. DEFINE f == [i \in DOMAIN tx.outs |-> <<tx.id, i>>]
<1>4. Outpoints(tx) = {f[i] : i \in DOMAIN tx.outs}
  BY Zenon DEF Outpoints
<1>. HIDE DEF f
<1>5. IsFiniteSet({f[i] : i \in DOMAIN tx.outs})
  BY <1>1, ImageIsFinite, Zenon
<1>. QED
  BY <1>2, <1>3, <1>4, <1>5, Zenon

LEMMA BlockSetsFinite ==
  ASSUME NEW b, Formed(b)
  PROVE  IsFiniteSet(BlockInputs(b)) /\ IsFiniteSet(BlockOutputs(b))
<1>. DEFINE N == DOMAIN b.txs
            A == [i \in N |-> Inputs(b.txs[i])]
            B == [i \in N |-> Outpoints(b.txs[i])]
<1>1. IsFiniteSet(N)
  BY PlacesFinite, Zenon DEF Formed
<1>2. ASSUME NEW i \in N
      PROVE  IsFiniteSet(A[i]) /\ IsFiniteSet(B[i])
  BY TxSetsFinite, Zenon DEF Formed
<1>3. BlockInputs(b) = UNION {A[i] : i \in N}
  BY Zenon DEF BlockInputs, Range
<1>4. BlockOutputs(b) = UNION {B[i] : i \in N}
  BY Zenon DEF BlockOutputs, Range
<1>. HIDE DEF N, A, B
<1>5. IsFiniteSet(UNION {A[i] : i \in N})
  BY <1>1, <1>2, FamilyIsFinite, Zenon
<1>6. IsFiniteSet(UNION {B[i] : i \in N})
  BY <1>1, <1>2, FamilyIsFinite
<1>. QED
  BY <1>3, <1>4, <1>5, <1>6, Zenon

\* The value of a new output is that of the transaction that owns it.
LEMMA OwnerOf ==
  ASSUME NEW b, NEW op \in BlockOutputs(b)
  PROVE  \E i \in DOMAIN b.txs : /\ op = <<b.txs[i].id, op[2]>>
                                 /\ op[2] \in DOMAIN b.txs[i].outs
                                 /\ NewUtxo(b, op).value = b.txs[i].outs[op[2]]
<1>. DEFINE tx == CHOOSE t \in Range(b.txs) : op \in Outpoints(t)
<1>1. \E t \in Range(b.txs) : op \in Outpoints(t)
  BY Zenon DEF BlockOutputs
<1>2. tx \in Range(b.txs) /\ op \in Outpoints(tx)
  BY <1>1, Zenon
<1>3. NewUtxo(b, op).value = tx.outs[op[2]]
  BY Zenon DEF NewUtxo
<1>. HIDE DEF tx
<1>4. PICK i \in DOMAIN b.txs : tx = b.txs[i]
  BY <1>2, Zenon DEF Range
<1>5. PICK k \in DOMAIN tx.outs : op = <<tx.id, k>>
  BY <1>2, Zenon DEF Outpoints
<1>6. op[2] = k
  BY <1>5, Zenon
<1>. QED
  BY <1>3, <1>4, <1>5, <1>6, Zenon

\* update_from_block keeps the set countable.
LEMMA UpdateCountable ==
  ASSUME NEW u, Countable(u), NEW b, Formed(b)
  PROVE  Countable(UpdateFromBlock(u, b))
<1>. DEFINE D == DOMAIN UpdateFromBlock(u, b)
<1>1. D = (DOMAIN u \ BlockInputs(b)) \cup BlockOutputs(b)
  BY Zenon DEF UpdateFromBlock
<1>2. IsFiniteSet(DOMAIN u) /\ IsFiniteSet(BlockOutputs(b))
  BY BlockSetsFinite, Zenon DEF Countable
<1>3. IsFiniteSet(DOMAIN u \ BlockInputs(b))
  BY <1>2, FS_Difference, Zenon
<1>4. IsFiniteSet(D)
  BY <1>1, <1>2, <1>3, FS_Union, Zenon
<1>5. ASSUME NEW op \in BlockOutputs(b) PROVE NewUtxo(b, op).value \in Nat
  <2>1. PICK i \in DOMAIN b.txs : /\ op[2] \in DOMAIN b.txs[i].outs
                                  /\ NewUtxo(b, op).value = b.txs[i].outs[op[2]]
    BY OwnerOf, Zenon
  <2>2. b.txs[i].outs \in Seq(Nat)
    BY Zenon DEF Formed
  <2>. QED
    BY <2>1, <2>2
<1>6. ASSUME NEW op \in D PROVE UpdateFromBlock(u, b)[op].value \in Nat
  <2>1. CASE op \in BlockOutputs(b)
    BY <1>1, <1>5, <2>1, Zenon DEF UpdateFromBlock
  <2>2. CASE op \notin BlockOutputs(b)
    BY <1>1, <2>2, Zenon DEF UpdateFromBlock, Countable
  <2>. QED
    BY <2>1, <2>2, Zenon
<1>. QED
  BY <1>4, <1>6, Zenon DEF Countable

\* revert_block puts back what it finds or an output of value 0: the set stays
\* countable and is worth no more than before.
LEMMA RevertAddsNothing ==
  ASSUME NEW u, Countable(u), NEW b, Formed(b), NEW w, w = RevertFromBlock(u, b)
  PROVE  Countable(w) /\ Total(w) <= Total(u)
<1>. DEFINE touched == BlockInputs(b) \cup BlockOutputs(b)
            restored == {op \in BlockInputs(b) : op \in Inputs(b.txs[FirstTouch(b, op)])}
            D == DOMAIN u
            E == (D \ touched) \cup restored
            X == {op \in E : op \in D \ BlockOutputs(b)}
            f == [op \in D |-> u[op].value]
            g == [op \in E |-> w[op].value]
<1>1. DOMAIN w = E /\ \A op \in E : w[op] = IF op \in X THEN u[op] ELSE DummyUtxo
  BY Zenon DEF RevertFromBlock
<1>2. IsFiniteSet(D) /\ IsFiniteSet(BlockInputs(b)) /\ \A op \in D : f[op] \in Nat
  BY BlockSetsFinite, Zenon DEF Countable
<1>3. IsFiniteSet(E)
  <2>1. IsFiniteSet(D \ touched)
    BY <1>2, FS_Difference, Zenon
  <2>2. IsFiniteSet(restored)
    BY <1>2, FS_Subset, Zenon
  <2>. QED
    BY <2>1, <2>2, FS_Union, Zenon
<1>4. X \in SUBSET E /\ X \in SUBSET D
  BY Zenon
<1>5. /\ \A op \in E : g[op] = w[op].value
      /\ \A op \in D : f[op] = u[op].value
  BY Zenon
<1>6. DummyUtxo.value = 0
  BY Zenon DEF DummyUtxo
<1>. HIDE DEF X, E, f, g
<1>7. /\ \A op \in X : g[op] = f[op]
      /\ \A op \in E \ X : g[op] = 0
      /\ \A op \in E : g[op] \in Nat
  BY <1>1, <1>2, <1>4, <1>5, <1>6
<1>8. Total(u) = SumOver(f, D) /\ Total(w) = SumOver(g, E)
  BY <1>1, Zenon DEF Total, SumOf, f, g
<1>9. SumOver(g, E) = SumOver(g, X) + SumOver(g, E \ X)
  BY <1>3, <1>4, <1>7, SumSplit
<1>10. IsFiniteSet(X) /\ IsFiniteSet(E \ X)
  BY <1>3, <1>4, FS_Subset, FS_Difference, Zenon
<1>11. SumOver(g, E \ X) = 0
  BY <1>7, <1>10, SumZero, Zenon
<1>12. SumOver(g, X) = SumOver(f, X)
  BY <1>7, <1>10, SumSame, Zenon
<1>13. SumOver(f, X) <= SumOver(f, D)
  BY <1>2, <1>4, SumSubset
<1>14. SumOver(f, X) \in Nat
  BY <1>2, <1>4, <1>10, SumNat, Zenon
<1>15. Countable(w)
  BY <1>1, <1>3, <1>5, <1>7, Zenon DEF Countable
<1>. QED
  BY <1>8, <1>9, <1>11, <1>12, <1>13, <1>14, <1>15

\* The outputs of a block are worth no more than its transactions pay out: a
\* txid that occurs twice only loses an output.
LEMMA OutputsWorth ==
  ASSUME NEW b, Formed(b), NEW g, \A op \in BlockOutputs(b) : g[op] = NewUtxo(b, op).value
  PROVE  SumOver(g, BlockOutputs(b)) <= SumOf([i \in DOMAIN b.txs |-> OutputSum(b.txs[i])])
<1>. DEFINE N == DOMAIN b.txs
            O == BlockOutputs(b)
            Owns(i, op) == /\ op = <<b.txs[i].id, op[2]>>
                           /\ op[2] \in DOMAIN b.txs[i].outs
                           /\ g[op] = b.txs[i].outs[op[2]]
            A == [i \in N |-> {op \in O : Owns(i, op)}]
            paid == [i \in N |-> OutputSum(b.txs[i])]
            part == [i \in N |-> SumOver(g, A[i])]
<1>1. IsFiniteSet(N) /\ IsFiniteSet(O)
  BY PlacesFinite, BlockSetsFinite, Zenon DEF Formed
<1>2. \A op \in O : \E i \in N : Owns(i, op)
  BY OwnerOf
<1>3. ASSUME NEW i \in N, NEW op \in A[i]
      PROVE  op \in O /\ Owns(i, op) /\ g[op] \in Nat
  BY <1>3 DEF Formed
<1>4. \A i \in N : A[i] \in SUBSET O /\ IsFiniteSet(A[i])
  BY <1>1, FS_Subset, Zenon
<1>5. \A op \in O : \E i \in N : op \in A[i]
  BY <1>2, Zenon
<1>6. \A i \in N : part[i] = SumOver(g, A[i])
  BY Zenon
<1>. HIDE DEF A
<1>7. SumOver(g, O) <= SumOver(part, N)
  <2>1. O \subseteq UNION {A[i] : i \in N}
    BY <1>5, Zenon
  <2>. HIDE DEF N, O, part, Owns
  <2>. QED
    BY <1>1, <1>3, <1>4, <1>6, <2>1, SumCovered
<1>8. ASSUME NEW i \in N
      PROVE  part[i] <= paid[i] /\ part[i] \in Int /\ paid[i] \in Int
  <2>. DEFINE K == DOMAIN b.txs[i].outs
              outs == b.txs[i].outs
              h == [op \in A[i] |-> op[2]]
  <2>1. IsFiniteSet(K) /\ \A k \in K : outs[k] \in Nat
    BY PlacesFinite DEF Formed
  <2>2. \A op \in A[i] : h[op] \in K /\ g[op] \in Nat /\ g[op] <= outs[h[op]]
    BY <1>3
  <2>3. \A op, oq \in A[i] : h[op] = h[oq] => op = oq
    BY <1>3, Zenon
  <2>. HIDE DEF h
  <2>4. SumOver(g, A[i]) <= SumOver(outs, K)
    BY <1>4, <2>1, <2>2, <2>3, SumReindex, Zenon
  <2>5. SumOver(g, A[i]) \in Nat
    BY <1>3, <1>4, SumNat, Zenon
  <2>6. SumOver(outs, K) \in Nat
    BY <2>1, SumNat, Zenon
  <2>7. paid[i] = SumOver(outs, K)
    BY Zenon DEF OutputSum, SumOf
  <2>. QED
    BY <1>6, <2>4, <2>5, <2>6, <2>7
<1>9. SumOver(part, N) <= SumOver(paid, N)
  <2>. HIDE DEF N, part, paid
  <2>. QED
    BY <1>1, <1>8, SumMonotone, Zenon
<1>10. SumOver(paid, N) = SumOf(paid)
  BY Zenon DEF SumOf
<1>11. SumOver(g, O) \in Int /\ SumOver(part, N) \in Int /\ SumOver(paid, N) \in Int
  <2>1. \A op \in O : g[op] \in Int
    <3>. SUFFICES ASSUME NEW op \in O PROVE g[op] \in Int
      BY Zenon
    <3>1. PICK i \in N : op \in A[i]
      BY <1>5, Zenon
    <3>. QED
      BY <1>3, <3>1
  <2>. HIDE DEF N, O, part, paid
  <2>. QED
    BY <1>1, <1>8, <2>1, SumInt, Zenon
<1>. HIDE DEF N, O, part, paid
<1>12. SumOver(g, O) <= SumOf(paid)
  BY <1>7, <1>9, <1>10, <1>11
<1>. QED
  BY <1>12, Zenon DEF N, O, paid

\* What the transactions of a block without a conflict take in is no more than
\* the inputs of the block are worth: no output is counted twice.
LEMMA InputsWorth ==
  ASSUME Countable(utxos), NEW b, Formed(b), NoConflict(b),
         \A i \in DOMAIN b.txs : b.txs[i].kind # "coinbase" => Inputs(b.txs[i]) \subseteq DOMAIN utxos,
         NEW v, v = [op \in DOMAIN utxos |-> utxos[op].value]
  PROVE  SumOf([i \in DOMAIN b.txs |->
                  IF b.txs[i].kind = "coinbase" THEN 0 ELSE InputSum(utxos, b.txs[i])])
           <= SumOver(v, DOMAIN utxos \cap BlockInputs(b))
<1>. DEFINE N == DOMAIN b.txs
            X == DOMAIN utxos \cap BlockInputs(b)
            A == [i \in N |-> IF b.txs[i].kind = "coinbase" THEN {} ELSE Inputs(b.txs[i])]
            taken == [i \in N |-> IF b.txs[i].kind = "coinbase" THEN 0 ELSE InputSum(utxos, b.txs[i])]
            part == [i \in N |-> SumOver(v, A[i])]
<1>1. IsFiniteSet(N) /\ IsFiniteSet(DOMAIN utxos)
  BY PlacesFinite, Zenon DEF Formed, Countable
<1>2. IsFiniteSet(X) /\ X \in SUBSET DOMAIN utxos
  BY <1>1, FS_Subset, Zenon
<1>3. \A op \in DOMAIN utxos : v[op] = utxos[op].value /\ v[op] \in Nat
  BY Zenon DEF Countable
<1>4. \A i \in N : A[i] \in SUBSET X
  BY Zenon DEF BlockInputs, Range
<1>5. \A i, j \in N : i # j => A[i] \cap A[j] = {}
  BY Zenon DEF NoConflict
<1>6. \A i \in N : part[i] = SumOver(v, A[i])
  BY Zenon
<1>7. \A i \in N : IsFiniteSet(A[i]) /\ \A op \in A[i] : v[op] \in Nat
  BY <1>2, <1>3, <1>4, FS_Subset, Zenon
<1>8. ASSUME NEW i \in N
      PROVE  taken[i] <= part[i] /\ taken[i] \in Int /\ part[i] \in Int
  <2>1. CASE b.txs[i].kind = "coinbase"
    <3>1. A[i] = {} /\ taken[i] = 0
      BY <2>1, Zenon
    <3>2. part[i] = 0
      BY <1>6, <3>1, SumEmpty, Zenon
    <3>. QED
      BY <3>1, <3>2
  <2>2. CASE b.txs[i].kind # "coinbase"
    <3>. DEFINE ins == b.txs[i].ins
                K == DOMAIN ins
                val == [k \in K |-> InputValue(utxos, ins[k])]
    <3>1. A[i] = Inputs(b.txs[i]) /\ taken[i] = SumOver(val, K)
      BY <2>2, Zenon DEF InputSum, SumOf
    <3>2. IsFiniteSet(K)
      BY PlacesFinite, Zenon DEF Formed
    <3>3. \A k \in K : ins[k] \in A[i] /\ ins[k] \in DOMAIN utxos
      BY <2>2, <3>1, Zenon DEF Inputs, Range
    <3>4. \A k \in K : ins[k] \in A[i] /\ val[k] \in Nat /\ val[k] <= v[ins[k]]
      BY <1>3, <3>3 DEF InputValue
    <3>5. \A k, l \in K : ins[k] = ins[l] => k = l
      BY Zenon DEF NoConflict, IsInjective
    <3>. HIDE DEF val, K, ins, A
    <3>6. SumOver(val, K) <= SumOver(v, A[i])
      BY <1>7, <3>2, <3>4, <3>5, SumReindex, Zenon
    <3>7. SumOver(val, K) \in Nat /\ SumOver(v, A[i]) \in Nat
      BY <1>7, <3>2, <3>4, SumNat, Zenon
    <3>. QED
      BY <1>6, <3>1, <3>6, <3>7
  <2>. QED
    BY <2>1, <2>2, Zenon
<1>. HIDE DEF N, X, A, part, taken
<1>9. SumOver(taken, N) <= SumOver(part, N)
  BY <1>1, <1>8, SumMonotone, Zenon
<1>10. SumOver(part, N) <= SumOver(v, X)
  BY <1>1, <1>2, <1>3, <1>4, <1>5, <1>6, SumPacked, Zenon
<1>11. SumOver(taken, N) \in Int /\ SumOver(part, N) \in Int
  BY <1>1, <1>8, SumInt, Zenon
<1>12. SumOver(v, X) \in Int
  BY <1>2, <1>3, SumInt
<1>13. SumOver(taken, N) <= SumOver(v, X)
  BY <1>9, <1>10, <1>11, <1>12
<1>14. DOMAIN taken = N
  BY Zenon DEF taken
<1>. QED
  BY <1>13, <1>14, Zenon DEF SumOf, N, X, taken

\* The inputs and the outputs of a transaction sum to numbers.
LEMMA InputSumType ==
  ASSUME NEW u, Countable(u), NEW tx, tx.ins \in Seq(Range(tx.ins))
  PROVE  InputSum(u, tx) \in Nat
<1>. DEFINE K == DOMAIN tx.ins
            val == [k \in K |-> InputValue(u, tx.ins[k])]
<1>1. IsFiniteSet(K)
  BY PlacesFinite, Zenon
<1>2. \A k \in K : val[k] \in Nat
  BY Zenon DEF InputValue, Countable
<1>3. SumOver(val, K) \in Nat
  <2>. HIDE DEF val, K
  <2>. QED
    BY <1>1, <1>2, SumNat, Zenon
<1>. QED
  BY <1>3, Zenon DEF InputSum, SumOf

LEMMA OutputSumType ==
  ASSUME NEW tx, tx.outs \in Seq(Nat)
  PROVE  OutputSum(tx) \in Nat
<1>1. IsFiniteSet(DOMAIN tx.outs) /\ \A k \in DOMAIN tx.outs : tx.outs[k] \in Nat
  BY PlacesFinite
<1>. QED
  BY <1>1, SumNat, Zenon DEF OutputSum, SumOf

\* process_block without a conflict in the block mints what its coinbases pay
\* and no more.
LEMMA ProcessMints ==
  ASSUME Countable(utxos), NEW b \in Blocks, NoConflict(b), ProcessValid(b),
         NEW u, u = UpdateFromBlock(utxos, b)
  PROVE  Total(u) <= Total(utxos) + Minted(b)
<1>. DEFINE N == DOMAIN b.txs
            D == DOMAIN utxos
            I == BlockInputs(b)
            O == BlockOutputs(b)
            E == (D \ I) \cup O
            v == [op \in D |-> utxos[op].value]
            g == [op \in E |-> u[op].value]
            paid == [i \in N |-> OutputSum(b.txs[i])]
            taken == [i \in N |-> IF b.txs[i].kind = "coinbase" THEN 0 ELSE InputSum(utxos, b.txs[i])]
            mint == [i \in N |-> IF b.txs[i].kind = "coinbase" THEN OutputSum(b.txs[i]) ELSE 0]
            both == [i \in N |-> taken[i] + mint[i]]
<1>1. Formed(b) /\ Countable(u)
  BY OfferedFormed, UpdateCountable, Zenon
<1>2. IsFiniteSet(N) /\ IsFiniteSet(D) /\ IsFiniteSet(O)
  BY <1>1, PlacesFinite, BlockSetsFinite, Zenon DEF Formed, Countable
<1>3. DOMAIN u = E /\ \A op \in E : u[op] = IF op \in O THEN NewUtxo(b, op) ELSE utxos[op]
  BY Zenon DEF UpdateFromBlock
<1>4. IsFiniteSet(E) /\ \A op \in E : g[op] = u[op].value /\ g[op] \in Nat
  BY <1>1, <1>3, Zenon DEF Countable
<1>5. \A op \in D : v[op] = utxos[op].value /\ v[op] \in Nat
  BY Zenon DEF Countable
<1>6. Total(utxos) = SumOver(v, D) /\ Total(u) = SumOver(g, E) /\ Minted(b) = SumOver(mint, N)
  BY <1>3, Zenon DEF Total, Minted, SumOf
<1>7. /\ E \ O \in SUBSET E /\ O \in SUBSET E /\ E \ O \in SUBSET (D \ I)
      /\ D \ I \in SUBSET D /\ D \cap I \in SUBSET D /\ D \ (D \cap I) = D \ I
  BY Zenon
<1>8. ASSUME NEW i \in N
      PROVE  /\ paid[i] \in Int /\ taken[i] \in Int /\ mint[i] \in Int
             /\ paid[i] <= taken[i] + mint[i]
  <2>1. OutputSum(b.txs[i]) \in Nat
    BY <1>1, OutputSumType, Zenon DEF Formed
  <2>2. InputSum(utxos, b.txs[i]) \in Int
    BY <1>1, InputSumType DEF Formed
  <2>3. b.txs[i].kind # "coinbase" =>
          InputSum(utxos, b.txs[i]) >= OutputSum(b.txs[i]) + b.txs[i].fee
    BY Zenon DEF ProcessValid, ValidateTransaction
  <2>4. b.txs[i].fee \in Nat
    BY TxsAssumption, Zenon
  <2>5. /\ paid[i] = OutputSum(b.txs[i])
        /\ taken[i] = IF b.txs[i].kind = "coinbase" THEN 0 ELSE InputSum(utxos, b.txs[i])
        /\ mint[i] = IF b.txs[i].kind = "coinbase" THEN OutputSum(b.txs[i]) ELSE 0
    BY Zenon
  <2>. HIDE DEF paid, taken, mint
  <2>. QED
    BY <2>1, <2>2, <2>3, <2>4, <2>5
<1>9. SumOver(g, O) <= SumOver(paid, N)
  <2>1. \A op \in O : g[op] = NewUtxo(b, op).value
    BY <1>3, <1>4, <1>7, Zenon
  <2>2. SumOf(paid) = SumOver(paid, N)
    BY Zenon DEF SumOf
  <2>. HIDE DEF g
  <2>3. SumOver(g, O) <= SumOf(paid)
    BY <1>1, <2>1, OutputsWorth, Zenon
  <2>. QED
    BY <2>2, <2>3, Zenon
<1>10. SumOver(taken, N) <= SumOver(v, D \cap I)
  <2>1. ASSUME NEW i \in DOMAIN b.txs, b.txs[i].kind # "coinbase"
        PROVE  Inputs(b.txs[i]) \subseteq DOMAIN utxos
    BY <2>1, Zenon DEF ProcessValid, ValidateTransaction
  <2>2. DOMAIN taken = N
    BY Zenon
  <2>. QED
    BY <1>1, <2>1, <2>2, InputsWorth, Zenon DEF SumOf
<1>. HIDE DEF N, D, I, O, E, v, g, paid, taken, mint
<1>11. \A i \in N : both[i] = taken[i] + mint[i] /\ both[i] \in Int /\ paid[i] <= both[i]
  BY <1>8
<1>. HIDE DEF both
<1>12. SumOver(g, E) = SumOver(g, O) + SumOver(g, E \ O)
  BY <1>4, <1>7, SumSplit
<1>13. SumOver(g, E \ O) <= SumOver(v, D \ I)
  <2>1. IsFiniteSet(E \ O) /\ IsFiniteSet(D \ I)
    BY <1>2, <1>4, FS_Difference, Zenon
  <2>2. \A op \in E \ O : g[op] = v[op]
    BY <1>3, <1>4, <1>5, <1>7
  <2>3. SumOver(g, E \ O) = SumOver(v, E \ O)
    BY <2>1, <2>2, SumSame, Zenon
  <2>4. SumOver(v, E \ O) <= SumOver(v, D \ I)
    BY <1>5, <1>7, <2>1, SumSubset
  <2>. QED
    BY <2>3, <2>4, Zenon
<1>14. SumOver(v, D) = SumOver(v, D \cap I) + SumOver(v, D \ I)
  BY <1>2, <1>5, <1>7, SumSplit
<1>15. SumOver(paid, N) <= SumOver(both, N)
  BY <1>2, <1>8, <1>11, SumMonotone, Zenon
<1>16. SumOver(both, N) = SumOver(taken, N) + SumOver(mint, N)
  BY <1>2, <1>8, <1>11, SumAdd, Zenon
<1>17. /\ SumOver(paid, N) \in Int /\ SumOver(both, N) \in Int
       /\ SumOver(taken, N) \in Int /\ SumOver(mint, N) \in Int
  BY <1>2, <1>8, <1>11, SumInt
<1>18. IsFiniteSet(E \ O) /\ IsFiniteSet(D \cap I) /\ IsFiniteSet(D \ I)
  BY <1>2, <1>4, <1>7, FS_Subset, Zenon
<1>19. /\ SumOver(g, O) \in Int /\ SumOver(g, E \ O) \in Int
       /\ SumOver(v, D \cap I) \in Int /\ SumOver(v, D \ I) \in Int
  BY <1>2, <1>4, <1>5, <1>7, <1>18, SumInt
<1>. QED
  BY <1>6, <1>9, <1>10, <1>12, <1>13, <1>14, <1>15, <1>16, <1>17, <1>19

\* The reward that add_block writes into the coinbase is a number: halving
\* the subsidy never leaves the numbers, and the reward is at least what the
\* coinbase pays already.
LEMMA HalvedType == \A n \in Nat : Halved[n] \in Nat
<1>. DEFINE next == [p \in Nat \X Nat |-> p[2] \div 2]
            Rec(h) == h = [n \in Nat |-> IF n = 0 THEN InitialReward ELSE h[n - 1] \div 2]
<1>1. \A i \in Nat, x \in Nat : next[<<i, x>>] = x \div 2 /\ next[<<i, x>>] \in Nat
  OBVIOUS
<1>. HIDE DEF next
<1>2. PICK f : Iterates(Nat, InitialReward, next, f)
  <2>1. InitialReward \in Nat /\ \A i \in Nat, x \in Nat : next[<<i, x>>] \in Nat
    BY <1>1, ParamsAssumption, Zenon
  <2>. QED
    BY <2>1, Iteration, Zenon
<1>3. ASSUME NEW n \in Nat
      PROVE  f[n] = IF n = 0 THEN InitialReward ELSE f[n - 1] \div 2
  <2>1. CASE n = 0
    BY <1>2, <2>1, Zenon DEF Iterates
  <2>2. CASE n # 0
    <3>1. n - 1 \in Nat /\ (n - 1) + 1 = n
      BY <2>2
    <3>2. f[n - 1] \in Nat /\ f[(n - 1) + 1] = next[<<n - 1, f[n - 1]>>]
      BY <1>2, <3>1, Zenon DEF Iterates
    <3>. QED
      BY <1>1, <2>2, <3>1, <3>2, Zenon
  <2>. QED
    BY <2>1, <2>2, Zenon
<1>4. Rec(f)
  BY <1>2, <1>3, Zenon DEF Iterates
<1>5. Halved = CHOOSE h : Rec(h)
  BY Zenon DEF Halved
<1>6. Rec(Halved)
  <2>. HIDE DEF Rec
  <2>. QED
    BY <1>4, <1>5, Zenon
<1>7. \A n \in Nat : Halved[n] = IF n = 0 THEN InitialReward ELSE Halved[n - 1] \div 2
  BY <1>6, Zenon
<1>. DEFINE P == {n \in Nat : Halved[n] \in Nat}
<1>8. 0 \in P
  BY <1>7, ParamsAssumption, Zenon
<1>9. ASSUME NEW n \in Nat, n \in P PROVE n + 1 \in P
  BY <1>7, <1>9
<1>10. Nat \subseteq P
  <2>. HIDE DEF P
  <2>. QED
    BY <1>8, <1>9, NatInductive, Zenon
<1>. QED
  BY <1>10, Zenon

LEMMA QuotientType == \A x \in Nat, y \in Nat \ {0} : x \div y \in Nat
  OBVIOUS

LEMMA RewardType ==
  ASSUME Countable(utxos), NEW b, b.height \in Nat, NEW S, NEW kept \in Seq(S), kept # <<>>,
         \A t \in S : t.ins \in Seq(Range(t.ins)) /\ t.outs \in Seq(Nat)
  PROVE  PowReward(b, kept) \in Int
<1>. DEFINE rest == Tail(kept)
            K == DOMAIN rest
            fees == [i \in K |-> SaturatingSub(InputSum(utxos, rest[i]), OutputSum(rest[i]))]
<1>1. rest \in Seq(S) /\ \A i \in K : rest[i] \in S
  OBVIOUS
<1>2. IsFiniteSet(K)
  BY <1>1, PlacesFinite, Zenon
<1>. HIDE DEF rest
<1>3. \A i \in K : fees[i] \in Int
  <2>. SUFFICES ASSUME NEW i \in K PROVE fees[i] \in Int
    BY Zenon
  <2>1. InputSum(utxos, rest[i]) \in Nat /\ OutputSum(rest[i]) \in Nat
    BY <1>1, InputSumType, OutputSumType, Zenon
  <2>. QED
    BY <2>1 DEF SaturatingSub
<1>4. SumOver(fees, K) \in Int
  <2>. HIDE DEF fees, K
  <2>. QED
    BY <1>2, <1>3, SumInt, Zenon
<1>5. SumOf(fees) \in Int
  BY <1>4, Zenon DEF SumOf
<1>6. BlockSubsidy(b.height) \in Int
  <2>1. b.height \in Nat /\ HalvingInterval \in Nat \ {0}
    BY ParamsAssumption, Zenon
  <2>2. b.height \div HalvingInterval \in Nat
    BY <2>1, QuotientType, Zenon
  <2>. QED
    BY <2>2, HalvedType DEF BlockSubsidy
<1>7. TotalReward(b, kept) \in Int
  <2>1. TotalReward(b, kept) = BlockSubsidy(b.height) + SumOf(fees)
    BY Zenon DEF TotalReward, rest
  <2>. HIDE DEF fees
  <2>. QED
    BY <1>5, <1>6, <2>1
<1>8. PosReward(b, kept) \in Int
  <2>1. PICK t \in Int : t = TotalReward(b, kept)
    BY <1>7, Zenon
  <2>2. PosRewardPercent \in Int
    BY ParamsAssumption
  <2>3. 2 * t * PosRewardPercent + 100 \in Int
    BY <2>2
  <2>. QED
    BY <2>1, <2>3 DEF PosReward
<1>. QED
  BY <1>7, <1>8 DEF PowReward

\* The block that add_block stores is made of transactions of the block that
\* was offered, save for the reward.
LEMMA KeptElements ==
  ASSUME NEW b \in Blocks
  PROVE  Kept(Order(b)) \in Seq(Range(b.txs))
<1>. DEFINE T == Range(b.txs)
            s == Order(b)
            I == {i \in DOMAIN s : s[i].kind # "slash"}
<1>1. s \in Seq(T)
  BY OrderElements, Zenon
<1>2. \A t \in T : t.fee \in Nat
  <2>1. \A t \in Range(b.txs) : \E i \in DOMAIN b.txs : t = b.txs[i]
    BY Zenon DEF Range
  <2>. QED
    BY <2>1, TxsAssumption, Zenon
<1>3. Kept(s) = SortByFee(s, I)
  BY Zenon DEF Kept
<1>. HIDE DEF T, s
<1>4. IsFiniteSet(DOMAIN s) /\ DOMAIN s \subseteq Int
  BY <1>1, PlacesFinite
<1>5. IsFiniteSet(I) /\ I \subseteq Int
  BY <1>4, FS_Subset, Zenon
<1>6. \A i \in I : s[i] \in T /\ s[i].fee \in Nat
  BY <1>1, <1>2
<1>. HIDE DEF I
<1>7. SortByFee(s, I) \in Seq(T)
  BY <1>5, <1>6, SortByFeeElements, Zenon
<1>. QED
  BY <1>3, <1>7, Zenon DEF T, s

LEMMA RewrittenFormed ==
  ASSUME Countable(utxos), NEW b \in Blocks, NEW kept, kept = Kept(Order(b)), kept # <<>>,
         AcceptsReward(b, kept)
  PROVE  Formed(Rewritten(b, kept))
<1>. DEFINE T == Range(b.txs)
            h == Head(kept)
            pow == PowReward(b, kept)
            p == PayReward(h, pow)
            txs == <<p>> \o Tail(kept)
<1>1. \A t \in T : t.ins \in Seq(Range(t.ins)) /\ t.outs \in Seq(Nat) /\ {"id", "ins", "outs"} \subseteq DOMAIN t
  <2>1. \A t \in Range(b.txs) : \E i \in DOMAIN b.txs : t = b.txs[i]
    BY Zenon DEF Range
  <2>. QED
    BY <2>1, TxsAssumption, Zenon
<1>2. kept \in Seq(T)
  BY KeptElements, Zenon
<1>3. b.height \in Nat
  BY BlocksAssumption, UtxoAssumption
<1>4. pow \in Int
  BY <1>1, <1>2, <1>3, RewardType, Zenon
<1>5. h \in T /\ Tail(kept) \in Seq(T)
  BY <1>2
<1>6. OutputSum(h) \in Nat /\ OutputSum(h) <= pow /\ h.outs # <<>>
  BY <1>1, <1>5, OutputSumType, Zenon DEF AcceptsReward
<1>7. pow \in Nat
  BY <1>4, <1>6
<1>8. Rewritten(b, kept) = [b EXCEPT !.txs = txs] /\ "txs" \in DOMAIN b
  BY BlocksAssumption, Zenon DEF Rewritten
<1>9. Rewritten(b, kept).txs = txs
  BY <1>8, Zenon
<1>. HIDE DEF pow, h, T
<1>10. p.ins \in Seq(Range(p.ins)) /\ p.outs \in Seq(Nat)
  <2>1. h.ins \in Seq(Range(h.ins)) /\ h.outs \in Seq(Nat) /\ {"id", "ins", "outs"} \subseteq DOMAIN h
    BY <1>1, <1>5, Zenon
  <2>2. CASE h.outs[1] = pow
    BY <2>1, <2>2, Zenon DEF PayReward
  <2>3. CASE h.outs[1] # pow
    <3>1. p = [h EXCEPT !.outs[1] = pow, !.id = @ \o <<pow>>]
      BY <2>3, Zenon DEF PayReward
    <3>2. p.ins = h.ins /\ p.outs = [h.outs EXCEPT ![1] = pow]
      BY <2>1, <3>1, Zenon
    <3>3. [h.outs EXCEPT ![1] = pow] \in Seq(Nat)
      <4>1. Len(h.outs) \in Nat /\ h.outs \in [1 .. Len(h.outs) -> Nat]
        BY <2>1
      <4>2. PICK n \in Nat : n = Len(h.outs)
        BY <4>1, Zenon
      <4>3. PICK o \in [1 .. n -> Nat] : o = h.outs
        BY <4>1, <4>2, Zenon
      <4>4. [o EXCEPT ![1] = pow] \in [1 .. n -> Nat]
        BY <1>7, Zenon
      <4>5. \A x \in [1 .. n -> Nat] : x \in Seq(Nat)
        OBVIOUS
      <4>. QED
        BY <4>3, <4>4, <4>5, Zenon
    <3>. QED
      BY <2>1, <3>2, <3>3, Zenon
  <2>. QED
    BY <2>2, <2>3, Zenon
<1>. HIDE DEF p
<1>11. /\ txs \in Seq(T \cup {p})
       /\ \A i \in DOMAIN txs : txs[i] \in T \cup {p}
  BY <1>5
<1>. HIDE DEF txs
<1>12. txs \in Seq(Range(txs))
  BY <1>11 DEF Range
<1>13. ASSUME NEW i \in DOMAIN txs
       PROVE  txs[i].ins \in Seq(Range(txs[i].ins)) /\ txs[i].outs \in Seq(Nat)
  BY <1>1, <1>10, <1>11, Zenon
<1>. QED
  BY <1>9, <1>12, <1>13, Zenon DEF Formed

\* The values of the unspent outputs and the transactions of the stored blocks
\* can be summed up.  NoInflation needs this to compare two totals at all.
ValueInv ==
  /\ Countable(utxos)
  /\ \A h \in DOMAIN blocks : Formed(blocks[h])

LEMMA PutFormed ==
  ASSUME ValueInv, NEW b, Formed(b), PutBlock(b)
  PROVE  \A h \in DOMAIN blocks' : Formed(blocks'[h])
  BY Zenon DEF ValueInv, PutBlock

LEMMA ProcessBlockValue ==
  ASSUME ValueInv, NEW b \in Blocks, ProcessBlock(b)
  PROVE  ValueInv'
<1>1. utxos' = UpdateFromBlock(utxos, b) /\ Formed(b)
  BY OfferedFormed, Zenon DEF ProcessBlock, ProcessBlockRegisterError, ProcessBlockTicketError, ProcessBlockOk
<1>2. Countable(utxos')
  BY <1>1, UpdateCountable, Zenon DEF ValueInv
<1>3. PutBlock(b) \/ UNCHANGED blocks
  BY Zenon DEF ProcessBlock, ProcessBlockRegisterError, ProcessBlockTicketError, ProcessBlockOk
<1>. QED
  BY <1>1, <1>2, <1>3, PutFormed, Zenon DEF ValueInv

LEMMA AddBlockValue ==
  ASSUME ValueInv, NEW b \in Blocks, AddBlock(b)
  PROVE  ValueInv'
<1>1. CASE AddBlockRefused(b)
  BY <1>1, Zenon DEF AddBlockRefused, ValueInv
<1>2. CASE AddBlockStore(b, Rewritten(b, Kept(Order(b))))
  <2>. DEFINE r == Rewritten(b, Kept(Order(b)))
  <2>1. Formed(r)
    BY <1>2, RewrittenFormed, Zenon DEF AddBlockStore, ValueInv
  <2>2. utxos' = UpdateFromBlock(utxos, r) /\ PutBlock(r)
    BY <1>2, Zenon DEF AddBlockStore
  <2>. HIDE DEF r
  <2>3. Countable(utxos')
    BY <2>1, <2>2, UpdateCountable, Zenon DEF ValueInv
  <2>. QED
    BY <2>1, <2>2, <2>3, PutFormed, Zenon DEF ValueInv
<1>. QED
  BY <1>1, <1>2, Zenon DEF AddBlock, AddBlockRegisterError, AddBlockRootError, AddBlockOk, AddBlockApply

LEMMA RevertBlockValue ==
  ASSUME ValueInv, NEW h \in DOMAIN blocks, RevertBlock(blocks[h])
  PROVE  ValueInv' /\ Total(utxos') <= Total(utxos)
<1>1. utxos' = RevertFromBlock(utxos, blocks[h]) /\ Formed(blocks[h])
  BY Zenon DEF RevertBlock, RevertBlockError, RevertBlockOk, RevertCommon, ValueInv
<1>2. Countable(utxos') /\ Total(utxos') <= Total(utxos)
  BY <1>1, RevertAddsNothing, Zenon DEF ValueInv
<1>3. \A k \in DOMAIN blocks' : k \in DOMAIN blocks /\ blocks'[k] = blocks[k]
  BY Zenon DEF RevertBlock, RevertBlockError, RevertBlockOk, RemoveBlocks, Restrict
<1>. QED
  BY <1>2, <1>3, Zenon DEF ValueInv

\* Every step keeps the values countable.
LEMMA ValueStep == ValueInv /\ [Next]_vars => ValueInv'
<1>. SUFFICES ASSUME ValueInv, [Next]_vars PROVE ValueInv'
  BY Zenon
<1>1. CASE Other \/ UNCHANGED vars
  BY <1>1, Zenon DEF Other, SaveToDisk, AddTransaction, ValidateAndAddTransaction, UpdateMasternodeStatus,
     vars, ValueInv
<1>2. ASSUME NEW b \in Blocks, ProcessBlock(b) PROVE ValueInv'
  BY <1>2, ProcessBlockValue, Zenon
<1>3. ASSUME NEW b \in Blocks, AddBlock(b) PROVE ValueInv'
  BY <1>3, AddBlockValue, Zenon
<1>4. ASSUME NEW h \in DOMAIN blocks, RevertBlock(blocks[h]) PROVE ValueInv'
  BY <1>4, RevertBlockValue, Zenon
<1>. QED
  BY <1>1, <1>2, <1>3, <1>4, Zenon DEF Next

\* Value comes from coinbases only, whatever blocks are offered in whatever
\* order, reverted, refused or applied in part: a block that process_block
\* takes, and in which no output is spent twice, adds no more than its
\* coinbases pay, and revert_block adds nothing.
THEOREM ValueFromCoinbasesOnly == Spec => NoInflation
<1>. DEFINE Step == /\ \A b \in Blocks : (NoConflict(b) /\ ProcessBlock(b))
                                           => Total(utxos') <= Total(utxos) + Minted(b)
                    /\ (tip \in DOMAIN blocks /\ RevertBlock(blocks[tip]))
                         => Total(utxos') <= Total(utxos)
<1>1. Init => ValueInv
  <2>. SUFFICES ASSUME Init PROVE ValueInv
    BY Zenon
  <2>1. DOMAIN utxos = {} /\ DOMAIN blocks = {}
    BY Zenon DEF Init, EmptyMap
  <2>. QED
    BY <2>1, FS_EmptySet, Zenon DEF ValueInv, Countable
<1>2. ValueInv /\ [Next]_vars => ValueInv'
  BY ValueStep, Zenon
<1>3. ValueInv => Step
  <2>. SUFFICES ASSUME ValueInv PROVE Step
    BY Zenon
  <2>1. ASSUME NEW b \in Blocks, NoConflict(b), ProcessBlock(b)
        PROVE  Total(utxos') <= Total(utxos) + Minted(b)
    <3>1. utxos' = UpdateFromBlock(utxos, b) /\ ProcessValid(b)
      BY <2>1, Zenon DEF ProcessBlock, ProcessBlockRegisterError, ProcessBlockTicketError, ProcessBlockOk
    <3>. QED
      BY <2>1, <3>1, ProcessMints, Zenon DEF ValueInv
  <2>2. ASSUME tip \in DOMAIN blocks, RevertBlock(blocks[tip])
        PROVE  Total(utxos') <= Total(utxos)
    BY <2>2, RevertBlockValue, Zenon
  <2>. QED
    BY <2>1, <2>2, Zenon
<1>. HIDE DEF Step
<1>4. Spec => [][Step]_vars
  BY <1>1, <1>2, <1>3, PTL DEF Spec
<1>. QED
  BY <1>4, Zenon DEF NoInflation, Step
=============================================================================
