---------------------------- MODULE FundsProofs -----------------------------
(***************************************************************************)
(* Proofs about decisions and funds: the governance crate and its treasury,*)
(* the wallet's coins, and the fees and sessions of mixes.                 *)
(***************************************************************************)
EXTENDS GovernanceCoordinator, WalletBuilder, FerrousShield, SumTheorems

-----------------------------------------------------------------------------
(***************************************************************************)
(* The governance coordinator, for all proposals, voters, ballots and      *)
(* thresholds: nothing takes effect without both chambers, and the two     *)
(* balances are what the activated proposals leave.                        *)
(***************************************************************************)

\* The finalized proposals that both chambers approved.
Passed == {i \in DOMAIN finalized : DetermineProposalOutcome(finalized[i].votes) = "Approved"}

\* A proposal is voted on or finalized, not both, and cannot be proposed again
\* once it is finalized; what waits, is activated or changes a parameter has
\* passed; a proposal that waits is not activated (process_governance_proposal,
\* process_ended_proposals, process_activation).
GovInv ==
  /\ paramHeight \in Nat
  /\ DOMAIN voting \subseteq DOMAIN Proposals
  /\ DOMAIN voting \cap DOMAIN finalized = {}
  /\ \A i \in DOMAIN voting : Proposals[i].start < Proposals[i].end
  /\ \A i \in DOMAIN finalized : i \in DOMAIN Proposals /\ Proposals[i].start <= paramHeight
  /\ DOMAIN pendingChanges \subseteq Passed
  /\ DOMAIN pendingActivations \subseteq Passed
  /\ DOMAIN activated \subseteq Passed
  /\ DOMAIN activated \cap DOMAIN pendingActivations = {}
  /\ \A i \in DOMAIN pendingActivations : pendingActivations[i].proposal = Proposals[i]
  /\ \A i \in DOMAIN activated : activated[i] = Proposals[i]

\* The loop of process_ended_proposals after the first n proposals.
Schedules(order, n, f) ==
  f = [i \in 0 .. n |->
         IF i = 0 THEN [failed |-> FALSE, changes |-> pendingChanges, waiting |-> pendingActivations]
         ELSE ScheduleApproved(f[i - 1], order[i])]

LEMMA ScheduleExists ==
  ASSUME NEW order
  PROVE  \A n \in Nat : \E f : Schedules(order, n, f)
<1> DEFINE P == {n \in Nat : \E f : Schedules(order, n, f)}
           start == [failed |-> FALSE, changes |-> pendingChanges, waiting |-> pendingActivations]
<1>1. 0 \in P
  <2> DEFINE f == [i \in 0 .. 0 |-> start]
  <2>1. Schedules(order, 0, f)
    BY DEF Schedules
  <2>2. QED BY <2>1, Zenon
<1>2. ASSUME NEW n \in Nat, n \in P PROVE n + 1 \in P
  <2>1. PICK f : Schedules(order, n, f)
    BY <1>2, Zenon
  <2> DEFINE g == [i \in 0 .. n + 1 |-> IF i = n + 1 THEN ScheduleApproved(f[n], order[n + 1]) ELSE f[i]]
  <2> HIDE DEF start
  <2>2. ASSUME NEW i \in 0 .. n + 1
        PROVE  g[i] = IF i = 0 THEN start ELSE ScheduleApproved(g[i - 1], order[i])
    <3>1. CASE i = n + 1
      <4>1. i # 0 /\ i - 1 = n /\ n \in 0 .. n + 1 /\ n # n + 1
        BY <3>1
      <4>2. g[i] = ScheduleApproved(f[n], order[n + 1]) /\ g[n] = f[n]
        BY <3>1, <4>1, Zenon
      <4> HIDE DEF g
      <4>3. QED BY <3>1, <4>1, <4>2, Zenon
    <3>2. CASE i = 0
      <4>1. g[0] = f[0] /\ f[0] = start
        BY <2>1 DEF Schedules, start
      <4>2. QED BY <3>2, <4>1, Zenon
    <3>3. CASE i \in 1 .. n
      <4>1. i \in 0 .. n /\ i # 0 /\ i # n + 1 /\ i - 1 \in 0 .. n + 1 /\ i - 1 # n + 1
        BY <3>3
      <4>2. g[i] = f[i] /\ g[i - 1] = f[i - 1]
        BY <4>1, Zenon
      <4>3. f[i] = ScheduleApproved(f[i - 1], order[i])
        BY <2>1, <4>1, Zenon DEF Schedules
      <4> HIDE DEF g
      <4>4. QED BY <4>1, <4>2, <4>3, Zenon
    <3>4. QED BY <3>1, <3>2, <3>3
  <2>3. g = [i \in 0 .. n + 1 |-> g[i]]
    BY Zenon
  <2> HIDE DEF g
  <2>4. Schedules(order, n + 1, g)
    BY <2>2, <2>3, Zenon DEF Schedules, start
  <2>5. QED BY <2>4
<1>3. Nat \subseteq P
  <2> HIDE DEF P
  <2>1. QED BY <1>1, <1>2, NatInductive, Zenon
<1>4. QED BY <1>3, Zenon

\* What the loop has scheduled: earlier proposals and those of good.
Scheduled(acc, good) ==
  /\ DOMAIN acc.changes \subseteq DOMAIN pendingChanges \cup good
  /\ DOMAIN acc.waiting \subseteq DOMAIN pendingActivations \cup good
  /\ \A i \in DOMAIN acc.waiting : acc.waiting[i].proposal = Proposals[i]

\* A round of the loop adds a proposal only when both chambers approved it,
\* whether or not an error ends the loop there (process_ended_proposals).
LEMMA RoundSchedules ==
  ASSUME NEW acc, NEW good, Scheduled(acc, good), NEW i,
         DetermineProposalOutcome(voting[i]) = "Approved" => i \in good
  PROVE  Scheduled(ScheduleApproved(acc, i), good)
<1>1. CASE acc.failed \/ DetermineProposalOutcome(voting[i]) # "Approved"
  BY <1>1, Zenon DEF ScheduleApproved
<1>2. CASE ~acc.failed /\ DetermineProposalOutcome(voting[i]) = "Approved"
  <2> DEFINE r == ScheduleApproved(acc, i)
  <2>1. i \in good
    BY <1>2, Zenon
  <2>2. \E change : r.changes = acc.changes \/ r.changes = Put(acc.changes, i, change)
    BY <1>2, Zenon DEF ScheduleApproved
  <2>3. r.waiting = acc.waiting \/ r.waiting = Put(acc.waiting, i, NewActivation(Proposals[i], paramHeight))
    BY <1>2, Zenon DEF ScheduleApproved
  <2>4. NewActivation(Proposals[i], paramHeight).proposal = Proposals[i]
    BY Zenon DEF NewActivation
  <2> HIDE DEF r
  <2>5. DOMAIN r.changes \subseteq DOMAIN acc.changes \cup {i}
    BY <2>2, Zenon DEF Put
  <2>6. CASE r.waiting = acc.waiting
    BY <2>1, <2>5, <2>6, Zenon DEF Scheduled, r
  <2>7. CASE r.waiting = Put(acc.waiting, i, NewActivation(Proposals[i], paramHeight))
    <3>1. DOMAIN r.waiting = DOMAIN acc.waiting \cup {i}
          /\ r.waiting[i] = NewActivation(Proposals[i], paramHeight)
          /\ \A j \in DOMAIN acc.waiting : j # i => r.waiting[j] = acc.waiting[j]
      BY <2>7, Zenon DEF Put
    <3>2. QED BY <2>1, <2>4, <2>5, <3>1, Zenon DEF Scheduled, r
  <2>8. QED BY <2>3, <2>6, <2>7, Zenon
<1>3. QED BY <1>1, <1>2, Zenon

\* The whole loop, in any order of the proposals.
LEMMA LoopSchedules ==
  ASSUME NEW E, NEW order \in Seq(E), NEW good,
         \A i \in E : DetermineProposalOutcome(voting[i]) = "Approved" => i \in good,
         \A i \in DOMAIN pendingActivations : pendingActivations[i].proposal = Proposals[i]
  PROVE  Scheduled(ScheduledInOrder(order)[Len(order)], good)
<1> DEFINE k == Len(order)
           Solves(f) == Schedules(order, k, f)
<1>1. k \in Nat
  OBVIOUS
<1>2. \E f : Solves(f)
  BY <1>1, ScheduleExists, Zenon
<1>3. ScheduledInOrder(order) = CHOOSE f : Solves(f)
  BY Zenon DEF ScheduledInOrder, Schedules
<1>4. PICK f : f = ScheduledInOrder(order) /\ Schedules(order, k, f)
  <2>1. Solves(CHOOSE f : Solves(f))
    <3> HIDE DEF Solves
    <3>1. QED BY <1>2, Zenon
  <2>2. QED BY <1>3, <2>1, Zenon
<1> HIDE DEF k
<1> DEFINE P == {n \in Nat : n <= k => Scheduled(f[n], good)}
<1>5. 0 \in P
  <2>1. f[0] = [failed |-> FALSE, changes |-> pendingChanges, waiting |-> pendingActivations]
    BY <1>1, <1>4 DEF Schedules
  <2>2. QED BY <2>1 DEF Scheduled
<1>6. ASSUME NEW n \in Nat, n \in P PROVE n + 1 \in P
  <2> SUFFICES ASSUME n + 1 <= k PROVE Scheduled(f[n + 1], good)
    OBVIOUS
  <2>1. n + 1 \in 0 .. k /\ n + 1 # 0 /\ (n + 1) - 1 = n /\ order[n + 1] \in E /\ Scheduled(f[n], good)
    BY <1>1, <1>6 DEF k
  <2>2. f[n + 1] = ScheduleApproved(f[n], order[n + 1])
    BY <1>4, <2>1, Zenon DEF Schedules
  <2>3. DetermineProposalOutcome(voting[order[n + 1]]) = "Approved" => order[n + 1] \in good
    BY <2>1, Zenon
  <2>4. QED BY <2>1, <2>2, <2>3, RoundSchedules, Zenon
<1>7. Nat \subseteq P
  <2> HIDE DEF P
  <2>1. QED BY <1>5, <1>6, NatInductive, Zenon
<1>8. QED BY <1>1, <1>4, <1>7 DEF k

LEMMA GovStart ==
  GovInit => GovInv
BY DEF GovInit, ParamInit, ActInit, GovInv, Passed, EmptyMap

LEMMA EndedKeeps ==
  ASSUME GovInv, ProcessEndedProposals
  PROVE  GovInv'
<1> DEFINE ended == {i \in DOMAIN voting : paramHeight >= Proposals[i].end + FinalizationGrace}
           good == {i \in ended : DetermineProposalOutcome(voting[i]) = "Approved"}
<1>1. paramHeight' = paramHeight /\ activated' = activated
  BY Zenon DEF ProcessEndedProposals
<1>2. IsFiniteSet(ended) /\ ended \subseteq DOMAIN voting /\ ended \subseteq DOMAIN Proposals
  BY GovAssumption, FS_Subset, Zenon DEF GovInv
<1>3. \A i \in ended : Proposals[i].start <= paramHeight
  BY <1>2, GovAssumption DEF GovInv
<1>4. voting' = Without(voting, ended)
  BY Zenon DEF ProcessEndedProposals
<1>5. finalized' = [i \in DOMAIN finalized \cup ended |->
                      IF i \in ended THEN [votes |-> voting[i], at |-> paramHeight,
                                           outcome |-> DetermineProposalOutcome(voting[i])]
                      ELSE finalized[i]]
  BY Zenon DEF ProcessEndedProposals
<1>6. PICK order \in Orders(ended) :
        /\ pendingChanges' = ScheduledInOrder(order)[Len(order)].changes
        /\ pendingActivations' = ScheduledInOrder(order)[Len(order)].waiting
  BY Zenon DEF ProcessEndedProposals
<1> HIDE DEF ended
<1>7. order \in Seq(ended)
  <2>1. Cardinality(ended) \in Nat
    BY <1>2, FS_CardinalityType, Zenon
  <2>2. order \in [1 .. Cardinality(ended) -> ended]
    BY Zenon DEF Orders, Injection, IsInjective
  <2>3. QED BY <2>1, <2>2
<1>8. Scheduled(ScheduledInOrder(order)[Len(order)], good)
  <2>1. \A i \in ended : DetermineProposalOutcome(voting[i]) = "Approved" => i \in good
    BY Zenon
  <2>2. \A i \in DOMAIN pendingActivations : pendingActivations[i].proposal = Proposals[i]
    BY Zenon DEF GovInv
  <2> HIDE DEF good
  <2>3. QED BY <1>7, <2>1, <2>2, LoopSchedules, Zenon
<1>9. Passed \subseteq Passed' /\ good \subseteq Passed'
  <2>1. ASSUME NEW i \in Passed PROVE i \in Passed'
    <3>1. i \in DOMAIN finalized /\ i \notin ended
      BY <1>2, Zenon DEF Passed, GovInv
    <3>2. i \in DOMAIN finalized' /\ finalized'[i] = finalized[i]
      BY <1>5, <3>1, Zenon
    <3>3. QED BY <3>2, Zenon DEF Passed
  <2>2. ASSUME NEW i \in good PROVE i \in Passed'
    <3>1. i \in DOMAIN finalized' /\ finalized'[i].votes = voting[i]
      BY <1>5, Zenon
    <3>2. QED BY <3>1, Zenon DEF Passed
  <2>3. QED BY <2>1, <2>2, Zenon
<1>10. DOMAIN pendingChanges' \subseteq DOMAIN pendingChanges \cup good
       /\ DOMAIN pendingActivations' \subseteq DOMAIN pendingActivations \cup good
       /\ \A i \in DOMAIN pendingActivations' : pendingActivations'[i].proposal = Proposals[i]
  BY <1>6, <1>8, Zenon DEF Scheduled
<1>11. DOMAIN voting' = DOMAIN voting \ ended /\ DOMAIN finalized' = DOMAIN finalized \cup ended
  BY <1>4, <1>5, Zenon DEF Without
<1>12. good \cap DOMAIN activated = {}
  BY <1>2, Zenon DEF GovInv, Passed
<1> HIDE DEF good
<1>13. QED
  BY <1>1, <1>2, <1>3, <1>9, <1>10, <1>11, <1>12, Zenon DEF GovInv

\* Each action of the coordinator keeps the invariant.
LEMMA GovStep ==
  ASSUME GovInv, [GovNext]_govVars
  PROVE  GovInv'
<1>1. CASE ParamBlock /\ UNCHANGED <<voting, finalized, connected, burnVars, actVars>>
  <2>1. /\ paramHeight' \in Nat /\ paramHeight' > paramHeight
        /\ \A i \in DOMAIN finalized : Proposals[i].start <= paramHeight'
    BY <1>1, GovAssumption DEF ParamBlock, GovInv
  <2>2. QED BY <1>1, <2>1, Zenon DEF ParamBlock, actVars, GovInv, Passed
<1>2. CASE ProcessEndedProposals
  BY <1>2, EndedKeeps, Zenon
<1>3. CASE ApplyParameterChanges
  <2>1. paramHeight' = paramHeight /\ DOMAIN pendingChanges' \subseteq DOMAIN pendingChanges
    BY <1>3, Zenon DEF ApplyParameterChanges, ApplyPendingChanges, Without
  <2>2. UNCHANGED <<voting, finalized, actVars>>
    BY <1>3, Zenon DEF ApplyParameterChanges
  <2>3. QED BY <2>1, <2>2, Zenon DEF GovInv, Passed, actVars
<1>4. CASE ExecuteBurns \/ ConnectToBlockchainState
  BY <1>4, Zenon DEF ExecuteBurns, ConnectToBlockchainState, GovInv, Passed, actVars, paramVars
<1>5. ASSUME NEW i \in DOMAIN Proposals, ProcessProposal(Proposals[i])
      PROVE  GovInv'
  <2>1. UNCHANGED <<finalized, paramVars, actVars>>
    BY <1>5, Zenon DEF ProcessProposal
  <2>2. Proposals[i].id = i /\ Proposals[i].start > paramHeight /\ Proposals[i].start < Proposals[i].end
    BY <1>5, GovAssumption, Zenon DEF ProcessProposal, ValidateProposal
  <2>3. DOMAIN voting' = DOMAIN voting \cup {i}
    BY <1>5, <2>2, Zenon DEF ProcessProposal, AddProposal, Put
  <2>4. i \notin DOMAIN finalized
    BY <2>2, GovAssumption DEF GovInv
  <2>5. QED BY <2>1, <2>2, <2>3, <2>4 DEF GovInv, Passed, paramVars, actVars
<1>6. ASSUME NEW i \in DOMAIN Proposals, ProcessActivationTransaction(i)
      PROVE  GovInv'
  <2>1. UNCHANGED <<voting, finalized, paramVars>>
    BY <1>6, Zenon DEF ProcessActivationTransaction
  <2>2. /\ i \in DOMAIN pendingActivations
        /\ activated' = Put(activated, i, pendingActivations[i].proposal)
        /\ pendingActivations' = Without(pendingActivations, {i})
    BY <1>6, Zenon DEF ProcessActivationTransaction, ProcessActivation, InWindow
  <2>3. DOMAIN activated' = DOMAIN activated \cup {i} /\ activated'[i] = Proposals[i]
        /\ \A j \in DOMAIN activated : activated'[j] = Proposals[j]
    BY <2>2, Zenon DEF Put, GovInv
  <2>4. DOMAIN pendingActivations' = DOMAIN pendingActivations \ {i}
        /\ \A j \in DOMAIN pendingActivations' : pendingActivations'[j] = pendingActivations[j]
    BY <2>2, Zenon DEF Without
  <2>5. QED BY <2>1, <2>2, <2>3, <2>4, Zenon DEF GovInv, Passed, paramVars
<1>7. ASSUME NEW i \in DOMAIN Proposals, ActivationTransactionFails(i)
      PROVE  GovInv'
  BY <1>7, Zenon DEF ActivationTransactionFails, ActivationFails, GovInv, Passed, paramVars
<1>8. ASSUME NEW b \in Ballots, ProcessVote(b)
      PROVE  GovInv'
  <2>1. DOMAIN voting' = DOMAIN voting
    BY <1>8, Zenon DEF ProcessVote, RecordVote
  <2>2. UNCHANGED <<finalized, paramVars, actVars>>
    BY <1>8, Zenon DEF ProcessVote
  <2>3. QED BY <2>1, <2>2, Zenon DEF GovInv, Passed, paramVars, actVars
<1>9. CASE UNCHANGED govVars
  BY <1>9, Zenon DEF govVars, GovInv, Passed, paramVars, actVars
<1>10. QED
  BY <1>1, <1>2, <1>3, <1>4, <1>5, <1>6, <1>7, <1>8, <1>9 DEF GovNext

\* A count that reaches the ceiling of a share reaches the share.
LEMMA CeilingCovers ==
  ASSUME NEW c \in Nat, NEW n \in Nat, NEW q \in Nat, c >= Required(n, q)
  PROVE  100 * c >= q * n
<1>1. PICK m \in Nat : m = n * q /\ m = q * n
  OBVIOUS
<1>2. c >= (m + 99) \div 100
  BY <1>1, Zenon DEF Required
<1>3. 100 * c >= m
  BY <1>2, SMT
<1>4. QED BY <1>1, <1>3, Zenon

LEMMA CountIsNat ==
  ASSUME NEW votes, NEW voters, IsFiniteSet(voters), NEW choice
  PROVE  Count(votes, voters, choice) \in Nat
<1>1. IsFiniteSet({v \in DOMAIN votes \cap voters : votes[v] = choice})
  BY FS_Subset, Zenon
<1>2. QED BY <1>1, FS_CardinalityType, Zenon DEF Count

\* The votes of both chambers that approve a proposal.
LEMMA ApprovedByBoth ==
  ASSUME NEW votes, DetermineProposalOutcome(votes) = "Approved"
  PROVE  /\ 100 * (Count(votes, Tickets, "Yes") + Count(votes, Tickets, "No"))
              >= QuorumPercent.pos * Cardinality(Tickets)
         /\ 100 * (Count(votes, MasternodeVoters, "Yes") + Count(votes, MasternodeVoters, "No"))
              >= QuorumPercent.mn * Cardinality(MasternodeVoters)
         /\ 100 * Count(votes, Tickets, "Yes")
              >= SupermajorityPercent.pos * (Count(votes, Tickets, "Yes") + Count(votes, Tickets, "No"))
         /\ 100 * Count(votes, MasternodeVoters, "Yes")
              >= SupermajorityPercent.mn
                   * (Count(votes, MasternodeVoters, "Yes") + Count(votes, MasternodeVoters, "No"))
<1>1. /\ QuorumMet(votes, Tickets, "pos") /\ QuorumMet(votes, MasternodeVoters, "mn")
      /\ Approves(votes, Tickets, "pos") /\ Approves(votes, MasternodeVoters, "mn")
  BY Zenon DEF DetermineProposalOutcome
<1>2. Cast(votes, Tickets) \in Nat /\ Cast(votes, MasternodeVoters) \in Nat
  BY GovAssumption, CountIsNat DEF Cast
<1>3. Cardinality(Tickets) \in Nat /\ Cardinality(MasternodeVoters) \in Nat
  BY GovAssumption, FS_CardinalityType, Zenon
<1>4. QuorumPercent["pos"] \in Nat /\ QuorumPercent["mn"] \in Nat
  BY GovAssumption, Zenon
<1>5. 100 * Cast(votes, Tickets) >= QuorumPercent["pos"] * Cardinality(Tickets)
  BY <1>1, <1>2, <1>3, <1>4, CeilingCovers, Zenon DEF QuorumMet
<1>6. 100 * Cast(votes, MasternodeVoters) >= QuorumPercent["mn"] * Cardinality(MasternodeVoters)
  BY <1>1, <1>2, <1>3, <1>4, CeilingCovers, Zenon DEF QuorumMet
<1>7. QED BY <1>1, <1>5, <1>6, Zenon DEF Approves, Cast, Yes

\* Nothing takes effect without both chambers, whatever the proposals, the voters,
\* the thresholds and the order in which votes, blocks and activations reach the
\* coordinator (determine_proposal_outcome, process_ended_proposals).
THEOREM BothChambersDecide ==
  GovSpec => []OnlyApprovedTakesEffect
<1>1. GovInit => GovInv
  BY GovStart, Zenon
<1>2. GovInv /\ [GovNext]_govVars => GovInv'
  BY GovStep, Zenon
<1>3. GovInv => OnlyApprovedTakesEffect
  <2> SUFFICES ASSUME GovInv,
                      NEW i \in (DOMAIN activated \cup DOMAIN pendingActivations \cup DOMAIN pendingChanges)
                                  \cap DOMAIN Proposals
               PROVE  i \in Passed
    BY ApprovedByBoth, Zenon DEF OnlyApprovedTakesEffect, Passed, Count
  <2>1. QED BY Zenon DEF GovInv
<1>4. QED
  BY <1>1, <1>2, <1>3, PTL DEF GovSpec

\* The amounts of the proposals, and which of the proposals in A spend from an account
\* or deposit into the community fund.
Amounts == [i \in DOMAIN Proposals |-> AmountOf(Proposals[i])]
SpentFrom(A, account) == {i \in A : Spends(Proposals[i]) /\ Account(Proposals[i]) = account}
DepositedBy(A) == {i \in A : Proposals[i].type = "CommunityFund" /\ ~Spends(Proposals[i])}

\* The balances are what the activated proposals leave, and none is overdrawn.
BalancesInv ==
  LET A == DOMAIN activated IN
  /\ balances = [treasury |-> balances.treasury, fund |-> balances.fund]
  /\ balances.treasury = InitialTreasury - SumOver(Amounts, SpentFrom(A, "treasury"))
  /\ balances.fund = SumOver(Amounts, DepositedBy(A)) - SumOver(Amounts, SpentFrom(A, "fund"))
  /\ balances.treasury >= 0 /\ balances.fund >= 0

LEMMA AmountsAreInts ==
  /\ \A i \in DOMAIN Proposals : Amounts[i] = AmountOf(Proposals[i]) /\ Amounts[i] \in Int
  /\ \A T \in SUBSET DOMAIN Proposals : IsFiniteSet(T) /\ SumOver(Amounts, T) \in Int
<1>1. \A i \in DOMAIN Proposals : Amounts[i] = AmountOf(Proposals[i]) /\ Amounts[i] \in Int
  BY GovAssumption DEF Amounts, AmountOf, NoValue
<1>2. ASSUME NEW T \in SUBSET DOMAIN Proposals
      PROVE  IsFiniteSet(T) /\ SumOver(Amounts, T) \in Int
  <2>1. IsFiniteSet(T)
    BY GovAssumption, FS_Subset, Zenon
  <2>2. \A i \in T : Amounts[i] \in Int
    BY <1>1, Zenon
  <2>3. QED BY <2>1, <2>2, SumInt, Zenon
<1>3. QED BY <1>1, <1>2, Zenon

LEMMA SumOneMore ==
  ASSUME NEW T \in SUBSET DOMAIN Proposals, NEW i \in DOMAIN Proposals, i \notin T
  PROVE  SumOver(Amounts, T \cup {i}) = SumOver(Amounts, T) + AmountOf(Proposals[i])
<1>1. PICK U : U = T \cup {i}
  BY Zenon
<1>2. i \in U /\ U \ {i} = T /\ U \in SUBSET DOMAIN Proposals
  BY <1>1, Zenon
<1>3. IsFiniteSet(U) /\ \A j \in U : Amounts[j] \in Int
  BY <1>2, AmountsAreInts, Zenon
<1>4. SumOver(Amounts, U) = Amounts[i] + SumOver(Amounts, U \ {i})
  BY <1>2, <1>3, SumRemove, Zenon
<1>5. PICK a \in Int, n \in Int : a = Amounts[i] /\ a = AmountOf(Proposals[i]) /\ n = SumOver(Amounts, T)
  BY AmountsAreInts, Zenon
<1>6. SumOver(Amounts, U) = a + n
  BY <1>2, <1>4, <1>5, Zenon
<1>7. a + n = n + a
  OBVIOUS
<1>8. QED BY <1>1, <1>5, <1>6, <1>7, Zenon

\* An activation moves its own amount and no other, once (process_activation,
\* apply_treasury_spend, apply_community_fund).
LEMMA ActivationBalances ==
  ASSUME GovInv, BalancesInv, NEW i \in DOMAIN Proposals, ProcessActivationTransaction(i)
  PROVE  BalancesInv'
<1> DEFINE A == DOMAIN activated
           p == Proposals[i]
           amount == AmountOf(p)
<1>1. i \in DOMAIN pendingActivations /\ pendingActivations[i].proposal = p /\ i \notin A
  BY Zenon DEF ProcessActivationTransaction, ProcessActivation, InWindow, GovInv
<1>2. Applies(p) /\ Effect(p) /\ DOMAIN activated' = A \cup {i}
  BY <1>1, Zenon DEF ProcessActivationTransaction, ProcessActivation, Put
<1>3. A \in SUBSET DOMAIN Proposals
  BY Zenon DEF GovInv, Passed
<1>4. amount \in Int /\ InitialTreasury \in Int
  BY GovAssumption DEF AmountOf, NoValue
<1>5. PICK st, sf, df : st = SpentFrom(A, "treasury") /\ sf = SpentFrom(A, "fund") /\ df = DepositedBy(A)
  BY Zenon
<1>6. st \in SUBSET DOMAIN Proposals /\ sf \in SUBSET DOMAIN Proposals /\ df \in SUBSET DOMAIN Proposals
      /\ i \notin st /\ i \notin sf /\ i \notin df
  BY <1>1, <1>3, <1>5, Zenon DEF SpentFrom, DepositedBy
<1>7. PICK t \in Int, s \in Int, d \in Int :
        t = SumOver(Amounts, st) /\ s = SumOver(Amounts, sf) /\ d = SumOver(Amounts, df)
  BY <1>6, AmountsAreInts, Zenon
<1>8. /\ SumOver(Amounts, st \cup {i}) = t + amount
      /\ SumOver(Amounts, sf \cup {i}) = s + amount
      /\ SumOver(Amounts, df \cup {i}) = d + amount
  BY <1>6, <1>7, SumOneMore, Zenon
<1>9. /\ balances = [treasury |-> balances.treasury, fund |-> balances.fund]
      /\ balances.treasury = InitialTreasury - t /\ balances.fund = d - s
      /\ balances.treasury >= 0 /\ balances.fund >= 0
  BY <1>5, <1>7, Zenon DEF BalancesInv
<1>10. CASE p.type = "TreasurySpend"
  <2>1. Spends(p) /\ Account(p) = "treasury"
    BY <1>10, Zenon DEF Spends, Account
  <2>2. balances.treasury >= amount /\ balances' = [balances EXCEPT !["treasury"] = @ - amount]
    BY <1>2, <2>1, Zenon DEF Applies, Effect
  <2>3. SpentFrom(A \cup {i}, "treasury") = st \cup {i} /\ SpentFrom(A \cup {i}, "fund") = sf
        /\ DepositedBy(A \cup {i}) = df
    BY <1>5, <2>1, Zenon DEF SpentFrom, DepositedBy
  <2> HIDE DEF amount, p
  <2>4. balances' = [treasury |-> balances.treasury - amount, fund |-> balances.fund]
    BY <1>9, <2>2, Zenon
  <2>5. InitialTreasury - (t + amount) = balances.treasury - amount /\ balances.treasury - amount >= 0
    BY <1>4, <1>9, <2>2
  <2>6. QED BY <1>2, <1>7, <1>8, <1>9, <2>3, <2>4, <2>5, Zenon DEF BalancesInv
<1>11. CASE p.type = "CommunityFund" /\ Spends(p)
  <2>1. Account(p) = "fund"
    BY <1>11, Zenon DEF Account
  <2>2. balances.fund >= amount /\ balances' = [balances EXCEPT !["fund"] = @ - amount]
    BY <1>2, <1>11, <2>1, Zenon DEF Applies, Effect
  <2>3. SpentFrom(A \cup {i}, "fund") = sf \cup {i} /\ SpentFrom(A \cup {i}, "treasury") = st
        /\ DepositedBy(A \cup {i}) = df
    BY <1>5, <1>11, <2>1, Zenon DEF SpentFrom, DepositedBy
  <2> HIDE DEF amount, p
  <2>4. balances' = [treasury |-> balances.treasury, fund |-> balances.fund - amount]
    BY <1>9, <2>2, Zenon
  <2>5. d - (s + amount) = balances.fund - amount /\ balances.fund - amount >= 0
    BY <1>4, <1>9, <2>2
  <2>6. QED BY <1>2, <1>7, <1>8, <1>9, <2>3, <2>4, <2>5, Zenon DEF BalancesInv
<1>12. CASE p.type = "CommunityFund" /\ ~Spends(p)
  <2>1. amount = p.amount /\ amount >= 0
    BY <1>12, GovAssumption DEF AmountOf
  <2>2. balances' = [balances EXCEPT !["fund"] = @ + amount]
    BY <1>2, <1>12, <2>1, Zenon DEF Effect
  <2>3. DepositedBy(A \cup {i}) = df \cup {i} /\ SpentFrom(A \cup {i}, "treasury") = st
        /\ SpentFrom(A \cup {i}, "fund") = sf
    BY <1>5, <1>12, Zenon DEF SpentFrom, DepositedBy
  <2> HIDE DEF amount, p
  <2>4. balances' = [treasury |-> balances.treasury, fund |-> balances.fund + amount]
    BY <1>9, <2>2, Zenon
  <2>5. (d + amount) - s = balances.fund + amount /\ balances.fund + amount >= 0
    BY <1>4, <1>9, <2>1
  <2>6. QED BY <1>2, <1>7, <1>8, <1>9, <2>3, <2>4, <2>5, Zenon DEF BalancesInv
<1>13. CASE p.type \notin {"TreasurySpend", "CommunityFund"}
  <2>1. ~Spends(p)
    BY <1>13, Zenon DEF Spends
  <2>2. balances' = balances
    BY <1>2, <1>13, <2>1, Zenon DEF Effect
  <2>3. SpentFrom(A \cup {i}, "treasury") = st /\ SpentFrom(A \cup {i}, "fund") = sf
        /\ DepositedBy(A \cup {i}) = df
    BY <1>5, <1>13, <2>1, Zenon DEF SpentFrom, DepositedBy
  <2>4. QED BY <1>2, <1>7, <1>9, <2>2, <2>3, Zenon DEF BalancesInv
<1>14. QED BY <1>10, <1>11, <1>12, <1>13, Zenon

LEMMA BalancesStart ==
  GovInit => BalancesInv
<1> SUFFICES ASSUME GovInit PROVE BalancesInv
  BY Zenon
<1>1. DOMAIN activated = {} /\ balances = [treasury |-> InitialTreasury, fund |-> 0]
  BY Zenon DEF GovInit, ActInit, EmptyMap
<1>2. SpentFrom({}, "treasury") = {} /\ SpentFrom({}, "fund") = {} /\ DepositedBy({}) = {}
  BY Zenon DEF SpentFrom, DepositedBy
<1>3. SumOver(Amounts, {}) = 0
  BY SumEmpty, Zenon
<1>4. InitialTreasury \in Nat
  BY GovAssumption, Zenon
<1>5. InitialTreasury - 0 = InitialTreasury /\ 0 - 0 = 0 /\ InitialTreasury >= 0
  BY <1>4
<1>6. balances.treasury = InitialTreasury /\ balances.fund = 0
  BY <1>1, Zenon
<1>7. balances = [treasury |-> balances.treasury, fund |-> balances.fund]
  BY <1>1, <1>6, Zenon
<1>8. /\ SumOver(Amounts, SpentFrom(DOMAIN activated, "treasury")) = 0
      /\ SumOver(Amounts, SpentFrom(DOMAIN activated, "fund")) = 0
      /\ SumOver(Amounts, DepositedBy(DOMAIN activated)) = 0
  BY <1>1, <1>2, <1>3, Zenon
<1>9. QED BY <1>5, <1>6, <1>7, <1>8 DEF BalancesInv

LEMMA BalancesStep ==
  ASSUME GovInv, BalancesInv, [GovNext]_govVars
  PROVE  BalancesInv'
<1>1. CASE UNCHANGED <<activated, balances>>
  BY <1>1, Zenon DEF BalancesInv
<1>2. ASSUME NEW i \in DOMAIN Proposals, ProcessActivationTransaction(i)
      PROVE  BalancesInv'
  BY <1>2, ActivationBalances, Zenon
<1>3. (\E i \in DOMAIN Proposals : ProcessActivationTransaction(i)) \/ UNCHANGED <<activated, balances>>
  <2>1. CASE ProcessEndedProposals
    BY <2>1, Zenon DEF ProcessEndedProposals
  <2>2. CASE \E i \in DOMAIN Proposals : ActivationTransactionFails(i)
    BY <2>2, Zenon DEF ActivationTransactionFails, ActivationFails
  <2>3. QED
    BY <2>1, <2>2, Zenon
       DEF GovNext, govVars, actVars, ApplyParameterChanges, ExecuteBurns, ConnectToBlockchainState,
           ProcessProposal, ProcessVote
<1>4. QED BY <1>1, <1>2, <1>3, Zenon

\* Every coin that leaves the treasury or the community fund belongs to exactly one
\* activated spend, and neither balance is overdrawn, for any number of proposals and
\* any amounts, through failed activations and retries (process_activation).
THEOREM BalancesAreExact ==
  GovSpec => []SpendsAreCovered
<1>1. GovInit => GovInv /\ BalancesInv
  BY GovStart, BalancesStart, Zenon
<1>2. GovInv /\ BalancesInv /\ [GovNext]_govVars => (GovInv /\ BalancesInv)'
  BY GovStep, BalancesStep, Zenon
<1>3. GovInv /\ BalancesInv => SpendsAreCovered
  <2> SUFFICES ASSUME GovInv, BalancesInv PROVE SpendsAreCovered
    BY Zenon
  <2> DEFINE A == DOMAIN activated
             f == [i \in A |-> AmountOf(activated[i])]
             spent(account) == {i \in A : Spends(activated[i]) /\ Account(activated[i]) = account}
             deposits == {i \in A : activated[i].type = "CommunityFund"} \ spent("fund")
  <2>1. A \in SUBSET DOMAIN Proposals /\ \A i \in A : activated[i] = Proposals[i] /\ f[i] = Amounts[i]
    BY Zenon DEF GovInv, Passed, Amounts
  <2>2. spent("treasury") = SpentFrom(A, "treasury") /\ spent("fund") = SpentFrom(A, "fund")
    BY <2>1, Zenon DEF SpentFrom
  <2>3. deposits = DepositedBy(A)
    BY <2>1, Zenon DEF DepositedBy, Account, Spends
  <2>4. ASSUME NEW T \in SUBSET A
        PROVE  SumOver(f, T) = SumOver(Amounts, T)
    <3>1. IsFiniteSet(T) /\ \A i \in T : f[i] = Amounts[i]
      BY <2>1, AmountsAreInts, Zenon
    <3> HIDE DEF f
    <3>2. QED BY <3>1, SumSame, Zenon
  <2>5. spent("treasury") \in SUBSET A /\ spent("fund") \in SUBSET A /\ deposits \in SUBSET A
    BY Zenon
  <2> HIDE DEF f
  <2>6. /\ SumOver(f, spent("treasury")) = SumOver(Amounts, SpentFrom(A, "treasury"))
        /\ SumOver(f, spent("fund")) = SumOver(Amounts, SpentFrom(A, "fund"))
        /\ SumOver(f, deposits) = SumOver(Amounts, DepositedBy(A))
    <3> HIDE DEF spent, deposits, A
    <3>1. QED BY <2>2, <2>3, <2>4, <2>5, Zenon
  <2>7. QED
    BY <2>6, Zenon DEF SpendsAreCovered, BalancesInv, f
<1>4. QED
  BY <1>1, <1>2, <1>3, PTL DEF GovSpec

-----------------------------------------------------------------------------
(***************************************************************************)
(* The transaction builder of the wallet, for all coins, amounts, fees and *)
(* answers of a node: no transaction spends more than its inputs hold, and *)
(* none spends a coin a second time.                                       *)
(***************************************************************************)

\* The sums of sequences of amounts.
LEMMA SumOfAmounts ==
  ASSUME NEW values \in Seq(Nat)
  PROVE  SumOf(values) \in Nat
<1>1. DOMAIN values = 1 .. Len(values) /\ Len(values) \in Nat /\ \A i \in DOMAIN values : values[i] \in Nat
  OBVIOUS
<1>2. IsFiniteSet(DOMAIN values)
  BY <1>1, FS_Interval
<1>3. QED BY <1>1, <1>2, SumNat, Zenon DEF SumOf

LEMMA SumOfAppend ==
  ASSUME NEW values \in Seq(Nat), NEW v \in Nat
  PROVE  SumOf(Append(values, v)) = SumOf(values) + v
<1>1. PICK w : w = Append(values, v)
  BY Zenon
<1>2. PICK n \in Nat : n = Len(values)
  OBVIOUS
<1>3. w \in Seq(Nat) /\ DOMAIN w = 1 .. n + 1 /\ w[n + 1] = v /\ DOMAIN values = 1 .. n
      /\ \A i \in 1 .. n : w[i] = values[i]
  BY <1>1, <1>2
<1>4. PICK T : T = DOMAIN w
  BY Zenon
<1>5. IsFiniteSet(T) /\ IsFiniteSet(1 .. n)
  BY <1>3, <1>4, FS_Interval
<1>6. n + 1 \in T /\ T \ {n + 1} = 1 .. n /\ \A i \in T : w[i] \in Int
  BY <1>3, <1>4
<1>7. SumOver(w, T) = w[n + 1] + SumOver(w, T \ {n + 1})
  BY <1>5, <1>6, SumRemove, Zenon
<1>8. SumOver(w, 1 .. n) = SumOver(values, 1 .. n)
  BY <1>3, <1>5, SumSame, Zenon
<1>9. PICK sum \in Nat : sum = SumOf(values)
  BY SumOfAmounts, Zenon
<1>10. SumOver(values, 1 .. n) = sum
  BY <1>3, <1>9, Zenon DEF SumOf
<1>11. SumOver(w, T) = v + sum
  BY <1>3, <1>6, <1>7, <1>8, <1>10, Zenon
<1>12. SumOf(w) = SumOver(w, T)
  BY <1>4, Zenon DEF SumOf
<1>13. v + sum = sum + v
  OBVIOUS
<1>14. QED BY <1>1, <1>9, <1>11, <1>12, <1>13, Zenon

LEMMA SumOfOne ==
  ASSUME NEW v \in Nat
  PROVE  SumOf(<<v>>) = v
<1>1. SumOf(<<>>) = 0
  BY SumEmpty DEF SumOf
<1>2. <<>> \in Seq(Nat) /\ Append(<<>>, v) = <<v>>
  OBVIOUS
<1>3. SumOf(<<v>>) = 0 + v
  BY <1>1, <1>2, SumOfAppend, Zenon
<1>4. QED BY <1>3

\* Change up to the dust limit is left to the miner, the rest is one more output.
LEMMA ChangeAdds ==
  ASSUME NEW outs \in Seq(Nat), NEW change \in Int
  PROVE  /\ WithChange(outs, change) \in Seq(Nat)
         /\ SumOf(WithChange(outs, change)) = SumOf(outs)
            \/ (change > 0 /\ SumOf(WithChange(outs, change)) = SumOf(outs) + change)
<1>1. WbDust \in Nat
  BY WalletAssumption, Zenon
<1>2. CASE change > WbDust
  <2>1. change \in Nat /\ change > 0
    BY <1>1, <1>2
  <2>2. Append(outs, change) \in Seq(Nat)
    BY <2>1
  <2>3. QED BY <1>2, <2>1, <2>2, SumOfAppend, Zenon DEF WithChange
<1>3. CASE ~(change > WbDust)
  BY <1>3, Zenon DEF WithChange
<1>4. QED BY <1>2, <1>3, Zenon

\* A coin of the builder has its three fields, and keeps the others when marked.
CoinOf(r) == r = [coinbase |-> r.coinbase, confirmations |-> r.confirmations, spent |-> r.spent]

LEMMA MarkedCoin ==
  ASSUME NEW r, CoinOf(r)
  PROVE  CoinOf([r EXCEPT !.spent = TRUE]) /\ [r EXCEPT !.spent = TRUE].spent = TRUE
<1>1. PICK a, b, c : r = [coinbase |-> a, confirmations |-> b, spent |-> c]
  BY Zenon DEF CoinOf
<1>2. \A v : [r EXCEPT !.spent = v] = [coinbase |-> a, confirmations |-> b, spent |-> v]
  BY <1>1
<1>3. [r EXCEPT !.spent = TRUE] = [coinbase |-> a, confirmations |-> b, spent |-> TRUE]
  BY <1>2, Zenon
<1>4. QED BY <1>3, Zenon DEF CoinOf

\* The coins are known outpoints, a coin that was spent by a built transaction and
\* not reported since is marked, and the last transaction is covered.
WalletInv ==
  /\ DOMAIN wbCoins \subseteq DOMAIN WbAmount /\ wbUsed \subseteq DOMAIN WbAmount
  /\ \A c \in DOMAIN wbCoins : CoinOf(wbCoins[c])
  /\ \A c \in wbUsed \cap DOMAIN wbCoins : wbCoins[c].spent = TRUE
  /\ wbLast = [inputs |-> wbLast.inputs, outs |-> wbLast.outs, fee |-> wbLast.fee,
               reused |-> wbLast.reused, signed |-> wbLast.signed]
  /\ wbLast.reused = {}
  /\ SumOf(AmountsOf(wbLast.inputs)) >= SumOf(wbLast.outs)

\* What either selection returns: coins that may be spent, of enough value.
LEMMA SelectionPays ==
  ASSUME WalletInv, NEW target, NEW least \in Nat, NEW s \in SelectUntil(target, least)
  PROVE  /\ s \in Seq(get_spendable_utxos) /\ Len(s) >= least
         /\ AmountsOf(s) \in Seq(Nat) /\ Total(s) \in Nat /\ Total(s) >= target
<1> DEFINE K == get_spendable_utxos
<1>1. K \subseteq DOMAIN WbAmount /\ IsFiniteSet(K)
  BY WalletAssumption, FS_Subset, Zenon DEF WalletInv, get_spendable_utxos
<1>2. PICK order \in LargestFirst : \E n \in least .. Cardinality(K) : s = SubSeq(order, 1, n)
  BY DEF SelectUntil
<1>3. PICK n \in least .. Cardinality(K) : s = SubSeq(order, 1, n)
  BY <1>2, Zenon
<1>4. Total(s) >= target
  BY DEF SelectUntil
<1>5. Cardinality(K) \in Nat
  BY <1>1, FS_CardinalityType, Zenon
<1>6. order \in [1 .. Cardinality(K) -> K]
  BY Zenon DEF LargestFirst, Orders, Injection, IsInjective
<1> HIDE DEF K
<1>7. order \in Seq(K) /\ Len(order) = Cardinality(K)
  BY <1>5, <1>6
<1>8. n \in Nat /\ n >= least /\ n <= Len(order)
  BY <1>3, <1>5, <1>7
<1>9. s \in Seq(K) /\ Len(s) = n
  BY <1>3, <1>7, <1>8
<1>10. AmountsOf(s) \in Seq(Nat)
  <2>1. \A i \in 1 .. n : s[i] \in DOMAIN WbAmount
    BY <1>1, <1>8, <1>9
  <2>2. \A i \in 1 .. n : WbAmount[s[i]] \in Nat
    BY <2>1, WalletAssumption, Zenon
  <2>3. AmountsOf(s) = [i \in 1 .. n |-> WbAmount[s[i]]]
    BY <1>9 DEF AmountsOf
  <2>4. AmountsOf(s) \in [1 .. n -> Nat]
    BY <2>2, <2>3, Zenon
  <2>5. QED BY <1>8, <2>4
<1>11. Total(s) \in Nat
  BY <1>10, SumOfAmounts, Zenon DEF Total
<1>12. QED BY <1>4, <1>8, <1>9, <1>10, <1>11, Zenon DEF K

\* The entries of an answer before the first that cannot be read are outpoints.
LEMMA AnswerIsRead ==
  ASSUME NEW answer \in WbAnswers,
         NEW bad, bad = {i \in DOMAIN answer : answer[i] = "malformed"}
  PROVE  Range(IF bad = {} THEN answer ELSE SubSeq(answer, 1, Min(bad) - 1)) \subseteq DOMAIN WbAmount
<1>1. answer \in Seq(DOMAIN WbAmount \cup {"malformed"})
  BY WalletAssumption, Zenon
<1>2. CASE bad = {}
  <2>1. Range(answer) \subseteq DOMAIN WbAmount
    BY <1>1, <1>2 DEF Range
  <2>2. QED BY <1>2, <2>1, Zenon
<1>3. CASE bad # {}
  <2>1. bad \subseteq Nat /\ bad \subseteq 1 .. Len(answer)
    BY <1>1
  <2>2. \E n \in bad : \A m \in bad : n <= m
    BY <1>3, <2>1, LeastNat, Zenon
  <2>3. PICK k \in bad : k = Min(bad) /\ \A m \in bad : k <= m
    BY <2>2, Zenon DEF Min
  <2>4. PICK n \in Nat : n = k - 1 /\ n < Len(answer)
    <3>1. Len(answer) \in Nat /\ k \in Nat /\ k >= 1 /\ k <= Len(answer)
      BY <1>1, <2>1
    <3>2. k - 1 \in Nat /\ k - 1 < Len(answer)
      BY <3>1
    <3>3. QED BY <3>2, Zenon
  <2>5. PICK r : r = SubSeq(answer, 1, n)
    BY Zenon
  <2>6. DOMAIN r = 1 .. n /\ \A i \in 1 .. n : r[i] = answer[i]
    BY <1>1, <2>4, <2>5
  <2>7. \A i \in 1 .. n : answer[i] \in DOMAIN WbAmount
    BY <1>1, <2>1, <2>3, <2>4
  <2>8. Range(r) \subseteq DOMAIN WbAmount
    BY <2>6, <2>7, Zenon DEF Range
  <2>9. QED BY <1>3, <2>3, <2>4, <2>5, <2>8, Zenon
<1>4. QED BY <1>2, <1>3, Zenon

\* A reported coin is fresh, and is no longer counted as spent.
LEMMA ReportKeeps ==
  ASSUME WalletInv, NEW c \in DOMAIN WbAmount, NEW coinbase, NEW confirmations,
         Report(Put(wbCoins, c, UtxoInfo(coinbase, confirmations)), {c})
  PROVE  WalletInv'
<1>1. /\ DOMAIN wbCoins' = DOMAIN wbCoins \cup {c} /\ wbCoins'[c] = UtxoInfo(coinbase, confirmations)
      /\ \A d \in DOMAIN wbCoins : d # c => wbCoins'[d] = wbCoins[d]
  BY Zenon DEF Report, Put
<1>2. wbUsed' = wbUsed \ {c} /\ wbLast' = wbLast
  BY Zenon DEF Report
<1>3. CoinOf(UtxoInfo(coinbase, confirmations))
  BY Zenon DEF UtxoInfo, CoinOf
<1>4. \A d \in DOMAIN wbCoins' : CoinOf(wbCoins'[d])
  BY <1>1, <1>3, Zenon DEF WalletInv
<1>5. \A d \in wbUsed' \cap DOMAIN wbCoins' : wbCoins'[d].spent = TRUE
  BY <1>1, <1>2, Zenon DEF WalletInv
<1>6. QED BY <1>1, <1>2, <1>4, <1>5, Zenon DEF WalletInv

LEMMA RefreshKeeps ==
  ASSUME WalletInv, NEW answer \in WbAnswers, NEW confirmations,
         refresh_utxos_from_node(answer, confirmations)
  PROVE  WalletInv'
<1>1. PICK coins : /\ coins \subseteq DOMAIN WbAmount
                   /\ wbCoins' = [c \in coins |-> UtxoInfo(FALSE, confirmations)]
  BY AnswerIsRead, Zenon DEF refresh_utxos_from_node, Report
<1>2. wbUsed' = {} /\ wbLast' = wbLast
  BY Zenon DEF refresh_utxos_from_node, Report, WalletInv
<1>3. DOMAIN wbCoins' = coins
      /\ \A d \in coins : wbCoins'[d] = [coinbase |-> FALSE, confirmations |-> confirmations, spent |-> FALSE]
  BY <1>1, Zenon DEF UtxoInfo
<1>4. QED BY <1>1, <1>2, <1>3, Zenon DEF WalletInv, CoinOf

\* build_transaction compares its single input with the outputs it made.
LEMMA SimpleBuildKeeps ==
  ASSUME WalletInv, NEW amount \in WbPayments, NEW rate \in WbRates, build_transaction(amount, rate)
  PROVE  WalletInv'
<1> DEFINE needed == amount + rate * estimate_transaction_size(1, 2)
<1>1. PICK selected \in SelectUntil(needed, 1) :
        LET outs == WithChange(<<amount>>, Total(selected) - needed)
            fee == WbAmount[selected[1]] - SumOf(outs)
        IN  /\ fee >= 0
            /\ wbLast' = [inputs |-> <<selected[1]>>, outs |-> outs, fee |-> fee,
                          reused |-> {}, signed |-> 0]
            /\ UNCHANGED <<wbCoins, wbUsed>>
  BY Zenon DEF build_transaction, select_utxos_for_amount
<1>2. needed \in Int
  BY WalletAssumption DEF estimate_transaction_size
<1> HIDE DEF needed
<1>3. Total(selected) \in Nat /\ Len(selected) >= 1 /\ selected \in Seq(get_spendable_utxos)
  BY SelectionPays, Zenon
<1>4. selected[1] \in DOMAIN WbAmount
  BY <1>3 DEF get_spendable_utxos, WalletInv
<1>5. PICK v \in Nat : v = WbAmount[selected[1]]
  BY <1>4, WalletAssumption, Zenon
<1>6. PICK outs \in Seq(Nat) : outs = WithChange(<<amount>>, Total(selected) - needed)
  <2>1. <<amount>> \in Seq(Nat) /\ Total(selected) - needed \in Int
    BY <1>2, <1>3, WalletAssumption
  <2>2. QED BY <2>1, ChangeAdds, Zenon
<1>7. SumOf(outs) \in Nat
  BY SumOfAmounts, Zenon
<1>8. v >= SumOf(outs)
  BY <1>1, <1>5, <1>6, <1>7
<1>9. AmountsOf(<<selected[1]>>) = <<v>>
  BY <1>5 DEF AmountsOf
<1>10. SumOf(AmountsOf(<<selected[1]>>)) = v
  BY <1>9, SumOfOne, Zenon
<1>11. wbLast'.inputs = <<selected[1]>> /\ wbLast'.outs = outs /\ wbLast'.reused = {}
  BY <1>1, <1>6, Zenon
<1>12. wbLast' = [inputs |-> wbLast'.inputs, outs |-> wbLast'.outs, fee |-> wbLast'.fee,
                  reused |-> wbLast'.reused, signed |-> wbLast'.signed]
  BY <1>1, Zenon
<1>13. wbCoins' = wbCoins /\ wbUsed' = wbUsed
  BY <1>1, Zenon
<1>14. QED BY <1>8, <1>10, <1>11, <1>12, <1>13 DEF WalletInv

\* build_transaction_with_script_types marks the coins it selects, and selects none
\* that is marked; the fee of all inputs only lowers the change.
LEMMA ScriptBuildKeeps ==
  ASSUME WalletInv, NEW outputs \in WbOutputs, NEW rate \in WbRates,
         build_transaction_with_script_types(outputs, rate)
  PROVE  WalletInv'
<1> DEFINE sent == [i \in DOMAIN outputs |-> outputs[i].amount]
           needed == SumOf(sent) + rate * estimate_transaction_size(1, Len(sent))
           Fee(s) == rate * estimate_transaction_size(Len(s), Len(sent))
           Change(s) == Max({Total(s) - (SumOf(sent) + Fee(s)), 0})
<1>1. PICK selected \in SelectUntil(needed, 0) :
        /\ wbLast' = [inputs |-> selected, outs |-> WithChange(sent, Change(selected)),
                      fee |-> Fee(selected), reused |-> Range(selected) \cap wbUsed, signed |-> 0]
        /\ wbCoins' = [c \in DOMAIN wbCoins |->
                         IF c \in Range(selected) THEN [wbCoins[c] EXCEPT !.spent = TRUE] ELSE wbCoins[c]]
        /\ wbUsed' = wbUsed \cup Range(selected)
  BY Zenon DEF build_transaction_with_script_types, select_utxos_greedy
<1>2. sent \in Seq(Nat)
  <2>1. outputs \in Seq([amount : Nat, opReturn : BOOLEAN])
    BY WalletAssumption, Zenon
  <2>2. /\ DOMAIN outputs = 1 .. Len(outputs) /\ Len(outputs) \in Nat
        /\ \A i \in DOMAIN outputs : outputs[i] \in [amount : Nat, opReturn : BOOLEAN]
    BY <2>1, PlacesOf, Zenon
  <2>3. sent \in [1 .. Len(outputs) -> Nat]
    BY <2>2, Zenon
  <2>4. QED BY <2>2, <2>3, SeqOfPlaces, Zenon
<1> HIDE DEF sent
<1>3. PICK sum \in Nat : sum = SumOf(sent)
  BY <1>2, SumOfAmounts, Zenon
<1>4. selected \in Seq(get_spendable_utxos) /\ AmountsOf(selected) \in Seq(Nat) /\ Total(selected) >= needed
  <2> HIDE DEF needed
  <2>1. QED BY SelectionPays, Zenon
<1>5. PICK total \in Nat : total = Total(selected) /\ total = SumOf(AmountsOf(selected))
  BY <1>4, SumOfAmounts, Zenon DEF Total
<1>6. estimate_transaction_size(1, Len(sent)) \in Nat /\ estimate_transaction_size(Len(selected), Len(sent)) \in Nat
  <2>1. Len(sent) \in Nat /\ Len(selected) \in Nat
    BY <1>2, <1>4
  <2>2. BaseSize \in Nat /\ InputSize \in Nat /\ OutputSize \in Nat
    BY WalletAssumption, Zenon
  <2>3. \A a, b \in Nat : a * b \in Nat
    OBVIOUS
  <2>4. QED BY <2>1, <2>2, <2>3 DEF estimate_transaction_size
<1>7. rate * estimate_transaction_size(1, Len(sent)) \in Nat /\ Fee(selected) \in Nat
  <2>1. rate \in Nat
    BY WalletAssumption, Zenon
  <2>2. \A a, b \in Nat : a * b \in Nat
    OBVIOUS
  <2>3. QED BY <1>6, <2>1, <2>2, Zenon
<1>8. total >= sum
  BY <1>3, <1>4, <1>5, <1>7
<1>9. PICK fee \in Nat : fee = Fee(selected)
  BY <1>7, Zenon
<1> HIDE DEF Fee
<1>10. PICK change \in Int : change = Change(selected) /\ (change = total - (sum + fee) \/ change = 0)
  <2>1. PICK x \in Int : x = total - (sum + fee)
    OBVIOUS
  <2>2. \E m \in {x, 0} : \A y \in {x, 0} : m >= y
    <3>1. CASE x >= 0
      BY <3>1
    <3>2. CASE ~(x >= 0)
      BY <3>2
    <3>3. QED BY <3>1, <3>2, Zenon
  <2>3. Max({x, 0}) \in {x, 0}
    BY <2>2, Zenon DEF Max
  <2>4. Change(selected) = Max({x, 0})
    BY <1>3, <1>5, <1>9, <2>1, Zenon
  <2>5. QED BY <2>1, <2>3, <2>4
<1> HIDE DEF Change
<1>11. SumOf(WithChange(sent, change)) <= total
  <2>1. PICK n : n = SumOf(WithChange(sent, change)) /\ (n = sum \/ (change > 0 /\ n = sum + change))
    BY <1>2, <1>3, <1>10, ChangeAdds, Zenon
  <2>2. QED BY <1>8, <1>10, <2>1
<1>12. \A c \in Range(selected) : c \in DOMAIN wbCoins /\ ~wbCoins[c].spent
  BY <1>4 DEF Range, get_spendable_utxos, is_spendable
<1>13. Range(selected) \cap wbUsed = {}
  BY <1>12, Zenon DEF WalletInv
<1>14. /\ DOMAIN wbCoins' = DOMAIN wbCoins
       /\ \A c \in DOMAIN wbCoins :
            /\ CoinOf(wbCoins'[c])
            /\ IF c \in Range(selected) THEN wbCoins'[c].spent = TRUE
                                         ELSE wbCoins'[c].spent = wbCoins[c].spent
  <2>1. \A c \in DOMAIN wbCoins :
          /\ CoinOf([wbCoins[c] EXCEPT !.spent = TRUE])
          /\ [wbCoins[c] EXCEPT !.spent = TRUE].spent = TRUE
    BY MarkedCoin, Zenon DEF WalletInv
  <2>2. QED BY <1>1, <2>1, Zenon DEF WalletInv
<1>15. wbLast'.inputs = selected /\ wbLast'.outs = WithChange(sent, change) /\ wbLast'.reused = {}
  BY <1>1, <1>10, <1>13, Zenon
<1>16. wbLast' = [inputs |-> wbLast'.inputs, outs |-> wbLast'.outs, fee |-> wbLast'.fee,
                  reused |-> wbLast'.reused, signed |-> wbLast'.signed]
  BY <1>1, Zenon
<1>17. \A c \in wbUsed' \cap DOMAIN wbCoins' : wbCoins'[c].spent = TRUE
  BY <1>1, <1>14, Zenon DEF WalletInv
<1>18. wbUsed' \subseteq DOMAIN WbAmount
  BY <1>1, <1>12, Zenon DEF WalletInv
<1>19. PICK n \in Nat : n = SumOf(WithChange(sent, change))
  BY <1>2, <1>10, ChangeAdds, SumOfAmounts, Zenon
<1>20. SumOf(AmountsOf(wbLast'.inputs)) >= SumOf(wbLast'.outs)
  BY <1>5, <1>11, <1>15, <1>19, Zenon
<1>21. QED BY <1>14, <1>15, <1>16, <1>17, <1>18, <1>20 DEF WalletInv

LEMMA WalletStart ==
  WbInit => WalletInv
<1> SUFFICES ASSUME WbInit PROVE WalletInv
  OBVIOUS
<1>1. AmountsOf(<<>>) = <<>>
  BY DEF AmountsOf
<1>2. SumOf(<<>>) = 0
  BY SumEmpty DEF SumOf
<1>3. wbLast.inputs = <<>> /\ wbLast.outs = <<>> /\ wbLast.reused = {}
  BY Zenon DEF WbInit, NotBuilt
<1>4. SumOf(AmountsOf(wbLast.inputs)) >= SumOf(wbLast.outs)
  BY <1>1, <1>2, <1>3
<1>5. QED BY <1>3, <1>4, Zenon DEF WbInit, NotBuilt, EmptyMap, WalletInv

LEMMA WalletStep ==
  ASSUME WalletInv, [WbNext]_wbVars
  PROVE  WalletInv'
<1>1. ASSUME NEW c \in DOMAIN WbAmount, add_utxo(c) PROVE WalletInv'
  BY <1>1, ReportKeeps, Zenon DEF add_utxo
<1>2. ASSUME NEW c \in DOMAIN WbAmount, NEW n \in WbConfirmations, add_utxo_full(c, n) PROVE WalletInv'
  BY <1>2, ReportKeeps, Zenon DEF add_utxo_full
<1>3. ASSUME NEW c \in DOMAIN WbAmount, mark_utxo_spent(c) PROVE WalletInv'
  <2>1. c \in DOMAIN wbCoins /\ wbCoins' = [wbCoins EXCEPT ![c].spent = TRUE]
        /\ UNCHANGED <<wbLast, wbUsed>>
    BY <1>3, Zenon DEF mark_utxo_spent
  <2>2. DOMAIN wbCoins' = DOMAIN wbCoins /\ wbCoins'[c] = [wbCoins[c] EXCEPT !.spent = TRUE]
        /\ \A d \in DOMAIN wbCoins : d # c => wbCoins'[d] = wbCoins[d]
    BY <2>1, Zenon
  <2>3. CoinOf(wbCoins'[c]) /\ wbCoins'[c].spent = TRUE
    BY <2>1, <2>2, MarkedCoin, Zenon DEF WalletInv
  <2>4. \A d \in DOMAIN wbCoins : CoinOf(wbCoins'[d])
    BY <2>2, <2>3, Zenon DEF WalletInv
  <2>5. QED BY <2>1, <2>2, <2>3, <2>4, Zenon DEF WalletInv
<1>4. ASSUME NEW answer \in WbAnswers, NEW n \in WbConfirmations, refresh_utxos_from_node(answer, n)
      PROVE  WalletInv'
  BY <1>4, RefreshKeeps, Zenon
<1>5. ASSUME NEW rate \in WbRates, NEW amount \in WbPayments, build_transaction(amount, rate)
      PROVE  WalletInv'
  BY <1>5, SimpleBuildKeeps, Zenon
<1>6. ASSUME NEW rate \in WbRates, NEW outputs \in WbOutputs,
             build_transaction_with_script_types(outputs, rate)
      PROVE  WalletInv'
  BY <1>6, ScriptBuildKeeps, Zenon
<1>7. CASE sign_transaction
  <2>1. PICK n : wbLast' = [wbLast EXCEPT !.signed = n] /\ UNCHANGED <<wbCoins, wbUsed>>
    BY <1>7, Zenon DEF sign_transaction
  <2>2. wbLast' = [inputs |-> wbLast.inputs, outs |-> wbLast.outs, fee |-> wbLast.fee,
                   reused |-> wbLast.reused, signed |-> n]
    BY <2>1, Zenon DEF WalletInv
  <2>3. wbLast'.inputs = wbLast.inputs /\ wbLast'.outs = wbLast.outs /\ wbLast'.reused = wbLast.reused
        /\ wbLast' = [inputs |-> wbLast'.inputs, outs |-> wbLast'.outs, fee |-> wbLast'.fee,
                      reused |-> wbLast'.reused, signed |-> wbLast'.signed]
    BY <2>2, Zenon
  <2>4. QED BY <2>1, <2>3, Zenon DEF WalletInv
<1>8. CASE UNCHANGED wbVars
  BY <1>8, Zenon DEF wbVars, WalletInv
<1>9. QED
  BY <1>1, <1>2, <1>3, <1>4, <1>5, <1>6, <1>7, <1>8 DEF WbNext

\* No transaction that the wallet builds spends more than its inputs hold, not
\* counting a coin that an earlier transaction spent, whatever the coins, the
\* payments, the fees and the answers of the node (build_transaction,
\* build_transaction_with_script_types).
THEOREM InputsCoverOutputs ==
  WbSpec => []NeverOverspends
<1>1. WbInit => WalletInv
  BY WalletStart
<1>2. WalletInv /\ [WbNext]_wbVars => WalletInv'
  BY WalletStep
<1>3. WalletInv => NeverOverspends
  <2> SUFFICES ASSUME WalletInv PROVE NeverOverspends
    BY Zenon
  <2>1. {i \in DOMAIN wbLast.inputs : wbLast.inputs[i] \notin wbLast.reused} = DOMAIN AmountsOf(wbLast.inputs)
    BY Zenon DEF WalletInv, AmountsOf
  <2>2. QED BY <2>1, Zenon DEF WalletInv, NeverOverspends, SumOf
<1>4. QED
  BY <1>1, <1>2, <1>3, PTL DEF WbSpec

-----------------------------------------------------------------------------
(***************************************************************************)
(* The fees of mixes: what is paid or pending was once a fee, and a fee is *)
(* what the participants of its mix gave up, and the remainder.            *)
(***************************************************************************)

\* The mixes whose fee was distributed.
MixOf(m) ==
  /\ m.amount \in MixAmounts /\ m.n \in MixSizes
  /\ m.fee \in Nat /\ m.fee <= 100000

\* The inductive invariant.
FeeInv ==
  /\ paid \in Nat
  /\ IsFiniteSet(DOMAIN pending) /\ \A p \in DOMAIN pending : pending[p] \in Nat
  /\ IsFiniteSet(mixes) /\ \A m \in mixes : MixOf(m)
  /\ paid + SumOf(pending) <= Fees

\* calculate_ferrous_shield_fee ends with a clamp.
LEMMA FeeType ==
  ASSUME NEW a \in MixAmounts, NEW n \in MixSizes, NEW t \in Traffic
  PROVE  CalculateFee(a, n, t) \in Nat /\ CalculateFee(a, n, t) <= 100000
<1>1. BaseFee(a) \in Nat
  BY SMT DEF BaseFee
<1>2. SizeFactor(n) \in Nat
  BY SMT DEF SizeFactor
<1>3. LoadFactor[t] \in Nat
  BY FeesAssumption, SMT DEF LoadFactor
<1>4. PICK x : x = BaseFee(a) * SizeFactor(n) * LoadFactor[t]
  BY Zenon
<1>5. x \in Nat
  BY <1>1, <1>2, <1>3, <1>4
<1>6. x \div 100 \in Nat
  BY <1>5
<1>7. CalculateFee(a, n, t) = Clamp(x \div 100, 500, 100000)
  BY <1>4, SMT DEF CalculateFee
<1> QED
  BY <1>6, <1>7, SMT DEF Clamp

\* Equal shares of an amount do not exceed it.
LEMMA SharesFit ==
  ASSUME NEW x \in Nat, NEW k \in Nat \ {0}
  PROVE  /\ x \div k \in Nat /\ x % k \in Nat
         /\ k * (x \div k) + (x % k) = x /\ k * (x \div k) <= x /\ x \div k <= x
<1>1. x \div k \in Nat /\ x % k \in Nat
  OBVIOUS
<1>2. k * (x \div k) + (x % k) = x
  OBVIOUS
<1>3. PICK q \in Nat : q = x \div k
  BY <1>1, Zenon
<1>4. PICK y \in Nat : y = k * q
  OBVIOUS
<1>5. q <= k * q
  OBVIOUS
<1> QED
  BY <1>1, <1>2, <1>3, <1>4, <1>5

\* coordinate_coinjoin: the participants pay the fee, but for the remainder.
LEMMA FeeIsGivenUp ==
  ASSUME NEW m, MixOf(m)
  PROVE  /\ GivenUp(m) + (m.fee % m.n) \in Int
         /\ m.fee <= GivenUp(m) + (m.fee % m.n)
<1>1. PICK n \in MixSizes : n = m.n
  BY DEF MixOf
<1>2. PICK a \in MixAmounts : a = m.amount
  BY DEF MixOf
<1>3. PICK fee \in Nat : fee = m.fee /\ fee <= 100000
  BY DEF MixOf
<1>4. n \in Nat \ {0} /\ a \in Nat /\ a >= 100000
  BY FeesAssumption, SMT
<1>5. PICK q \in Nat : q = fee \div n
  BY <1>4, SharesFit
<1>6. PICK r \in Nat : r = fee % n
  BY <1>4, SharesFit
<1>7. n * q + r = fee /\ q <= fee
  BY <1>4, <1>5, <1>6, SharesFit
<1>8. a >= q
  BY <1>3, <1>4, <1>7, SMT
<1>9. GivenUp(m) = n * q
  <2>1. CoordinateCoinjoin(a, n, fee).participant = a - q
    BY <1>4, <1>5, <1>8, SMT DEF CoordinateCoinjoin
  <2>2. a - (a - q) = q
    BY <1>4
  <2> QED
    BY <1>1, <1>2, <1>3, <2>1, <2>2 DEF GivenUp
<1>10. n * q \in Int
  BY <1>4
<1> QED
  BY <1>1, <1>3, <1>6, <1>7, <1>9, <1>10

\* The shares that queue_fee_distribution credits are parts of the fee.
LEMMA SharesOfFee ==
  ASSUME NEW fee \in Nat, NEW backups, IsFiniteSet(backups)
  PROVE  /\ PrimaryAmount(fee) \in Nat /\ BackupAmount(fee, backups) \in Nat
         /\ PrimaryAmount(fee) + Cardinality(backups) * BackupAmount(fee, backups) <= fee
<1>1. PICK p : p = PrimaryAmount(fee)
  OBVIOUS
<1>2. p \in Nat /\ p <= fee
  <2>1. fee * 7 \in Nat
    OBVIOUS
  <2>2. (fee * 7) \div 10 \in Nat /\ 10 * ((fee * 7) \div 10) <= fee * 7
    BY <2>1, SharesFit
  <2> QED
    BY <1>1, <2>2 DEF PrimaryAmount
<1>3. PICK k \in Nat : k = Cardinality(backups)
  BY FS_CardinalityType, Zenon
<1>4. CASE backups = {}
  <2>1. k = 0 /\ BackupAmount(fee, backups) = 0
    BY <1>3, <1>4, FS_EmptySet DEF BackupAmount
  <2> QED
    BY <1>1, <1>2, <1>3, <2>1
<1>5. CASE backups # {}
  <2>1. k # 0
    BY <1>3, <1>5, FS_EmptySet
  <2>2. PICK x \in Nat : x = fee - p
    BY <1>2
  <2>3. BackupAmount(fee, backups) = x \div k
    BY <1>1, <1>3, <1>5, <2>2 DEF BackupAmount
  <2>4. x \div k \in Nat /\ k * (x \div k) <= x
    BY <2>1, SharesFit, Zenon
  <2>5. PICK y \in Int : y = k * (x \div k)
    BY <2>4
  <2> QED
    BY <1>1, <1>2, <1>3, <2>2, <2>3, <2>4, <2>5
<1> QED
  BY <1>4, <1>5, Zenon

\* queue_fee_distribution credits no more than the fee.
LEMMA QueueCredits ==
  ASSUME FeeInv, NEW a, NEW n, NEW t, NEW primary, NEW backups, IsFiniteSet(backups),
         CalculateFee(a, n, t) \in Nat, QueueFee(a, n, t, primary, backups)
  PROVE  /\ IsFiniteSet(DOMAIN pending') /\ \A p \in DOMAIN pending' : pending'[p] \in Nat
         /\ SumOf(pending') <= SumOf(pending) + CalculateFee(a, n, t)
<1> DEFINE D == DOMAIN pending \cup {primary} \cup backups
<1>1. PICK fee \in Nat : fee = CalculateFee(a, n, t)
  BY Zenon
<1>2. PICK pa, ba : pa = PrimaryAmount(fee) /\ ba = BackupAmount(fee, backups)
  BY Zenon
<1>3. pa \in Nat /\ ba \in Nat /\ pa + Cardinality(backups) * ba <= fee
  BY <1>2, SharesOfFee, Zenon
<1> DEFINE old == [p \in D |-> IF p \in DOMAIN pending THEN pending[p] ELSE 0]
           first == [p \in D |-> IF p = primary THEN pa ELSE 0]
           rest == [p \in D |-> IF p \in backups THEN ba ELSE 0]
           both == [p \in D |-> first[p] + rest[p]]
<1>4. DOMAIN pending' = D /\ \A p \in D : pending'[p] = old[p] + both[p]
  <2> DEFINE c == Credit(pending, primary, pa)
  <2>1. pending' = [p \in DOMAIN c \cup backups |->
                      (IF p \in DOMAIN c THEN c[p] ELSE 0) + IF p \in backups THEN ba ELSE 0]
    BY <1>1, <1>2, Zenon DEF QueueFee
  <2>2. DOMAIN c = DOMAIN pending \cup {primary}
    BY Zenon DEF Credit, Put
  <2>3. /\ c[primary] = pa + (IF primary \in DOMAIN pending THEN pending[primary] ELSE 0)
        /\ \A p \in DOMAIN pending \ {primary} : c[p] = pending[p]
    BY Zenon DEF Credit, Put
  <2> HIDE DEF c
  <2>4. DOMAIN pending' = D
    BY <2>1, <2>2, Zenon
  <2>5. ASSUME NEW p \in D PROVE pending'[p] = old[p] + both[p]
    <3>1. pending'[p] = (IF p \in DOMAIN c THEN c[p] ELSE 0) + IF p \in backups THEN ba ELSE 0
      BY <2>1, <2>2, Zenon
    <3>2. p \in DOMAIN pending => pending[p] \in Nat
      BY Zenon DEF FeeInv
    <3>3. /\ old[p] = IF p \in DOMAIN pending THEN pending[p] ELSE 0
          /\ both[p] = (IF p = primary THEN pa ELSE 0) + (IF p \in backups THEN ba ELSE 0)
      BY Zenon
    <3> HIDE DEF old, both
    <3>4. (IF p \in DOMAIN c THEN c[p] ELSE 0) = old[p] + IF p = primary THEN pa ELSE 0
      <4>1. old[p] \in Nat
        BY <3>2, <3>3
      <4>2. pa + old[p] = old[p] + pa /\ old[p] + 0 = old[p]
        BY <1>3, <4>1
      <4>3. CASE p = primary
        BY <2>2, <2>3, <3>3, <4>2, <4>3, Zenon
      <4>4. CASE p # primary
        BY <2>2, <2>3, <3>3, <4>2, <4>4, Zenon
      <4>5. QED BY <4>3, <4>4, Zenon
    <3>5. old[p] \in Nat
      BY <3>2, <3>3
    <3> QED
      BY <1>3, <3>1, <3>3, <3>4, <3>5
  <2> QED
    BY <2>4, <2>5, Zenon
<1>5. IsFiniteSet(D) /\ IsFiniteSet({primary}) /\ Cardinality({primary}) = 1
  BY FS_Union, FS_Singleton, Zenon DEF FeeInv
<1>6. \A p \in D : /\ old[p] \in Int /\ old[p] \in Nat /\ first[p] \in Int /\ rest[p] \in Int
                   /\ both[p] \in Int /\ both[p] \in Nat /\ both[p] = first[p] + rest[p]
  BY <1>3 DEF FeeInv
<1>7. SumOver(old, D) = SumOf(pending)
  <2>1. SumOver(old, D) = SumOver(old, DOMAIN pending)
    <3>1. DOMAIN pending \in SUBSET D /\ \A p \in D \ DOMAIN pending : old[p] = 0
      BY Zenon
    <3> HIDE DEF old, D
    <3> QED
      BY <1>5, <1>6, <3>1, SumWithin, Zenon
  <2>2. \A p \in DOMAIN pending : old[p] = pending[p]
    BY Zenon
  <2> HIDE DEF old
  <2>3. SumOver(old, DOMAIN pending) = SumOver(pending, DOMAIN pending)
    BY <2>2, SumSame, Zenon DEF FeeInv
  <2> QED
    BY <2>1, <2>3, Zenon DEF SumOf
<1>8. SumOver(first, D) = pa
  <2>1. {primary} \in SUBSET D /\ \A p \in D \ {primary} : first[p] = 0
    BY Zenon
  <2>2. \A p \in {primary} : first[p] = pa
    BY Zenon
  <2> HIDE DEF first, D
  <2>3. SumOver(first, D) = SumOver(first, {primary})
    BY <1>5, <1>6, <2>1, SumWithin, Zenon
  <2>4. SumOver(first, {primary}) = 1 * pa
    BY <1>3, <1>5, <2>2, SumConstant
  <2> QED
    BY <1>3, <2>3, <2>4
<1>9. SumOver(rest, D) = Cardinality(backups) * ba
  <2>1. backups \in SUBSET D /\ \A p \in D \ backups : rest[p] = 0
    BY Zenon
  <2>2. \A p \in backups : rest[p] = ba
    BY Zenon
  <2> HIDE DEF rest, D
  <2>3. SumOver(rest, D) = SumOver(rest, backups)
    BY <1>5, <1>6, <2>1, SumWithin, Zenon
  <2> QED
    BY <1>3, <2>2, <2>3, SumConstant
<1> HIDE DEF D, old, first, rest, both
<1>10. SumOver(both, D) = SumOver(first, D) + SumOver(rest, D)
  BY <1>5, <1>6, SumAdd, Zenon
<1>11. SumOver(pending', D) = SumOver(old, D) + SumOver(both, D)
  BY <1>4, <1>5, <1>6, SumAdd, Zenon
<1>12. SumOf(pending) \in Int
  BY SumInt DEF FeeInv, SumOf
<1>13. SumOf(pending') <= SumOf(pending) + fee
  <2>1. PICK k \in Int : k = Cardinality(backups) * ba
    BY <1>3, FS_CardinalityType
  <2>2. SumOf(pending') = SumOf(pending) + (pa + k)
    BY <1>4, <1>7, <1>8, <1>9, <1>10, <1>11, <2>1, Zenon DEF SumOf
  <2> QED
    BY <1>3, <1>12, <2>1, <2>2
<1>14. \A p \in D : pending'[p] \in Nat
  BY <1>4, <1>6
<1> QED
  BY <1>1, <1>4, <1>5, <1>13, <1>14, Zenon

\* A mix that is new adds its fee.
LEMMA FeesGrow ==
  ASSUME FeeInv, NEW m, m \notin mixes, m.fee \in Nat, mixes' = mixes \cup {m}
  PROVE  Fees' = Fees + m.fee /\ IsFiniteSet(mixes')
<1> DEFINE f == [x \in mixes |-> x.fee]
           g == [x \in mixes' |-> x.fee]
<1>1. IsFiniteSet(mixes') /\ IsFiniteSet(mixes)
  BY FS_AddElement, Zenon DEF FeeInv
<1>2. /\ \A x \in mixes' : g[x] \in Int
      /\ m \in mixes' /\ g[m] = m.fee /\ mixes' \ {m} = mixes
      /\ \A x \in mixes : g[x] = f[x] /\ f[x] \in Int
      /\ DOMAIN f = mixes /\ DOMAIN g = mixes'
  BY DEF FeeInv, MixOf
<1>3. Fees = SumOver(f, mixes) /\ Fees' = SumOver(g, mixes')
  BY <1>2, Zenon DEF Fees, SumOf
<1> HIDE DEF f, g
<1>4. SumOver(g, mixes') = g[m] + SumOver(g, mixes)
  BY <1>1, <1>2, SumRemove
<1>5. SumOver(g, mixes) = SumOver(f, mixes)
  BY <1>1, <1>2, SumSame, Zenon
<1>6. SumOver(f, mixes) \in Int
  BY <1>1, <1>2, SumInt
<1> QED
  BY <1>1, <1>2, <1>3, <1>4, <1>5, <1>6

LEMMA FeeStep == FeeInv /\ [FeeNext]_feeVars => FeeInv'
<1> SUFFICES ASSUME FeeInv, [FeeNext]_feeVars PROVE FeeInv'
  OBVIOUS
<1>0. SumOf(pending) \in Int /\ Fees \in Int /\ paid \in Nat
  <2>1. \A m \in mixes : [x \in mixes |-> x.fee][m] \in Int
    BY DEF FeeInv, MixOf
  <2>2. SumOver([x \in mixes |-> x.fee], mixes) \in Int
    BY <2>1, SumInt DEF FeeInv
  <2> QED
    BY <2>2, SumInt DEF FeeInv, SumOf, Fees
<1>1. CASE ProcessPending
  <2> DEFINE due == {p \in DOMAIN pending : pending[p] >= MinimumDistribution}
  <2>1. paid' = paid + SumOver(pending, due) /\ pending' = EmptyMap /\ mixes' = mixes
    BY <1>1, Zenon DEF ProcessPending
  <2>2. due \in SUBSET DOMAIN pending
    BY Zenon
  <2> HIDE DEF due
  <2>3. SumOver(pending, due) <= SumOf(pending) /\ SumOver(pending, due) \in Nat
    BY <2>2, SumSubset, SumNat, FS_Subset DEF FeeInv, SumOf
  <2>4. DOMAIN pending' = {} /\ SumOf(pending') = 0
    BY <2>1, SumEmpty, Zenon DEF SumOf, EmptyMap
  <2>5. IsFiniteSet(DOMAIN pending') /\ \A p \in DOMAIN pending' : pending'[p] \in Nat
    BY <2>4, FS_EmptySet, Zenon
  <2>6. Fees' = Fees
    BY <2>1, Zenon DEF Fees
  <2>7. paid + SumOf(pending) <= Fees
    BY Zenon DEF FeeInv
  <2>8. paid' \in Nat /\ paid' + SumOf(pending') <= Fees'
    BY <1>0, <2>1, <2>3, <2>4, <2>6, <2>7
  <2>9. IsFiniteSet(mixes') /\ \A m \in mixes' : MixOf(m)
    BY <2>1, Zenon DEF FeeInv
  <2> QED
    BY <2>5, <2>8, <2>9 DEF FeeInv
<1>2. ASSUME NEW a \in MixAmounts, NEW n \in MixSizes, NEW t \in Traffic, NEW primary \in Payees,
             NEW backups \in SUBSET (Payees \ {primary}), QueueFee(a, n, t, primary, backups)
      PROVE  FeeInv'
  <2>1. PICK fee \in Nat : fee = CalculateFee(a, n, t) /\ fee <= 100000
    BY FeeType
  <2>2. PICK m : m = [amount |-> a, n |-> n, fee |-> fee]
    BY Zenon
  <2>3. m \notin mixes /\ mixes' = mixes \cup {m} /\ paid' = paid
    BY <1>2, <2>1, <2>2 DEF QueueFee
  <2>4. MixOf(m) /\ m.fee = fee
    BY <2>1, <2>2 DEF MixOf
  <2>5. IsFiniteSet(backups)
    BY FeesAssumption, FS_Subset
  <2>6. /\ IsFiniteSet(DOMAIN pending') /\ \A p \in DOMAIN pending' : pending'[p] \in Nat
        /\ SumOf(pending') <= SumOf(pending) + fee
    BY <1>2, <2>1, <2>5, QueueCredits
  <2>7. Fees' = Fees + fee /\ IsFiniteSet(mixes')
    BY <2>3, <2>4, FeesGrow, Zenon
  <2>8. SumOf(pending') \in Int
    <3>1. PICK q : q = pending'
      BY Zenon
    <3>2. \A p \in DOMAIN q : q[p] \in Int
      BY <2>6, <3>1
    <3>3. QED BY <2>6, <3>1, <3>2, SumInt, Zenon DEF SumOf
  <2>9. paid' + SumOf(pending') <= Fees'
    <3>1. paid + SumOf(pending) <= Fees
      BY DEF FeeInv
    <3> QED
      BY <1>0, <2>3, <2>6, <2>7, <2>8, <3>1
  <2>10. \A x \in mixes' : MixOf(x)
    BY <2>3, <2>4, Zenon DEF FeeInv
  <2> QED
    BY <1>0, <2>3, <2>6, <2>7, <2>9, <2>10 DEF FeeInv
<1>3. CASE UNCHANGED feeVars
  <2>1. Fees' = Fees /\ SumOf(pending') = SumOf(pending)
    BY <1>3, Zenon DEF feeVars, Fees
  <2> QED
    BY <1>3, <2>1, Zenon DEF feeVars, FeeInv
<1> QED
  BY <1>1, <1>2, <1>3 DEF FeeNext

\* For any coordinators, amounts validate_participant lets pass, sizes of mixes and
\* traffic: however queueing and payouts interleave, what coordinators are paid or are
\* to be paid was given up by participants, but for the remainders (coordinate_coinjoin,
\* queue_fee_distribution, process_pending_distributions).
THEOREM NoFeeFromNothing == FeeSpec => []FeesNeverGrow
<1>1. FeeInit => FeeInv
  <2> SUFFICES ASSUME FeeInit PROVE FeeInv
    OBVIOUS
  <2>1. DOMAIN pending = {} /\ mixes = {} /\ paid = 0
    BY Zenon DEF FeeInit, EmptyMap
  <2>2. SumOf(pending) = 0 /\ Fees = 0
    <3>1. DOMAIN [m \in mixes |-> m.fee] = {}
      BY <2>1, Zenon
    <3> QED
      BY <2>1, <3>1, SumEmpty, Zenon DEF SumOf, Fees
  <2> QED
    BY <2>1, <2>2, FS_EmptySet DEF FeeInv
<1>2. FeeInv => FeesNeverGrow
  <2> SUFFICES ASSUME FeeInv PROVE FeesNeverGrow
    OBVIOUS
  <2> DEFINE f == [m \in mixes |-> m.fee]
             g == [m \in mixes |-> GivenUp(m) + (m.fee % m.n)]
  <2>1. \A m \in mixes : f[m] \in Int /\ g[m] \in Int /\ f[m] <= g[m]
    <3> SUFFICES ASSUME NEW m \in mixes PROVE f[m] \in Int /\ g[m] \in Int /\ f[m] <= g[m]
      BY Zenon
    <3>1. MixOf(m)
      BY Zenon DEF FeeInv
    <3>2. /\ GivenUp(m) + (m.fee % m.n) \in Int
          /\ m.fee <= GivenUp(m) + (m.fee % m.n)
      BY <3>1, FeeIsGivenUp, Zenon
    <3>3. m.fee \in Int
      BY <3>1 DEF MixOf
    <3> QED
      BY <3>2, <3>3, Zenon
  <2>2. DOMAIN f = mixes /\ DOMAIN g = mixes
    BY Zenon
  <2>3. Fees = SumOver(f, mixes) /\ SumOf(g) = SumOver(g, mixes)
    BY <2>2, Zenon DEF Fees, SumOf
  <2> HIDE DEF f, g
  <2>4. SumOver(f, mixes) <= SumOver(g, mixes)
    BY <2>1, SumMonotone, Zenon DEF FeeInv
  <2>5. SumOver(f, mixes) \in Int /\ SumOver(g, mixes) \in Int /\ SumOf(pending) \in Int
    BY <2>1, SumInt DEF FeeInv, SumOf
  <2>6. paid \in Nat /\ paid + SumOf(pending) <= SumOver(f, mixes)
    BY <2>3, Zenon DEF FeeInv
  <2>7. paid + SumOf(pending) <= SumOf(g)
    BY <2>3, <2>4, <2>5, <2>6
  <2> QED
    BY <2>7, Zenon DEF FeesNeverGrow, g
<1> QED
  BY <1>1, <1>2, FeeStep, PTL DEF FeeSpec

-----------------------------------------------------------------------------
(***************************************************************************)
(* The sessions of mixes.                                                  *)
(***************************************************************************)

\* A cleanup counts the sessions that are left, which are no more than there were.
LEMMA CountShrinks ==
  ASSUME NEW sessions, IsFiniteSet(DOMAIN sessions), NEW S, NEW c
  PROVE  /\ CountOf(sessions, c) \in Nat /\ CountOf(Without(sessions, S), c) \in Nat
         /\ CountOf(Without(sessions, S), c) <= CountOf(sessions, c)
<1> DEFINE A == {i \in DOMAIN sessions : sessions[i].coordinator = c}
           B == {i \in DOMAIN Without(sessions, S) : Without(sessions, S)[i].coordinator = c}
<1>1. B \in SUBSET A /\ A \in SUBSET DOMAIN sessions
  BY Zenon DEF Without
<1> HIDE DEF A, B
<1>2. IsFiniteSet(A) /\ IsFiniteSet(B) /\ Cardinality(B) <= Cardinality(A)
  BY <1>1, FS_Subset, Zenon
<1>3. Cardinality(A) \in Nat /\ Cardinality(B) \in Nat
  BY <1>2, FS_CardinalityType, Zenon
<1> QED
  BY <1>2, <1>3, Zenon DEF CountOf, A, B

\* cleanup_sessions never costs a coordinator within its limit a session that has not
\* timed out, for any number of coordinators, sessions and limits.
THEOREM CleanupIsFair == MixSpec => CleanupSparesOthers
<1> DEFINE Named == DOMAIN mixing \subseteq SessionNames
           Spared == \A i \in DOMAIN mixing \ DOMAIN mixing' :
                       CleanupSessions =>
                         TookTooLong(i) \/ CountOf(mixing, mixing[i].coordinator) > MaxPerCoordinator
<1>1. MixInit => Named
  BY Zenon DEF MixInit, EmptyMap
<1>2. Named /\ [MixNext]_mixVars => Named'
  <2> SUFFICES ASSUME Named, [MixNext]_mixVars PROVE Named'
    BY Zenon
  <2>1. CASE CleanupSessions
    BY <2>1, Zenon DEF CleanupSessions, Without
  <2>2. ASSUME NEW i \in SessionNames, NEW c \in Coordinators, InitiateSession(i, c) PROVE Named'
    BY <2>2, Zenon DEF InitiateSession, Put
  <2>3. ASSUME NEW i \in SessionNames, NEW p \in Mixers, RegisterForCoinjoin(i, p) PROVE Named'
    BY <2>3, Zenon DEF RegisterForCoinjoin
  <2>4. ASSUME NEW i \in SessionNames, HandleSessionTimeout(i) PROVE Named'
    BY <2>4, Zenon DEF HandleSessionTimeout
  <2>5. ASSUME NEW i \in SessionNames, ForceCleanupSession(i) PROVE Named'
    BY <2>5, Zenon DEF ForceCleanupSession, Without
  <2>6. CASE Tick \/ UNCHANGED mixVars
    BY <2>6, Zenon DEF Tick, mixVars
  <2> QED
    BY <2>1, <2>2, <2>3, <2>4, <2>5, <2>6, Zenon DEF MixNext
<1>3. Named => Spared
  <2> SUFFICES ASSUME Named, NEW i \in DOMAIN mixing \ DOMAIN mixing', CleanupSessions, ~TookTooLong(i)
               PROVE  CountOf(mixing, mixing[i].coordinator) > MaxPerCoordinator
    BY Zenon
  <2> DEFINE left == Without(mixing, Late)
  <2>1. PICK S \in ExcessChoices(left) : mixing' = Without(left, S)
    BY Zenon DEF CleanupSessions
  <2>2. i \in DOMAIN left /\ left[i] = mixing[i]
    BY Zenon DEF Without, Late
  <2>3. i \in S
    BY <2>1, <2>2, Zenon DEF Without
  <2>4. S \subseteq ExcessCandidates(left)
    BY <2>1, Zenon DEF ExcessChoices, kSubset
  <2>5. CountOf(left, mixing[i].coordinator) > MaxPerCoordinator
    BY <2>2, <2>3, <2>4, Zenon DEF ExcessCandidates
  <2>6. IsFiniteSet(DOMAIN mixing)
    BY MixAssumption, FS_Subset, Zenon
  <2>7. /\ CountOf(mixing, mixing[i].coordinator) \in Nat /\ CountOf(left, mixing[i].coordinator) \in Nat
        /\ CountOf(left, mixing[i].coordinator) <= CountOf(mixing, mixing[i].coordinator)
    BY <2>6, CountShrinks, Zenon
  <2> HIDE DEF left
  <2> QED
    BY <2>5, <2>7, MixAssumption
<1>4. Named /\ [MixNext]_mixVars => [Spared]_mixVars
  BY <1>3, Zenon
<1>5. MixSpec => [][Spared]_mixVars
  <2> HIDE DEF Named, Spared
  <2> QED
    BY <1>1, <1>2, <1>4, PTL DEF MixSpec
<1> QED
  BY <1>5, Zenon DEF CleanupSparesOthers

=============================================================================
