----------------------- MODULE GovernanceCoordinator ------------------------
(***************************************************************************)
(* The governance coordinator                                              *)
(* (rusty-governance/src/governance_coordinator.rs) over the proposal      *)
(* validator, the voting coordinator, the stake burning manager, the       *)
(* activation manager and the parameter manager.  Its caller hands it      *)
(* proposals, votes, activations and the height, in any order.             *)
(*                                                                         *)
(* A voter is a ticket or a masternode and the power of a vote is one; the *)
(* counters of a voting state are the numbers of votes it holds.  Once     *)
(* connected to a blockchain state, apply_parameter_changes asks for       *)
(* exclusive access to parameters it shares with its own parameter manager *)
(* and panics, so only an unconnected coordinator applies changes.         *)
(***************************************************************************)
EXTENDS Integers, Sequences, FiniteSets, FiniteSetsExt, Maps

-----------------------------------------------------------------------------
(***************************************************************************)
(* The parameter manager of the governance crate                           *)
(* (rusty-governance/src/parameter_manager.rs): changes approved for a     *)
(* height, applied when a block reaches it, and rolled back when blocks    *)
(* are reverted.                                                           *)
(*                                                                         *)
(* A change keeps the value the parameter had when it was approved.  Maps  *)
(* are hash maps: ready changes are applied, and reverted, in any order.   *)
(***************************************************************************)

CONSTANTS Registry,        \* parameter -> lowest and highest value
          DefaultParams,   \* parameter -> its value in ConsensusParams::default
          Changes,         \* proposal id -> parameter and value
          ChangeDelay,     \* consensus_params.activation_delay_blocks
          MaxParamHeight   \* bound on the height

VARIABLES params,          \* the caller's ConsensusParams
          pendingChanges,  \* pending_changes: proposal id -> change
          byHeight,        \* changes_by_height: height -> sequence of changes
          changeHistory,   \* change_history, as a set
          paramHeight
paramVars == <<params, pendingChanges, byHeight, changeHistory, paramHeight>>

ParamInit ==
  /\ params = DefaultParams /\ pendingChanges = EmptyMap /\ byHeight = EmptyMap
  /\ changeHistory = {} /\ paramHeight = 0

\* validate_parameter_change, for a value of the parameter's type.
ValidChange(c) ==
  /\ c.param \in DOMAIN Registry
  /\ c.value \in Registry[c.param].min .. Registry[c.param].max

CurrentParameterValue(p) == params[p]

NewChange(c, at) == [param |-> c.param, old |-> CurrentParameterValue(c.param), new |-> c.value, at |-> at]

Conflicts(pending, change) ==
  \E i \in DOMAIN pending : pending[i].param = change.param /\ pending[i].at = change.at

ScheduleParameterChange(i, c) ==
  LET change == NewChange(c, paramHeight + ChangeDelay) IN
  /\ ValidChange(c) /\ ~Conflicts(pendingChanges, change)
  /\ pendingChanges' = Put(pendingChanges, i, change)
  /\ UNCHANGED <<params, byHeight, changeHistory, paramHeight>>

Applied(ps, change) == [ps EXCEPT ![change.param] = change.new]

AppliedInOrder(ps, changes) == FoldInOrder(Applied, ps, changes)

ApplyPendingChanges ==
  LET ready == {i \in DOMAIN pendingChanges : pendingChanges[i].at <= paramHeight} IN
  /\ ready # {}
  /\ \E order \in Orders(ready) :
       LET changes == [n \in DOMAIN order |-> pendingChanges[order[n]]]
           before == IF paramHeight \in DOMAIN byHeight THEN byHeight[paramHeight] ELSE <<>>
       IN  /\ params' = AppliedInOrder(params, changes)
           /\ byHeight' = Put(byHeight, paramHeight, before \o changes)
           /\ changeHistory' = changeHistory \cup Range(changes)
  /\ pendingChanges' = Without(pendingChanges, ready)
  /\ UNCHANGED paramHeight

Reversed(change) == [change EXCEPT !.old = change.new, !.new = change.old]

\* rollback_changes_from_height runs over the heights in any order, and over the
\* changes of a height in the order in which they were applied.  The history is
\* filtered by the height a change was approved for.
RollbackChangesFromHeight(h) ==
  LET heights == {k \in DOMAIN byHeight : k >= h} IN
  /\ heights # {}
  /\ \E order \in Orders(heights) :
       params' = FoldInOrder(AppliedInOrder, params,
         [n \in DOMAIN order |->
            [k \in DOMAIN byHeight[order[n]] |-> Reversed(byHeight[order[n]][k])]])
  /\ byHeight' = Without(byHeight, heights)
  /\ changeHistory' = {c \in changeHistory : c.at < h}
  /\ paramHeight' = h - 1
  /\ UNCHANGED pendingChanges

CancelPendingChange(i) ==
  /\ i \in DOMAIN pendingChanges
  /\ pendingChanges' = Without(pendingChanges, {i})
  /\ UNCHANGED <<params, byHeight, changeHistory, paramHeight>>

\* The caller's chain grows by a block, or reverts to below height h.
ParamBlock ==
  /\ paramHeight < MaxParamHeight /\ paramHeight' = paramHeight + 1
  /\ UNCHANGED <<params, pendingChanges, byHeight, changeHistory>>

ParamNext ==
  \/ ParamBlock \/ ApplyPendingChanges
  \/ \E i \in DOMAIN Changes : ScheduleParameterChange(i, Changes[i]) \/ CancelPendingChange(i)
  \/ \E h \in 1 .. paramHeight : RollbackChangesFromHeight(h)

-----------------------------------------------------------------------------

\* The first test of a rollback expects that it restores the values from before the
\* reverted heights: here, that undoing every change brings back the defaults.
RollbackRestores == byHeight = EmptyMap /\ pendingChanges = EmptyMap => params = DefaultParams

-----------------------------------------------------------------------------
(***************************************************************************)
(* The stake burning manager of the voting coordinator                     *)
(* (rusty-governance/src/stake_burning.rs): why the stake of a proposal is *)
(* burned, how much of it, and when.  The coordinator above owns a second  *)
(* manager, of which it reports statistics and which nothing ever feeds.   *)
(***************************************************************************)

CONSTANTS MinVotingPeriod, MaxVotingPeriod,   \* 1000 and 100000 blocks
          StakeAmount,         \* consensus_params.proposal_stake_amount
          ApprovalPercent,     \* proposal type -> *_approval_percentage
          ParticipationGrace,  \* config.participation_grace_period, 1000 blocks
          SpamBurns,           \* executed burns after which proposals are spam, 5
          BurnDelay            \* blocks from the schedule to the burn, 10

VARIABLES pendingBurns,   \* pending_burns: proposal id -> amount, reason and height
          executedBurns   \* executed_burns: proposal id -> amount and reason
burnVars == <<pendingBurns, executedBurns>>

BurnInit == pendingBurns = EmptyMap /\ executedBurns = EmptyMap

\* is_malicious_proposal: the word in the title, or a new value above a million, which
\* every valid max_block_size but the smallest is.
IsMalicious(p) ==
  p.title = "hack" \/ (p.type = "ParameterChange" /\ p.value > 1000000)

\* is_spam_proposal counts the burns of all proposers.
IsSpam(p) ==
  p.title = "digits" \/ Cardinality(DOMAIN executedBurns \ {p.id}) > SpamBurns

\* violates_protocol_rules and has_insufficient_documentation.
ViolatesRules(p) == p.end - p.start \notin MinVotingPeriod .. MaxVotingPeriod
Undocumented(p) == ~p.described

BurnPercent ==
  [MaliciousProposal |-> 100, InsufficientParticipation |-> 25, SpamProposal |-> 100,
   ProtocolViolation |-> 50, InsufficientDocumentation |-> 10, ProposalRejected |-> 10]

\* The reason to burn the stake of p at height h, or "none".  total_voting_power is
\* the power of the votes cast, so the participation is all or nothing.
BurnReason(p, h, yes, cast) ==
  IF h <= p.end THEN "none"
  ELSE IF IsMalicious(p) THEN "MaliciousProposal"
  ELSE IF cast = 0 THEN IF h >= p.end + ParticipationGrace THEN "InsufficientParticipation"
                                                           ELSE "none"
  ELSE IF IsSpam(p) THEN "SpamProposal"
  ELSE IF ViolatesRules(p) THEN "ProtocolViolation"
  ELSE IF Undocumented(p) THEN "InsufficientDocumentation"
  ELSE IF 100 * yes < ApprovalPercent[p.type] * cast THEN "ProposalRejected"
  ELSE "none"

NewBurn(h, reason) ==
  [amount |-> (StakeAmount * BurnPercent[reason]) \div 100, reason |-> reason, at |-> h + BurnDelay]

\* The transaction burns the amount and returns the rest of the stake.
ExecutePendingBurns(h) ==
  LET ready == {i \in DOMAIN pendingBurns : h >= pendingBurns[i].at} IN
  /\ ready # {}
  /\ pendingBurns' = Without(pendingBurns, ready)
  /\ executedBurns' = [i \in DOMAIN executedBurns \cup ready |->
                         IF i \in ready THEN pendingBurns[i] ELSE executedBurns[i]]

-----------------------------------------------------------------------------
(***************************************************************************)
(* The activation manager of the governance crate                          *)
(* (rusty-governance/src/proposal_activation.rs): approved proposals wait  *)
(* for a delay, may be activated during a window, and then change the      *)
(* protocol flags of the blockchain state, the two balances among them.    *)
(***************************************************************************)

CONSTANTS ActivationDelay,    \* config.activation_delay_blocks
          ActivationWindow,   \* config.max_activation_window
          RequiredBp,         \* proposal type -> approval threshold in basis points
          InitialTreasury     \* treasury_balance that another part of the node has set

VARIABLES pendingActivations,  \* pending_activations: proposal id -> proposal and window
          activated,           \* activated_proposals: proposal id -> proposal
          flags,               \* the protocol flags that are set
          spends,              \* the proposals that have a spend record among the flags
          balances             \* treasury_balance and community_fund_balance
actVars == <<pendingActivations, activated, flags, spends, balances>>

ActInit ==
  /\ pendingActivations = EmptyMap /\ activated = EmptyMap
  /\ flags = {} /\ spends = {}
  /\ balances = [treasury |-> InitialTreasury, fund |-> 0]

NoValue == -1   \* new_value: None

\* f64_to_u64_bp of yes / cast, and the floor validate_approval_proof computes.
Rounded(yes, cast) == (20000 * yes + cast) \div (2 * cast)
Floored(yes, cast) == (10000 * yes) \div cast

Apart(a, b) == IF a > b THEN a - b ELSE b - a

\* validate_approval_proof for the proof the coordinator builds, in which the approval
\* counts the abstentions; the validation leaves them out.
ValidApprovalProof(p, yes, no, abstain) ==
  LET approval == Rounded(yes, yes + no + abstain) IN
  /\ approval >= RequiredBp[p.type]
  /\ Apart(Floored(yes, yes + no), approval) <= 10

NewActivation(p, h) ==
  [proposal |-> p, earliest |-> h + ActivationDelay,
   latest |-> h + ActivationDelay + ActivationWindow]

InWindow(i, h) ==
  i \in DOMAIN pendingActivations /\ h \in pendingActivations[i].earliest .. pendingActivations[i].latest

\* The flags a proposal sets: apply_protocol_upgrade, apply_bug_fix.
FlagOf(p) == <<p.type, p.target, p.value>>

KnownTargets ==
  [ProtocolUpgrade |-> {"soft_fork_activation", "hard_fork_activation", "protocol_version"},
   BugFix |-> {"emergency_patch", "disable_feature", "enable_feature", "consensus_rule_override"},
   CommunityFund |-> {"fund_allocation", "fund_deposit"}]

\* apply_treasury_spend reads the amount from new_value; apply_community_fund has its
\* own field.  Either stores the record of a spend before it looks at the balance.
Spends(p) == p.type = "TreasurySpend" \/ (p.type = "CommunityFund" /\ p.target = "fund_allocation")
Account(p) == IF p.type = "TreasurySpend" THEN "treasury" ELSE "fund"
AmountOf(p) == IF p.type = "TreasurySpend" THEN p.value ELSE p.amount

\* A treasury spend that gives its amount in the other field only is an error.
Readable(p) == p.type \in {"TreasurySpend", "ProtocolUpgrade", "BugFix"} => p.value # NoValue

Applies(p) ==
  /\ Readable(p)
  /\ p.type \in DOMAIN KnownTargets => p.target \in KnownTargets[p.type]
  /\ Spends(p) => balances[Account(p)] >= AmountOf(p)

\* What a proposal does to the blockchain state, where it succeeds.
Effect(p) ==
  /\ flags' = IF p.type \in {"ProtocolUpgrade", "BugFix"} THEN flags \cup {FlagOf(p)} ELSE flags
  /\ spends' = IF Spends(p) THEN spends \cup {p.id} ELSE spends
  /\ balances' = IF Spends(p) THEN [balances EXCEPT ![Account(p)] = @ - AmountOf(p)]
                 ELSE IF p.type = "CommunityFund" THEN [balances EXCEPT !.fund = @ + p.amount]
                 ELSE balances

\* A fault: an activated proposal can be activated again.
ActivatesAgain(i, h) ==
  LET p == pendingActivations[i].proposal IN
  /\ InWindow(i, h) /\ Applies(p) /\ Effect(p)
  /\ activated' = Put(activated, i, p)
  /\ UNCHANGED pendingActivations

\* process_activation: the transaction names the proposal; nothing else of it is read,
\* and validate_activation_transaction is not called.
ProcessActivation(i, h) ==
  LET p == pendingActivations[i].proposal IN
  /\ InWindow(i, h) /\ Applies(p) /\ Effect(p)
  /\ activated' = Put(activated, i, p)
  /\ pendingActivations' = Without(pendingActivations, {i})

\* A spend that the balance does not cover leaves its record behind.
ActivationFails(i, h) ==
  LET p == pendingActivations[i].proposal IN
  /\ InWindow(i, h) /\ Spends(p) /\ Readable(p) /\ ~Applies(p)
  /\ spends' = spends \cup {i}
  /\ UNCHANGED <<pendingActivations, activated, flags, balances>>

-----------------------------------------------------------------------------
CONSTANTS Proposals,           \* id -> proposal
          Tickets, MasternodeVoters,
          Ballots,             \* the votes that may arrive: proposal, voter, choice, signed
          RequiredCollateral,
          FinalizationGrace,   \* config.finalization_grace_period, 100 blocks
          QuorumPercent, SupermajorityPercent   \* per chamber, "pos" and "mn"

ASSUME GovAssumption ==
  /\ IsFiniteSet(Tickets) /\ IsFiniteSet(MasternodeVoters) /\ IsFiniteSet(DOMAIN Proposals)
  /\ QuorumPercent \in [{"pos", "mn"} -> Nat] /\ SupermajorityPercent \in [{"pos", "mn"} -> Nat]
  /\ FinalizationGrace \in Nat /\ InitialTreasury \in Nat
  /\ \A i \in DOMAIN Proposals :
       LET p == Proposals[i] IN
       /\ p.id = i /\ p.start \in Nat /\ p.end \in Nat
       /\ p.value \in Nat \cup {NoValue} /\ p.amount \in Nat

VARIABLES voting,      \* active_proposals: id -> voter -> choice
          finalized,   \* finalized_proposals: id -> votes, outcome and height
          connected    \* a blockchain state is connected
govVars == <<voting, finalized, connected, paramVars, burnVars, actVars>>

GovInit ==
  /\ voting = EmptyMap /\ finalized = EmptyMap /\ connected \in BOOLEAN
  /\ ParamInit /\ BurnInit /\ ActInit

-----------------------------------------------------------------------------
\* validate_type_specific_requirements.  The names and bounds that the validator
\* knows are not those of the parameter registry.  (A masternode collateral may be up
\* to 10^11, which is beyond the integers of TLC and not used.)
ValidatedParams ==
  [block_time |-> 60 .. 3600, max_block_size |-> 1000000 .. 100000000,
   difficulty_adjustment_window |-> 10 .. 10000, masternode_collateral |-> 100000000 .. 2147483647]

ValidForType(p) ==
  CASE p.type = "ProtocolUpgrade" -> p.code
    [] p.type = "ParameterChange" ->
         p.target \in DOMAIN ValidatedParams /\ p.value \in ValidatedParams[p.target]
    [] p.type = "TreasurySpend" -> p.amount > 0
    [] p.type = "BugFix" -> p.explained
    [] p.type = "CommunityFund" -> p.explained /\ p.amount > 0

\* validate_collateral: the collateral is the sum of the proposal's outputs.
ValidCollateral(p) == p.collateral >= RequiredCollateral

ValidateProposal(p, h) ==
  /\ p.id \notin DOMAIN voting
  /\ p.start > h /\ p.end > p.start /\ p.end - p.start \in MinVotingPeriod .. MaxVotingPeriod
  /\ p.described /\ ValidForType(p)
  /\ ValidCollateral(p) /\ p.signed

AddProposal(p, h) ==
  /\ p.id \notin DOMAIN voting
  /\ h < p.end /\ h < p.start
  /\ voting' = Put(voting, p.id, EmptyMap)

\* process_governance_proposal.
ProcessProposal(p) ==
  /\ ValidateProposal(p, paramHeight)
  /\ AddProposal(p, paramHeight)
  /\ UNCHANGED <<finalized, connected, paramVars, burnVars, actVars>>

\* VoteValidator::validate_vote: a live ticket of enough value or an active masternode
\* with enough collateral, and its signature.
ValidateVote(b) == b.voter \in Tickets \cup MasternodeVoters /\ b.signed

\* Looks at neither the start nor the end of the proposal.
RecordVote(b) ==
  /\ b.proposal \in DOMAIN voting
  /\ b.voter \notin DOMAIN voting[b.proposal]
  /\ ValidateVote(b)
  /\ voting' = [voting EXCEPT ![b.proposal] = Put(@, b.voter, b.choice)]

\* process_governance_vote.
ProcessVote(b) ==
  /\ RecordVote(b)
  /\ UNCHANGED <<finalized, connected, paramVars, burnVars, actVars>>

-----------------------------------------------------------------------------
Count(votes, voters, choice) == Cardinality({v \in DOMAIN votes \cap voters : votes[v] = choice})

Yes(votes, voters) == Count(votes, voters, "Yes")
Cast(votes, voters) == Count(votes, voters, "Yes") + Count(votes, voters, "No")

\* The ceiling of percent of n.
Required(n, percent) == (n * percent + 99) \div 100

QuorumMet(votes, voters, chamber) ==
  Cast(votes, voters) >= Required(Cardinality(voters), QuorumPercent[chamber])

Approves(votes, voters, chamber) ==
  /\ Cast(votes, voters) > 0
  /\ 100 * Yes(votes, voters) >= SupermajorityPercent[chamber] * Cast(votes, voters)

\* A fault: one chamber is enough.
OneChamberDecides(votes) ==
  IF ~(QuorumMet(votes, Tickets, "pos") /\ QuorumMet(votes, MasternodeVoters, "mn"))
  THEN "InsufficientParticipation"
  ELSE IF Approves(votes, Tickets, "pos") \/ Approves(votes, MasternodeVoters, "mn")
  THEN "Approved" ELSE "Rejected"

DetermineProposalOutcome(votes) ==
  IF ~(QuorumMet(votes, Tickets, "pos") /\ QuorumMet(votes, MasternodeVoters, "mn"))
  THEN "InsufficientParticipation"
  ELSE IF Approves(votes, Tickets, "pos") /\ Approves(votes, MasternodeVoters, "mn")
  THEN "Approved" ELSE "Rejected"

ShouldBurnStake(outcome) == outcome \in {"Rejected", "InsufficientParticipation"}

Everyone == Tickets \cup MasternodeVoters
Abstained(votes) == Count(votes, Everyone, "Abstain")

BurnOf(i) ==
  LET votes == voting[i] IN
  IF ShouldBurnStake(DetermineProposalOutcome(votes))
  THEN BurnReason(Proposals[i], paramHeight, Yes(votes, Everyone), Cardinality(DOMAIN votes))
  ELSE "none"

\* One round of the coordinator's loop over the finalized proposals, on the pending
\* parameter changes, the pending activations and whether an error ended the loop.
\* The parameter change is scheduled before the approval proof is looked at.
ScheduleApproved(acc, i) ==
  LET p == Proposals[i]
      votes == voting[i]
      c == [param |-> p.target, value |-> p.value]
      change == NewChange(c, paramHeight + ChangeDelay)
      changes == p.type = "ParameterChange" /\ ValidChange(c)
      refused == changes /\ Conflicts(acc.changes, change)
      proved == ValidApprovalProof(p, Yes(votes, Everyone), Count(votes, Everyone, "No"),
                                   Abstained(votes))
  IN  IF acc.failed \/ DetermineProposalOutcome(votes) # "Approved" THEN acc
      ELSE [failed |-> refused \/ ~proved,
            changes |-> IF changes /\ ~refused THEN Put(acc.changes, i, change) ELSE acc.changes,
            waiting |-> IF ~refused /\ proved
                        THEN Put(acc.waiting, i, NewActivation(p, paramHeight)) ELSE acc.waiting]

\* The loop after each of the finalized proposals.
ScheduledInOrder(order) ==
  LET after[n \in 0 .. Len(order)] ==
        IF n = 0 THEN [failed |-> FALSE, changes |-> pendingChanges, waiting |-> pendingActivations]
        ELSE ScheduleApproved(after[n - 1], order[n])
  IN  after

\* process_ended_proposals: the voting coordinator finalizes every ended proposal, and
\* only then does the loop schedule the approved ones, in the order of a hash map.
ProcessEndedProposals ==
  LET ended == {i \in DOMAIN voting : paramHeight >= Proposals[i].end + FinalizationGrace}
      burned == {i \in ended : BurnOf(i) # "none"}
  IN  /\ ended # {}
      /\ voting' = Without(voting, ended)
      /\ finalized' = [i \in DOMAIN finalized \cup ended |->
                         IF i \in ended THEN [votes |-> voting[i], at |-> paramHeight,
                                              outcome |-> DetermineProposalOutcome(voting[i])]
                         ELSE finalized[i]]
      /\ pendingBurns' = [i \in DOMAIN pendingBurns \cup burned |->
                            IF i \in burned THEN NewBurn(paramHeight, BurnOf(i)) ELSE pendingBurns[i]]
      /\ \E order \in Orders(ended) :
           LET end == ScheduledInOrder(order)[Len(order)]
           IN  pendingChanges' = end.changes /\ pendingActivations' = end.waiting
      /\ UNCHANGED <<connected, params, byHeight, changeHistory, paramHeight, executedBurns,
                     activated, flags, spends, balances>>

-----------------------------------------------------------------------------
ApplyParameterChanges ==
  ~connected /\ ApplyPendingChanges /\ UNCHANGED <<voting, finalized, connected, burnVars, actVars>>

ExecuteBurns ==
  ExecutePendingBurns(paramHeight)
  /\ UNCHANGED <<voting, finalized, connected, paramVars, actVars>>

ProcessActivationTransaction(i) ==
  ProcessActivation(i, paramHeight) /\ UNCHANGED <<voting, finalized, connected, paramVars, burnVars>>

ActivationTransactionFails(i) ==
  ActivationFails(i, paramHeight) /\ UNCHANGED <<voting, finalized, connected, paramVars, burnVars>>

ConnectToBlockchainState ==
  /\ ~connected /\ connected' = TRUE
  /\ UNCHANGED <<voting, finalized, paramVars, burnVars, actVars>>

GovNext ==
  \/ ParamBlock /\ UNCHANGED <<voting, finalized, connected, burnVars, actVars>>
  \/ ProcessEndedProposals \/ ApplyParameterChanges \/ ExecuteBurns \/ ConnectToBlockchainState
  \/ \E i \in DOMAIN Proposals : \/ ProcessProposal(Proposals[i])
                                 \/ ProcessActivationTransaction(i)
                                 \/ ActivationTransactionFails(i)
  \/ \E b \in Ballots : ProcessVote(b)

GovSpec == GovInit /\ [][GovNext]_govVars

-----------------------------------------------------------------------------
\* Nothing takes effect without both chambers: a proposal that is activated, waits
\* for activation or has a parameter change was finalized with a quorum and a
\* supermajority of the tickets and of the masternodes.
OnlyApprovedTakesEffect ==
  \A i \in (DOMAIN activated \cup DOMAIN pendingActivations \cup DOMAIN pendingChanges)
             \cap DOMAIN Proposals :
    /\ i \in DOMAIN finalized
    /\ LET votes == finalized[i].votes
           yes(voters) == Cardinality({v \in DOMAIN votes \cap voters : votes[v] = "Yes"})
           no(voters) == Cardinality({v \in DOMAIN votes \cap voters : votes[v] = "No"})
       IN  /\ 100 * (yes(Tickets) + no(Tickets)) >= QuorumPercent.pos * Cardinality(Tickets)
           /\ 100 * (yes(MasternodeVoters) + no(MasternodeVoters))
                >= QuorumPercent.mn * Cardinality(MasternodeVoters)
           /\ 100 * yes(Tickets) >= SupermajorityPercent.pos * (yes(Tickets) + no(Tickets))
           /\ 100 * yes(MasternodeVoters)
                >= SupermajorityPercent.mn * (yes(MasternodeVoters) + no(MasternodeVoters))

\* Every coin that left the treasury or the community fund belongs to exactly one
\* activated spend, through failed activations and retries.
SpendsAreCovered ==
  LET spent(account) == {i \in DOMAIN activated : Spends(activated[i]) /\ Account(activated[i]) = account}
      deposits == {i \in DOMAIN activated : activated[i].type = "CommunityFund"} \ spent("fund")
      total(ids) == SumOver([i \in DOMAIN activated |-> AmountOf(activated[i])], ids)
  IN  /\ balances.treasury = InitialTreasury - total(spent("treasury")) /\ balances.treasury >= 0
      /\ balances.fund = total(deposits) - total(spent("fund")) /\ balances.fund >= 0
=============================================================================
