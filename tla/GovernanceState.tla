--------------------------- MODULE GovernanceState ---------------------------
(***************************************************************************)
(* The active governance proposals of rusty-core (ActiveProposals of       *)
(* consensus/governance_state.rs) as operators on a map from proposal ids  *)
(* to a record of the proposal (start, end, target, value) and its votes,  *)
(* a map from voter ids to [type, choice].                                 *)
(*                                                                         *)
(* Quorums and majorities are percentages.  The code compares a quotient   *)
(* of f64 values with a threshold; the comparison is cross-multiplied.     *)
(***************************************************************************)
EXTENDS Integers, FiniteSets, Functions

CONSTANTS
  PosQuorum, MnQuorum,       \* pos_ and mn_voting_quorum_percentage
  PosApproval, MnApproval    \* pos_ and mn_approval_percentage

ASSUME GovernanceAssumption ==
  {PosQuorum, MnQuorum, PosApproval, MnApproval} \subseteq 0 .. 100

-----------------------------------------------------------------------------
WithVotes(p, votes) ==
  [start |-> p.start, end |-> p.end, target |-> p.target, value |-> p.value, votes |-> votes]

\* A fault: a second vote of the same voter is recorded over the first.
CanRecordAnyVote(props, id, voter) == id \in DOMAIN props

\* record_vote: one vote per voter id, whatever the type of the voter.
CanRecordVote(props, id, voter) ==
  /\ id \in DOMAIN props
  /\ voter \notin DOMAIN props[id].votes

-----------------------------------------------------------------------------
Count(p, type, choice) ==
  Cardinality({v \in DOMAIN p.votes : p.votes[v] = [type |-> type, choice |-> choice]})

\* check_quorum_and_supermajority: abstentions count for nothing, and an empty
\* electorate or an empty ballot never meets its threshold.
AtLeast(part, whole, percent) == whole > 0 /\ part * 100 >= whole * percent

QuorumAndSupermajority(p, liveTickets, activeMns) ==
  LET posCast == Count(p, "PosTicket", "Yes") + Count(p, "PosTicket", "No")
      mnCast  == Count(p, "Masternode", "Yes") + Count(p, "Masternode", "No")
  IN  /\ AtLeast(posCast, liveTickets, PosQuorum)
      /\ AtLeast(mnCast, activeMns, MnQuorum)
      /\ AtLeast(Count(p, "PosTicket", "Yes"), posCast, PosApproval)
      /\ AtLeast(Count(p, "Masternode", "Yes"), mnCast, MnApproval)

\* evaluate_proposal_at_height
EvaluateProposal(p, height, liveTickets, activeMns) ==
  IF height < p.start THEN "InProgress"
  ELSE IF height > p.end THEN "Expired"
  ELSE IF QuorumAndSupermajority(p, liveTickets, activeMns) THEN "Passed"
  ELSE "Rejected"
=============================================================================
