----------------------------- MODULE DkgManager -----------------------------
(***************************************************************************)
(* The key generation manager of one participant                           *)
(* (rusty-crypto/src/dkg_manager.rs): the sessions it takes part in, the   *)
(* status it reports for each, the keys of the completed ones.             *)
(*                                                                         *)
(* A call that returns an error before it changes anything is not a step.  *)
(* complete_dkg_session takes the session out of the active ones before    *)
(* its checks, so its errors are steps (CompleteFails).                    *)
(***************************************************************************)
EXTENDS Integers, FiniteSets, Maps

-----------------------------------------------------------------------------
(***************************************************************************)
(* One distributed key generation session (rusty-shared-types/src/dkg.rs): *)
(* its phases, the commitments and the secret shares it has collected, and *)
(* what the protocol (rusty-crypto/src/dkg.rs) makes of them.              *)
(*                                                                         *)
(* A commitment is the index of its participant.  A share is a record of   *)
(* its dealer, of what its signature covers and of its length in bytes:    *)
(* these are what verification and completion tell apart.                  *)
(***************************************************************************)

CONSTANTS ThresholdPercentage,  \* DKGParams::threshold_percentage
          PhaseTimeouts         \* the sum of the four phase timeouts of DKGParams

\* DKGSession::calculate_threshold: the ceiling of a percentage, at least 1.
CalculateThreshold(n) ==
  LET t == (n * ThresholdPercentage + 99) \div 100 IN IF t < 1 THEN 1 ELSE t

NewSession(participants, threshold, height) ==
  [participants |-> participants, threshold |-> threshold, state |-> "WaitingForParticipants",
   commitments |-> {}, shares |-> EmptyMap, timeout |-> height + PhaseTimeouts]

AllCommitments(s) == s.commitments = s.participants
AllShares(s) == DOMAIN s.shares = s.participants

CanAddCommitment(s, i) ==
  s.state = "CommitmentPhase" /\ i \in s.participants /\ i \notin s.commitments

AddCommitment(s, i) == [s EXCEPT !.commitments = @ \cup {i}]

CanAddShare(s, share) ==
  /\ s.state = "ShareDistribution"
  /\ share.from \in s.participants
  /\ share.from \notin DOMAIN s.shares

AddShare(s, share) == [s EXCEPT !.shares = Put(@, share.from, share)]

\* DKGSession::advance_phase, for the phases that may be left.
CanAdvance(s) ==
  \/ s.state = "WaitingForParticipants" /\ Cardinality(s.participants) >= 3
  \/ s.state = "CommitmentPhase" /\ AllCommitments(s)
  \/ s.state = "ShareDistribution" /\ AllShares(s)
  \/ s.state \in {"ComplaintPhase", "JustificationPhase"}

NextPhase ==
  [WaitingForParticipants |-> "CommitmentPhase", CommitmentPhase |-> "ShareDistribution",
   ShareDistribution |-> "ComplaintPhase", ComplaintPhase |-> "JustificationPhase",
   JustificationPhase |-> "Completed"]

AdvancePhase(s) == [s EXCEPT !.state = NextPhase[@]]

-----------------------------------------------------------------------------
\* DKGProtocol::generate_secret_shares: the nonce and the encrypted scalar, 64
\* bytes, with a signature of those bytes.
GenerateSecretShare(i) == [from |-> i, signed |-> "bytes", length |-> 64]

\* DKGProtocol::verify_secret_share: the signature must cover the bincode form of
\* the bytes, and the verifying participant has an index from 1 to 255.
VerifySecretShare(share, self) ==
  share.signed = "bincode" /\ share.length > 0 /\ self \in 1 .. 255

\* DKGManager::complete_dkg_session reads every share as one 32-byte scalar, and
\* reconstruct_secret_key_share adds them up.
ScalarsOf(shares) == \A i \in DOMAIN shares : shares[i].length = 32
KeyOf(shares) == DOMAIN shares

-----------------------------------------------------------------------------
CONSTANTS SessionIds, Participants,  \* of every session; this manager is Self
          Self, MinParticipants, MaxParticipants, MaxConcurrent,
          SessionTimeout,            \* config.session_timeout_blocks
          Shares,                    \* the shares that arrive
          MaxHeight                  \* bound on current_block_height

VARIABLES active, status, completed, stamps, dkgHeight
dkgVars == <<active, status, completed, stamps, dkgHeight>>

DkgInit ==
  /\ active = EmptyMap /\ status = EmptyMap /\ completed = EmptyMap
  /\ stamps = {} /\ dkgHeight = 0

\* Starting a session under an id in use replaces the session.  The creation height
\* given to DKGSession::new is the height at which the session should time out.
StartSession(i) ==
  /\ Cardinality(Participants) \in MinParticipants .. MaxParticipants
  /\ Cardinality(DOMAIN active) < MaxConcurrent
  /\ dkgHeight + SessionTimeout + PhaseTimeouts <= MaxHeight
  /\ LET s == NewSession(Participants, CalculateThreshold(Cardinality(Participants)),
                         dkgHeight + SessionTimeout)
     IN  active' = Put(active, i, IF CanAdvance(s) THEN AdvancePhase(s) ELSE s)
  /\ status' = Put(status, i, "CollectingCommitments")
  /\ stamps' = stamps \cup {i}
  /\ UNCHANGED <<completed, dkgHeight>>

ProcessCommitment(i, p) ==
  /\ i \in DOMAIN active /\ CanAddCommitment(active[i], p)
  /\ LET s == AddCommitment(active[i], p) IN
     /\ active' = Put(active, i, IF AllCommitments(s) THEN AdvancePhase(s) ELSE s)
     /\ status' = Put(status, i, IF AllCommitments(s) THEN "DistributingShares"
                                                      ELSE "CollectingCommitments")
  /\ UNCHANGED <<completed, stamps, dkgHeight>>

\* With a threshold of shares the session leaves the phase: later shares are refused.
ProcessSecretShare(i, share) ==
  /\ i \in DOMAIN active
  /\ VerifySecretShare(share, Self) /\ CanAddShare(active[i], share)
  /\ LET s == AddShare(active[i], share)
         enough == Cardinality(DOMAIN s.shares) >= s.threshold
     IN  /\ active' = Put(active, i, IF enough THEN [s EXCEPT !.state = "ComplaintPhase"] ELSE s)
         /\ status' = IF enough THEN Put(status, i, "ProcessingComplaints") ELSE status
  /\ UNCHANGED <<completed, stamps, dkgHeight>>

CanComplete(s) ==
  /\ s.state = "ComplaintPhase"
  /\ Cardinality(DOMAIN s.shares) >= s.threshold
  /\ ScalarsOf(s.shares)

CompleteSession(i) ==
  /\ i \in DOMAIN active /\ CanComplete(active[i])
  /\ active' = Without(active, {i})
  /\ completed' = Put(completed, i, KeyOf(active[i].shares))
  /\ status' = Put(status, i, "Completed")
  /\ stamps' = stamps \ {i}
  /\ UNCHANGED dkgHeight

\* The session is removed and nothing records it: status and time stamp stay behind.
CompleteFails(i) ==
  /\ i \in DOMAIN active /\ ~CanComplete(active[i])
  /\ active' = Without(active, {i})
  /\ UNCHANGED <<status, completed, stamps, dkgHeight>>

CleanupSession(i) ==
  /\ i \in DOMAIN active \cup stamps
  /\ active' = Without(active, {i}) /\ stamps' = stamps \ {i}
  /\ UNCHANGED <<status, completed, dkgHeight>>

\* A fault: no session is ever found to be timed out.
NeverTimesOut(h) == {}

TimedOut(h) == {i \in DOMAIN active : h >= active[i].timeout}

\* A fault: when a session times out, every session that has ended is marked with it.
MarksEndedSessions(h) ==
  /\ h > dkgHeight /\ h <= MaxHeight
  /\ dkgHeight' = h
  /\ active' = Without(active, TimedOut(h)) /\ stamps' = stamps \ TimedOut(h)
  /\ status' = [i \in DOMAIN status |-> IF TimedOut(h) # {} /\ i \notin DOMAIN active'
                                          THEN "TimedOut" ELSE status[i]]
  /\ UNCHANGED completed

UpdateBlockHeight(h) ==
  /\ h > dkgHeight /\ h <= MaxHeight
  /\ dkgHeight' = h
  /\ active' = Without(active, TimedOut(h)) /\ stamps' = stamps \ TimedOut(h)
  /\ status' = [i \in DOMAIN status |-> IF i \in TimedOut(h) THEN "TimedOut" ELSE status[i]]
  /\ UNCHANGED completed

NewBlock == UpdateBlockHeight(dkgHeight + 1)

DkgNext ==
  \/ NewBlock
  \/ \E i \in SessionIds :
       \/ StartSession(i) \/ CompleteSession(i) \/ CompleteFails(i) \/ CleanupSession(i)
       \/ \E p \in Participants : ProcessCommitment(i, p)
       \/ \E share \in Shares : ProcessSecretShare(i, share)

\* Blocks keep arriving and update_block_height is called for each, as its caller
\* ThresholdSignatureCoordinator::update_block_height does.
DkgSpec == DkgInit /\ [][DkgNext]_dkgVars /\ WF_dkgVars(NewBlock)

-----------------------------------------------------------------------------

\* The life of each session as a caller sees it.
LifeOf(i) ==
  CASE i \in DOMAIN active /\ active[i].state # "ComplaintPhase" -> "running"
    [] i \in DOMAIN active /\ active[i].state = "ComplaintPhase" -> "ready"
    [] i \notin DOMAIN active /\ i \notin DOMAIN status -> "absent"
    [] i \notin DOMAIN active /\ i \in DOMAIN status ->
         IF status[i] = "Completed" THEN "done"
         ELSE IF status[i] = "TimedOut" THEN "timedOut" ELSE "lost"

Lifecycle == INSTANCE DkgLifecycle WITH Ids <- SessionIds, life <- [i \in SessionIds |-> LifeOf(i)]

\* Refinement: with restarts, late shares, timeouts and failed completions, the
\* manager's maps move each session only along the promised life cycle.
RefinesLifecycle == Lifecycle!LifeSpec

\* As blocks keep arriving, every started session ends and frees its slot among the
\* concurrent sessions (cleanup_timed_out_sessions).
EverySessionEnds == Lifecycle!SessionsEnd
=============================================================================
