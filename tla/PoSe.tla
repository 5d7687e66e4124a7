-------------------------------- MODULE PoSe --------------------------------
(***************************************************************************)
(* Proof of Service at one masternode: the coordinator                     *)
(* (rusty-masternode/src/pose_coordinator.rs) challenges other masternodes *)
(* and the manager (pose.rs) judges the responses and the silence.         *)
(*                                                                         *)
(* Blocks are counted modulo the challenge period; challenges and records  *)
(* carry their age in blocks.  Challengers and targets are drawn from a    *)
(* Vec collected from a HashMap, so the draw is a choice.                  *)
(***************************************************************************)
EXTENDS Integers, Sequences, FiniteSets, FiniteSetsExt, Maps

CONSTANTS Nodes, Us,          \* the active masternodes, and this one
          NumChallengers,     \* config.num_challengers
          MinForPose,         \* config.min_masternodes_for_pose
          ChallengePeriod,    \* 10 blocks in maybe_generate_challenges
          MaxFailures,        \* config.max_consecutive_failures
          OldAge,             \* ages are counted up to here
          MaxRecords          \* bound on the history of one masternode

ASSUME PoseAssumption == Us \in Nodes

VARIABLES block,        \* height modulo ChallengePeriod
          todo,         \* targets of this block that are still to be challenged
          challenges,   \* active_challenges: target -> age
          records,      \* challenge_history: masternode -> records, oldest first
          slashes       \* pending_slashes
poseVars == <<block, todo, challenges, records, slashes>>

PoseInit ==
  /\ block = 1 % ChallengePeriod /\ todo = {} /\ challenges = EmptyMap
  /\ records = [mn \in Nodes |-> <<>>] /\ slashes = {}

ResponseTimeout == 60 \div 150   \* response_timeout_seconds in blocks of 150 seconds

SelectChallengers ==
  IF Cardinality(Nodes) < NumChallengers THEN {} ELSE kSubset(NumChallengers, Nodes)

SelectTargets(challengers) ==
  LET eligible == Nodes \ challengers
      tenth == Cardinality(eligible) \div 10
  IN  IF eligible = {} THEN {{}} ELSE kSubset(IF tenth < 1 THEN 1 ELSE tenth, eligible)

Age(n) == IF n < OldAge THEN n + 1 ELSE n

\* update_block_height: at every tenth block the targets are drawn, whether or not
\* this masternode is among the challengers.  The challenges are made one by one,
\* and the manager is unlocked in between.
PoseNewBlock ==
  /\ todo = {}
  /\ block' = (block + 1) % ChallengePeriod
  /\ challenges' = [t \in DOMAIN challenges |-> Age(challenges[t])]
  /\ records' = [mn \in Nodes |->
                   [i \in DOMAIN records[mn] |-> [records[mn][i] EXCEPT !.age = Age(@)]]]
  /\ IF block' = 0
     THEN \E challengers \in SelectChallengers : todo' \in SelectTargets(challengers)
     ELSE todo' = {}
  /\ UNCHANGED slashes

\* An earlier challenge of the target that is still open is replaced.
BroadcastChallenge(t) ==
  /\ t \in todo
  /\ todo' = todo \ {t}
  /\ challenges' = Put(challenges, t, 0)
  /\ UNCHANGED <<block, records, slashes>>

\* PoSeManager::generate_challenges: the same, all at once and only as a challenger.
GenerateChallenges ==
  /\ Cardinality(Nodes) >= MinForPose
  /\ \E challengers \in SelectChallengers, targets \in SUBSET Nodes :
       /\ Us \in challengers /\ targets \in SelectTargets(challengers)
       /\ challenges' = [t \in DOMAIN challenges \cup targets |->
                           IF t \in targets THEN 0 ELSE challenges[t]]
  /\ UNCHANGED <<block, todo, records, slashes>>

\* verify_pose_response: generate_pose_response puts its 64-byte signature where the
\* 32-byte block hash is expected ("signature", the conversion panics), and the block
\* hash itself is no signature ("blockHash").
VerifyPoseResponse(response) == FALSE

\* A fault: the record of an answer is filed under the masternode that answered.
FiledUnderTarget(t) == t

FiledUnder(t) == Us

Record(mn, r) == records' = [records EXCEPT ![mn] = Append(@, r)]

\* handle_pose_response: the record is filed under the challenger, this masternode.
HandlePoseResponse(t, response) ==
  /\ t \in DOMAIN challenges /\ Len(records[Us]) < MaxRecords /\ Len(records[t]) < MaxRecords
  /\ challenges' = Without(challenges, {t})
  /\ IF response = "signature" THEN UNCHANGED records
     ELSE Record(FiledUnder(t), [age |-> challenges[t], answered |-> TRUE,
                                 valid |-> VerifyPoseResponse(response)])
  /\ UNCHANGED <<block, todo, slashes>>

\* check_challenge_timeouts files under the silent masternode.
CheckChallengeTimeouts ==
  LET late == {t \in DOMAIN challenges : challenges[t] > ResponseTimeout} IN
  /\ late # {} /\ \A t \in late : Len(records[t]) < MaxRecords
  /\ challenges' = Without(challenges, late)
  /\ records' = [mn \in Nodes |->
       IF mn \in late
       THEN Append(records[mn], [age |-> challenges[mn], answered |-> FALSE, valid |-> FALSE])
       ELSE records[mn]]
  /\ UNCHANGED <<block, todo, slashes>>

ConsecutiveFailures(mn) ==
  LET good == {i \in DOMAIN records[mn] : records[mn][i].valid}
  IN  IF good = {} THEN Len(records[mn]) ELSE Len(records[mn]) - Max(good)

ShouldSlash(mn) == ConsecutiveFailures(mn) >= MaxFailures

BroadcastSlashing(mn) ==
  /\ ShouldSlash(mn) /\ mn \notin slashes
  /\ slashes' = slashes \cup {mn}
  /\ UNCHANGED <<block, todo, challenges, records>>

GetPendingSlashes ==
  slashes # {} /\ slashes' = {} /\ UNCHANGED <<block, todo, challenges, records>>

\* Vec::retain: the records of s at the positions in I, in their order.
Retain(s, I) ==
  LET position(i) == Cardinality({j \in I : j <= i})
  IN  [k \in 1 .. Cardinality(I) |-> s[CHOOSE i \in I : position(i) = k]]

CleanupOldHistory ==
  /\ records' = [mn \in Nodes |->
       Retain(records[mn], {i \in DOMAIN records[mn] : records[mn][i].age < OldAge})]
  /\ records' # records
  /\ UNCHANGED <<block, todo, challenges, slashes>>

PoseNext ==
  \/ PoseNewBlock \/ GenerateChallenges \/ CheckChallengeTimeouts
  \/ GetPendingSlashes \/ CleanupOldHistory
  \/ \E mn \in Nodes :
       \/ BroadcastChallenge(mn) \/ BroadcastSlashing(mn)
       \/ \E response \in {"wrongNonce", "blockHash", "signature"} : HandlePoseResponse(mn, response)

PoseSpec == PoseInit /\ [][PoseNext]_poseVars

-----------------------------------------------------------------------------

\* Another masternode is only ever blamed for silence.  The failures of those that
\* answered are filed under this masternode: three of them make it slashable itself.
BlamedForSilenceOnly ==
  \A mn \in Nodes \ {Us} : ShouldSlash(mn) => \A i \in DOMAIN records[mn] : ~records[mn][i].answered
=============================================================================
