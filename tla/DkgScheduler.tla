---------------------------- MODULE DkgScheduler ----------------------------
(***************************************************************************)
(* The masternode's own key generation manager                             *)
(* (rusty-masternode/src/dkg_manager.rs) over the quorum formation, under  *)
(* the network coordinator (network_coordinator.rs): sessions scheduled by *)
(* block height or joined on request, their expiry, and the rebroadcast of *)
(* stalled sessions.  New blocks and the maintenance timer interleave.     *)
(*                                                                         *)
(* The hash of block h is h.  Participants are masternodes; no commitment  *)
(* or share ever reaches a session (handle_dkg_message does not return for *)
(* them), so a session is its participants, threshold and heights.         *)
(***************************************************************************)
EXTENDS Integers, FiniteSets, FiniteSetsExt, Maps

-----------------------------------------------------------------------------
(***************************************************************************)
(* The quorum formation manager of one masternode                          *)
(* (rusty-masternode/src/quorum_formation.rs) over a masternode list whose *)
(* entries stay as they are.  It scores the active masternodes, draws a    *)
(* quorum among those that score at least 0.8, and remembers every draw.   *)
(*                                                                         *)
(* The draw runs over a Vec collected from a HashMap, so it is a choice    *)
(* among the qualified masternodes.  Scores are kept as exact fractions.   *)
(***************************************************************************)

CONSTANTS Masternodes,         \* the active ones of the masternode list
          PoseFailures,        \* pose_failure_count of each
          SuccessPercent,      \* dkg_success_rate of each, in percent
          MinActive,           \* config.min_active_masternodes
          QuorumSize,          \* config.oxidesend_quorum_size, used for DKG quorums
          QuorumDuration       \* blocks, 50 for a DKG quorum

VARIABLES quorums,   \* active_quorums: quorum id -> threshold and expiration
          history    \* masternode_participation_history: number of draws of each
quorumVars == <<quorums, history>>

QuorumInit == quorums = EmptyMap /\ history = [mn \in Masternodes |-> 0]

\* total_score >= 0.8 for a masternode drawn n times, over a common denominator:
\* 0.4 uptime + 0.3 dkg + 0.2 participation + 0.1 of the mean of the three, where
\* participation is 1 / (1 + n/10) and at least 1/10.
Qualifies(mn, n) ==
  LET k == IF n > 90 THEN 90 ELSE n
      uptime == IF PoseFailures[mn] > 10 THEN 0 ELSE 10 - PoseFailures[mn]
  IN  (130 * uptime + 10 * SuccessPercent[mn] - 2400) * (10 + k) + 7000 >= 0

Qualified == {mn \in Masternodes : Qualifies(mn, history[mn])}

Draws == IF Cardinality(Qualified) < QuorumSize THEN {} ELSE kSubset(QuorumSize, Qualified)

QuorumThreshold(n) == (2 * n + 2) \div 3

\* The id hashes the type, the members and the block hash; the height of the block
\* is not part of it.
QuorumId(members, hash) == [members |-> members, hash |-> hash]

\* form_quorum draws the members at a height, with the hash of a block.
FormQuorum(members, h, hash) ==
  /\ Cardinality(Masternodes) >= MinActive
  /\ members \in Draws
  /\ quorums' = Put(quorums, QuorumId(members, hash),
                    [threshold |-> QuorumThreshold(QuorumSize), expires |-> h + QuorumDuration])
  /\ history' = [mn \in Masternodes |-> IF mn \in members THEN history[mn] + 1 ELSE history[mn]]

CanForm == Cardinality(Masternodes) >= MinActive /\ Draws # {}

CleanupExpiredQuorums(h) ==
  /\ quorums' = Without(quorums, {q \in DOMAIN quorums : h > quorums[q].expires})
  /\ quorums' # quorums
  /\ UNCHANGED history

-----------------------------------------------------------------------------
CONSTANTS Me,              \* this masternode
          TargetSize,      \* a quorum is truncated to this number of participants
          ThresholdPercent,\* params.threshold_percentage
          Requests,        \* requests of other masternodes
          Interval,        \* of scheduled sessions, 1000 blocks
          SessionBlocks,   \* the sum of the phase timeouts
          ExpiryWindow,    \* blocks a session is kept after its timeout, 1000
          MaxBlockAge,     \* of a request, 10 blocks
          RetryAge,        \* of a session that is rebroadcast, 100 blocks
          MaxBlocks        \* bound on the height

\* This masternode signs its requests as a whole (initiate_dkg_session): no request in
\* its name has a signature of the fields.
ASSUME RequestsAssumption == \A r \in Requests : r.id.initiator = Me => r.signed # "fields"

VARIABLES joined,      \* active_sessions: session id -> session data
          outbox,      \* outgoing_messages
          height,      \* current_block_height of the DKG manager
          coordHash    \* current_block_hash of the coordinator
schedVars == <<quorums, history, joined, outbox, height, coordHash>>

SchedInit ==
  QuorumInit /\ joined = EmptyMap /\ outbox = {} /\ height = 0 /\ coordHash = 0

CleanupExpiredSessions(map, h) ==
  Without(map, {i \in DOMAIN map : map[i].created + SessionBlocks < h - ExpiryWindow})

\* A fault: a session created at this height is not noticed.
NeverActive(map, h) == FALSE

AlreadyActive(map, h) == \E i \in DOMAIN map : map[i].created = h

\* The truncations of a drawn quorum to the target size.
SelectDkgParticipants(members) ==
  IF Cardinality(members) > TargetSize THEN kSubset(TargetSize, members) ELSE {members}

\* initiate_dkg_session: the id hashes the initiator, the height and the participants.
\* A masternode that was not drawn gets an error, which is only logged.
Initiate(map, participants, h, resent) ==
  LET i == [initiator |-> Me, created |-> h, participants |-> participants]
      t == (Cardinality(participants) * ThresholdPercent + 99) \div 100
      request == [id |-> i, height |-> h, threshold |-> t, signed |-> "struct"]
  IN  IF Me \notin participants THEN joined' = map /\ outbox' = outbox \cup resent
      ELSE /\ joined' = Put(map, i, [created |-> h, threshold |-> t])
           /\ outbox' = outbox \cup resent \cup {request}

\* maybe_initiate_scheduled_dkg on the sessions left in map, when it succeeds.
MaybeInitiate(map, h, hash, resent) ==
  IF h % Interval # 0 \/ AlreadyActive(map, h)
  THEN joined' = map /\ outbox' = outbox \cup resent /\ UNCHANGED quorumVars
  ELSE \E members \in Draws :
         /\ FormQuorum(members, h, hash)
         /\ \E ps \in SelectDkgParticipants(members) : Initiate(map, ps, h, resent)

InitiationFails(map, h) ==
  /\ h % Interval = 0 /\ ~AlreadyActive(map, h) /\ ~CanForm
  /\ joined' = map /\ UNCHANGED <<quorums, history, outbox>>

\* MNNetworkCoordinator::update_block_height: the coordinator keeps its old hash
\* when the DKG manager, which has its new height by then, fails to form a quorum.
UpdateSchedulerHeight(h) ==
  LET map == CleanupExpiredSessions(joined, h) IN
  /\ h <= MaxBlocks
  /\ height' = h
  /\ \/ MaybeInitiate(map, h, h, {}) /\ coordHash' = h
     \/ InitiationFails(map, h) /\ UNCHANGED coordHash

Rebroadcast(i) ==
  [id |-> i, height |-> joined[i].created, threshold |-> joined[i].threshold, signed |-> "struct"]

\* periodic_maintenance, with the hash that the coordinator holds; an initiation that
\* fails ends it before the rebroadcast.
PeriodicMaintenance ==
  LET map == CleanupExpiredSessions(joined, height)
      stalled == {i \in DOMAIN map : height - map[i].created > RetryAge}
  IN  /\ \/ MaybeInitiate(map, height, coordHash, {Rebroadcast(i) : i \in stalled})
         \/ InitiationFails(map, height)
      /\ UNCHANGED <<height, coordHash>>

ValidBlockHeight(created, h) == created <= h /\ h - created <= MaxBlockAge

\* validate_dkg_request: the signature must cover the fields one after the other,
\* while initiate_dkg_session signs the whole request.
ValidateDkgRequest(r) ==
  LET n == Cardinality(r.id.participants) IN
  /\ r.threshold \in 1 .. n /\ n \in 3 .. 100
  /\ r.id.initiator \in r.id.participants
  /\ ValidBlockHeight(r.height, height)
  /\ r.signed = "fields"

\* handle_initiate_request replaces whatever session has the id.
HandleInitiateRequest(r) ==
  /\ Me \in r.id.participants /\ ValidateDkgRequest(r)
  /\ joined' = Put(joined, r.id, [created |-> r.height, threshold |-> r.threshold])
  /\ UNCHANGED <<quorums, history, outbox, height, coordHash>>

SchedNext ==
  \/ UpdateSchedulerHeight(height + 1)
  \/ PeriodicMaintenance
  \/ CleanupExpiredQuorums(height) /\ UNCHANGED <<joined, outbox, height, coordHash>>
  \/ \E r \in Requests : HandleInitiateRequest(r)

SchedSpec == SchedInit /\ [][SchedNext]_schedVars

-----------------------------------------------------------------------------
\* However block updates and maintenance ticks interleave at a scheduled height, at
\* most one of this masternode's sessions is created for it (the already_active
\* check), although every tick may draw another quorum.
OneSessionPerHeight ==
  \A i, j \in DOMAIN joined :
    i.initiator = Me /\ j.initiator = Me /\ joined[i].created = joined[j].created => i = j
=============================================================================
