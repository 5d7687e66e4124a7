--------------------------- MODULE MasternodeList ---------------------------
(***************************************************************************)
(* The list of masternodes with its operations, and its exchange between   *)
(* nodes.  The exchange replaces whole entries and is modelled on a list   *)
(* of versions; the operations change the fields of entries.               *)
(***************************************************************************)
EXTENDS Naturals, Sequences, FiniteSets, FiniteSetsExt, Maps,
        Integers

-----------------------------------------------------------------------------
(***************************************************************************)
(* rusty-shared-types/src/masternode.rs: the list of masternodes with the  *)
(* status, the proofs of service and the record in key generation of each, *)
(* and the selections made from it.                                        *)
(*                                                                         *)
(* A success rate is given in thousandths; MlMaxSessions keeps it exact.   *)
(* Entries of equal rank are in the order of a hash of the time or of a    *)
(* hash map, which is any order.  The sessions an entry lists are read by  *)
(* nothing and left out.                                                   *)
(***************************************************************************)

CONSTANTS
    MlIds,
    MlCapable,      \* those with a DKG key and a supported DKG version
    MlStatuses,     \* statuses that callers set
    MlCounts, MlMinRates,
    MlMaxHeight,    \* bound: heights
    MlMaxFailed,    \* bound: failures in a row
    MlMaxSessions   \* bound: sessions of a masternode, at most 3

ASSUME MlAssumption == IsFiniteSet(MlIds) /\ MlCounts \subseteq Nat

VARIABLES
    mlMap,      \* map
    mlHeight,   \* the height callers pass
    mlChosen,   \* what the last selection returned, until the list changes
    mlFailed    \* history: masternodes that failed a challenge and neither passed
                \* one nor were given a status since

mlVars == <<mlMap, mlHeight, mlChosen, mlFailed>>

MlInit ==
    /\ mlMap = EmptyMap /\ mlHeight = 0 /\ mlChosen = <<>>
    /\ mlFailed = {}

MlBlock ==
    /\ mlHeight < MlMaxHeight
    /\ mlHeight' = mlHeight + 1
    /\ UNCHANGED <<mlMap, mlChosen, mlFailed>>

-----------------------------------------------------------------------------
(* Entries.                                                                *)

NewEntry ==
    [status |-> "Registered", pose |-> mlHeight, failures |-> 0, sessions |-> 0, rate |-> 0]

register_masternode(id) ==
    /\ id \notin DOMAIN mlMap
    /\ mlMap' = Put(mlMap, id, NewEntry)
    /\ mlChosen' = <<>>
    /\ UNCHANGED <<mlHeight, mlFailed>>

remove_masternode(id) ==
    /\ id \in DOMAIN mlMap
    /\ mlMap' = Without(mlMap, {id})
    /\ mlFailed' = mlFailed \ {id}
    /\ mlChosen' = <<>>
    /\ UNCHANGED mlHeight

ChangeEntry(id, entry) ==
    /\ mlMap' = [mlMap EXCEPT ![id] = entry]
    /\ mlChosen' = <<>>
    /\ UNCHANGED mlHeight

update_masternode_status(id, status) ==
    /\ id \in DOMAIN mlMap
    /\ ChangeEntry(id, [mlMap[id] EXCEPT !.status = status])
    /\ mlFailed' = mlFailed \ {id}

deregister_masternode(id) ==
    /\ id \in DOMAIN mlMap
    /\ ChangeEntry(id, [mlMap[id] EXCEPT !.status = "Banned"])
    /\ UNCHANGED mlFailed

-----------------------------------------------------------------------------
(* Proofs of service and sessions.                                         *)

\* The status is left as it is.
reset_pose_failure_count(id) ==
    /\ id \in DOMAIN mlMap
    /\ ChangeEntry(id, [mlMap[id] EXCEPT !.failures = 0])
    /\ UNCHANGED mlFailed

\* A fault: one failure is tolerated.
IncrementTolerates(id) ==
    /\ id \in DOMAIN mlMap /\ mlMap[id].failures < MlMaxFailed
    /\ ChangeEntry(id, [mlMap[id] EXCEPT !.failures = @ + 1,
                                         !.status = IF @ = "Active" /\ mlMap[id].failures > 0
                                                    THEN "Probation" ELSE @])
    /\ mlFailed' = mlFailed \union {id}

increment_pose_failure_count(id) ==
    /\ id \in DOMAIN mlMap /\ mlMap[id].failures < MlMaxFailed
    /\ ChangeEntry(id, [mlMap[id] EXCEPT !.failures = @ + 1,
                                         !.status = IF @ = "Active" THEN "Probation" ELSE @])
    /\ mlFailed' = mlFailed \union {id}

update_successful_pose(id) ==
    /\ id \in DOMAIN mlMap
    /\ ChangeEntry(id, [mlMap[id] EXCEPT !.pose = mlHeight, !.failures = 0,
                                         !.status = IF @ = "Probation" THEN "Active" ELSE @])
    /\ mlFailed' = mlFailed \ {id}

update_dkg_participation(id, success) ==
    /\ id \in DOMAIN mlMap /\ mlMap[id].sessions < MlMaxSessions
    /\ ChangeEntry(id, [mlMap[id] EXCEPT !.sessions = @ + 1,
                                         !.rate = (@ * 9) \div 10 + IF success THEN 100 ELSE 0])
    /\ UNCHANGED mlFailed

-----------------------------------------------------------------------------
(* Selections.                                                             *)

Active(id) == mlMap[id].status = "Active"

\* The first n of any order of the candidates in which none is before a better one;
\* better holds the pairs of which the first ranks above the second.
Best(candidates, better, n) ==
    {SubSeq(order, 1, Min({n, Len(order)})) :
        order \in {o \in Orders(candidates) :
                     \A i, j \in DOMAIN o : i < j => <<o[j], o[i]>> \notin better}}

FresherServes(a, b) == a.pose > b.pose \/ (a.pose = b.pose /\ a.rate > b.rate)

select_masternodes_for_quorum(n) ==
    LET candidates == {id \in DOMAIN mlMap : Active(id)}
        fresher == {ab \in candidates \X candidates : FresherServes(mlMap[ab[1]], mlMap[ab[2]])} IN
    /\ mlChosen' \in Best(candidates, fresher, n)
    /\ UNCHANGED <<mlMap, mlHeight, mlFailed>>

MoreReliable(a, b) == a.rate > b.rate \/ (a.rate = b.rate /\ a.sessions < b.sessions)

select_masternodes_for_dkg(n, min) ==
    LET candidates == {id \in DOMAIN mlMap \intersect MlCapable : Active(id) /\ mlMap[id].rate >= min}
        steadier == {ab \in candidates \X candidates : MoreReliable(mlMap[ab[1]], mlMap[ab[2]])} IN
    /\ mlChosen' \in Best(candidates, steadier, n)
    /\ UNCHANGED <<mlMap, mlHeight, mlFailed>>

MlNext ==
    \/ MlBlock
    \/ \E id \in MlIds :
        \/ register_masternode(id) \/ remove_masternode(id) \/ deregister_masternode(id)
        \/ \E s \in MlStatuses : update_masternode_status(id, s)
        \/ reset_pose_failure_count(id) \/ increment_pose_failure_count(id)
        \/ update_successful_pose(id)
        \/ \E ok \in BOOLEAN : update_dkg_participation(id, ok)
    \/ \E n \in MlCounts :
        \/ select_masternodes_for_quorum(n)
        \/ \E r \in MlMinRates : select_masternodes_for_dkg(n, r)

MlSpec == MlInit /\ [][MlNext]_mlVars

-----------------------------------------------------------------------------
(* Properties.                                                             *)

\* A masternode that failed a challenge serves in nothing until it has passed
\* one or was given a status: it is in no selection, whatever counters were
\* reset in between (increment_pose_failure_count, "Set status to PROBATION
\* upon failure").
FailedServesNowhere == Range(mlChosen) \intersect mlFailed = {}

-----------------------------------------------------------------------------
(***************************************************************************)
(* The masternode list of one node and its exchange with peers             *)
(* (rusty-masternode/src/mn_list_propagation.rs).  List, list hash, peers  *)
(* being synced and pending updates have a lock each: a handler that       *)
(* changes the list sets the hash in a second step, and the handlers of    *)
(* several tasks interleave.  Requests and answers may be lost.            *)
(*                                                                         *)
(* An entry is a version of the masternode's record, the hash of a list is *)
(* the list.  Signatures are those the entry's operator key verifies.      *)
(***************************************************************************)

CONSTANTS Mns, Versions,     \* ids and versions of entries
          Peers,             \* the connected peers
          Tasks,             \* concurrent handlers of messages
          BatchSize          \* config.max_update_batch_size

VARIABLES mnList,     \* masternode_list
          listHash,   \* current_list_hash
          handling,   \* task -> the hash it has yet to set, and the peer to settle
          syncing,    \* syncing_peers
          lastSync,   \* peers that last_sync_times keeps from being asked
          waiting,    \* pending_updates
          sent,       \* requests and answers in the network, per peer
          overlap     \* whether two tasks ever were between list and hash
listVars == <<mnList, listHash, handling, syncing, lastSync, waiting, sent, overlap>>

ListInit ==
  /\ mnList = EmptyMap /\ listHash = EmptyMap /\ handling = EmptyMap
  /\ syncing = {} /\ lastSync = {} /\ waiting = <<>>
  /\ sent = [p \in Peers |-> 0] /\ overlap = FALSE

Updates == [type : {"Registration", "StatusChange", "Deregistration", "PoSeUpdate", "DKGParticipation"},
            id : Mns, version : Versions]

\* What handle_masternode_update does to the list: nothing orders it by block height.
Applied(list, u) ==
  CASE u.type \in {"Registration", "StatusChange"} -> Put(list, u.id, u.version)
    [] u.type = "Deregistration" -> Without(list, {u.id})
    [] u.type \in {"PoSeUpdate", "DKGParticipation"} ->
         IF u.id \in DOMAIN list THEN Put(list, u.id, u.version) ELSE list

\* The first half of a handler: the list is changed under its lock.
ChangeList(t, list, p, step) ==
  /\ t \notin DOMAIN handling
  /\ mnList' = list
  /\ handling' = Put(handling, t, [hash |-> list, peer |-> p, step |-> step])
  /\ overlap' = (overlap \/ handling # EmptyMap)
  /\ UNCHANGED <<listHash, syncing, lastSync, waiting>>

HandleMasternodeUpdate(t, u, p) == ChangeList(t, Applied(mnList, u), p, "update") /\ UNCHANGED sent

\* handle_list_response replaces the whole list by the peer's.
HandleListResponse(t, list, p) ==
  /\ p \in syncing /\ sent[p] > 0
  /\ sent' = [sent EXCEPT ![p] = @ - 1]
  /\ ChangeList(t, list, p, "response")

HandleFullListSync(t, list, p) == ChangeList(t, list, p, "fullSync") /\ UNCHANGED sent

\* A fault: a full sync leaves the hash as it is.
FullSyncForgets(t) ==
  /\ t \in DOMAIN handling
  /\ listHash' = IF handling[t].step = "fullSync" THEN listHash ELSE handling[t].hash
  /\ handling' = Without(handling, {t})
  /\ UNCHANGED <<mnList, syncing, lastSync, waiting, sent, overlap>>

\* The second half: the hash is set, the peer is no longer being synced or is noted
\* as just synced.
SetHash(t) ==
  /\ t \in DOMAIN handling
  /\ listHash' = handling[t].hash
  /\ handling' = Without(handling, {t})
  /\ syncing' = IF handling[t].step = "response" THEN syncing \ {handling[t].peer} ELSE syncing
  /\ lastSync' = IF handling[t].step = "update" THEN lastSync \cup {handling[t].peer} ELSE lastSync
  /\ UNCHANGED <<mnList, waiting, sent, overlap>>

MayAsk(p) == p \notin syncing

RequestMasternodeList(p) ==
  /\ MayAsk(p)
  /\ syncing' = syncing \cup {p} /\ lastSync' = lastSync \cup {p}
  /\ sent' = [sent EXCEPT ![p] = @ + 1]

\* periodic_sync: the peers whose last sync is long ago are asked, then the pending
\* updates are sent.
PeriodicSync ==
  LET asked == {p \in Peers \ lastSync : MayAsk(p)} IN
  /\ Peers \ lastSync # {} \/ waiting # <<>>
  /\ syncing' = syncing \cup asked /\ lastSync' = lastSync \cup asked
  /\ sent' = [p \in Peers |-> IF p \in asked THEN sent[p] + 1 ELSE sent[p]]
  /\ waiting' = <<>>
  /\ UNCHANGED <<mnList, listHash, handling, overlap>>

\* add_masternode_update: a full batch is sent at once.
AddMasternodeUpdate(u) ==
  /\ waiting' = LET w == Append(waiting, u) IN IF Len(w) >= BatchSize THEN <<>> ELSE w
  /\ UNCHANGED <<mnList, listHash, handling, syncing, lastSync, sent, overlap>>

FlushPendingUpdates ==
  /\ waiting # <<>>
  /\ waiting' = <<>>
  /\ UNCHANGED <<mnList, listHash, handling, syncing, lastSync, sent, overlap>>

\* The request or the answer of a peer is lost; the interval passes.
Lose(p) ==
  /\ sent[p] > 0 /\ sent' = [sent EXCEPT ![p] = @ - 1]
  /\ UNCHANGED <<mnList, listHash, handling, syncing, lastSync, waiting, overlap>>
IntervalPasses(p) ==
  /\ p \in lastSync /\ lastSync' = lastSync \ {p}
  /\ UNCHANGED <<mnList, listHash, handling, syncing, waiting, sent, overlap>>

ListNext ==
  \/ PeriodicSync \/ FlushPendingUpdates
  \/ \E t \in Tasks : SetHash(t)
  \/ \E t \in Tasks, p \in Peers :
       \/ \E u \in Updates : HandleMasternodeUpdate(t, u, p)
       \/ \E S \in SUBSET Mns, v \in Versions :
            HandleListResponse(t, [m \in S |-> v], p) \/ HandleFullListSync(t, [m \in S |-> v], p)
  \/ \E u \in [type : {"Registration"}, id : Mns, version : Versions] : AddMasternodeUpdate(u)
  \/ \E p \in Peers :
       \/ Lose(p) \/ IntervalPasses(p)
       \/ RequestMasternodeList(p) /\ UNCHANGED <<mnList, listHash, handling, waiting, overlap>>

ListSpec == ListInit /\ [][ListNext]_listVars

-----------------------------------------------------------------------------
\* As long as handlers do not overlap, the hash is that of the list whenever none is
\* running, whatever updates, answers and full syncs came in between.  (When two do
\* overlap the later writer of the hash may have computed it from the older list.)
HashOfList == handling = EmptyMap /\ ~overlap => listHash = mnList
=============================================================================
