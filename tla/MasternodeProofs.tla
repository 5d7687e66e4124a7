-------------------------- MODULE MasternodeProofs --------------------------
(***************************************************************************)
(* Proofs about the services of a masternode: the schedule and the         *)
(* sessions of key generations, the list of masternodes and its exchange,  *)
(* proof of service, and the locks of transactions.                        *)
(***************************************************************************)
EXTENDS DkgScheduler, PoSe, MasternodeList, DkgManager, OxideSend, FiniteSetTheorems,
        TLAPS

-----------------------------------------------------------------------------
(***************************************************************************)
(* The schedule of key generations.  The property is inductive: a session  *)
(* is only added for a height that has none, and what others ask for is    *)
(* never filed under an id of this masternode.                             *)
(***************************************************************************)

\* No session is added by keeping fewer of them.
LEMMA FewerSessions ==
  ASSUME NEW S, OneSessionPerHeight, joined' = Without(joined, S)
  PROVE  OneSessionPerHeight'
BY Zenon DEF OneSessionPerHeight, Without

\* maybe_initiate_dkg_session, on what cleanup_expired_sessions left.
LEMMA InitiationKeeps ==
  ASSUME OneSessionPerHeight, NEW h, NEW hash, NEW resent, NEW S,
         MaybeInitiate(Without(joined, S), h, hash, resent)
  PROVE  OneSessionPerHeight'
<1> DEFINE map == Without(joined, S)
<1>1. CASE joined' = map
  BY <1>1, FewerSessions, Zenon
<1>2. ASSUME NEW i, NEW s, joined' = Put(map, i, s), s.created = h, ~AlreadyActive(map, h)
      PROVE  OneSessionPerHeight'
  <2>1. /\ DOMAIN joined' = DOMAIN map \cup {i} /\ joined'[i] = s
        /\ \A j \in DOMAIN map \ {i} : joined'[j] = map[j]
    BY <1>2, Zenon DEF Put
  <2>2. \A j \in DOMAIN map : map[j].created # h
    BY <1>2, Zenon DEF AlreadyActive
  <2>3. DOMAIN map \subseteq DOMAIN joined /\ \A j \in DOMAIN map : map[j] = joined[j]
    BY Zenon DEF Without
  <2> HIDE DEF map
  <2> QED
    BY <1>2, <2>1, <2>2, <2>3 DEF OneSessionPerHeight
<1>3. ASSUME NEW ps, ~AlreadyActive(map, h), Initiate(map, ps, h, resent)
      PROVE  OneSessionPerHeight'
  <2> DEFINE i == [initiator |-> Me, created |-> h, participants |-> ps]
             t == (Cardinality(ps) * ThresholdPercent + 99) \div 100
             s == [created |-> h, threshold |-> t]
  <2>1. joined' = map \/ joined' = Put(map, i, s)
    BY <1>3, Zenon DEF Initiate
  <2>2. s.created = h
    BY Zenon
  <2> HIDE DEF map, i, s
  <2> QED
    BY <1>1, <1>2, <1>3, <2>1, <2>2, Zenon
<1> QED
  BY <1>1, <1>3, Zenon DEF MaybeInitiate

LEMMA ScheduleStep == OneSessionPerHeight /\ [SchedNext]_schedVars => OneSessionPerHeight'
<1> SUFFICES ASSUME OneSessionPerHeight, [SchedNext]_schedVars PROVE OneSessionPerHeight'
  BY Zenon
<1>1. ASSUME NEW h, UpdateSchedulerHeight(h) PROVE OneSessionPerHeight'
  BY <1>1, InitiationKeeps, FewerSessions, Zenon
     DEF UpdateSchedulerHeight, InitiationFails, CleanupExpiredSessions
<1>2. CASE PeriodicMaintenance
  BY <1>2, InitiationKeeps, FewerSessions, Zenon
     DEF PeriodicMaintenance, InitiationFails, CleanupExpiredSessions
<1>3. ASSUME NEW r \in Requests, HandleInitiateRequest(r) PROVE OneSessionPerHeight'
  <2>1. r.id.initiator # Me
    BY <1>3, RequestsAssumption, Zenon DEF HandleInitiateRequest, ValidateDkgRequest
  <2>2. /\ DOMAIN joined' = DOMAIN joined \cup {r.id}
        /\ \A j \in DOMAIN joined \ {r.id} : joined'[j] = joined[j]
    BY <1>3, Zenon DEF HandleInitiateRequest, Put
  <2> QED
    BY <2>1, <2>2, Zenon DEF OneSessionPerHeight
<1>4. CASE UNCHANGED joined
  BY <1>4, Zenon DEF OneSessionPerHeight
<1> QED
  BY <1>1, <1>2, <1>3, <1>4, Zenon DEF SchedNext, schedVars

\* For any masternodes, quorums, requests and intervals: however block updates,
\* maintenance ticks and requests interleave, a masternode has one session of its own
\* for a height at most (the already_active check of maybe_initiate_dkg_session).
THEOREM OneOwnSessionPerHeight == SchedSpec => []OneSessionPerHeight
<1>1. SchedInit => OneSessionPerHeight
  BY Zenon DEF SchedInit, OneSessionPerHeight, EmptyMap
<1> QED
  BY <1>1, ScheduleStep, PTL DEF SchedSpec

-----------------------------------------------------------------------------
(***************************************************************************)
(* The exchange of the list: at most one handler runs as long as none      *)
(* overlap, and it carries the hash of the list as it is.                  *)
(***************************************************************************)

\* The inductive invariant.
HashInv ==
  ~overlap => \/ handling = EmptyMap /\ listHash = mnList
              \/ \E t \in Tasks : DOMAIN handling = {t} /\ handling[t].hash = mnList

\* The first half of a handler.
LEMMA ChangeKeepsHash ==
  ASSUME HashInv, NEW t \in Tasks, NEW list, NEW p, NEW step, ChangeList(t, list, p, step)
  PROVE  HashInv'
<1> SUFFICES ASSUME ~overlap' PROVE DOMAIN handling' = {t} /\ handling'[t].hash = mnList'
  BY Zenon DEF HashInv
<1>1. handling = EmptyMap
  BY Zenon DEF ChangeList
<1> QED
  BY <1>1, Zenon DEF ChangeList, Put, EmptyMap

LEMMA HashStep == HashInv /\ [ListNext]_listVars => HashInv'
<1> SUFFICES ASSUME HashInv, [ListNext]_listVars PROVE HashInv'
  OBVIOUS
<1>1. ASSUME NEW t \in Tasks, SetHash(t) PROVE HashInv'
  <2> SUFFICES ASSUME ~overlap PROVE handling' = EmptyMap /\ listHash' = mnList'
    BY <1>1, Zenon DEF SetHash, HashInv
  <2>1. t \in DOMAIN handling /\ handling # EmptyMap
    BY <1>1, Zenon DEF SetHash, EmptyMap
  <2>2. DOMAIN handling = {t} /\ handling[t].hash = mnList
    BY <2>1, Zenon DEF HashInv
  <2> QED
    BY <1>1, <2>2, Zenon DEF SetHash, Without, EmptyMap
<1>2. ASSUME NEW t \in Tasks, NEW p, NEW u, HandleMasternodeUpdate(t, u, p) PROVE HashInv'
  BY <1>2, ChangeKeepsHash, Zenon DEF HandleMasternodeUpdate
<1>3. ASSUME NEW t \in Tasks, NEW p, NEW list,
             HandleListResponse(t, list, p) \/ HandleFullListSync(t, list, p)
      PROVE  HashInv'
  BY <1>3, ChangeKeepsHash, Zenon DEF HandleListResponse, HandleFullListSync
<1>4. CASE UNCHANGED <<mnList, listHash, handling, overlap>>
  BY <1>4, Zenon DEF HashInv
<1>5. CASE PeriodicSync \/ FlushPendingUpdates \/ UNCHANGED listVars
  BY <1>4, <1>5, Zenon DEF PeriodicSync, FlushPendingUpdates, listVars
<1>6. ASSUME NEW u, AddMasternodeUpdate(u) PROVE HashInv'
  BY <1>4, <1>6, Zenon DEF AddMasternodeUpdate
<1>7. ASSUME NEW p \in Peers, Lose(p) \/ IntervalPasses(p) PROVE HashInv'
  BY <1>4, <1>7, Zenon DEF Lose, IntervalPasses
<1> QED
  BY <1>1, <1>2, <1>3, <1>4, <1>5, <1>6, <1>7, Zenon DEF ListNext

\* For any masternodes, versions, peers and handlers: as long as no two handlers were
\* between list and hash at once, the hash is that of the list whenever none is
\* (handle_masternode_update, handle_list_response, handle_full_list_sync).
THEOREM HashFollowsList == ListSpec => []HashOfList
<1>1. ListInit => HashInv
  BY Zenon DEF ListInit, HashInv
<1>2. HashInv => HashOfList
  BY Zenon DEF HashInv, HashOfList, EmptyMap
<1> QED
  BY <1>1, <1>2, HashStep, PTL DEF ListSpec

-----------------------------------------------------------------------------
(***************************************************************************)
(* The entries of the list: none of the masternodes that failed is active, *)
(* and only active ones are selected.                                      *)
(***************************************************************************)

\* An entry has the fields the operations change.
EntryOf(e) ==
  e = [status |-> e.status, pose |-> e.pose, failures |-> e.failures,
       sessions |-> e.sessions, rate |-> e.rate]

FailedInv ==
  /\ DOMAIN mlMap \subseteq MlIds
  /\ \A id \in DOMAIN mlMap : EntryOf(mlMap[id])
  /\ \A id \in mlFailed : id \in DOMAIN mlMap => mlMap[id].status # "Active"
  /\ FailedServesNowhere

\* What an operation does to the fields of an entry.
LEMMA FieldChanges ==
  ASSUME NEW r, EntryOf(r), NEW v
  PROVE  /\ EntryOf([r EXCEPT !.status = v]) /\ [r EXCEPT !.status = v].status = v
         /\ EntryOf([r EXCEPT !.pose = v]) /\ [r EXCEPT !.pose = v].status = r.status
         /\ EntryOf([r EXCEPT !.failures = v]) /\ [r EXCEPT !.failures = v].status = r.status
         /\ EntryOf([r EXCEPT !.sessions = v]) /\ [r EXCEPT !.sessions = v].status = r.status
         /\ EntryOf([r EXCEPT !.rate = v]) /\ [r EXCEPT !.rate = v].status = r.status
<1>1. EntryOf([r EXCEPT !.status = v]) /\ [r EXCEPT !.status = v].status = v
  BY DEF EntryOf
<1>2. EntryOf([r EXCEPT !.pose = v]) /\ [r EXCEPT !.pose = v].status = r.status
  BY DEF EntryOf
<1>3. EntryOf([r EXCEPT !.failures = v]) /\ [r EXCEPT !.failures = v].status = r.status
  BY DEF EntryOf
<1>4. EntryOf([r EXCEPT !.sessions = v]) /\ [r EXCEPT !.sessions = v].status = r.status
  BY DEF EntryOf
<1>5. EntryOf([r EXCEPT !.rate = v]) /\ [r EXCEPT !.rate = v].status = r.status
  BY DEF EntryOf
<1> QED
  BY <1>1, <1>2, <1>3, <1>4, <1>5, Zenon

\* A selection takes its members from the candidates.
LEMMA BestAreCandidates ==
  ASSUME NEW C, IsFiniteSet(C), NEW better, NEW n \in Nat, NEW s \in Best(C, better, n)
  PROVE  Range(s) \subseteq C
<1>1. PICK o \in Orders(C) : s = SubSeq(o, 1, Min({n, Len(o)}))
  BY Zenon DEF Best
<1> DEFINE k == Cardinality(C)
<1>2. k \in Nat
  BY FS_CardinalityType, Zenon
<1>3. o \in [1 .. k -> C]
  BY <1>1, Zenon DEF Orders, Injection, IsInjective
<1> HIDE DEF k
<1>4. o \in Seq(C) /\ Len(o) = k
  BY <1>2, <1>3
<1>5. Min({n, k}) \in 0 .. k
  <2>1. \E x \in {n, k} : \A y \in {n, k} : x <= y
    BY <1>2
  <2>2. Min({n, k}) \in {n, k} /\ \A y \in {n, k} : Min({n, k}) <= y
    BY <2>1, Zenon DEF Min
  <2> QED
    BY <1>2, <2>2
<1>6. s \in Seq(C)
  <2> DEFINE m == Min({n, k})
  <2>1. m \in 0 .. k /\ s = SubSeq(o, 1, m)
    BY <1>1, <1>4, <1>5, Zenon
  <2> HIDE DEF m
  <2> QED
    BY <1>2, <1>4, <2>1
<1> QED
  BY <1>6 DEF Range

\* A change of an entry empties the selection.
LEMMA ChangeKeepsFailed ==
  ASSUME FailedInv, NEW id \in DOMAIN mlMap, NEW e, EntryOf(e), ChangeEntry(id, e),
         \/ mlFailed' = mlFailed \ {id}
         \/ mlFailed' \subseteq mlFailed \cup {id} /\ e.status # "Active"
         \/ mlFailed' = mlFailed /\ e.status = mlMap[id].status
  PROVE  FailedInv'
<1>1. /\ DOMAIN mlMap' = DOMAIN mlMap /\ mlMap'[id] = e
      /\ \A j \in DOMAIN mlMap \ {id} : mlMap'[j] = mlMap[j]
      /\ mlChosen' = <<>>
  BY Zenon DEF ChangeEntry
<1>2. FailedServesNowhere'
  BY <1>1 DEF FailedServesNowhere, Range
<1>3. \A j \in DOMAIN mlMap' : EntryOf(mlMap'[j])
  BY <1>1, Zenon DEF FailedInv
<1>4. \A j \in mlFailed' : j \in DOMAIN mlMap' => mlMap'[j].status # "Active"
  <2>1. \A j \in mlFailed : j \in DOMAIN mlMap => mlMap[j].status # "Active"
    BY Zenon DEF FailedInv
  <2>2. mlFailed' \subseteq mlFailed \cup {id}
    BY Zenon
  <2>3. id \in mlFailed' => mlMap'[id].status # "Active"
    <3>1. mlMap'[id] = e /\ (id \in mlFailed => mlMap[id].status # "Active")
      BY <1>1, <2>1, Zenon
    <3> QED
      BY <3>1, Zenon
  <2> QED
    BY <1>1, <2>1, <2>2, <2>3, Zenon
<1> QED
  BY <1>1, <1>2, <1>3, <1>4, Zenon DEF FailedInv

\* The selections: their candidates are active.
LEMMA SelectionKeepsFailed ==
  ASSUME FailedInv, NEW C \in SUBSET DOMAIN mlMap, \A id \in C : Active(id),
         NEW better, NEW n \in MlCounts, mlChosen' \in Best(C, better, n),
         UNCHANGED <<mlMap, mlHeight, mlFailed>>
  PROVE  FailedInv'
<1>1. IsFiniteSet(C) /\ n \in Nat
  BY MlAssumption, FS_Subset, Zenon DEF FailedInv
<1>2. Range(mlChosen') \subseteq C
  BY <1>1, BestAreCandidates, Zenon
<1>3. C \cap mlFailed = {}
  BY Zenon DEF FailedInv, Active
<1> QED
  BY <1>2, <1>3, Zenon DEF FailedInv, FailedServesNowhere

LEMMA FailedStep == FailedInv /\ [MlNext]_mlVars => FailedInv'
<1> SUFFICES ASSUME FailedInv, [MlNext]_mlVars PROVE FailedInv'
  OBVIOUS
<1>1. CASE MlBlock \/ UNCHANGED mlVars
  BY <1>1, Zenon DEF MlBlock, mlVars, FailedInv, FailedServesNowhere
<1>2. ASSUME NEW id \in MlIds, register_masternode(id) PROVE FailedInv'
  <2>1. /\ DOMAIN mlMap' = DOMAIN mlMap \cup {id} /\ mlMap'[id] = NewEntry
        /\ \A j \in DOMAIN mlMap \ {id} : mlMap'[j] = mlMap[j]
        /\ mlChosen' = <<>> /\ mlFailed' = mlFailed
    BY <1>2, Zenon DEF register_masternode, Put
  <2>2. EntryOf(NewEntry) /\ NewEntry.status # "Active"
    BY Zenon DEF EntryOf, NewEntry
  <2>3. FailedServesNowhere'
    BY <2>1 DEF FailedServesNowhere, Range
  <2> QED
    BY <2>1, <2>2, <2>3, Zenon DEF FailedInv
<1>3. ASSUME NEW id \in MlIds, remove_masternode(id) PROVE FailedInv'
  <2>1. /\ DOMAIN mlMap' = DOMAIN mlMap \ {id}
        /\ \A j \in DOMAIN mlMap' : mlMap'[j] = mlMap[j]
        /\ mlChosen' = <<>> /\ mlFailed' \subseteq mlFailed
    BY <1>3, Zenon DEF remove_masternode, Without
  <2>2. FailedServesNowhere'
    BY <2>1 DEF FailedServesNowhere, Range
  <2> QED
    BY <2>1, <2>2, Zenon DEF FailedInv
<1>4. ASSUME NEW id \in MlIds, NEW s, update_masternode_status(id, s) PROVE FailedInv'
  <2> DEFINE e == [mlMap[id] EXCEPT !.status = s]
  <2>1. id \in DOMAIN mlMap /\ ChangeEntry(id, e) /\ mlFailed' = mlFailed \ {id}
    BY <1>4, Zenon DEF update_masternode_status
  <2>2. EntryOf(e)
    BY <2>1 DEF EntryOf, FailedInv
  <2> HIDE DEF e
  <2> QED
    BY <2>1, <2>2, ChangeKeepsFailed, Zenon
<1>5. ASSUME NEW id \in MlIds, deregister_masternode(id) PROVE FailedInv'
  <2> DEFINE e == [mlMap[id] EXCEPT !.status = "Banned"]
  <2>1. id \in DOMAIN mlMap /\ ChangeEntry(id, e) /\ mlFailed' = mlFailed
    BY <1>5, Zenon DEF deregister_masternode
  <2>2. EntryOf(e) /\ e.status = "Banned"
    BY <2>1 DEF EntryOf, FailedInv
  <2> HIDE DEF e
  <2> QED
    BY <2>1, <2>2, ChangeKeepsFailed, Zenon
<1>6. ASSUME NEW id \in MlIds, reset_pose_failure_count(id) PROVE FailedInv'
  <2> DEFINE e == [mlMap[id] EXCEPT !.failures = 0]
  <2>1. id \in DOMAIN mlMap /\ ChangeEntry(id, e) /\ mlFailed' = mlFailed
    BY <1>6, Zenon DEF reset_pose_failure_count
  <2>2. EntryOf(e) /\ e.status = mlMap[id].status
    BY <2>1 DEF EntryOf, FailedInv
  <2> HIDE DEF e
  <2> QED
    BY <2>1, <2>2, ChangeKeepsFailed, Zenon
<1>7. ASSUME NEW id \in MlIds, increment_pose_failure_count(id) PROVE FailedInv'
  <2> DEFINE e == [mlMap[id] EXCEPT !.failures = @ + 1,
                                    !.status = IF @ = "Active" THEN "Probation" ELSE @]
  <2>1. id \in DOMAIN mlMap /\ ChangeEntry(id, e) /\ mlFailed' = mlFailed \union {id}
    BY <1>7, Zenon DEF increment_pose_failure_count
  <2>2. EntryOf(e) /\ e.status # "Active"
    <3> DEFINE f == [mlMap[id] EXCEPT !.failures = @ + 1]
               s == IF mlMap[id].status = "Active" THEN "Probation" ELSE mlMap[id].status
    <3>1. EntryOf(f)
      BY <2>1, FieldChanges, Zenon DEF FailedInv
    <3>2. e = [f EXCEPT !.status = s] /\ s # "Active"
      BY Zenon
    <3> HIDE DEF e, f, s
    <3> QED
      BY <3>1, <3>2, FieldChanges, Zenon
  <2> HIDE DEF e
  <2> QED
    BY <2>1, <2>2, ChangeKeepsFailed, Zenon
<1>8. ASSUME NEW id \in MlIds, update_successful_pose(id) PROVE FailedInv'
  <2> DEFINE e == [mlMap[id] EXCEPT !.pose = mlHeight, !.failures = 0,
                                    !.status = IF @ = "Probation" THEN "Active" ELSE @]
  <2>1. id \in DOMAIN mlMap /\ ChangeEntry(id, e) /\ mlFailed' = mlFailed \ {id}
    BY <1>8, Zenon DEF update_successful_pose
  <2>2. EntryOf(e)
    <3> DEFINE f == [mlMap[id] EXCEPT !.pose = mlHeight]
               g == [f EXCEPT !.failures = 0]
               s == IF mlMap[id].status = "Probation" THEN "Active" ELSE mlMap[id].status
    <3>1. EntryOf(f)
      BY <2>1, FieldChanges, Zenon DEF FailedInv
    <3>2. EntryOf(g)
      <4> HIDE DEF f
      <4> QED BY <3>1, FieldChanges, Zenon
    <3>3. e = [g EXCEPT !.status = s]
      BY Zenon
    <3> HIDE DEF e, g, s
    <3> QED
      BY <3>2, <3>3, FieldChanges, Zenon
  <2> HIDE DEF e
  <2> QED
    BY <2>1, <2>2, ChangeKeepsFailed
<1>9. ASSUME NEW id \in MlIds, NEW ok, update_dkg_participation(id, ok) PROVE FailedInv'
  <2> DEFINE e == [mlMap[id] EXCEPT !.sessions = @ + 1,
                                    !.rate = (@ * 9) \div 10 + IF ok THEN 100 ELSE 0]
  <2>1. id \in DOMAIN mlMap /\ ChangeEntry(id, e) /\ mlFailed' = mlFailed
    BY <1>9, Zenon DEF update_dkg_participation
  <2>2. EntryOf(e) /\ e.status = mlMap[id].status
    <3> DEFINE f == [mlMap[id] EXCEPT !.sessions = @ + 1]
               r == (mlMap[id].rate * 9) \div 10 + IF ok THEN 100 ELSE 0
    <3>1. EntryOf(f) /\ f.status = mlMap[id].status
      BY <2>1, FieldChanges, Zenon DEF FailedInv
    <3>2. e = [f EXCEPT !.rate = r]
      BY Zenon
    <3> HIDE DEF e, f, r
    <3> QED
      BY <3>1, <3>2, FieldChanges, Zenon
  <2> HIDE DEF e
  <2> QED
    BY <2>1, <2>2, ChangeKeepsFailed
<1>10. ASSUME NEW n \in MlCounts, select_masternodes_for_quorum(n) PROVE FailedInv'
  <2> DEFINE C == {id \in DOMAIN mlMap : Active(id)}
             better == {ab \in C \X C : FresherServes(mlMap[ab[1]], mlMap[ab[2]])}
  <2>1. mlChosen' \in Best(C, better, n) /\ UNCHANGED <<mlMap, mlHeight, mlFailed>>
    BY <1>10, Zenon DEF select_masternodes_for_quorum
  <2>2. C \in SUBSET DOMAIN mlMap /\ \A id \in C : Active(id)
    BY Zenon
  <2> HIDE DEF C, better
  <2> QED
    BY <2>1, <2>2, SelectionKeepsFailed, Zenon
<1>11. ASSUME NEW n \in MlCounts, NEW min, select_masternodes_for_dkg(n, min) PROVE FailedInv'
  <2> DEFINE C == {id \in DOMAIN mlMap \intersect MlCapable : Active(id) /\ mlMap[id].rate >= min}
             better == {ab \in C \X C : MoreReliable(mlMap[ab[1]], mlMap[ab[2]])}
  <2>1. mlChosen' \in Best(C, better, n) /\ UNCHANGED <<mlMap, mlHeight, mlFailed>>
    BY <1>11, Zenon DEF select_masternodes_for_dkg
  <2>2. C \in SUBSET DOMAIN mlMap /\ \A id \in C : Active(id)
    BY Zenon
  <2> HIDE DEF C, better
  <2> QED
    BY <2>1, <2>2, SelectionKeepsFailed
<1> QED
  BY <1>1, <1>2, <1>3, <1>4, <1>5, <1>6, <1>7, <1>8, <1>9, <1>10, <1>11 DEF MlNext

\* For any masternodes, statuses callers set and sizes of selections: a masternode
\* that failed a challenge is in no selection until it passed one or was given a status,
\* whatever counters were reset in between (increment_pose_failure_count,
\* select_masternodes_for_quorum, select_masternodes_for_dkg).
THEOREM FailedIsNotSelected == MlSpec => []FailedServesNowhere
<1>1. MlInit => FailedInv
  BY Zenon DEF MlInit, FailedInv, FailedServesNowhere, EmptyMap
<1>2. FailedInv => FailedServesNowhere
  BY Zenon DEF FailedInv
<1> QED
  BY <1>1, <1>2, FailedStep, PTL DEF MlSpec

-----------------------------------------------------------------------------
(***************************************************************************)
(* Proof of service: a record of an answer is only ever filed under this   *)
(* masternode, and neither ageing nor cleanup makes one of silence.        *)
(***************************************************************************)

\* What the history of a masternode holds: records, of silence only when silent.
HistoryOf(s, silent) ==
  \E n \in Nat : /\ DOMAIN s = 1 .. n /\ s = [i \in 1 .. n |-> s[i]]
                 /\ \A i \in 1 .. n : /\ s[i] = [age |-> s[i].age, answered |-> s[i].answered,
                                               valid |-> s[i].valid]
                                      /\ silent => s[i].answered = FALSE

\* The inductive invariant.
SilenceInv ==
  /\ records = [mn \in Nodes |-> records[mn]]
  /\ \A mn \in Nodes : HistoryOf(records[mn], mn # Us)

\* A history is extended by a record.
LEMMA HistoryAppended ==
  ASSUME NEW silent, NEW s, HistoryOf(s, silent),
         NEW age, NEW answered, NEW valid, silent => answered = FALSE
  PROVE  HistoryOf(Append(s, [age |-> age, answered |-> answered, valid |-> valid]), silent)
<1> DEFINE r == [age |-> age, answered |-> answered, valid |-> valid]
           t == Append(s, r)
<1>1. PICK n \in Nat : /\ DOMAIN s = 1 .. n /\ s = [i \in 1 .. n |-> s[i]]
                       /\ \A i \in 1 .. n : /\ s[i] = [age |-> s[i].age, answered |-> s[i].answered,
                                                     valid |-> s[i].valid]
                                            /\ silent => s[i].answered = FALSE
  BY Zenon DEF HistoryOf
<1>2. r = [age |-> r.age, answered |-> r.answered, valid |-> r.valid] /\ (silent => r.answered = FALSE)
  BY Zenon
<1> HIDE DEF r
<1>3. s \in Seq({s[i] : i \in 1 .. n}) /\ Len(s) = n
  BY <1>1
<1>4. /\ DOMAIN t = 1 .. n + 1 /\ t = [i \in 1 .. n + 1 |-> t[i]] /\ t[n + 1] = r
      /\ \A i \in 1 .. n : t[i] = s[i]
  BY <1>1, <1>3
<1> HIDE DEF t
<1>5. \A i \in 1 .. n + 1 : /\ t[i] = [age |-> t[i].age, answered |-> t[i].answered, valid |-> t[i].valid]
                            /\ silent => t[i].answered = FALSE
  <2> SUFFICES ASSUME NEW i \in 1 .. n + 1
               PROVE  /\ t[i] = [age |-> t[i].age, answered |-> t[i].answered, valid |-> t[i].valid]
                      /\ silent => t[i].answered = FALSE
    BY Zenon
  <2>1. CASE i = n + 1
    BY <1>2, <1>4, <2>1, Zenon
  <2>2. CASE i # n + 1
    <3>1. i \in 1 .. n
      BY <2>2
    <3> QED
      BY <1>1, <1>4, <3>1, Zenon
  <2> QED
    BY <2>1, <2>2, Zenon
<1>6. HistoryOf(t, silent)
  BY <1>4, <1>5 DEF HistoryOf
<1> QED
  BY <1>6, Zenon DEF t, r

\* The positions among those retained are pairwise different, so they fill 1 .. n.
LEMMA PositionsFill ==
  ASSUME NEW I, IsFiniteSet(I), I \subseteq Int, NEW k \in 1 .. Cardinality(I)
  PROVE  \E i \in I : Cardinality({j \in I : j <= i}) = k
<1> DEFINE n == Cardinality(I)
           upto(i) == {j \in I : j <= i}
           f == [i \in I |-> Cardinality(upto(i))]
<1>1. n \in Nat /\ IsFiniteSet(1 .. n) /\ Cardinality(1 .. n) = n
  BY FS_CardinalityType, FS_Interval
<1>2. ASSUME NEW i \in I
      PROVE  /\ IsFiniteSet(upto(i)) /\ Cardinality(upto(i)) \in 1 .. n
  <2>1. upto(i) \in SUBSET I /\ i \in upto(i)
    OBVIOUS
  <2>2. IsFiniteSet(upto(i)) /\ Cardinality(upto(i)) \in Nat /\ Cardinality(upto(i)) <= n
    BY <2>1, FS_Subset, FS_CardinalityType, Zenon
  <2>3. Cardinality(upto(i)) # 0
    BY <2>1, <2>2, FS_EmptySet, Zenon
  <2> HIDE DEF upto
  <2> QED
    BY <1>1, <2>2, <2>3
<1>3. ASSUME NEW i \in I, NEW j \in I, i < j
      PROVE  Cardinality(upto(i)) < Cardinality(upto(j))
  <2>1. upto(i) \in SUBSET upto(j) /\ j \in upto(j) /\ j \notin upto(i)
    <3>1. i \in Int /\ j \in Int /\ \A x \in I : x \in Int
      BY Zenon
    <3>2. \A x \in I : x <= i => x <= j
      BY <1>3, <3>1
    <3>3. ~(j <= i) /\ j <= j
      BY <1>3, <3>1
    <3> QED
      BY <3>2, <3>3, Zenon
  <2>2. upto(i) \in SUBSET (upto(j) \ {j})
    BY <2>1, Zenon
  <2> HIDE DEF upto
  <2>3. /\ IsFiniteSet(upto(j) \ {j}) /\ Cardinality(upto(j) \ {j}) = Cardinality(upto(j)) - 1
    BY <1>2, <2>1, FS_RemoveElement, Zenon
  <2>4. Cardinality(upto(i)) <= Cardinality(upto(j)) - 1
    BY <2>2, <2>3, FS_Subset
  <2>5. Cardinality(upto(i)) \in 1 .. n /\ Cardinality(upto(j)) \in 1 .. n
    BY <1>2, Zenon
  <2> QED
    BY <1>1, <2>4, <2>5
<1> HIDE DEF upto
<1>4. f \in Injection(I, 1 .. n)
  <2>1. \A i, j \in I : i # j => f[i] # f[j]
    <3> SUFFICES ASSUME NEW i \in I, NEW j \in I, i # j PROVE f[i] # f[j]
      BY Zenon
    <3>1. f[i] \in Int /\ f[j] \in Int
      BY <1>2
    <3>2. i < j \/ j < i
      OBVIOUS
    <3>3. f[i] < f[j] \/ f[j] < f[i]
      BY <1>3, <3>2, Zenon
    <3> HIDE DEF f
    <3> QED
      BY <3>1, <3>3
  <2>2. f \in [I -> 1 .. n]
    BY <1>2, Zenon
  <2> HIDE DEF f
  <2> QED
    BY <2>1, <2>2, Zenon DEF Injection, IsInjective
<1>5. f \in Surjection(I, 1 .. n)
  <2> HIDE DEF f
  <2> QED
    BY <1>1, <1>4, FS_Injection, Zenon
<1>6. PICK i \in I : f[i] = k
  BY <1>5, Zenon DEF Surjection
<1>7. Cardinality(upto(i)) = k
  BY <1>6, Zenon
<1> QED
  BY <1>7, Zenon DEF upto

\* Vec::retain makes no record.
LEMMA HistoryRetained ==
  ASSUME NEW silent, NEW s, HistoryOf(s, silent), NEW I \in SUBSET DOMAIN s
  PROVE  HistoryOf(Retain(s, I), silent)
<1> DEFINE m == Cardinality(I)
           t == Retain(s, I)
           position(i) == Cardinality({j \in I : j <= i})
<1>1. PICK n \in Nat : /\ DOMAIN s = 1 .. n
                       /\ \A i \in 1 .. n : /\ s[i] = [age |-> s[i].age, answered |-> s[i].answered,
                                                     valid |-> s[i].valid]
                                            /\ silent => s[i].answered = FALSE
  BY Zenon DEF HistoryOf
<1>2. IsFiniteSet(I) /\ m \in Nat /\ I \subseteq Int
  <2>1. IsFiniteSet(1 .. n)
    BY FS_Interval
  <2> QED
    BY <1>1, <2>1, FS_Subset, FS_CardinalityType
<1>3. \A k \in 1 .. m : \E i \in I : position(i) = k
  BY <1>2, PositionsFill, Zenon
<1>4. t = [k \in 1 .. m |-> s[CHOOSE i \in I : position(i) = k]]
  BY Zenon DEF Retain
<1> HIDE DEF m, t, position
<1>5. DOMAIN t = 1 .. m /\ t = [k \in 1 .. m |-> t[k]]
  BY <1>4
<1>6. \A k \in 1 .. m : \E i \in I : t[k] = s[i]
  BY <1>3, <1>4, Zenon
<1>7. HistoryOf(t, silent)
  BY <1>1, <1>2, <1>5, <1>6 DEF HistoryOf
<1> QED
  BY <1>7, Zenon DEF t

\* Ageing changes the age of records only.
LEMMA HistoryAged ==
  ASSUME NEW silent, NEW s, HistoryOf(s, silent)
  PROVE  HistoryOf([i \in DOMAIN s |-> [s[i] EXCEPT !.age = Age(@)]], silent)
<1> DEFINE t == [i \in DOMAIN s |-> [s[i] EXCEPT !.age = Age(@)]]
<1>1. PICK n \in Nat : /\ DOMAIN s = 1 .. n
                       /\ \A i \in 1 .. n : /\ s[i] = [age |-> s[i].age, answered |-> s[i].answered,
                                                     valid |-> s[i].valid]
                                            /\ silent => s[i].answered = FALSE
  BY Zenon DEF HistoryOf
<1>2. DOMAIN t = 1 .. n /\ t = [k \in 1 .. n |-> t[k]]
  BY <1>1, Zenon
<1>3. ASSUME NEW i \in 1 .. n
      PROVE  t[i] = [age |-> Age(s[i].age), answered |-> s[i].answered, valid |-> s[i].valid]
  BY <1>1, <1>3
<1> HIDE DEF t
<1>4. ASSUME NEW i \in 1 .. n
      PROVE  /\ t[i] = [age |-> t[i].age, answered |-> t[i].answered, valid |-> t[i].valid]
             /\ silent => t[i].answered = FALSE
  <2>1. t[i] = [age |-> Age(s[i].age), answered |-> s[i].answered, valid |-> s[i].valid]
    BY <1>3, Zenon
  <2>2. silent => s[i].answered = FALSE
    BY <1>1, Zenon
  <2> HIDE DEF Age
  <2> QED
    BY <2>1, <2>2
<1>5. HistoryOf(t, silent)
  BY <1>2, <1>4, Zenon DEF HistoryOf
<1> QED
  BY <1>5, Zenon DEF t

LEMMA SilenceStep == SilenceInv /\ [PoseNext]_poseVars => SilenceInv'
<1> SUFFICES ASSUME SilenceInv, [PoseNext]_poseVars PROVE SilenceInv'
  OBVIOUS
<1>1. \A mn \in Nodes : HistoryOf(records[mn], mn # Us)
  BY Zenon DEF SilenceInv
<1>2. ASSUME NEW f, records' = [mn \in Nodes |-> f[mn]], \A mn \in Nodes : HistoryOf(f[mn], mn # Us)
      PROVE  SilenceInv'
  BY <1>2, Zenon DEF SilenceInv
<1>3. CASE PoseNewBlock
  <2> DEFINE f == [mn \in Nodes |->
                     [i \in DOMAIN records[mn] |-> [records[mn][i] EXCEPT !.age = Age(@)]]]
  <2>1. records' = f
    BY <1>3, Zenon DEF PoseNewBlock
  <2>2. \A mn \in Nodes : HistoryOf(f[mn], mn # Us)
    BY <1>1, HistoryAged, Zenon
  <2>3. f = [mn \in Nodes |-> f[mn]]
    BY Zenon
  <2> HIDE DEF f
  <2> QED
    BY <1>2, <2>1, <2>2, <2>3, Zenon
<1>4. ASSUME NEW t \in Nodes, NEW response, HandlePoseResponse(t, response) PROVE SilenceInv'
  <2> DEFINE r == [age |-> challenges[t], answered |-> TRUE, valid |-> VerifyPoseResponse(response)]
             f == [records EXCEPT ![Us] = Append(@, r)]
  <2>1. records' = records \/ records' = f
    BY <1>4, Zenon DEF HandlePoseResponse, Record, FiledUnder
  <2>2. HistoryOf(Append(records[Us], r), FALSE)
    <3>1. HistoryOf(records[Us], FALSE)
      BY <1>1, PoseAssumption, Zenon
    <3> QED
      BY <3>1, HistoryAppended, Zenon
  <2> HIDE DEF r
  <2>3. f = [mn \in Nodes |-> f[mn]] /\ \A mn \in Nodes : HistoryOf(f[mn], mn # Us)
    BY <1>1, <2>2, PoseAssumption, Zenon DEF SilenceInv
  <2> HIDE DEF f
  <2>4. CASE records' = f
    BY <1>2, <2>3, <2>4, Zenon
  <2>5. CASE records' = records
    BY <2>5, Zenon DEF SilenceInv
  <2> QED
    BY <2>1, <2>4, <2>5, Zenon
<1>5. CASE CheckChallengeTimeouts
  <2> DEFINE late == {t \in DOMAIN challenges : challenges[t] > ResponseTimeout}
             r(mn) == [age |-> challenges[mn], answered |-> FALSE, valid |-> FALSE]
             f == [mn \in Nodes |-> IF mn \in late THEN Append(records[mn], r(mn)) ELSE records[mn]]
  <2>1. records' = f
    BY <1>5, Zenon DEF CheckChallengeTimeouts
  <2>2. \A mn \in Nodes : HistoryOf(Append(records[mn], r(mn)), mn # Us)
    BY <1>1, HistoryAppended, Zenon
  <2> HIDE DEF late, r
  <2>3. f = [mn \in Nodes |-> f[mn]] /\ \A mn \in Nodes : HistoryOf(f[mn], mn # Us)
    BY <1>1, <2>2, Zenon
  <2> HIDE DEF f
  <2> QED
    BY <1>2, <2>1, <2>3, Zenon
<1>6. CASE CleanupOldHistory
  <2> DEFINE I(mn) == {i \in DOMAIN records[mn] : records[mn][i].age < OldAge}
             f == [mn \in Nodes |-> Retain(records[mn], I(mn))]
  <2>1. records' = f
    BY <1>6, Zenon DEF CleanupOldHistory
  <2>2. \A mn \in Nodes : I(mn) \in SUBSET DOMAIN records[mn]
    BY Zenon
  <2> HIDE DEF I
  <2>3. f = [mn \in Nodes |-> f[mn]] /\ \A mn \in Nodes : HistoryOf(f[mn], mn # Us)
    BY <1>1, <2>2, HistoryRetained, Zenon
  <2> HIDE DEF f
  <2> QED
    BY <1>2, <2>1, <2>3
<1>7. CASE UNCHANGED records
  BY <1>7, Zenon DEF SilenceInv
<1>8. CASE GenerateChallenges \/ GetPendingSlashes \/ UNCHANGED poseVars
  BY <1>7, <1>8, Zenon DEF GenerateChallenges, GetPendingSlashes, poseVars
<1>9. ASSUME NEW mn \in Nodes, BroadcastChallenge(mn) \/ BroadcastSlashing(mn) PROVE SilenceInv'
  BY <1>7, <1>9, Zenon DEF BroadcastChallenge, BroadcastSlashing
<1> QED
  BY <1>3, <1>4, <1>5, <1>6, <1>8, <1>9, Zenon DEF PoseNext

\* For any masternodes, periods and thresholds of failures: another masternode becomes
\* slashable through silence alone, however late answers, timeouts, new challenges and
\* cleanups interleave (handle_pose_response, check_challenge_timeouts, should_slash).
THEOREM OnlySilenceIsBlamed == PoseSpec => []BlamedForSilenceOnly
<1>1. PoseInit => SilenceInv
  <2> SUFFICES ASSUME PoseInit PROVE SilenceInv
    BY Zenon
  <2>1. HistoryOf(<<>>, TRUE) /\ HistoryOf(<<>>, FALSE)
    <3>1. 0 \in Nat /\ DOMAIN << >> = 1 .. 0 /\ << >> = [i \in 1 .. 0 |-> << >>[i]]
      OBVIOUS
    <3> QED
      BY <3>1 DEF HistoryOf
  <2>2. records = [mn \in Nodes |-> <<>>]
    BY Zenon DEF PoseInit
  <2> QED
    BY <2>1, <2>2, Zenon DEF SilenceInv
<1>2. SilenceInv => BlamedForSilenceOnly
  <2> SUFFICES ASSUME SilenceInv, NEW mn \in Nodes \ {Us}, NEW i \in DOMAIN records[mn]
               PROVE  ~records[mn][i].answered
    BY Zenon DEF BlamedForSilenceOnly
  <2>1. HistoryOf(records[mn], TRUE)
    BY Zenon DEF SilenceInv
  <2> QED
    BY <2>1, Zenon DEF HistoryOf
<1> QED
  BY <1>1, <1>2, SilenceStep, PTL DEF PoseSpec

-----------------------------------------------------------------------------
(***************************************************************************)
(* Key generation implements the life cycle of DkgLifecycle, step by step. *)
(* A session that is active has a status and is not yet over; the states   *)
(* an active session can be in are four of those of DKGSessionState.       *)
(***************************************************************************)

SessionShape(s) ==
  /\ s = [participants |-> s.participants, threshold |-> s.threshold, state |-> s.state,
          commitments |-> s.commitments, shares |-> s.shares, timeout |-> s.timeout]
  /\ s.state \in {"WaitingForParticipants", "CommitmentPhase", "ShareDistribution", "ComplaintPhase"}

\* The inductive invariant.
SessionsInv ==
  /\ DOMAIN active \subseteq SessionIds /\ DOMAIN active \subseteq DOMAIN status
  /\ \A i \in DOMAIN active : /\ SessionShape(active[i])
                               /\ status[i] # "Completed" /\ status[i] # "TimedOut"

\* What a caller sees of session i is the same in the next state.
SameSession(i) ==
  /\ i \in DOMAIN active' <=> i \in DOMAIN active
  /\ i \in DOMAIN active => active'[i] = active[i]
  /\ i \in DOMAIN status' <=> i \in DOMAIN status
  /\ i \in DOMAIN status => status'[i] = status[i]

\* What a step may do to session i of the maps of the manager.
StartsOne(i) ==
  /\ i \in DOMAIN active' /\ active'[i].state # "ComplaintPhase"
GathersOne(i) ==
  /\ i \in DOMAIN active /\ active[i].state # "ComplaintPhase"
  /\ i \in DOMAIN active' /\ active'[i].state = "ComplaintPhase"
FinishesOne(i) ==
  /\ i \in DOMAIN active /\ active[i].state = "ComplaintPhase"
  /\ i \notin DOMAIN active' /\ i \in DOMAIN status' /\ status'[i] = "Completed"
LosesOne(i) ==
  /\ i \in DOMAIN active
  /\ i \notin DOMAIN active' /\ i \in DOMAIN status'
  /\ status'[i] # "Completed" /\ status'[i] # "TimedOut"
ExpiresOne(i) ==
  /\ i \in DOMAIN active
  /\ i \notin DOMAIN active' /\ i \in DOMAIN status' /\ status'[i] = "TimedOut"

\* What these steps are to the life of the session.
LEMMA LivesOf ==
  ASSUME NEW i
  PROVE  /\ SameSession(i) => LifeOf(i)' = LifeOf(i)
         /\ StartsOne(i) => LifeOf(i)' = "running"
         /\ GathersOne(i) => LifeOf(i) = "running" /\ LifeOf(i)' = "ready"
         /\ FinishesOne(i) => LifeOf(i) = "ready" /\ LifeOf(i)' = "done"
         /\ LosesOne(i) => LifeOf(i) \in {"running", "ready"} /\ LifeOf(i)' = "lost"
         /\ ExpiresOne(i) => LifeOf(i) \in {"running", "ready"} /\ LifeOf(i)' = "timedOut"
<1>1. SameSession(i) => LifeOf(i)' = LifeOf(i)
  BY Zenon DEF SameSession, LifeOf
<1>2. StartsOne(i) => LifeOf(i)' = "running"
  BY Zenon DEF StartsOne, LifeOf
<1>3. GathersOne(i) => LifeOf(i) = "running" /\ LifeOf(i)' = "ready"
  BY Zenon DEF GathersOne, LifeOf
<1>4. FinishesOne(i) => LifeOf(i) = "ready" /\ LifeOf(i)' = "done"
  BY Zenon DEF FinishesOne, LifeOf
<1>5. LosesOne(i) => LifeOf(i) \in {"running", "ready"} /\ LifeOf(i)' = "lost"
  BY Zenon DEF LosesOne, LifeOf
<1>6. ExpiresOne(i) => LifeOf(i) \in {"running", "ready"} /\ LifeOf(i)' = "timedOut"
  BY Zenon DEF ExpiresOne, LifeOf
<1> QED
  BY <1>1, <1>2, <1>3, <1>4, <1>5, <1>6, Zenon

\* A step of one session is a step of the life cycle.
LEMMA OneSessionRefines ==
  ASSUME NEW i \in SessionIds, \A j \in SessionIds \ {i} : SameSession(j),
         \/ StartsOne(i) \/ GathersOne(i) \/ FinishesOne(i) \/ LosesOne(i)
         \/ LifeOf(i)' = LifeOf(i)
  PROVE  [Lifecycle!LifeNext]_[j \in SessionIds |-> LifeOf(j)]
<1> DEFINE life == [j \in SessionIds |-> LifeOf(j)]
<1>1. \A j \in SessionIds \ {i} : life'[j] = life[j]
  BY LivesOf, Zenon
<1>2. ASSUME NEW v, LifeOf(i)' = v PROVE life' = [life EXCEPT ![i] = v]
  BY <1>1, <1>2, Zenon
<1>3. CASE StartsOne(i)
  <2>1. Lifecycle!Begin(i)
    BY <1>2, <1>3, LivesOf, Zenon DEF Lifecycle!Begin
  <2> QED
    BY <2>1, Zenon DEF Lifecycle!LifeNext
<1>4. CASE GathersOne(i)
  <2>1. Lifecycle!Gather(i)
    BY <1>2, <1>4, LivesOf, Zenon DEF Lifecycle!Gather
  <2> QED
    BY <2>1, Zenon DEF Lifecycle!LifeNext
<1>5. CASE FinishesOne(i)
  <2>1. Lifecycle!Finish(i)
    BY <1>2, <1>5, LivesOf, Zenon DEF Lifecycle!Finish
  <2> QED
    BY <2>1, Zenon DEF Lifecycle!LifeNext
<1>6. CASE LosesOne(i)
  <2>1. Lifecycle!Lose(i)
    BY <1>2, <1>6, LivesOf, Zenon DEF Lifecycle!Lose
  <2> QED
    BY <2>1, Zenon DEF Lifecycle!LifeNext
<1>7. CASE LifeOf(i)' = LifeOf(i)
  <2>1. life' = life
    BY <1>1, <1>7, Zenon
  <2> QED
    BY <2>1, Zenon
<1> QED
  BY <1>3, <1>4, <1>5, <1>6, <1>7, Zenon

\* A step that changes the maps at i only.
LEMMA OnlyAt ==
  ASSUME SessionsInv, NEW i \in SessionIds,
         \A j : j # i => SameSession(j),
         i \in DOMAIN active' => /\ i \in DOMAIN status' /\ SessionShape(active'[i])
                                /\ status'[i] # "Completed" /\ status'[i] # "TimedOut"
  PROVE  SessionsInv'
<1>1. \A j \in DOMAIN active' : j # i => j \in DOMAIN active
  BY Zenon DEF SameSession
<1>2. ASSUME NEW j \in DOMAIN active'
      PROVE  /\ j \in SessionIds /\ j \in DOMAIN status' /\ SessionShape(active'[j])
             /\ status'[j] # "Completed" /\ status'[j] # "TimedOut"
  BY <1>1, <1>2, Zenon DEF SameSession, SessionsInv
<1> QED
  BY <1>2, Zenon DEF SessionsInv

\* insert and remove leave the other sessions alone.
LEMMA OthersStay ==
  ASSUME NEW i, \/ active' = Without(active, {i})
                \/ \E t : active' = Put(active, i, t),
         status' = status \/ \E v : status' = Put(status, i, v)
  PROVE  \A j : j # i => SameSession(j)
<1> SUFFICES ASSUME NEW j, j # i PROVE SameSession(j)
  BY Zenon
<1>1. /\ j \in DOMAIN active' <=> j \in DOMAIN active
      /\ j \in DOMAIN active => active'[j] = active[j]
  BY Zenon DEF Put, Without
<1>2. /\ j \in DOMAIN status' <=> j \in DOMAIN status
      /\ j \in DOMAIN status => status'[j] = status[j]
  BY Zenon DEF Put
<1> QED
  BY <1>1, <1>2, Zenon DEF SameSession

LEMMA PhaseChange ==
  ASSUME NEW s, SessionShape(s),
         NEW v \in {"WaitingForParticipants", "CommitmentPhase", "ShareDistribution", "ComplaintPhase"}
  PROVE  SessionShape([s EXCEPT !.state = v]) /\ [s EXCEPT !.state = v].state = v
BY DEF SessionShape

LEMMA SessionStep ==
  ASSUME SessionsInv, [DkgNext]_dkgVars
  PROVE  SessionsInv' /\ [Lifecycle!LifeNext]_[j \in SessionIds |-> LifeOf(j)]
<1>1. ASSUME NEW i \in SessionIds, StartSession(i)
      PROVE  SessionsInv' /\ [Lifecycle!LifeNext]_[j \in SessionIds |-> LifeOf(j)]
  <2> DEFINE s == NewSession(Participants, CalculateThreshold(Cardinality(Participants)),
                             dkgHeight + SessionTimeout)
  <2>1. PICK t : t = IF CanAdvance(s) THEN AdvancePhase(s) ELSE s
    BY Zenon
  <2>2. active' = Put(active, i, t) /\ status' = Put(status, i, "CollectingCommitments")
    BY <1>1, <2>1, Zenon DEF StartSession
  <2>3. SessionShape(s) /\ s.state = "WaitingForParticipants"
    BY Zenon DEF NewSession, SessionShape
  <2> HIDE DEF s
  <2>4. SessionShape(t) /\ t.state # "ComplaintPhase"
    <3>1. NextPhase["WaitingForParticipants"] = "CommitmentPhase"
      BY Zenon DEF NextPhase
    <3>2. AdvancePhase(s) = [s EXCEPT !.state = "CommitmentPhase"]
      BY <2>3, <3>1, Zenon DEF AdvancePhase
    <3>3. SessionShape(AdvancePhase(s)) /\ AdvancePhase(s).state = "CommitmentPhase"
      BY <2>3, <3>2, PhaseChange, Zenon
    <3> QED
      BY <2>1, <2>3, <3>3, Zenon
  <2>5. \A j : j # i => SameSession(j)
    BY <2>2, OthersStay, Zenon
  <2>6. /\ i \in DOMAIN active' /\ active'[i] = t
        /\ i \in DOMAIN status' /\ status'[i] = "CollectingCommitments"
    BY <2>2, Zenon DEF Put
  <2>7. StartsOne(i)
    BY <2>4, <2>6, Zenon DEF StartsOne
  <2> QED
    BY <2>4, <2>5, <2>6, <2>7, OnlyAt, OneSessionRefines, Zenon
<1>2. ASSUME NEW i \in SessionIds, NEW p, ProcessCommitment(i, p)
      PROVE  SessionsInv' /\ [Lifecycle!LifeNext]_[j \in SessionIds |-> LifeOf(j)]
  <2> DEFINE s == AddCommitment(active[i], p)
  <2>1. PICK t, v : /\ t = IF AllCommitments(s) THEN AdvancePhase(s) ELSE s
                    /\ v = IF AllCommitments(s) THEN "DistributingShares" ELSE "CollectingCommitments"
    BY Zenon
  <2>2. /\ active' = Put(active, i, t) /\ status' = Put(status, i, v)
        /\ i \in DOMAIN active /\ active[i].state = "CommitmentPhase"
    BY <1>2, <2>1, Zenon DEF ProcessCommitment, CanAddCommitment
  <2>3. SessionShape(s) /\ s.state = "CommitmentPhase"
    BY <2>2 DEF AddCommitment, SessionShape, SessionsInv
  <2> HIDE DEF s
  <2>4. SessionShape(t) /\ t.state # "ComplaintPhase"
    <3>1. NextPhase["CommitmentPhase"] = "ShareDistribution"
      BY Zenon DEF NextPhase
    <3>2. AdvancePhase(s) = [s EXCEPT !.state = "ShareDistribution"]
      BY <2>3, <3>1, Zenon DEF AdvancePhase
    <3>3. SessionShape(AdvancePhase(s)) /\ AdvancePhase(s).state = "ShareDistribution"
      BY <2>3, <3>2, PhaseChange, Zenon
    <3> QED
      BY <2>1, <2>3, <3>3, Zenon
  <2>5. \A j : j # i => SameSession(j)
    BY <2>2, OthersStay, Zenon
  <2>6. /\ i \in DOMAIN active' /\ active'[i] = t
        /\ i \in DOMAIN status' /\ status'[i] = v /\ v # "Completed" /\ v # "TimedOut"
    BY <2>1, <2>2, Zenon DEF Put
  <2>7. LifeOf(i)' = LifeOf(i)
    <3>1. StartsOne(i) /\ LifeOf(i) = "running"
      BY <2>2, <2>4, <2>6, Zenon DEF StartsOne, LifeOf
    <3> QED
      BY <3>1, LivesOf, Zenon
  <2> QED
    BY <2>4, <2>5, <2>6, <2>7, OnlyAt, OneSessionRefines, Zenon
<1>3. ASSUME NEW i \in SessionIds, NEW share, ProcessSecretShare(i, share)
      PROVE  SessionsInv' /\ [Lifecycle!LifeNext]_[j \in SessionIds |-> LifeOf(j)]
  <2> DEFINE s == AddShare(active[i], share)
             enough == Cardinality(DOMAIN s.shares) >= s.threshold
  <2>1. PICK t : t = IF enough THEN [s EXCEPT !.state = "ComplaintPhase"] ELSE s
    BY Zenon
  <2>2. /\ active' = Put(active, i, t)
        /\ status' = IF enough THEN Put(status, i, "ProcessingComplaints") ELSE status
        /\ i \in DOMAIN active /\ active[i].state = "ShareDistribution"
    BY <1>3, <2>1, Zenon DEF ProcessSecretShare, CanAddShare
  <2>3. SessionShape(s) /\ s.state = "ShareDistribution"
    BY <2>2 DEF AddShare, SessionShape, SessionsInv
  <2> HIDE DEF s, enough
  <2>4. SessionShape(t) /\ t.state = IF enough THEN "ComplaintPhase" ELSE "ShareDistribution"
    BY <2>1, <2>3, PhaseChange, Zenon
  <2>5. \A j : j # i => SameSession(j)
    BY <2>2, OthersStay, Zenon
  <2>6. /\ i \in DOMAIN active' /\ active'[i] = t
        /\ i \in DOMAIN status' /\ status'[i] # "Completed" /\ status'[i] # "TimedOut"
    BY <2>2, Zenon DEF SessionsInv, Put
  <2>7. GathersOne(i) \/ LifeOf(i)' = LifeOf(i)
    <3>1. CASE enough
      BY <2>2, <2>4, <2>6, <3>1 DEF GathersOne
    <3>2. CASE ~enough
      <4>1. StartsOne(i) /\ LifeOf(i) = "running"
        BY <2>2, <2>4, <2>6, <3>2, Zenon DEF StartsOne, LifeOf
      <4> QED
        BY <4>1, LivesOf, Zenon
    <3> QED
      BY <3>1, <3>2, Zenon
  <2> QED
    BY <2>4, <2>5, <2>6, <2>7, OnlyAt, OneSessionRefines, Zenon
<1>4. ASSUME NEW i \in SessionIds, CompleteSession(i)
      PROVE  SessionsInv' /\ [Lifecycle!LifeNext]_[j \in SessionIds |-> LifeOf(j)]
  <2>1. /\ active' = Without(active, {i}) /\ status' = Put(status, i, "Completed")
        /\ i \in DOMAIN active /\ active[i].state = "ComplaintPhase"
    BY <1>4, Zenon DEF CompleteSession, CanComplete
  <2>2. \A j : j # i => SameSession(j)
    BY <2>1, OthersStay, Zenon
  <2>3. i \notin DOMAIN active' /\ FinishesOne(i)
    BY <2>1, Zenon DEF FinishesOne, Put, Without
  <2> QED
    BY <2>2, <2>3, OnlyAt, OneSessionRefines, Zenon
<1>5. ASSUME NEW i \in SessionIds, CompleteFails(i) \/ CleanupSession(i)
      PROVE  SessionsInv' /\ [Lifecycle!LifeNext]_[j \in SessionIds |-> LifeOf(j)]
  <2>1. active' = Without(active, {i}) /\ status' = status
    BY <1>5, Zenon DEF CompleteFails, CleanupSession
  <2>2. \A j : j # i => SameSession(j)
    BY <2>1, OthersStay, Zenon
  <2>3. i \notin DOMAIN active'
    BY <2>1, Zenon DEF Without
  <2>4. LosesOne(i) \/ LifeOf(i)' = LifeOf(i)
    <3>1. CASE i \in DOMAIN active
      BY <2>1, <2>3, <3>1, Zenon DEF LosesOne, SessionsInv
    <3>2. CASE i \notin DOMAIN active
      <4>1. SameSession(i)
        BY <2>1, <2>3, <3>2, Zenon DEF SameSession
      <4> QED
        BY <4>1, LivesOf, Zenon
    <3> QED
      BY <3>1, <3>2, Zenon
  <2> QED
    BY <2>2, <2>3, <2>4, OnlyAt, OneSessionRefines, Zenon
<1>6. CASE NewBlock
  <2> DEFINE S == TimedOut(dkgHeight + 1)
             life == [j \in SessionIds |-> LifeOf(j)]
  <2>1. /\ active' = Without(active, S)
        /\ status' = [i \in DOMAIN status |-> IF i \in S THEN "TimedOut" ELSE status[i]]
    BY <1>6, Zenon DEF NewBlock, UpdateBlockHeight
  <2>2. S \subseteq DOMAIN active /\ DOMAIN active \subseteq DOMAIN status
        /\ DOMAIN active \subseteq SessionIds
    BY Zenon DEF TimedOut, SessionsInv
  <2> HIDE DEF S
  <2>3. \A i \in S : ExpiresOne(i)
    BY <2>1, <2>2, Zenon DEF ExpiresOne, Without
  <2>4. \A i : i \notin S => SameSession(i)
    BY <2>1, Zenon DEF SameSession, Without
  <2>5. SessionsInv'
    <3>1. \A i \in DOMAIN active' : i \notin S /\ i \in DOMAIN active
      BY <2>1, Zenon DEF Without
    <3> QED
      BY <2>4, <3>1, Zenon DEF SessionsInv, SameSession
  <2>6. life' = [i \in SessionIds |-> IF i \in S THEN "timedOut" ELSE life[i]]
    BY <2>3, <2>4, LivesOf, Zenon
  <2>7. S \in SUBSET {i \in SessionIds : life[i] \in {"running", "ready"}}
    BY <2>2, <2>3, LivesOf, Zenon
  <2>8. Lifecycle!Expire
    BY <2>6, <2>7, Zenon DEF Lifecycle!Expire
  <2> QED
    BY <2>5, <2>8, Zenon DEF Lifecycle!LifeNext
<1>7. CASE UNCHANGED dkgVars
  <2>1. SessionsInv' /\ \A j : SameSession(j)
    BY <1>7, Zenon DEF dkgVars, SessionsInv, SameSession
  <2>2. [j \in SessionIds |-> LifeOf(j)]' = [j \in SessionIds |-> LifeOf(j)]
    BY <2>1, LivesOf, Zenon
  <2> QED
    BY <2>1, <2>2, Zenon
<1> QED
  BY <1>1, <1>2, <1>3, <1>4, <1>5, <1>6, <1>7, Zenon DEF DkgNext

\* The manager implements the life cycle, for any sessions, participants, thresholds,
\* shares and timeouts: restarts of an id in use, shares after the threshold, failed
\* completions and timeouts move each session only as DkgLifecycle lets it move.
THEOREM ManagerImplementsLifecycle == DkgSpec => RefinesLifecycle
<1>1. DkgInit => SessionsInv /\ Lifecycle!LifeInit
  <2> SUFFICES ASSUME DkgInit PROVE SessionsInv /\ Lifecycle!LifeInit
    BY Zenon
  <2>1. DOMAIN active = {} /\ DOMAIN status = {}
    BY Zenon DEF DkgInit, EmptyMap
  <2>2. \A i \in SessionIds : LifeOf(i) = "absent"
    BY <2>1, Zenon DEF LifeOf
  <2> QED
    BY <2>1, <2>2, Zenon DEF SessionsInv, Lifecycle!LifeInit
<1>2. SessionsInv /\ [DkgNext]_dkgVars => SessionsInv'
  BY SessionStep, Zenon
<1>3. SessionsInv /\ [DkgNext]_dkgVars => [Lifecycle!LifeNext]_[i \in SessionIds |-> LifeOf(i)]
  BY SessionStep, Zenon
<1> DEFINE life == [i \in SessionIds |-> LifeOf(i)]
<1>4. SessionsInv /\ [DkgNext]_dkgVars => [Lifecycle!LifeNext]_life
  BY <1>3, Zenon
<1> HIDE DEF life
<1>5. DkgSpec => [][DkgNext]_dkgVars /\ DkgInit
  BY PTL DEF DkgSpec
<1>6. DkgSpec => Lifecycle!LifeInit /\ [][Lifecycle!LifeNext]_life
  BY <1>1, <1>2, <1>4, <1>5, PTL
<1> QED
  BY <1>6, PTL DEF RefinesLifecycle, Lifecycle!LifeSpec, life

-----------------------------------------------------------------------------
(***************************************************************************)
(* OxideSend, for any number of masternodes and transactions and whatever  *)
(* threshold a caller asks for: conflicting transactions are never both    *)
(* locked, and nothing is slashed that a block has settled.                *)
(***************************************************************************)

Majority == Cardinality(Signers) \div 2 + 1

\* A masternode signs one lock per outpoint, and every lock that was accepted has
\* the signatures of a majority.
LockInv ==
  /\ signedBy \in [Signers -> SUBSET Txs]
  /\ lockedTxs \subseteq Txs
  /\ \A s \in Signers : \A t, u \in signedBy[s] : SpentBy[t] = SpentBy[u] => t = u
  /\ \A t \in lockedTxs : \E q \in SUBSET Signers :
       Cardinality(q) >= Majority /\ \A s \in q : t \in signedBy[s]

\* Two majorities have a masternode in common.
LEMMA MajoritiesMeet ==
  ASSUME NEW q \in SUBSET Signers, NEW r \in SUBSET Signers,
         Cardinality(q) >= Majority, Cardinality(r) >= Majority
  PROVE  q \cap r # {}
<1>1. IsFiniteSet(Signers) /\ Cardinality(Signers) \in Nat
  BY SendAssumption, FS_CardinalityType, Zenon
<1>2. /\ IsFiniteSet(q) /\ Cardinality(q) \in Nat
      /\ IsFiniteSet(r) /\ Cardinality(r) \in Nat
  BY <1>1, FS_Subset, FS_CardinalityType, Zenon
<1>3. /\ IsFiniteSet(q \cup r) /\ Cardinality(q \cup r) \in Nat
      /\ Cardinality(q \cup r) <= Cardinality(Signers)
  <2>1. q \cup r \subseteq Signers
    BY Zenon
  <2> QED
    BY <1>1, <2>1, FS_Subset, FS_CardinalityType, Zenon
<1>4. Cardinality(q \cup r) = Cardinality(q) + Cardinality(r) - Cardinality(q \cap r)
  BY <1>2, FS_Union, Zenon
<1>5. 2 * Majority > Cardinality(Signers) /\ Majority \in Nat
  BY <1>1 DEF Majority
<1>6. SUFFICES ASSUME q \cap r = {} PROVE FALSE
  BY Zenon
<1>7. Cardinality(q \cap r) = 0
  BY <1>6, FS_EmptySet, Zenon
<1> QED
  BY <1>1, <1>2, <1>3, <1>4, <1>5, <1>7

\* Whatever threshold the caller asks for, a verified multi-signature is one of a
\* majority (verify_masternode_multi_signature).
LEMMA VerifiedIsMajority ==
  ASSUME NEW signers \in SUBSET Signers, VerifyMasternodeMultiSignature(signers)
  PROVE  Cardinality(signers) >= Majority
<1>1. Cardinality(Signers) \in Nat /\ Cardinality(signers) \in Nat
  BY SendAssumption, FS_Subset, FS_CardinalityType, Zenon
<1>2. Majority \in Nat \ {0}
  BY <1>1 DEF Majority
<1> DEFINE threshold == IF RequestedThreshold > Majority THEN RequestedThreshold ELSE Majority
<1>3. threshold \in Nat \ {0} /\ threshold >= Majority
  BY <1>2, SendAssumption
<1>4. VerifyMultiSignature(signers, threshold)
  BY Zenon DEF VerifyMasternodeMultiSignature, Majority
<1>5. Cardinality(signers) >= threshold
  <2> HIDE DEF threshold
  <2> QED
    BY <1>3, <1>4, Zenon DEF VerifyMultiSignature
<1> QED
  BY <1>1, <1>2, <1>3, <1>5

LEMMA LockInit == SendInit => LockInv
BY Zenon DEF SendInit, LockInv

LEMMA LockStep == LockInv /\ [SendNext]_sendVars => LockInv'
<1> SUFFICES ASSUME LockInv, [SendNext]_sendVars PROVE LockInv'
  OBVIOUS
<1>1. ASSUME NEW s \in Signers, NEW t \in Txs, SignInputs(s, t) PROVE LockInv'
  <2>1. /\ signedBy' = [signedBy EXCEPT ![s] = @ \cup {t}]
        /\ lockedTxs' = lockedTxs
        /\ \A u \in signedBy[s] : SpentBy[u] # SpentBy[t]
    BY <1>1, Zenon DEF SignInputs
  <2>2. /\ signedBy' \in [Signers -> SUBSET Txs]
        /\ \A x \in Signers : signedBy[x] \subseteq signedBy'[x]
    BY <2>1 DEF LockInv
  <2>3. \A x \in Signers : \A u, v \in signedBy'[x] : SpentBy[u] = SpentBy[v] => u = v
    <3> SUFFICES ASSUME NEW x \in Signers, NEW u \in signedBy'[x], NEW v \in signedBy'[x],
                        SpentBy[u] = SpentBy[v]
                 PROVE  u = v
      BY Zenon
    <3>1. CASE x # s
      BY <2>1, <3>1, Zenon DEF LockInv
    <3>2. CASE x = s
      <4>1. signedBy'[s] = signedBy[s] \cup {t}
        BY <2>1, Zenon DEF LockInv
      <4> QED
        BY <2>1, <3>2, <4>1, Zenon DEF LockInv
    <3> QED
      BY <3>1, <3>2, Zenon
  <2>4. \A u \in lockedTxs' : \E q \in SUBSET Signers :
          Cardinality(q) >= Majority /\ \A x \in q : u \in signedBy'[x]
    <3> SUFFICES ASSUME NEW u \in lockedTxs
                 PROVE  \E q \in SUBSET Signers :
                          Cardinality(q) >= Majority /\ \A x \in q : u \in signedBy'[x]
      BY <2>1, Zenon
    <3>1. PICK q \in SUBSET Signers : Cardinality(q) >= Majority /\ \A x \in q : u \in signedBy[x]
      BY Zenon DEF LockInv
    <3> QED
      BY <2>2, <3>1, Zenon
  <2> QED
    BY <2>1, <2>2, <2>3, <2>4, Zenon DEF LockInv
<1>2. ASSUME NEW t \in Txs, NEW signers \in SUBSET Signers, LockInputs(t, signers) PROVE LockInv'
  <2>1. /\ lockedTxs' = lockedTxs \cup {t} /\ signedBy' = signedBy
        /\ \A s \in signers : t \in signedBy[s]
        /\ Cardinality(signers) >= Majority
    BY <1>2, VerifiedIsMajority, Zenon DEF LockInputs
  <2> QED
    BY <2>1 DEF LockInv
<1>3. CASE UNCHANGED <<signedBy, lockedTxs>>
  BY <1>3, Zenon DEF LockInv
<1>4. ASSUME NEW t \in Txs, AddToMempool(t) \/ Confirm(t) \/ SlashDoubleSpend(t) PROVE LockInv'
  BY <1>3, <1>4, Zenon DEF AddToMempool, Confirm, SlashDoubleSpend
<1>5. ASSUME NEW s \in Signers, NEW t \in Txs, AddSignatureShare(s, t) PROVE LockInv'
  BY <1>3, <1>5, Zenon DEF AddSignatureShare
<1>6. CASE FinalizeThreshold \/ UNCHANGED sendVars
  BY <1>3, <1>6, Zenon DEF FinalizeThreshold, sendVars
<1> QED
  BY <1>1, <1>2, <1>4, <1>5, <1>6 DEF SendNext

LEMMA LocksHaveQuorums == SendSpec => []LockInv
BY LockInit, LockStep, PTL DEF SendSpec

\* lock_inputs never accepts locks for two transactions that spend one outpoint, for
\* any number of masternodes and whatever quorum_threshold the caller passes, as long
\* as each masternode signs one lock per outpoint.
THEOREM LocksNeverConflict == SendSpec => []NoConflictingLocks
<1>1. LockInv => NoConflictingLocks
  <2> SUFFICES ASSUME LockInv, NEW t \in lockedTxs, NEW u \in lockedTxs, SpentBy[t] = SpentBy[u]
               PROVE  t = u
    BY Zenon DEF NoConflictingLocks
  <2>1. PICK q \in SUBSET Signers : Cardinality(q) >= Majority /\ \A s \in q : t \in signedBy[s]
    BY Zenon DEF LockInv
  <2>2. PICK r \in SUBSET Signers : Cardinality(r) >= Majority /\ \A s \in r : u \in signedBy[s]
    BY Zenon DEF LockInv
  <2>3. PICK s \in q \cap r : TRUE
    BY <2>1, <2>2, MajoritiesMeet, Zenon
  <2> QED
    BY <2>1, <2>2, <2>3, Zenon DEF LockInv
<1> QED
  BY <1>1, LocksHaveQuorums, PTL

\* detect_and_slash_double_spend builds a slashing transaction only while the
\* collateral is unspent, and validate_slashing_transaction takes it at that height.
THEOREM SettledIsNotSlashed == SendSpec => SlashBeforeConfirmation
<1> DEFINE HeightOK == sendHeight \in Nat
           Checked == \A x \in slashTx' \ slashTx : x.input \in spendable /\ ValidateSlashing(x)
<1>1. SendInit => HeightOK
  BY DEF SendInit
<1>2. HeightOK /\ [SendNext]_sendVars => HeightOK'
  <2> SUFFICES ASSUME HeightOK, SendNext \/ UNCHANGED sendVars PROVE HeightOK'
    BY Zenon
  <2>1. ASSUME NEW t \in Txs, Confirm(t) PROVE HeightOK'
    BY <2>1 DEF Confirm
  <2>2. ASSUME FinalizeThreshold PROVE HeightOK'
    BY <2>2, Zenon DEF FinalizeThreshold
  <2>3. ASSUME NEW t \in Txs, AddToMempool(t) \/ SlashDoubleSpend(t) PROVE HeightOK'
    BY <2>3, Zenon DEF AddToMempool, SlashDoubleSpend
  <2>4. ASSUME NEW t \in Txs, NEW signers, LockInputs(t, signers) PROVE HeightOK'
    BY <2>4, Zenon DEF LockInputs
  <2>5. ASSUME NEW t \in Txs, NEW s \in Signers, SignInputs(s, t) \/ AddSignatureShare(s, t)
        PROVE  HeightOK'
    BY <2>5, Zenon DEF SignInputs, AddSignatureShare
  <2>6. CASE UNCHANGED sendVars
    BY <2>6, Zenon DEF sendVars
  <2> HIDE DEF HeightOK
  <2> QED
    BY <2>1, <2>2, <2>3, <2>4, <2>5, <2>6, Zenon DEF SendNext
<1>3. HeightOK /\ [SendNext]_sendVars => [Checked]_sendVars
  <2> SUFFICES ASSUME HeightOK, SendNext PROVE Checked
    BY Zenon
  <2>1. ASSUME NEW t \in Txs, SlashDoubleSpend(t) PROVE Checked
    <3>1. SpentBy[t] \in spendable
      BY <2>1, Zenon DEF SlashDoubleSpend, DetectDoubleSpend
    <3>2. slashTx' \ slashTx \subseteq {SlashingTransaction(SpentBy[t])}
      BY <2>1, Zenon DEF SlashDoubleSpend
    <3>3. ValidateSlashing(SlashingTransaction(SpentBy[t]))
      BY SendAssumption DEF ValidateSlashing, SlashingTransaction
    <3> QED
      BY <3>1, <3>2, <3>3 DEF SlashingTransaction
  <2>2. CASE slashTx' = slashTx
    BY <2>2, Zenon
  <2> QED
    BY <2>1, <2>2, Zenon DEF SendNext, FinalizeThreshold, AddToMempool, Confirm, LockInputs, SignInputs,
                      AddSignatureShare
<1> QED
  BY <1>1, <1>2, <1>3, PTL DEF SendSpec, SlashBeforeConfirmation

=============================================================================
