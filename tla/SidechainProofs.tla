-------------------------- MODULE SidechainProofs ---------------------------
(***************************************************************************)
(* Proofs about the federations of FederationIntegrator, the sidechains of a*)
(* node, which use them, the peg, and the transfers between sidechains.    *)
(***************************************************************************)
EXTENDS Sidechain, TwoWayPeg, InterSidechainTransfer, FiniteSetTheorems, TLAPS

-----------------------------------------------------------------------------
(***************************************************************************)
(* Proofs about the federations of FederationIntegrator.                   *)
(***************************************************************************)

-----------------------------------------------------------------------------
(* Thresholds.                                                             *)

\* A quotient of a positive number, rounded up, is positive.
LEMMA CeilDivPositive ==
  ASSUME NEW a \in Nat \ {0}, NEW b \in Nat \ {0}
  PROVE  CeilDiv(a, b) \in Nat \ {0}
<1>1. /\ a + b - 1 \in Nat /\ a + b - 1 >= b
  OBVIOUS
<1>2. /\ (a + b - 1) \div b \in Int
      /\ a + b - 1 < b * ((a + b - 1) \div b) + b
  BY <1>1
<1> DEFINE q == (a + b - 1) \div b
<1>3. q \in Int /\ b < b * q + b
  BY <1>1, <1>2
<1>4. q > 0
  <2> HIDE DEF q
  <2>1. SUFFICES ASSUME q <= 0 PROVE FALSE
    BY <1>3
  <2>2. b * q <= 0
    BY <1>3, <2>1
  <2> QED BY <1>3, <2>2
<1> QED BY <1>3, <1>4 DEF CeilDiv

\* update_federation_members keeps the threshold within the new members, in
\* whichever direction the floating-point product is rounded.
LEMMA ScaledThresholdInRange ==
  ASSUME NEW t \in Nat \ {0}, NEW n \in Nat \ {0}, NEW m \in Nat \ {0}
  PROVE  ScaledThreshold(t, n, m) \in 1 .. m
<1>1. t * m \in Nat \ {0}
  OBVIOUS
<1>2. CeilDiv(t * m, n) \in Nat \ {0}
  BY <1>1, CeilDivPositive, Zenon
<1> QED BY <1>2 DEF ScaledThreshold

-----------------------------------------------------------------------------
(* The operators on a manager.                                             *)

\* initialize_federation starts with one open epoch.
LEMMA InitializeTiles ==
  ASSUME NEW f, NEW h, ValidFederation(f)
  PROVE  EpochsTileOf(InitializeFederation(f, h))
BY DEF ValidFederation, EpochsTileOf, InitializeFederation, NewEpoch

\* Any number of transitions at one height.
LEMMA TransitionTiles ==
  ASSUME NEW m, EpochsTileOf(m), NEW n \in Nat, NEW fs, Len(fs) = n,
         \A i \in 1 .. n : ValidFederation(fs[i]), NEW h
  PROVE  /\ EpochsTileOf(TransitionEpochs(m, fs, h))
         /\ TransitionEpochs(m, fs, h).current = m.current + n
<1> DEFINE new == TransitionEpochs(m, fs, h)
           k == m.current
<1>1. k \in Nat \ {0} /\ new.current = k + n /\ DOMAIN new.epochs = 1 .. k + n
  BY Zenon DEF EpochsTileOf, TransitionEpochs
<1>2. \A e \in 1 .. k + n :
        new.epochs[e] = LET epoch == IF e <= k THEN m.epochs[e] ELSE NewEpoch(fs[e - k], h)
                        IN  IF e \in k .. k + n - 1 THEN EndedAt(epoch, h) ELSE epoch
  BY <1>1, Zenon DEF TransitionEpochs
<1> HIDE DEF new
<1>3. \A e \in 1 .. k : ValidFederation(m.epochs[e])
  BY Zenon DEF EpochsTileOf
<1>4. \A e \in 1 .. k + n : ValidFederation(new.epochs[e])
  <2> SUFFICES ASSUME NEW e \in 1 .. k + n PROVE ValidFederation(new.epochs[e])
    BY Zenon
  <2> DEFINE epoch == IF e <= k THEN m.epochs[e] ELSE NewEpoch(fs[e - k], h)
  <2>1. ValidFederation(epoch)
    <3>1. CASE e <= k
      BY <1>1, <1>3, <3>1
    <3>2. CASE e > k
      <4>1. e - k \in 1 .. n
        BY <1>1, <3>2
      <4> QED BY <1>1, <3>2, <4>1 DEF ValidFederation, NewEpoch
    <3> QED BY <1>1, <3>1, <3>2
  <2>2. new.epochs[e] = epoch \/ new.epochs[e] = EndedAt(epoch, h)
    BY <1>2, Zenon
  <2> HIDE DEF epoch
  <2> QED BY <2>1, <2>2 DEF ValidFederation, EndedAt
<1>5. \A e \in 1 .. k + n - 1 : new.epochs[e].end = new.epochs[e + 1].start
  <2> SUFFICES ASSUME NEW e \in 1 .. k + n - 1
               PROVE  new.epochs[e].end = new.epochs[e + 1].start
    BY Zenon
  <2>1. e \in 1 .. k + n /\ e + 1 \in 1 .. k + n
    BY <1>1
  <2>2. CASE e < k
    <3>1. m.epochs[e].end = m.epochs[e + 1].start
      BY <1>1, <2>2 DEF EpochsTileOf
    <3>2. new.epochs[e] = m.epochs[e]
      BY <1>1, <1>2, <2>1, <2>2
    <3>3. new.epochs[e + 1].start = m.epochs[e + 1].start
      <4>1. e + 1 <= k
        BY <1>1, <2>2
      <4>2. new.epochs[e + 1] \in {m.epochs[e + 1], EndedAt(m.epochs[e + 1], h)}
        BY <1>2, <2>1, <4>1, Zenon
      <4> QED BY <4>2 DEF EndedAt
    <3> QED BY <3>1, <3>2, <3>3, Zenon
  <2>3. CASE e >= k
    <3>1. new.epochs[e].end = h
      <4>1. e \in k .. k + n - 1
        BY <1>1, <2>3
      <4>2. \E epoch : new.epochs[e] = EndedAt(epoch, h)
        BY <1>2, <2>1, <4>1, Zenon
      <4> QED BY <4>2 DEF EndedAt
    <3>2. new.epochs[e + 1].start = h
      <4>1. ~(e + 1 <= k)
        BY <1>1, <2>3
      <4>2. \E f : new.epochs[e + 1] \in {NewEpoch(f, h), EndedAt(NewEpoch(f, h), h)}
        BY <1>2, <2>1, <4>1, Zenon
      <4> QED BY <4>2 DEF EndedAt, NewEpoch
    <3> QED BY <3>1, <3>2, Zenon
  <2> QED BY <1>1, <2>2, <2>3
<1>6. new.epochs[k + n].end = NoHeight
  <2>1. m.epochs[k].end = NoHeight
    BY Zenon DEF EpochsTileOf
  <2>2. k + n \in 1 .. k + n /\ k + n \notin k .. k + n - 1
    BY <1>1
  <2>3. CASE n = 0
    <3>1. new.epochs[k + n] = m.epochs[k]
      BY <1>1, <1>2, <2>2, <2>3
    <3> QED BY <2>1, <3>1, Zenon
  <2>4. CASE n # 0
    <3>1. ~(k + n <= k)
      BY <1>1, <2>4
    <3>2. \E f : new.epochs[k + n] = NewEpoch(f, h)
      BY <1>2, <2>2, <3>1, Zenon
    <3> QED BY <3>2 DEF NewEpoch
  <2> QED BY <2>3, <2>4, Zenon
<1>7. new.current \in Nat \ {0}
  BY <1>1
<1> QED BY <1>1, <1>4, <1>5, <1>6, <1>7 DEF EpochsTileOf, new

\* Each federation of the sequence gets an epoch of its own.
LEMMA TransitionKeepsFederations ==
  ASSUME NEW m, EpochsTileOf(m), NEW n \in Nat, NEW fs, Len(fs) = n, NEW h, NEW i \in 1 .. n
  PROVE  HasEpochFor(m, TransitionEpochs(m, fs, h), fs[i])
<1> DEFINE new == TransitionEpochs(m, fs, h)
<1>1. /\ m.current \in Nat \ {0} /\ m.current + i \in 1 .. m.current + n
      /\ ~(m.current + i <= m.current) /\ (m.current + i) - m.current = i
  BY DEF EpochsTileOf
<1>2. m.current + i \in m.current + 1 .. new.current
  BY <1>1 DEF TransitionEpochs
<1>3. /\ new.epochs[m.current + i].threshold = fs[i].threshold
      /\ new.epochs[m.current + i].keys = fs[i].keys
  BY <1>1, Zenon DEF TransitionEpochs, EndedAt, NewEpoch
<1> HIDE DEF new
<1>4. HasEpochFor(m, new, fs[i])
  BY <1>2, <1>3, Zenon DEF HasEpochFor
<1> QED BY <1>4, Zenon DEF new

\* New members and keys for the current epoch.
LEMMA UpdateMembersTiles ==
  ASSUME NEW m, EpochsTileOf(m), NEW size \in Nat \ {0}, NEW keys, Len(keys) = size
  PROVE  EpochsTileOf(UpdateFederationMembers(m, size, keys))
<1> DEFINE old == m.epochs[m.current]
           t == ScaledThreshold(old.threshold, old.size, size)
           new == UpdateFederationMembers(m, size, keys)
<1>1. /\ m.current \in Nat \ {0} /\ DOMAIN m.epochs = 1 .. m.current
      /\ \A e \in 1 .. m.current : ValidFederation(m.epochs[e])
  BY Zenon DEF EpochsTileOf
<1>2. ValidFederation(old)
  BY <1>1
<1>3. old.size \in Nat \ {0} /\ old.threshold \in Nat \ {0} => t \in 1 .. size
  BY ScaledThresholdInRange, Zenon
<1>4. /\ new.current = m.current /\ DOMAIN new.epochs = 1 .. m.current
      /\ \A e \in 1 .. m.current :
           new.epochs[e] = IF e = m.current
                           THEN [size |-> size, threshold |-> t, keys |-> keys,
                                 start |-> old.start, end |-> old.end]
                           ELSE m.epochs[e]
  BY <1>1, Zenon DEF UpdateFederationMembers, GetCurrentEpoch
<1> HIDE DEF new, t, old
<1>5. t \in 1 .. size
  BY <1>2, <1>3 DEF ValidFederation
<1>6. \A e \in 1 .. m.current : ValidFederation(new.epochs[e])
  BY <1>1, <1>4, <1>5 DEF ValidFederation
<1>7. \A e \in 1 .. m.current :
        new.epochs[e].start = m.epochs[e].start /\ new.epochs[e].end = m.epochs[e].end
  BY <1>4 DEF old
<1>8. /\ \A e \in 1 .. m.current - 1 : m.epochs[e].end = m.epochs[e + 1].start
      /\ m.epochs[m.current].end = NoHeight
  BY Zenon DEF EpochsTileOf
<1>9. \A e \in 1 .. m.current - 1 : e \in 1 .. m.current /\ e + 1 \in 1 .. m.current
  BY <1>1
<1>10. \A e \in 1 .. m.current - 1 : new.epochs[e].end = new.epochs[e + 1].start
  BY <1>7, <1>8, <1>9, Zenon
<1>11. m.current \in 1 .. m.current
  BY <1>1
<1>12. new.epochs[m.current].end = NoHeight
  BY <1>7, <1>8, <1>11, Zenon
<1> QED BY <1>1, <1>4, <1>6, <1>10, <1>12, Zenon DEF EpochsTileOf, new

-----------------------------------------------------------------------------
(* The integrator.                                                         *)

\* The updates of a sidechain that are ready, in the order of a listing.
LEMMA UpdatesOfIsSequence ==
  ASSUME FedTypeOK, NEW c, NEW h, NEW order, order[c] \in Listings(ReadyFor(c, h))
  PROVE  LET n == Cardinality(ReadyFor(c, h))
         IN  /\ n \in Nat
             /\ Len(UpdatesOf(c, h, order)) = n
             /\ \A i \in 1 .. n :
                  /\ order[c][i] \in ReadyFor(c, h)
                  /\ UpdatesOf(c, h, order)[i] = pending[order[c][i]].federation
             /\ \A p \in ReadyFor(c, h) : \E i \in 1 .. n : order[c][i] = p
<1> DEFINE n == Cardinality(ReadyFor(c, h))
<1>1. ReadyFor(c, h) \subseteq ProposalIds
  BY Zenon DEF FedTypeOK, ReadyFor, Ready
<1>2. n \in Nat
  BY <1>1, IntegratorAssumption, FS_Subset, FS_CardinalityType, Zenon
<1>3. /\ order[c] \in [1 .. n -> ReadyFor(c, h)]
      /\ \A p \in ReadyFor(c, h) : \E i \in 1 .. n : order[c][i] = p
  BY Zenon DEF Listings
<1>4. UpdatesOf(c, h, order) = [i \in 1 .. n |-> pending[order[c][i]].federation]
  BY Zenon DEF UpdatesOf
<1> HIDE DEF n
<1>5. Len(UpdatesOf(c, h, order)) = n
  BY <1>2, <1>4
<1> QED BY <1>2, <1>3, <1>4, <1>5, Zenon DEF n

\* The inductive invariant: UpdatesApplyCleanly makes the updates that are applied
\* valid, and the types make the set of the ready ones finite.
FedInv == FedTypeOK /\ EpochsTile /\ UpdatesApplyCleanly

\* What apply_pending_updates does to one manager.
LEMMA ApplyTransitions ==
  ASSUME FedInv, NEW h, ApplyPendingUpdates(h)
  PROVE  \E order :
           /\ \A c \in DOMAIN managers : order[c] \in Listings(ReadyFor(c, h))
           /\ managers' = [c \in DOMAIN managers |->
                             TransitionEpochs(managers[c], UpdatesOf(c, h, order), h)]
BY Zenon DEF ApplyPendingUpdates

LEMMA FedInvInit == FedInit => FedInv
BY Zenon DEF FedInit, FedInv, FedTypeOK, EpochsTile, UpdatesApplyCleanly, EmptyMap

LEMMA FedInvNext == FedInv /\ [FedNext]_fedVars => FedInv'
<1> SUFFICES ASSUME FedInv, [FedNext]_fedVars PROVE FedInv'
  BY Zenon
<1> USE DEF FedInv
<1>1. ASSUME NEW c \in Sidechains, NEW f \in Federations, NEW h \in Heights,
             InitializeSidechainFederation(c, f, h)
      PROVE  FedInv'
  <2>1. /\ ValidFederation(f) /\ pending' = pending
        /\ DOMAIN managers' = DOMAIN managers \cup {c}
        /\ \A d \in DOMAIN managers' :
             managers'[d] = IF d = c THEN InitializeFederation(f, h) ELSE managers[d]
    BY <1>1, Zenon DEF InitializeSidechainFederation, Put
  <2>2. FedTypeOK'
    BY <2>1, Zenon DEF FedTypeOK
  <2>3. EpochsTile'
    BY <2>1, InitializeTiles, Zenon DEF EpochsTile
  <2>4. UpdatesApplyCleanly'
    BY <2>1, Zenon DEF UpdatesApplyCleanly, Applicable
  <2> QED BY <2>2, <2>3, <2>4, Zenon
<1>2. ASSUME NEW c \in Sidechains, NEW f \in Federations, NEW h \in Heights,
             EmergencyFederationUpdate(c, f, h)
      PROVE  FedInv'
  <2>1. /\ ValidFederation(f) /\ pending' = pending /\ c \in DOMAIN managers
        /\ DOMAIN managers' = DOMAIN managers
        /\ \A d \in DOMAIN managers :
             managers'[d] = IF d = c THEN TransitionEpochs(managers[c], <<f>>, h) ELSE managers[d]
    BY <1>2, Zenon DEF EmergencyFederationUpdate, Put
  <2>2. EpochsTileOf(managers[c]) /\ Len(<<f>>) = 1 /\ \A i \in 1 .. 1 : ValidFederation(<<f>>[i])
    BY <2>1 DEF EpochsTile
  <2>3. EpochsTileOf(TransitionEpochs(managers[c], <<f>>, h))
    BY <2>2, TransitionTiles, Zenon
  <2>4. FedTypeOK'
    BY <2>1, Zenon DEF FedTypeOK
  <2>5. EpochsTile'
    BY <2>1, <2>3, Zenon DEF EpochsTile
  <2>6. UpdatesApplyCleanly'
    BY <2>1, Zenon DEF UpdatesApplyCleanly, Applicable
  <2> QED BY <2>4, <2>5, <2>6
<1>3. ASSUME NEW c \in Sidechains, NEW f \in Federations, UpdateMembers(c, f)
      PROVE  FedInv'
  <2>1. /\ f.size > 0 /\ Len(f.keys) = f.size /\ pending' = pending /\ c \in DOMAIN managers
        /\ DOMAIN managers' = DOMAIN managers
        /\ \A d \in DOMAIN managers :
             managers'[d] = IF d = c THEN UpdateFederationMembers(managers[c], f.size, f.keys)
                                     ELSE managers[d]
    BY <1>3, Zenon DEF UpdateMembers, Put
  <2>2. f.size \in Nat \ {0}
    BY <2>1, IntegratorAssumption
  <2>3. EpochsTileOf(UpdateFederationMembers(managers[c], f.size, f.keys))
    BY <2>1, <2>2, UpdateMembersTiles, Zenon DEF EpochsTile
  <2>4. FedTypeOK'
    BY <2>1, Zenon DEF FedTypeOK
  <2>5. EpochsTile'
    BY <2>1, <2>3, Zenon DEF EpochsTile
  <2>6. UpdatesApplyCleanly'
    BY <2>1, Zenon DEF UpdatesApplyCleanly, Applicable
  <2> QED BY <2>4, <2>5, <2>6, Zenon
<1>4. ASSUME NEW p \in ProposalIds, NEW u \in Updates, NEW h \in Heights,
             ProposeFederationUpdate(p, u, h)
      PROVE  FedInv'
  <2>1. /\ Applicable(u) /\ managers' = managers
        /\ DOMAIN pending' = DOMAIN pending \cup {p}
        /\ \A q \in DOMAIN pending' : pending'[q] = IF q = p THEN u ELSE pending[q]
    BY <1>4, Zenon DEF ProposeFederationUpdate, Put, Applicable
  <2>2. FedTypeOK'
    BY <2>1, Zenon DEF FedTypeOK
  <2>3. EpochsTile'
    BY <2>1, Zenon DEF EpochsTile
  <2>4. UpdatesApplyCleanly'
    BY <2>1, Zenon DEF UpdatesApplyCleanly, Applicable
  <2> QED BY <2>2, <2>3, <2>4, Zenon
<1>5. ASSUME NEW h \in Heights, ApplyPendingUpdates(h)
      PROVE  FedInv'
  <2>1. PICK order :
          /\ \A c \in DOMAIN managers : order[c] \in Listings(ReadyFor(c, h))
          /\ managers' = [c \in DOMAIN managers |->
                            TransitionEpochs(managers[c], UpdatesOf(c, h, order), h)]
    BY <1>5, ApplyTransitions, Zenon
  <2>2. /\ DOMAIN managers' = DOMAIN managers
        /\ DOMAIN pending' \subseteq DOMAIN pending
        /\ \A p \in DOMAIN pending' : pending'[p] = pending[p]
    BY <1>5, <2>1, Zenon DEF ApplyPendingUpdates, Without
  <2>3. ASSUME NEW c \in DOMAIN managers
        PROVE  EpochsTileOf(managers'[c])
    <3> DEFINE n == Cardinality(ReadyFor(c, h))
               fs == UpdatesOf(c, h, order)
    <3>1. /\ n \in Nat /\ Len(fs) = n
          /\ \A i \in 1 .. n : /\ order[c][i] \in ReadyFor(c, h)
                              /\ fs[i] = pending[order[c][i]].federation
      BY <2>1, UpdatesOfIsSequence
    <3>2. \A p \in ReadyFor(c, h) : ValidFederation(pending[p].federation)
      BY Zenon DEF UpdatesApplyCleanly, Applicable, ReadyFor, Ready
    <3>3. EpochsTileOf(managers[c]) /\ managers'[c] = TransitionEpochs(managers[c], fs, h)
      BY <2>1, Zenon DEF EpochsTile
    <3> HIDE DEF n, fs
    <3>4. \A i \in 1 .. n : ValidFederation(fs[i])
      BY <3>1, <3>2, Zenon
    <3> QED BY <3>1, <3>3, <3>4, TransitionTiles
  <2>4. FedTypeOK'
    BY <2>2, Zenon DEF FedTypeOK
  <2>5. EpochsTile'
    BY <2>2, <2>3, Zenon DEF EpochsTile
  <2>6. UpdatesApplyCleanly'
    BY <2>2, Zenon DEF UpdatesApplyCleanly, Applicable
  <2> QED BY <2>4, <2>5, <2>6, Zenon
<1>6. CASE UNCHANGED fedVars
  BY <1>6, Zenon DEF fedVars, FedTypeOK, EpochsTile, UpdatesApplyCleanly, Applicable
<1> QED BY <1>1, <1>2, <1>3, <1>4, <1>5, <1>6, Zenon DEF FedNext

\* From the invariant, one step: an update that leaves pending_updates becomes an
\* epoch.
LEMMA UpdateBecomesEpoch ==
  ASSUME FedInv, [FedNext]_fedVars, NEW p \in DOMAIN pending, p \notin DOMAIN pending'
  PROVE  BecomesEpoch(pending[p])
<1>2. PICK h \in Heights : ApplyPendingUpdates(h)
  BY Zenon DEF FedNext, fedVars, InitializeSidechainFederation, EmergencyFederationUpdate,
         UpdateMembers, ProposeFederationUpdate, Put
<1>3. PICK order :
        /\ \A c \in DOMAIN managers : order[c] \in Listings(ReadyFor(c, h))
        /\ managers' = [c \in DOMAIN managers |->
                          TransitionEpochs(managers[c], UpdatesOf(c, h, order), h)]
  BY <1>2, ApplyTransitions, Zenon
<1> DEFINE c == pending[p].sidechain
           n == Cardinality(ReadyFor(c, h))
           fs == UpdatesOf(c, h, order)
<1>4. c \in DOMAIN managers /\ p \in ReadyFor(c, h)
  BY <1>2, Zenon DEF FedInv, UpdatesApplyCleanly, Applicable, ApplyPendingUpdates, Without, ReadyFor, Ready
<1>5. /\ n \in Nat /\ Len(fs) = n
      /\ \A i \in 1 .. n : fs[i] = pending[order[c][i]].federation
      /\ \E i \in 1 .. n : order[c][i] = p
  BY <1>3, <1>4, UpdatesOfIsSequence DEF FedInv
<1>6. EpochsTileOf(managers[c]) /\ managers'[c] = TransitionEpochs(managers[c], fs, h)
  BY <1>3, <1>4, Zenon DEF FedInv, EpochsTile
<1>7. PICK i \in 1 .. n : order[c][i] = p
  BY <1>5, Zenon
<1>8. fs[i] = pending[p].federation
  BY <1>5, <1>7, Zenon
<1> HIDE DEF n, fs, c
<1>9. HasEpochFor(managers[c], TransitionEpochs(managers[c], fs, h), fs[i])
  BY <1>5, <1>6, TransitionKeepsFederations, Zenon
<1> QED BY <1>6, <1>8, <1>9, Zenon DEF BecomesEpoch, c

\* The invariant holds throughout.
LEMMA FedInvHolds == FedSpec => []FedInv
BY FedInvInit, FedInvNext, PTL DEF FedSpec

\* federation_manager.rs and federation_integrator.rs: the epochs of every sidechain
\* are numbered without a gap, follow each other without a gap in height, and have
\* thresholds their members can meet.
THEOREM EpochsAlwaysTile == FedSpec => []EpochsTile
<1>1. FedInv => EpochsTile
  BY Zenon DEF FedInv
<1> QED BY <1>1, FedInvHolds, PTL

\* apply_pending_updates never returns early.
THEOREM UpdatesNeverFail == FedSpec => []UpdatesApplyCleanly
<1>1. FedInv => UpdatesApplyCleanly
  BY Zenon DEF FedInv
<1> QED BY <1>1, FedInvHolds, PTL

\* apply_pending_updates turns every update that it removes into an epoch, however
\* many there are for a sidechain and in whatever order the map lists them.
THEOREM UpdatesAreApplied == FedSpec => NoUpdateIsLost
<1>1. FedInv /\ [FedNext]_fedVars =>
        (\A p \in DOMAIN pending : p \in DOMAIN pending' \/ BecomesEpoch(pending[p]))
  <2> SUFFICES ASSUME FedInv, [FedNext]_fedVars, NEW p \in DOMAIN pending,
                      p \notin DOMAIN pending'
               PROVE  BecomesEpoch(pending[p])
    BY Zenon
  <2> QED BY UpdateBecomesEpoch, Zenon
<1> QED BY <1>1, FedInvHolds, PTL DEF FedSpec, NoUpdateIsLost

-----------------------------------------------------------------------------
(***************************************************************************)
(* Proofs about the sidechains of a node.                                  *)
(***************************************************************************)

-----------------------------------------------------------------------------
(* The federations change as FederationIntegrator says.                    *)

\* A step of the node is a step of the integrator or leaves it alone.
LEMMA StepRefines == [SideNext]_sideVars => [FedNext]_fedVars
<1> SUFFICES ASSUME [SideNext]_sideVars PROVE [FedNext]_fedVars
  BY Zenon
<1>1. ASSUME NEW c \in Sidechains, NEW f \in Federations, NEW h \in Heights,
             RegisterSidechain(c, f, h)
      PROVE  FedNext
  BY <1>1, Zenon DEF RegisterSidechain, FedNext
<1>2. CASE UpdateFederation
  BY <1>2, Zenon DEF UpdateFederation, FedNext
<1>3. ASSUME NEW hdr \in Announced, ProcessMainchainBlockForSidechains(hdr)
      PROVE  FedNext
  <2>1. hdr.height \in Heights
    BY SidechainAssumption, Zenon
  <2> QED BY <1>3, <2>1, Zenon DEF ProcessMainchainBlockForSidechains, FedNext
<1>4. ASSUME NEW hdr \in Announced, ProcessMainchainBlockForSidechainsFails(hdr)
      PROVE  UNCHANGED fedVars
  BY <1>4, Zenon DEF ProcessMainchainBlockForSidechainsFails, fedVars
<1>5. ASSUME NEW hdr \in Headers, MainchainMoves(hdr)
      PROVE  UNCHANGED fedVars
  BY <1>5, Zenon DEF MainchainMoves, fedVars
<1>6. ASSUME NEW c \in Sidechains, NEW hdr \in Trustworthy, AddTrustedHeader(c, hdr)
      PROVE  UNCHANGED fedVars
  BY <1>6, Zenon DEF AddTrustedHeader, fedVars
<1>7. ASSUME NEW c \in Sidechains, NEW b \in SideBlocks,
             \/ ProcessSidechainBlock(c, b)
             \/ ProcessSidechainBlockProof(c, b)
             \/ ProcessSidechainBlockReorg(c, b)
      PROVE  UNCHANGED fedVars
  BY <1>7, Zenon DEF ProcessSidechainBlock, ProcessSidechainBlockProof, ProcessSidechainBlockReorg, fedVars
<1>8. ASSUME NEW c \in Sidechains, NEW p \in Proofs,
             \/ \E bond \in Bonds : SubmitFraudProofChallenge(c, p, bond)
             \/ ReportFraud(c, p)
             \/ \E countered \in BOOLEAN : RespondToChallenge(c, p, countered)
      PROVE  UNCHANGED fedVars
  BY <1>8, Zenon DEF SubmitFraudProofChallenge, ReportFraud, RespondToChallenge, fedVars
<1>9. CASE UNCHANGED sideVars
  BY <1>9, Zenon DEF sideVars, fedVars
<1> QED BY <1>1, <1>2, <1>3, <1>4, <1>5, <1>6, <1>7, <1>8, <1>9, Zenon DEF SideNext

\* Whatever the engines of blockchain.rs do, and wherever the processing of a
\* mainchain block stops, the federations behave as the integrator alone would.
THEOREM SidechainRefinesIntegrator == SideSpec => RefinesIntegrator
<1>1. SideInit => FedInit
  BY Zenon DEF SideInit
<1> QED BY <1>1, StepRefines, PTL DEF SideSpec, RefinesIntegrator, FedSpec

\* So the epochs of a node's sidechains are in order (EpochsAlwaysTile), with
\* engines that fail half way through a block among them.
THEOREM SidechainEpochsTile == SideSpec => []EpochsTile
BY SidechainRefinesIntegrator, EpochsAlwaysTile, PTL DEF RefinesIntegrator

-----------------------------------------------------------------------------
(* The engines.                                                            *)

\* A challenge enters the engine of c, or is answered.
ChallengeStep(c) ==
  /\ UNCHANGED managers /\ c \in DOMAIN engines
  /\ \E p \in Proofs :
       \/ \E bond : /\ CanSubmit(engines[c].fraud, p, bond)
                    /\ engines' = Put(engines, c,
                         WithFraud(engines[c], SubmitFraudProof(engines[c].fraud, p)))
       \/ \E countered \in BOOLEAN :
            /\ CanRespond(engines[c].fraud, p)
            /\ engines' = Put(engines, c,
                 WithFraud(engines[c], SubmitResponse(engines[c].fraud, p, countered)))

\* Some of the engines process the mainchain block hdr.
MainchainStep(hdr) ==
  /\ DOMAIN managers' = DOMAIN managers
  /\ DOMAIN engines' = DOMAIN engines
  /\ \A c \in DOMAIN engines :
       \/ engines'[c] = engines[c]
       \/ \E o \in Outcomes(engines[c].fraud, hdr.height) :
            engines'[c] = ProcessMainchainBlock(engines[c], hdr, o)

\* How each kind of step changes the engines: a registration, a change of one
\* engine, or a mainchain block.
LEMMA EnginesChange ==
  ASSUME [SideNext]_sideVars
  PROVE  \/ engines' = engines /\ DOMAIN managers' = DOMAIN managers
         \/ \E c \in Sidechains, f \in Federations, h \in Heights : RegisterSidechain(c, f, h)
         \/ \E c \in Sidechains, b \in SideBlocks : ProcessSidechainBlock(c, b)
         \/ \E c \in Sidechains, hdr \in Trustworthy : AddTrustedHeader(c, hdr)
         \/ \E c \in Sidechains : ChallengeStep(c)
         \/ \E hdr \in Headers : MainchainStep(hdr)
<1>1. CASE UpdateFederation
  BY <1>1, Zenon DEF UpdateFederation, ProposeFederationUpdate, EmergencyFederationUpdate, UpdateMembers, Put
<1>2. \A c \in DOMAIN engines : \A hdr :
        OutcomeOf(c, hdr) \in Outcomes(engines[c].fraud, hdr.height)
  <2> SUFFICES ASSUME NEW c \in DOMAIN engines, NEW hdr
               PROVE  Outcomes(engines[c].fraud, hdr.height) # {}
    BY Zenon DEF OutcomeOf
  <2> DEFINE fm == engines[c].fraud
             sound == DOMAIN fm.active \ Faulty(fm, hdr.height)
  <2>1. CASE Faulty(fm, hdr.height) = {}
    BY <2>1, Zenon DEF Outcomes
  <2>2. CASE Faulty(fm, hdr.height) # {}
    <3>1. PICK p \in Faulty(fm, hdr.height) : TRUE
      BY <2>2, Zenon
    <3>2. [done |-> {}, lost |-> {p}] \in Outcomes(fm, hdr.height)
      BY <2>2, <3>1, Zenon DEF Outcomes
    <3> QED BY <3>2, Zenon
  <2> QED BY <2>1, <2>2, Zenon
<1>3. ASSUME NEW hdr \in Announced,
             \/ ProcessMainchainBlockForSidechains(hdr)
             \/ ProcessMainchainBlockForSidechainsFails(hdr)
      PROVE  hdr \in Headers /\ MainchainStep(hdr)
  <2>1. CASE ProcessMainchainBlockForSidechains(hdr)
    <3>1. engines' = [c \in DOMAIN engines |->
                        ProcessMainchainBlock(engines[c], hdr, OutcomeOf(c, hdr))]
      BY <2>1, Zenon DEF ProcessMainchainBlockForSidechains
    <3>2. DOMAIN managers' = DOMAIN managers
      BY <2>1, Zenon DEF ProcessMainchainBlockForSidechains, ApplyPendingUpdates
    <3>3. \A c \in DOMAIN engines :
            engines'[c] = ProcessMainchainBlock(engines[c], hdr, OutcomeOf(c, hdr))
      BY <3>1, Zenon
    <3>4. DOMAIN engines' = DOMAIN engines
      BY <3>1, Zenon
    <3> QED BY <1>2, <3>2, <3>3, <3>4, SidechainAssumption, Zenon DEF MainchainStep
  <2>2. CASE ProcessMainchainBlockForSidechainsFails(hdr)
    <3>1. PICK bad \in DOMAIN engines, before \in SUBSET DOMAIN engines :
            \E o \in Outcomes(engines[bad].fraud, hdr.height) :
              engines' = [c \in DOMAIN engines |->
                            IF c = bad THEN ProcessMainchainBlock(engines[c], hdr, o)
                            ELSE IF c \in before
                            THEN ProcessMainchainBlock(engines[c], hdr, OutcomeOf(c, hdr))
                            ELSE engines[c]]
      BY <2>2, Zenon DEF ProcessMainchainBlockForSidechainsFails, Interrupted
    <3>2. PICK o \in Outcomes(engines[bad].fraud, hdr.height) :
            engines' = [c \in DOMAIN engines |->
                          IF c = bad THEN ProcessMainchainBlock(engines[c], hdr, o)
                          ELSE IF c \in before
                          THEN ProcessMainchainBlock(engines[c], hdr, OutcomeOf(c, hdr))
                          ELSE engines[c]]
      BY <3>1, Zenon
    <3>3. DOMAIN engines' = DOMAIN engines /\ managers' = managers
      BY <2>2, <3>2, Zenon DEF ProcessMainchainBlockForSidechainsFails
    <3>4. ASSUME NEW c \in DOMAIN engines
          PROVE  \/ engines'[c] = engines[c]
                 \/ \E q \in Outcomes(engines[c].fraud, hdr.height) :
                      engines'[c] = ProcessMainchainBlock(engines[c], hdr, q)
      <4>1. CASE c = bad
        BY <3>2, <4>1, Zenon
      <4>2. CASE c # bad /\ c \in before
        <5>1. engines'[c] = ProcessMainchainBlock(engines[c], hdr, OutcomeOf(c, hdr))
          BY <3>2, <4>2, Zenon
        <5> QED BY <1>2, <5>1, Zenon
      <4>3. CASE c # bad /\ c \notin before
        BY <3>2, <4>3, Zenon
      <4> QED BY <4>1, <4>2, <4>3, Zenon
    <3> QED BY <3>3, <3>4, SidechainAssumption, Zenon DEF MainchainStep
  <2> QED BY <1>3, <2>1, <2>2, Zenon
<1>4. ASSUME NEW c \in Sidechains, NEW b \in SideBlocks, ProcessSidechainBlockProof(c, b)
      PROVE  ChallengeStep(c)
  <2>1. b.proofs \in Seq(Proofs) /\ b.proofs # <<>>
    BY <1>4, SidechainAssumption, Zenon DEF ProcessSidechainBlockProof
  <2>2. b.proofs[1] \in Proofs
    BY <2>1
  <2> QED BY <1>4, <2>2, Zenon DEF ProcessSidechainBlockProof, Validated, ChallengeStep
<1>5. ASSUME NEW c \in Sidechains, NEW p \in Proofs,
             \/ \E bond \in Bonds : SubmitFraudProofChallenge(c, p, bond)
             \/ ReportFraud(c, p)
      PROVE  ChallengeStep(c)
  BY <1>5, Zenon DEF SubmitFraudProofChallenge, ReportFraud, ChallengeStep
<1>6. ASSUME NEW c \in Sidechains, NEW p \in Proofs, NEW countered \in BOOLEAN,
             RespondToChallenge(c, p, countered)
      PROVE  ChallengeStep(c)
  BY <1>6, Zenon DEF RespondToChallenge, ChallengeStep
<1>7. ASSUME NEW hdr \in Headers, MainchainMoves(hdr)
      PROVE  engines' = engines /\ DOMAIN managers' = DOMAIN managers
  BY <1>7, Zenon DEF MainchainMoves
<1>8. ASSUME NEW c \in Sidechains, NEW b \in SideBlocks, ProcessSidechainBlockReorg(c, b)
      PROVE  engines' = engines /\ DOMAIN managers' = DOMAIN managers
  BY <1>8, Zenon DEF ProcessSidechainBlockReorg
<1>9. CASE UNCHANGED sideVars
  BY <1>9, Zenon DEF sideVars
<1> QED BY <1>1, <1>3, <1>4, <1>5, <1>6, <1>7, <1>8, <1>9, Zenon DEF SideNext

\* register_sidechain is the only call that adds an engine or a federation, and it
\* adds both.
THEOREM EnginesKeepFederations == SideSpec => []EnginesHaveFederations
<1>1. SideInit => EnginesHaveFederations
  BY Zenon DEF SideInit, FedInit, EnginesHaveFederations, EmptyMap
<1>2. EnginesHaveFederations /\ [SideNext]_sideVars => EnginesHaveFederations'
  <2> SUFFICES ASSUME EnginesHaveFederations, [SideNext]_sideVars
               PROVE  EnginesHaveFederations'
    OBVIOUS
  <2>1. ASSUME NEW c \in Sidechains, NEW f \in Federations, NEW h \in Heights,
               RegisterSidechain(c, f, h)
        PROVE  EnginesHaveFederations'
    BY <2>1, Zenon DEF RegisterSidechain, InitializeSidechainFederation, Put, EnginesHaveFederations
  <2>2. ASSUME NEW c \in Sidechains, NEW b \in SideBlocks, ProcessSidechainBlock(c, b)
        PROVE  EnginesHaveFederations'
    BY <2>2, Zenon DEF ProcessSidechainBlock, Validated, Put, EnginesHaveFederations
  <2>3. ASSUME NEW c \in Sidechains, NEW hdr \in Trustworthy, AddTrustedHeader(c, hdr)
        PROVE  EnginesHaveFederations'
    BY <2>3, Zenon DEF AddTrustedHeader, Put, EnginesHaveFederations
  <2>4. ASSUME NEW c \in Sidechains, ChallengeStep(c)
        PROVE  EnginesHaveFederations'
    BY <2>4, Zenon DEF ChallengeStep, Put, EnginesHaveFederations
  <2>5. ASSUME NEW hdr \in Headers, MainchainStep(hdr)
        PROVE  EnginesHaveFederations'
    BY <2>5, Zenon DEF MainchainStep, EnginesHaveFederations
  <2>6. CASE engines' = engines /\ DOMAIN managers' = DOMAIN managers
    BY <2>6, Zenon DEF EnginesHaveFederations
  <2> QED BY <2>1, <2>2, <2>3, <2>4, <2>5, <2>6, EnginesChange, Zenon
<1> QED BY <1>1, <1>2, PTL DEF SideSpec

\* TipIsAnchored of one engine.
Anchored(c, e) ==
  e.block # None =>
    /\ e.block.sidechain = c
    /\ e.block.anchor \in e.headers
    /\ e.block.anchor.height > 0 => e.block.anchor \in e.trusted
    /\ Cardinality(e.block.sig.signers) >= e.federation.threshold
    /\ e.block.sig.signers \subseteq DOMAIN e.federation.keys

\* Neither a mainchain block nor a challenge touches the tip and what it rests on.
LEMMA ProcessKeepsAnchor ==
  ASSUME NEW c, NEW e, NEW hdr, NEW o, Anchored(c, e)
  PROVE  Anchored(c, ProcessMainchainBlock(e, hdr, o))
<1> DEFINE n == ProcessMainchainBlock(e, hdr, o)
<1>1. /\ n.block = e.block /\ n.federation = e.federation /\ n.trusted = e.trusted
      /\ n.headers = e.headers \cup {hdr}
  BY Zenon DEF ProcessMainchainBlock
<1> HIDE DEF n
<1>2. Anchored(c, n)
  BY <1>1, Zenon DEF Anchored
<1> QED BY <1>2, Zenon DEF n

LEMMA ChallengeKeepsAnchor ==
  ASSUME NEW c, NEW e, NEW fm, Anchored(c, e)
  PROVE  Anchored(c, WithFraud(e, fm))
<1> DEFINE n == WithFraud(e, fm)
<1>1. /\ n.block = e.block /\ n.federation = e.federation /\ n.trusted = e.trusted
      /\ n.headers = e.headers
  BY Zenon DEF WithFraud
<1> HIDE DEF n
<1>2. Anchored(c, n)
  BY <1>1, Zenon DEF Anchored
<1> QED BY <1>2, Zenon DEF n

\* sidechain_consensus.rs: the tip of a sidechain is anchored to a mainchain block
\* that the engine knows and trusts, and is signed by its federation.
THEOREM TipStaysAnchored == SideSpec => []TipIsAnchored
<1>0. TipIsAnchored <=> \A c \in DOMAIN engines : Anchored(c, engines[c])
  BY Zenon DEF TipIsAnchored, Anchored
<1>1. SideInit => TipIsAnchored
  BY Zenon DEF SideInit, TipIsAnchored, EmptyMap
<1>2. TipIsAnchored /\ [SideNext]_sideVars => TipIsAnchored'
  <2> SUFFICES ASSUME TipIsAnchored, [SideNext]_sideVars, NEW d \in DOMAIN engines'
               PROVE  Anchored(d, engines'[d])
    BY Zenon DEF TipIsAnchored, Anchored
  <2>0. \A c \in DOMAIN engines : Anchored(c, engines[c])
    BY <1>0, Zenon
  <2>1. ASSUME NEW c \in Sidechains, NEW f \in Federations, NEW h \in Heights,
               RegisterSidechain(c, f, h)
        PROVE  Anchored(d, engines'[d])
    BY <2>0, <2>1, Zenon DEF RegisterSidechain, Put, NewEngine, Anchored
  <2>2. ASSUME NEW c \in Sidechains, NEW b \in SideBlocks, ProcessSidechainBlock(c, b)
        PROVE  Anchored(d, engines'[d])
    <3>1. MainchainAccepts(engines[c], c, b) /\ ProofsAccepted(engines[c], b)
      BY <2>2, Zenon DEF ProcessSidechainBlock, Validated
    <3>2. CASE d = c
      BY <2>2, <3>1, <3>2, Zenon DEF ProcessSidechainBlock, Put, Anchored, MainchainAccepts,
                              ProofsAccepted, VerifyFederationSignature
    <3>3. CASE d # c
      BY <2>0, <2>2, <3>3, Zenon DEF ProcessSidechainBlock, Put
    <3> QED BY <3>2, <3>3, Zenon
  <2>3. ASSUME NEW c \in Sidechains, NEW hdr \in Trustworthy, AddTrustedHeader(c, hdr)
        PROVE  Anchored(d, engines'[d])
    BY <2>0, <2>3, Zenon DEF AddTrustedHeader, Put, Anchored
  <2>4. ASSUME NEW c \in Sidechains, ChallengeStep(c)
        PROVE  Anchored(d, engines'[d])
    <3>1. c \in DOMAIN engines /\ \E fm : engines' = Put(engines, c, WithFraud(engines[c], fm))
      BY <2>4, Zenon DEF ChallengeStep
    <3>2. PICK fm : engines' = Put(engines, c, WithFraud(engines[c], fm))
      BY <3>1, Zenon
    <3>3. d \in DOMAIN engines /\ (d # c => engines'[d] = engines[d])
      BY <3>1, <3>2, Zenon DEF Put
    <3>4. engines'[c] = WithFraud(engines[c], fm)
      BY <3>2, Zenon DEF Put
    <3>5. Anchored(c, engines'[c])
      BY <2>0, <3>1, <3>4, ChallengeKeepsAnchor, Zenon
    <3> QED BY <2>0, <3>3, <3>5, Zenon
  <2>5. ASSUME NEW hdr \in Headers, MainchainStep(hdr)
        PROVE  Anchored(d, engines'[d])
    <3>1. d \in DOMAIN engines
      BY <2>5, Zenon DEF MainchainStep
    <3>2. CASE engines'[d] = engines[d]
      BY <2>0, <3>1, <3>2, Zenon
    <3>3. ASSUME NEW o, engines'[d] = ProcessMainchainBlock(engines[d], hdr, o)
          PROVE  Anchored(d, engines'[d])
      BY <2>0, <3>1, <3>3, ProcessKeepsAnchor, Zenon
    <3> QED BY <2>5, <3>1, <3>2, <3>3, Zenon DEF MainchainStep
  <2>6. CASE engines' = engines
    BY <2>0, <2>6, Zenon
  <2> QED BY <2>1, <2>2, <2>3, <2>4, <2>5, <2>6, EnginesChange, Zenon
<1> QED BY <1>1, <1>2, PTL DEF SideSpec

-----------------------------------------------------------------------------
(* The challenges.                                                         *)

\* WithFraud puts the challenges into the engine.
LEMMA FraudOfWithFraud ==
  ASSUME NEW e, NEW fm
  PROVE  WithFraud(e, fm).fraud = fm
BY Zenon DEF WithFraud

\* A submission and a response leave the other challenges active.
LEMMA SubmitKeeps ==
  ASSUME NEW fm, NEW q
  PROVE  DOMAIN fm.active \subseteq DOMAIN SubmitFraudProof(fm, q).active
<1>1. DOMAIN SubmitFraudProof(fm, q).active = DOMAIN fm.active \cup {q}
  BY Zenon DEF SubmitFraudProof, Put
<1> QED BY <1>1, Zenon

LEMMA ResponseKeeps ==
  ASSUME NEW fm, NEW q, NEW countered
  PROVE  DOMAIN fm.active \subseteq DOMAIN SubmitResponse(fm, q, countered).active
<1>1. DOMAIN SubmitResponse(fm, q, countered).active = DOMAIN fm.active \cup {q}
  BY Zenon DEF SubmitResponse, Put
<1> QED BY <1>1, Zenon

\* A pass over the challenges ends each of them with a verdict, keeps it, or loses
\* one with malformed evidence.
LEMMA PassLosesOnlyFaulty ==
  ASSUME NEW fm, NEW h, NEW o \in Outcomes(fm, h), NEW p \in DOMAIN fm.active
  PROVE  LET n == ProcessChallenges(fm, h, o)
         IN  \/ p \in DOMAIN n.active
             \/ p \in DOMAIN n.completed
             \/ p.evidence = "malformed"
<1> DEFINE n == ProcessChallenges(fm, h, o)
<1>1. /\ DOMAIN n.active = DOMAIN fm.active \ (o.done \cup o.lost)
      /\ DOMAIN n.completed = DOMAIN fm.completed \cup o.done
  BY Zenon DEF ProcessChallenges, Without
<1>2. o.lost \subseteq Faulty(fm, h)
  <2>1. CASE Faulty(fm, h) = {}
    BY <2>1 DEF Outcomes
  <2>2. CASE Faulty(fm, h) # {}
    BY <2>2, Zenon DEF Outcomes
  <2> QED BY <2>1, <2>2, Zenon
<1>3. \A q \in Faulty(fm, h) : q.evidence = "malformed"
  BY Zenon DEF Faulty
<1> QED BY <1>1, <1>2, <1>3, Zenon

\* fraud_proofs.rs and blockchain.rs: apart from a new registration of its
\* sidechain and malformed evidence of its own, nothing makes a challenge vanish.
THEOREM ChallengesAreKept == SideSpec => OnlyFaultyIsLost
<1> DEFINE Kept(c, p) ==
      \/ p \in DOMAIN engines'[c].fraud.active
      \/ p \in DOMAIN engines'[c].fraud.completed
      \/ p.evidence = "malformed"
      \/ \E f \in Federations, h \in Heights : RegisterSidechain(c, f, h)
<1>1. [SideNext]_sideVars =>
        (\A c \in DOMAIN engines : \A p \in DOMAIN engines[c].fraud.active : Kept(c, p))
  <2> SUFFICES ASSUME [SideNext]_sideVars, NEW d \in DOMAIN engines,
                      NEW p \in DOMAIN engines[d].fraud.active
               PROVE  Kept(d, p)
    BY Zenon
  <2>1. ASSUME NEW c \in Sidechains, NEW f \in Federations, NEW h \in Heights,
               RegisterSidechain(c, f, h)
        PROVE  Kept(d, p)
    <3>1. CASE c = d
      BY <2>1, <3>1, Zenon
    <3>2. CASE c # d
      <4>1. engines'[d] = engines[d]
        BY <2>1, <3>2, Zenon DEF RegisterSidechain, Put
      <4> QED BY <4>1, Zenon
    <3> QED BY <3>1, <3>2, Zenon
  <2>2. ASSUME NEW c \in Sidechains, NEW b \in SideBlocks, ProcessSidechainBlock(c, b)
        PROVE  Kept(d, p)
    <3>1. engines'[d].fraud = engines[d].fraud
      BY <2>2, Zenon DEF ProcessSidechainBlock, Put
    <3> QED BY <3>1, Zenon
  <2>3. ASSUME NEW c \in Sidechains, NEW hdr \in Trustworthy, AddTrustedHeader(c, hdr)
        PROVE  Kept(d, p)
    <3>1. engines'[d].fraud = engines[d].fraud
      BY <2>3, Zenon DEF AddTrustedHeader, Put
    <3> QED BY <3>1
  <2>4. ASSUME NEW c \in Sidechains, ChallengeStep(c)
        PROVE  Kept(d, p)
    <3>1. \/ engines'[d] = engines[d]
          \/ \E q : engines'[d] = WithFraud(engines[d], SubmitFraudProof(engines[d].fraud, q))
          \/ \E q, countered :
               engines'[d] = WithFraud(engines[d], SubmitResponse(engines[d].fraud, q, countered))
      BY <2>4, Zenon DEF ChallengeStep, Put
    <3>2. ASSUME NEW q, engines'[d] = WithFraud(engines[d], SubmitFraudProof(engines[d].fraud, q))
          PROVE  p \in DOMAIN engines'[d].fraud.active
      BY <3>2, FraudOfWithFraud, SubmitKeeps
    <3>3. ASSUME NEW q, NEW countered,
                 engines'[d] = WithFraud(engines[d], SubmitResponse(engines[d].fraud, q, countered))
          PROVE  p \in DOMAIN engines'[d].fraud.active
      BY <3>3, FraudOfWithFraud, ResponseKeeps
    <3>4. p \in DOMAIN engines'[d].fraud.active
      BY <3>1, <3>2, <3>3, Zenon
    <3> QED BY <3>4, Zenon
  <2>5. ASSUME NEW hdr \in Headers, MainchainStep(hdr)
        PROVE  Kept(d, p)
    <3>1. CASE engines'[d] = engines[d]
      BY <3>1, Zenon
    <3>2. ASSUME NEW o \in Outcomes(engines[d].fraud, hdr.height),
                 engines'[d] = ProcessMainchainBlock(engines[d], hdr, o)
          PROVE  Kept(d, p)
      <4>1. engines'[d].fraud = ProcessChallenges(engines[d].fraud, hdr.height, o)
        BY <3>2 DEF ProcessMainchainBlock
      <4> QED BY <4>1, PassLosesOnlyFaulty, Zenon
    <3> QED BY <2>5, <3>1, <3>2, Zenon DEF MainchainStep
  <2>6. CASE engines' = engines
    BY <2>6, Zenon
  <2> HIDE DEF Kept
  <2> QED BY <2>1, <2>2, <2>3, <2>4, <2>5, <2>6, EnginesChange, Zenon
<1> QED BY <1>1, PTL DEF SideSpec, OnlyFaultyIsLost

-----------------------------------------------------------------------------
(* The accounts of the challenges.                                         *)

\* The cardinalities of disjoint finite sets add up.
LEMMA DisjointUnion ==
  ASSUME NEW S, NEW T, IsFiniteSet(S), IsFiniteSet(T), S \cap T = {}
  PROVE  /\ IsFiniteSet(S \cup T)
         /\ Cardinality(S \cup T) = Cardinality(S) + Cardinality(T)
<1>1. Cardinality(S) \in Nat /\ Cardinality(T) \in Nat
  BY FS_CardinalityType, Zenon
<1>2. /\ IsFiniteSet(S \cup T)
      /\ Cardinality(S \cup T) = Cardinality(S) + Cardinality(T) - Cardinality(S \cap T)
  BY FS_Union, Zenon
<1> QED BY <1>1, <1>2, FS_EmptySet

\* AccountsBalance of one manager, with the types that make it inductive.
Balanced(fm) ==
  /\ IsFiniteSet(DOMAIN fm.active) /\ IsFiniteSet(DOMAIN fm.completed)
  /\ fm.stats.total \in Nat /\ fm.stats.proven \in Nat
  /\ fm.stats.disproven \in Nat /\ fm.stats.timedOut \in Nat
  /\ Cardinality(DOMAIN fm.active) + fm.stats.proven + fm.stats.disproven + fm.stats.timedOut
       <= fm.stats.total
  /\ Cardinality(DOMAIN fm.completed)
       <= fm.stats.proven + fm.stats.disproven + fm.stats.timedOut
  /\ fm.stats.penalties = fm.stats.proven
  /\ fm.stats.rewards = FraudProofReward * fm.stats.proven

\* An engine starts with balanced accounts.
LEMMA NewIsBalanced == Balanced(NewFraudManager)
<1>1. /\ DOMAIN NewFraudManager.active = {} /\ DOMAIN NewFraudManager.completed = {}
      /\ NewFraudManager.stats = [total |-> 0, proven |-> 0, disproven |-> 0, timedOut |-> 0,
                                  penalties |-> 0, rewards |-> 0]
  BY Zenon DEF NewFraudManager, EmptyMap
<1> QED BY <1>1, FS_EmptySet, FraudAssumption DEF Balanced

\* A submission counts one challenge and adds at most one.
LEMMA SubmitBalances ==
  ASSUME NEW fm, Balanced(fm), NEW p
  PROVE  Balanced(SubmitFraudProof(fm, p))
<1> DEFINE n == SubmitFraudProof(fm, p)
<1>1. DOMAIN n.active = DOMAIN fm.active \cup {p} /\ n.completed = fm.completed
  BY Zenon DEF SubmitFraudProof, Put
<1>s. /\ n.stats.total = fm.stats.total + 1 /\ n.stats.proven = fm.stats.proven
      /\ n.stats.disproven = fm.stats.disproven /\ n.stats.timedOut = fm.stats.timedOut
  BY Zenon DEF SubmitFraudProof
<1>r. n.stats.penalties = fm.stats.penalties /\ n.stats.rewards = fm.stats.rewards
  BY Zenon DEF SubmitFraudProof
<1>2. Cardinality(DOMAIN fm.active) \in Nat
  BY FS_CardinalityType, Zenon DEF Balanced
<1>3. /\ IsFiniteSet(DOMAIN n.active)
      /\ Cardinality(DOMAIN n.active) <= Cardinality(DOMAIN fm.active) + 1
  <2> DEFINE S == DOMAIN fm.active
  <2>1. IsFiniteSet(S)
    BY Zenon DEF Balanced
  <2> HIDE DEF S
  <2>2. IsFiniteSet(S \cup {p}) /\ Cardinality(S \cup {p}) \in {Cardinality(S), Cardinality(S) + 1}
    BY <2>1, FS_AddElement, Zenon
  <2>3. Cardinality(S) \in Nat
    BY <2>1, FS_CardinalityType, Zenon
  <2>4. Cardinality(S \cup {p}) <= Cardinality(S) + 1
    BY <2>2, <2>3
  <2> QED BY <1>1, <2>2, <2>4, Zenon DEF S
<1>4. Cardinality(DOMAIN n.active) \in Nat
  BY <1>3, FS_CardinalityType, Zenon
<1> HIDE DEF n
<1>5. /\ fm.stats.total \in Nat /\ fm.stats.proven \in Nat
      /\ fm.stats.disproven \in Nat /\ fm.stats.timedOut \in Nat
      /\ Cardinality(DOMAIN fm.active)
           + fm.stats.proven + fm.stats.disproven + fm.stats.timedOut <= fm.stats.total
  BY Zenon DEF Balanced
<1>6. /\ n.stats.total \in Nat
      /\ Cardinality(DOMAIN n.active)
           + n.stats.proven + n.stats.disproven + n.stats.timedOut <= n.stats.total
  <2> DEFINE a == Cardinality(DOMAIN fm.active)
             b == Cardinality(DOMAIN n.active)
             x == fm.stats.proven
             y == fm.stats.disproven
             z == fm.stats.timedOut
             t == fm.stats.total
  <2>1. /\ a \in Nat /\ b \in Nat /\ x \in Nat /\ y \in Nat /\ z \in Nat /\ t \in Nat
        /\ b <= a + 1 /\ a + x + y + z <= t
    BY <1>2, <1>3, <1>4, <1>5, Zenon
  <2> HIDE DEF a, b, x, y, z, t
  <2>2. t + 1 \in Nat /\ b + x + y + z <= t + 1
    BY <2>1
  <2> QED BY <1>s, <2>2, Zenon DEF b, x, y, z, t
<1>7. Balanced(n)
  BY <1>1, <1>3, <1>5, <1>6, <1>s, <1>r, Zenon DEF Balanced
<1> QED BY <1>7, Zenon DEF n

\* A response changes neither the counters nor which challenges are active.
LEMMA ResponseBalances ==
  ASSUME NEW fm, Balanced(fm), NEW p \in DOMAIN fm.active, NEW countered
  PROVE  Balanced(SubmitResponse(fm, p, countered))
<1> DEFINE n == SubmitResponse(fm, p, countered)
<1>1. DOMAIN n.active = DOMAIN fm.active /\ n.completed = fm.completed /\ n.stats = fm.stats
  BY Zenon DEF SubmitResponse, Put
<1> HIDE DEF n
<1>2. Balanced(n)
  BY <1>1, Zenon DEF Balanced
<1> QED BY <1>2, Zenon DEF n

\* Every challenge of a pass gets exactly one of the three verdicts.
LEMMA VerdictsPartition ==
  ASSUME NEW fm, NEW h, NEW done, IsFiniteSet(done)
  PROVE  /\ Cardinality(Ended(fm, h, done, "Proven")) \in Nat
         /\ Cardinality(Ended(fm, h, done, "Disproven")) \in Nat
         /\ Cardinality(Ended(fm, h, done, "TimedOut")) \in Nat
         /\ Cardinality(done) = Cardinality(Ended(fm, h, done, "Proven"))
                                 + Cardinality(Ended(fm, h, done, "Disproven"))
                                 + Cardinality(Ended(fm, h, done, "TimedOut"))
<1> DEFINE P == Ended(fm, h, done, "Proven")
           D == Ended(fm, h, done, "Disproven")
           T == Ended(fm, h, done, "TimedOut")
<1>1. IsFiniteSet(P) /\ IsFiniteSet(D) /\ IsFiniteSet(T)
  <2>1. P \in SUBSET done /\ D \in SUBSET done /\ T \in SUBSET done
    BY Zenon DEF Ended
  <2> HIDE DEF P, D, T
  <2> QED BY <2>1, FS_Subset, Zenon
<1>2. P \cap D = {} /\ (P \cup D) \cap T = {}
  BY Zenon DEF Ended
<1>3. done = (P \cup D) \cup T
  <2>1. \A p : Verdict(fm, p, h) \in {"Proven", "Disproven", "TimedOut"}
    BY Zenon DEF Verdict
  <2> QED BY <2>1, Zenon DEF Ended
<1> HIDE DEF P, D, T
<1>4. /\ Cardinality(P) \in Nat /\ Cardinality(D) \in Nat /\ Cardinality(T) \in Nat
  BY <1>1, FS_CardinalityType, Zenon
<1>5. IsFiniteSet(P \cup D) /\ Cardinality(P \cup D) = Cardinality(P) + Cardinality(D)
  BY <1>1, <1>2, DisjointUnion, Zenon
<1>6. Cardinality(done) = Cardinality(P \cup D) + Cardinality(T)
  BY <1>1, <1>2, <1>3, <1>5, DisjointUnion, Zenon
<1>7. Cardinality(done) = Cardinality(P) + Cardinality(D) + Cardinality(T)
  BY <1>4, <1>5, <1>6, Zenon
<1> QED BY <1>4, <1>7, Zenon DEF P, D, T

\* A pass books one verdict, penalty and reward for each challenge it ends.
LEMMA PassBalances ==
  ASSUME NEW fm, Balanced(fm), NEW h, NEW o \in Outcomes(fm, h)
  PROVE  Balanced(ProcessChallenges(fm, h, o))
<1> DEFINE n == ProcessChallenges(fm, h, o)
           P == Cardinality(Ended(fm, h, o.done, "Proven"))
           D == Cardinality(Ended(fm, h, o.done, "Disproven"))
           T == Cardinality(Ended(fm, h, o.done, "TimedOut"))
           A == DOMAIN fm.active
           C == DOMAIN fm.completed
           U == DOMAIN n.active
           V == DOMAIN n.completed
           done == o.done
<1>1. done \subseteq A
  <2>1. CASE Faulty(fm, h) = {}
    BY <2>1 DEF Outcomes
  <2>2. CASE Faulty(fm, h) # {}
    BY <2>2, Zenon DEF Outcomes
  <2> QED BY <2>1, <2>2, Zenon
<1>2. /\ U \subseteq A \ done /\ V = C \cup done
      /\ n.stats.total = fm.stats.total /\ n.stats.proven = fm.stats.proven + P
      /\ n.stats.disproven = fm.stats.disproven + D /\ n.stats.timedOut = fm.stats.timedOut + T
      /\ n.stats.penalties = fm.stats.penalties + P
  BY Zenon DEF ProcessChallenges, Booked, Without
<1>r. n.stats.rewards = fm.stats.rewards + FraudProofReward * P
  BY Zenon DEF ProcessChallenges, Booked
<1>3. IsFiniteSet(A) /\ IsFiniteSet(C)
  BY Zenon DEF Balanced
<1>4. IsFiniteSet(done)
  BY <1>1, <1>3, FS_Subset, Zenon
<1>5. P \in Nat /\ D \in Nat /\ T \in Nat /\ Cardinality(done) = P + D + T
  BY <1>4, VerdictsPartition, Zenon
<1> HIDE DEF n, P, D, T, A, C, U, V, done
<1>6. /\ IsFiniteSet(U) /\ Cardinality(U) \in Nat
      /\ Cardinality(U) + Cardinality(done) <= Cardinality(A)
  <2>1. U \subseteq A /\ U \cap done = {} /\ U \cup done \subseteq A
    BY <1>1, <1>2, Zenon
  <2>2. IsFiniteSet(U) /\ Cardinality(U) \in Nat
    BY <1>3, <2>1, FS_Subset, FS_CardinalityType, Zenon
  <2>3. Cardinality(U \cup done) = Cardinality(U) + Cardinality(done)
    BY <1>4, <2>1, <2>2, DisjointUnion, Zenon
  <2>4. Cardinality(U \cup done) <= Cardinality(A)
    BY <1>3, <2>1, FS_Subset, Zenon
  <2> QED BY <2>2, <2>3, <2>4, Zenon
<1>7. /\ IsFiniteSet(V) /\ Cardinality(V) \in Nat
      /\ Cardinality(V) <= Cardinality(C) + Cardinality(done)
  <2>1. /\ IsFiniteSet(C \cup done)
        /\ Cardinality(C \cup done) = Cardinality(C) + Cardinality(done) - Cardinality(C \cap done)
    BY <1>3, <1>4, FS_Union, Zenon
  <2>2. Cardinality(C) \in Nat /\ Cardinality(done) \in Nat /\ Cardinality(C \cap done) \in Nat
    BY <1>3, <1>4, FS_CardinalityType, FS_Intersection, Zenon
  <2>3. IsFiniteSet(V) /\ Cardinality(V) = Cardinality(C) + Cardinality(done) - Cardinality(C \cap done)
    BY <1>2, <2>1, Zenon
  <2>4. Cardinality(V) \in Nat
    BY <2>3, FS_CardinalityType, Zenon
  <2> QED BY <2>2, <2>3, <2>4
<1>8. Cardinality(A) \in Nat /\ Cardinality(C) \in Nat
  BY <1>3, FS_CardinalityType, Zenon
<1>9. /\ fm.stats.total \in Nat /\ fm.stats.proven \in Nat
      /\ fm.stats.disproven \in Nat /\ fm.stats.timedOut \in Nat
      /\ Cardinality(A) + fm.stats.proven + fm.stats.disproven + fm.stats.timedOut <= fm.stats.total
      /\ Cardinality(C) <= fm.stats.proven + fm.stats.disproven + fm.stats.timedOut
      /\ fm.stats.penalties = fm.stats.proven
  BY Zenon DEF Balanced, A, C
<1>s. /\ n.stats.total = fm.stats.total /\ n.stats.proven = fm.stats.proven + P
      /\ n.stats.disproven = fm.stats.disproven + D /\ n.stats.timedOut = fm.stats.timedOut + T
      /\ n.stats.penalties = n.stats.proven
  BY <1>2, <1>9, Zenon
<1>10. /\ n.stats.total \in Nat /\ n.stats.proven \in Nat
       /\ n.stats.disproven \in Nat /\ n.stats.timedOut \in Nat
       /\ Cardinality(U) + n.stats.proven + n.stats.disproven + n.stats.timedOut <= n.stats.total
       /\ Cardinality(V) <= n.stats.proven + n.stats.disproven + n.stats.timedOut
  <2> DEFINE a == Cardinality(A)
             c == Cardinality(C)
             u == Cardinality(U)
             w == Cardinality(V)
             k == Cardinality(done)
             x == fm.stats.proven
             y == fm.stats.disproven
             z == fm.stats.timedOut
             t == fm.stats.total
  <2>1. /\ a \in Nat /\ c \in Nat /\ u \in Nat /\ w \in Nat
        /\ u + k <= a /\ w <= c + k /\ k = P + D + T
    BY <1>5, <1>6, <1>7, <1>8, Zenon
  <2>2. /\ x \in Nat /\ y \in Nat /\ z \in Nat /\ t \in Nat
        /\ a + x + y + z <= t /\ c <= x + y + z
    BY <1>9, Zenon
  <2>3. P \in Nat /\ D \in Nat /\ T \in Nat
    BY <1>5, Zenon
  <2> HIDE DEF a, c, u, w, k, x, y, z, t
  <2>4. /\ x + P \in Nat /\ y + D \in Nat /\ z + T \in Nat
        /\ u + (x + P) + (y + D) + (z + T) <= t
        /\ w <= (x + P) + (y + D) + (z + T)
    BY <2>1, <2>2, <2>3
  <2> QED BY <1>s, <2>2, <2>4, Zenon DEF u, w, x, y, z, t
<1>11. n.stats.rewards = FraudProofReward * n.stats.proven
  <2>1. fm.stats.rewards = FraudProofReward * fm.stats.proven
    BY Zenon DEF Balanced
  <2>2. n.stats.proven = fm.stats.proven + P
    BY <1>2, Zenon
  <2>3. fm.stats.proven \in Nat
    BY <1>9, Zenon
  <2> QED BY <1>r, <1>5, <2>1, <2>2, <2>3, FraudAssumption
<1>12. Balanced(n)
  BY <1>6, <1>7, <1>10, <1>11, <1>s, Zenon DEF Balanced, U, V
<1> QED BY <1>12, Zenon DEF n

\* The invariant for all engines.
AllBalanced == \A c \in DOMAIN engines : Balanced(engines[c].fraud)

\* fraud_proofs.rs: the counters of every sidechain account for its challenges, and
\* the rewards and penalties for the frauds that were proven.
THEOREM AccountsStayBalanced == SideSpec => []AccountsBalance
<1>1. SideInit => AllBalanced
  BY Zenon DEF SideInit, AllBalanced, EmptyMap
<1>2. AllBalanced /\ [SideNext]_sideVars => AllBalanced'
  <2> SUFFICES ASSUME AllBalanced, [SideNext]_sideVars, NEW d \in DOMAIN engines'
               PROVE  Balanced(engines'[d].fraud)
    BY Zenon DEF AllBalanced
  <2>1. ASSUME NEW c \in Sidechains, NEW f \in Federations, NEW h \in Heights,
               RegisterSidechain(c, f, h)
        PROVE  Balanced(engines'[d].fraud)
    <3>1. engines'[d].fraud = IF d = c THEN NewFraudManager ELSE engines[d].fraud
      BY <2>1, Zenon DEF RegisterSidechain, Put, NewEngine
    <3>2. d = c \/ d \in DOMAIN engines
      BY <2>1, Zenon DEF RegisterSidechain, Put
    <3> QED BY <3>1, <3>2, NewIsBalanced, Zenon DEF AllBalanced
  <2>2. ASSUME NEW c \in Sidechains, NEW b \in SideBlocks, ProcessSidechainBlock(c, b)
        PROVE  Balanced(engines'[d].fraud)
    <3>1. d \in DOMAIN engines /\ engines'[d].fraud = engines[d].fraud
      BY <2>2, Zenon DEF ProcessSidechainBlock, Validated, Put
    <3> QED BY <3>1, Zenon DEF AllBalanced
  <2>3. ASSUME NEW c \in Sidechains, NEW hdr \in Trustworthy, AddTrustedHeader(c, hdr)
        PROVE  Balanced(engines'[d].fraud)
    <3>1. d \in DOMAIN engines /\ engines'[d].fraud = engines[d].fraud
      BY <2>3, Zenon DEF AddTrustedHeader, Put
    <3> QED BY <3>1 DEF AllBalanced
  <2>4. ASSUME NEW c \in Sidechains, ChallengeStep(c)
        PROVE  Balanced(engines'[d].fraud)
    <3>1. PICK p :
            \/ engines' = Put(engines, c,
                             WithFraud(engines[c], SubmitFraudProof(engines[c].fraud, p)))
            \/ \E countered :
                 /\ p \in DOMAIN engines[c].fraud.active
                 /\ engines' = Put(engines, c,
                      WithFraud(engines[c], SubmitResponse(engines[c].fraud, p, countered)))
      BY <2>4, Zenon DEF ChallengeStep, CanRespond
    <3>2. c \in DOMAIN engines /\ Balanced(engines[c].fraud)
      BY <2>4, Zenon DEF ChallengeStep, AllBalanced
    <3>3. d \in DOMAIN engines
      BY <3>1, <3>2, Zenon DEF Put
    <3>4. CASE d # c
      <4>1. engines'[d] = engines[d]
        BY <3>1, <3>3, <3>4, Zenon DEF Put
      <4> QED BY <3>3, <4>1, Zenon DEF AllBalanced
    <3>5. CASE d = c
      <4>1. \/ engines'[d].fraud = SubmitFraudProof(engines[c].fraud, p)
            \/ \E countered : /\ p \in DOMAIN engines[c].fraud.active
                              /\ engines'[d].fraud = SubmitResponse(engines[c].fraud, p, countered)
        <5>1. ASSUME NEW e, engines' = Put(engines, c, e)
              PROVE  engines'[d] = e
          BY <3>5, <5>1, Zenon DEF Put
        <5> QED BY <3>1, <5>1, FraudOfWithFraud
      <4> QED BY <3>2, <4>1, SubmitBalances, ResponseBalances, Zenon
    <3> QED BY <3>4, <3>5, Zenon
  <2>5. ASSUME NEW hdr \in Headers, MainchainStep(hdr)
        PROVE  Balanced(engines'[d].fraud)
    <3>1. d \in DOMAIN engines /\ Balanced(engines[d].fraud)
      BY <2>5, Zenon DEF MainchainStep, AllBalanced
    <3>2. \/ engines'[d].fraud = engines[d].fraud
          \/ \E o \in Outcomes(engines[d].fraud, hdr.height) :
               engines'[d].fraud = ProcessChallenges(engines[d].fraud, hdr.height, o)
      <4>1. ASSUME NEW o
            PROVE  ProcessMainchainBlock(engines[d], hdr, o).fraud
                     = ProcessChallenges(engines[d].fraud, hdr.height, o)
        BY Zenon DEF ProcessMainchainBlock
      <4> QED BY <2>5, <3>1, <4>1, Zenon DEF MainchainStep
    <3> QED BY <3>1, <3>2, PassBalances, Zenon
  <2>6. CASE engines' = engines
    BY <2>6, Zenon DEF AllBalanced
  <2> QED BY <2>1, <2>2, <2>3, <2>4, <2>5, <2>6, EnginesChange, Zenon
<1>3. AllBalanced => AccountsBalance
  <2> SUFFICES ASSUME AllBalanced, NEW c \in DOMAIN engines
               PROVE  LET fm == engines[c].fraud
                          verdicts == fm.stats.proven + fm.stats.disproven + fm.stats.timedOut
                      IN  /\ Cardinality(DOMAIN fm.active) + verdicts <= fm.stats.total
                          /\ Cardinality(DOMAIN fm.completed) <= verdicts
                          /\ fm.stats.penalties = fm.stats.proven
                          /\ fm.stats.rewards = FraudProofReward * fm.stats.proven
    BY Zenon DEF AccountsBalance
  <2> DEFINE fm == engines[c].fraud
  <2>1. Balanced(fm)
    BY Zenon DEF AllBalanced
  <2>2. Cardinality(DOMAIN fm.active) \in Nat
    BY <2>1, FS_CardinalityType, Zenon DEF Balanced
  <2> HIDE DEF fm
  <2>3. /\ fm.stats.total \in Nat /\ fm.stats.proven \in Nat
        /\ fm.stats.disproven \in Nat /\ fm.stats.timedOut \in Nat
        /\ Cardinality(DOMAIN fm.active)
             + fm.stats.proven + fm.stats.disproven + fm.stats.timedOut <= fm.stats.total
        /\ Cardinality(DOMAIN fm.completed)
             <= fm.stats.proven + fm.stats.disproven + fm.stats.timedOut
    BY <2>1, Zenon DEF Balanced
  <2>4. fm.stats.penalties = fm.stats.proven /\ fm.stats.rewards = FraudProofReward * fm.stats.proven
    BY <2>1, Zenon DEF Balanced
  <2>5. Cardinality(DOMAIN fm.active) + (fm.stats.proven + fm.stats.disproven + fm.stats.timedOut)
          <= fm.stats.total
    <3> DEFINE a == Cardinality(DOMAIN fm.active)
               x == fm.stats.proven
               y == fm.stats.disproven
               z == fm.stats.timedOut
               t == fm.stats.total
    <3>1. /\ a \in Nat /\ x \in Nat /\ y \in Nat /\ z \in Nat /\ t \in Nat
          /\ a + x + y + z <= t
      BY <2>2, <2>3, Zenon
    <3> HIDE DEF a, x, y, z, t
    <3>2. a + (x + y + z) <= t
      BY <3>1
    <3> QED BY <3>2, Zenon DEF a, x, y, z, t
  <2> QED BY <2>3, <2>4, <2>5, Zenon DEF fm
<1> QED BY <1>1, <1>2, <1>3, PTL DEF SideSpec

-----------------------------------------------------------------------------
(* The peg.  PegHasOneRecord is inductive.                                 *)

LEMMA PegStep ==
  ASSUME PegHasOneRecord, [PegNext]_pegVars
  PROVE  PegHasOneRecord'
<1>1. ASSUME NEW r \in PegRequests, NEW id \in PegIds, InitiatePegIn(r, id) \/ InitiatePegOut(r, id)
      PROVE  PegHasOneRecord'
  BY <1>1 DEF PegHasOneRecord, InitiatePegIn, InitiatePegOut, Fresh, Put, PegTransaction
<1>2. ASSUME NEW r \in PegRequests, NEW id \in PegIds, NEW h \in Heights,
             HandlePegOutTransaction(r, id, h)
      PROVE  PegHasOneRecord'
  <2> DEFINE all  == Put(pending_transactions, id, PegTransaction(r, "Pending"))
             deep == {i \in DOMAIN all : Confirmed(all[i], h)}
  <2>1. /\ pending_transactions' = Without(all, deep)
        /\ completed_transactions' =
             [i \in DOMAIN completed_transactions \cup deep |->
                IF i \in deep THEN WithPegStatus(all[i], "Completed")
                              ELSE completed_transactions[i]]
        /\ Fresh(id)
    BY <1>2, Zenon DEF HandlePegOutTransaction
  <2>2. \A i \in DOMAIN all : all[i].status = "Pending" /\ i \notin DOMAIN completed_transactions
    BY <2>1, Zenon DEF PegHasOneRecord, Put, PegTransaction, Fresh
  <2>3. deep \subseteq DOMAIN all
    BY Zenon
  <2> HIDE DEF all, deep
  <2>4. DOMAIN pending_transactions' = DOMAIN all \ deep
    BY <2>1, Zenon DEF Without
  <2>5. DOMAIN completed_transactions' = DOMAIN completed_transactions \cup deep
    BY <2>1, Zenon
  <2>6. DOMAIN pending_transactions' \cap DOMAIN completed_transactions' = {}
    BY <2>2, <2>4, <2>5, Zenon
  <2>7. \A i \in DOMAIN pending_transactions' : pending_transactions'[i].status = "Pending"
    BY <2>1, <2>2, <2>4, Zenon DEF Without
  <2>8. \A i \in DOMAIN completed_transactions' :
          completed_transactions'[i].status \in {"Confirmed", "Completed"}
    BY <2>1, <2>5, Zenon DEF PegHasOneRecord, WithPegStatus
  <2> QED BY <2>6, <2>7, <2>8, Zenon DEF PegHasOneRecord
<1>3. ASSUME NEW id \in PegIds, NEW h \in Heights, ConfirmPegTransaction(id, h)
      PROVE  PegHasOneRecord'
  BY <1>3, Zenon DEF PegHasOneRecord, ConfirmPegTransaction, Put, Without, WithPegStatus
<1>4. ASSUME NEW id \in PegIds, CompletePegTransaction(id)
      PROVE  PegHasOneRecord'
  BY <1>4, Zenon DEF PegHasOneRecord, CompletePegTransaction, Put, WithPegStatus
<1>5. CASE UNCHANGED <<pending_transactions, completed_transactions>>
  BY <1>5, Zenon DEF PegHasOneRecord
<1> QED BY <1>1, <1>2, <1>3, <1>4, <1>5, Zenon DEF PegNext, pegVars

\* two_way_peg.rs: however initiations, outside confirmations and the loop of
\* handle_peg_out_transaction alternate, a peg is in one of the two maps.
THEOREM PegsHaveOneRecord == PegSpec => []PegHasOneRecord
<1>1. PegInit => PegHasOneRecord
  BY Zenon DEF PegInit, PegHasOneRecord, EmptyMap
<1> QED BY <1>1, PegStep, PTL DEF PegSpec

\* The records have the fields of a peg.
IsPeg(t) == t = WithPegStatus(t, t.status)
PegRecords ==
  /\ \A id \in DOMAIN pending_transactions : IsPeg(pending_transactions[id])
  /\ \A id \in DOMAIN completed_transactions : IsPeg(completed_transactions[id])

LEMMA PegShapes ==
  ASSUME NEW t, NEW r, NEW s
  PROVE  /\ IsPeg(PegTransaction(r, s)) /\ IsPeg(WithPegStatus(t, s))
         /\ PegTransaction(r, s).status = s /\ WithPegStatus(t, s).status = s
BY Zenon DEF IsPeg, PegTransaction, WithPegStatus

\* What a step does to the peg id that has a record.
PegKept(id) ==
  /\ id \in DOMAIN pending_transactions' \cup DOMAIN completed_transactions'
  /\ LET t == RecordOf(pending_transactions, completed_transactions, id)
         u == RecordOf(pending_transactions', completed_transactions', id)
     IN  /\ u = WithPegStatus(t, u.status)
         /\ Rank(u.status) >= Rank(t.status)

\* The cases of PegKept: nothing changes, a pending peg is confirmed or
\* completed, a confirmed or completed one is completed.
LEMMA PegStays ==
  ASSUME PegHasOneRecord, PegRecords,
         NEW id \in DOMAIN pending_transactions \cup DOMAIN completed_transactions,
         \/ /\ id \in DOMAIN pending_transactions
            /\ id \in DOMAIN pending_transactions'
            /\ pending_transactions'[id] = pending_transactions[id]
         \/ /\ id \in DOMAIN completed_transactions
            /\ id \in DOMAIN completed_transactions'
            /\ id \notin DOMAIN pending_transactions'
            /\ completed_transactions'[id] = completed_transactions[id]
  PROVE  PegKept(id)
<1> DEFINE t == RecordOf(pending_transactions, completed_transactions, id)
           u == RecordOf(pending_transactions', completed_transactions', id)
<1>1. t = u /\ IsPeg(t)
  BY Zenon DEF RecordOf, PegHasOneRecord, PegRecords
<1>2. Rank(t.status) \in Nat
  BY Zenon DEF Rank
<1> HIDE DEF t, u
<1>3. u = WithPegStatus(t, u.status) /\ Rank(u.status) >= Rank(t.status)
  BY <1>1, <1>2 DEF IsPeg
<1> QED BY <1>3, Zenon DEF t, u, PegKept

LEMMA PegAdvances ==
  ASSUME PegHasOneRecord,
         NEW id \in DOMAIN pending_transactions \cup DOMAIN completed_transactions,
         id \in DOMAIN completed_transactions', id \notin DOMAIN pending_transactions',
         NEW s \in {"Confirmed", "Completed"},
         id \in DOMAIN pending_transactions \/ s = "Completed",
         completed_transactions'[id] =
           WithPegStatus(RecordOf(pending_transactions, completed_transactions, id), s)
  PROVE  PegKept(id)
<1> DEFINE t == RecordOf(pending_transactions, completed_transactions, id)
           u == RecordOf(pending_transactions', completed_transactions', id)
<1>1. u = WithPegStatus(t, s)
  BY Zenon DEF RecordOf
<1>2. u.status = s
  BY <1>1, PegShapes
<1>3. id \in DOMAIN pending_transactions => t.status = "Pending"
  BY Zenon DEF PegHasOneRecord, RecordOf
<1> HIDE DEF t, u
<1>4. Rank(u.status) >= Rank(t.status)
  <2>1. Rank("Pending") = 1 /\ Rank("Completed") = 3 /\ Rank(s) \in {2, 3}
    BY Zenon DEF Rank
  <2>2. Rank(t.status) \in 1 .. 3
    BY DEF Rank
  <2> QED BY <1>2, <1>3, <2>1, <2>2
<1> QED BY <1>1, <1>2, <1>4, Zenon DEF t, u, PegKept

LEMMA PegStepKeeps ==
  ASSUME PegHasOneRecord, PegRecords, PegNext
  PROVE  /\ PegRecords'
         /\ \A id \in DOMAIN pending_transactions \cup DOMAIN completed_transactions : PegKept(id)
<1> DEFINE Old == DOMAIN pending_transactions \cup DOMAIN completed_transactions
           Goal == PegRecords' /\ \A i \in Old : PegKept(i)
<1>1. ASSUME NEW r \in PegRequests, NEW id \in PegIds, InitiatePegIn(r, id) \/ InitiatePegOut(r, id)
      PROVE  Goal
  <2>1. /\ pending_transactions' = Put(pending_transactions, id, PegTransaction(r, "Pending"))
        /\ completed_transactions' = completed_transactions /\ Fresh(id)
    BY <1>1, Zenon DEF InitiatePegIn, InitiatePegOut
  <2>2. PegRecords'
    BY <2>1, PegShapes, Zenon DEF PegRecords, Put
  <2>3. ASSUME NEW i \in Old
        PROVE  PegKept(i)
    <3>1. CASE i \in DOMAIN pending_transactions
      <4>1. i \in DOMAIN pending_transactions' /\ pending_transactions'[i] = pending_transactions[i]
        BY <2>1, <3>1, Zenon DEF Put, Fresh
      <4> QED BY <3>1, <4>1, PegStays, Zenon
    <3>2. CASE i \in DOMAIN completed_transactions
      <4>1. i \notin DOMAIN pending_transactions'
        BY <2>1, <3>2, Zenon DEF Put, Fresh, PegHasOneRecord
      <4> QED BY <2>1, <3>2, <4>1, PegStays, Zenon
    <3> QED BY <3>1, <3>2, Zenon
  <2> QED BY <2>2, <2>3, Zenon
<1>2. ASSUME NEW r \in PegRequests, NEW id \in PegIds, NEW h \in Heights,
             HandlePegOutTransaction(r, id, h)
      PROVE  Goal
  <2> DEFINE all  == Put(pending_transactions, id, PegTransaction(r, "Pending"))
             deep == {i \in DOMAIN all : Confirmed(all[i], h)}
  <2>1. /\ pending_transactions' = Without(all, deep)
        /\ completed_transactions' =
             [i \in DOMAIN completed_transactions \cup deep |->
                IF i \in deep THEN WithPegStatus(all[i], "Completed")
                              ELSE completed_transactions[i]]
        /\ Fresh(id)
    BY <1>2, Zenon DEF HandlePegOutTransaction
  <2>2. /\ \A i \in DOMAIN all : IsPeg(all[i]) /\ i \notin DOMAIN completed_transactions
        /\ DOMAIN pending_transactions \subseteq DOMAIN all
        /\ \A i \in DOMAIN pending_transactions : all[i] = pending_transactions[i]
    BY <2>1, PegShapes, Zenon DEF PegHasOneRecord, PegRecords, Put, Fresh
  <2>3. deep \subseteq DOMAIN all
    BY Zenon
  <2> HIDE DEF all, deep
  <2>4. /\ DOMAIN pending_transactions' = DOMAIN all \ deep
        /\ \A i \in DOMAIN all \ deep : pending_transactions'[i] = all[i]
        /\ DOMAIN completed_transactions' = DOMAIN completed_transactions \cup deep
        /\ \A i \in deep : completed_transactions'[i] = WithPegStatus(all[i], "Completed")
        /\ \A i \in DOMAIN completed_transactions \ deep :
             completed_transactions'[i] = completed_transactions[i]
    BY <2>1, Zenon DEF Without
  <2>5. PegRecords'
    BY <2>2, <2>4, PegShapes DEF PegRecords
  <2>6. ASSUME NEW i \in Old
        PROVE  PegKept(i)
    <3>1. CASE i \in DOMAIN pending_transactions /\ i \notin deep
      BY <2>2, <2>4, <3>1, PegStays, Zenon
    <3>2. CASE i \in deep
      <4>1. i \in DOMAIN pending_transactions /\ all[i] = pending_transactions[i]
        BY <2>2, <2>3, <3>2, Zenon
      <4>2. completed_transactions'[i] =
              WithPegStatus(RecordOf(pending_transactions, completed_transactions, i), "Completed")
        BY <2>4, <3>2, <4>1 DEF RecordOf
      <4> QED BY <2>4, <3>2, <4>1, <4>2, PegAdvances, Zenon
    <3>3. CASE i \in DOMAIN completed_transactions
      <4>1. i \notin DOMAIN all /\ i \notin deep
        BY <2>2, <2>3, <3>3, Zenon
      <4> QED BY <2>4, <3>3, <4>1, PegStays, Zenon
    <3> QED BY <3>1, <3>2, <3>3, Zenon
  <2> QED BY <2>5, <2>6, Zenon
<1>3. ASSUME NEW id \in PegIds, NEW h \in Heights, ConfirmPegTransaction(id, h)
      PROVE  Goal
  <2>1. /\ id \in DOMAIN pending_transactions
        /\ completed_transactions' =
             Put(completed_transactions, id, WithPegStatus(pending_transactions[id], "Confirmed"))
        /\ pending_transactions' = Without(pending_transactions, {id})
    BY <1>3, Zenon DEF ConfirmPegTransaction
  <2>2. PegRecords'
    BY <2>1, PegShapes, Zenon DEF PegRecords, Put, Without
  <2>3. PegKept(id)
    <3>1. completed_transactions'[id] =
            WithPegStatus(RecordOf(pending_transactions, completed_transactions, id), "Confirmed")
      BY <2>1, Zenon DEF Put, RecordOf
    <3>2. id \in DOMAIN completed_transactions' /\ id \notin DOMAIN pending_transactions'
      BY <2>1, Zenon DEF Put, Without
    <3> QED BY <2>1, <3>1, <3>2, PegAdvances, Zenon
  <2>4. ASSUME NEW i \in Old, i # id
        PROVE  PegKept(i)
    <3>1. CASE i \in DOMAIN pending_transactions
      <4>1. i \in DOMAIN pending_transactions' /\ pending_transactions'[i] = pending_transactions[i]
        BY <2>1, <2>4, <3>1, Zenon DEF Without
      <4> QED BY <3>1, <4>1, PegStays
    <3>2. CASE i \in DOMAIN completed_transactions
      <4>1. /\ i \in DOMAIN completed_transactions'
            /\ completed_transactions'[i] = completed_transactions[i]
            /\ i \notin DOMAIN pending_transactions'
        BY <2>1, <2>4, <3>2, Zenon DEF Put, Without, PegHasOneRecord
      <4> QED BY <3>2, <4>1, PegStays, Zenon
    <3> QED BY <3>1, <3>2
  <2> QED BY <2>2, <2>3, <2>4, Zenon
<1>4. ASSUME NEW id \in PegIds, CompletePegTransaction(id)
      PROVE  Goal
  <2>1. /\ id \in DOMAIN completed_transactions
        /\ completed_transactions' =
             Put(completed_transactions, id, WithPegStatus(completed_transactions[id], "Completed"))
        /\ pending_transactions' = pending_transactions
    BY <1>4, Zenon DEF CompletePegTransaction
  <2>2. PegRecords'
    BY <2>1, PegShapes, Zenon DEF PegRecords, Put
  <2>3. PegKept(id)
    <3>1. id \notin DOMAIN pending_transactions
      BY <2>1, Zenon DEF PegHasOneRecord
    <3>2. completed_transactions'[id] =
            WithPegStatus(RecordOf(pending_transactions, completed_transactions, id), "Completed")
      BY <2>1, <3>1, Zenon DEF Put, RecordOf
    <3>3. id \in DOMAIN completed_transactions' /\ id \notin DOMAIN pending_transactions'
      BY <2>1, <3>1, Zenon DEF Put
    <3> QED BY <2>1, <3>2, <3>3, PegAdvances, Zenon
  <2>4. ASSUME NEW i \in Old, i # id
        PROVE  PegKept(i)
    <3>1. CASE i \in DOMAIN pending_transactions
      BY <2>1, <3>1, PegStays, Zenon
    <3>2. CASE i \in DOMAIN completed_transactions
      <4>1. /\ i \in DOMAIN completed_transactions'
            /\ completed_transactions'[i] = completed_transactions[i]
            /\ i \notin DOMAIN pending_transactions'
        BY <2>1, <2>4, <3>2, Zenon DEF Put, PegHasOneRecord
      <4> QED BY <3>2, <4>1, PegStays, Zenon
    <3> QED BY <3>1, <3>2, Zenon
  <2> QED BY <2>2, <2>3, <2>4, Zenon
<1>5. CASE UNCHANGED <<pending_transactions, completed_transactions>>
  <2>1. PegRecords'
    BY <1>5, Zenon DEF PegRecords
  <2>2. ASSUME NEW i \in Old
        PROVE  PegKept(i)
    BY <1>5, PegStays, Zenon DEF PegHasOneRecord
  <2> QED BY <2>1, <2>2, Zenon
<1> QED BY <1>1, <1>2, <1>3, <1>4, <1>5, Zenon DEF PegNext

\* two_way_peg.rs and handle_peg_out_transaction: no peg is lost or changed on its
\* way, and none falls back.
THEOREM PegsAreKept == PegSpec => PegIsKept
<1> DEFINE I == PegHasOneRecord /\ PegRecords
<1>1. PegInit => I
  BY Zenon DEF PegInit, PegHasOneRecord, PegRecords, EmptyMap
<1>2. I /\ [PegNext]_pegVars => I'
  <2>1. I /\ UNCHANGED pegVars => I'
    BY Zenon DEF PegHasOneRecord, PegRecords, pegVars
  <2> QED BY <2>1, PegStep, PegStepKeeps, Zenon
<1>3. I /\ [PegNext]_pegVars =>
        [\A id \in DOMAIN pending_transactions \cup DOMAIN completed_transactions :
           PegKept(id)]_pegVars
  BY PegStepKeeps, Zenon
<1> HIDE DEF I
<1>4. PegSpec => [][\A id \in DOMAIN pending_transactions \cup DOMAIN completed_transactions :
                     PegKept(id)]_pegVars
  BY <1>1, <1>2, <1>3, PTL DEF PegSpec
<1> QED BY <1>4, Zenon DEF PegIsKept, PegKept

-----------------------------------------------------------------------------
(* Transfers.  TransferInv strengthens CompletedIsBacked by what an active *)
(* transfer has shown on the way to its stage.                             *)

Backed(id, t) ==
  /\ id = TransferId(t.burn)
  /\ t.burn.source # t.burn.destination
  /\ t.burn.outputs = t.mint.outputs
  /\ t.mint.outputs \in MinTransferAmount .. MaxTransferAmount
  /\ t.burn.recipient \in t.mint.recipients
  /\ t.coordination \in CoordinationTxs

OnItsWay(id, t) ==
  /\ id = TransferId(t.burn) /\ ValidBurn(t.burn)
  /\ t.status \in DOMAIN Stage
  /\ t.status = "WaitingDestinationConfirmation" => t.coordination \in CoordinationTxs

TransferInv ==
  /\ \A id \in DOMAIN active_transfers : OnItsWay(id, active_transfers[id])
  /\ \A id \in DOMAIN completed_transfers :
       completed_transfers[id].status = "Completed" => Backed(id, completed_transfers[id])

LEMMA StageDomain ==
  DOMAIN Stage = {"WaitingSourceConfirmation", "WaitingMainchainCoordination",
                  "WaitingDestinationConfirmation"}
BY Zenon DEF Stage

LEMMA TransferStep ==
  ASSUME TransferInv, [TransferNext]_transferVars
  PROVE  TransferInv'
<1>1. ASSUME NEW b \in Burns, NEW now \in Times, InitiateTransfer(b, now)
      PROVE  TransferInv'
  <2>1. OnItsWay(TransferId(b), NewTransfer(b, now))
    BY <1>1, StageDomain, Zenon DEF OnItsWay, NewTransfer, InitiateTransfer
  <2> QED BY <1>1, <2>1, Zenon DEF TransferInv, InitiateTransfer, Put
<1>2. ASSUME NEW id \in DOMAIN active_transfers, NEW h \in TransferHeights,
             UpdateSourceConfirmations(id, h)
      PROVE  TransferInv'
  <2> DEFINE u == active_transfers'[id]
  <2>1. /\ u.burn = active_transfers[id].burn
        /\ u.status \in {"WaitingSourceConfirmation", "WaitingMainchainCoordination"}
    BY <1>2, Zenon DEF UpdateSourceConfirmations, Put
  <2>2. OnItsWay(id, u)
    BY <2>1, StageDomain, Zenon DEF TransferInv, OnItsWay
  <2>3. /\ DOMAIN active_transfers' = DOMAIN active_transfers
        /\ \A i \in DOMAIN active_transfers : i # id => active_transfers'[i] = active_transfers[i]
        /\ completed_transfers' = completed_transfers
    BY <1>2, Zenon DEF UpdateSourceConfirmations, Put
  <2> QED BY <2>2, <2>3, Zenon DEF TransferInv
<1>3. ASSUME NEW id \in DOMAIN active_transfers, NEW tx \in CoordinationTxs,
             SetMainchainCoordination(id, tx)
      PROVE  TransferInv'
  <2> DEFINE u == active_transfers'[id]
  <2>1. /\ u.burn = active_transfers[id].burn
        /\ u.status = "WaitingDestinationConfirmation" /\ u.coordination = tx
    BY <1>3, Zenon DEF SetMainchainCoordination, Put
  <2>2. OnItsWay(id, u)
    BY <2>1, StageDomain, Zenon DEF TransferInv, OnItsWay
  <2>3. /\ DOMAIN active_transfers' = DOMAIN active_transfers
        /\ \A i \in DOMAIN active_transfers : i # id => active_transfers'[i] = active_transfers[i]
        /\ completed_transfers' = completed_transfers
    BY <1>3, Zenon DEF SetMainchainCoordination, Put
  <2> QED BY <2>2, <2>3 DEF TransferInv
<1>4. ASSUME NEW id \in DOMAIN active_transfers, NEW m \in Mints, CompleteTransfer(id, m)
      PROVE  TransferInv'
  <2> DEFINE t == active_transfers[id]
             u == completed_transfers'[id]
  <2>1. u.burn = t.burn /\ u.coordination = t.coordination /\ u.mint = m
    BY <1>4, Zenon DEF CompleteTransfer, Put
  <2>2. OnItsWay(id, t) /\ Completable(t, m)
    BY <1>4, Zenon DEF TransferInv, CompleteTransfer
  <2>3. Backed(id, u)
    BY <2>1, <2>2, Zenon DEF Backed, OnItsWay, Completable, PaysOut, ValidBurn
  <2>4. /\ DOMAIN completed_transfers' = DOMAIN completed_transfers \cup {id}
        /\ \A i \in DOMAIN completed_transfers : i # id => completed_transfers'[i] = completed_transfers[i]
        /\ active_transfers' = Without(active_transfers, {id})
    BY <1>4, Zenon DEF CompleteTransfer, Put
  <2> QED BY <2>3, <2>4, Zenon DEF TransferInv, Without
<1>5. ASSUME NEW id \in DOMAIN active_transfers, NEW m \in Mints, CompleteTransferFails(id, m)
      PROVE  TransferInv'
  BY <1>5, Zenon DEF TransferInv, CompleteTransferFails, Without
<1>6. ASSUME NEW now \in Times, CheckTimeouts(now)
      PROVE  TransferInv'
  <2> DEFINE late == {id \in DOMAIN active_transfers : now >= active_transfers[id].timeout}
  <2>1. /\ active_transfers' = Without(active_transfers, late)
        /\ completed_transfers' =
             [id \in DOMAIN completed_transfers \cup late |->
                IF id \in late THEN WithStatus(active_transfers[id], "TimedOut")
                               ELSE completed_transfers[id]]
    BY <1>6, Zenon DEF CheckTimeouts
  <2> HIDE DEF late
  <2>2. \A id \in late : completed_transfers'[id].status = "TimedOut"
    BY <2>1, Zenon DEF WithStatus
  <2> QED BY <2>1, <2>2, Zenon DEF TransferInv, Without
<1>7. CASE UNCHANGED transferVars
  BY <1>7, Zenon DEF TransferInv, transferVars
<1> QED BY <1>1, <1>2, <1>3, <1>4, <1>5, <1>6, <1>7 DEF TransferNext

LEMMA TransferInvHolds == TransferSpec => []TransferInv
<1>1. TransferInit => TransferInv
  BY Zenon DEF TransferInit, TransferInv, EmptyMap
<1> QED BY <1>1, TransferStep, PTL DEF TransferSpec

\* inter_sidechain_transfer.rs: a completed transfer minted what was burned, for the
\* recipient named with the burn, after its coordination on the mainchain.
THEOREM CompletedTransfersAreBacked == TransferSpec => []CompletedIsBacked
<1>1. TransferInv => CompletedIsBacked
  BY Zenon DEF TransferInv, Backed, CompletedIsBacked
<1> QED BY <1>1, TransferInvHolds, PTL

\* What a step does to a transfer that stays active.
Advanced(id) ==
  LET t == active_transfers[id]
      u == active_transfers'[id]
  IN  /\ u.burn = t.burn /\ u.timeout = t.timeout
      /\ Stage[u.status] >= Stage[t.status]

LEMMA StageNumbers ==
  /\ \A s \in DOMAIN Stage : Stage[s] \in Nat
  /\ Stage["WaitingSourceConfirmation"] = 1 /\ Stage["WaitingMainchainCoordination"] = 2
  /\ Stage["WaitingDestinationConfirmation"] = 3
BY DEF Stage

\* inter_sidechain_transfer.rs: the burn, the recipient and the deadline of an active
\* transfer are fixed, and its stage never falls back.
THEOREM TransfersAdvance == TransferSpec => TransferAdvances
<1>1. ASSUME TransferInv, TransferNext,
             NEW id \in DOMAIN active_transfers \cap DOMAIN active_transfers'
      PROVE  Advanced(id)
  <2>1. Stage[active_transfers[id].status] \in Nat
    BY <1>1, StageNumbers, Zenon DEF TransferInv, OnItsWay
  <2>2. CASE active_transfers'[id] = active_transfers[id]
    BY <2>1, <2>2 DEF Advanced
  <2>3. ASSUME NEW b \in Burns, NEW now \in Times, InitiateTransfer(b, now)
        PROVE  Advanced(id)
    <3>1. active_transfers'[id] = active_transfers[id]
      BY <1>1, <2>3, Zenon DEF InitiateTransfer, Put
    <3> QED BY <2>2, <3>1, Zenon
  <2>4. ASSUME NEW i \in DOMAIN active_transfers, NEW h \in TransferHeights,
               UpdateSourceConfirmations(i, h)
        PROVE  Advanced(id)
    <3>1. CASE i = id
      <4>1. /\ active_transfers'[id].burn = active_transfers[id].burn
            /\ active_transfers'[id].timeout = active_transfers[id].timeout
            /\ active_transfers[id].status = "WaitingSourceConfirmation"
            /\ active_transfers'[id].status
                 \in {"WaitingSourceConfirmation", "WaitingMainchainCoordination"}
        BY <2>4, <3>1, Zenon DEF UpdateSourceConfirmations, Put
      <4> QED BY <4>1, StageNumbers DEF Advanced
    <3>2. CASE i # id
      <4>1. active_transfers'[id] = active_transfers[id]
        BY <1>1, <2>4, <3>2, Zenon DEF UpdateSourceConfirmations, Put
      <4> QED BY <2>2, <4>1, Zenon
    <3> QED BY <3>1, <3>2, Zenon
  <2>5. ASSUME NEW i \in DOMAIN active_transfers, NEW tx \in CoordinationTxs,
               SetMainchainCoordination(i, tx)
        PROVE  Advanced(id)
    <3>1. CASE i = id
      <4>1. /\ active_transfers'[id].burn = active_transfers[id].burn
            /\ active_transfers'[id].timeout = active_transfers[id].timeout
            /\ active_transfers[id].status = "WaitingMainchainCoordination"
            /\ active_transfers'[id].status = "WaitingDestinationConfirmation"
        BY <2>5, <3>1, Zenon DEF SetMainchainCoordination, Put
      <4> QED BY <4>1, StageNumbers DEF Advanced
    <3>2. CASE i # id
      <4>1. active_transfers'[id] = active_transfers[id]
        BY <1>1, <2>5, <3>2, Zenon DEF SetMainchainCoordination, Put
      <4> QED BY <2>2, <4>1
    <3> QED BY <3>1, <3>2
  <2>6. ASSUME NEW i \in DOMAIN active_transfers, NEW m \in Mints,
               CompleteTransfer(i, m) \/ CompleteTransferFails(i, m)
        PROVE  Advanced(id)
    <3>1. active_transfers'[id] = active_transfers[id]
      BY <1>1, <2>6, Zenon DEF CompleteTransfer, CompleteTransferFails, Without
    <3> QED BY <2>2, <3>1
  <2>7. ASSUME NEW now \in Times, CheckTimeouts(now)
        PROVE  Advanced(id)
    <3>1. active_transfers'[id] = active_transfers[id]
      BY <1>1, <2>7, Zenon DEF CheckTimeouts, Without
    <3> QED BY <2>2, <3>1, Zenon
  <2> QED BY <1>1, <2>3, <2>4, <2>5, <2>6, <2>7, Zenon DEF TransferNext
<1>2. TransferInv /\ [TransferNext]_transferVars =>
        [\A id \in DOMAIN active_transfers \cap DOMAIN active_transfers' : Advanced(id)]_transferVars
  BY <1>1, Zenon
<1>3. TransferSpec =>
        [][\A id \in DOMAIN active_transfers \cap DOMAIN active_transfers' :
             Advanced(id)]_transferVars
  BY <1>2, TransferInvHolds, PTL DEF TransferSpec
<1> QED BY <1>3, Zenon DEF TransferAdvances, Advanced

\* inter_sidechain_transfer.rs: only the end of another attempt for the same burn
\* replaces the record of a finished transfer, and nothing drops it.
THEOREM HistoryStays == TransferSpec => HistoryIsKept
<1> DEFINE Stays(id) ==
      /\ id \in DOMAIN completed_transfers'
      /\ \/ completed_transfers'[id] = completed_transfers[id]
         \/ id \in DOMAIN active_transfers \ DOMAIN active_transfers'
<1>1. ASSUME TransferNext, NEW id \in DOMAIN completed_transfers
      PROVE  Stays(id)
  <2>1. CASE completed_transfers' = completed_transfers
    BY <2>1, Zenon
  <2>2. ASSUME NEW i \in DOMAIN active_transfers, NEW m \in Mints, CompleteTransfer(i, m)
        PROVE  Stays(id)
    BY <2>2, Zenon DEF CompleteTransfer, Put, Without
  <2>3. ASSUME NEW now \in Times, CheckTimeouts(now)
        PROVE  Stays(id)
    BY <2>3, Zenon DEF CheckTimeouts, Without
  <2> QED
    BY <1>1, <2>1, <2>2, <2>3, Zenon
    DEF TransferNext, InitiateTransfer, UpdateSourceConfirmations, SetMainchainCoordination,
        CompleteTransferFails
<1>2. [TransferNext]_transferVars =>
        [\A id \in DOMAIN completed_transfers : Stays(id)]_transferVars
  BY <1>1, Zenon
<1>3. TransferSpec => [][\A id \in DOMAIN completed_transfers : Stays(id)]_transferVars
  BY <1>2, PTL DEF TransferSpec
<1> QED BY <1>3, Zenon DEF HistoryIsKept

=============================================================================
