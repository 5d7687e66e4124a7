------------------------ MODULE FederationIntegrator ------------------------
(***************************************************************************)
(* The federations of all sidechains and the updates that wait for their   *)
(* activation height: rusty-core/sidechain/federation_integrator.rs.       *)
(*                                                                         *)
(* An update is [sidechain, federation, activation], filed under the id of *)
(* a governance proposal.  The heights are arguments of the calls and are  *)
(* related to nothing, so every height is possible in every call.  A call  *)
(* that returns an error before its first effect is a stuttering step.     *)
(***************************************************************************)
EXTENDS Integers, Sequences, FiniteSets, Maps

-----------------------------------------------------------------------------
(***************************************************************************)
(* The federation of one sidechain: rusty-core/sidechain/federation_       *)
(* manager.rs.  A federation is [size, threshold, keys]: the number of its *)
(* members (their identities are stored and never consulted), the number   *)
(* of signatures it asks for, and a sequence of public keys.  A manager is *)
(* [epochs, current]: every epoch so far by its number, and the current    *)
(* number.                                                                 *)
(***************************************************************************)

CONSTANTS
  NoHeight,     \* None, the end height of an epoch that has not ended
  MalformedKey, \* a public key that is no point of the curve
  RoundsUp      \* the <<t, n, m>> for which (t / n) * m is a whole number
                \* and the product in f64 lies above it

ASSUME NoHeightAssumption == NoHeight \notin Nat

\* The three checks of initialize_federation, transition_epoch and
\* propose_federation_update.
ValidFederation(f) ==
  /\ f.size > 0
  /\ f.threshold \in 1 .. f.size
  /\ Len(f.keys) = f.size

NewEpoch(f, h) ==
  [size |-> f.size, threshold |-> f.threshold, keys |-> f.keys, start |-> h, end |-> NoHeight]

InitializeFederation(f, h) == [epochs |-> [e \in {1} |-> NewEpoch(f, h)], current |-> 1]

GetCurrentEpoch(m) == m.epochs[m.current]

EndedAt(epoch, h) ==
  [size |-> epoch.size, threshold |-> epoch.threshold, keys |-> epoch.keys,
   start |-> epoch.start, end |-> h]

\* transition_epoch once for each federation of the sequence fs, all at height h.
TransitionEpochs(m, fs, h) ==
  [epochs |-> [e \in 1 .. m.current + Len(fs) |->
                 LET epoch == IF e <= m.current THEN m.epochs[e]
                                                ELSE NewEpoch(fs[e - m.current], h)
                 IN  IF e \in m.current .. m.current + Len(fs) - 1
                     THEN EndedAt(epoch, h)
                     ELSE epoch],
   current |-> m.current + Len(fs)]

CeilDiv(a, b) == (a + b - 1) \div b

\* ((t / n) * m).ceil() in f64, cut to m.
ScaledThreshold(t, n, m) ==
  LET scaled == CeilDiv(t * m, n) + (IF <<t, n, m>> \in RoundsUp THEN 1 ELSE 0)
  IN  IF scaled <= m THEN scaled ELSE m

\* update_federation_members: the current epoch gets other members and keys.
UpdateFederationMembers(m, size, keys) ==
  LET old == GetCurrentEpoch(m)
  IN  [epochs |-> [e \in DOMAIN m.epochs |->
                     IF e = m.current
                     THEN [size |-> size, threshold |-> ScaledThreshold(old.threshold, old.size, size),
                           keys |-> keys, start |-> old.start, end |-> old.end]
                     ELSE m.epochs[e]],
       current |-> m.current]

-----------------------------------------------------------------------------
(* A federation signature is [epoch, signers, threshold, key, message]:    *)
(* signers are the positions of its bitmap, key is the key that it         *)
(* verifies under, message the hash it names.                              *)

FirstSigner(sig) == CHOOSE i \in sig.signers : \A j \in sig.signers : i <= j

\* verify_federation_signature_with_public_keys: the signature is verified with
\* the key of the first signer alone.
VerifyFederationSignature(keys, sig, message, required) ==
  /\ keys # <<>>
  /\ sig.threshold > 0
  /\ sig.message = message
  /\ sig.signers # {} /\ sig.signers \subseteq DOMAIN keys
  /\ \A i \in sig.signers : keys[i] # MalformedKey
  /\ Cardinality(sig.signers) >= required /\ Cardinality(sig.signers) >= sig.threshold
  /\ sig.key = keys[FirstSigner(sig)]

\* verify_threshold_signature: any epoch that the manager holds will do.
VerifyThresholdSignature(m, epoch, sig, message) ==
  /\ epoch \in DOMAIN m.epochs
  /\ VerifyFederationSignature(m.epochs[epoch].keys, sig, message, m.epochs[epoch].threshold)

-----------------------------------------------------------------------------
CONSTANTS
  Sidechains,          \* the ids of sidechains
  PublicKeys,          \* the byte strings offered as public keys
  Federations,         \* the federations that callers ask for, valid or not
  ProposalIds,         \* the ids of governance proposals
  GovernanceProposals, \* those of them that mainchain_governance knows: none
                       \* while with_mainchain_governance was not called
  Heights,             \* the heights that callers pass
  MaxEpoch             \* bound: the last epoch number

VARIABLES
  managers,  \* FederationIntegrator::federation_managers
  pending    \* FederationIntegrator::pending_updates

fedVars == <<managers, pending>>

ASSUME IntegratorAssumption ==
  /\ Heights \subseteq Nat
  /\ IsFiniteSet(ProposalIds)
  /\ GovernanceProposals \subseteq ProposalIds
  /\ Federations \subseteq [size : Nat, threshold : Nat, keys : Seq(PublicKeys)]

Updates == [sidechain : Sidechains, federation : Federations, activation : Heights]

FedInit ==
  /\ managers = EmptyMap
  /\ pending = EmptyMap

\* A second registration of a sidechain replaces its manager.
InitializeSidechainFederation(c, f, h) ==
  /\ ValidFederation(f)
  /\ managers' = Put(managers, c, InitializeFederation(f, h))
  /\ UNCHANGED pending

\* The vote on the proposal is not looked at.
ProposeFederationUpdate(p, u, h) ==
  /\ p \in GovernanceProposals
  /\ u.activation > h
  /\ ValidFederation(u.federation)
  /\ u.sidechain \in DOMAIN managers
  /\ pending' = Put(pending, p, u)
  /\ UNCHANGED managers

Ready(h) == {p \in DOMAIN pending : pending[p].activation <= h}
ReadyFor(c, h) == {p \in Ready(h) : pending[p].sidechain = c}

\* The ways in which a HashMap lists S.
Listings(S) ==
  {q \in [1 .. Cardinality(S) -> S] :
     /\ \A i, j \in 1 .. Cardinality(S) : q[i] = q[j] => i = j
     /\ \A x \in S : \E i \in 1 .. Cardinality(S) : q[i] = x}

\* What the loop of apply_pending_updates needs of an update to pass both of
\* its early returns.
Applicable(u) == u.sidechain \in DOMAIN managers /\ ValidFederation(u.federation)

\* A fault: one update of a sidechain is applied, and all of them are removed.
FirstUpdateOf(c, h, order) ==
  [i \in 1 .. (IF ReadyFor(c, h) = {} THEN 0 ELSE 1) |-> pending[order[c][i]].federation]

UpdatesOf(c, h, order) == [i \in 1 .. Cardinality(ReadyFor(c, h)) |-> pending[order[c][i]].federation]

\* The updates of different sidechains do not meet, so only the order among the
\* updates of one sidechain matters.  Applicable is UpdatesApplyCleanly below:
\* the loop never returns early.
ApplyPendingUpdates(h) ==
  /\ \A p \in Ready(h) : Applicable(pending[p])
  /\ \A c \in DOMAIN managers : managers[c].current + Cardinality(ReadyFor(c, h)) <= MaxEpoch
  /\ \E order \in [DOMAIN managers -> UNION {Listings(ReadyFor(c, h)) : c \in DOMAIN managers}] :
       /\ \A c \in DOMAIN managers : order[c] \in Listings(ReadyFor(c, h))
       /\ managers' = [c \in DOMAIN managers |->
                         TransitionEpochs(managers[c], UpdatesOf(c, h, order), h)]
  /\ pending' = Without(pending, Ready(h))

EmergencyFederationUpdate(c, f, h) ==
  /\ c \in DOMAIN managers
  /\ ValidFederation(f)
  /\ managers[c].current < MaxEpoch
  /\ managers' = Put(managers, c, TransitionEpochs(managers[c], <<f>>, h))
  /\ UNCHANGED pending

\* update_federation_members on the manager that get_federation_manager_mut lends.
UpdateMembers(c, f) ==
  /\ c \in DOMAIN managers
  /\ f.size > 0 /\ Len(f.keys) = f.size
  /\ managers' = Put(managers, c, UpdateFederationMembers(managers[c], f.size, f.keys))
  /\ UNCHANGED pending

FedNext ==
  \/ \E c \in Sidechains, f \in Federations, h \in Heights :
       \/ InitializeSidechainFederation(c, f, h)
       \/ EmergencyFederationUpdate(c, f, h)
  \/ \E c \in Sidechains, f \in Federations : UpdateMembers(c, f)
  \/ \E p \in ProposalIds, u \in Updates, h \in Heights : ProposeFederationUpdate(p, u, h)
  \/ \E h \in Heights : ApplyPendingUpdates(h)

FedSpec == FedInit /\ [][FedNext]_fedVars

-----------------------------------------------------------------------------
(* Properties.                                                             *)

FedTypeOK ==
  /\ DOMAIN managers \subseteq Sidechains
  /\ DOMAIN pending \subseteq ProposalIds
  /\ \A p \in DOMAIN pending : pending[p] \in Updates

\* The epochs of a sidechain are numbered 1 .. current without a gap; each of
\* them has a threshold that its members can meet and a key for every member;
\* an epoch ends at the height at which the next one starts, and the current
\* one is open.  transition_epoch, apply_pending_updates with any number of
\* updates for one sidechain, emergency updates and update_federation_members
\* all have to keep this.
EpochsTileOf(m) ==
  /\ m.current \in Nat \ {0}
  /\ DOMAIN m.epochs = 1 .. m.current
  /\ \A e \in 1 .. m.current : ValidFederation(m.epochs[e])
  /\ \A e \in 1 .. m.current - 1 : m.epochs[e].end = m.epochs[e + 1].start
  /\ m.epochs[m.current].end = NoHeight
EpochsTile == \A c \in DOMAIN managers : EpochsTileOf(managers[c])

\* Whatever happened since propose_federation_update checked an update, both of
\* the early returns in the loop of apply_pending_updates stay out of reach: an
\* early return there would lose the update it removed and skip the others.
UpdatesApplyCleanly == \A p \in DOMAIN pending : Applicable(pending[p])

\* An update leaves pending_updates only to become an epoch of its sidechain, in
\* that same step, unless a second update is filed under the id of its proposal.
HasEpochFor(old, new, f) ==
  \E e \in old.current + 1 .. new.current :
    new.epochs[e].threshold = f.threshold /\ new.epochs[e].keys = f.keys
BecomesEpoch(u) == HasEpochFor(managers[u.sidechain], managers'[u.sidechain], u.federation)
NoUpdateIsLost ==
  [][\A p \in DOMAIN pending : p \in DOMAIN pending' \/ BecomesEpoch(pending[p])]_fedVars
=============================================================================
