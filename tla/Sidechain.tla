----------------------------- MODULE Sidechain ------------------------------
(***************************************************************************)
(* The sidechains of a node: the consensus engine of each sidechain        *)
(* (rusty-core/sidechain/sidechain_consensus.rs, mainchain_validator.rs    *)
(* and the block checks of proof_validation.rs) beside the federations of  *)
(* FederationIntegrator, as consensus/blockchain.rs drives them.           *)
(*                                                                         *)
(* An engine is [federation, snapshot, headers, trusted, block, fraud].    *)
(* It has a federation integrator of its own, which nothing updates after  *)
(* initialize_with_federation, so all of it is its epoch 1.  snapshot is   *)
(* the last mainchain block the engine was told of, headers the cache of   *)
(* mainchain headers, trusted the headers of the proof validator, block    *)
(* the block behind current_height and current_tip.  Its two peg managers  *)
(* and its outbox stay empty: no message of an engine is signed.           *)
(*                                                                         *)
(* A mainchain header is [height, hash].  A sidechain block is [hash,      *)
(* sidechain, height, genesis, anchor, epoch, sig, wellFormed, proofs]:    *)
(* genesis says that its previous hash is zero, anchor is the header it is *)
(* anchored to.  A block with a cross-chain transaction never passes the   *)
(* validator: its signatures would have to name a hash that covers them.   *)
(***************************************************************************)
EXTENDS FederationIntegrator, FraudProofs

CONSTANTS
  Headers,        \* mainchain headers
  Announced,      \* those that process_mainchain_block_for_sidechains is given
  Trustworthy,    \* those that add_trusted_header is given
  SideBlocks,     \* the sidechain blocks that arrive
  Proofs,         \* the fraud proofs that are submitted
  Bonds,          \* the bonds posted with them
  MaxChallenges,  \* bound: the challenges submitted to one engine
  MaxReorgDepth,  \* MainchainValidator::max_reorg_depth
  MinFederationSignatures, \* config.min_federation_signatures
  None            \* no snapshot, no block

VARIABLES
  engines,  \* Blockchain::sidechain_consensus
  tip,      \* the header behind state.get_current_block_height and self.tip
  hung      \* a call waits for a lock that it holds itself

sideVars == <<managers, pending, engines, tip, hung>>

ASSUME SidechainAssumption ==
  /\ Announced \subseteq Headers /\ Trustworthy \subseteq Headers
  /\ \A hdr \in Headers : hdr.height \in Heights
  /\ \A a, b \in Headers : a.hash = b.hash => a = b
  /\ None \notin Headers
  /\ Proofs \subseteq FraudProof
  /\ \A b \in SideBlocks : b.proofs \in Seq(Proofs)

SideInit ==
  /\ FedInit
  /\ engines = EmptyMap
  /\ tip \in Headers
  /\ hung = FALSE

NewEngine(f) ==
  [federation |-> f, snapshot |-> None, headers |-> {}, trusted |-> {}, block |-> None,
   fraud |-> NewFraudManager]

WithFraud(e, fm) ==
  [federation |-> e.federation, snapshot |-> e.snapshot, headers |-> e.headers,
   trusted |-> e.trusted, block |-> e.block, fraud |-> fm]

\* A sidechain can be registered again; it then loses its engine.
RegisterSidechain(c, f, h) ==
  /\ ~hung
  /\ InitializeSidechainFederation(c, f, h)
  /\ engines' = Put(engines, c, NewEngine(f))
  /\ UNCHANGED <<tip, hung>>

\* add_block and a reorganisation move the tip without telling the engines.
MainchainMoves(hdr) ==
  /\ ~hung
  /\ tip' = hdr
  /\ UNCHANGED <<managers, pending, engines, hung>>

-----------------------------------------------------------------------------
(* process_sidechain_block.                                                *)

\* MainchainValidator::validate_sidechain_block.
MainchainAccepts(e, c, b) ==
  /\ e.snapshot # None
  /\ b.sidechain = c
  /\ b.anchor.height <= e.snapshot.height
  /\ e.snapshot.height - b.anchor.height <= MaxReorgDepth
  /\ b.anchor \in e.headers
  /\ b.epoch = 1
  /\ Cardinality(b.sig.signers) >= e.federation.threshold
  /\ b.sig.epoch = 1 /\ b.sig.message = b.hash

\* A fault: the anchor is not looked for among the trusted headers.
ProofsAcceptedUntrusted(e, b) ==
  /\ b.wellFormed
  /\ b.genesis <=> b.height = 0
  /\ \A i \in DOMAIN b.proofs : b.proofs[i].inBlock
  /\ VerifyFederationSignature(e.federation.keys, b.sig, b.hash, MinFederationSignatures)

\* SidechainProofValidator::validate_sidechain_block; wellFormed covers the
\* version, the timestamp and the transactions.
ProofsAccepted(e, b) ==
  /\ b.wellFormed
  /\ b.genesis <=> b.height = 0
  /\ b.anchor.height > 0 => b.anchor \in e.trusted
  /\ \A i \in DOMAIN b.proofs : b.proofs[i].inBlock
  /\ VerifyFederationSignature(e.federation.keys, b.sig, b.hash, MinFederationSignatures)

DeepReorg(e) == e.snapshot.height - tip.height > MaxReorgDepth
SameHeightReorg(e) == tip.height = e.snapshot.height /\ tip.hash # e.snapshot.hash

Validated(c, b) ==
  /\ ~hung
  /\ c \in DOMAIN engines
  /\ MainchainAccepts(engines[c], c, b)
  /\ ProofsAccepted(engines[c], b)

\* handle_mainchain_reorg asks for the lock on the validator that its caller holds.
ProcessSidechainBlockReorg(c, b) ==
  /\ Validated(c, b)
  /\ SameHeightReorg(engines[c])
  /\ hung' = TRUE
  /\ UNCHANGED <<managers, pending, engines, tip>>

\* The block becomes the tip, and then the notification of the mainchain fails for
\* want of a signature.  Neither height nor previous hash is compared with the tip.
ProcessSidechainBlock(c, b) ==
  /\ Validated(c, b)
  /\ ~SameHeightReorg(engines[c]) /\ ~DeepReorg(engines[c])
  /\ b.proofs = <<>>
  /\ engines' = Put(engines, c,
       [federation |-> engines[c].federation, snapshot |-> engines[c].snapshot,
        headers |-> engines[c].headers, trusted |-> engines[c].trusted, block |-> b,
        fraud |-> engines[c].fraud])
  /\ UNCHANGED <<managers, pending, tip, hung>>

\* The first proof is submitted, and then its notification fails for want of a
\* signature: the other proofs and the block are dropped.
ProcessSidechainBlockProof(c, b) ==
  /\ Validated(c, b)
  /\ ~SameHeightReorg(engines[c]) /\ ~DeepReorg(engines[c])
  /\ b.proofs # <<>>
  /\ engines[c].fraud.stats.total < MaxChallenges
  /\ CanSubmit(engines[c].fraud, b.proofs[1], b.proofs[1].bond)
  /\ engines' = Put(engines, c, WithFraud(engines[c], SubmitFraudProof(engines[c].fraud, b.proofs[1])))
  /\ UNCHANGED <<managers, pending, tip, hung>>

-----------------------------------------------------------------------------
(* Calls through get_proof_validator and get_fraud_proof_manager.          *)

AddTrustedHeader(c, hdr) ==
  /\ ~hung
  /\ c \in DOMAIN engines
  /\ engines' = Put(engines, c,
       [federation |-> engines[c].federation, snapshot |-> engines[c].snapshot,
        headers |-> engines[c].headers, trusted |-> engines[c].trusted \cup {hdr},
        block |-> engines[c].block, fraud |-> engines[c].fraud])
  /\ UNCHANGED <<managers, pending, tip, hung>>

SubmitFraudProofChallenge(c, p, bond) ==
  /\ ~hung
  /\ c \in DOMAIN engines
  /\ engines[c].fraud.stats.total < MaxChallenges
  /\ CanSubmit(engines[c].fraud, p, bond)
  /\ engines' = Put(engines, c, WithFraud(engines[c], SubmitFraudProof(engines[c].fraud, p)))
  /\ UNCHANGED <<managers, pending, tip, hung>>

\* The report_ functions post the bond that the proof names.
ReportFraud(c, p) ==
  /\ <<p.type, p.evidence>> \in Reported
  /\ SubmitFraudProofChallenge(c, p, p.bond)

RespondToChallenge(c, p, countered) ==
  /\ ~hung
  /\ c \in DOMAIN engines
  /\ CanRespond(engines[c].fraud, p)
  /\ engines' = Put(engines, c, WithFraud(engines[c], SubmitResponse(engines[c].fraud, p, countered)))
  /\ UNCHANGED <<managers, pending, tip, hung>>

-----------------------------------------------------------------------------
(* process_mainchain_block_for_sidechains.                                 *)

\* SidechainConsensus::process_mainchain_block, as far as it comes.
ProcessMainchainBlock(e, hdr, o) ==
  [federation |-> e.federation, snapshot |-> hdr, headers |-> e.headers \cup {hdr},
   trusted |-> e.trusted, block |-> e.block,
   fraud |-> ProcessChallenges(e.fraud, hdr.height, o)]

Fails(c, hdr) == Faulty(engines[c].fraud, hdr.height) # {}

OutcomeOf(c, hdr) == CHOOSE o \in Outcomes(engines[c].fraud, hdr.height) : TRUE

ProcessMainchainBlockForSidechains(hdr) ==
  /\ ~hung
  /\ \A c \in DOMAIN engines : ~Fails(c, hdr)
  /\ engines' = [c \in DOMAIN engines |-> ProcessMainchainBlock(engines[c], hdr, OutcomeOf(c, hdr))]
  /\ ApplyPendingUpdates(hdr.height)
  /\ UNCHANGED <<tip, hung>>

\* The first engine to fail ends the loop: the engines before it in the order of
\* the map are done, the others and the federation updates are not.
Interrupted(hdr) ==
  \E bad \in {c \in DOMAIN engines : Fails(c, hdr)},
     before \in SUBSET {c \in DOMAIN engines : ~Fails(c, hdr)} :
    \E o \in Outcomes(engines[bad].fraud, hdr.height) :
      engines' = [c \in DOMAIN engines |->
                    IF c = bad THEN ProcessMainchainBlock(engines[c], hdr, o)
                    ELSE IF c \in before
                    THEN ProcessMainchainBlock(engines[c], hdr, OutcomeOf(c, hdr))
                    ELSE engines[c]]

\* A fault: the updates are taken out although the loop over the engines failed.
FailsAfterUpdates(hdr) ==
  /\ ~hung
  /\ Interrupted(hdr)
  /\ pending' = Without(pending, Ready(hdr.height))
  /\ UNCHANGED <<managers, tip, hung>>

ProcessMainchainBlockForSidechainsFails(hdr) ==
  /\ ~hung
  /\ Interrupted(hdr)
  /\ UNCHANGED <<managers, pending, tip, hung>>

-----------------------------------------------------------------------------
(* The calls of federation_integrator that do not concern the engines.     *)
UpdateFederation ==
  /\ ~hung
  /\ \/ \E p \in ProposalIds, u \in Updates, h \in Heights : ProposeFederationUpdate(p, u, h)
     \/ \E c \in Sidechains, f \in Federations, h \in Heights : EmergencyFederationUpdate(c, f, h)
     \/ \E c \in Sidechains, f \in Federations : UpdateMembers(c, f)
  /\ UNCHANGED <<engines, tip, hung>>

SideNext ==
  \/ \E c \in Sidechains, f \in Federations, h \in Heights : RegisterSidechain(c, f, h)
  \/ UpdateFederation
  \/ \E hdr \in Headers : MainchainMoves(hdr)
  \/ \E hdr \in Announced :
       \/ ProcessMainchainBlockForSidechains(hdr)
       \/ ProcessMainchainBlockForSidechainsFails(hdr)
  \/ \E c \in Sidechains, hdr \in Trustworthy : AddTrustedHeader(c, hdr)
  \/ \E c \in Sidechains, b \in SideBlocks :
       \/ ProcessSidechainBlock(c, b)
       \/ ProcessSidechainBlockProof(c, b)
       \/ ProcessSidechainBlockReorg(c, b)
  \/ \E c \in Sidechains, p \in Proofs :
       \/ \E bond \in Bonds : SubmitFraudProofChallenge(c, p, bond)
       \/ ReportFraud(c, p)
       \/ \E countered \in BOOLEAN : RespondToChallenge(c, p, countered)

SideSpec == SideInit /\ [][SideNext]_sideVars

-----------------------------------------------------------------------------
(* Properties.                                                             *)

\* The engines and the federations are those of the same sidechains, so neither
\* of the errors "No current federation epoch" and "Federation manager not found"
\* comes up while a mainchain block is processed.
EnginesHaveFederations == DOMAIN engines = DOMAIN managers

\* The counters of FraudProofStats, over any order of submissions, answers,
\* blocks, timeouts and failures: no challenge gets two verdicts for one
\* submission, and one penalty and one reward is booked for each proven fraud.
AccountsBalance ==
  \A c \in DOMAIN engines :
    LET fm == engines[c].fraud
        verdicts == fm.stats.proven + fm.stats.disproven + fm.stats.timedOut
    IN  /\ Cardinality(DOMAIN fm.active) + verdicts <= fm.stats.total
        /\ Cardinality(DOMAIN fm.completed) <= verdicts
        /\ fm.stats.penalties = fm.stats.proven
        /\ fm.stats.rewards = FraudProofReward * fm.stats.proven

\* A challenge ends with a verdict in completed_challenges, whatever the others
\* of its own and of the other sidechains do.  The only ones that are dropped are
\* those with malformed evidence, and those of a sidechain registered anew.
OnlyFaultyIsLost ==
  [][\A c \in DOMAIN engines :
       \A p \in DOMAIN engines[c].fraud.active :
         \/ p \in DOMAIN engines'[c].fraud.active
         \/ p \in DOMAIN engines'[c].fraud.completed
         \/ p.evidence = "malformed"
         \/ \E f \in Federations, h \in Heights : RegisterSidechain(c, f, h)]_sideVars

\* The tip of a sidechain is anchored to a mainchain block that the engine was
\* told of and that, above height 0, its proof validator trusts; enough of the
\* members of the federation with which the sidechain was registered signed it.
TipIsAnchored ==
  \A c \in DOMAIN engines :
    LET e == engines[c]
        b == e.block
    IN  b # None =>
          /\ b.sidechain = c
          /\ b.anchor \in e.headers
          /\ b.anchor.height > 0 => b.anchor \in e.trusted
          /\ Cardinality(b.sig.signers) >= e.federation.threshold
          /\ b.sig.signers \subseteq DOMAIN e.federation.keys

\* Whatever the engines do, the federations change as FederationIntegrator says:
\* a block whose processing stops half way leaves every update pending.
RefinesIntegrator == FedSpec

\* sidechain_consensus.rs, line 458: "Handle mainchain reorg with enhanced
\* validation and state recovery".
ReorgIsHandled == ~hung
=============================================================================
