---------------------------- MODULE MCSidechain -----------------------------
(***************************************************************************)
(* Instances of Sidechain.  A behaviour runs one of two parts: one         *)
(* sidechain with blocks, a mainchain that reorganises and three           *)
(* challenges ("blocks"), or two sidechains with federations that change,  *)
(* between which a mainchain block can fail half way ("pair").             *)
(***************************************************************************)
EXTENDS Sidechain

CONSTANTS c1, c2

VARIABLE part

Fed(t, keys) == [size |-> Len(keys), threshold |-> t, keys |-> keys]
MCFederations == {Fed(2, <<"k1", "k2", "k3">>), Fed(1, <<>>)}  \* the second is refused

H1 == [height |-> 1, hash |-> "h1"]
H1b == [height |-> 1, hash |-> "h1b"]
H2 == [height |-> 2, hash |-> "h2"]
TwoHeaders == {H1, H2}
ThreeHeaders == {H1, H1b, H2}

Proof(type, evidence, inBlock) ==
  [type |-> type, evidence |-> evidence, bond |-> 2, fits |-> TRUE, inBlock |-> inBlock]
Strong == Proof("DoubleSpending", "strong", TRUE)
Malformed == Proof("UnauthorizedSignature", "malformed", FALSE)
Weak == Proof("InvalidStateTransition", "weak", FALSE)
ThreeProofs == {Strong, Malformed, Weak}

Sig(hash, signers) ==
  [epoch |-> 1, signers |-> signers, threshold |-> 2, key |-> "k1", message |-> hash]
SBlock(hash, height, anchor, signers, proofs) ==
  [hash |-> hash, sidechain |-> c1, height |-> height, genesis |-> height = 0, anchor |-> anchor,
   epoch |-> 1, wellFormed |-> TRUE, sig |-> Sig(hash, signers), proofs |-> proofs]
MCSideBlocks ==
  {SBlock("s1", 1, H1, {1, 2}, <<>>), SBlock("s2", 1, H2, {1}, <<>>),
   SBlock("s3", 2, H2, {1, 3}, <<Strong>>)}
MCRoundsUp == {}

Init ==
  /\ part \in {"blocks", "pair"}
  /\ SideInit
  /\ part = "pair" => tip = H1

\* In both parts the node processes mainchain blocks.
Announce ==
  \E hdr \in Announced :
    \/ ProcessMainchainBlockForSidechains(hdr)
    \/ ProcessMainchainBlockForSidechainsFails(hdr)

BlocksNext ==
  \/ \E f \in Federations, h \in Heights : RegisterSidechain(c1, f, h)
  \/ \E f \in Federations : UpdateMembers(c1, f) /\ UNCHANGED <<engines, tip, hung>>
  \/ \E hdr \in Headers : MainchainMoves(hdr)
  \/ \E hdr \in Trustworthy : AddTrustedHeader(c1, hdr)
  \/ \E b \in SideBlocks :
       \/ ProcessSidechainBlock(c1, b)
       \/ ProcessSidechainBlockProof(c1, b)
       \/ ProcessSidechainBlockReorg(c1, b)
  \/ \E p \in Proofs :
       \/ \E bond \in Bonds : SubmitFraudProofChallenge(c1, p, bond)
       \/ ReportFraud(c1, p)
       \/ \E countered \in BOOLEAN : RespondToChallenge(c1, p, countered)

\* Sidechains are registered at height 1; one challenge for each of them, proven
\* or malformed.
PairNext ==
  \/ \E c \in Sidechains, f \in Federations : RegisterSidechain(c, f, 1)
  \/ UpdateFederation
  \/ \E c \in DOMAIN engines, p \in {Strong, Malformed} :
       \/ engines[c].fraud.stats.total = 0 /\ SubmitFraudProofChallenge(c, p, p.bond)
       \/ \E countered \in BOOLEAN : RespondToChallenge(c, p, countered)

Next ==
  /\ UNCHANGED part
  /\ \/ Announce
     \/ part = "blocks" /\ BlocksNext
     \/ part = "pair" /\ PairNext

Spec == Init /\ [][Next]_<<part, sideVars>>

ASSUME DistinctSignatures == \A a, b \in MCSideBlocks : a.sig = b.sig => a = b
ASSUME DistinctFederations == \A f, g \in MCFederations : f.keys = g.keys => f = g
=============================================================================
