------------------------------ MODULE MCBridge ------------------------------
(***************************************************************************)
(* The ways in which value crosses between chains: the peg manager with    *)
(* the federations it asks, the inter-sidechain transfers and the          *)
(* cross-chain messages, which share no state; and the federations alone,  *)
(* with more epochs and updates.  A behaviour is one of the four, chosen   *)
(* at the start.                                                           *)
(***************************************************************************)
EXTENDS TwoWayPeg, InterSidechainTransfer, CrossChain, TLC

CONSTANTS i1, i2, p1, p2  \* ids of pegs and of proposals
VARIABLE part

bridgeVars == <<pegVars, transferVars, crossVars, part>>

BridgeInit ==
  /\ part \in {"federation", "peg", "transfer", "messages"}
  /\ PegInit /\ TransferInit /\ CrossInit

\* Bound: beside pegs there are two epochs and one pending update.
FewUpdates ==
  /\ Cardinality(DOMAIN pending') <= 1
  /\ \A c \in DOMAIN managers' : managers'[c].current <= 2

BridgeNext ==
  /\ UNCHANGED part
  /\ \/ /\ part = "federation" /\ FedNext
        /\ UNCHANGED <<pending_transactions, completed_transactions, transferVars, crossVars>>
     \/ part = "peg" /\ PegNext /\ FewUpdates /\ UNCHANGED <<transferVars, crossVars>>
     \/ part = "transfer" /\ TransferNext /\ UNCHANGED <<pegVars, crossVars>>
     \/ part = "messages" /\ CrossNext /\ UNCHANGED <<pegVars, transferVars>>

BridgeSpec == BridgeInit /\ [][BridgeNext]_bridgeVars

\* Federations of one sidechain: the second needs fewer signatures, the third more
\* than it has members.
Fed(t, keys) == [size |-> Len(keys), threshold |-> t, keys |-> keys]
MCFederations == {Fed(2, <<"k1", "k2">>), Fed(1, <<"k3">>), Fed(3, <<"k1", "k3">>)}
MCRoundsUp == {}
MCPegIds == {i1, i2}
MCProposalIds == {p1, p2}
IdSymmetry == Permutations(MCPegIds) \cup Permutations(MCProposalIds)

\* A signature of both members of the first federation, in either epoch, and one
\* of the second.
Sig(epoch, signers, key) ==
  [epoch |-> epoch, signers |-> signers, threshold |-> 1, key |-> key, message |-> "zero"]
Peg(type, h, sigs) ==
  [type |-> type, sidechain |-> "c1", amount |-> 5, height |-> h, sigs |-> sigs]
MCPegRequests ==
  {Peg("PegIn", 1, {Sig(1, {1, 2}, "k1"), Sig(2, {1}, "k3")}),
   Peg("PegOut", 0, {Sig(1, {1, 2}, "k1")}), Peg("PegOut", 0, {Sig(2, {1}, "k3")})}
ASSUME DistinctPegRequests == Cardinality(MCPegRequests) = 3

\* Two burns of one transaction for different recipients, one between the same
\* chain, one that declares more than it burns, and one beyond the limit.
Burn(d, tx, outputs, amount, r) ==
  [source |-> "c1", destination |-> d, tx |-> tx, outputs |-> outputs, amount |-> amount,
   height |-> 1, recipient |-> r]
MCBurns == {Burn("c2", "t1", 2, 2, "alice"), Burn("c2", "t1", 2, 2, "bob"),
            Burn("c1", "t1", 2, 2, "bob"), Burn("c2", "t2", 1, 2, "bob"),
            Burn("c2", "t3", 9, 9, "bob"), Burn("c2", "t4", 1, 1, "bob")}
MCMints == {[outputs |-> 2, recipients |-> {"alice", "carol"}], [outputs |-> 2, recipients |-> {"bob"}],
            [outputs |-> 1, recipients |-> {"bob"}]}
ASSUME DistinctBurns == Cardinality(MCBurns) = 6 /\ Cardinality(MCMints) = 3

\* The same transaction in messages to two chains, one to a sidechain, one with a
\* bad signature, one of the mainchain, a header and messages that are refused.
CrossTx(id, s, d, sigs) == [id |-> id, amount |-> 1, source |-> s, destination |-> d, sigs |-> sigs]
Message(type, d, n, tx) ==
  [type |-> type, source |-> "c1", destination |-> d, sequence |-> n, signed |-> TRUE, tx |-> tx]
TxMessage(d, n, tx) == Message("CrossChainTransaction", d, n, tx)
MCMessages ==
  {TxMessage("main", 1, CrossTx("x1", "c1", "main", "good")),
   TxMessage("c2", 1, CrossTx("x1", "c1", "main", "good")),
   TxMessage("c2", 1, CrossTx("x2", "main", "c2", "bad")),
   TxMessage("main", 0, CrossTx("x3", "c1", "main", "good")),
   Message("MainchainBlockHeader", "c2", 1, CrossTx("x3", "c1", "main", "none"))}
ASSUME DistinctMessages == Cardinality(MCMessages) = 5
=============================================================================
