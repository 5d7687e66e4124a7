---------------------------- MODULE MCBlockchain ----------------------------
(***************************************************************************)
(* Small sets of blocks for model checking Blockchain.  Each set is a tree *)
(* of blocks over a common genesis that exercises some of the handlers.    *)
(***************************************************************************)
EXTENDS Blockchain, TLC

\* The ids of tickets order the lottery.
MCLotteryScore(prev, k) == IF k = <<"k1">> THEN 2 ELSE 1
MCMaxFee(tx) == 10
MCInitParams == [ticket_price |-> 1]
MCNullTxid == <<"null">>

-----------------------------------------------------------------------------
Tx(id, kind, ins, outs, fee) ==
  [id |-> <<id>>, kind |-> kind, ins |-> ins, outs |-> outs, fee |-> fee,
   lock |-> 0, script |-> TRUE]

Coinbase(id, value) == Tx(id, "coinbase", << <<MCNullTxid, 1>> >>, <<value>>, 0)
Pay(id, ins, outs, fee) == Tx(id, "standard", ins, outs, fee)
Out(id, i) == << <<id>>, i>>
Register(id, m) == Tx(id, "register", <<>>, <<>>, 0) @@ [mn |-> <<m>>]
Slash(id, m, reason) ==
  Tx(id, "slash", <<>>, <<>>, 0) @@ [mn |-> <<m>>, reason |-> reason, proofOk |-> TRUE]
Purchase(id, op, value, ticket, key, keyOk) ==
  Tx(id, "purchase", <<op>>, <<value>>, 0) @@
    [locked |-> value, addrOk |-> TRUE, ticket |-> <<ticket>>, key |-> <<key>>, keyOk |-> keyOk]
Redemption(id, op, value, ticket) ==
  Tx(id, "redemption", <<op>>, <<value>>, 0) @@ [ticket |-> <<ticket>>]
Proposal(id, op, value, prop, start, end) ==
  Tx(id, "proposal", <<op>>, <<value>>, 1) @@
    [prop |-> prop, start |-> start, end |-> end, target |-> "ticket_price", value |-> 2,
     wellFormed |-> TRUE]
Vote(id, op, value, prop, voter, vtype, choice) ==
  Tx(id, "vote", <<op>>, <<value>>, 1) @@
    [prop |-> prop, voter |-> <<voter>>, vtype |-> vtype, choice |-> choice, sig |-> TRUE]

Blk(hdr, prev, h, txs) ==
  [hdr |-> <<hdr>>, prev |-> prev, height |-> h, target |-> 1, pow |-> TRUE, version |-> 1,
   votes |-> <<>>, txs |-> txs]

-----------------------------------------------------------------------------
\* A genesis block and two branches: payments that mature, a masternode that is
\* registered twice, a slash, tickets bought with a good and with a bad key.
G  == Blk("g", ZeroHash, 0, <<Coinbase("cb0", 6)>>)
A1 == Blk("a1", BlockHash(G), 1, <<Coinbase("cb1", 6), Register("r1", "m1")>>)
A2 == Blk("a2", BlockHash(A1), 2, <<Coinbase("cb2", 6),
            Pay("p1", <<Out("cb0", 1)>>, <<3, 2>>, 1)>>)
A3 == Blk("a3", BlockHash(A2), 3, <<Coinbase("cb3", 6),
            Purchase("t1", Out("p1", 1), 3, "x1", "k1", TRUE), Register("r2", "m1")>>)
A3T == Blk("a3t", BlockHash(A2), 3, <<Coinbase("cb3t", 6),
            Purchase("t2", Out("p1", 1), 3, "x1", "k1", TRUE),
            Purchase("t3", Out("p1", 2), 2, "x2", "k2", FALSE)>>)
A3S == Blk("a3s", BlockHash(A2), 3, <<Coinbase("cb3s", 6), Slash("s1", "m1", "DoubleSigning"),
            Register("r3", "m1"), Purchase("t1", Out("p1", 1), 3, "k1", "k1", TRUE)>>)
A4 == Blk("a4", BlockHash(A3S), 4, <<Coinbase("cb4", 6),
            Pay("p2", <<Out("p1", 2), Out("cb2", 1)>>, <<7>>, 1)>>)
A4I == Blk("a4i", BlockHash(A3S), 4, <<Coinbase("cb4i", 6),
            Pay("p3", <<Out("cb3s", 1)>>, <<5>>, 1)>>)
B1 == Blk("b1", BlockHash(G), 1, <<Coinbase("cb1b", 6)>>)
B2 == Blk("b2", BlockHash(B1), 2, <<Coinbase("cb2b", 6),
            Pay("p4", <<Out("cb0", 1)>>, <<6>>, 0), Register("r4", "m2")>>)
B3 == Blk("b3", BlockHash(B2), 3, <<Coinbase("cb3b", 6),
            Pay("p5", <<Out("p4", 1), Out("cb1b", 1)>>, <<12>>, 0)>>)

\* Two payments of one block with the same input.
B3D == Blk("b3d", BlockHash(B2), 3, <<Coinbase("cb3d", 6),
            Pay("p8", <<Out("p4", 1)>>, <<6>>, 0), Pay("p9", <<Out("p4", 1)>>, <<5>>, 1)>>)

ReorgBlocks == {G, A1, A2, A3, A3T, A3S, A4, A4I, B1, B2, B3, B3D}

\* Blocks that add_block takes: their coinbase spends an output and holds the
\* second place after a registration, or stands alone; one carries a vote of
\* the ticket k1.  A4D spends an output of the chain a second time.
Reward(id, op, value) == Tx(id, "coinbase", <<op>>, <<value>>, 0)
C3 == Blk("c3", BlockHash(A2), 3, <<Reward("rw3", Out("p1", 1), 2)>>)
C3R == [C3 EXCEPT !.txs[1].outs[1] = 3, !.txs[1].id = <<"rw3", 3>>]
C4 == Blk("c4", BlockHash(C3R), 4, <<Register("r5", "m1"), Reward("rw4", Out("p1", 2), 1)>>)
C4S == Blk("c4s", BlockHash(C3R), 4, <<Register("r6", "m2"), Slash("s2", "m1", "DoubleSigning"),
             Reward("rw4s", Out("p1", 2), 1)>>)
C4U == Blk("c4u", BlockHash(C3R), 4, <<Reward("rw4u", Out("p1", 2), 1),
             Pay("p6", << << <<"rw3", 3>>, 1>> >>, <<1>>, 0)>>)
D5 == [Blk("d5", BlockHash(A4), 5, <<Reward("rw5", Out("p2", 1), 1)>>) EXCEPT
         !.version = 2, !.votes = <<[ticket |-> <<"k1">>, hash |-> BlockHash(A4), sig |-> TRUE, vote |-> 0]>>]
A4D == Blk("a4d", BlockHash(A3S), 4, <<Coinbase("cb4d", 6),
             Pay("p7", <<Out("p1", 1), Out("p1", 2)>>, <<1>>, 1)>>)

\* A purchase without a public key in a block that add_block takes, while the
\* ticket k1 is pending.
A4P == Blk("a4p", BlockHash(A3S), 4, <<Purchase("t4", Out("t1", 1), 3, "x4", "k4", FALSE),
             Reward("rw4p", Out("p1", 2), 1)>>)

\* The first coinbase again, after its output was spent, and a second payment
\* out of it.
A3C == Blk("a3c", BlockHash(A2), 3, <<Coinbase("cb0", 6)>>)
A4C == Blk("a4c", BlockHash(A3C), 4, <<Coinbase("cb4c", 6)>>)
A5C == Blk("a5c", BlockHash(A4C), 5, <<Coinbase("cb5c", 6), Pay("p0", <<Out("cb0", 1)>>, <<6>>, 0)>>)

\* The ticket k1 is redeemed two blocks after it was bought.
E5 == Blk("e5", BlockHash(A4), 5, <<Coinbase("cb5e", 6), Redemption("rd1", Out("t1", 1), 3, "k1")>>)

ForwardBlocks == {G, A1, A2, A3, A3T, A3S, A3C, A4, A4I, A4D, A4P, A4C, A5C, C3, C4, C4S, C4U, D5, E5}
MCClientTxs == {Pay("p1", <<Out("cb0", 1)>>, <<3, 2>>, 1), Pay("q1", <<Out("cb0", 1)>>, <<5>>, 1),
                Register("r6", "m2"), Pay("q2", <<Out("p1", 2)>>, <<1>>, 1)}

\* A proposal that is voted on at heights 3 and 4 and due from height 6, and
\* the votes of the ticket k1 and the masternode m1 for it.  Their blocks link
\* to the header hash, as add_block wants once the database has a height.
PB == Blk("pb", BlockHash(A2), 3, <<Proposal("pr1", Out("p1", 1), 2, "prop1", 3, 4)>>)
VB == Blk("vb", A4.hdr, 5, <<Vote("v1", Out("p2", 1), 1, "prop1", "k1", "PosTicket", "Yes"),
                             Vote("v2", Out("p2", 1), 1, "prop1", "m1", "Masternode", "Yes")>>)
VC == Blk("vc", A4.hdr, 5, <<Vote("v3", Out("p2", 1), 1, "prop1", "k1", "PosTicket", "No")>>)
H5 == Blk("h5", BlockHash(A4), 5, <<Coinbase("cb5", 6)>>)
H6 == Blk("h6", BlockHash(H5), 6, <<Coinbase("cb6", 6)>>)

GovernanceBlocks == {G, A1, A2, A3S, A4, PB, VB, VC, H5, H6}

LedgerBlocks == ForwardBlocks \cup GovernanceBlocks

\* A transaction that is relayed without a check.
MCRelayedTxs == {Pay("q3", <<Out("cb0", 1)>>, <<5>>, 1)}
=============================================================================
