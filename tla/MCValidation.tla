---------------------------- MODULE MCValidation ----------------------------
(* Blocks of rusty-consensus over a genesis block: payments, a registration *)
(* and a slash, linked by either hash.                                      *)
EXTENDS BlockValidation

MCNull == <<"null", 0>>
VOut(value) == [value |-> value, opReturn |-> FALSE, script |-> TRUE]
VTx(id, kind, ins, outs) ==
  [id |-> id, kind |-> kind, ins |-> ins, outs |-> outs, size |-> 1, script |-> TRUE,
   lock |-> 0, lowSequence |-> FALSE, maxSequence |-> TRUE]
Subsidy(id) == VTx(id, "coinbase", <<MCNull>>, <<VOut(5)>>)
VBlock(id, prev, root, h, txs) ==
  [id |-> id, prev |-> prev, root |-> root, height |-> h, version |-> 1, target |-> 1, time |-> h + 1,
   pow |-> TRUE, size |-> 2, votes |-> "none", stateRoot |-> 1, txs |-> txs]

MCGenesis == VBlock("g", "none", <<"cb0">>, 0, <<Subsidy("cb0")>>)
MCGenesisCoins == << "cb0", 1 >> :> [value |-> 5, height |-> 0, coinbase |-> TRUE]
Spend == VTx("p1", "standard", << <<"cb0", 1>> >>, <<VOut(4)>>)
Enlist == VTx("r1", "register", << <<"cb0", 1>> >>, <<VOut(2), VOut(2)>>)
Punish == VTx("s1", "slash", << <<"cb0", 1>> >>, <<[value |-> 1, opReturn |-> TRUE, script |-> TRUE]>>)
          @@ [mn |-> "m1", reason |-> "DoubleSigning", proof |-> "given"]
Lists == {<<Subsidy("cb1")>>, <<Subsidy("cb1"), Spend>>, <<Subsidy("cb1"), Enlist>>, <<Subsidy("cb1"), Punish>>}
MCCandidates ==
  {VBlock("b1", prev, root, 1, txs) :
     prev \in {FullHash(MCGenesis), HeaderHash(MCGenesis)},
     root \in {<<"cb0">>, <<"cb1">>, <<"cb1", "p1">>, <<"cb1", "r1">>}, txs \in Lists}
MCKnownTickets == "t1" :> "Live"
MCKnownNodes == "m1" :> [collateral |-> <<"cb0", 1>>, amount |-> 10, failures |-> 0]
MCSlashPercent == [MasternodeNonResponse |-> 5, DoubleSigning |-> 10]
=============================================================================
