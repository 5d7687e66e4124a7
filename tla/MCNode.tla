------------------------------- MODULE MCNode -------------------------------
(***************************************************************************)
(* What a node does with its peers, with relayed transactions and with     *)
(* scripts, what the wallet does with its coins and its secrets, and the   *)
(* governance and consensus crates.  The parts share no state, so a        *)
(* behaviour belongs to one of them (nodePart; for the crates part says    *)
(* which) and the others stay as they began.                               *)
(***************************************************************************)
EXTENDS GovernanceCoordinator, ConsensusRules, PeerManager, TxRelay, ScriptEngine,
        WalletBuilder, WalletStorage, TLC

-----------------------------------------------------------------------------
(***************************************************************************)
(* The governance crate (parameter changes alone, proposals that change    *)
(* parameters or upgrade the protocol, proposals that spend) and the       *)
(* consensus crate (block size, ticket pool, difficulty), which share no   *)
(* state.  A behaviour is one of the parts, chosen at the start.           *)
(***************************************************************************)

VARIABLE part

crateVars == <<govVars, sizeVars, poolVars, difficultyVars, part>>

CrateInit ==
  /\ part \in {"params", "changes", "spends", "sizes", "tickets", "difficulty"}
  /\ GovInit /\ SizeInit /\ PoolInit
  /\ IF part = "difficulty" THEN DifficultyInit ELSE bits = TargetToCompact(1) /\ stopped = TRUE
  /\ part \notin {"changes", "spends"} => ~connected

\* Bound: what each part uses of the governance crate.
FewParams == ParamNext /\ paramHeight' <= 3 /\ UNCHANGED <<voting, finalized, connected, burnVars, actVars>>
Voted(ids) == GovNext /\ DOMAIN voting' \subseteq ids

CrateNext ==
  /\ UNCHANGED part
  /\ \/ /\ \/ part = "params" /\ FewParams
           \/ part = "changes" /\ Voted({"size", "size2", "up"})
           \/ part = "spends" /\ Voted({"pay", "give", "grant"})
        /\ UNCHANGED <<sizeVars, poolVars, difficultyVars>>
     \/ part = "sizes" /\ SizeNext /\ UNCHANGED <<govVars, poolVars, difficultyVars>>
     \/ /\ part = "tickets" /\ PoolNext /\ DOMAIN missed' \subseteq {"t1"}
        /\ UNCHANGED <<govVars, sizeVars, difficultyVars>>
     \/ part = "difficulty" /\ DifficultyNext /\ UNCHANGED <<govVars, sizeVars, poolVars>>

-----------------------------------------------------------------------------
MCRegistry == [max_block_size |-> [min |-> 1000000, max |-> 100000000],
               difficulty_adjustment_window |-> [min |-> 100, max |-> 10000]]
MCDefaults == [max_block_size |-> 1500000, difficulty_adjustment_window |-> 2016]
MCChanges == [a |-> [param |-> "max_block_size", value |-> 2000000],
              b |-> [param |-> "max_block_size", value |-> 3000000],
              c |-> [param |-> "difficulty_adjustment_window", value |-> 20000]]

BaseProposal ==
  [type |-> "ParameterChange", target |-> "max_block_size", value |-> NoValue, amount |-> 0,
   title |-> "plain", start |-> 1, end |-> 2, code |-> FALSE, described |-> TRUE,
   explained |-> TRUE, collateral |-> 1, signed |-> TRUE]
Proposed(id, f) == [id |-> id] @@ f @@ BaseProposal
MCProposals ==
  [size |-> Proposed("size", [value |-> 2000000]),
   size2 |-> Proposed("size2", [value |-> 1000000]),
   pay |-> Proposed("pay", [type |-> "TreasurySpend", value |-> 3, amount |-> 3]),
   up |-> Proposed("up", [type |-> "ProtocolUpgrade", target |-> "soft_fork_activation",
                          value |-> 1, code |-> TRUE, start |-> 2, end |-> 3]),
   give |-> Proposed("give", [type |-> "CommunityFund", target |-> "fund_deposit", amount |-> 3]),
   grant |-> Proposed("grant", [type |-> "CommunityFund", target |-> "fund_allocation",
                                amount |-> 2, start |-> 2, end |-> 3])]

Ballot(p, v, c) == [proposal |-> p, voter |-> v, choice |-> c, signed |-> TRUE]
MCBallots ==
  {Ballot("size", "t", "Yes"), Ballot("size", "t", "No"), Ballot("size", "m", "Yes"),
   Ballot("size", "n", "Abstain"), Ballot("size2", "t", "Yes"), Ballot("size2", "m", "Yes"),
   Ballot("size", "stranger", "No"),
   Ballot("pay", "t", "Yes"), Ballot("pay", "m", "Yes"), Ballot("pay", "m", "No"),
   Ballot("give", "t", "Yes"), Ballot("give", "m", "Yes"), Ballot("grant", "t", "Yes"),
   Ballot("grant", "m", "Yes"), Ballot("up", "t", "Yes"), Ballot("up", "m", "Yes"),
   Ballot("up", "m", "No")}
MCQuorum == [pos |-> 20, mn |-> 50]
MCSupermajority == [pos |-> 75, mn |-> 66]
MCApproval == [ProtocolUpgrade |-> 75, ParameterChange |-> 60, TreasurySpend |-> 66, CommunityFund |-> 60]
MCRequiredBp ==
  [ProtocolUpgrade |-> 7500, ParameterChange |-> 6000, TreasurySpend |-> 6600, CommunityFund |-> 7000]

-----------------------------------------------------------------------------
VARIABLE nodePart

nodeVars == <<pmVars, trVars, scVars, wbVars, wsVars, crateVars, nodePart>>

MCTraits ==
    [p \in PmPeers |->
        CASE p = "p1" -> [perf |-> 2, div |-> 1, sec |-> 1, region |-> "eu", provider |-> "dc"]
          [] p = "p2" -> [perf |-> 1, div |-> 2, sec |-> 2, region |-> "eu", provider |-> "dc"]
          [] OTHER -> [perf |-> 1, div |-> 2, sec |-> 1, region |-> "as", provider |-> "dc"]]

MCLimit == [k \in PmKinds |-> IF k = "headers" THEN 2 ELSE 1]

\* Peers: "peers", the connections of all of them; "rates", requests to one.
PeersNext ==
    \/ pmNow = 0 /\ PmTick
    \/ cleanup_stale_peers
    \/ \E p \in PmPeers :
        \/ \E out \in BOOLEAN : ConnectionEstablished(p, out)
        \/ ConnectionClosed(p)
    \/ record_success("p1") \/ record_failure("p1") \/ record_violation("p1")
    \/ PeriodicTasks({"p1"})

RatesNext ==
    \/ PmTick
    \/ ConnectionEstablished("p1", TRUE) \/ ConnectionClosed("p1")
    \/ SendBlockRequest("p1") \/ RequestHeaders("p1") \/ SendProofRequest("p1")

\* Transactions: three that may be relayed, one of dust and a coinbase.
MCRelayTxs ==
    {[id |-> 1, fee |-> 3, size |-> 2, coinbase |-> FALSE, ins |-> 1, outs |-> {6}],
     [id |-> 2, fee |-> 8, size |-> 4, coinbase |-> FALSE, ins |-> 1, outs |-> {6, 7}],
     [id |-> 3, fee |-> 1, size |-> 1, coinbase |-> FALSE, ins |-> 2, outs |-> {5}],
     [id |-> 4, fee |-> 1, size |-> 1, coinbase |-> FALSE, ins |-> 1, outs |-> {4}],
     [id |-> 5, fee |-> 1, size |-> 1, coinbase |-> TRUE, ins |-> 0, outs |-> {5}]}

\* Scripts: conditionals, every opcode once or twice on a full stack, and the
\* script that pays to a key's hash.
MCSequence == [final |-> FALSE, value |-> 3]

BranchBytes == {0, 76, 81, 99, 100, 103, 104}

ScriptNext ==
    \/ \E b \in BranchBytes : sc.count < 9 /\ ExecuteByte(b, <<1>>)
    \/ PushPastEnd(76)
    \/ EndOfScript

OpcodeNext ==
    \E b \in {0, 20, 76} \union (81..82) \union (97..178) : sc.count < 2 /\ ExecuteByte(b, <<1, 2>>)

MCStacks ==
    {<<>>, <<Key(1)>>, <<Sig(1, 7), Key(1)>>, <<Sig(1, 7), Key(2)>>, <<Sig(2, 7), Key(1)>>,
     <<Sig(2, 7), Key(2)>>, <<Sig(1, 8), Key(1)>>, <<True, Sig(1, 7), Key(1)>>}

MCFullStacks ==
    {<<<<9>>, <<8>>, <<7>>, <<6>>, <<5>>, <<1>>, <<2>>>>,
     <<<<>>, Sig(1, 7), Sig(2, 7), <<2>>, Key(1), Key(2), <<2>>>>}

\* The wallet: two coins of one amount, one of them a coinbase; a node that
\* answers in full and one whose answer breaks off.
MCAmount == ("a" :> 4) @@ ("b" :> 9) @@ ("c" :> 9)
MCScript == ("a" :> "p2pkh") @@ ("b" :> "p2sh") @@ ("c" :> "p2pk")
MCAnswers == {<<"a", "c">>, <<"b", "malformed", "c">>}
MCOutput(v) == [opReturn |-> FALSE, amount |-> v]
MCOutputs ==
    {<<MCOutput(3)>>, <<MCOutput(1)>>, <<MCOutput(5), [opReturn |-> TRUE, amount |-> 0]>>}

NodeInit ==
    /\ nodePart \in {"crates", "peers", "rates", "relay", "script", "opcode", "keyhash", "coins", "vault"}
    /\ CrateInit
    /\ nodePart # "crates" => part = "params" /\ bits = TargetToCompact(1)
    /\ PmInit /\ TrInit /\ WbInit /\ WsInit
    /\ CASE nodePart = "keyhash" -> ScInit("keyhash", MCStacks)
         [] nodePart = "opcode" -> ScInit("free", MCFullStacks)
         [] OTHER -> ScInit("free", {<<>>})

NodeNext ==
    /\ UNCHANGED nodePart
    /\ \/ nodePart = "crates" /\ CrateNext /\ UNCHANGED <<pmVars, trVars, scVars, wbVars, wsVars>>
       \/ nodePart = "peers" /\ PeersNext /\ UNCHANGED <<trVars, scVars, wbVars, wsVars, crateVars>>
       \/ nodePart = "rates" /\ RatesNext /\ UNCHANGED <<trVars, scVars, wbVars, wsVars, crateVars>>
       \/ nodePart = "relay" /\ TrNext /\ UNCHANGED <<pmVars, scVars, wbVars, wsVars, crateVars>>
       \/ nodePart = "script" /\ ScriptNext /\ UNCHANGED <<pmVars, trVars, wbVars, wsVars, crateVars>>
       \/ nodePart = "opcode" /\ OpcodeNext /\ UNCHANGED <<pmVars, trVars, wbVars, wsVars, crateVars>>
       \/ nodePart = "keyhash" /\ KeyHashStep(1) /\ UNCHANGED <<pmVars, trVars, wbVars, wsVars, crateVars>>
       \/ nodePart = "coins" /\ WbNext /\ UNCHANGED <<pmVars, trVars, scVars, wsVars, crateVars>>
       \/ nodePart = "vault" /\ WsNext /\ UNCHANGED <<pmVars, trVars, scVars, wbVars, crateVars>>

NodeSpec == NodeInit /\ [][NodeNext]_nodeVars
=============================================================================
