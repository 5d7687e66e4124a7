------------------------------- MODULE MCSync -------------------------------
(***************************************************************************)
(* The parts of a node that synchronise it, for TLC.  They do not share    *)
(* state, and a behaviour exercises one of them: the sync manager, the     *)
(* network synchronisation, the state trie, the snapshots or the light     *)
(* client.                                                                 *)
(***************************************************************************)
EXTENDS SyncManager, NetworkSync, LightClient, SnapshotManager, TLC

VARIABLE part

partVars == <<part, smVars, nsVars, mptVars, lcVars, snVars>>

-----------------------------------------------------------------------------
(* The sync manager: one chain of four blocks linked by block hashes (a),  *)
(* one linked by header hashes (k), a block at height 3 without enough     *)
(* votes, and blocks at heights 2 and 3 that spend coins.                  *)

Vote(prev, sig) == [ticket |-> "t1", block |-> prev, choice |-> 1, sig |-> sig]
Votes(prev, good) ==
    [i \in 1 .. 5 |-> Vote(prev, IF i <= good THEN "good" ELSE "bad")]

Out == [value |-> 1, opReturn |-> FALSE, fits |-> TRUE]
Coinbase == [id |-> "cb", kind |-> "coinbase", version |-> 1, inputs |-> {},
             outputs |-> <<Out>>, minFee |-> 0, fits |-> TRUE, filled |-> TRUE]
Spend(c) == [id |-> c, kind |-> "standard", version |-> 1, inputs |-> {c},
             outputs |-> <<Out>>, minFee |-> 1, fits |-> TRUE, filled |-> TRUE]
Proposal == [id |-> "gp", kind |-> "proposal", version |-> 1, inputs |-> {},
             outputs |-> <<>>, minFee |-> 0, fits |-> TRUE, filled |-> TRUE]

MkBlock(id, height, prev, good, txs) ==
    [id |-> id, height |-> height, prev |-> prev, version |-> 1, time |-> 0,
     difficulty |-> 1, pow |-> TRUE, votes |-> Votes(prev, good),
     txs |-> <<Coinbase>> \o txs, size |-> 1, root |-> TRUE]

a0 == MkBlock("a0", 0, ZeroHash, 5, <<>>)
a1 == MkBlock("a1", 1, BlockHash(a0), 5, <<>>)
a2 == MkBlock("a2", 2, BlockHash(a1), 3, <<Proposal>>)
a3 == MkBlock("a3", 3, BlockHash(a2), 5, <<>>)
k1 == MkBlock("k1", 1, HeaderHash(a0), 5, <<>>)
k2 == MkBlock("k2", 2, HeaderHash(k1), 5, <<>>)
k3 == MkBlock("k3", 3, HeaderHash(k2), 5, <<>>)
b3 == MkBlock("b3", 3, BlockHash(a2), 2, <<>>)
s2 == MkBlock("s2", 2, BlockHash(a1), 5, <<Spend("old")>>)
s3 == MkBlock("s3", 3, BlockHash(s2), 5, <<Spend("young")>>)
e3 == MkBlock("e3", 2, BlockHash(a1), 5, <<Spend("young")>>)

SyncChain == <<a0, a1, a2, a3>>
MCAnswers == {<<a0, a1>>, <<a2, a3>>, <<a2, b3>>, <<a2>>, <<a0, k1>>, <<k2, k3>>,
              <<s2, s3>>, <<e3>>}
MCUtxos == [old |-> [value |-> 3, coinbase |-> FALSE, created |-> 0],
            young |-> [value |-> 3, coinbase |-> TRUE, created |-> 0]]
MCHeights == [p |-> 4, q |-> 3]

-----------------------------------------------------------------------------
(* The network synchronisation: a chain of two blocks, sent in and out of  *)
(* order.                                                                  *)

NsBlock(id, height, prev) ==
    [id |-> id, height |-> height, prev |-> prev, version |-> 1, future |-> FALSE,
     txs |-> <<"coinbase">>, root |-> TRUE, votes |-> [i \in 1 .. 5 |-> prev], size |-> 1]
n1 == NsBlock("n1", 1, "genesis")
n2 == NsBlock("n2", 2, "n1")
MCNsAnswers == {<<n1, n2>>, <<n2, n1>>}
MCNsHeights == [p |-> 2, q |-> 0]

-----------------------------------------------------------------------------
(* The trie and the light client: keys of three nibbles; a chain of two    *)
(* blocks on each of two branches.                                         *)

key1 == <<1, 1, 1>>
key2 == <<1, 1, 2>>
ticketKey == <<1, 2, 1>>
masternodeKey == <<2, 1, 1>>
proposalKey == <<2, 1, 2>>
MCTrieKeys == {key1, key2, ticketKey, masternodeKey, proposalKey}
MCKeys == [utxo |-> {key1}, ticket |-> {ticketKey}, masternode |-> {masternodeKey},
           governance |-> {proposalKey}]

Committed(values) ==
    [k \in MCTrieKeys |-> IF k \in DOMAIN values THEN values[k] ELSE NoValue]
Header(id, height, prev, data) == [id |-> id, height |-> height, prev |-> prev, data |-> data]
hg == Header("hg", 0, ZeroBest, Committed(EmptyMap))
ha1 == Header("ha1", 1, "hg", Committed(key1 :> "v"))
ha2 == Header("ha2", 2, "ha1", Committed(key1 :> "v" @@ key2 :> "w"))
hb1 == Header("hb1", 1, "hg", Committed(masternodeKey :> "w"))
hb2 == Header("hb2", 2, "hb1", Committed(proposalKey :> "w"))
hb3 == Header("hb3", 3, "hb2", Committed(ticketKey :> "w"))
MCHeaders == {hg, ha1, ha2, hb1, hb2, hb3}
MCHeaderLists == {<<hg, ha1>>, <<hg, hb1>>, <<ha1, ha2>>, <<hb1, hb2>>, <<hb2, hb3>>, <<hg, ha1, hb2>>}
MCBatch == {<<key1>>, <<key1, key2>>, <<key1, key2, key1>>}

-----------------------------------------------------------------------------
AllInit ==
    /\ SmInit /\ NsInit /\ MptInit /\ LcInit /\ SnInit

SyncInit ==
    /\ part \in {"manager", "network", "trie", "light", "snapshots"}
    /\ AllInit
    /\ part # "manager" => smPeer = "p"
    /\ part # "light" => lcCaching

SyncNext ==
    /\ UNCHANGED part
    /\ \/ /\ part = "manager" /\ SmNext
          /\ UNCHANGED <<nsVars, mptVars, lcVars, snVars>>
       \/ /\ part = "network" /\ NsNext
          /\ UNCHANGED <<smVars, mptVars, lcVars, snVars>>
       \/ /\ part = "trie" /\ MptNext
          /\ UNCHANGED <<smVars, nsVars, lcVars, snVars>>
       \/ /\ part = "light" /\ LcNext
          /\ UNCHANGED <<smVars, nsVars, mptVars, snVars>>
       \/ /\ part = "snapshots" /\ SnNext
          /\ UNCHANGED <<smVars, nsVars, mptVars, lcVars>>

\* Every task that has started is run by the executor.
SyncSpec == SyncInit /\ [][SyncNext]_partVars /\ NsFairness

\* The manager itself keeps running, and the peer gives the batch that is due
\* again and again.
IbdSpec ==
    /\ part = "manager" /\ AllInit /\ lcCaching = TRUE
    /\ [][SyncNext]_partVars
    /\ WF_smVars(SmBlock) /\ WF_smVars(SmHeader)
    /\ WF_smVars(SmBatchDone) /\ WF_smVars(SmNothingToDo)
    /\ SF_smVars(Downloading /\ SmAnswer(WholeAnswer(SyncChain)))

TrieSpec == part = "trie" /\ AllInit /\ lcCaching = TRUE /\ [][SyncNext]_partVars
=============================================================================
