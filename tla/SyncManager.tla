----------------------------- MODULE SyncManager -----------------------------
(***************************************************************************)
(* rusty-core/src/network/sync_manager.rs: the initial block download and  *)
(* the header-first synchronisation of a node.  A manager asks one peer    *)
(* for batches of blocks (or headers) and writes what it validates into    *)
(* the block index of BlockchainState: the hash kept for each height, and  *)
(* the tip.                                                                *)
(*                                                                         *)
(* A peer may not answer, or answer with fewer or other blocks than it was *)
(* asked for.  The hash of a block and the hash of its header are two      *)
(* different values in this code, so a link names its kind.                *)
(***************************************************************************)
EXTENDS Integers, Sequences, FiniteSets, FiniteSetsExt, Maps

CONSTANTS
    SyncPeers,          \* the connected peers
    SyncHeights,        \* the height that query_peer_height derives for each
    SyncAnswers,        \* the sequences of blocks a peer may answer with
    SyncUtxos,          \* utxo_set, which synchronisation never changes
    SyncTickets,        \* live_tickets, which it never changes either
    BatchSize,          \* 100 blocks, or 2000 headers
    MaxInFlight,        \* MAX_PEER_CONNECTIONS * 10
    PeerSlack,          \* 10, the lag a peer may have and still be chosen
    CoinMaturity,       \* COINBASE_MATURITY of validate_tx_input
    MaxMoney, MaxIoCount, MaxBlockSize, MaxTimeDrift,
    BaseDifficulty, VotersPerBlock, MinValidVotes,
    MaxSyncs            \* bound: managers started one after the other

SentBlocks == UNION {{answer[i] : i \in DOMAIN answer} : answer \in SyncAnswers}

\* A hash stands for one block.
ASSUME SyncAssumption ==
    /\ \A answer \in SyncAnswers : answer \in Seq(SentBlocks)
    /\ \A b \in SentBlocks : b.height \in Nat
    /\ \A b, c \in SentBlocks : b.id = c.id => b = c

VARIABLES
    smMode,     \* "idle", "blocks" or "headers"
    smPeer,     \* selected_peer
    smCur,      \* current_height of the download loop
    smAsked,    \* a response is being processed
    smQueue,    \* its blocks (or headers) not looked at yet
    smFlight,   \* blocks_in_flight: the blocks inserted and not removed
    smLate,     \* the timeout of this synchronisation has elapsed
    smSyncs,    \* how many synchronisations were started
    smHash,     \* the hash kept for each height
    smTip,      \* get_current_block_height().unwrap_or(0)
    smStored    \* the blocks written by put_block

smIndex == <<smHash, smTip, smStored>>
smVars == <<smMode, smPeer, smCur, smAsked, smQueue, smFlight, smLate, smSyncs,
            smHash, smTip, smStored>>

ZeroHash == <<"zero", "zero">>
BlockHash(b) == <<"block", b.id>>
HeaderHash(b) == <<"header", b.id>>

-----------------------------------------------------------------------------
(* Validation of a header or a block against the index.                    *)

\* Both time spans of the function are 1,209,600 seconds, so the adjustment
\* factor is one at every height.
calculate_expected_difficulty(height) == BaseDifficulty

validate_pow_hash(b) == b.pow

\* A fault: the link is not compared with the hash kept for the height below.
HeaderWithoutLink(b) ==
    /\ b.version = 1
    /\ b.height = IF b.height = 0 THEN 0 ELSE smTip + 1
    /\ b.height = 0 => b.prev = ZeroHash
    /\ b.height > 0 => b.prev # ZeroHash
    /\ validate_pow_hash(b)

validate_block_header(b) ==
    /\ b.version = 1
    /\ b.height = IF b.height = 0 THEN 0 ELSE smTip + 1
    /\ b.height = 0 => b.prev = ZeroHash
    /\ b.height > 0 =>
         /\ b.prev # ZeroHash
         /\ b.height - 1 \in DOMAIN smHash => b.prev = smHash[b.height - 1]
    /\ b.time <= MaxTimeDrift
    /\ b.difficulty = calculate_expected_difficulty(b.height)
    /\ validate_pow_hash(b)

\* A vote that fails a check is skipped; a signature that cannot be decoded
\* fails the block.  Votes of the same ticket are all counted.
validate_ticket_votes(b) ==
    LET wellFormed == {i \in DOMAIN b.votes : /\ b.votes[i].block = b.prev
                                              /\ b.votes[i].choice <= 2
                                              /\ b.votes[i].ticket \in SyncTickets}
    IN  /\ Len(b.votes) = VotersPerBlock
        /\ \A i \in wellFormed : b.votes[i].sig # "malformed"
        /\ Cardinality({i \in wellFormed : b.votes[i].sig = "good"}) >= MinValidVotes

validate_tx_input(coin) ==
    /\ coin \in DOMAIN SyncUtxos
    /\ SyncUtxos[coin].coinbase => smTip >= SyncUtxos[coin].created + CoinMaturity

validate_tx_output(out) ==
    /\ out.value = 0 => out.opReturn
    /\ out.value <= MaxMoney
    /\ out.fits      \* script and memo are within their limits

InputValue(tx) == MapThenSumSet(LAMBDA c : SyncUtxos[c].value, tx.inputs)
OutputValue(tx) == MapThenSumSet(LAMBDA i : tx.outputs[i].value, DOMAIN tx.outputs)

\* For governance and masternode transactions only the presence of ids and
\* the length of the signature are looked at (tx.filled).
validate_transaction(tx, isCoinbase) ==
    CASE tx.kind = "standard" ->
           /\ tx.version = 1
           /\ ~isCoinbase => /\ tx.inputs # {}
                             /\ \A c \in tx.inputs : validate_tx_input(c)
           /\ tx.outputs # <<>>
           /\ Cardinality(tx.inputs) + Len(tx.outputs) <= MaxIoCount
           /\ \A i \in DOMAIN tx.outputs : validate_tx_output(tx.outputs[i])
           /\ InputValue(tx) - OutputValue(tx) >= tx.minFee
           /\ tx.fits
      [] tx.kind = "coinbase" ->
           /\ tx.version = 1
           /\ tx.inputs = {}
           /\ tx.outputs # <<>>
           /\ \A i \in DOMAIN tx.outputs : validate_tx_output(tx.outputs[i])
      [] tx.kind \in {"proposal", "vote", "register"} -> tx.filled
      [] OTHER -> TRUE

validate_block_transactions(b) ==
    /\ b.txs # <<>>
    /\ b.txs[1].kind = "coinbase"
    /\ \A i \in DOMAIN b.txs : validate_transaction(b.txs[i], i = 1)
    /\ \A i, j \in DOMAIN b.txs : b.txs[i].id = b.txs[j].id => i = j

validate_block_size(b) == b.size <= MaxBlockSize

validate_merkle_root(b) == b.root

validate_header_continuity(b) ==
    b.height > 0 => /\ b.height - 1 \in DOMAIN smHash
                    /\ b.prev = smHash[b.height - 1]

validate_block(b) ==
    /\ validate_block_header(b)
    /\ validate_ticket_votes(b)
    /\ validate_block_transactions(b)
    /\ validate_block_size(b)
    /\ validate_merkle_root(b)

-----------------------------------------------------------------------------
(* The download loops.                                                     *)

SmInit ==
    /\ smMode = "idle"
    /\ smPeer \in SyncPeers
    /\ smCur = 0
    /\ smAsked = FALSE
    /\ smQueue = <<>>
    /\ smFlight = {}
    /\ smLate = FALSE
    /\ smSyncs = 0
    /\ smHash = EmptyMap
    /\ smTip = 0
    /\ smStored = {}

\* Every peer within ten blocks of the highest is a candidate, and none has
\* blocks in flight, since nothing counts them.  Below height ten the bound
\* wraps around and only the highest peer is left.
select_best_sync_peer ==
    LET max == Max({SyncHeights[p] : p \in SyncPeers})
    IN  IF max >= PeerSlack
        THEN {p \in SyncPeers : SyncHeights[p] >= max - PeerSlack}
        ELSE {p \in SyncPeers : SyncHeights[p] = max}

\* initial_block_download or header_first_sync_async up to its loop, in a new
\* manager over the same state.
SmStart(mode) ==
    /\ smMode = "idle"
    /\ smSyncs < MaxSyncs
    /\ smSyncs' = smSyncs + 1
    /\ smMode' = mode
    /\ smPeer' \in select_best_sync_peer
    /\ smCur' = 0
    /\ smFlight' = {}
    /\ smLate' = FALSE
    /\ UNCHANGED <<smAsked, smQueue, smIndex>>

Downloading == smMode # "idle" /\ ~smAsked /\ smCur < SyncHeights[smPeer]

\* The error branch of the loop: a peer is selected again, and the loop goes
\* on without looking at the clock.
RetryBatch ==
    /\ smPeer' \in select_best_sync_peer
    /\ smAsked' = FALSE
    /\ smQueue' = <<>>
    /\ UNCHANGED <<smMode, smCur, smLate, smSyncs>>

\* No answer, or (for blocks) too many blocks in flight.
SmNoAnswer ==
    /\ Downloading
    /\ RetryBatch
    /\ UNCHANGED <<smFlight, smIndex>>

\* A response of any length is taken; a wrong number of blocks is only logged.
SmAnswer(answer) ==
    /\ Downloading
    /\ smMode = "blocks" => Cardinality(smFlight) < MaxInFlight
    /\ smAsked' = TRUE
    /\ smQueue' = answer
    /\ UNCHANGED <<smMode, smPeer, smCur, smFlight, smLate, smSyncs, smIndex>>

validate_and_store_block(b) ==
    /\ validate_block(b)
    /\ smStored' = smStored \cup {b.id}
    /\ smHash' = Put(smHash, b.height, BlockHash(b))
    /\ smTip' = b.height

\* Only a higher header moves the tip: a genesis header does not set it back,
\* a genesis block does.
validate_and_store_header(b) ==
    /\ validate_block_header(b)
    /\ validate_header_continuity(b)
    /\ smHash' = Put(smHash, b.height, HeaderHash(b))
    /\ smTip' = Max({smTip, b.height})
    /\ UNCHANGED smStored

SmBlock ==
    /\ smMode = "blocks" /\ smAsked /\ smQueue # <<>>
    /\ LET b == Head(smQueue)
       IN  \/ /\ validate_and_store_block(b)
              /\ smFlight' = smFlight \ {b.id}
              /\ smQueue' = Tail(smQueue)
              /\ UNCHANGED <<smMode, smPeer, smCur, smAsked, smLate, smSyncs>>
           \/ /\ ~validate_block(b)
              /\ smFlight' = smFlight \cup {b.id}
              /\ RetryBatch
              /\ UNCHANGED smIndex

SmHeader ==
    /\ smMode = "headers" /\ smAsked /\ smQueue # <<>>
    /\ UNCHANGED smFlight
    /\ LET b == Head(smQueue)
       IN  \/ /\ validate_and_store_header(b)
              /\ smQueue' = Tail(smQueue)
              /\ UNCHANGED <<smMode, smPeer, smCur, smAsked, smLate, smSyncs>>
           \/ /\ ~(validate_block_header(b) /\ validate_header_continuity(b))
              /\ RetryBatch
              /\ UNCHANGED smIndex

\* The success branch: the loop moves on by the batch it asked for, whatever
\* came, and only here looks at the clock.  Past the last batch the manager
\* is done (synchronize_utxo_state only logs).
SmBatchDone ==
    /\ smMode # "idle" /\ smAsked /\ smQueue = <<>>
    /\ smAsked' = FALSE
    /\ smCur' = Min({smCur + BatchSize, SyncHeights[smPeer]})
    /\ smMode' = IF smLate \/ smCur' >= SyncHeights[smPeer] THEN "idle" ELSE smMode
    /\ UNCHANGED <<smPeer, smQueue, smFlight, smLate, smSyncs, smIndex>>

\* A peer of height zero: the loop is not entered.
SmNothingToDo ==
    /\ smMode # "idle" /\ ~smAsked /\ smCur >= SyncHeights[smPeer]
    /\ smMode' = "idle"
    /\ UNCHANGED <<smPeer, smCur, smAsked, smQueue, smFlight, smLate, smSyncs, smIndex>>

\* IBD_TIMEOUT or HEADER_SYNC_TIMEOUT elapses.
SmElapse ==
    /\ smMode # "idle" /\ ~smLate
    /\ smLate' = TRUE
    /\ UNCHANGED <<smMode, smPeer, smCur, smAsked, smQueue, smFlight, smSyncs, smIndex>>

SmNext ==
    \/ \E mode \in {"blocks", "headers"} : SmStart(mode)
    \/ SmNoAnswer
    \/ \E answer \in SyncAnswers : SmAnswer(answer)
    \/ SmBlock
    \/ SmHeader
    \/ SmBatchDone
    \/ SmNothingToDo
    \/ SmElapse

SmSpec == SmInit /\ [][SmNext]_smVars

-----------------------------------------------------------------------------
(* Properties.                                                             *)

BlockAt(h) == CHOOSE b \in SentBlocks : b.id = smHash[h][2]

\* Whatever peers answer, and however block and header synchronisations
\* follow each other, every height from 1 to the tip has a hash, and the entry
\* at each height from 2 links to the entry below it (validate_block_header,
\* validate_and_store_block, validate_and_store_header).
IndexLinked ==
    \A h \in 1 .. smTip :
        /\ h \in DOMAIN smHash
        /\ h >= 2 => BlockAt(h).prev = smHash[h - 1]

\* The answer that a peer with the whole chain would give to the request that
\* is due.
WholeAnswer(chain) ==
    LET end == Min({smCur + BatchSize, SyncHeights[smPeer]})
    IN  [i \in 1 .. end - smCur |-> chain[smCur + i]]

\* IBD_TIMEOUT, "5 minutes timeout for IBD": once its time has elapsed, an
\* initial block download whose peer answers again and again comes to an end.
IbdEnds == (smMode = "blocks" /\ smLate) ~> (smMode = "idle")
=============================================================================
