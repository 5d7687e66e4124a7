----------------------------- MODULE Blockchain -----------------------------
(***************************************************************************)
(* The chain state of a Rusty-Coin node: rusty-core/consensus/blockchain.rs*)
(* (process_block, revert_block, add_block, evaluate_and_apply_governance) *)
(* over the block store and tip of consensus/state.rs, the UTXO set, the   *)
(* ticket pool, the masternode list and the active proposals.              *)
(*                                                                         *)
(* Each of the handlers is a chain of steps any of which may return early. *)
(* Nothing is rolled back, so an error leaves behind the effects of the    *)
(* steps before it; every such error is an action of its own.  An error    *)
(* before the first effect changes nothing and is a stuttering step.       *)
(*                                                                         *)
(* A block is a record [hdr, prev, height, target, pow, version, votes,    *)
(* txs]: hdr is the hash of its header, pow the verdict on its proof of    *)
(* work, votes its ticket votes [ticket, hash, sig, vote].  The hash of    *)
(* the whole block covers the header and the transactions.  Hashes are     *)
(* tuples; a transaction whose content changes gets another txid.          *)
(***************************************************************************)
EXTENDS UtxoSet, GovernanceState

CONSTANTS
  Blocks,             \* the blocks that peers and miners offer to the node
  NullTxid,           \* the all-zero txid in the input of a coinbase
  TicketMaturity,     \* params.ticket_maturity
  TicketExpiry,       \* params.ticket_expiry
  VotingPeriod,       \* params.voting_period_blocks
  ActivationDelay,    \* params.activation_delay_blocks
  ProposalStake,      \* params.proposal_stake_amount
  HalvingInterval,    \* params.halving_interval
  InitialReward,      \* params.initial_block_reward
  PosRewardPercent,   \* params.pos_reward_ratio, in percent
  MinValidVotes,      \* MIN_VALID_VOTES_REQUIRED
  AdjustmentWindow,   \* params.difficulty_adjustment_window
  InitParams,         \* the governed parameters at start-up
  MnStatuses,         \* the statuses that other components give masternodes
  ClientTxs,          \* transactions that reach validate_and_add_transaction
  RelayedTxs,         \* transactions that reach add_transaction unchecked
  MempoolDust,        \* 546, the least output of a mempool transaction
  MinFee,             \* 1000, the least fee of a mempool transaction
  MaxFee(_)           \* 10000 times the size of a transaction

VARIABLES
  utxos,        \* Blockchain::utxo_set
  tickets,      \* Blockchain::live_tickets
  masternodes,  \* Blockchain::masternode_list, id -> status
  proposals,    \* Blockchain::active_proposals
  params,       \* Blockchain::params, the parameters under governance
  mempool,      \* Blockchain::mempool
  blocks,       \* the database entries hash -> block
  index,        \* the database entries block_hash_<height> -> hash
  tip,          \* BlockchainState::tip
  height,       \* BlockchainState::current_height
  dbHeight      \* the database entry current_height (0 when absent)

vars == <<utxos, tickets, masternodes, proposals, params, mempool,
          blocks, index, tip, height, dbHeight>>

\* [0; 32], the tip of an empty chain and the hash of no block.
ZeroHash == <<>>

BlockHash(b) == <<b.hdr, [i \in DOMAIN b.txs |-> b.txs[i].id]>>

\* A header hash stands for one header, so for one height and one parent.  A
\* block has a transaction: add_block panics on an empty one.
ASSUME BlocksAssumption ==
  /\ \A b \in Blocks : /\ {"hdr", "prev", "height", "txs"} \subseteq DOMAIN b
                       /\ b.height \in 0 .. W - 1
                       /\ b.txs \in Seq(Range(b.txs)) /\ b.txs # <<>>
  /\ \A b, c \in Blocks : b.hdr = c.hdr => b.height = c.height /\ b.prev = c.prev

\* What the enumerated transactions consist of; ids are tuples, see above.
ASSUME TxsAssumption ==
  \A b \in Blocks : \A i \in DOMAIN b.txs :
    /\ {"id", "kind", "ins", "outs", "fee"} \subseteq DOMAIN b.txs[i]
    /\ b.txs[i].id \in Seq(Range(b.txs[i].id))
    /\ b.txs[i].ins \in Seq(Range(b.txs[i].ins))
    /\ b.txs[i].outs \in Seq(Nat)
    /\ b.txs[i].fee \in Nat
    /\ b.txs[i].kind = "proposal" => b.txs[i].end \in Nat

ASSUME ParamsAssumption ==
  /\ ActivationDelay \in Nat
  /\ HalvingInterval \in Nat \ {0}
  /\ InitialReward \in Nat
  /\ PosRewardPercent \in Nat
  /\ InitParams = [p \in DOMAIN InitParams |-> InitParams[p]]

Init ==
  /\ utxos = EmptyMap
  /\ tickets = EmptyMap
  /\ masternodes = EmptyMap
  /\ proposals = EmptyMap
  /\ params = InitParams
  /\ mempool = {}
  /\ blocks = EmptyMap
  /\ index = EmptyMap
  /\ tip = ZeroHash
  /\ height = 0
  /\ dbHeight = 0

-----------------------------------------------------------------------------
(* The block store of consensus/state.rs.                                  *)

\* A fault: only the height of the latest block is kept.
PutBlockForgets(b) ==
  /\ blocks' = [h \in DOMAIN blocks \cup {BlockHash(b)} |->
                  IF h = BlockHash(b) THEN b ELSE blocks[h]]
  /\ index' = [n \in {b.height} |-> BlockHash(b)]

PutBlock(b) ==
  /\ blocks' = [h \in DOMAIN blocks \cup {BlockHash(b)} |->
                  IF h = BlockHash(b) THEN b ELSE blocks[h]]
  /\ index' = [n \in DOMAIN index \cup {b.height} |->
                 IF n = b.height THEN BlockHash(b) ELSE index[n]]

\* remove_block_by_hash for each hash: the block and every height that
\* points to it.
RemoveBlocks(hashes) ==
  /\ blocks' = Restrict(blocks, DOMAIN blocks \ hashes)
  /\ index' = Restrict(index, {n \in DOMAIN index : index[n] \notin hashes})

UpdateTip(hash, h) == tip' = hash /\ height' = h

-----------------------------------------------------------------------------
(* validate_transaction, the check process_block makes of a transaction    *)
(* against the state before the block.                                     *)

\* current_block_height - creation_height is u64 arithmetic and wraps.
Mature(utxo, h) == utxo.coinbase => (h - utxo.height) % W >= CoinbaseMaturity

ValidCoinbase(tx) == Len(tx.ins) = 1 /\ tx.ins[1][1] = NullTxid /\ tx.outs # <<>>

ValidPurchase(tx) ==
  /\ tx.outs # <<>>
  /\ tx.outs[1] = tx.locked
  /\ tx.addrOk
  /\ tx.ticket \notin DOMAIN tickets

ValidRedemption(tx, h) ==
  /\ tx.ticket \in DOMAIN tickets
  /\ tickets[tx.ticket].height + TicketMaturity <= h
  /\ h < tickets[tx.ticket].height + TicketExpiry

\* A fault: an input that is not in the UTXO set is passed over.
ValidateKnownInputs(tx, h) ==
  \/ tx.kind = "coinbase" /\ ValidCoinbase(tx)
  \/ /\ tx.kind # "coinbase"
     /\ \A op \in Inputs(tx) \cap DOMAIN utxos : Mature(utxos[op], h)
     /\ InputSum(utxos, tx) >= OutputSum(tx) + tx.fee

ValidateTransaction(tx, h) ==
  \/ tx.kind = "coinbase" /\ ValidCoinbase(tx)
  \/ /\ tx.kind # "coinbase"
     /\ \A op \in Inputs(tx) : op \in DOMAIN utxos /\ Mature(utxos[op], h)
     /\ tx.script
     /\ InputSum(utxos, tx) >= OutputSum(tx) + tx.fee
     /\ tx.lock <= h
     /\ tx.kind = "purchase" => ValidPurchase(tx)
     /\ tx.kind = "redemption" => ValidRedemption(tx, h)

-----------------------------------------------------------------------------
(* The masternode updates of a block: register_masternode for every        *)
(* registration and remove_masternode for every slash, in block order.  A  *)
(* masternode is named by its collateral outpoint, and the voter id of its *)
(* operator key stands for it too: each masternode has a key of its own.   *)

MnOps(b, m, n) ==
  {i \in 1 .. n : b.txs[i].kind \in {"register", "slash"} /\ b.txs[i].mn = m}

Listed(b, m, n) ==
  IF MnOps(b, m, n) = {} THEN m \in DOMAIN masternodes
                         ELSE b.txs[Max(MnOps(b, m, n))].kind = "register"

Registered(b) == {b.txs[i].mn : i \in {j \in DOMAIN b.txs : b.txs[j].kind = "register"}}

\* The list after the first n transactions of the block.
MasternodesAfter(b, n) ==
  [m \in {x \in DOMAIN masternodes \cup Registered(b) : Listed(b, x, n)} |->
     IF MnOps(b, m, n) = {} THEN masternodes[m] ELSE "Registered"]

\* The first registration of a masternode that is listed: register_masternode
\* refuses it.  0 when there is none.
BadRegister(b) ==
  LET bad == {i \in DOMAIN b.txs :
                b.txs[i].kind = "register" /\ Listed(b, b.txs[i].mn, i - 1)}
  IN  IF bad = {} THEN 0 ELSE Min(bad)

-----------------------------------------------------------------------------
(* evaluate_and_apply_governance: the proposals whose activation delay has *)
(* run out are evaluated and, unless still in progress, dropped.           *)

Due(h) == {id \in DOMAIN proposals : h > proposals[id].end + ActivationDelay}

ActiveMasternodes(mns) == Cardinality({m \in DOMAIN mns : mns[m] = "Active"})

Outcome(id, h, pool, mns) ==
  EvaluateProposal(proposals[id], h, Cardinality(DOMAIN pool), ActiveMasternodes(mns))

EvaluateAndApplyGovernance(h, pool, mns) ==
  LET closed == {id \in Due(h) : Outcome(id, h, pool, mns) # "InProgress"}
      passed == {id \in Due(h) : Outcome(id, h, pool, mns) = "Passed"}
  IN  /\ proposals' = Restrict(proposals, DOMAIN proposals \ closed)
      /\ params' = [p \in DOMAIN params |->
                      IF \E id \in passed : proposals[id].target = p
                      THEN proposals[CHOOSE id \in passed : proposals[id].target = p].value
                      ELSE params[p]]

-----------------------------------------------------------------------------
(* process_block                                                           *)

ProcessValid(b) == \A i \in DOMAIN b.txs : ValidateTransaction(b.txs[i], b.height)

\* A registration is refused after the UTXO set has been updated.
ProcessBlockRegisterError(b) ==
  /\ ProcessValid(b)
  /\ BadRegister(b) # 0
  /\ utxos' = UpdateFromBlock(utxos, b)
  /\ masternodes' = MasternodesAfter(b, BadRegister(b) - 1)
  /\ UNCHANGED <<tickets, proposals, params, mempool, blocks, index, tip, height, dbHeight>>

\* update_for_new_block stops at a purchase without a public key, after the
\* UTXO set and the masternode list have been updated.
ProcessBlockTicketError(b) ==
  /\ ProcessValid(b)
  /\ BadRegister(b) = 0
  /\ BadPurchase(b) # 0
  /\ utxos' = UpdateFromBlock(utxos, b)
  /\ masternodes' = MasternodesAfter(b, Len(b.txs))
  /\ tickets' = UpdateForNewBlock(tickets, b, UsedTicketIds(utxos'))
  /\ UNCHANGED <<proposals, params, mempool, blocks, index, tip, height, dbHeight>>

ProcessBlockOk(b) ==
  /\ ProcessValid(b)
  /\ BadRegister(b) = 0
  /\ BadPurchase(b) = 0
  /\ utxos' = UpdateFromBlock(utxos, b)
  /\ masternodes' = MasternodesAfter(b, Len(b.txs))
  /\ tickets' = ProcessTicketFinality(
                  UpdateForNewBlock(tickets, b, UsedTicketIds(utxos')), b.height)
  /\ EvaluateAndApplyGovernance(b.height, tickets', masternodes')
  /\ PutBlock(b)
  /\ UpdateTip(BlockHash(b), b.height)
  /\ UNCHANGED <<mempool, dbHeight>>

ProcessBlock(b) ==
  ProcessBlockRegisterError(b) \/ ProcessBlockTicketError(b) \/ ProcessBlockOk(b)

-----------------------------------------------------------------------------
(* revert_block.  Its last loop walks the transactions backwards and stops *)
(* at the first one it cannot undo.                                        *)

\* A purchase can never be undone there: if the pool did hold its declared id,
\* update_for_revert_block has just removed it.
CannotUndo(b, i) ==
  LET tx == b.txs[i]
      later(kind) == {b.txs[j] : j \in {k \in DOMAIN b.txs : k > i /\ b.txs[k].kind = kind}}
  IN  \/ tx.kind = "purchase"
      \/ /\ tx.kind = "proposal"
         /\ tx.prop \notin DOMAIN proposals \ {t.prop : t \in later("proposal")}
      \/ /\ tx.kind = "vote"
         /\ \/ tx.prop \notin DOMAIN proposals \ {t.prop : t \in later("proposal")}
            \/ tx.voter \notin DOMAIN proposals[tx.prop].votes
            \/ \E t \in later("vote") : t.prop = tx.prop /\ t.voter = tx.voter

\* The transaction that stops the loop, 0 when it reaches the first one.
UndoStop(b) ==
  LET stuck == {i \in DOMAIN b.txs : CannotUndo(b, i)}
  IN  IF stuck = {} THEN 0 ELSE Max(stuck)

\* The proposals after the transactions beyond n have been undone.
UndoGovernance(b, n) ==
  LET undone(kind) == {b.txs[j] : j \in {k \in DOMAIN b.txs : k > n /\ b.txs[k].kind = kind}}
  IN  [id \in DOMAIN proposals \ {t.prop : t \in undone("proposal")} |->
         WithVotes(proposals[id],
                   Restrict(proposals[id].votes, DOMAIN proposals[id].votes \
                              {t.voter : t \in {v \in undone("vote") : v.prop = id}}))]

RevertCommon(b) ==
  /\ utxos' = RevertFromBlock(utxos, b)
  /\ tickets' = UpdateForRevertBlock(tickets, b)
  /\ masternodes' = Restrict(masternodes, DOMAIN masternodes \ Registered(b))
  /\ proposals' = UndoGovernance(b, UndoStop(b))
  /\ UNCHANGED <<params, mempool, dbHeight>>

RevertBlockError(b) ==
  /\ UndoStop(b) # 0
  /\ RevertCommon(b)
  /\ UNCHANGED <<blocks, index, tip, height>>

\* remove_block_by_hash removes the block; remove_block_by_height then removes
\* whatever other block the height points to.
RevertBlockOk(b) ==
  /\ UndoStop(b) = 0
  /\ RevertCommon(b)
  /\ UpdateTip(b.prev, (b.height - 1) % W)
  /\ RemoveBlocks({BlockHash(b)} \cup {index[n] : n \in {b.height} \cap DOMAIN index})

RevertBlock(b) == RevertBlockError(b) \/ RevertBlockOk(b)

-----------------------------------------------------------------------------
(* add_block.  It reads the height from the database entry, which only     *)
(* save_to_disk writes, and not from the tip.                              *)

\* The order in which the transactions are processed: the first one stays.
Order(b) == <<Head(b.txs)>> \o SortByFee(b.txs, 2 .. Len(b.txs))

\* The block links to the latest block and keeps its target.  At a multiple of
\* the adjustment window the code divides by a zero time span and panics.
ExtendsDatabase(b) ==
  dbHeight > 0 =>
    /\ dbHeight \in DOMAIN index
    /\ b.prev = blocks[index[dbHeight]].hdr
    /\ dbHeight % AdjustmentWindow # 0
    /\ b.target = blocks[index[dbHeight]].target

\* process_governance_proposal; wellFormed stands for the checks of the title,
\* the id and the signature.
AcceptsProposal(s, i) ==
  LET tx == s[i]
  IN  /\ tx.start > dbHeight
      /\ tx.end > tx.start
      /\ tx.end - tx.start + 1 = VotingPeriod
      /\ tx.ins # <<>> /\ tx.outs # <<>>
      /\ OutputSum(tx) >= ProposalStake
      /\ tx.wellFormed
      /\ tx.prop \notin DOMAIN proposals
      /\ \A j \in 1 .. i - 1 : s[j].kind = "proposal" => s[j].prop # tx.prop

\* process_governance_vote.  A proposal of the same block starts above the
\* database height, so no vote for it is accepted.
AcceptsVote(s, i) ==
  LET tx == s[i]
  IN  /\ tx.prop \in DOMAIN proposals
      /\ proposals[tx.prop].start <= dbHeight
      /\ dbHeight <= proposals[tx.prop].end
      /\ \/ /\ tx.vtype = "PosTicket"
            /\ tx.voter \in DOMAIN tickets
            /\ tickets[tx.voter].status = "Live"
         \/ /\ tx.vtype = "Masternode"
            /\ tx.voter \in DOMAIN masternodes
            /\ masternodes[tx.voter] = "Active"
      /\ tx.sig
      /\ CanRecordVote(proposals, tx.prop, tx.voter)
      /\ \A j \in 1 .. i - 1 :
           s[j].kind = "vote" => s[j].prop # tx.prop \/ s[j].voter # tx.voter

AcceptsSlash(tx) ==
  /\ tx.reason \in {"MasternodeNonResponse", "DoubleSigning"}
  /\ tx.proofOk
  /\ tx.mn \in DOMAIN masternodes

AcceptsInputs(tx) ==
  ValidateComprehensive(utxos, tx, dbHeight) /\ (tx.kind = "coinbase" \/ tx.script)

\* The governance part of a transaction comes first and takes effect even
\* when its inputs are then refused.
AcceptsGovernance(s, i) ==
  /\ s[i].kind = "proposal" => AcceptsProposal(s, i)
  /\ s[i].kind = "vote" => AcceptsVote(s, i)

AcceptsTx(s, i) ==
  /\ AcceptsGovernance(s, i)
  /\ IF s[i].kind = "slash" THEN AcceptsSlash(s[i]) ELSE AcceptsInputs(s[i])

\* No transaction ends the loop with an error.
AllAccepted(s) == \A i \in DOMAIN s : AcceptsTx(s, i)

\* The transactions whose governance part has taken effect.
GovernanceDone(s) ==
  {i \in DOMAIN s : /\ s[i].kind \in {"proposal", "vote"}
                    /\ \A j \in 1 .. i - 1 : AcceptsTx(s, j)
                    /\ AcceptsGovernance(s, i)}

ApplyGovernance(s) ==
  LET done(kind) == {s[i] : i \in {j \in GovernanceDone(s) : s[j].kind = kind}}
      voters(id) == {t.voter : t \in {v \in done("vote") : v.prop = id}}
      voteOf(id, v) == CHOOSE t \in done("vote") : t.prop = id /\ t.voter = v
  IN  [id \in DOMAIN proposals \cup {t.prop : t \in done("proposal")} |->
         IF id \in DOMAIN proposals
         THEN WithVotes(proposals[id],
                        [v \in DOMAIN proposals[id].votes \cup voters(id) |->
                           IF v \in voters(id)
                           THEN [type |-> voteOf(id, v).vtype, choice |-> voteOf(id, v).choice]
                           ELSE proposals[id].votes[v]])
         ELSE WithVotes(CHOOSE t \in done("proposal") : t.prop = id, EmptyMap)]

\* The block that is left after the loop: slashes are dropped and all the
\* rest, the coinbase included, is sorted by fee.  add_block panics when it
\* then takes the first transaction of none.
Kept(s) == SortByFee(s, {i \in DOMAIN s : s[i].kind # "slash"})

\* initial_block_reward >> n
Halved[n \in Nat] == IF n = 0 THEN InitialReward ELSE Halved[n - 1] \div 2

BlockSubsidy(h) ==
  LET halvings == h \div HalvingInterval
  IN  IF halvings >= 64 THEN 0 ELSE Halved[halvings]

TotalReward(b, kept) ==
  BlockSubsidy(b.height) +
    SumOf([i \in DOMAIN Tail(kept) |->
              SaturatingSub(InputSum(utxos, Tail(kept)[i]), OutputSum(Tail(kept)[i]))])

\* (total_reward as f64 * pos_reward_ratio).round()
PosReward(b, kept) == (2 * TotalReward(b, kept) * PosRewardPercent + 100) \div 200
PowReward(b, kept) == TotalReward(b, kept) - PosReward(b, kept)

\* validate_proof_of_stake_and_rewards
ValidateProofOfStake(b, posReward) ==
  b.votes # <<>> =>
    /\ Len(b.votes) = VotersPerBlock
    /\ \A i, j \in DOMAIN b.votes : b.votes[i].ticket = b.votes[j].ticket => i = j
    /\ \A i \in DOMAIN b.votes :
         LET v == b.votes[i]
         IN  /\ v.ticket \in SelectVoters(b.prev, tickets)
             /\ b.height < tickets[v.ticket].height + TicketExpiry
             /\ v.hash = b.prev
             /\ v.sig
             /\ v.vote <= 2
    /\ Len(b.votes) >= MinValidVotes
    /\ posReward > 0 => posReward \div Len(b.votes) > 0

\* The checks between the loop and the first change to the UTXO set.
AcceptsReward(b, kept) ==
  /\ Head(kept).kind = "coinbase"
  /\ OutputSum(Head(kept)) <= PowReward(b, kept)
  /\ Head(kept).outs # <<>>
  /\ b.version = 2 => ValidateProofOfStake(b, PosReward(b, kept))

\* The first output of the coinbase is overwritten with the reward.
PayReward(tx, reward) ==
  IF tx.outs[1] = reward THEN tx
  ELSE [tx EXCEPT !.outs[1] = reward, !.id = @ \o <<reward>>]

Rewritten(b, kept) ==
  [b EXCEPT !.txs = <<PayReward(Head(kept), PowReward(b, kept))>> \o Tail(kept)]

\* The block is refused, but the governance transactions met on the way stay.
AddBlockRefused(b) ==
  LET s == Order(b)
  IN  /\ ExtendsDatabase(b)
      /\ b.pow
      /\ ~AllAccepted(s) \/ (Kept(s) # <<>> /\ ~AcceptsReward(b, Kept(s)))
      /\ proposals' = ApplyGovernance(s)
      /\ UNCHANGED <<utxos, tickets, masternodes, params, mempool, blocks, index, tip,
                     height, dbHeight>>

\* What the accepted block changes first: the UTXO set, the block store and
\* the mempool.
AddBlockStore(b, rewritten) ==
  /\ ExtendsDatabase(b)
  /\ b.pow
  /\ AllAccepted(Order(b))
  /\ Kept(Order(b)) # <<>> /\ AcceptsReward(b, Kept(Order(b)))
  /\ proposals' = ApplyGovernance(Order(b))
  /\ utxos' = UpdateFromBlock(utxos, rewritten)
  /\ PutBlock(rewritten)
  /\ mempool' = {tx \in mempool : \A i \in DOMAIN rewritten.txs : rewritten.txs[i].id # tx.id}
  /\ UNCHANGED <<params, dbHeight>>

\* A registration is refused once the block has been stored.
AddBlockRegisterError(b) ==
  LET rewritten == Rewritten(b, Kept(Order(b)))
  IN  /\ AddBlockStore(b, rewritten)
      /\ BadRegister(rewritten) # 0
      /\ masternodes' = MasternodesAfter(rewritten, BadRegister(rewritten) - 1)
      /\ UNCHANGED <<tickets, tip, height>>

\* Slashes have been dropped from the block, so the masternode loop only
\* registers.  The result of update_for_new_block is ignored.
AddBlockApply(b, rewritten) ==
  /\ AddBlockStore(b, rewritten)
  /\ BadRegister(rewritten) = 0
  /\ masternodes' = MasternodesAfter(rewritten, Len(rewritten.txs))
  /\ tickets' = UpdateForNewBlock(tickets, rewritten, UsedTicketIds(utxos'))

\* The state root of the header differs from the one of the new state, which
\* is only known once the block has been applied and stored.
AddBlockRootError(b) ==
  /\ AddBlockApply(b, Rewritten(b, Kept(Order(b))))
  /\ UNCHANGED <<tip, height>>

AddBlockOk(b) ==
  LET rewritten == Rewritten(b, Kept(Order(b)))
  IN  /\ AddBlockApply(b, rewritten)
      /\ UpdateTip(BlockHash(rewritten), b.height)

AddBlock(b) ==
  \/ AddBlockRefused(b)
  \/ AddBlockRegisterError(b)
  \/ AddBlockRootError(b)
  \/ AddBlockOk(b)

-----------------------------------------------------------------------------
(* The other operations on the state.                                      *)

\* BlockchainState::save_to_disk
SaveToDisk ==
  /\ dbHeight' = height
  /\ UNCHANGED <<utxos, tickets, masternodes, proposals, params, mempool, blocks, index,
                 tip, height>>

\* MasternodeList::update_masternode_status, called by other components.
UpdateMasternodeStatus(m, s) ==
  /\ masternodes' = [masternodes EXCEPT ![m] = s]
  /\ UNCHANGED <<utxos, tickets, proposals, params, mempool, blocks, index, tip, height,
                 dbHeight>>

\* Mempool::add_transaction, which rusty-rpc and the relay protocol call.
AddTransaction(tx) ==
  /\ tx.id \notin {t.id : t \in mempool}
  /\ mempool' = mempool \cup {tx}
  /\ UNCHANGED <<utxos, tickets, masternodes, proposals, params, blocks, index, tip,
                 height, dbHeight>>

\* A fault: the inputs of the other transactions are not looked at.
AddConflicting(tx) ==
  /\ tx.kind # "coinbase" /\ tx.ins # <<>> /\ tx.outs # <<>>
  /\ Inputs(tx) \subseteq DOMAIN utxos
  /\ InputSum(utxos, tx) - OutputSum(tx) \in MinFee .. MaxFee(tx)
  /\ AddTransaction(tx)

\* Mempool::validate_and_add_transaction, which rusty-jsonrpc calls.
ValidateAndAddTransaction(tx) ==
  /\ tx.kind # "coinbase" /\ tx.ins # <<>> /\ tx.outs # <<>>
  /\ \A i \in DOMAIN tx.outs : tx.outs[i] >= MempoolDust
  /\ \A op \in Inputs(tx) : op \in DOMAIN utxos /\ \A t \in mempool : op \notin Inputs(t)
  /\ InputSum(utxos, tx) - OutputSum(tx) \in MinFee .. MaxFee(tx)
  /\ tx.script
  /\ AddTransaction(tx)

Other ==
  \/ SaveToDisk
  \/ \E tx \in RelayedTxs : AddTransaction(tx)
  \/ \E tx \in ClientTxs : ValidateAndAddTransaction(tx)
  \/ \E m \in DOMAIN masternodes, s \in MnStatuses : UpdateMasternodeStatus(m, s)

\* Any block may be offered at any time, and any stored block reverted.
Next ==
  \/ \E b \in Blocks : ProcessBlock(b) \/ AddBlock(b)
  \/ \E h \in DOMAIN blocks : RevertBlock(blocks[h])
  \/ Other

Spec == Init /\ [][Next]_vars

\* A caller that follows the chain: only a child of the tip is processed and
\* only the tip is reverted.
IsChild(b) ==
  /\ b.prev = tip
  /\ IF tip = ZeroHash THEN b.height = 0 ELSE b.height = height + 1

ChainNext ==
  \/ \E b \in Blocks : IsChild(b) /\ (ProcessBlock(b) \/ AddBlock(b))
  \/ tip # ZeroHash /\ tip \in DOMAIN blocks /\ RevertBlock(blocks[tip])
  \/ Other

ChainSpec == Init /\ [][ChainNext]_vars

\* The same without reverts.  A block for add_block may name its parent by the
\* hash of its header, which is what add_block compares the link with.
IsHeaderChild(b) ==
  /\ tip \in DOMAIN blocks
  /\ b.prev = blocks[tip].hdr
  /\ b.height = height + 1

ForwardNext ==
  \/ \E b \in Blocks : IsChild(b) /\ (ProcessBlock(b) \/ AddBlock(b))
  \/ \E b \in Blocks : IsHeaderChild(b) /\ AddBlock(b)
  \/ Other

ForwardSpec == Init /\ [][ForwardNext]_vars

-----------------------------------------------------------------------------
(* Properties.                                                             *)

\* The types of the parts of the state that carry data: unspent outputs,
\* tickets, masternode statuses, and the heights of the store and the tip.
TypeOK ==
  /\ \A op \in DOMAIN utxos : /\ utxos[op].coinbase \in BOOLEAN
                              /\ utxos[op].height \in 0 .. W - 1
  /\ \A k \in DOMAIN tickets : /\ tickets[k].height \in 0 .. W - 1
                               /\ tickets[k].status \in {"Pending", "Live"}
  /\ \A m \in DOMAIN masternodes : masternodes[m] \in {"Registered"} \cup MnStatuses
  /\ DOMAIN index \subseteq 0 .. W - 1
  /\ height \in 0 .. W - 1
  /\ dbHeight \in 0 .. W - 1

\* Every height of the database points to a stored block of that height, so
\* get_block never finds a dangling hash: put_block, remove_block_by_hash and
\* remove_block_by_height keep the two kinds of entry in step, also when
\* blocks of the same height compete and when a handler fails halfway.
IndexSound ==
  \A n \in DOMAIN index : /\ index[n] \in DOMAIN blocks
                          /\ blocks[index[n]].height = n
                          /\ BlockHash(blocks[index[n]]) = index[n]

\* When blocks extend and leave the tip only, the tip is the block that the
\* database holds at the current height, whichever handlers failed before.
TipIndexed ==
  tip # ZeroHash => height \in DOMAIN index /\ index[height] = tip

\* Down from the tip, the database holds an unbroken chain: each block links
\* to the one stored a height below.
ChainLinked ==
  tip # ZeroHash =>
    \A n \in 1 .. height : /\ n \in DOMAIN index /\ n - 1 \in DOMAIN index
                           /\ blocks[index[n]].prev = index[n - 1]

OnChain == {blocks[index[n]] : n \in DOMAIN index \cap 0 .. height}

\* A block creates an output, as its own or as one of its coinbase under the
\* txid that this gets when add_block writes the reward into it.
MayCreate(b, op) ==
  \E tx \in Range(b.txs) : /\ op[2] \in DOMAIN tx.outs
                           /\ op[1] = tx.id \/ SubSeq(op[1], 1, Len(op[1]) - 1) = tx.id

\* An output is spent by two blocks of the chain only if a block of a height in
\* between creates it again, as a coinbase with the content of an earlier one
\* does: what process_block and add_block accept has its inputs in the UTXO
\* set, and an accepted block removes them from it.  The block that creates the
\* output again need not be on the chain: one that failed halfway leaves its
\* outputs behind.
SpentOnce ==
  \A b, c \in OnChain : \A op \in BlockInputs(b) \cap BlockInputs(c) :
    (b.height < c.height /\ op[1] # NullTxid) =>
      \E d \in Blocks : d.height \in b.height .. c.height /\ MayCreate(d, op)

\* No ticket is live more than one block early (the block after the tip may
\* have been applied in part), and none stays pending once the block that
\* confirms it is on the chain, except right behind a block with a purchase
\* that ended update_for_new_block and that add_block accepted all the same.
TicketFinality ==
  \A k \in DOMAIN tickets :
    /\ tickets[k].status = "Live" => tickets[k].height + FinalityDepth <= height + 1
    /\ (tickets[k].status = "Pending" /\ height >= tickets[k].height + FinalityDepth)
         => BadPurchase(blocks[tip]) # 0

Total(u) == SumOf([op \in DOMAIN u |-> u[op].value])
Minted(b) == SumOf([i \in DOMAIN b.txs |->
                      IF b.txs[i].kind = "coinbase" THEN OutputSum(b.txs[i]) ELSE 0])
NoConflict(b) ==
  /\ \A i \in DOMAIN b.txs : IsInjective(b.txs[i].ins)
  /\ \A i, j \in DOMAIN b.txs : i # j => Inputs(b.txs[i]) \cap Inputs(b.txs[j]) = {}

\* Value comes from coinbases only: a processed block in which no output is
\* spent twice adds no more than its coinbase pays, also when processing fails
\* halfway, and a reverted block adds nothing.
NoInflation ==
  [][/\ \A b \in Blocks :
          (NoConflict(b) /\ ProcessBlock(b)) => Total(utxos') <= Total(utxos) + Minted(b)
     /\ (tip \in DOMAIN blocks /\ RevertBlock(blocks[tip])) => Total(utxos') <= Total(utxos)]_vars

\* While no block is reverted, a recorded vote stays as it was cast until its
\* proposal is dropped: a voter's second vote is refused, and a block that
\* add_block refuses after some of its votes took effect disturbs no other.
VotesStick ==
  [][\A id \in DOMAIN proposals \cap DOMAIN proposals' :
       \A v \in DOMAIN proposals[id].votes :
         /\ v \in DOMAIN proposals'[id].votes
         /\ proposals'[id].votes[v] = proposals[id].votes[v]]_vars

\* Governance never changes a parameter: a proposal is evaluated only when its
\* activation delay has run out, and evaluate_proposal_at_height then calls
\* it expired whatever its votes.
ParamsFrozen == params = InitParams

\* Two mempool transactions never spend the same output when all of them came
\* through validate_and_add_transaction.
MempoolConflictFree ==
  \A t, u \in mempool : t # u => Inputs(t) \cap Inputs(u) = {}

-----------------------------------------------------------------------------
(* What the documentation, the comments and the tests say of the chain and *)
(* the code does not do.  Each of these is refuted by a run.               *)

\* blockchain.rs, process_block: "2. Validate transactions (signatures, fees,
\* double-spends, scripts)".  Each transaction is checked against the UTXO set
\* before the block, so two of them may spend the same output.
NoDoubleSpendInBlock ==
  \A b \in OnChain : \A i, j \in DOMAIN b.txs :
    i # j => Inputs(b.txs[i]) \cap Inputs(b.txs[j]) = {}

\* 05_utxo_model_spec.md: when a block is removed "the UTXO_SET must be reverted
\* to its state prior to the removed block".  revert_block brings an output
\* back without its value, script and height.
RevertRestoresInputs ==
  [][(tip \in DOMAIN blocks /\ RevertBlockOk(blocks[tip])) =>
       \A c \in OnChain : \A op \in BlockInputs(blocks[tip]) \cap BlockOutputs(c) :
         op \in DOMAIN utxos' /\ utxos'[op] = NewUtxo(c, op)]_vars

\* 05_utxo_model_spec.md: the UTXO set "is updated with each new valid block
\* added to the canonical blockchain", atomically.  process_block updates it
\* before the steps that may refuse the block.
UtxosFollowTip == [][utxos' # utxos => tip' # tip]_vars
=============================================================================
