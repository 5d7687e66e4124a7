--------------------------- MODULE BlockValidation --------------------------
(***************************************************************************)
(* The validation of blocks and transactions in rusty-consensus            *)
(* (validation.rs) against its UTXO set, and the application of a block.   *)
(*                                                                         *)
(* A block is a header (version, prev, root, stateRoot, target, time,      *)
(* height, pow for whether its hash meets the target) and transactions.    *)
(* The Merkle root of a list of transactions is the list itself.  Of a     *)
(* script, a signature and a proof only the outcome of the check is kept.  *)
(***************************************************************************)
EXTENDS Integers, Sequences, SequencesExt, FiniteSets, FiniteSetsExt, Maps, TLC

CONSTANTS Candidates,      \* the blocks that may arrive
          Genesis, GenesisCoins, NullOutpoint,
          MaxTxSize, MaxBlockBytes, DustLimit, FeePerByte, CoinMaturity, BlockReward,
          CollateralAmount, FutureLimit, RetargetInterval, LocktimeThreshold,
          KnownTickets,    \* ticket_voting: ticket -> status
          KnownNodes,      \* masternode_list: id -> collateral, amount, failures
          MaxFailures, SlashPercent,
          MaxClock         \* bound

VARIABLES previous,   \* the block on top
          coins,      \* utxos: outpoint -> value, height, coinbase
          clock
validationVars == <<previous, coins, clock>>

\* Block::hash covers the whole block, BlockHeader::hash the header alone.
FullHash(b) == <<"block", b.id>>
HeaderHash(b) == <<"header", b.id>>
ToMerkleRoot(txs) == [n \in DOMAIN txs |-> txs[n].id]
IsCoinbase(tx) == tx.kind = "coinbase"
OutSum(tx) == FoldLeft(LAMBDA sum, o : sum + o.value, 0, tx.outs)
InSum(tx) == FoldLeft(LAMBDA sum, o : sum + coins[o].value, 0, tx.ins)
InputsExist(tx) == ToSet(tx.ins) \subseteq DOMAIN coins
InputsMature(tx, h) ==
  \A o \in ToSet(tx.ins) : coins[o].coinbase => h >= coins[o].height + CoinMaturity
PaysFee(tx) == InSum(tx) - OutSum(tx) >= FeePerByte * tx.size
NotDust(tx) == \A o \in ToSet(tx.outs) : o.opReturn \/ o.value >= DustLimit
LockMet(tx, h, t) == tx.lock <= IF tx.lock < LocktimeThreshold THEN h ELSE t

\* validate_transaction: here a coinbase has no input, and a lock time counts when some
\* sequence number is low.
ValidateSingle(tx, h, t) ==
  /\ tx.ins # <<>> \/ tx.outs # <<>>
  /\ tx.size <= MaxTxSize
  /\ IF IsCoinbase(tx) THEN tx.ins = <<>>
     ELSE /\ tx.ins # <<>> /\ IsInjective(tx.ins) /\ InputsExist(tx) /\ InputsMature(tx, h)
          /\ tx.script /\ PaysFee(tx)
          /\ tx.lowSequence => LockMet(tx, h, t)
  /\ NotDust(tx) /\ \A o \in ToSet(tx.outs) : o.script

\* validate_block_header.  The Merkle root is compared with that of the block before.
ValidateHeader(b, prev, t) ==
  /\ b.version = 1 /\ b.prev = FullHash(prev)
  /\ b.root = ToMerkleRoot(prev.txs)
  /\ prev.height % RetargetInterval # 0 => b.target = prev.target
  /\ b.time <= t + FutureLimit /\ b.time > prev.time /\ b.pow

ValidateBlock(b, prev, t) ==
  /\ b.prev = HeaderHash(prev) /\ b.height = prev.height + 1
  /\ b.root = ToMerkleRoot(b.txs) /\ ValidateHeader(b, prev, t)

\* validate_masternode_registration
ValidateRegistration(tx) ==
  /\ tx.ins # <<>>
  /\ \E o \in ToSet(tx.outs) : o.value = CollateralAmount
  /\ \A o \in ToSet(tx.outs) : o.value = CollateralAmount => o.script

ValidatePurchase(tx) ==
  /\ tx.outs # <<>> /\ tx.outs[1].value = tx.locked /\ tx.addressOk
  /\ tx.ticket \notin DOMAIN KnownTickets

\* MasternodeSlashTx: its form, the collateral it spends, the reason and the amount,
\* which may be off by one.
ValidateSlash(tx) ==
  /\ tx.proof # "oversized" /\ Len(tx.ins) = 1 /\ tx.outs # <<>> /\ tx.outs[1].opReturn
  /\ tx.mn \in DOMAIN KnownNodes /\ tx.ins[1] = KnownNodes[tx.mn].collateral
  /\ IF tx.reason = "MasternodeNonResponse" THEN KnownNodes[tx.mn].failures >= MaxFailures
     ELSE tx.proof # "empty"
  /\ LET amount == IF KnownNodes[tx.mn].amount > 0 THEN KnownNodes[tx.mn].amount ELSE CollateralAmount
         expected == (amount * SlashPercent[tx.reason]) \div 100
     IN  tx.outs[1].value \in expected - 1 .. expected + 1

\* The match on the type of the transaction in validate_transactions.
ValidForKind(tx, h) ==
  CASE tx.kind = "register" -> ValidateRegistration(tx)
    [] tx.kind = "collateral" -> /\ tx.amount = CollateralAmount
                                 /\ Len(tx.outs) = 1 /\ tx.outs[1].value = tx.amount
    [] tx.kind = "purchase" -> ValidatePurchase(tx)
    [] tx.kind = "redemption" -> /\ tx.ticket \in DOMAIN KnownTickets
                                 /\ KnownTickets[tx.ticket] \in {"Expired", "Revoked"}
    [] tx.kind = "proposal" -> tx.described /\ tx.end >= tx.start /\ tx.start >= h
    [] tx.kind = "activation" -> tx.at > h
    [] tx.kind = "ticketSlash" -> tx.proof = "valid"
    [] tx.kind = "slash" -> ValidateSlash(tx)
    [] OTHER -> TRUE

\* validate_transaction_structure: here a coinbase has the null input.
ValidateStructure(tx) ==
  /\ tx.size <= MaxTxSize
  /\ ~IsCoinbase(tx) => tx.ins # <<>> /\ InputsExist(tx) /\ tx.script
  /\ tx.outs # <<>> /\ NotDust(tx)
  /\ \A o \in ToSet(tx.outs) : o.value > 0
  /\ IF IsCoinbase(tx) THEN tx.ins = <<NullOutpoint>>
     ELSE PaysFee(tx) /\ (tx.lock # 0 => ~tx.maxSequence)

\* The rest of the loop of validate_transactions: the inputs of every transaction, the
\* coinbase included, are looked up.
ValidateInputs(txs, n, h, t) ==
  LET tx == txs[n] IN
  /\ InputsExist(tx) /\ InputsMature(tx, h) /\ IsInjective(tx.ins)
  /\ \A m \in 1 .. n - 1 : ToSet(txs[m].ins) \cap ToSet(tx.ins) = {}
  /\ ~IsCoinbase(tx) => PaysFee(tx)
  /\ LockMet(tx, h, t)

ValidateTransactions(txs, h, t) ==
  /\ txs # <<>> /\ IsCoinbase(txs[1])
  /\ \A n \in DOMAIN txs :
       /\ n > 1 => ~IsCoinbase(txs[n])
       /\ ValidateStructure(txs[n]) /\ ValidForKind(txs[n], h) /\ ValidateInputs(txs, n, h, t)

\* Of an adjustment block nothing is required when fewer blocks than an interval are
\* at hand, as here.
TargetExpected(b, prev) ==
  (b.height - 1) % RetargetInterval # 0 \/ b.height = 1 => b.target = prev.target

RewardCovered(b) ==
  LET Fee(n) == InSum(b.txs[n]) - OutSum(b.txs[n])
  IN  OutSum(b.txs[1]) <= BlockReward + MapThenSumSet(Fee, 2 .. Len(b.txs))

ValidateBlockComprehensive(b, prev, t) ==
  /\ ValidateHeader(b, prev, t)
  /\ b.size <= MaxBlockBytes
  /\ ValidateTransactions(b.txs, b.height, t)
  /\ Len(b.txs[1].ins) = 1
  /\ b.root = ToMerkleRoot(b.txs)
  /\ IsInjective(ToMerkleRoot(b.txs))
  /\ \A n \in 2 .. Len(b.txs) : ValidateSingle(b.txs[n], b.height, t)
  /\ RewardCovered(b)
  /\ b.votes \in {"none", "valid"}
  /\ b.stateRoot # 0
  /\ TargetExpected(b, prev)

NewCoins(b) ==
  [o \in UNION {{<<b.txs[n].id, k>> : k \in DOMAIN b.txs[n].outs} : n \in DOMAIN b.txs} |->
     LET n == CHOOSE i \in DOMAIN b.txs : b.txs[i].id = o[1]
     IN  [value |-> b.txs[n].outs[o[2]].value, height |-> b.height, coinbase |-> IsCoinbase(b.txs[n])]]

ApplyBlockToUtxoSet(b) ==
  LET spending == SelectSeq(b.txs, LAMBDA tx : ~IsCoinbase(tx))
      spent == UNION {ToSet(spending[n].ins) : n \in DOMAIN spending}
  IN  NewCoins(b) @@ Without(coins, spent)

ValidationInit == previous = Genesis /\ coins = GenesisCoins /\ clock = Genesis.time

\* A block that passes a validation is applied.
ConnectBlock(b) ==
  /\ ValidateBlock(b, previous, clock) \/ ValidateBlockComprehensive(b, previous, clock)
  /\ previous' = b /\ coins' = ApplyBlockToUtxoSet(b) /\ UNCHANGED clock

Tick == clock < MaxClock /\ clock' = clock + 1 /\ UNCHANGED <<previous, coins>>

ValidationNext == Tick \/ \E b \in Candidates : ConnectBlock(b)
ValidationSpec == ValidationInit /\ [][ValidationNext]_validationVars

-----------------------------------------------------------------------------
\* The validation of rusty-consensus takes a well-formed block on top of the chain: one
\* that links to the block before by either hash, carries the root of its own
\* transactions and the same target, is later, and has a coinbase with the null input
\* that pays the reward, and payments that validate_transaction takes.
WellFormedIsAccepted ==
  \A b \in Candidates :
    /\ b.version = 1 /\ b.prev \in {FullHash(previous), HeaderHash(previous)}
    /\ b.height = previous.height + 1
    /\ b.root = ToMerkleRoot(b.txs) /\ b.target = previous.target /\ b.pow
    /\ b.time \in previous.time + 1 .. clock
    /\ b.txs # <<>> /\ b.txs[1].ins = <<NullOutpoint>> /\ RewardCovered(b)
    /\ \A n \in 2 .. Len(b.txs) : ValidateSingle(b.txs[n], b.height, clock)
    => ValidateBlock(b, previous, clock) \/ ValidateBlockComprehensive(b, previous, clock)
=============================================================================
