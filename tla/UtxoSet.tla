------------------------------ MODULE UtxoSet -------------------------------
(***************************************************************************)
(* The UTXO set of rusty-core (consensus/utxo_set.rs) as operators on a    *)
(* map from outpoints to unspent outputs.                                  *)
(*                                                                         *)
(* An outpoint is <<txid, vout>>, with vout counted from 1.  A transaction *)
(* is a record with at least                                               *)
(*   id      its txid (the hash of its serialisation),                     *)
(*   kind    the variant of the Transaction enum,                          *)
(*   ins     the sequence of outpoints it spends,                          *)
(*   outs    the sequence of values of its outputs,                        *)
(*   fee, lock   what get_fee and get_lock_time return,                    *)
(*   script  the verdict of the script engine on its inputs.               *)
(* A block is a record with at least height and txs, the sequence of its   *)
(* transactions.                                                           *)
(***************************************************************************)
EXTENDS Integers, Sequences, FiniteSets, FiniteSetsExt, Functions, Maps

CONSTANTS
  W,                  \* 2^64: u64 arithmetic wraps modulo W in release builds
  CoinbaseMaturity,   \* COINBASE_MATURITY_PERIOD_BLOCKS
  DustLimit           \* DUST_LIMIT

ASSUME UtxoAssumption ==
  /\ W \in Nat \ {0}
  /\ CoinbaseMaturity \in Nat
  /\ DustLimit \in Nat

-----------------------------------------------------------------------------
Inputs(tx)      == Range(tx.ins)
Outpoints(tx)   == {<<tx.id, i>> : i \in DOMAIN tx.outs}
BlockInputs(b)  == UNION {Inputs(tx) : tx \in Range(b.txs)}
BlockOutputs(b) == UNION {Outpoints(tx) : tx \in Range(b.txs)}

\* The value an input carries: nothing when its outpoint is unknown.
InputValue(utxos, op) == IF op \in DOMAIN utxos THEN utxos[op].value ELSE 0

\* Inputs are summed one by one, so an outpoint listed twice counts twice.
InputSum(utxos, tx) == SumOf([i \in DOMAIN tx.ins |-> InputValue(utxos, tx.ins[i])])
OutputSum(tx)       == SumOf(tx.outs)

NewUtxo(b, op) ==
  LET tx == CHOOSE t \in Range(b.txs) : op \in Outpoints(t)
  IN  [value    |-> tx.outs[op[2]],
       coinbase |-> tx.kind = "coinbase",
       height   |-> b.height]

\* A fault: the outputs are added and the inputs are left in the set.
UpdateKeepsInputs(utxos, b) ==
  [op \in DOMAIN utxos \cup BlockOutputs(b) |->
     IF op \in BlockOutputs(b) THEN NewUtxo(b, op) ELSE utxos[op]]

\* update_from_block: every input of the block is removed before any output
\* of the block is added.
UpdateFromBlock(utxos, b) ==
  [op \in (DOMAIN utxos \ BlockInputs(b)) \cup BlockOutputs(b) |->
     IF op \in BlockOutputs(b) THEN NewUtxo(b, op) ELSE utxos[op]]

\* What get_historical_utxo makes up for an outpoint the set does not hold.
DummyUtxo == [value |-> 0, coinbase |-> FALSE, height |-> 0]

\* The first transaction of the block that mentions the outpoint: the last
\* one that revert_block meets, which decides whether the outpoint is kept.
FirstTouch(b, op) ==
  Min({i \in DOMAIN b.txs : op \in Inputs(b.txs[i]) \cup Outpoints(b.txs[i])})

\* revert_block walks the transactions backwards: each removes its outputs
\* and then puts its inputs back.  A spent output is not kept anywhere, so
\* what comes back is whatever the set holds or else the dummy.
RevertFromBlock(utxos, b) ==
  LET touched  == BlockInputs(b) \cup BlockOutputs(b)
      restored == {op \in BlockInputs(b) : op \in Inputs(b.txs[FirstTouch(b, op)])}
  IN  [op \in (DOMAIN utxos \ touched) \cup restored |->
         IF op \in DOMAIN utxos \ BlockOutputs(b) THEN utxos[op] ELSE DummyUtxo]

\* get_used_inputs_as_ticket_ids
UsedTicketIds(utxos) == {op[1] : op \in {o \in DOMAIN utxos : ~utxos[o].coinbase}}

-----------------------------------------------------------------------------
SaturatingSub(x, y) == IF x >= y THEN x - y ELSE 0

\* validate_transaction_comprehensive, the check add_block makes of every
\* transaction against the height it read from the database.
ValidateComprehensive(utxos, tx, height) ==
  /\ IsInjective(tx.ins)
  /\ \A op \in Inputs(tx) :
       /\ op \in DOMAIN utxos
       /\ utxos[op].coinbase =>
            SaturatingSub(height, utxos[op].height) >= CoinbaseMaturity
       /\ height >= tx.lock
  /\ \A i \in DOMAIN tx.outs : tx.outs[i] >= DustLimit
  /\ InputSum(utxos, tx) >= OutputSum(tx) + tx.fee

-----------------------------------------------------------------------------
(***************************************************************************)
(* The pool of proof-of-stake tickets of rusty-core (LiveTicketsPool of    *)
(* consensus/pos.rs) as operators on a map from ticket ids to tickets.     *)
(*                                                                         *)
(* The pool files a ticket under the hash of the buyer's public key, not   *)
(* under the ticket_id that the purchase declares.  In a purchase, key     *)
(* stands for that hash, ticket for the declared id and keyOk for whether  *)
(* ticket_address is a public key of 32 bytes.                             *)
(***************************************************************************)

CONSTANTS
  FinalityDepth,      \* POS_FINALITY_DEPTH
  VotersPerBlock,     \* VOTERS_PER_BLOCK
  LotteryScore(_, _)  \* the lottery score of a ticket id for a block hash

ASSUME TicketsAssumption ==
  /\ FinalityDepth \in Nat \ {0}
  /\ VotersPerBlock \in Nat

-----------------------------------------------------------------------------
Purchases(b) == {i \in DOMAIN b.txs : b.txs[i].kind = "purchase"}

\* The first purchase without an output or a public key ends the update with an
\* error; 0 when there is none.
BadPurchase(b) ==
  LET bad == {i \in Purchases(b) : ~b.txs[i].keyOk \/ b.txs[i].outs = <<>>}
  IN  IF bad = {} THEN 0 ELSE Min(bad)

\* The purchases whose tickets reach the pool: all, or those before the bad.
Bought(b) ==
  IF BadPurchase(b) = 0 THEN Purchases(b)
                        ELSE {i \in Purchases(b) : i < BadPurchase(b)}

\* A later purchase of the same key overwrites an earlier one.
NewTicket(b, k) ==
  LET i == Max({j \in Bought(b) : b.txs[j].key = k})
  IN  [height |-> b.height, value |-> b.txs[i].outs[1], status |-> "Pending"]

Live(t) == [height |-> t.height, value |-> t.value, status |-> "Live"]

\* A fault: a ticket becomes live a block late.
FinalityOffByOne(pool, height) ==
  [k \in DOMAIN pool |->
     IF pool[k].status = "Pending" /\ height > pool[k].height + FinalityDepth
     THEN Live(pool[k])
     ELSE pool[k]]

\* process_ticket_finality
ProcessTicketFinality(pool, height) ==
  [k \in DOMAIN pool |->
     IF pool[k].status = "Pending" /\ height >= pool[k].height + FinalityDepth
     THEN Live(pool[k])
     ELSE pool[k]]

\* The pool after update_for_new_block, which stops before the finality pass
\* when it meets a bad purchase.
UpdateForNewBlock(pool, b, used) ==
  LET keys == {b.txs[i].key : i \in Bought(b)}
      next == [k \in (DOMAIN pool \ used) \cup keys |->
                 IF k \in keys THEN NewTicket(b, k) ELSE pool[k]]
  IN  IF BadPurchase(b) = 0 THEN ProcessTicketFinality(next, b.height) ELSE next

\* update_for_revert_block: it looks for the declared ids only, and the
\* redeemed tickets are not brought back.
UpdateForRevertBlock(pool, b) ==
  Restrict(pool, DOMAIN pool \ {b.txs[i].ticket : i \in Purchases(b)})

-----------------------------------------------------------------------------
\* select_voters: the VotersPerBlock live tickets of highest score.  Ties are
\* broken by id in the code; LotteryScore is injective here.
SelectVoters(prev, pool) ==
  LET live == {k \in DOMAIN pool : pool[k].status = "Live"}
  IN  {k \in live : Cardinality({j \in live :
                      LotteryScore(prev, j) > LotteryScore(prev, k)}) < VotersPerBlock}
=============================================================================
