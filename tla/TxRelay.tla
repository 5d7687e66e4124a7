------------------------------ MODULE TxRelay ------------------------------
(***************************************************************************)
(* Transactions on their way through a node: TxPropHandler                 *)
(* (rusty-p2p/src/protocols/tx_prop.rs) takes them from peers, the mempool *)
(* (rusty-core/src/mempool.rs) keeps them until a block confirms them and  *)
(* fills block templates from them.                                        *)
(*                                                                         *)
(* A transaction is a record [id, fee, size, coinbase, ins, outs]: ins and *)
(* outs are how many inputs it has and the values of its outputs.  The     *)
(* hash of its bytes and its txid are both its id.                         *)
(***************************************************************************)
EXTENDS Integers, FiniteSets, Sequences, Maps

CONSTANTS
    RelayTxs,      \* the transactions peers and clients send
    KnownCapacity, \* of the cache of known transactions (100,000)
    RelayMaxSize,  \* the largest transaction relayed (100,000 bytes)
    RelayDust,     \* the least output relayed (546)
    TemplateSizes  \* the block sizes templates are asked for

VARIABLES
    trKnown,     \* known_txs: ids, the most recent first
    trPool,      \* the mempool
    trRecent,    \* history: the ids handled, the most recent first
    trConfirmed, \* history: those of them that a block confirmed
    trTemplate   \* the last block template: [size, txs]

trVars == <<trKnown, trPool, trRecent, trConfirmed, trTemplate>>

TrInit ==
    /\ trKnown = <<>> /\ trPool = {} /\ trRecent = <<>> /\ trConfirmed = {}
    /\ trTemplate = [size |-> 0, txs |-> <<>>]

IsKnown(t) == t.id \in Range(trKnown)

\* LruCache::put.
LruPut(cache, id) ==
    LET moved == <<id>> \o SelectSeq(cache, LAMBDA x : x # id)
    IN  SubSeq(moved, 1, IF Len(moved) < KnownCapacity THEN Len(moved) ELSE KnownCapacity)

\* TxPropHandler::validate_transaction.
validate_transaction(t) ==
    /\ ~t.coinbase
    /\ t.ins > 0 /\ t.outs # {}
    /\ t.size <= RelayMaxSize
    /\ \A v \in t.outs : v >= RelayDust

\* Mempool::add_transaction, through add_to_mempool.
add_to_mempool(t) == trPool \union {t}

\* The history of a transaction handled: the oldest is forgotten.
Handled(t) ==
    /\ trRecent' = LruPut(trRecent, t.id)
    /\ trConfirmed' = {c \in trConfirmed : c.id \in Range(trRecent')}

\* A fault: a transaction is marked as known only when it is refused.
HandleWithoutMark(t) ==
    /\ ~IsKnown(t)
    /\ IF validate_transaction(t)
       THEN trPool' = add_to_mempool(t) /\ UNCHANGED trKnown
       ELSE trKnown' = LruPut(trKnown, t.id) /\ UNCHANGED trPool
    /\ Handled(t)
    /\ UNCHANGED trTemplate

\* handle_tx: a known transaction is dropped; any other is marked as known,
\* whatever becomes of it, and enters the pool when it is well formed.
handle_tx(t) ==
    /\ ~IsKnown(t)
    /\ trKnown' = LruPut(trKnown, t.id)
    /\ trPool' = IF (t.ins > 0 \/ t.coinbase) /\ t.outs # {} /\ validate_transaction(t)
                 THEN add_to_mempool(t) ELSE trPool
    /\ Handled(t)
    /\ UNCHANGED trTemplate

\* broadcast_tx: the node's own transaction is marked as known and published.
broadcast_tx(t) ==
    /\ trKnown' = LruPut(trKnown, t.id)
    /\ Handled(t)
    /\ UNCHANGED <<trPool, trTemplate>>

\* A block confirms transactions of the pool: Mempool::remove_transaction.
remove_transactions(S) ==
    /\ S # {} /\ S \subseteq trPool
    /\ trPool' = trPool \ S
    /\ trConfirmed' = trConfirmed \union {t \in S : t.id \in Range(trRecent)}
    /\ UNCHANGED <<trKnown, trRecent, trTemplate>>

\* The order of a template: the fee rate, in thousandths and truncated, falls;
\* equal rates go by txid.
fee_rate(t) == IF t.size > 0 THEN (t.fee * 1000) \div t.size ELSE 0

ByFeeRate(S) ==
    CHOOSE s \in Orders(S) : \A i, j \in DOMAIN s :
        i < j => \/ fee_rate(s[i]) > fee_rate(s[j])
                 \/ fee_rate(s[i]) = fee_rate(s[j]) /\ s[i].id < s[j].id

SizeOf(txs) == SumOf([i \in DOMAIN txs |-> txs[i].size])

\* The transactions of a template: the longest beginning of that order that fits.
Selected(S, max) ==
    LET s == ByFeeRate(S)
        fits == {n \in 0..Len(s) : SizeOf(SubSeq(s, 1, n)) <= max}
    IN  SubSeq(s, 1, CHOOSE n \in fits : \A m \in fits : m <= n)

\* get_transactions_for_block_template.
get_transactions_for_block_template(max) ==
    /\ trTemplate' = [size |-> max, txs |-> Selected(trPool, max)]
    /\ UNCHANGED <<trKnown, trPool, trRecent, trConfirmed>>

TrNext ==
    \/ \E t \in RelayTxs : handle_tx(t) \/ broadcast_tx(t)
    \/ \E S \in SUBSET trPool : remove_transactions(S)
    \/ \E max \in TemplateSizes : get_transactions_for_block_template(max)

TrSpec == TrInit /\ [][TrNext]_trVars

(***************************************************************************)
(* Properties.                                                             *)
(***************************************************************************)

\* A transaction that peers relayed and a block confirmed does not come back
\* into the pool as long as it is among the transactions handled last
\* (handle_tx, known_txs).
ConfirmedStaysOut ==
    \A t \in trConfirmed : t.id \in Range(trRecent) => t \notin trPool
=============================================================================
