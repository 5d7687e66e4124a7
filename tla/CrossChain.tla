----------------------------- MODULE CrossChain -----------------------------
(***************************************************************************)
(* Messages between chains and the processor that acts on them:            *)
(* rusty-core/sidechain/cross_chain_communication.rs and                   *)
(* cross_chain_processor.rs.                                               *)
(*                                                                         *)
(* The communication object is behind a mutex that process_messages takes  *)
(* to drain the messages and again for each of them.  Between two of these *)
(* steps other threads send messages and change federations.  The          *)
(* processor itself is borrowed mutably for the whole call, so nothing is  *)
(* executed in between.                                                    *)
(*                                                                         *)
(* A message is [type, source, destination, sequence, signed, tx]; tx is   *)
(* Malformed or [id, amount, source, destination, sigs] with sigs one of   *)
(* "none", "bad" and "good".                                               *)
(***************************************************************************)
EXTENDS Integers, Sequences, FiniteSets, Maps

CONSTANTS
  Chains, Mainchain,
  Federated,           \* the chains with a federation
  Messages,            \* the messages that are sent
  Malformed,           \* a payload that does not deserialize
  HasInterface,        \* with_mainchain_interface was called
  MaxMessages          \* bound on the messages that are sent between two chains

VARIABLES
  pending_messages,    \* by destination
  sequence_numbers,    \* by source and destination
  verifies,            \* whose current federations accept their signatures
  inbox,               \* messages of process_messages: drained, not yet processed
  tx_pools,            \* by chain
  processed_txs,       \* status by transaction id
  submitted            \* what the mainchain interface accepted, by transaction id

crossVars == <<pending_messages, sequence_numbers, verifies, inbox, tx_pools,
               processed_txs, submitted>>

\* The integrator checks messages, the processor's own manager transactions.
Verifiers == {"integrator", "processor"} \X Federated

CrossInit ==
  /\ pending_messages = EmptyMap /\ sequence_numbers = EmptyMap
  /\ verifies = Verifiers
  /\ inbox = <<>>
  /\ tx_pools = EmptyMap /\ processed_txs = EmptyMap /\ submitted = EmptyMap

At(map, k, default) == IF k \in DOMAIN map THEN map[k] ELSE default

\* A federation is replaced, and signatures of its members stop or start to verify.
FederationChanges(who) ==
  /\ verifies' = IF who \in verifies THEN verifies \ {who} ELSE verifies \cup {who}
  /\ UNCHANGED <<pending_messages, sequence_numbers, inbox, tx_pools, processed_txs, submitted>>

Authentic(m) == m.signed /\ <<"integrator", m.source>> \in verifies

SendMessage(m) ==
  LET pair == <<m.source, m.destination>>
  IN  /\ Authentic(m)
      /\ At(sequence_numbers, pair, 0) < MaxMessages
      /\ sequence_numbers' = Put(sequence_numbers, pair, At(sequence_numbers, pair, 0) + 1)
      /\ pending_messages' = Put(pending_messages, m.destination,
                                 Append(At(pending_messages, m.destination, <<>>), m))
      /\ UNCHANGED <<verifies, inbox, tx_pools, processed_txs, submitted>>

ReceiveMessages(c) ==
  /\ inbox = <<>>
  /\ c \in DOMAIN pending_messages
  /\ inbox' = pending_messages[c]
  /\ pending_messages' = Without(pending_messages, {c})
  /\ UNCHANGED <<sequence_numbers, verifies, tx_pools, processed_txs, submitted>>

\* CrossChainCommunication::process_message.
Acceptable(m) == Authentic(m) /\ m.sequence # 0

SignaturesValid(tx) ==
  /\ tx.sigs # "none"
  /\ tx.destination = Mainchain => tx.sigs = "good" /\ <<"processor", tx.source>> \in verifies

\* validate_cross_chain_transaction, all but the question to the mainchain.
ValidTx(tx) == tx.amount # 0 /\ tx.source # tx.destination /\ SignaturesValid(tx)

IsTx(m) == m.type = "CrossChainTransaction"
IsHeader(m) == m.type \in {"MainchainBlockHeader", "SidechainBlockHeader"}

Known(tx) == tx.id \in DOMAIN processed_txs

\* The interface may call a mainchain transaction invalid, or a mainchain header
\* unknown; without an interface nobody asks.
MainchainIsAsked(m) ==
  /\ HasInterface
  /\ IF IsTx(m) THEN m.tx.source = Mainchain ELSE m.type = "MainchainBlockHeader"

Take == inbox' = Tail(inbox)

ReceiveTransaction ==
  /\ inbox # <<>>
  /\ LET m == Head(inbox)
     IN  /\ Acceptable(m) /\ IsTx(m) /\ m.tx # Malformed
         /\ ~Known(m.tx) /\ ValidTx(m.tx)
         /\ tx_pools' = Put(tx_pools, m.destination,
                            Append(At(tx_pools, m.destination, <<>>), m.tx))
         /\ processed_txs' = Put(processed_txs, m.tx.id, "Received")
  /\ Take
  /\ UNCHANGED <<pending_messages, sequence_numbers, verifies, submitted>>

\* A duplicate, a header, or a message of another type: nothing but a result.
PassOver ==
  /\ inbox # <<>>
  /\ LET m == Head(inbox)
     IN  /\ Acceptable(m)
         /\ IF IsTx(m) THEN m.tx # Malformed /\ Known(m.tx)
                       ELSE IsHeader(m) => m.tx # Malformed
  /\ Take
  /\ UNCHANGED <<pending_messages, sequence_numbers, verifies, tx_pools, processed_txs, submitted>>

Refusable(m) ==
  \/ ~Acceptable(m)
  \/ (IsTx(m) \/ IsHeader(m)) /\ m.tx = Malformed
  \/ IsTx(m) /\ ~Known(m.tx) /\ (~ValidTx(m.tx) \/ MainchainIsAsked(m))
  \/ ~IsTx(m) /\ MainchainIsAsked(m)

\* The first error returns from process_messages: the messages behind it are gone.
AbortProcessing ==
  /\ inbox # <<>>
  /\ Refusable(Head(inbox))
  /\ inbox' = <<>>
  /\ UNCHANGED <<pending_messages, sequence_numbers, verifies, tx_pools, processed_txs, submitted>>

\* execute_transaction: only what goes to the mainchain can fail; accepted are the
\* transactions that submit_transaction accepts.
Executes(tx, accepted) == tx.destination = Mainchain => HasInterface /\ tx.id \in accepted

\* The transactions of txs that are executed, and what becomes of status and submitted.
Done(txs, accepted) == {i \in DOMAIN txs : Executes(txs[i], accepted)}
IdsOf(txs) == {txs[i].id : i \in DOMAIN txs}
Sent(txs, done, id) ==
  Cardinality({i \in done : txs[i].id = id /\ txs[i].destination = Mainchain})

Record(txs, done) ==
  /\ processed_txs' =
       [id \in DOMAIN processed_txs \cup IdsOf(txs) |->
          IF id \notin IdsOf(txs) THEN processed_txs[id]
          ELSE IF \E i \in done : txs[i].id = id THEN "Executed" ELSE "Failed"]
  /\ submitted' =
       [id \in DOMAIN submitted \cup IdsOf(txs) |-> At(submitted, id, 0) + Sent(txs, done, id)]

\* remaining_txs after each turn of the loop over txs: those that fail, for a retry.
Keep(remaining, tx, accepted) ==
  IF Executes(tx, accepted) THEN remaining ELSE Append(remaining, tx)

Remaining(txs, accepted) ==
  LET after[n \in 0 .. Len(txs)] ==
        IF n = 0 THEN <<>> ELSE Keep(after[n - 1], txs[n], accepted)
  IN  after

\* A fault: the pool is not drained.
ExecuteKeepsPool(c, accepted) ==
  /\ inbox = <<>>
  /\ c \in DOMAIN tx_pools
  /\ Record(tx_pools[c], Done(tx_pools[c], accepted))
  /\ UNCHANGED <<pending_messages, sequence_numbers, verifies, inbox, tx_pools>>

ExecutePendingTransactions(c, accepted) ==
  /\ inbox = <<>>
  /\ c \in DOMAIN tx_pools
  /\ Record(tx_pools[c], Done(tx_pools[c], accepted))
  /\ tx_pools' = Put(tx_pools, c, Remaining(tx_pools[c], accepted)[Len(tx_pools[c])])
  /\ UNCHANGED <<pending_messages, sequence_numbers, verifies, inbox>>

TxIds == {m.tx.id : m \in {n \in Messages : n.tx # Malformed}}

CrossNext ==
  \/ \E who \in Verifiers : FederationChanges(who)
  \/ \E m \in Messages : SendMessage(m)
  \/ \E c \in Chains : ReceiveMessages(c)
  \/ ReceiveTransaction \/ PassOver \/ AbortProcessing
  \/ \E c \in Chains, accepted \in SUBSET TxIds : ExecutePendingTransactions(c, accepted)

CrossSpec == CrossInit /\ [][CrossNext]_crossVars

-----------------------------------------------------------------------------
(* Properties.                                                             *)

\* The mainchain accepts a cross-chain transaction at most once, whatever is
\* resent or retried, and never one that was marked failed.
SubmittedOnce ==
  \A id \in DOMAIN submitted :
    submitted[id] <= IF processed_txs[id] = "Executed" THEN 1 ELSE 0
=============================================================================
