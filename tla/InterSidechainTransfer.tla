----------------------- MODULE InterSidechainTransfer -----------------------
(***************************************************************************)
(* Transfers between sidechains:                                           *)
(* rusty-core/sidechain/inter_sidechain_transfer.rs.                       *)
(*                                                                         *)
(* A burn is [source, destination, tx, outputs, amount, height, recipient]:*)
(* outputs is the sum of the values of the outputs of tx.  A mint is       *)
(* [outputs, recipients].  Heights and times are arguments of the calls    *)
(* and are related to nothing.                                             *)
(***************************************************************************)
EXTENDS Integers, Maps

CONSTANTS
  Burns, Mints,             \* the transactions that are offered
  CoordinationTxs,          \* hashes of coordination transactions
  TransferHeights, Times,   \* arguments
  MinSourceConfirmations,
  TransferTimeout,          \* transfer_timeout_blocks * 150 seconds
  MinTransferAmount, MaxTransferAmount,
  W32,                      \* 2^32, the modulus of u32
  Nothing                   \* None

VARIABLES
  active_transfers,
  completed_transfers

transferVars == <<active_transfers, completed_transfers>>

ASSUME TransferAssumption ==
  /\ TransferHeights \subseteq Nat /\ Times \subseteq Nat
  /\ MinSourceConfirmations \in Nat /\ TransferTimeout \in Nat /\ W32 \in Nat \ {0}
  /\ Nothing \notin CoordinationTxs /\ Nothing \notin Mints

TransferInit == active_transfers = EmptyMap /\ completed_transfers = EmptyMap

\* generate_transfer_id: neither the recipient nor the height is hashed.
TransferId(b) == <<b.source, b.destination, b.tx, b.amount>>

NewTransfer(b, now) ==
  [status |-> "WaitingSourceConfirmation", current |-> 0, burn |-> b,
   coordination |-> Nothing, mint |-> Nothing, timeout |-> now + TransferTimeout]

WithStatus(t, status) ==
  [status |-> status, current |-> t.current, burn |-> t.burn,
   coordination |-> t.coordination, mint |-> t.mint, timeout |-> t.timeout]

\* A transaction whose outputs sum to an amount above zero has outputs.
ValidBurn(b) ==
  /\ b.amount \in MinTransferAmount .. MaxTransferAmount
  /\ b.recipient # ""
  /\ b.source # b.destination
  /\ b.outputs = b.amount

InitiateTransfer(b, now) ==
  /\ ValidBurn(b)
  /\ TransferId(b) \notin DOMAIN active_transfers
  /\ active_transfers' = Put(active_transfers, TransferId(b), NewTransfer(b, now))
  /\ UNCHANGED completed_transfers

Confirmations(t, h) == (IF h >= t.burn.height THEN h - t.burn.height ELSE 0) % W32

UpdateSourceConfirmations(id, h) ==
  /\ id \in DOMAIN active_transfers
  /\ LET t == active_transfers[id]
     IN  /\ t.status = "WaitingSourceConfirmation"
         /\ active_transfers' = Put(active_transfers, id,
              [status |-> IF Confirmations(t, h) >= MinSourceConfirmations
                          THEN "WaitingMainchainCoordination" ELSE t.status,
               current |-> Confirmations(t, h), burn |-> t.burn,
               coordination |-> t.coordination, mint |-> t.mint, timeout |-> t.timeout])
  /\ UNCHANGED completed_transfers

SetMainchainCoordination(id, tx) ==
  /\ id \in DOMAIN active_transfers
  /\ LET t == active_transfers[id]
     IN  /\ t.status = "WaitingMainchainCoordination"
         /\ active_transfers' = Put(active_transfers, id,
              [status |-> "WaitingDestinationConfirmation", current |-> 0, burn |-> t.burn,
               coordination |-> tx, mint |-> t.mint, timeout |-> t.timeout])
  /\ UNCHANGED completed_transfers

\* A fault: the recipient is not looked for.
PaysOutAnyone(b, m) == m.outputs = b.amount

\* verify_mint_transaction.
PaysOut(b, m) == m.outputs = b.amount /\ b.recipient \in m.recipients

Completable(t, m) == t.status = "WaitingDestinationConfirmation" /\ PaysOut(t.burn, m)

CompleteTransfer(id, m) ==
  /\ id \in DOMAIN active_transfers
  /\ Completable(active_transfers[id], m)
  /\ completed_transfers' = Put(completed_transfers, id,
       LET t == active_transfers[id]
       IN  [status |-> "Completed", current |-> t.current, burn |-> t.burn,
            coordination |-> t.coordination, mint |-> m, timeout |-> t.timeout])
  /\ active_transfers' = Without(active_transfers, {id})

\* The transfer was removed before it was looked at, and the error drops it.
CompleteTransferFails(id, m) ==
  /\ id \in DOMAIN active_transfers
  /\ ~Completable(active_transfers[id], m)
  /\ active_transfers' = Without(active_transfers, {id})
  /\ UNCHANGED completed_transfers

CheckTimeouts(now) ==
  LET late == {id \in DOMAIN active_transfers : now >= active_transfers[id].timeout}
  IN  /\ completed_transfers' =
           [id \in DOMAIN completed_transfers \cup late |->
              IF id \in late THEN WithStatus(active_transfers[id], "TimedOut")
                             ELSE completed_transfers[id]]
      /\ active_transfers' = Without(active_transfers, late)

TransferNext ==
  \/ \E b \in Burns, now \in Times : InitiateTransfer(b, now)
  \/ \E id \in DOMAIN active_transfers :
       \/ \E h \in TransferHeights : UpdateSourceConfirmations(id, h)
       \/ \E tx \in CoordinationTxs : SetMainchainCoordination(id, tx)
       \/ \E m \in Mints : CompleteTransfer(id, m) \/ CompleteTransferFails(id, m)
  \/ \E now \in Times : CheckTimeouts(now)

TransferSpec == TransferInit /\ [][TransferNext]_transferVars

-----------------------------------------------------------------------------
(* Properties.                                                             *)

Stage == [WaitingSourceConfirmation |-> 1, WaitingMainchainCoordination |-> 2,
          WaitingDestinationConfirmation |-> 3]

\* A completed transfer went through all of its stages for one burn: the amount
\* that was burned is the amount that was minted for the recipient named with
\* the burn, it lies within the limits, and a mainchain transaction coordinated
\* it.  A transfer that was dropped or timed out and then initiated again for
\* another recipient must not mix the two.
CompletedIsBacked ==
  \A id \in DOMAIN completed_transfers :
    LET t == completed_transfers[id]
    IN  t.status = "Completed" =>
          /\ id = TransferId(t.burn)
          /\ t.burn.source # t.burn.destination
          /\ t.burn.outputs = t.mint.outputs
          /\ t.mint.outputs \in MinTransferAmount .. MaxTransferAmount
          /\ t.burn.recipient \in t.mint.recipients
          /\ t.coordination \in CoordinationTxs

\* A transfer stays on its way: while it is active its burn, its recipient and its
\* deadline are fixed and its stage never falls back, not even when a later call
\* reports a lower height.
TransferAdvances ==
  [][\A id \in DOMAIN active_transfers \cap DOMAIN active_transfers' :
       LET t == active_transfers[id]
           u == active_transfers'[id]
       IN  /\ u.burn = t.burn /\ u.timeout = t.timeout
           /\ Stage[u.status] >= Stage[t.status]]_transferVars

\* The record of a transfer that was completed or timed out is never dropped, and
\* nothing but the end of another attempt for the same burn replaces it.
HistoryIsKept ==
  [][\A id \in DOMAIN completed_transfers :
       /\ id \in DOMAIN completed_transfers'
       /\ \/ completed_transfers'[id] = completed_transfers[id]
          \/ id \in DOMAIN active_transfers \ DOMAIN active_transfers']_transferVars

\* inter_sidechain_transfer.rs, lines 166-172: initiate_transfer "Returns an error
\* if: [...] Transfer already exists (duplicate)".
DuplicateIsRefused ==
  [][\A id \in DOMAIN completed_transfers :
       id \in DOMAIN active_transfers' => id \in DOMAIN active_transfers]_transferVars
=============================================================================
