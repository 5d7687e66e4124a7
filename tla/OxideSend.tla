------------------------------ MODULE OxideSend -----------------------------
(***************************************************************************)
(* Instant transactions (rusty-masternode/src/oxidesend.rs): a quorum of   *)
(* masternodes signs the inputs of a transaction, lock_inputs accepts the  *)
(* lock, detect_and_slash_double_spend looks for conflicts in the UTXO set *)
(* and the mempool, slashing.rs builds the slashing transaction, and the   *)
(* quorum collects a threshold signature share by share.                   *)
(*                                                                         *)
(* A transaction spends one outpoint.  Masternodes sign at most one lock   *)
(* for an outpoint (external: nothing in the code keeps what was locked).  *)
(***************************************************************************)
EXTENDS Integers, FiniteSets, Maps

CONSTANTS Signers, Txs,
          SpentBy,           \* transaction -> the outpoint it spends
          Collaterals,       \* the outpoints that are collaterals of masternodes
          RequestedThreshold,\* quorum_threshold given by the caller
          QuorumThresholdOf, \* quorum.threshold of the threshold signature
          CollateralValue, Cooldown, MaxSendHeight

ASSUME SendAssumption ==
  IsFiniteSet(Signers) /\ RequestedThreshold \in Nat /\ Cooldown \in Nat \ {0}

VARIABLES signedBy,    \* signer -> the transactions whose inputs it signed
          lockedTxs,   \* transactions whose lock was accepted
          spendable, txPool,   \* the UTXO set and the mempool
          slashTx,     \* the slashing transactions built, with their lock_time
          shares, aggregated,  \* of the threshold signature
          sendHeight
sendVars == <<signedBy, lockedTxs, spendable, txPool, slashTx, shares, aggregated, sendHeight>>

SendInit ==
  /\ signedBy = [s \in Signers |-> {}] /\ lockedTxs = {}
  /\ spendable = {SpentBy[t] : t \in Txs} /\ txPool = {}
  /\ slashTx = {} /\ shares = EmptyMap /\ aggregated = {} /\ sendHeight = 1

\* A masternode signs the inputs of a transaction.  The code does not remember what it
\* has signed: that it signs one lock per outpoint is assumed of a correct masternode.
SignInputs(s, t) ==
  /\ \A u \in signedBy[s] : SpentBy[u] # SpentBy[t]
  /\ signedBy' = [signedBy EXCEPT ![s] = @ \cup {t}]
  /\ UNCHANGED <<lockedTxs, spendable, txPool, slashTx, shares, aggregated, sendHeight>>

\* verify_multi_signature counts the signatures that some key verifies; the caller
\* passes one signature of each signer.
VerifyMultiSignature(signers, threshold) ==
  IF threshold = 0 THEN TRUE
  ELSE threshold <= Cardinality(Signers) /\ Cardinality(signers) >= threshold

\* A fault: the caller's threshold is used as it is.
CallersThreshold(signers) == VerifyMultiSignature(signers, RequestedThreshold)

\* verify_masternode_multi_signature: at least a majority of the keys.
VerifyMasternodeMultiSignature(signers) ==
  LET majority == Cardinality(Signers) \div 2 + 1
  IN  VerifyMultiSignature(signers, IF RequestedThreshold > majority THEN RequestedThreshold
                                                                     ELSE majority)

\* lock_inputs and verify_client_locks, with the signatures of the signers given.
LockInputs(t, signers) ==
  /\ t \notin lockedTxs /\ Cardinality(signers) >= RequestedThreshold
  /\ \A s \in signers : t \in signedBy[s]
  /\ VerifyMasternodeMultiSignature(signers)
  /\ lockedTxs' = lockedTxs \cup {t}
  /\ UNCHANGED <<signedBy, spendable, txPool, slashTx, shares, aggregated, sendHeight>>

AddToMempool(t) ==
  /\ t \notin txPool /\ txPool' = txPool \cup {t}
  /\ UNCHANGED <<signedBy, lockedTxs, spendable, slashTx, shares, aggregated, sendHeight>>

Confirm(t) ==
  /\ SpentBy[t] \in spendable /\ sendHeight < MaxSendHeight
  /\ spendable' = spendable \ {SpentBy[t]} /\ txPool' = txPool \ {t}
  /\ sendHeight' = sendHeight + 1
  /\ UNCHANGED <<signedBy, lockedTxs, slashTx, shares, aggregated>>

\* create_slashing_transaction for a double spend burns the whole collateral.
SlashingTransaction(outpoint) ==
  [input |-> outpoint, burned |-> CollateralValue, lockTime |-> sendHeight + Cooldown]

\* detect_and_slash_double_spend: an input that is no longer in the UTXO set cannot be
\* slashed, its collateral is that very outpoint; a conflict in the mempool can.
DetectDoubleSpend(t) ==
  CASE SpentBy[t] \notin spendable -> IF SpentBy[t] \in Collaterals THEN "error" ELSE "dummy"
    [] SpentBy[t] \in spendable /\ (\E u \in txPool \ {t} : SpentBy[u] = SpentBy[t]) ->
         IF SpentBy[t] \in Collaterals THEN "slash" ELSE "dummy"
    [] OTHER -> "none"

SlashDoubleSpend(t) ==
  /\ DetectDoubleSpend(t) = "slash"
  /\ slashTx' = slashTx \cup {SlashingTransaction(SpentBy[t])}
  /\ UNCHANGED <<signedBy, lockedTxs, spendable, txPool, shares, aggregated, sendHeight>>

ValidateSlashing(tx) == tx.lockTime > sendHeight

\* add_signature_share_to_threshold replaces the share of an index.
AddSignatureShare(s, t) ==
  /\ shares' = Put(shares, s, t) /\ shares' # shares
  /\ UNCHANGED <<signedBy, lockedTxs, spendable, txPool, slashTx, aggregated, sendHeight>>

\* finalize_threshold_signature aggregates whatever shares there are.
FinalizeThreshold ==
  /\ Cardinality(DOMAIN shares) >= QuorumThresholdOf
  /\ aggregated' = {shares[s] : s \in DOMAIN shares} /\ aggregated' # aggregated
  /\ UNCHANGED <<signedBy, lockedTxs, spendable, txPool, slashTx, shares, sendHeight>>

SendNext ==
  \/ FinalizeThreshold
  \/ \E t \in Txs :
       \/ AddToMempool(t) \/ Confirm(t) \/ SlashDoubleSpend(t)
       \/ \E signers \in SUBSET Signers : LockInputs(t, signers)
       \/ \E s \in Signers : SignInputs(s, t) \/ AddSignatureShare(s, t)

SendSpec == SendInit /\ [][SendNext]_sendVars

-----------------------------------------------------------------------------
\* Two conflicting transactions never both get a lock from masternodes that sign one
\* lock per outpoint, whatever threshold the caller asks for: the verification raises
\* it to a majority, and majorities intersect.
NoConflictingLocks ==
  \A t, u \in lockedTxs : SpentBy[t] = SpentBy[u] => t = u

\* A double spend that a block has already settled is never slashed: a slashing
\* transaction is only built while the collateral it burns is unspent, and is then
\* accepted until its lock time is reached.
SlashBeforeConfirmation ==
  [][\A x \in slashTx' \ slashTx : x.input \in spendable /\ ValidateSlashing(x)]_sendVars
=============================================================================
