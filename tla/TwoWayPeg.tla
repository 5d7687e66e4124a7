----------------------------- MODULE TwoWayPeg ------------------------------
(***************************************************************************)
(* The peg manager of the node: rusty-core/sidechain/two_way_peg.rs and    *)
(* handle_peg_out_transaction of consensus/blockchain.rs.  It checks the   *)
(* signatures with the federations of FederationIntegrator.                *)
(*                                                                         *)
(* A request is [type, sidechain, amount, height, sigs].  The id of a peg  *)
(* is a fresh random number.                                               *)
(***************************************************************************)
EXTENDS FederationIntegrator

CONSTANTS
  PegRequests,            \* requests for a peg-in or a peg-out
  PegIds,                 \* bound: the ids that are drawn
  RequiredConfirmations,
  UtxoSetAvailable,       \* with_mainchain_utxo_set was called
  ZeroMessage             \* [0u8; 32], the message that every signature is checked for

VARIABLES
  pending_transactions,
  completed_transactions

pegVars == <<managers, pending, pending_transactions, completed_transactions>>

ASSUME PegAssumption ==
  /\ RequiredConfirmations \in Nat /\ UtxoSetAvailable \in BOOLEAN
  /\ \A r \in PegRequests : r.height \in Nat

PegInit ==
  /\ FedInit
  /\ pending_transactions = EmptyMap
  /\ completed_transactions = EmptyMap

\* TwoWayPegManager::validate_federation_signatures: the largest signature meets
\* the threshold of the current epoch, and each one verifies in its own epoch.
PegSigned(r) ==
  /\ r.sigs # {}
  /\ r.sidechain \in DOMAIN managers
  /\ \E sig \in r.sigs :
       Cardinality(sig.signers) >= GetCurrentEpoch(managers[r.sidechain]).threshold
  /\ \A sig \in r.sigs :
       VerifyThresholdSignature(managers[r.sidechain], sig.epoch, sig, ZeroMessage)

PegTransaction(r, status) ==
  [type |-> r.type, sidechain |-> r.sidechain, amount |-> r.amount, height |-> r.height,
   status |-> status]

WithPegStatus(t, status) ==
  [type |-> t.type, sidechain |-> t.sidechain, amount |-> t.amount, height |-> t.height,
   status |-> status]

Fresh(id) == id \notin DOMAIN pending_transactions \cup DOMAIN completed_transactions

InitiatePegIn(r, id) ==
  /\ r.type = "PegIn"
  /\ PegSigned(r)
  /\ UtxoSetAvailable
  /\ Fresh(id)
  /\ pending_transactions' = Put(pending_transactions, id, PegTransaction(r, "Pending"))
  /\ UNCHANGED <<managers, pending, completed_transactions>>

InitiatePegOut(r, id) ==
  /\ r.type = "PegOut"
  /\ PegSigned(r)
  /\ Fresh(id)
  /\ pending_transactions' = Put(pending_transactions, id, PegTransaction(r, "Pending"))
  /\ UNCHANGED <<managers, pending, completed_transactions>>

Confirmed(t, h) == h >= t.height + RequiredConfirmations

ConfirmPegTransaction(id, h) ==
  /\ id \in DOMAIN pending_transactions
  /\ Confirmed(pending_transactions[id], h)
  /\ completed_transactions' =
       Put(completed_transactions, id, WithPegStatus(pending_transactions[id], "Confirmed"))
  /\ pending_transactions' = Without(pending_transactions, {id})
  /\ UNCHANGED <<managers, pending>>

CompletePegTransaction(id) ==
  /\ id \in DOMAIN completed_transactions
  /\ completed_transactions' =
       Put(completed_transactions, id, WithPegStatus(completed_transactions[id], "Completed"))
  /\ UNCHANGED <<managers, pending, pending_transactions>>

\* A fault: the loop drains the pending pegs, the shallow ones too.
HandleDrainsPending(r, id, h) ==
  LET all  == Put(pending_transactions, id, PegTransaction(r, "Pending"))
      deep == {i \in DOMAIN all : Confirmed(all[i], h)}
  IN  /\ r.type = "PegOut" /\ r.height = 0
      /\ PegSigned(r)
      /\ Fresh(id)
      /\ pending_transactions' = EmptyMap
      /\ completed_transactions' =
           [i \in DOMAIN completed_transactions \cup deep |->
              IF i \in deep THEN WithPegStatus(all[i], "Completed") ELSE completed_transactions[i]]
      /\ UNCHANGED <<managers, pending>>

\* Blockchain::handle_peg_out_transaction: a peg-out with height 0 is initiated,
\* and then every pending peg that is deep enough is confirmed and completed.
\* Both calls succeed, for the manager asks for the same depth.  When the height
\* cannot be read, only the initiation is left, an InitiatePegOut.
HandlePegOutTransaction(r, id, h) ==
  LET all  == Put(pending_transactions, id, PegTransaction(r, "Pending"))
      deep == {i \in DOMAIN all : Confirmed(all[i], h)}
  IN  /\ r.type = "PegOut" /\ r.height = 0
      /\ PegSigned(r)
      /\ Fresh(id)
      /\ pending_transactions' = Without(all, deep)
      /\ completed_transactions' =
           [i \in DOMAIN completed_transactions \cup deep |->
              IF i \in deep THEN WithPegStatus(all[i], "Completed") ELSE completed_transactions[i]]
      /\ UNCHANGED <<managers, pending>>

PegNext ==
  \/ FedNext /\ UNCHANGED <<pending_transactions, completed_transactions>>
  \/ \E r \in PegRequests, id \in PegIds :
       \/ InitiatePegIn(r, id)
       \/ InitiatePegOut(r, id)
       \/ \E h \in Heights : HandlePegOutTransaction(r, id, h)
  \/ \E id \in PegIds :
       \/ \E h \in Heights : ConfirmPegTransaction(id, h)
       \/ CompletePegTransaction(id)

PegSpec == PegInit /\ [][PegNext]_pegVars

-----------------------------------------------------------------------------
(* Properties.                                                             *)

\* A peg has one record: it is either pending, and then nothing of it is done, or
\* confirmed or completed.  Initiation, the loop of handle_peg_out_transaction and
\* outside confirmations all move records between the two maps.
PegHasOneRecord ==
  /\ DOMAIN pending_transactions \cap DOMAIN completed_transactions = {}
  /\ \A id \in DOMAIN pending_transactions : pending_transactions[id].status = "Pending"
  /\ \A id \in DOMAIN completed_transactions :
       completed_transactions[id].status \in {"Confirmed", "Completed"}

RecordOf(p, c, id) == IF id \in DOMAIN p THEN p[id] ELSE c[id]
Rank(status) == IF status = "Pending" THEN 1 ELSE IF status = "Confirmed" THEN 2 ELSE 3

\* No peg is lost, none changes its amount or its sidechain, and none goes back
\* to an earlier state.
PegIsKept ==
  [][\A id \in DOMAIN pending_transactions \cup DOMAIN completed_transactions :
       /\ id \in DOMAIN pending_transactions' \cup DOMAIN completed_transactions'
       /\ LET t == RecordOf(pending_transactions, completed_transactions, id)
              u == RecordOf(pending_transactions', completed_transactions', id)
          IN  /\ u = WithPegStatus(t, u.status)
              /\ Rank(u.status) >= Rank(t.status)]_pegVars
=============================================================================
