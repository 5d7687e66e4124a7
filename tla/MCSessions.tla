----------------------------- MODULE MCSessions -----------------------------
(***************************************************************************)
(* The sessions in which something must happen at last, for TLC: those of  *)
(* key generation, which must end, and those of WebSocket clients, which   *)
(* must be notified.  They share no state; part says which of them a       *)
(* behaviour runs.                                                         *)
(***************************************************************************)
EXTENDS DkgManager, WebSocketManager

VARIABLE part
allVars == <<part, dkgVars, ntVars>>

\* Shares as the verification and the completion expect them, one that is too long for
\* the completion, and those the code's own generator makes, which are refused.
MCShares ==
  {[from |-> p, signed |-> "bincode", length |-> 32] : p \in Participants}
    \cup {[from |-> 1, signed |-> "bincode", length |-> 64]}
    \cup {GenerateSecretShare(p) : p \in Participants}

Init == part \in {"dkg", "web"} /\ DkgInit /\ NtInit

Next ==
  /\ UNCHANGED part
  /\ \/ part = "dkg" /\ DkgNext /\ UNCHANGED ntVars
     \/ part = "web" /\ NtNext /\ UNCHANGED dkgVars

\* Blocks arrive; tasks that are ready run.
Fairness ==
  /\ WF_dkgVars(part = "dkg" /\ NewBlock)
  /\ NtFairness

Spec == Init /\ [][Next]_allVars /\ Fairness
=============================================================================
