---------------------------- MODULE MCMasternode ----------------------------
(***************************************************************************)
(* The services of a masternode, for TLC.  They share no state in the      *)
(* code, so a behaviour runs one of them: part says which.                 *)
(***************************************************************************)
EXTENDS DkgScheduler, FerrousShield, PoSe, MasternodeList, OxideSend

VARIABLE part

\* Four masternodes of which m2 failed a PoSe challenge: a masternode without failures
\* qualifies for five draws, m2 for two.
MCMasternodes == {"m1", "m2", "m3", "m4"}
MCPoseFailures == [mn \in MCMasternodes |-> IF mn = "m2" THEN 1 ELSE 0]
MCSuccessPercent == [mn \in MCMasternodes |-> 60]

\* Requests of m2 made at heights 0 and 2, signed as the code verifies and as it signs.
MCRequests ==
  {[id |-> [initiator |-> "m2", created |-> h, participants |-> {"m1", "m2", "m3"}],
    height |-> h, threshold |-> 2, signed |-> s] : h \in {0, 2}, s \in {"fields", "struct"}}

\* Two transactions that spend one collateral.
MCSpentBy == [t1 |-> "c", t2 |-> "c"]

Init ==
  /\ part \in {"dkg", "fees", "pose", "list", "send", "members", "mix"}
  /\ SchedInit /\ FeeInit /\ PoseInit /\ ListInit /\ SendInit /\ MlInit /\ MixInit

Next ==
  /\ UNCHANGED part
  /\ \/ /\ part = "dkg" /\ SchedNext
        /\ UNCHANGED <<mixVars, mlVars, feeVars, poseVars, listVars, sendVars>>
     \/ /\ part = "fees" /\ FeeNext
        /\ UNCHANGED <<mixVars, mlVars, schedVars, poseVars, listVars, sendVars>>
     \/ /\ part = "pose" /\ PoseNext
        /\ UNCHANGED <<mixVars, mlVars, schedVars, feeVars, listVars, sendVars>>
     \/ /\ part = "list" /\ ListNext
        /\ UNCHANGED <<mixVars, mlVars, schedVars, feeVars, poseVars, sendVars>>
     \/ /\ part = "send" /\ SendNext
        /\ UNCHANGED <<mixVars, mlVars, schedVars, feeVars, poseVars, listVars>>
     \/ /\ part = "members" /\ MlNext
        /\ UNCHANGED <<mixVars, schedVars, feeVars, poseVars, listVars, sendVars>>
     \/ /\ part = "mix" /\ MixNext
        /\ UNCHANGED <<mlVars, schedVars, feeVars, poseVars, listVars, sendVars>>

Spec ==
  Init /\ [][Next]_<<part, schedVars, feeVars, poseVars, listVars, sendVars, mlVars, mixVars>>
=============================================================================
