---------------------------- MODULE FraudProofs -----------------------------
(***************************************************************************)
(* The challenges of one sidechain: rusty-core/sidechain/fraud_proofs.rs.  *)
(*                                                                         *)
(* A fraud proof is [type, evidence, bond, fits, inBlock].  Of its         *)
(* evidence only the outcome of verify_fraud_proof counts: "malformed"     *)
(* makes it return an error, "strong" proves the fraud unless a response   *)
(* counters it, "weak" does not.  fits: within max_proof_size.  inBlock:   *)
(* passes the checks that a block puts its fraud proofs through.  The id   *)
(* of a challenge is the hash of its proof, here the proof itself.         *)
(*                                                                         *)
(* A manager is [active, completed, height, stats].  At most one response  *)
(* is ever taken for a challenge; countered says that it holds             *)
(* counter-evidence and a signature of 64 bytes.                           *)
(***************************************************************************)
EXTENDS Integers, FiniteSets, Maps

CONSTANTS
  MinChallengeBond,     \* config.min_challenge_bond
  VerificationTimeout,  \* config.verification_timeout_blocks
  FraudProofReward      \* config.fraud_proof_reward

ASSUME FraudAssumption ==
  MinChallengeBond \in Nat /\ VerificationTimeout \in Nat /\ FraudProofReward \in Nat

\* What verify_fraud_proof can make of the evidence for each type of fraud.
EvidenceOf ==
  [InvalidStateTransition |-> {"weak", "strong"},
   DoubleSpending         |-> {"malformed", "weak", "strong"},
   InvalidCrossChainTx    |-> {"malformed", "strong"},
   UnauthorizedSignature  |-> {"malformed", "weak", "strong"},
   InvalidVMExecution     |-> {"malformed", "weak", "strong"}]

\* A block's fraud proofs are checked for the sizes that verify_fraud_proof asks
\* for, and a state transition for two different states.
FraudProof ==
  {p \in [type : DOMAIN EvidenceOf, evidence : {"malformed", "weak", "strong"},
          bond : Nat, fits : BOOLEAN, inBlock : BOOLEAN] :
     /\ p.evidence \in EvidenceOf[p.type]
     /\ p.inBlock => /\ p.evidence # "malformed" /\ p.bond > 0
                     /\ p.type = "InvalidStateTransition" => p.evidence = "strong"}

\* The types and the evidence of the proofs that the report_ functions build; the
\* size of the two transactions decides on a double spend.
Reported ==
  {<<"DoubleSpending", "weak">>, <<"DoubleSpending", "strong">>,
   <<"UnauthorizedSignature", "malformed">>,
   <<"InvalidStateTransition", "weak">>,
   <<"InvalidCrossChainTx", "malformed">>,
   <<"InvalidVMExecution", "weak">>, <<"InvalidVMExecution", "strong">>}

NewFraudManager ==
  [active |-> EmptyMap, completed |-> EmptyMap, height |-> 0,
   stats |-> [total |-> 0, proven |-> 0, disproven |-> 0, timedOut |-> 0,
              penalties |-> 0, rewards |-> 0]]

-----------------------------------------------------------------------------
CanSubmit(fm, p, bond) ==
  /\ bond >= MinChallengeBond
  /\ p.fits
  /\ p \notin DOMAIN fm.active

SubmitFraudProof(fm, p) ==
  [active |-> Put(fm.active, p, [status |-> "Pending", deadline |-> fm.height + VerificationTimeout,
                                 countered |-> FALSE]),
   completed |-> fm.completed, height |-> fm.height,
   stats |-> [total |-> fm.stats.total + 1, proven |-> fm.stats.proven,
              disproven |-> fm.stats.disproven, timedOut |-> fm.stats.timedOut,
              penalties |-> fm.stats.penalties, rewards |-> fm.stats.rewards]]

\* The signature of the response is not empty.
CanRespond(fm, p) ==
  /\ p \in DOMAIN fm.active
  /\ fm.active[p].status = "Pending"
  /\ fm.height <= fm.active[p].deadline

SubmitResponse(fm, p, countered) ==
  [active |-> Put(fm.active, p, [status |-> "UnderVerification", deadline |-> fm.active[p].deadline,
                                 countered |-> countered]),
   completed |-> fm.completed, height |-> fm.height, stats |-> fm.stats]

-----------------------------------------------------------------------------
(* process_challenges.                                                     *)

TimedOut(fm, p, h) == h > fm.active[p].deadline

\* Responses are ignored for a state transition.
FraudProven(fm, p) ==
  /\ p.evidence = "strong"
  /\ p.type = "InvalidStateTransition" \/ ~fm.active[p].countered

Verdict(fm, p, h) ==
  IF TimedOut(fm, p, h) THEN "TimedOut"
  ELSE IF FraudProven(fm, p) THEN "Proven" ELSE "Disproven"

\* Challenges whose processing returns an error, after their removal from active.
Faulty(fm, h) == {p \in DOMAIN fm.active : ~TimedOut(fm, p, h) /\ p.evidence = "malformed"}

\* The challenges that the loop ends with a verdict, and the ones that it loses:
\* all of them and none, or those it met before the first faulty one and this one.
Outcomes(fm, h) ==
  LET sound == DOMAIN fm.active \ Faulty(fm, h)
  IN  IF Faulty(fm, h) = {}
      THEN {[done |-> sound, lost |-> {}]}
      ELSE [done : SUBSET sound, lost : {{p} : p \in Faulty(fm, h)}]

Ended(fm, h, done, v) == {p \in done : Verdict(fm, p, h) = v}

Booked(fm, h, done) ==
  LET proven == Cardinality(Ended(fm, h, done, "Proven"))
  IN  [total |-> fm.stats.total,
       proven |-> fm.stats.proven + proven,
       disproven |-> fm.stats.disproven + Cardinality(Ended(fm, h, done, "Disproven")),
       timedOut |-> fm.stats.timedOut + Cardinality(Ended(fm, h, done, "TimedOut")),
       penalties |-> fm.stats.penalties + proven,
       rewards |-> fm.stats.rewards + FraudProofReward * proven]

\* A fault: a challenge with a verdict stays active.
ProcessKeepsActive(fm, h, o) ==
  [active |-> Without(fm.active, o.lost),
   completed |-> [p \in DOMAIN fm.completed \cup o.done |->
                    IF p \in o.done THEN Verdict(fm, p, h) ELSE fm.completed[p]],
   height |-> h, stats |-> Booked(fm, h, o.done)]

ProcessChallenges(fm, h, o) ==
  [active |-> Without(fm.active, o.done \cup o.lost),
   completed |-> [p \in DOMAIN fm.completed \cup o.done |->
                    IF p \in o.done THEN Verdict(fm, p, h) ELSE fm.completed[p]],
   height |-> h, stats |-> Booked(fm, h, o.done)]
=============================================================================
