---------------------------- MODULE DkgLifecycle ----------------------------
(***************************************************************************)
(* What a manager of key generation sessions promises for each session id: *)
(* it runs, then it is ready for completion, then it ends.  A session that *)
(* was completed stays completed until it is started again, and a key is   *)
(* never made from a session that was not ready.                           *)
(***************************************************************************)
CONSTANT Ids
VARIABLE life

Ended == {"done", "timedOut", "lost"}
Lives == {"absent", "running", "ready"} \cup Ended

LifeInit == life = [i \in Ids |-> "absent"]

Begin(i) == life' = [life EXCEPT ![i] = "running"]
Gather(i) == life[i] = "running" /\ life' = [life EXCEPT ![i] = "ready"]
Finish(i) == life[i] = "ready" /\ life' = [life EXCEPT ![i] = "done"]
Lose(i) == life[i] \in {"running", "ready"} /\ life' = [life EXCEPT ![i] = "lost"]

\* One new block ends every session whose time is over.
Expire ==
  \E S \in SUBSET {i \in Ids : life[i] \in {"running", "ready"}} :
    life' = [i \in Ids |-> IF i \in S THEN "timedOut" ELSE life[i]]

LifeNext == Expire \/ \E i \in Ids : Begin(i) \/ Gather(i) \/ Finish(i) \/ Lose(i)

LifeSpec == LifeInit /\ [][LifeNext]_life

\* Every session that was started ends: it is completed, times out or is dropped.
SessionsEnd == \A i \in Ids : life[i] \in {"running", "ready"} ~> life[i] \in Ended
=============================================================================
