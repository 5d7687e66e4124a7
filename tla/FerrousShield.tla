---------------------------- MODULE FerrousShield ---------------------------
(***************************************************************************)
(* FerrousShield (rusty-masternode/src/ferrous_shield.rs): the money of    *)
(* CoinJoin mixes and the sessions in which they are made.  The two share  *)
(* no state.                                                               *)
(***************************************************************************)
EXTENDS Integers, FiniteSets, FiniteSetsExt, Maps

-----------------------------------------------------------------------------
(***************************************************************************)
(* The money: the fee of a mix, the outputs coordinate_coinjoin makes, and *)
(* FeeDistributionManager, that collects the fees of mixes and pays them   *)
(* out to coordinators.                                                    *)
(***************************************************************************)

CONSTANTS Payees,         \* coordinators, primary or backup
          MixAmounts, MixSizes, Traffic,
          MaxFees         \* bound on the sum of all fees

\* validate_participant refuses amounts below 100,000, and a mix has participants.
ASSUME FeesAssumption ==
  /\ IsFiniteSet(Payees)
  /\ \A a \in MixAmounts : a \in Nat /\ a >= 100000
  /\ MixSizes \subseteq Nat \ {0}
  /\ Traffic \subseteq {"LowTraffic", "Normal", "HighTraffic", "Congested"}

VARIABLES pending,    \* pending_distributions
          mixes,      \* distribution_history: the mixes whose fee was distributed
          paid        \* all that payout transactions paid
feeVars == <<pending, mixes, paid>>

FeeInit == pending = EmptyMap /\ mixes = {} /\ paid = 0

MinimumDistribution == 1000

Clamp(x, lo, hi) == IF x < lo THEN lo ELSE IF x > hi THEN hi ELSE x

\* calculate_ferrous_shield_fee, the two multipliers in tenths.
BaseFee(amount) ==
  CASE amount <= 1000000 -> 1000
    [] amount > 1000000 /\ amount <= 10000000 -> 5000
    [] OTHER -> 10000
SizeFactor(n) == CASE n \in 1 .. 3 -> 10 [] n \in 4 .. 7 -> 15 [] n \in 8 .. 15 -> 20 [] OTHER -> 30
LoadFactor == [LowTraffic |-> 8, Normal |-> 10, HighTraffic |-> 13, Congested |-> 18]

CalculateFee(amount, n, traffic) ==
  Clamp((BaseFee(amount) * SizeFactor(n) * LoadFactor[traffic]) \div 100, 500, 100000)

\* coordinate_coinjoin: one output for each of the n participants, one for the fee.
CoordinateCoinjoin(amount, n, fee) ==
  [participant |-> IF amount > fee \div n THEN amount - fee \div n ELSE 0, coordinator |-> fee]

\* A fault: every backup coordinator gets the backups' whole share.
WholeShare(fee, backups) == fee - (fee * 7) \div 10

PrimaryAmount(fee) == (fee * 7) \div 10
BackupAmount(fee, backups) ==
  IF backups = {} THEN 0 ELSE (fee - PrimaryAmount(fee)) \div Cardinality(backups)

Credit(map, k, amount) == Put(map, k, amount + IF k \in DOMAIN map THEN map[k] ELSE 0)

\* A mix is coordinated and its fee queued (queue_fee_distribution).
QueueFee(amount, n, traffic, primary, backups) ==
  LET fee == CalculateFee(amount, n, traffic)
      first == Credit(pending, primary, PrimaryAmount(fee))
  IN  /\ fee >= MinimumDistribution
      /\ [amount |-> amount, n |-> n, fee |-> fee] \notin mixes
      /\ pending' = [p \in DOMAIN first \cup backups |->
                       (IF p \in DOMAIN first THEN first[p] ELSE 0)
                         + IF p \in backups THEN BackupAmount(fee, backups) ELSE 0]
      /\ mixes' = mixes \cup {[amount |-> amount, n |-> n, fee |-> fee]}
      /\ UNCHANGED paid

\* process_pending_distributions forgets the amounts that are too small to be paid.
ProcessPending ==
  /\ pending # EmptyMap
  /\ paid' = paid + SumOver(pending, {p \in DOMAIN pending : pending[p] >= MinimumDistribution})
  /\ pending' = EmptyMap
  /\ UNCHANGED mixes

Fees == SumOf([m \in mixes |-> m.fee])

FeeNext ==
  \/ ProcessPending
  \/ \E a \in MixAmounts, n \in MixSizes, t \in Traffic, p \in Payees :
       \E backups \in SUBSET (Payees \ {p}) :
         Fees + CalculateFee(a, n, t) <= MaxFees /\ QueueFee(a, n, t, p, backups)

FeeSpec == FeeInit /\ [][FeeNext]_feeVars

-----------------------------------------------------------------------------
\* What the participants of a mix gave up: inputs less outputs, without the coordinator's.
GivenUp(m) == m.n * (m.amount - CoordinateCoinjoin(m.amount, m.n, m.fee).participant)

\* However queueing and payouts interleave, what is paid out or waiting to be paid was
\* given up by participants, but for the remainder of a fee that their number does not
\* divide: the rounding of shares and forfeited amounts only lose money
\* (coordinate_coinjoin, queue_fee_distribution, process_pending_distributions).
FeesNeverGrow ==
  paid + SumOf(pending) <= SumOf([m \in mixes |-> GivenUp(m) + (m.fee % m.n)])

-----------------------------------------------------------------------------
(***************************************************************************)
(* The sessions are initiated, take participants, time out, and are        *)
(* cleaned up by SessionCleanupManager.                                    *)
(*                                                                         *)
(* Nothing in the code sets the states Mixing or Completed.  The registry  *)
(* is filled by its owner, as MixRequestQueue::add_session fills its own:  *)
(* an id in use is refused.                                                *)
(***************************************************************************)

CONSTANTS SessionNames, Coordinators, Mixers,
          MaxSessionDuration, FailedRetention, MaxPerCoordinator

ASSUME MixAssumption == IsFiniteSet(SessionNames) /\ MaxPerCoordinator \in Nat

VARIABLES mixing,    \* active_sessions: id -> coordinator, age, participants, state
          failed     \* failed_sessions: id -> time since the failure
mixVars == <<mixing, failed>>

MixInit == mixing = EmptyMap /\ failed = EmptyMap

\* initiate_coinjoin_session_enhanced with the first masternode of the quorum as
\* coordinator, and the registration of the session.
InitiateSession(i, c) ==
  /\ i \notin DOMAIN mixing \cup DOMAIN failed
  /\ mixing' = Put(mixing, i, [coordinator |-> c, age |-> 0, participants |-> {},
                               state |-> "WaitingForParticipants"])
  /\ UNCHANGED failed

RegisterForCoinjoin(i, p) ==
  /\ i \in DOMAIN mixing /\ p \notin mixing[i].participants
  /\ mixing' = [mixing EXCEPT ![i].participants = @ \cup {p}]
  /\ UNCHANGED failed

TookTooLong(i) == mixing[i].age > MaxSessionDuration

HandleSessionTimeout(i) ==
  /\ i \in DOMAIN mixing /\ TookTooLong(i) /\ mixing[i].state # "Failed"
  /\ mixing' = [mixing EXCEPT ![i].state = "Failed"]
  /\ UNCHANGED failed

CountOf(sessions, c) == Cardinality({i \in DOMAIN sessions : sessions[i].coordinator = c})
Excess(sessions, c) ==
  LET n == CountOf(sessions, c) IN IF n > MaxPerCoordinator THEN n - MaxPerCoordinator ELSE 0

\* A fault: any active session may be taken for an excess one.
AnyActive(sessions) == DOMAIN sessions

\* The sessions of the coordinators that have too many.
ExcessCandidates(sessions) ==
  {i \in DOMAIN sessions : CountOf(sessions, sessions[i].coordinator) > MaxPerCoordinator}

\* As many of the oldest candidates, of all coordinators together, as there are
\* sessions too many; the order of sessions of one age is that of a HashMap.
ExcessChoices(sessions) ==
  LET candidates == ExcessCandidates(sessions)
      n == MapThenSumSet(LAMBDA c : Excess(sessions, c), Coordinators)
  IN  {S \in kSubset(n, candidates) :
         \A i \in S, j \in candidates \ S : sessions[i].age >= sessions[j].age}

Late == {i \in DOMAIN mixing : TookTooLong(i)}

\* cleanup_sessions: sessions that took too long fail, failed ones are forgotten
\* after a while, and sessions in excess fail.
CleanupSessions ==
  LET left == Without(mixing, Late)
      kept == {i \in DOMAIN failed : failed[i] <= FailedRetention}
  IN  \E S \in ExcessChoices(left) :
        /\ mixing' = Without(left, S)
        /\ failed' = [i \in kept \cup Late \cup S |-> IF i \in Late \cup S THEN 0 ELSE failed[i]]

ForceCleanupSession(i) ==
  /\ i \in DOMAIN mixing
  /\ mixing' = Without(mixing, {i})
  /\ failed' = Put(failed, i, 0)

\* Time passes.  Ages are counted up to the point where the code's answer is settled.
Older(age, limit) == IF age > limit THEN age ELSE age + 1
Tick ==
  /\ mixing' = [i \in DOMAIN mixing |->
                  [mixing[i] EXCEPT !.age = Older(@, MaxSessionDuration)]]
  /\ failed' = [i \in DOMAIN failed |-> Older(failed[i], FailedRetention)]

MixNext ==
  \/ CleanupSessions \/ Tick
  \/ \E i \in SessionNames :
       \/ \E c \in Coordinators : InitiateSession(i, c)
       \/ \E p \in Mixers : RegisterForCoinjoin(i, p)
       \/ HandleSessionTimeout(i) \/ ForceCleanupSession(i)

MixSpec == MixInit /\ [][MixNext]_mixVars

-----------------------------------------------------------------------------
\* Cleanup never costs a coordinator within its limit a session that has not timed
\* out, even when other coordinators' sessions are in excess at the same time.
CleanupSparesOthers ==
  [][\A i \in DOMAIN mixing \ DOMAIN mixing' :
       CleanupSessions =>
         TookTooLong(i) \/ CountOf(mixing, mixing[i].coordinator) > MaxPerCoordinator
    ]_mixVars
=============================================================================
