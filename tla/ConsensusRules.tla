--------------------------- MODULE ConsensusRules ---------------------------
(***************************************************************************)
(* Three rules of the consensus crate, each with a state of its own: the   *)
(* limit on the size of a block, the pool of tickets whose holders         *)
(* finalise blocks, and the difficulty.                                    *)
(***************************************************************************)
EXTENDS Integers, Sequences, FiniteSets, TLC, Maps

-----------------------------------------------------------------------------
(***************************************************************************)
(* The adaptive block size (rusty-consensus/src/adaptive_block_size.rs):   *)
(* the limit is recalculated from the median of the last Period blocks     *)
(* each time the height is a multiple of Period.  A node checks a block    *)
(* against the limit and then feeds it to the calculator, and rebuilds the *)
(* calculator from the blocks it stored when it starts.                    *)
(***************************************************************************)

CONSTANTS InitialMaxSize, MinMaxSize, HardMaxSize,
          MedianPeriod,                \* median_calculation_period_blocks
          GrowthPercent, ShrinkPercent,
          BlockSizes,                  \* the sizes of the blocks that may arrive
          MaxSizeHeight                \* bound on the height

VARIABLES calculator,   \* block_sizes and current_adaptive_max_size
          stored        \* the sizes of the stored blocks, of heights 1, 2, ...
sizeVars == <<calculator, stored>>

NewCalculator == [sizes |-> <<>>, limit |-> InitialMaxSize]

AddBlockSize(sizes, s) ==
  LET all == Append(sizes, s) IN
  IF Len(all) > MedianPeriod THEN Tail(all) ELSE all

MedianBlockSize(sizes) ==
  LET sorted == SortSeq(sizes, <)
      n == Len(sizes)
  IN  IF n = 0 THEN InitialMaxSize
      ELSE IF n % 2 = 0 THEN (sorted[n \div 2] + sorted[n \div 2 + 1]) \div 2
      ELSE sorted[n \div 2 + 1]

PotentialLimit(median, limit) ==
  IF median > limit THEN (median * (100 + GrowthPercent)) \div 100
  ELSE IF median < limit THEN (median * (100 - ShrinkPercent)) \div 100
  ELSE limit

HardLimits(n) ==
  LET atLeast == IF n < MinMaxSize THEN MinMaxSize ELSE n
  IN  IF atLeast > HardMaxSize THEN HardMaxSize ELSE atLeast

\* calculate_adaptive_max_block_size, for a height other than 0.
AdaptiveMaxBlockSize(c, height) ==
  IF height % MedianPeriod # 0 THEN c.limit
  ELSE HardLimits(PotentialLimit(MedianBlockSize(c.sizes), c.limit))

UpdateWithBlock(c, s, height) ==
  LET added == [c EXCEPT !.sizes = AddBlockSize(@, s)]
  IN  [added EXCEPT !.limit = AdaptiveMaxBlockSize(added, height)]

\* A fault: the heights of the history are counted from the block after it.
HistoryOffByOne(blocks, current) ==
  LET upTo[n \in 0 .. Len(blocks)] ==
        IF n = 0 THEN NewCalculator
        ELSE UpdateWithBlock(upTo[n - 1], blocks[n], current - (Len(blocks) - n) + 1)
  IN  upTo[Len(blocks)]

FromBlockHistory(blocks, current) ==
  LET upTo[n \in 0 .. Len(blocks)] ==
        IF n = 0 THEN NewCalculator
        ELSE UpdateWithBlock(upTo[n - 1], blocks[n], current - (Len(blocks) - n))
  IN  upTo[Len(blocks)]

ValidateBlockSize(s) == s <= calculator.limit

SizeInit == calculator = NewCalculator /\ stored = <<>>

AcceptBlockOfSize(s) ==
  /\ Len(stored) < MaxSizeHeight
  /\ ValidateBlockSize(s)
  /\ stored' = Append(stored, s)
  /\ calculator' = UpdateWithBlock(calculator, s, Len(stored) + 1)

RestartCalculator ==
  /\ calculator' = FromBlockHistory(stored, Len(stored))
  /\ UNCHANGED stored

SizeNext == RestartCalculator \/ \E s \in BlockSizes : AcceptBlockOfSize(s)

SizeSpec == SizeInit /\ [][SizeNext]_sizeVars

-----------------------------------------------------------------------------
\* Rebuilding the calculator from all stored blocks gives the limit that the running
\* node has reached, so that a restarted node accepts the same blocks.
ReplayAgrees == FromBlockHistory(stored, Len(stored)) = calculator

-----------------------------------------------------------------------------
(***************************************************************************)
(* The ticket pool of rusty-consensus (pos.rs), the lottery and the        *)
(* finality rule (pos_selection.rs) and the checks of the votes of a block.*)
(* The operations are public and no caller orders them, so each may be     *)
(* called at any height and with any ticket.                               *)
(*                                                                         *)
(* The score of a ticket is a hash, so a committee is any set of live      *)
(* tickets of the size asked for.  A ticket of the committee votes once at *)
(* a height, for one of the competing blocks.                              *)
(***************************************************************************)

CONSTANTS PoolTickets,        \* ticket ids
          CommitteeSize,      \* num_tickets_required
          ExpirationBlocks,   \* TICKET_EXPIRATION_BLOCKS, 40960
          PoolFinality,       \* POS_FINALITY_DEPTH, 1
          Rivals,             \* the blocks that compete at a height
          MaxPoolHeight,      \* bound on the height
          MaxMisses           \* bound on the misses of a ticket

ASSUME PoolAssumption == IsFiniteSet(PoolTickets)

VARIABLES tickets,      \* id -> status and height
          missed,       \* non_participation_counts
          lastMissed,   \* last_missed_vote_height
          committee,    \* the selected tickets
          cast,         \* the votes of this height: ticket -> block
          poolHeight
poolVars == <<tickets, missed, lastMissed, committee, cast, poolHeight>>

PoolInit ==
  /\ tickets = EmptyMap /\ missed = EmptyMap /\ lastMissed = EmptyMap
  /\ committee = {} /\ cast = EmptyMap /\ poolHeight = 0

AddTicket(i) ==
  /\ tickets' = Put(tickets, i, [status |-> "Pending", height |-> poolHeight])
  /\ UNCHANGED <<missed, lastMissed, committee, cast, poolHeight>>

RemoveTicket(i) ==
  /\ i \in DOMAIN tickets
  /\ tickets' = Without(tickets, {i})
  /\ missed' = Without(missed, {i}) /\ lastMissed' = Without(lastMissed, {i})
  /\ UNCHANGED <<committee, cast, poolHeight>>

SetStatus(set, status) ==
  [i \in DOMAIN tickets |-> IF i \in set THEN [tickets[i] EXCEPT !.status = status] ELSE tickets[i]]

WithStatus(status) == {i \in DOMAIN tickets : tickets[i].status = status}

PoolTicketFinality ==
  LET final == {i \in WithStatus("Pending") : poolHeight >= tickets[i].height + PoolFinality} IN
  /\ final # {}
  /\ tickets' = SetStatus(final, "Live")
  /\ UNCHANGED <<missed, lastMissed, committee, cast, poolHeight>>

PoolTicketExpiration ==
  LET old == {i \in WithStatus("Live") : poolHeight >= tickets[i].height + ExpirationBlocks} IN
  /\ old # {}
  /\ tickets' = SetStatus(old, "Expired")
  /\ UNCHANGED <<missed, lastMissed, committee, cast, poolHeight>>

MarkTicketVoted(i) ==
  /\ i \in WithStatus("Live")
  /\ tickets' = SetStatus({i}, "Voted")
  /\ UNCHANGED <<missed, lastMissed, committee, cast, poolHeight>>

\* It does not ask whether the ticket is in the pool.
MarkTicketMissed(i) ==
  /\ i \in DOMAIN missed => missed[i] < MaxMisses
  /\ missed' = Put(missed, i, IF i \in DOMAIN missed THEN missed[i] + 1 ELSE 1)
  /\ lastMissed' = Put(lastMissed, i, poolHeight)
  /\ UNCHANGED <<tickets, committee, cast, poolHeight>>

RevokeTicket(i) ==
  /\ i \in WithStatus("Live") \cup WithStatus("Expired")
  /\ tickets' = SetStatus({i}, "Revoked")
  /\ UNCHANGED <<missed, lastMissed, committee, cast, poolHeight>>

SelectTicketsForVoting ==
  LET live == WithStatus("Live") IN
  /\ committee = {}
  /\ \E S \in SUBSET live :
       /\ Cardinality(S) = IF Cardinality(live) < CommitteeSize THEN Cardinality(live) ELSE CommitteeSize
       /\ S # {}
       /\ committee' = S
  /\ UNCHANGED <<tickets, missed, lastMissed, cast, poolHeight>>

CastVote(i, b) ==
  /\ i \in committee \ DOMAIN cast
  /\ cast' = Put(cast, i, b)
  /\ UNCHANGED <<tickets, missed, lastMissed, committee, poolHeight>>

NextHeight ==
  /\ poolHeight < MaxPoolHeight /\ poolHeight' = poolHeight + 1
  /\ committee' = {} /\ cast' = EmptyMap
  /\ UNCHANGED <<tickets, missed, lastMissed>>

PoolNext ==
  \/ PoolTicketFinality \/ PoolTicketExpiration \/ SelectTicketsForVoting \/ NextHeight
  \/ \E i \in PoolTickets :
       \/ AddTicket(i) \/ RemoveTicket(i) \/ MarkTicketVoted(i) \/ MarkTicketMissed(i)
       \/ RevokeTicket(i) \/ \E b \in Rivals : CastVote(i, b)

PoolSpec == PoolInit /\ [][PoolNext]_poolVars

-----------------------------------------------------------------------------
\* A fault: half of the committee is enough.
HalfIsFinal(b, votes, selected) ==
  /\ selected # {}
  /\ Cardinality({i \in DOMAIN votes : votes[i] = b}) >= Cardinality(selected) \div 2

\* Two thirds, rounded down; who cast a vote is not compared with the committee.
IsBlockFinal(b, votes, selected) ==
  /\ selected # {}
  /\ Cardinality({i \in DOMAIN votes : votes[i] = b}) >= (Cardinality(selected) * 2) \div 3

\* Two blocks of one height are not both final when the tickets of the committee vote
\* once each.  Two thirds are rounded down, so this needs a committee of which two
\* thirds are more than half: with one, two or four tickets two blocks can be final
\* (is_block_final, "votes from at least 2/3 of the selected tickets").
OneFinalBlock ==
  Cardinality(committee) \notin {1, 2, 4} =>
    \A a, b \in Rivals : IsBlockFinal(a, cast, committee) /\ IsBlockFinal(b, cast, committee) => a = b

-----------------------------------------------------------------------------
(***************************************************************************)
(* The difficulty of rusty-consensus (pow.rs): the compact form of a       *)
(* target in a header and its adjustment after a period of blocks, as      *)
(* validate_block_comprehensive expects it of the first block of the next  *)
(* period.                                                                 *)
(*                                                                         *)
(* A target is a number of WordBytes digits of base Radix, 32 and 256 in   *)
(* the code.  A shift to the left drops the digits that do not fit, and a  *)
(* product that does not fit stops the process.                            *)
(***************************************************************************)

CONSTANTS Radix, WordBytes,
          Precision,       \* PRECISION_FACTOR, 10^9
          MaxFactor,       \* MAX_DIFFICULTY_ADJUSTMENT_FACTOR, 4
          ExpectedSpan,    \* the time a period should take
          Spans,           \* the times periods take
          StartSizes       \* sizes of the targets a chain may start with

ASSUME DifficultyAssumption == Radix % 2 = 0 /\ Precision % MaxFactor = 0 /\ ExpectedSpan > 0

VARIABLES bits,      \* difficulty_target of the last block: size and mantissa
          stopped    \* the product overflowed
difficultyVars == <<bits, stopped>>

WordLimit == Radix ^ WordBytes
SignBit == Radix ^ 3 \div 2

CompactToTarget(c) ==
  IF c.mantissa = 0 \/ c.mantissa >= SignBit THEN 0
  ELSE IF c.size <= 3 THEN c.mantissa \div Radix ^ (3 - c.size)
  ELSE (c.mantissa * Radix ^ (c.size - 3)) % WordLimit

BytesOf(t) == CHOOSE n \in 0 .. WordBytes : t < Radix ^ n /\ (n = 0 \/ t >= Radix ^ (n - 1))

TargetToCompact(t) ==
  LET size == BytesOf(t)
      mantissa == IF size <= 3 THEN t * Radix ^ (3 - size) ELSE t \div Radix ^ (size - 3)
  IN  IF mantissa >= SignBit THEN [size |-> size + 1, mantissa |-> mantissa \div Radix]
      ELSE [size |-> size, mantissa |-> mantissa]

\* A fault: the ratio of a fast period is turned around.
InvertedRatio(span) ==
  LET ratio == (ExpectedSpan * Precision) \div (span + 1)
  IN  IF ratio > Precision * MaxFactor THEN Precision * MaxFactor
      ELSE IF ratio < Precision \div MaxFactor THEN Precision \div MaxFactor ELSE ratio

ClampedTimeRatio(span) ==
  LET ratio == (span * Precision) \div ExpectedSpan
  IN  IF ratio > Precision * MaxFactor THEN Precision * MaxFactor
      ELSE IF ratio < Precision \div MaxFactor THEN Precision \div MaxFactor ELSE ratio

Overflows(t, span) == t * ClampedTimeRatio(span) >= WordLimit

\* calculate_new_target with no least difficulty and no largest target, which is how
\* it is called.
CalculateNewTarget(t, span) == (t * ClampedTimeRatio(span)) \div Precision

\* The first header is written by target_to_compact.
DifficultyInit ==
  /\ stopped = FALSE
  /\ \E size \in StartSizes, mantissa \in 1 .. SignBit - 1 :
       bits = TargetToCompact(CompactToTarget([size |-> size, mantissa |-> mantissa]))

AdjustDifficulty(span) ==
  LET t == CompactToTarget(bits) IN
  /\ ~stopped /\ ~Overflows(t, span)
  /\ bits' = TargetToCompact(CalculateNewTarget(t, span))
  /\ UNCHANGED stopped

AdjustmentOverflows(span) ==
  /\ ~stopped /\ Overflows(CompactToTarget(bits), span)
  /\ stopped' = TRUE /\ UNCHANGED bits

DifficultyNext == \E span \in Spans : AdjustDifficulty(span) \/ AdjustmentOverflows(span)

-----------------------------------------------------------------------------
\* A period that took longer never leads to a harder target.
SlowerIsEasier ==
  ~stopped => \A s1, s2 \in Spans :
    LET t == CompactToTarget(bits) IN
    s1 <= s2 /\ ~Overflows(t, s1) /\ ~Overflows(t, s2) =>
      CompactToTarget(TargetToCompact(CalculateNewTarget(t, s1)))
        <= CompactToTarget(TargetToCompact(CalculateNewTarget(t, s2)))
=============================================================================
