----------------------------- MODULE NodeProofs -----------------------------
(***************************************************************************)
(* Proofs about the parts of a node that share no state: the relay of      *)
(* transactions, the peers, and the rules of the consensus crate.          *)
(***************************************************************************)
EXTENDS TxRelay, PeerManager, ConsensusRules, SumTheorems

-----------------------------------------------------------------------------
(***************************************************************************)
(* The relay of transactions, for every set of transactions and every      *)
(* capacity of the cache: what a block confirmed does not come back.       *)
(***************************************************************************)

\* The cache of known transactions holds what was handled last, and a
\* confirmed transaction in it is not in the pool (handle_tx, broadcast_tx).
RelayInv ==
  /\ trKnown = trRecent
  /\ \A t \in trConfirmed : t.id \in Range(trRecent) /\ t \notin trPool

\* The steps of the relay keep RelayInv (handle_tx, broadcast_tx,
\* remove_transaction, get_transactions_for_block_template).
LEMMA RelayStep == RelayInv /\ [TrNext]_trVars => RelayInv'
<1> SUFFICES ASSUME RelayInv, [TrNext]_trVars
             PROVE  RelayInv'
  BY Zenon
<1>1. ASSUME NEW t \in RelayTxs, handle_tx(t)
      PROVE  RelayInv'
  <2>1. t \notin trConfirmed
    BY <1>1, Zenon DEF RelayInv, handle_tx, IsKnown
  <2>2. trPool' \subseteq trPool \cup {t}
    BY <1>1, Zenon DEF handle_tx, add_to_mempool
  <2>3. trConfirmed' \subseteq trConfirmed
    BY <1>1, Zenon DEF handle_tx, Handled
  <2>4. trKnown' = trRecent' /\ \A c \in trConfirmed' : c.id \in Range(trRecent')
    BY <1>1, Zenon DEF RelayInv, handle_tx, Handled
  <2>5. QED BY <2>1, <2>2, <2>3, <2>4, Zenon DEF RelayInv
<1>2. ASSUME NEW t \in RelayTxs, broadcast_tx(t)
      PROVE  RelayInv'
  <2>1. trKnown' = trRecent' /\ \A c \in trConfirmed' : c.id \in Range(trRecent')
    BY <1>2, Zenon DEF RelayInv, broadcast_tx, Handled
  <2>2. trConfirmed' \subseteq trConfirmed /\ trPool' = trPool
    BY <1>2, Zenon DEF broadcast_tx, Handled
  <2>3. QED BY <2>1, <2>2, Zenon DEF RelayInv
<1>3. ASSUME NEW S \in SUBSET trPool, remove_transactions(S)
      PROVE  RelayInv'
  BY <1>3, Zenon DEF RelayInv, remove_transactions
<1>4. ASSUME NEW max \in TemplateSizes, get_transactions_for_block_template(max)
      PROVE  RelayInv'
  BY <1>4, Zenon DEF RelayInv, get_transactions_for_block_template
<1>5. CASE UNCHANGED trVars
  BY <1>5, Zenon DEF RelayInv, trVars
<1>6. QED BY <1>1, <1>2, <1>3, <1>4, <1>5, Zenon DEF TrNext

\* A relayed transaction that a block confirmed does not enter the pool again
\* while it is among those handled last, whatever peers send and in whatever
\* order (handle_tx, known_txs).
THEOREM ConfirmedIsNotRelayedAgain == TrSpec => []ConfirmedStaysOut
<1>1. TrInit => RelayInv
  BY Zenon DEF TrInit, RelayInv
<1>2. RelayInv => ConfirmedStaysOut
  BY Zenon DEF RelayInv, ConfirmedStaysOut
<1>3. QED BY <1>1, <1>2, RelayStep, PTL DEF TrSpec

-----------------------------------------------------------------------------
(***************************************************************************)
(* The peers, for any number of them, any limits and any length of the     *)
(* window: the requests of a window stay within the limit of their kind,   *)
(* the connection limits hold, and a selection names tracked peers once.   *)
(***************************************************************************)

\* A PeerConnection is a record of these fields.
ConnOf(c) ==
  c = [out |-> c.out, count |-> c.count, window |-> c.window, failed |-> c.failed,
       violations |-> c.violations, reputation |-> c.reputation, seen |-> c.seen]

\* What the limits look at is the same in both.
SameRates(c, d) == ConnOf(d) /\ d.out = c.out /\ d.count = c.count /\ d.window = c.window

\* A new value of another field changes nothing that the limits look at
\* (record_success, record_failure, record_violation).
LEMMA OtherFields ==
  ASSUME NEW c, ConnOf(c), NEW v
  PROVE  /\ SameRates(c, [c EXCEPT !.reputation = v])
         /\ SameRates(c, [c EXCEPT !.failed = v])
         /\ SameRates(c, [c EXCEPT !.violations = v])
         /\ SameRates(c, [c EXCEPT !.seen = v])
<1>1. SameRates(c, [c EXCEPT !.reputation = v])
  BY DEF SameRates, ConnOf
<1>2. SameRates(c, [c EXCEPT !.failed = v])
  BY DEF SameRates, ConnOf
<1>3. SameRates(c, [c EXCEPT !.violations = v])
  BY DEF SameRates, ConnOf
<1>4. SameRates(c, [c EXCEPT !.seen = v])
  BY DEF SameRates, ConnOf
<1>5. QED BY <1>1, <1>2, <1>3, <1>4, Zenon

\* The counter of a kind bounds the requests of that kind in the window, and
\* none was sent when the window was over (check_*_rate_limit).
Counted(start, n, limit, sent) ==
  /\ IsFiniteSet(sent)
  /\ \A s \in sent : s[1] \in Nat /\ s[1] < start + PmSecond
  /\ Cardinality({s \in sent : s[1] >= start}) <= n
  /\ n <= limit

ConnSound(p) ==
  LET c == pmTracked[p] IN
  /\ ConnOf(c) /\ c.window \in Nat /\ c.window <= pmNow
  /\ c.count \in [PmKinds -> Nat]
  /\ \A k \in PmKinds : Counted(c.window, c.count[k], PmLimit[k], pmSent[<<p, k>>])

RatesInv ==
  /\ pmNow \in Nat
  /\ DOMAIN pmTracked \subseteq PmPeers
  /\ DOMAIN pmSent = PmPeers \X PmKinds
  /\ \A p \in DOMAIN pmTracked : ConnSound(p)

\* A step that sends nothing and tracks no new peer keeps the invariant when
\* it leaves the counters and the window of the others alone.
LEMMA RatesKept ==
  ASSUME RatesInv, UNCHANGED pmSent, pmNow' \in Nat, pmNow <= pmNow',
         DOMAIN pmTracked' \subseteq DOMAIN pmTracked,
         \A p \in DOMAIN pmTracked' : SameRates(pmTracked[p], pmTracked'[p])
  PROVE  RatesInv'
<1>1. ASSUME NEW p \in DOMAIN pmTracked'
      PROVE  ConnSound(p)'
  <2>1. ConnSound(p) /\ SameRates(pmTracked[p], pmTracked'[p])
    BY <1>1, Zenon DEF RatesInv
  <2>2. QED BY <2>1 DEF ConnSound, SameRates, RatesInv
<1>2. QED BY <1>1, Zenon DEF RatesInv

\* Whether the window of c is over, and the counter from which a check starts.
Over(c) == pmNow - c.window >= PmSecond
CountBefore(c, k) == IF Over(c) THEN 0 ELSE c.count[k]

\* What a check answers and what it leaves behind.
Checked(c, k, r) ==
  /\ r.ok = (CountBefore(c, k) < PmLimit[k])
  /\ ConnOf(r.conn) /\ r.conn.out = c.out
  /\ r.conn.window = IF Over(c) THEN pmNow ELSE c.window
  /\ r.conn.count = [c.count EXCEPT ![k] = IF CountBefore(c, k) < PmLimit[k] THEN CountBefore(c, k) + 1
                                                                         ELSE CountBefore(c, k)]

\* The check moves a window that is over, and counts in its own kind only
\* (check_*_rate_limit).
LEMMA CheckedConn ==
  ASSUME NEW c, ConnOf(c), NEW k \in PmKinds, c.count \in [PmKinds -> Nat]
  PROVE  Checked(c, k, check_rate_limit(c, k))
<1> DEFINE n == CountBefore(c, k)
           d == check_rate_limit(c, k).conn
           e == [c EXCEPT !.window = IF Over(c) THEN pmNow ELSE c.window]
           m == [c.count EXCEPT ![k] = IF n < PmLimit[k] THEN n + 1 ELSE n]
<1>1. ConnOf(e) /\ e.out = c.out /\ e.count = c.count
      /\ e.window = IF Over(c) THEN pmNow ELSE c.window
  BY DEF ConnOf
<1>2. d = [e EXCEPT !.count = m]
  BY <1>1, Zenon DEF check_rate_limit, ConnOf, CountBefore, Over
<1>3. check_rate_limit(c, k).ok = (n < PmLimit[k])
  BY Zenon DEF check_rate_limit, CountBefore, Over
<1> HIDE DEF e, m
<1>4. ConnOf(d) /\ d.out = e.out /\ d.window = e.window /\ d.count = m
  BY <1>1, <1>2, Zenon DEF ConnOf
<1>5. QED BY <1>1, <1>3, <1>4, Zenon DEF m, Checked

\* A request that is let through is counted (check_*_rate_limit).
LEMMA CountedSend ==
  ASSUME NEW start \in Nat, NEW n \in Nat, NEW limit \in Nat, NEW sent, NEW now \in Nat,
         Counted(start, n, limit, sent), start <= now, now - start < PmSecond, n < limit,
         NEW i, NEW more, more = sent \cup {<<now, i>>}
  PROVE  Counted(start, n + 1, limit, more)
<1> DEFINE since == {s \in sent : s[1] >= start}
           later == {s \in more : s[1] >= start}
<1>1. IsFiniteSet(sent) /\ IsFiniteSet(since)
  BY FS_Subset, Zenon DEF Counted
<1>2. later = since \cup {<<now, i>>}
  OBVIOUS
<1>3. Cardinality(since) \in Nat /\ Cardinality(since) <= n
  BY <1>1, FS_CardinalityType, Zenon DEF Counted
<1>4. Cardinality(since \cup {<<now, i>>}) \in {Cardinality(since), Cardinality(since) + 1}
  BY <1>1, FS_AddElement, Zenon
<1>5. IsFiniteSet(more)
  BY <1>1, FS_AddElement, Zenon
<1>6. \A s \in more : s[1] \in Nat /\ s[1] < start + PmSecond
  BY PeersAssumption DEF Counted
<1> HIDE DEF since, later
<1>7. Cardinality(later) <= n + 1
  BY <1>2, <1>3, <1>4
<1>8. QED BY <1>5, <1>6, <1>7 DEF Counted, later

\* A window that opens when the old one is over begins with nothing sent, and
\* moving the window of the other kinds leaves no more in theirs.
LEMMA CountedMove ==
  ASSUME NEW start \in Nat, NEW n \in Nat, NEW limit \in Nat, NEW sent, NEW now \in Nat,
         Counted(start, n, limit, sent), now - start >= PmSecond
  PROVE  Counted(now, 0, limit, sent) /\ Counted(now, n, limit, sent)
<1>1. {s \in sent : s[1] >= now} = {}
  BY PeersAssumption DEF Counted
<1>2. \A s \in sent : s[1] \in Nat /\ s[1] < now + PmSecond
  BY PeersAssumption DEF Counted
<1>3. Cardinality({s \in sent : s[1] >= now}) = 0
  BY <1>1, FS_EmptySet, Zenon
<1>4. QED BY <1>2, <1>3 DEF Counted

\* A request keeps the invariant, whether it is sent or refused (RequestOf).
LEMMA RequestKeepsRates ==
  ASSUME RatesInv, NEW p \in PmPeers, NEW k \in PmKinds, RequestOf(p, k)
  PROVE  RatesInv'
<1>1. CASE p \notin DOMAIN pmTracked
  BY <1>1, Zenon DEF RequestOf, RatesInv, ConnSound, ConnOf
<1>2. CASE p \in DOMAIN pmTracked
  <2> DEFINE c == pmTracked[p]
             fresh == Over(c)
             n == CountBefore(c, k)
             r == check_rate_limit(c, k)
  <2>1. ConnSound(p) /\ pmNow \in Nat /\ PmLimit[k] \in Nat /\ PmSecond \in Nat \ {0}
    BY <1>2, PeersAssumption, Zenon DEF RatesInv
  <2>2. c.window \in Nat /\ c.window <= pmNow /\ c.count \in [PmKinds -> Nat] /\ ConnOf(c) /\ n \in Nat
    BY <2>1, Zenon DEF ConnSound, CountBefore
  <2>3. /\ r.ok = (n < PmLimit[k]) /\ ConnOf(r.conn)
        /\ r.conn.window = IF fresh THEN pmNow ELSE c.window
        /\ r.conn.count = [c.count EXCEPT ![k] = IF n < PmLimit[k] THEN n + 1 ELSE n]
    BY <2>2, CheckedConn, Zenon DEF Checked
  <2>4. /\ pmTracked' = Put(pmTracked, p, r.conn)
        /\ pmSent' = IF r.ok THEN [pmSent EXCEPT ![<<p, k>>] = @ \cup {<<pmNow, Cardinality(@)>>}]
                     ELSE pmSent
        /\ UNCHANGED pmNow
    BY <1>2, Zenon DEF RequestOf
  <2> DEFINE w == r.conn.window
  <2>5. w \in Nat /\ w <= pmNow /\ pmNow - w < PmSecond
    BY <2>1, <2>2, <2>3 DEF Over
  <2>6. \A j \in PmKinds : Counted(w, IF j = k THEN n ELSE c.count[j], PmLimit[j], pmSent[<<p, j>>])
    <3> SUFFICES ASSUME NEW j \in PmKinds
                 PROVE  Counted(w, IF j = k THEN n ELSE c.count[j], PmLimit[j], pmSent[<<p, j>>])
      BY Zenon
    <3>1. Counted(c.window, c.count[j], PmLimit[j], pmSent[<<p, j>>]) /\ c.count[j] \in Nat
          /\ PmLimit[j] \in Nat
      BY <2>1, <2>2, PeersAssumption, Zenon DEF ConnSound
    <3>2. CASE fresh
      <4>1. Counted(pmNow, 0, PmLimit[j], pmSent[<<p, j>>])
            /\ Counted(pmNow, c.count[j], PmLimit[j], pmSent[<<p, j>>])
        BY <2>1, <2>2, <3>1, <3>2, CountedMove, Zenon DEF Over
      <4>2. QED BY <2>3, <3>2, <4>1, Zenon DEF CountBefore
    <3>3. CASE ~fresh
      BY <2>3, <3>1, <3>3, Zenon DEF CountBefore
    <3>4. QED BY <3>2, <3>3, Zenon
  <2>7. DOMAIN pmTracked' = DOMAIN pmTracked /\ pmTracked'[p] = r.conn
        /\ \A q \in DOMAIN pmTracked \ {p} : pmTracked'[q] = pmTracked[q]
    BY <1>2, <2>4, Zenon DEF Put
  <2>8. \A j \in PmKinds : Counted(w, r.conn.count[j], PmLimit[j], pmSent'[<<p, j>>])
    <3> SUFFICES ASSUME NEW j \in PmKinds
                 PROVE  Counted(w, r.conn.count[j], PmLimit[j], pmSent'[<<p, j>>])
      BY Zenon
    <3>1. CASE j # k
      <4>1. pmSent'[<<p, j>>] = pmSent[<<p, j>>]
        BY <2>4, <3>1, Zenon DEF RatesInv
      <4>2. r.conn.count[j] = c.count[j]
        BY <2>2, <2>3, <3>1, Zenon
      <4>3. QED BY <2>6, <3>1, <4>1, <4>2, Zenon
    <3>2. CASE j = k /\ ~(n < PmLimit[k])
      <4>1. r.conn.count[k] = n /\ pmSent' = pmSent
        BY <2>2, <2>3, <2>4, <3>2, Zenon
      <4>2. QED BY <2>6, <3>2, <4>1, Zenon
    <3>3. CASE j = k /\ n < PmLimit[k]
      <4>1. r.conn.count[k] = n + 1
        BY <2>2, <2>3, <3>3, Zenon
      <4>2. pmSent'[<<p, k>>] = pmSent[<<p, k>>] \cup {<<pmNow, Cardinality(pmSent[<<p, k>>])>>}
        BY <2>3, <2>4, <3>3, Zenon DEF RatesInv
      <4>3. Counted(w, n, PmLimit[k], pmSent[<<p, k>>])
        BY <2>6, Zenon
      <4> HIDE DEF w, n, r, c
      <4>4. Counted(w, n + 1, PmLimit[k], pmSent'[<<p, k>>])
        BY <2>1, <2>2, <2>5, <3>3, <4>2, <4>3, CountedSend, Zenon
      <4>5. QED BY <3>3, <4>1, <4>4, Zenon
    <3>4. QED BY <3>1, <3>2, <3>3, Zenon
  <2>9. r.conn.count \in [PmKinds -> Nat]
    BY <2>2, <2>3
  <2> HIDE DEF r, n, fresh
  <2>10. ConnSound(p)'
    BY <2>3, <2>4, <2>5, <2>7, <2>8, <2>9, Zenon DEF ConnSound
  <2>11. DOMAIN pmSent' = DOMAIN pmSent
         /\ \A q \in PmPeers \ {p}, j \in PmKinds : pmSent'[<<q, j>>] = pmSent[<<q, j>>]
    BY <2>4, Zenon DEF RatesInv
  <2>12. \A q \in DOMAIN pmTracked \ {p} : ConnSound(q)'
    BY <2>4, <2>7, <2>11, Zenon DEF ConnSound, RatesInv
  <2>13. QED BY <2>4, <2>7, <2>10, <2>11, <2>12, Zenon DEF RatesInv
<1>3. QED BY <1>1, <1>2, Zenon

\* The limits on connections hold, and a tracked peer has a connection and is
\* not banned (add_peer, remove_peer, blacklist_peer).
LimitsInv ==
  /\ pmConns \in [PmPeers -> Nat]
  /\ Cardinality(Tracked(TRUE)) <= PmMaxOut
  /\ Cardinality(Tracked(FALSE)) <= PmMaxIn
  /\ \A p \in DOMAIN pmTracked : p \notin pmBlack /\ pmConns[p] > 0

PeersInv == RatesInv /\ LimitsInv

LEMMA TrackedFinite ==
  ASSUME DOMAIN pmTracked \subseteq PmPeers, NEW out
  PROVE  IsFiniteSet(Tracked(out)) /\ Cardinality(Tracked(out)) \in Nat
<1>1. Tracked(out) \subseteq PmPeers
  BY Zenon DEF Tracked
<1>2. QED BY <1>1, PeersAssumption, FS_Subset, FS_CardinalityType, Zenon

\* A step that tracks no new peer and changes neither a direction nor the
\* rates of a tracked one keeps the invariant.
LEMMA PeersKept ==
  ASSUME PeersInv, UNCHANGED pmSent, pmNow' \in Nat, pmNow <= pmNow',
         DOMAIN pmTracked' \subseteq DOMAIN pmTracked,
         \A p \in DOMAIN pmTracked' : SameRates(pmTracked[p], pmTracked'[p]),
         pmConns' \in [PmPeers -> Nat],
         \A p \in DOMAIN pmTracked' : p \notin pmBlack' /\ pmConns'[p] > 0
  PROVE  PeersInv'
<1>1. RatesInv'
  BY RatesKept, Zenon DEF PeersInv
<1>2. ASSUME NEW out, NEW max \in Nat, Cardinality(Tracked(out)) <= max
      PROVE  Cardinality(Tracked(out)') <= max
  <2>1. Tracked(out)' \subseteq Tracked(out)
    BY Zenon DEF Tracked, SameRates
  <2>2. IsFiniteSet(Tracked(out)) /\ Cardinality(Tracked(out)) \in Nat
    BY TrackedFinite, Zenon DEF PeersInv, RatesInv
  <2> DEFINE now == Tracked(out)
             then == Tracked(out)'
  <2> HIDE DEF now, then
  <2>3. Cardinality(then) <= Cardinality(now) /\ Cardinality(then) \in Nat
    BY <2>1, <2>2, FS_Subset, FS_CardinalityType, Zenon DEF now, then
  <2>4. QED BY <1>2, <2>2, <2>3 DEF now, then
<1>3. Cardinality(Tracked(TRUE)') <= PmMaxOut /\ Cardinality(Tracked(FALSE)') <= PmMaxIn
  BY <1>2, PeersAssumption, Zenon DEF PeersInv, LimitsInv
<1>4. QED BY <1>1, <1>3, Zenon DEF PeersInv, LimitsInv

\* A peer that is not tracked comes in only below the limit of its direction,
\* with a window of its own (ConnectionEstablished, add_peer).
LEMMA EstablishedKeeps ==
  ASSUME PeersInv, NEW p \in PmPeers, NEW out \in BOOLEAN, ConnectionEstablished(p, out)
  PROVE  PeersInv'
<1>1. pmConns' = [pmConns EXCEPT ![p] = @ + 1] /\ pmConns \in [PmPeers -> Nat]
      /\ UNCHANGED <<pmBlack, pmNow>> /\ pmNow \in Nat
  BY Zenon DEF ConnectionEstablished, PeersInv, LimitsInv, RatesInv
<1>2. pmConns' \in [PmPeers -> Nat] /\ pmConns'[p] > 0
      /\ \A q \in PmPeers : pmConns[q] > 0 => pmConns'[q] > 0
  BY <1>1
<1>3. DOMAIN pmTracked \subseteq PmPeers
  BY Zenon DEF PeersInv, RatesInv
<1>4. CASE p \in DOMAIN pmTracked \/ ~add_peer_accepts(p, out)
  <2>1. pmTracked' = pmTracked /\ pmSent' = pmSent
    BY <1>4, Zenon DEF ConnectionEstablished, add_peer
  <2>2. \A q \in DOMAIN pmTracked' : SameRates(pmTracked[q], pmTracked'[q])
    BY <2>1, Zenon DEF PeersInv, RatesInv, ConnSound, SameRates
  <2>3. \A q \in DOMAIN pmTracked' : q \notin pmBlack' /\ pmConns'[q] > 0
    BY <1>1, <1>2, <1>3, <2>1, Zenon DEF PeersInv, LimitsInv
  <2>4. QED BY <1>1, <1>2, <2>1, <2>2, <2>3, PeersKept
<1>5. CASE p \notin DOMAIN pmTracked /\ add_peer_accepts(p, out)
  <2>1. pmTracked' = Put(pmTracked, p, PeerConnection(out))
        /\ pmSent' = [r \in DOMAIN pmSent |-> IF r[1] = p THEN {} ELSE pmSent[r]]
    BY <1>5, Zenon DEF ConnectionEstablished, add_peer
  <2>2. p \notin pmBlack /\ IF out THEN can_accept_outbound ELSE can_accept_inbound
    BY <1>5, Zenon DEF add_peer_accepts
  <2>3. DOMAIN pmTracked' = DOMAIN pmTracked \cup {p} /\ pmTracked'[p] = PeerConnection(out)
        /\ \A q \in DOMAIN pmTracked : pmTracked'[q] = pmTracked[q]
    BY <1>5, <2>1, Zenon DEF Put
  <2>4. ConnSound(p)'
    <3> DEFINE c == PeerConnection(out)
    <3>1. ConnOf(c) /\ c.window = pmNow /\ c.count = [k \in PmKinds |-> 0]
      BY Zenon DEF ConnOf, PeerConnection
    <3>2. \A k \in PmKinds : pmSent'[<<p, k>>] = {}
      BY <2>1, Zenon DEF PeersInv, RatesInv
    <3>3. \A k \in PmKinds : Counted(pmNow, 0, PmLimit[k], {})
      <4>1. IsFiniteSet({}) /\ Cardinality({}) = 0
        BY FS_EmptySet, Zenon
      <4>2. {s \in {} : s[1] >= pmNow} = {}
        BY Zenon
      <4>3. \A k \in PmKinds : PmLimit[k] \in Nat
        BY PeersAssumption, Zenon
      <4>4. QED BY <4>1, <4>2, <4>3 DEF Counted
    <3>4. ConnOf(pmTracked'[p]) /\ pmTracked'[p].window = pmNow /\ pmTracked'[p].count = [k \in PmKinds |-> 0]
      BY <2>3, <3>1, Zenon
    <3>5. pmTracked'[p].count \in [PmKinds -> Nat] /\ \A k \in PmKinds : pmTracked'[p].count[k] = 0
      BY <3>4
    <3>6. \A k \in PmKinds :
             Counted(pmTracked'[p].window, pmTracked'[p].count[k], PmLimit[k], pmSent'[<<p, k>>])
      BY <3>2, <3>3, <3>4, <3>5, Zenon
    <3>7. QED BY <1>1, <3>4, <3>5, <3>6 DEF ConnSound
  <2>5. \A q \in DOMAIN pmTracked : ConnSound(q)'
    <3>1. \A q \in DOMAIN pmTracked, k \in PmKinds : pmSent'[<<q, k>>] = pmSent[<<q, k>>]
      BY <1>3, <1>5, <2>1, Zenon DEF PeersInv, RatesInv
    <3>2. QED BY <1>1, <2>3, <3>1, Zenon DEF ConnSound, PeersInv, RatesInv
  <2>6. RatesInv'
    BY <1>1, <1>3, <2>1, <2>3, <2>4, <2>5, Zenon DEF PeersInv, RatesInv
  <2>7. PeerConnection(out).out = out
    BY Zenon DEF PeerConnection
  <2>8. ASSUME NEW o \in BOOLEAN, NEW max \in Nat, Cardinality(Tracked(o)) <= max,
               o = out => Cardinality(Tracked(o)) < max
        PROVE  Cardinality(Tracked(o)') <= max
    <3>1. IsFiniteSet(Tracked(o)) /\ Cardinality(Tracked(o)) \in Nat
      BY <1>3, TrackedFinite, Zenon
    <3>2. CASE o = out
      <4>1. Tracked(o)' = Tracked(o) \cup {p}
        BY <2>3, <2>7, <3>2, Zenon DEF Tracked
      <4>2. Cardinality(Tracked(o) \cup {p}) \in {Cardinality(Tracked(o)), Cardinality(Tracked(o)) + 1}
        BY <3>1, FS_AddElement, Zenon
      <4> DEFINE n == Cardinality(Tracked(o))
                 m == Cardinality(Tracked(o)')
      <4>3. m \in {n, n + 1} /\ n < max /\ n \in Nat
        BY <2>8, <3>1, <3>2, <4>1, <4>2, Zenon
      <4> HIDE DEF n, m
      <4>4. QED BY <4>3 DEF m
    <3>3. CASE o # out
      <4>1. Tracked(o)' = Tracked(o)
        BY <2>3, <2>7, <3>3, Zenon DEF Tracked
      <4>2. QED BY <2>8, <4>1, Zenon
    <3>4. QED BY <3>2, <3>3, Zenon
  <2>9. Cardinality(Tracked(TRUE)') <= PmMaxOut /\ Cardinality(Tracked(FALSE)') <= PmMaxIn
    BY <2>2, <2>8, PeersAssumption, Zenon DEF can_accept_outbound, can_accept_inbound, PeersInv, LimitsInv
  <2>10. \A q \in DOMAIN pmTracked' : q \notin pmBlack' /\ pmConns'[q] > 0
    BY <1>1, <1>2, <1>3, <2>2, <2>3, Zenon DEF PeersInv, LimitsInv
  <2>11. QED BY <1>2, <2>6, <2>9, <2>10, Zenon DEF PeersInv, LimitsInv
<1>6. QED BY <1>4, <1>5, Zenon

\* The steps of the peer manager and of the event loop that drives it keep the
\* invariant.
LEMMA PeersStep == PeersInv /\ [PmNext]_pmVars => PeersInv'
<1> SUFFICES ASSUME PeersInv, [PmNext]_pmVars
             PROVE  PeersInv'
  OBVIOUS
<1>1. /\ pmNow \in Nat /\ DOMAIN pmTracked \subseteq PmPeers /\ pmConns \in [PmPeers -> Nat]
      /\ \A p \in DOMAIN pmTracked : /\ p \notin pmBlack /\ pmConns[p] > 0
                                    /\ ConnOf(pmTracked[p]) /\ SameRates(pmTracked[p], pmTracked[p])
  BY Zenon DEF PeersInv, RatesInv, LimitsInv, ConnSound, SameRates
<1>2. ASSUME NEW p \in PmPeers, NEW out \in BOOLEAN, ConnectionEstablished(p, out)
      PROVE  PeersInv'
  BY <1>2, EstablishedKeeps, Zenon
<1>3. ASSUME NEW p \in PmPeers, ConnectionClosed(p)
      PROVE  PeersInv'
  <2>1. pmTracked' = Without(pmTracked, {p}) /\ pmConns' = [pmConns EXCEPT ![p] = @ - 1]
        /\ pmConns[p] > 0 /\ UNCHANGED <<pmBlack, pmNow, pmSent>>
    BY <1>3, Zenon DEF ConnectionClosed
  <2>2. pmConns' \in [PmPeers -> Nat] /\ \A q \in PmPeers \ {p} : pmConns'[q] = pmConns[q]
    BY <1>1, <2>1
  <2>3. DOMAIN pmTracked' = DOMAIN pmTracked \ {p}
        /\ \A q \in DOMAIN pmTracked' : pmTracked'[q] = pmTracked[q]
    BY <2>1, Zenon DEF Without
  <2>4. \A q \in DOMAIN pmTracked' : SameRates(pmTracked[q], pmTracked'[q])
    BY <1>1, <2>3, Zenon
  <2>5. \A q \in DOMAIN pmTracked' : q \notin pmBlack' /\ pmConns'[q] > 0
    BY <1>1, <2>1, <2>2, <2>3, Zenon
  <2>6. UNCHANGED pmSent /\ pmNow' \in Nat /\ pmNow <= pmNow'
        /\ DOMAIN pmTracked' \subseteq DOMAIN pmTracked
    BY <1>1, <2>1, <2>3
  <2>7. QED BY <2>2, <2>4, <2>5, <2>6, PeersKept, Zenon
<1>4. ASSUME NEW p \in PmPeers, NEW k \in PmKinds, RequestOf(p, k)
      PROVE  PeersInv'
  <2>1. RatesInv'
    BY <1>4, RequestKeepsRates, Zenon DEF PeersInv
  <2>2. DOMAIN pmTracked' = DOMAIN pmTracked
        /\ \A q \in DOMAIN pmTracked : pmTracked'[q].out = pmTracked[q].out
    <3>1. CASE p \in DOMAIN pmTracked
      <4>1. pmTracked' = Put(pmTracked, p, check_rate_limit(pmTracked[p], k).conn)
        BY <1>4, <3>1, Zenon DEF RequestOf
      <4>2. pmTracked[p].count \in [PmKinds -> Nat]
        BY <3>1, Zenon DEF PeersInv, RatesInv, ConnSound
      <4>3. check_rate_limit(pmTracked[p], k).conn.out = pmTracked[p].out
        BY <1>1, <3>1, <4>2, CheckedConn, Zenon DEF Checked
      <4>4. QED BY <3>1, <4>1, <4>3, Zenon DEF Put
    <3>2. CASE p \notin DOMAIN pmTracked
      BY <1>4, <3>2, Zenon DEF RequestOf
    <3>3. QED BY <3>1, <3>2, Zenon
  <2>3. Tracked(TRUE)' = Tracked(TRUE) /\ Tracked(FALSE)' = Tracked(FALSE)
    BY <2>2, Zenon DEF Tracked
  <2>4. UNCHANGED <<pmConns, pmBlack>>
    BY <1>4, Zenon DEF RequestOf
  <2>5. QED BY <2>1, <2>2, <2>3, <2>4, Zenon DEF PeersInv, LimitsInv
<1>5. ASSUME NEW p \in PmPeers, record_success(p)
      PROVE  PeersInv'
  <2> DEFINE c == pmTracked[p]
             d == [c EXCEPT !.reputation = IF @ < PmMaxReputation THEN @ + 1 ELSE @]
  <2>1. p \in DOMAIN pmTracked /\ UNCHANGED <<pmConns, pmBlack, pmNow, pmSent>>
        /\ pmTracked' = [pmTracked EXCEPT ![p] = [d EXCEPT !.seen = pmNow]]
    BY <1>5, Zenon DEF record_success
  <2>2. ConnOf(c) /\ SameRates(c, d)
    BY <1>1, <2>1, OtherFields, Zenon
  <2> HIDE DEF d
  <2>3. SameRates(d, [d EXCEPT !.seen = pmNow])
    BY <2>2, OtherFields, Zenon DEF SameRates
  <2>4. SameRates(c, [d EXCEPT !.seen = pmNow])
    BY <2>2, <2>3, Zenon DEF SameRates
  <2>5. DOMAIN pmTracked' = DOMAIN pmTracked
        /\ \A q \in DOMAIN pmTracked : SameRates(pmTracked[q], pmTracked'[q])
    BY <1>1, <2>1, <2>4, Zenon
  <2>6. QED BY <1>1, <2>1, <2>5, PeersKept
<1>6. ASSUME NEW p, blacklist_peer(p), UNCHANGED <<pmConns, pmNow, pmSent>>
      PROVE  PeersInv'
  <2>1. pmBlack' = pmBlack \cup {p} /\ DOMAIN pmTracked' = DOMAIN pmTracked \ {p}
        /\ \A q \in DOMAIN pmTracked' : pmTracked'[q] = pmTracked[q]
    BY <1>6, Zenon DEF blacklist_peer, Without
  <2>2. QED BY <1>1, <1>6, <2>1, PeersKept
<1>7. ASSUME NEW p \in PmPeers, record_failure(p)
      PROVE  PeersInv'
  <2> DEFINE c == pmTracked[p]
             fallen == c.reputation - PmFailurePenalty
             rep == IF fallen < -PmMaxReputation THEN -PmMaxReputation ELSE fallen
             d == [c EXCEPT !.reputation = rep]
             e == [d EXCEPT !.failed = c.failed + 1]
             f == [e EXCEPT !.seen = pmNow]
  <2>1. p \in DOMAIN pmTracked /\ UNCHANGED <<pmConns, pmNow, pmSent>>
    BY <1>7, Zenon DEF record_failure
  <2>2. CASE blacklist_peer(p)
    BY <1>6, <2>1, <2>2, Zenon
  <2>3. CASE ~blacklist_peer(p)
    <3>1. pmTracked' = [pmTracked EXCEPT ![p] = f] /\ UNCHANGED pmBlack
      BY <1>7, <2>3, Zenon DEF record_failure
    <3>2. SameRates(c, d)
      BY <1>1, <2>1, OtherFields, Zenon
    <3> HIDE DEF d
    <3>3. SameRates(d, e)
      BY <3>2, OtherFields, Zenon DEF SameRates
    <3> HIDE DEF e
    <3>4. SameRates(e, f)
      BY <3>3, OtherFields, Zenon DEF SameRates
    <3>5. SameRates(c, f)
      BY <3>2, <3>3, <3>4, Zenon DEF SameRates
    <3> HIDE DEF f
    <3>6. DOMAIN pmTracked' = DOMAIN pmTracked
          /\ \A q \in DOMAIN pmTracked : SameRates(pmTracked[q], pmTracked'[q])
      BY <1>1, <2>1, <3>1, <3>5, Zenon
    <3>7. QED BY <1>1, <2>1, <3>1, <3>6, PeersKept
  <2>4. QED BY <2>2, <2>3, Zenon
<1>8. ASSUME NEW p \in PmPeers, record_violation(p)
      PROVE  PeersInv'
  <2> DEFINE c == pmTracked[p]
             d == [c EXCEPT !.violations = c.violations + 1]
  <2>1. p \in DOMAIN pmTracked /\ UNCHANGED <<pmConns, pmNow, pmSent>>
    BY <1>8 DEF record_violation
  <2>2. CASE blacklist_peer(p)
    BY <1>6, <2>1, <2>2
  <2>3. CASE ~blacklist_peer(p)
    <3>1. pmTracked' = [pmTracked EXCEPT ![p] = d] /\ UNCHANGED pmBlack
      BY <1>8, <2>3, Zenon DEF record_violation
    <3>2. SameRates(c, d)
      BY <1>1, <2>1, OtherFields, Zenon
    <3> HIDE DEF d
    <3>3. DOMAIN pmTracked' = DOMAIN pmTracked
          /\ \A q \in DOMAIN pmTracked : SameRates(pmTracked[q], pmTracked'[q])
      BY <1>1, <2>1, <3>1, <3>2
    <3>4. QED BY <1>1, <2>1, <3>1, <3>3, PeersKept
  <2>4. QED BY <2>2, <2>3
<1>9. CASE cleanup_stale_peers
  <2>1. UNCHANGED <<pmConns, pmBlack, pmNow, pmSent>> /\ DOMAIN pmTracked' \subseteq DOMAIN pmTracked
        /\ \A q \in DOMAIN pmTracked' : pmTracked'[q] = pmTracked[q]
    BY <1>9, Zenon DEF cleanup_stale_peers, Without
  <2>2. QED BY <1>1, <2>1, PeersKept
<1>10. ASSUME NEW bad, PeriodicTasks(bad)
       PROVE  PeersInv'
  BY <1>1, <1>10, PeersKept DEF PeriodicTasks
<1>11. CASE PmTick
  BY <1>1, <1>11, PeersKept DEF PmTick
<1>12. CASE UNCHANGED pmVars
  BY <1>1, <1>12, PeersKept DEF pmVars
<1>13. ASSUME NEW p \in PmPeers,
              SendBlockRequest(p) \/ RequestHeaders(p) \/ SendProofRequest(p)
       PROVE  PeersInv'
  BY <1>4, <1>13, PeersAssumption, Zenon DEF SendBlockRequest, RequestHeaders, SendProofRequest
<1>14. QED BY <1>2, <1>3, <1>5, <1>7, <1>8, <1>9, <1>10, <1>11, <1>12, <1>13 DEF PmNext

\* A selection of at most n peers of S that names none twice.
Selection(s, S, n) ==
  /\ s \in Seq(S) /\ Len(s) <= n
  /\ \A i, j \in 1 .. Len(s) : s[i] = s[j] => i = j

LEMMA SelectionCounts ==
  ASSUME NEW S, IsFiniteSet(S), NEW n, NEW s, Selection(s, S, n)
  PROVE  Cardinality(Chosen(s)) = Len(s) /\ Chosen(s) \subseteq S
<1>1. s \in Seq(S) /\ Len(s) \in Nat /\ DOMAIN s = 1 .. Len(s)
  BY DEF Selection
<1>2. s \in [1 .. Len(s) -> Chosen(s)] /\ Chosen(s) \subseteq S
  BY <1>1 DEF Chosen
<1>3. \A y \in Chosen(s) : \E i \in 1 .. Len(s) : s[i] = y
  BY <1>1, Zenon DEF Chosen
<1>4. s \in Bijection(1 .. Len(s), Chosen(s))
  BY <1>2, <1>3, Zenon DEF Selection, Bijection, Injection, Surjection, IsInjective
<1>5. ExistsBijection(1 .. Len(s), Chosen(s))
  BY <1>4, Zenon DEF ExistsBijection
<1>6. QED BY <1>1, <1>2, <1>5, FS_CountingElements, Zenon

\* An order of a finite set is a selection of all of it, and its beginning one
\* of as many as are asked for.
LEMMA BeginningIsSelection ==
  ASSUME NEW S, IsFiniteSet(S), NEW trait, NEW s \in Ranked(S, trait), NEW n \in Nat
  PROVE  Selection(FirstOf(s, n), S, n) /\ Selection(s, S, Cardinality(S))
<1> DEFINE k == Cardinality(S)
<1>1. k \in Nat /\ s \in [1 .. k -> S] /\ \A i, j \in 1 .. k : i # j => s[i] # s[j]
  BY FS_CardinalityType, Zenon DEF Ranked, Orders, Injection, IsInjective
<1> HIDE DEF k
<1>2. s \in Seq(S) /\ Len(s) = k
  BY <1>1
<1>3. Selection(s, S, k)
  BY <1>1, <1>2 DEF Selection
<1>4. PICK m \in Nat : m = (IF Len(s) < n THEN Len(s) ELSE n) /\ m <= n /\ m <= k
  BY <1>1, <1>2
<1>5. FirstOf(s, n) = SubSeq(s, 1, m)
  BY <1>4, Zenon DEF FirstOf
<1>6. SubSeq(s, 1, m) \in Seq(S) /\ Len(SubSeq(s, 1, m)) = m
      /\ \A i \in 1 .. m : SubSeq(s, 1, m)[i] = s[i]
  BY <1>1, <1>2, <1>4
<1>7. QED BY <1>1, <1>3, <1>4, <1>5, <1>6 DEF Selection, k

\* The peers of both are the peers of the two in a row.
Joins(a, b) == Chosen(a \o b) = Chosen(a) \cup Chosen(b)

\* Selections from sets without a common peer make up one selection.
LEMMA JoinedSelections ==
  ASSUME NEW S, NEW n \in Nat, NEW m \in Nat, NEW a, NEW b, NEW T,
         Selection(a, S, n), Selection(b, T, m), T \subseteq S \ Chosen(a)
  PROVE  Selection(a \o b, S, n + m) /\ Joins(a, b)
<1>1. a \in Seq(S) /\ b \in Seq(T) /\ Len(a) \in Nat /\ Len(b) \in Nat /\ b \in Seq(S)
      /\ Len(a) <= n /\ Len(b) <= m
  BY DEF Selection
<1> DEFINE k == Len(a) + Len(b)
<1>2. a \o b \in Seq(S) /\ Len(a \o b) = k
      /\ \A i \in 1 .. k : (a \o b)[i] = IF i <= Len(a) THEN a[i] ELSE b[i - Len(a)]
  BY <1>1
<1>3. \A i \in 1 .. Len(a), j \in 1 .. Len(b) : a[i] # b[j]
  BY <1>1 DEF Chosen
<1>4. ASSUME NEW i \in 1 .. k, NEW j \in 1 .. k, (a \o b)[i] = (a \o b)[j]
      PROVE  i = j
  <2>1. CASE i <= Len(a) /\ j <= Len(a)
    BY <1>1, <1>2, <1>4, <2>1 DEF Selection
  <2>2. CASE i <= Len(a) /\ ~(j <= Len(a))
    <3>1. a[i] = b[j - Len(a)] /\ i \in 1 .. Len(a) /\ j - Len(a) \in 1 .. Len(b)
      BY <1>1, <1>2, <1>4, <2>2
    <3>2. QED BY <1>3, <3>1, Zenon
  <2>3. CASE ~(i <= Len(a)) /\ j <= Len(a)
    <3>1. a[j] = b[i - Len(a)] /\ j \in 1 .. Len(a) /\ i - Len(a) \in 1 .. Len(b)
      BY <1>1, <1>2, <1>4, <2>3
    <3>2. QED BY <1>3, <3>1, Zenon
  <2>4. CASE ~(i <= Len(a)) /\ ~(j <= Len(a))
    <3>1. b[i - Len(a)] = b[j - Len(a)] /\ i - Len(a) \in 1 .. Len(b) /\ j - Len(a) \in 1 .. Len(b)
      BY <1>1, <1>2, <1>4, <2>4
    <3>2. i - Len(a) = j - Len(a)
      BY <3>1, Zenon DEF Selection
    <3>3. QED BY <1>1, <3>2
  <2>5. QED BY <2>1, <2>2, <2>3, <2>4, Zenon
<1>5. Selection(a \o b, S, n + m)
  BY <1>1, <1>2, <1>4 DEF Selection
<1>6. Chosen(a \o b) \subseteq Chosen(a) \cup Chosen(b)
  <2> SUFFICES ASSUME NEW i \in 1 .. k PROVE (a \o b)[i] \in Chosen(a) \cup Chosen(b)
    BY <1>2 DEF Chosen
  <2>1. CASE i <= Len(a)
    BY <1>1, <1>2, <2>1 DEF Chosen
  <2>2. CASE ~(i <= Len(a))
    <3>1. i - Len(a) \in DOMAIN b /\ (a \o b)[i] = b[i - Len(a)]
      BY <1>1, <1>2, <2>2
    <3>2. QED BY <3>1, Zenon DEF Chosen
  <2>3. QED BY <2>1, <2>2, Zenon
<1>7. Chosen(a) \subseteq Chosen(a \o b)
  <2> SUFFICES ASSUME NEW x \in Chosen(a) PROVE x \in Chosen(a \o b)
    BY Zenon
  <2>0. PICK i \in 1 .. Len(a) : x = a[i]
    BY <1>1 DEF Chosen
  <2>1. i \in DOMAIN (a \o b) /\ (a \o b)[i] = a[i]
    BY <1>1, <1>2
  <2>2. QED BY <2>0, <2>1, Zenon DEF Chosen
<1>8. Chosen(b) \subseteq Chosen(a \o b)
  <2> SUFFICES ASSUME NEW x \in Chosen(b) PROVE x \in Chosen(a \o b)
    BY Zenon
  <2>0. PICK i \in 1 .. Len(b) : x = b[i]
    BY <1>1 DEF Chosen
  <2>1. i + Len(a) \in 1 .. k /\ ~(i + Len(a) <= Len(a)) /\ (i + Len(a)) - Len(a) = i
    BY <1>1
  <2>2. i + Len(a) \in DOMAIN (a \o b) /\ (a \o b)[i + Len(a)] = b[i]
    BY <1>2, <2>1
  <2>3. QED BY <2>0, <2>2, Zenon DEF Chosen
<1>9. QED BY <1>5, <1>6, <1>7, <1>8, Zenon DEF Joins

\* What the order s has given after its first i peers: peers of these, each
\* once, and at most n (select_diversity_focused).
Taken(s, S, n, i, c) ==
  /\ Selection(c, S, n)
  /\ Chosen(c) \subseteq {s[j] : j \in 1 .. i}

LEMMA TakeKeeps ==
  ASSUME NEW S, NEW n \in Nat, NEW s \in Seq(S), \A i, j \in 1 .. Len(s) : s[i] = s[j] => i = j,
         NEW i \in Nat, i + 1 <= Len(s), NEW c, Taken(s, S, n, i, c)
  PROVE  Taken(s, S, n, i + 1, Take(c, s[i + 1], n))
<1>1. c \in Seq(S) /\ Len(c) \in Nat /\ Len(c) <= n /\ i + 1 \in 1 .. Len(s) /\ s[i + 1] \in S
  BY DEF Taken, Selection
<1>2. CASE Take(c, s[i + 1], n) = c
  BY <1>1, <1>2 DEF Taken
<1>3. CASE Take(c, s[i + 1], n) = Append(c, s[i + 1]) /\ Len(c) < n
  <2> DEFINE x == s[i + 1]
             d == Append(c, x)
  <2>1. x \notin Chosen(c)
    BY <1>1 DEF Taken
  <2> HIDE DEF x
  <2>2. d \in Seq(S) /\ Len(d) = Len(c) + 1 /\ d[Len(c) + 1] = x
        /\ \A j \in 1 .. Len(c) : d[j] = c[j] /\ c[j] \in Chosen(c)
    BY <1>1 DEF Chosen, x
  <2>3. \A j, k \in 1 .. Len(d) : d[j] = d[k] => j = k
    <3> SUFFICES ASSUME NEW j \in 1 .. Len(d), NEW k \in 1 .. Len(d), d[j] = d[k]
                 PROVE  j = k
      BY Zenon
    <3> HIDE DEF d
    <3>1. CASE j <= Len(c) /\ k <= Len(c)
      <4>1. j \in 1 .. Len(c) /\ k \in 1 .. Len(c) /\ c[j] = c[k]
        BY <1>1, <2>2, <3>1
      <4>2. QED BY <4>1, Zenon DEF Taken, Selection
    <3>2. CASE j <= Len(c) /\ k = Len(c) + 1
      BY <1>1, <2>1, <2>2, <3>2
    <3>3. CASE j = Len(c) + 1 /\ k <= Len(c)
      BY <1>1, <2>1, <2>2, <3>3
    <3>4. CASE j = Len(c) + 1 /\ k = Len(c) + 1
      BY <3>4, Zenon
    <3>5. QED BY <1>1, <2>2, <3>1, <3>2, <3>3, <3>4
  <2>4. Chosen(d) \subseteq Chosen(c) \cup {x}
    <3> SUFFICES ASSUME NEW j \in DOMAIN d PROVE d[j] \in Chosen(c) \cup {x}
      BY Zenon DEF Chosen
    <3>1. j \in 1 .. Len(c) \/ j = Len(c) + 1
      BY <1>1, <2>2
    <3> HIDE DEF d
    <3>2. QED BY <2>2, <3>1, Zenon
  <2> HIDE DEF d
  <2>5. Selection(d, S, n)
    BY <1>1, <1>3, <2>2, <2>3 DEF Selection
  <2>6. Chosen(d) \subseteq {s[j] : j \in 1 .. i + 1}
    <3>1. {s[j] : j \in 1 .. i} \subseteq {s[j] : j \in 1 .. i + 1} /\ x \in {s[j] : j \in 1 .. i + 1}
      BY DEF x
    <3> DEFINE X == {s[j] : j \in 1 .. i}
               Y == {s[j] : j \in 1 .. i + 1}
    <3>2. Chosen(c) \subseteq X
      BY Zenon DEF Taken
    <3> HIDE DEF X, Y
    <3>3. QED BY <2>4, <3>1, <3>2, Zenon DEF X, Y
  <2>7. QED BY <1>3, <2>5, <2>6, Zenon DEF Taken, d, x
<1>4. QED BY <1>2, <1>3, Zenon DEF Take

\* The peers chosen in turn are what the recursion of TakenInTurn says.
LEMMA TakenUnrolls ==
  ASSUME NEW S, NEW n \in Nat, NEW s \in Seq(S), NEW g, g = TakenInTurn(s, n)
  PROVE  g[0] = <<>> /\ \A i \in Nat : i + 1 <= Len(s) => g[i + 1] = Take(g[i], s[i + 1], n)
<1> DEFINE k == Len(s)
           next == [z \in Nat \X Seq(S) |->
                      IF z[1] + 1 <= k THEN Take(z[2], s[z[1] + 1], n) ELSE z[2]]
           Solves(f) == f = [i \in 0 .. k |-> IF i = 0 THEN <<>> ELSE Take(f[i - 1], s[i], n)]
<1>1. k \in Nat
  OBVIOUS
<1>2. \A i \in Nat, c \in Seq(S) : next[<<i, c>>] \in Seq(S)
  <2> SUFFICES ASSUME NEW i \in Nat, NEW c \in Seq(S) PROVE next[<<i, c>>] \in Seq(S)
    BY Zenon
  <2>1. next[<<i, c>>] = IF i + 1 <= k THEN Take(c, s[i + 1], n) ELSE c
    BY Zenon
  <2>2. i + 1 <= k => s[i + 1] \in S
    OBVIOUS
  <2>3. QED BY <2>1, <2>2 DEF Take
<1>3. <<>> \in Seq(S)
  OBVIOUS
<1>4. PICK f : Path(Seq(S), <<>>, next, k, f)
  <2> HIDE DEF next, k
  <2>1. QED BY <1>1, <1>2, <1>3, PathExists, Zenon
<1>5. f \in [0 .. k -> Seq(S)] /\ f[0] = <<>>
      /\ \A i \in 0 .. k - 1 : f[i + 1] = next[<<i, f[i]>>]
  BY <1>4, Zenon DEF Path
<1>6. \A i \in 0 .. k : i # 0 => f[i] = Take(f[i - 1], s[i], n)
  <2> SUFFICES ASSUME NEW i \in 0 .. k, i # 0 PROVE f[i] = Take(f[i - 1], s[i], n)
    BY Zenon
  <2>1. i - 1 \in 0 .. k - 1 /\ i - 1 \in Nat /\ (i - 1) + 1 = i /\ i <= k /\ f[i - 1] \in Seq(S)
    BY <1>1, <1>5
  <2>2. f[i] = next[<<i - 1, f[i - 1]>>]
    BY <1>5, <2>1, Zenon
  <2>3. QED BY <2>1, <2>2, Zenon
<1>7. Solves(f)
  BY <1>5, <1>6, Zenon
<1>8. g = CHOOSE h : Solves(h)
  BY Zenon DEF TakenInTurn
<1>9. Solves(g)
  <2> HIDE DEF Solves
  <2>1. QED BY <1>7, <1>8, Zenon
<1>10. g[0] = <<>>
  BY <1>1, <1>9
<1>11. ASSUME NEW i \in Nat, i + 1 <= k
       PROVE  g[i + 1] = Take(g[i], s[i + 1], n)
  BY <1>1, <1>9, <1>11
<1>12. QED BY <1>10, <1>11, Zenon

\* select_diversity_focused makes a selection: its caps only leave peers out.
LEMMA DiverseIsSelection ==
  ASSUME NEW S, IsFiniteSet(S), NEW n \in Nat, NEW c \in select_diversity_focused(S, n)
  PROVE  Selection(c, S, n)
<1>1. PICK s \in Ranked(S, "div") : c = TakenInTurn(s, n)[Len(s)]
  BY Zenon DEF select_diversity_focused
<1>2. Selection(s, S, Cardinality(S))
  BY BeginningIsSelection, Zenon
<1>3. s \in Seq(S) /\ Len(s) \in Nat /\ \A i, j \in 1 .. Len(s) : s[i] = s[j] => i = j
  BY <1>2 DEF Selection
<1>4. PICK g : g = TakenInTurn(s, n)
  BY Zenon
<1>5. g[0] = <<>> /\ \A i \in Nat : i + 1 <= Len(s) => g[i + 1] = Take(g[i], s[i + 1], n)
  BY <1>3, <1>4, TakenUnrolls
<1> DEFINE P == {i \in Nat : i <= Len(s) => Taken(s, S, n, i, g[i])}
<1>6. 0 \in P
  <2>1. Selection(<<>>, S, n) /\ Chosen(<<>>) = {}
    BY DEF Selection, Chosen
  <2>2. QED BY <1>5, <2>1, Zenon DEF Taken
<1>7. ASSUME NEW i \in Nat, i \in P PROVE i + 1 \in P
  <2> SUFFICES ASSUME i + 1 <= Len(s) PROVE Taken(s, S, n, i + 1, g[i + 1])
    OBVIOUS
  <2>1. Taken(s, S, n, i, g[i])
    BY <1>3, <1>7
  <2>2. Taken(s, S, n, i + 1, Take(g[i], s[i + 1], n))
    BY <1>3, <2>1, TakeKeeps, Zenon
  <2>3. QED BY <1>5, <2>2, Zenon
<1>8. Nat \subseteq P
  <2> HIDE DEF P
  <2>1. QED BY <1>6, <1>7, NatInductive, Zenon
<1>9. Taken(s, S, n, Len(s), g[Len(s)])
  BY <1>3, <1>8
<1>10. QED BY <1>1, <1>4, <1>9, Zenon DEF Taken

\* A hybrid selection is a selection (select_hybrid).
LEMMA HybridIsSelection ==
  ASSUME NEW S, IsFiniteSet(S), NEW n \in Nat, NEW s \in select_hybrid(S, n)
  PROVE  Selection(s, S, n)
<1> DEFINE third == n \div 3
           rest == n - 2 * (n \div 3)
<1>1. third \in Nat /\ rest \in Nat /\ third + (third + rest) = n /\ (third + third) + rest = n
  OBVIOUS
<1>2. PICK a \in select_performance_optimized(S, third) :
        s \in UNION {{a \o b \o c : c \in select_security_focused((S \ Chosen(a)) \ Chosen(b), rest)} :
                       b \in select_diversity_focused(S \ Chosen(a), third)}
  <2> HIDE DEF third, rest
  <2>1. QED BY Zenon DEF select_hybrid, third, rest
<1>2a. PICK b \in select_diversity_focused(S \ Chosen(a), third) :
         s \in {a \o b \o c : c \in select_security_focused((S \ Chosen(a)) \ Chosen(b), rest)}
  BY <1>2, Zenon
<1>2b. PICK c \in select_security_focused((S \ Chosen(a)) \ Chosen(b), rest) : s = a \o b \o c
  BY <1>2a, Zenon
<1>3. Selection(a, S, third)
  <2>1. PICK r \in Ranked(S, "perf") : a = FirstOf(r, third)
    BY <1>2, Zenon DEF select_performance_optimized
  <2> HIDE DEF third
  <2>2. QED BY <1>1, <2>1, BeginningIsSelection, Zenon
<1>4. IsFiniteSet(S \ Chosen(a)) /\ IsFiniteSet((S \ Chosen(a)) \ Chosen(b))
  BY FS_Subset, Zenon
<1>5. Selection(b, S \ Chosen(a), third)
  <2> HIDE DEF third, rest
  <2>1. QED BY <1>1, <1>2a, <1>4, DiverseIsSelection, Zenon
<1> DEFINE left == (S \ Chosen(a)) \ Chosen(b)
           safe == {p \in left : pmTracked[p].reputation >= 0}
<1>6. Selection(c, safe, rest)
  <2>1. PICK r \in Ranked(safe, "sec") : c = FirstOf(r, rest)
    BY <1>2b, Zenon DEF select_security_focused
  <2>2. IsFiniteSet(safe)
    BY <1>4, FS_Subset, Zenon
  <2> HIDE DEF rest, safe
  <2>3. QED BY <1>1, <2>1, <2>2, BeginningIsSelection, Zenon
<1> HIDE DEF third, rest
<1>7. Selection(a \o b, S, third + third) /\ Chosen(a \o b) = Chosen(a) \cup Chosen(b)
  <2>1. PICK T : T = S \ Chosen(a)
    BY Zenon
  <2>2. Selection(b, T, third) /\ T \subseteq S \ Chosen(a)
    BY <1>5, <2>1, Zenon
  <2>3. Selection(a \o b, S, third + third)
    BY <1>1, <1>3, <2>2, JoinedSelections, Zenon
  <2>4. Joins(a, b)
    BY <1>1, <1>3, <2>2, JoinedSelections, Zenon
  <2>5. QED BY <2>3, <2>4, Zenon DEF Joins
<1>8. safe \subseteq S \ Chosen(a \o b)
  BY <1>7, Zenon
<1> DEFINE ab == a \o b
<1>9. third + third \in Nat
  BY <1>1
<1> HIDE DEF safe, ab
<1>10. Selection(ab, S, third + third) /\ safe \subseteq S \ Chosen(ab) /\ s = ab \o c
  BY <1>2b, <1>7, <1>8, Zenon DEF ab
<1>11. Selection(ab \o c, S, (third + third) + rest)
  BY <1>1, <1>6, <1>9, <1>10, JoinedSelections, Zenon
<1>12. QED BY <1>1, <1>10, <1>11, Zenon

LEMMA PeersInvariant == PmSpec => []PeersInv
<1>1. PmInit => PeersInv
  <2> SUFFICES ASSUME PmInit PROVE PeersInv
    BY Zenon
  <2>1. Tracked(TRUE) = {} /\ Tracked(FALSE) = {}
    BY Zenon DEF PmInit, EmptyMap, Tracked
  <2>2. Cardinality(Tracked(TRUE)) = 0 /\ Cardinality(Tracked(FALSE)) = 0
    BY <2>1, FS_EmptySet, Zenon
  <2>3. RatesInv
    BY Zenon DEF PmInit, RatesInv, EmptyMap
  <2>4. LimitsInv
    <3>1. pmConns \in [PmPeers -> Nat] /\ DOMAIN pmTracked = {}
      BY Zenon DEF PmInit, EmptyMap
    <3>2. 0 <= PmMaxOut /\ 0 <= PmMaxIn
      BY PeersAssumption
    <3>3. Cardinality(Tracked(TRUE)) <= PmMaxOut /\ Cardinality(Tracked(FALSE)) <= PmMaxIn
      BY <2>2, <3>2, Zenon
    <3>4. \A p \in DOMAIN pmTracked : p \notin pmBlack /\ pmConns[p] > 0
      BY <3>1, Zenon
    <3>5. QED BY <3>1, <3>3, <3>4, Zenon DEF LimitsInv
  <2>5. QED BY <2>3, <2>4, Zenon DEF PeersInv
<1>2. QED BY <1>1, PeersStep, PTL DEF PmSpec

\* In its current window a peer was sent no more requests of a kind than a
\* second allows, although the kinds share the start of the window
\* (check_*_rate_limit).
THEOREM RatesAreLimited == PmSpec => []WindowLimit
<1>1. PeersInv => WindowLimit
  <2> SUFFICES ASSUME PeersInv, NEW p \in DOMAIN pmTracked, NEW k \in PmKinds
               PROVE  Cardinality(SentSince(p, k, pmTracked[p].window)) <= PmLimit[k]
    BY Zenon DEF WindowLimit
  <2> DEFINE c == pmTracked[p]
             since == {s \in pmSent[<<p, k>>] : s[1] >= c.window}
  <2>1. ConnSound(p)
    BY Zenon DEF PeersInv, RatesInv
  <2>2. c.count[k] \in Nat /\ PmLimit[k] \in Nat /\ c.count[k] <= PmLimit[k]
        /\ IsFiniteSet(pmSent[<<p, k>>]) /\ Cardinality(since) <= c.count[k]
    BY <2>1, PeersAssumption, Zenon DEF ConnSound, Counted
  <2>3. IsFiniteSet(since)
    BY <2>2, FS_Subset, Zenon
  <2>4. Cardinality(since) \in Nat
    BY <2>3, FS_CardinalityType, Zenon
  <2> HIDE DEF since
  <2>5. Cardinality(since) <= PmLimit[k]
    BY <2>2, <2>4
  <2>6. QED BY <2>5, Zenon DEF SentSince, since
<1>2. QED BY <1>1, PeersInvariant, PTL

\* However connections come and go, the limits hold, a tracked peer is connected
\* and not banned, and a hybrid selection names tracked peers, each once, and
\* no more than asked for (add_peer, blacklist_peer, select_hybrid).
THEOREM TrackingIsSound == PmSpec => []TrackedSound
<1>1. PeersInv => TrackedSound
  <2> SUFFICES ASSUME PeersInv PROVE TrackedSound
    BY Zenon
  <2>1. IsFiniteSet(DOMAIN pmTracked)
    BY PeersAssumption, FS_Subset, Zenon DEF PeersInv, RatesInv
  <2>2. ASSUME NEW n \in 0 .. Cardinality(PmPeers), NEW s \in select_hybrid(DOMAIN pmTracked, n)
        PROVE  Len(s) <= n /\ Cardinality(Chosen(s)) = Len(s) /\ Chosen(s) \subseteq DOMAIN pmTracked
    <3>1. Selection(s, DOMAIN pmTracked, n)
      BY <2>1, HybridIsSelection
    <3>2. QED BY <2>1, <3>1, SelectionCounts, Zenon DEF Selection
  <2>3. QED BY <2>2, Zenon DEF TrackedSound, PeersInv, LimitsInv
<1>2. QED BY <1>1, PeersInvariant, PTL

-----------------------------------------------------------------------------
(***************************************************************************)
(* The ticket pool, for every set of tickets, every size of a committee    *)
(* and any number of rival blocks: no two of them are final at a height.   *)
(***************************************************************************)

\* Only the committee of the height has cast votes (select_tickets_for_voting,
\* the votes of a block).
PoolInv ==
  /\ DOMAIN tickets \subseteq PoolTickets
  /\ committee \subseteq PoolTickets
  /\ DOMAIN cast \subseteq committee

\* The operations of the pool keep PoolInv, in whatever order they are called.
LEMMA PoolStep == PoolInv /\ [PoolNext]_poolVars => PoolInv'
<1> SUFFICES ASSUME PoolInv, [PoolNext]_poolVars
             PROVE  PoolInv'
  OBVIOUS
<1>1. CASE PoolTicketFinality
  BY <1>1, Zenon DEF PoolInv, PoolTicketFinality, SetStatus
<1>2. CASE PoolTicketExpiration
  BY <1>2, Zenon DEF PoolInv, PoolTicketExpiration, SetStatus
<1>3. CASE SelectTicketsForVoting
  BY <1>3, Zenon DEF PoolInv, SelectTicketsForVoting, WithStatus
<1>4. CASE NextHeight
  BY <1>4, Zenon DEF PoolInv, NextHeight, EmptyMap
<1>5. ASSUME NEW i \in PoolTickets, AddTicket(i) PROVE PoolInv'
  BY <1>5, Zenon DEF PoolInv, AddTicket, Put
<1>6. ASSUME NEW i \in PoolTickets, RemoveTicket(i) PROVE PoolInv'
  BY <1>6, Zenon DEF PoolInv, RemoveTicket, Without
<1>7. ASSUME NEW i \in PoolTickets, MarkTicketVoted(i) PROVE PoolInv'
  BY <1>7, Zenon DEF PoolInv, MarkTicketVoted, SetStatus
<1>8. ASSUME NEW i \in PoolTickets, MarkTicketMissed(i) PROVE PoolInv'
  BY <1>8, Zenon DEF PoolInv, MarkTicketMissed
<1>9. ASSUME NEW i \in PoolTickets, RevokeTicket(i) PROVE PoolInv'
  BY <1>9, Zenon DEF PoolInv, RevokeTicket, SetStatus
<1>10. ASSUME NEW i \in PoolTickets, NEW b \in Rivals, CastVote(i, b) PROVE PoolInv'
  BY <1>10, Zenon DEF PoolInv, CastVote, Put
<1>11. CASE UNCHANGED poolVars
  BY <1>11, Zenon DEF PoolInv, poolVars
<1>12. QED BY <1>1, <1>2, <1>3, <1>4, <1>5, <1>6, <1>7, <1>8, <1>9, <1>10, <1>11 DEF PoolNext

\* Two thirds, rounded down, of a committee of three or of more than four are
\* more than half, and a ticket is counted for one block (is_block_final).
LEMMA FinalOnce ==
  ASSUME NEW S, IsFiniteSet(S), NEW votes, DOMAIN votes \subseteq S,
         Cardinality(S) \notin {1, 2, 4}, NEW a, NEW b,
         IsBlockFinal(a, votes, S), IsBlockFinal(b, votes, S)
  PROVE  a = b
<1> SUFFICES ASSUME a # b PROVE FALSE
  BY Zenon
<1> DEFINE A == {i \in DOMAIN votes : votes[i] = a}
           B == {i \in DOMAIN votes : votes[i] = b}
           n == Cardinality(S)
<1>1. IsFiniteSet(A) /\ IsFiniteSet(B) /\ IsFiniteSet(A \cup B) /\ A \cap B = {}
  BY FS_Subset, FS_Union, Zenon
<1>2. A \cup B \subseteq S
  BY Zenon
<1>3. n \in Nat /\ Cardinality(A) \in Nat /\ Cardinality(B) \in Nat
  BY <1>1, FS_CardinalityType, Zenon
<1>4. n # 0
  BY FS_EmptySet, Zenon DEF IsBlockFinal
<1>5. Cardinality(A) >= (n * 2) \div 3 /\ Cardinality(B) >= (n * 2) \div 3
  BY Zenon DEF IsBlockFinal
<1> HIDE DEF A, B
<1>6. Cardinality(A \cup B) = Cardinality(A) + Cardinality(B) - Cardinality(A \cap B)
  BY <1>1, FS_Union, Zenon
<1>7. Cardinality(A \cap B) = 0
  BY <1>1, FS_EmptySet, Zenon
<1>8. Cardinality(A \cup B) <= n
  BY <1>2, FS_Subset, Zenon
<1> HIDE DEF n
<1>9. PICK x \in Nat, y \in Nat : x = Cardinality(A) /\ y = Cardinality(B)
  BY <1>3, Zenon
<1>10. x >= (n * 2) \div 3 /\ y >= (n * 2) \div 3 /\ x + y <= n /\ n \in Nat
       /\ n \notin {0, 1, 2, 4}
  BY <1>3, <1>4, <1>5, <1>6, <1>7, <1>8, <1>9 DEF n
<1>11. QED BY <1>10

\* Of the blocks that compete at a height at most one is final, for a committee of
\* which two thirds, rounded down, are more than half (is_block_final).
THEOREM FinalBlocksAreUnique == PoolSpec => []OneFinalBlock
<1>1. PoolInit => PoolInv
  BY Zenon DEF PoolInit, PoolInv, EmptyMap
<1>2. PoolInv => OneFinalBlock
  <2> SUFFICES ASSUME PoolInv, Cardinality(committee) \notin {1, 2, 4},
                      NEW a \in Rivals, NEW b \in Rivals,
                      IsBlockFinal(a, cast, committee), IsBlockFinal(b, cast, committee)
               PROVE  a = b
    BY Zenon DEF OneFinalBlock
  <2>1. IsFiniteSet(committee) /\ DOMAIN cast \subseteq committee
    BY PoolAssumption, FS_Subset, Zenon DEF PoolInv
  <2>2. QED BY <2>1, FinalOnce, Zenon
<1>3. QED BY <1>1, <1>2, PoolStep, PTL DEF PoolSpec

-----------------------------------------------------------------------------
(***************************************************************************)
(* The adaptive block size, for all sizes of blocks, periods and limits:   *)
(* a restarted node computes the limit of the running one.                 *)
(***************************************************************************)

\* f holds the calculators after the first n blocks (from_block_history, for a
\* history that begins with the first block).
Replays(blocks, n, f) ==
  f = [i \in 0 .. n |-> IF i = 0 THEN NewCalculator
                        ELSE UpdateWithBlock(f[i - 1], blocks[i], i)]

LEMMA ReplayExists ==
  ASSUME NEW blocks
  PROVE  \A n \in Nat : \E f : Replays(blocks, n, f)
<1> DEFINE P == {n \in Nat : \E f : Replays(blocks, n, f)}
<1>1. 0 \in P
  <2> DEFINE f == [i \in 0 .. 0 |-> NewCalculator]
  <2>1. Replays(blocks, 0, f)
    BY DEF Replays
  <2>2. QED BY <2>1, Zenon
<1>2. ASSUME NEW n \in Nat, n \in P PROVE n + 1 \in P
  <2>1. PICK f : Replays(blocks, n, f)
    BY <1>2, Zenon
  <2> DEFINE g == [i \in 0 .. n + 1 |-> IF i = n + 1 THEN UpdateWithBlock(f[n], blocks[n + 1], n + 1)
                                        ELSE f[i]]
  <2>2. ASSUME NEW i \in 0 .. n + 1
        PROVE  g[i] = IF i = 0 THEN NewCalculator ELSE UpdateWithBlock(g[i - 1], blocks[i], i)
    <3>1. CASE i = n + 1
      <4>1. i # 0 /\ i - 1 = n /\ n \in 0 .. n + 1 /\ n # n + 1
        BY <3>1
      <4>2. g[i] = UpdateWithBlock(f[n], blocks[n + 1], n + 1) /\ g[n] = f[n]
        BY <3>1, <4>1, Zenon
      <4> HIDE DEF g
      <4>3. QED BY <3>1, <4>1, <4>2, Zenon
    <3>2. CASE i = 0
      <4>1. g[0] = f[0] /\ f[0] = NewCalculator
        BY <2>1 DEF Replays
      <4>2. QED BY <3>2, <4>1, Zenon
    <3>3. CASE i \in 1 .. n
      <4>1. i \in 0 .. n /\ i # 0 /\ i # n + 1 /\ i - 1 \in 0 .. n + 1 /\ i - 1 # n + 1
        BY <3>3
      <4>2. g[i] = f[i] /\ g[i - 1] = f[i - 1]
        BY <4>1, Zenon
      <4>3. f[i] = UpdateWithBlock(f[i - 1], blocks[i], i)
        BY <2>1, <4>1, Zenon DEF Replays
      <4> HIDE DEF g
      <4>4. QED BY <4>1, <4>2, <4>3, Zenon
    <3>4. QED BY <3>1, <3>2, <3>3
  <2>3. g = [i \in 0 .. n + 1 |-> g[i]]
    BY Zenon
  <2> HIDE DEF g
  <2>4. Replays(blocks, n + 1, g)
    BY <2>2, <2>3, Zenon DEF Replays
  <2>5. QED BY <2>4
<1>3. Nat \subseteq P
  <2> HIDE DEF P
  <2>1. QED BY <1>1, <1>2, NatInductive, Zenon
<1>4. QED BY <1>3, Zenon

SameFirst(b, c, n) == \A i \in 1 .. n : b[i] = c[i]

\* Replays of histories that agree on the first n blocks agree on them.
LEMMA ReplaysMatch ==
  ASSUME NEW b, NEW c, NEW n \in Nat, NEW m \in Nat, n <= m, SameFirst(b, c, n),
         NEW f, Replays(b, n, f), NEW g, Replays(c, m, g)
  PROVE  f[n] = g[n]
<1> DEFINE P == {i \in Nat : i <= n => f[i] = g[i]}
<1>1. 0 \in P
  BY DEF Replays
<1>2. ASSUME NEW i \in Nat, i \in P PROVE i + 1 \in P
  <2> SUFFICES ASSUME i + 1 <= n PROVE f[i + 1] = g[i + 1]
    OBVIOUS
  <2>1. i + 1 \in 0 .. n /\ i + 1 \in 0 .. m /\ i + 1 # 0 /\ (i + 1) - 1 = i /\ f[i] = g[i]
        /\ b[i + 1] = c[i + 1]
    BY <1>2 DEF SameFirst
  <2>2. f[i + 1] = UpdateWithBlock(f[i], b[i + 1], i + 1)
        /\ g[i + 1] = UpdateWithBlock(g[i], c[i + 1], i + 1)
    BY <2>1, Zenon DEF Replays
  <2>3. QED BY <2>1, <2>2, Zenon
<1>3. Nat \subseteq P
  <2> HIDE DEF P
  <2>1. QED BY <1>1, <1>2, NatInductive, Zenon
<1>4. QED BY <1>3

\* from_block_history ends with the last calculator of a replay.
LEMMA HistoryIsReplay ==
  ASSUME NEW S, NEW blocks \in Seq(S)
  PROVE  \E f : Replays(blocks, Len(blocks), f)
               /\ FromBlockHistory(blocks, Len(blocks)) = f[Len(blocks)]
<1> DEFINE k == Len(blocks)
           Solves(f) == f = [n \in 0 .. k |-> IF n = 0 THEN NewCalculator
                               ELSE UpdateWithBlock(f[n - 1], blocks[n], k - (k - n))]
<1>1. k \in Nat
  OBVIOUS
<1>2. \A n \in 0 .. k : k - (k - n) = n
  BY <1>1
<1>3. \A f : Solves(f) <=> Replays(blocks, k, f)
  BY <1>2, Zenon DEF Replays
<1>4. \E f : Replays(blocks, k, f)
  BY <1>1, ReplayExists, Zenon
<1>5. FromBlockHistory(blocks, k) = (CHOOSE f : Solves(f))[k]
  BY Zenon DEF FromBlockHistory
<1> HIDE DEF Solves, k
<1>6. Solves(CHOOSE f : Solves(f))
  BY <1>3, <1>4, Zenon
<1>7. QED BY <1>3, <1>5, <1>6, Zenon DEF k

SizeInv == stored \in Seq(BlockSizes) /\ ReplayAgrees

\* A block more is one more step of the replay, at the height at which the
\* running calculator takes it (update_with_block, from_block_history).
LEMMA SizeStep == SizeInv /\ [SizeNext]_sizeVars => SizeInv'
<1> SUFFICES ASSUME SizeInv, [SizeNext]_sizeVars
             PROVE  SizeInv'
  OBVIOUS
<1>1. ASSUME NEW s \in BlockSizes, AcceptBlockOfSize(s)
      PROVE  SizeInv'
  <2> DEFINE k == Len(stored)
             more == Append(stored, s)
  <2>1. stored \in Seq(BlockSizes) /\ k \in Nat /\ stored' = more
        /\ calculator' = UpdateWithBlock(calculator, s, k + 1)
    BY <1>1 DEF SizeInv, AcceptBlockOfSize
  <2>2. more \in Seq(BlockSizes) /\ Len(more) = k + 1 /\ more[k + 1] = s
        /\ \A i \in 1 .. k : stored[i] = more[i]
    BY <2>1
  <2>3. PICK f : Replays(stored, k, f) /\ calculator = f[k]
    BY <2>1, HistoryIsReplay, Zenon DEF SizeInv, ReplayAgrees
  <2> HIDE DEF more
  <2>4. PICK g : Replays(more, k + 1, g) /\ FromBlockHistory(more, k + 1) = g[k + 1]
    BY <2>2, HistoryIsReplay, Zenon
  <2>5. f[k] = g[k]
    <3>1. SameFirst(stored, more, k) /\ k + 1 \in Nat /\ k <= k + 1
      BY <2>1, <2>2 DEF SameFirst
    <3> HIDE DEF k
    <3>2. QED BY <2>1, <2>3, <2>4, <3>1, ReplaysMatch
  <2>6. g[k + 1] = UpdateWithBlock(g[k], s, k + 1)
    BY <2>1, <2>2, <2>4 DEF Replays
  <2>7. FromBlockHistory(more, Len(more)) = calculator'
    BY <2>1, <2>2, <2>3, <2>4, <2>5, <2>6, Zenon
  <2>8. QED BY <2>1, <2>2, <2>7, Zenon DEF SizeInv, ReplayAgrees
<1>2. CASE RestartCalculator
  BY <1>2, Zenon DEF SizeInv, ReplayAgrees, RestartCalculator
<1>3. CASE UNCHANGED sizeVars
  BY <1>3, Zenon DEF SizeInv, ReplayAgrees, sizeVars
<1>4. QED BY <1>1, <1>2, <1>3, Zenon DEF SizeNext

\* Whatever blocks arrive and whenever the node restarts, the calculator rebuilt
\* from the stored blocks is the one that has seen them come in
\* (from_block_history, update_with_block).
THEOREM RestartKeepsTheLimit == SizeSpec => []ReplayAgrees
<1>1. SizeInit => SizeInv
  <2> SUFFICES ASSUME SizeInit PROVE SizeInv
    OBVIOUS
  <2>1. stored = <<>> /\ stored \in Seq(BlockSizes) /\ Len(stored) = 0 /\ calculator = NewCalculator
    BY DEF SizeInit
  <2>2. PICK f : Replays(stored, 0, f) /\ FromBlockHistory(stored, 0) = f[0]
    BY <2>1, HistoryIsReplay, Zenon
  <2>3. f[0] = NewCalculator
    BY <2>2 DEF Replays
  <2>4. QED BY <2>1, <2>2, <2>3, Zenon DEF SizeInv, ReplayAgrees
<1>2. SizeInv => ReplayAgrees
  BY Zenon DEF SizeInv
<1>3. QED BY <1>1, <1>2, SizeStep, PTL DEF SizeSpec

=============================================================================
