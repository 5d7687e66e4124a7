---------------------------- MODULE PeerManager ----------------------------
(***************************************************************************)
(* The peers of a node: PeerManager (rusty-p2p/src/peer_manager.rs), which *)
(* limits connections and the rate of requests and bans peers, driven by   *)
(* the swarm's event loop (p2p_network.rs), and PeerSelector               *)
(* (peer_selection.rs), which chooses among the tracked peers.             *)
(*                                                                         *)
(* libp2p may hold several connections to one peer; pmConns counts them.   *)
(* Time is counted in ticks, PmSecond of which make the one second of the  *)
(* rate limits.  The floating-point scores of a peer are abstracted to its *)
(* ranks among the others (PmTraits), which is all the selection compares. *)
(***************************************************************************)
EXTENDS Integers, FiniteSets, Sequences, Maps

CONSTANTS
    PmPeers,          \* the peers of the network
    PmKinds,          \* the rate-limited requests: headers, blocks, proofs
    PmLimit,          \* requests of each kind allowed per second
    PmMaxOut,         \* max_outbound_connections
    PmMaxIn,          \* max_inbound_connections
    PmConnBound,      \* bound on the connections libp2p holds to one peer
    PmSecond,         \* ticks in a second
    PmMaxTime,        \* bound on the time
    PmMaxFailures,    \* failed requests tolerated (20)
    PmFailureBound,   \* bound on the failures counted
    PmMaxViolations,  \* protocol violations tolerated (10)
    PmMaxReputation,  \* the reputation's bound (100)
    PmFailurePenalty, \* what a failure costs (5)
    PmReputationFloor,\* below it the failures get a peer banned (-50)
    PmMaxIdle,        \* max_idle_time of cleanup_stale_peers
    PmTraits          \* peer -> [perf, div, sec, region, provider]

ASSUME PeersAssumption ==
    /\ IsFiniteSet(PmPeers) /\ {"headers", "blocks", "proofs"} \subseteq PmKinds
    /\ PmLimit \in [PmKinds -> Nat] /\ PmSecond \in Nat \ {0}
    /\ PmMaxOut \in Nat /\ PmMaxIn \in Nat

VARIABLES
    pmConns,    \* peer -> number of established connections (the swarm's)
    pmClosing,  \* peers the swarm was told to disconnect
    pmTracked,  \* peers: tracked peer -> its PeerConnection
    pmBlack,    \* blacklisted_peers
    pmNow,      \* the clock
    pmSent,     \* history: <<peer, kind>> -> requests sent since it is tracked
    pmResult    \* what became of the last command

pmVars == <<pmConns, pmClosing, pmTracked, pmBlack, pmNow, pmSent, pmResult>>

NoResult == [what |-> "none"]

\* A PeerConnection as PeerConnection::new makes it, its rate limiter included.
PeerConnection(out) ==
    [out |-> out, count |-> [k \in PmKinds |-> 0], window |-> pmNow,
     failed |-> 0, violations |-> 0, reputation |-> 0, seen |-> pmNow]

PmInit ==
    /\ pmConns = [p \in PmPeers |-> 0]
    /\ pmClosing = {}
    /\ pmTracked = EmptyMap
    /\ pmBlack = {}
    /\ pmNow = 0
    /\ pmSent = [r \in PmPeers \X PmKinds |-> {}]
    /\ pmResult = NoResult

Tracked(out) == {p \in DOMAIN pmTracked : pmTracked[p].out = out}

can_accept_outbound == Cardinality(Tracked(TRUE)) < PmMaxOut

can_accept_inbound == Cardinality(Tracked(FALSE)) < PmMaxIn

\* add_peer answers whether the connection may stay.
add_peer_accepts(p, out) ==
    /\ p \notin pmBlack
    /\ \/ p \in DOMAIN pmTracked
       \/ IF out THEN can_accept_outbound ELSE can_accept_inbound

\* add_peer: a tracked peer keeps its entry.
add_peer(p, out) ==
    pmTracked' = IF p \in DOMAIN pmTracked \/ ~add_peer_accepts(p, out)
                 THEN pmTracked
                 ELSE Put(pmTracked, p, PeerConnection(out))

\* SwarmEvent::ConnectionEstablished: a peer the manager does not take is
\* disconnected again.
ConnectionEstablished(p, out) ==
    /\ pmConns[p] < PmConnBound
    /\ pmConns' = [pmConns EXCEPT ![p] = @ + 1]
    /\ add_peer(p, out)
    /\ pmClosing' = IF add_peer_accepts(p, out) THEN pmClosing ELSE pmClosing \union {p}
    /\ pmSent' = IF p \in DOMAIN pmTracked \/ ~add_peer_accepts(p, out) THEN pmSent
                 ELSE [r \in DOMAIN pmSent |-> IF r[1] = p THEN {} ELSE pmSent[r]]
    /\ pmResult' = NoResult
    /\ UNCHANGED <<pmBlack, pmNow>>

\* A fault: only a peer the node itself disconnects is forgotten.
CloseKeepsPeer(p) ==
    /\ pmConns[p] > 0
    /\ pmConns' = [pmConns EXCEPT ![p] = @ - 1]
    /\ pmTracked' = IF p \in pmClosing THEN Without(pmTracked, {p}) ELSE pmTracked
    /\ pmClosing' = IF pmConns[p] = 1 THEN pmClosing \ {p} ELSE pmClosing
    /\ pmResult' = NoResult
    /\ UNCHANGED <<pmBlack, pmNow, pmSent>>

\* SwarmEvent::ConnectionClosed: remove_peer, whether or not other
\* connections to the peer remain.
ConnectionClosed(p) ==
    /\ pmConns[p] > 0
    /\ pmConns' = [pmConns EXCEPT ![p] = @ - 1]
    /\ pmTracked' = Without(pmTracked, {p})
    /\ pmClosing' = IF pmConns[p] = 1 THEN pmClosing \ {p} ELSE pmClosing
    /\ pmResult' = NoResult
    /\ UNCHANGED <<pmBlack, pmNow, pmSent>>

\* A fault: a new window opens without closing the old one.
CheckKeepsWindow(conn, k) ==
    LET fresh == pmNow - conn.window >= PmSecond
        count == IF fresh THEN 0 ELSE conn.count[k]
    IN  [ok |-> count < PmLimit[k],
         conn |-> [conn EXCEPT !.count[k] = IF count < PmLimit[k] THEN count + 1 ELSE count]]

\* PeerRateLimit::check_*_rate_limit.  The four counters share one window
\* start: the check that finds the window over starts a new one and resets the
\* counter of its own kind only.
check_rate_limit(conn, k) ==
    LET fresh == pmNow - conn.window >= PmSecond
        count == IF fresh THEN 0 ELSE conn.count[k]
    IN  [ok |-> count < PmLimit[k],
         conn |-> [conn EXCEPT
             !.window = IF fresh THEN pmNow ELSE conn.window,
             !.count[k] = IF count < PmLimit[k] THEN count + 1 ELSE count]]

\* A command that sends a rate-limited request: SendBlockRequest,
\* RequestHeaders and SendProofRequest.  An untracked peer is refused.
RequestOf(p, k) ==
    /\ IF p \in DOMAIN pmTracked
       THEN LET check == check_rate_limit(pmTracked[p], k)
            IN  /\ pmTracked' = Put(pmTracked, p, check.conn)
                /\ pmResult' = [what |-> IF check.ok THEN "sent" ELSE "refused",
                                peer |-> p, kind |-> k]
                /\ pmSent' = IF check.ok
                             THEN [pmSent EXCEPT ![<<p, k>>] =
                                      @ \union {<<pmNow, Cardinality(@)>>}]
                             ELSE pmSent
       ELSE /\ pmResult' = [what |-> "untracked", peer |-> p, kind |-> k]
            /\ UNCHANGED <<pmTracked, pmSent>>
    /\ UNCHANGED <<pmConns, pmClosing, pmBlack, pmNow>>

SendBlockRequest(p) == RequestOf(p, "blocks")

RequestHeaders(p) == RequestOf(p, "headers")

SendProofRequest(p) == RequestOf(p, "proofs")

\* PeriodicTasks: the statistics are drawn at random, so any of the connected
\* peers may be found wanting and disconnected.
PeriodicTasks(bad) ==
    /\ bad \subseteq {p \in PmPeers : pmConns[p] > 0}
    /\ pmClosing' = pmClosing \union bad
    /\ pmResult' = NoResult
    /\ UNCHANGED <<pmConns, pmTracked, pmBlack, pmNow, pmSent>>

\* blacklist_peer: the peer is no longer tracked; its connections stay open.
blacklist_peer(p) ==
    /\ pmBlack' = pmBlack \union {p}
    /\ pmTracked' = Without(pmTracked, {p})

\* record_success: the reputation rises by one, up to its bound.
record_success(p) ==
    /\ p \in DOMAIN pmTracked
    /\ pmTracked' = [pmTracked EXCEPT
           ![p].reputation = IF @ < PmMaxReputation THEN @ + 1 ELSE @,
           ![p].seen = pmNow]
    /\ pmResult' = NoResult
    /\ UNCHANGED <<pmConns, pmClosing, pmBlack, pmNow, pmSent>>

\* record_failure: the reputation falls; many failures and a low reputation
\* together ban the peer.
record_failure(p) ==
    /\ p \in DOMAIN pmTracked /\ pmTracked[p].failed < PmFailureBound
    /\ LET fallen == pmTracked[p].reputation - PmFailurePenalty
           rep == IF fallen < -PmMaxReputation THEN -PmMaxReputation ELSE fallen
           failed == pmTracked[p].failed + 1
       IN  IF failed > PmMaxFailures /\ rep < PmReputationFloor
           THEN blacklist_peer(p)
           ELSE /\ pmTracked' = [pmTracked EXCEPT ![p].reputation = rep,
                                     ![p].failed = failed, ![p].seen = pmNow]
                /\ UNCHANGED pmBlack
    /\ pmResult' = NoResult
    /\ UNCHANGED <<pmConns, pmClosing, pmNow, pmSent>>

\* record_violation: too many violations ban the peer.
record_violation(p) ==
    /\ p \in DOMAIN pmTracked
    /\ IF pmTracked[p].violations + 1 > PmMaxViolations
       THEN blacklist_peer(p)
       ELSE /\ pmTracked' = [pmTracked EXCEPT ![p].violations = @ + 1]
            /\ UNCHANGED pmBlack
    /\ pmResult' = NoResult
    /\ UNCHANGED <<pmConns, pmClosing, pmNow, pmSent>>

\* cleanup_stale_peers: peers not heard from for longer than PmMaxIdle.
cleanup_stale_peers ==
    /\ pmTracked' = Without(pmTracked,
           {p \in DOMAIN pmTracked : pmNow - pmTracked[p].seen > PmMaxIdle})
    /\ pmResult' = NoResult
    /\ UNCHANGED <<pmConns, pmClosing, pmBlack, pmNow, pmSent>>

\* Time passes.
PmTick ==
    /\ pmNow < PmMaxTime
    /\ pmNow' = pmNow + 1
    /\ pmResult' = NoResult
    /\ UNCHANGED <<pmConns, pmClosing, pmTracked, pmBlack, pmSent>>

PmNext ==
    \/ \E p \in PmPeers :
        \/ \E out \in BOOLEAN : ConnectionEstablished(p, out)
        \/ ConnectionClosed(p)
        \/ SendBlockRequest(p) \/ RequestHeaders(p) \/ SendProofRequest(p)
        \/ record_success(p) \/ record_failure(p) \/ record_violation(p)
    \/ \E bad \in SUBSET PmPeers : PeriodicTasks(bad)
    \/ cleanup_stale_peers
    \/ PmTick

PmSpec == PmInit /\ [][PmNext]_pmVars

(***************************************************************************)
(* PeerSelector.  Its peers are given as a set; a sort of a hash map's     *)
(* entries leaves peers of equal rank in any order, so a selection is one  *)
(* of a set of possible answers.                                           *)
(***************************************************************************)
Ranked(S, trait) ==
    {s \in Orders(S) : \A i, j \in DOMAIN s :
        i < j => PmTraits[s[i]][trait] >= PmTraits[s[j]][trait]}

FirstOf(s, n) == SubSeq(s, 1, IF Len(s) < n THEN Len(s) ELSE n)

select_performance_optimized(S, n) == {FirstOf(s, n) : s \in Ranked(S, "perf")}

\* select_security_focused: peers of negative reputation are left out.
select_security_focused(S, n) ==
    {FirstOf(s, n) : s \in Ranked({p \in S : pmTracked[p].reputation >= 0}, "sec")}

\* The caps of select_diversity_focused: 40% and 30% of n, truncated, plus one.
max_per_region(n) == (4 * n) \div 10 + 1

max_per_provider(n) == (3 * n) \div 10 + 1

Having(chosen, trait, v) ==
    Cardinality({i \in DOMAIN chosen : PmTraits[chosen[i]][trait] = v})

Take(chosen, p, n) ==
    IF /\ Len(chosen) < n
       /\ Having(chosen, "region", PmTraits[p].region) < max_per_region(n)
       /\ Having(chosen, "provider", PmTraits[p].provider) < max_per_provider(n)
    THEN Append(chosen, p) ELSE chosen

\* What is chosen after each peer of the order s.
TakenInTurn(s, n) ==
    LET taken[i \in 0 .. Len(s)] == IF i = 0 THEN <<>> ELSE Take(taken[i - 1], s[i], n)
    IN  taken

\* select_diversity_focused: in order of diversity, as many of a region and of
\* a provider as the caps allow.
select_diversity_focused(S, n) ==
    {TakenInTurn(s, n)[Len(s)] : s \in Ranked(S, "div")}

Chosen(s) == {s[i] : i \in DOMAIN s}

\* select_hybrid: a third by performance, a third of the others by diversity,
\* the rest of what is left by security.
select_hybrid(S, n) ==
    UNION {UNION {{a \o b \o c :
            c \in select_security_focused((S \ Chosen(a)) \ Chosen(b), n - 2 * (n \div 3))} :
        b \in select_diversity_focused(S \ Chosen(a), n \div 3)} :
        a \in select_performance_optimized(S, n \div 3)}

(***************************************************************************)
(* Properties.                                                             *)
(***************************************************************************)

\* The manager tracks no more peers than its connection limits, and no peer
\* that is banned or has no connection, so a hybrid selection of them names only
\* such peers, none twice and no more than asked for (add_peer, remove_peer,
\* blacklist_peer, select_hybrid).
TrackedSound ==
    /\ Cardinality(Tracked(TRUE)) <= PmMaxOut
    /\ Cardinality(Tracked(FALSE)) <= PmMaxIn
    /\ \A p \in DOMAIN pmTracked : p \notin pmBlack /\ pmConns[p] > 0
    /\ \A n \in 0..Cardinality(PmPeers) : \A s \in select_hybrid(DOMAIN pmTracked, n) :
        Len(s) <= n /\ Cardinality(Chosen(s)) = Len(s) /\ Chosen(s) \subseteq DOMAIN pmTracked

\* The times at which requests of kind k were sent to p from time t on.
SentSince(p, k, t) == {s \in pmSent[<<p, k>>] : s[1] >= t}

\* Since the start of a peer's current window no more requests of a kind were
\* sent to it than a second allows, whichever kind of request opened the window
\* (check_*_rate_limit).
WindowLimit ==
    \A p \in DOMAIN pmTracked, k \in PmKinds :
        Cardinality(SentSince(p, k, pmTracked[p].window)) <= PmLimit[k]

\* A request to a tracked peer is refused only when the requests of that kind
\* sent to it during the last second have used up the limit ("rate limit: 1 per
\* second", peer_manager.rs:111).  The shared window breaks it.
RefusedOverLimitOnly ==
    pmResult.what = "refused" =>
        Cardinality(SentSince(pmResult.peer, pmResult.kind, pmNow - PmSecond))
            >= PmLimit[pmResult.kind]
=============================================================================
