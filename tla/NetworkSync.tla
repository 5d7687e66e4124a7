----------------------------- MODULE NetworkSync -----------------------------
(***************************************************************************)
(* rusty-core/src/network/sync.rs: the synchronisation that several tasks  *)
(* may run over one blockchain.  Its peer table, its reported state, its   *)
(* retry counters and its download permits are each behind a lock and      *)
(* shared by the tasks; a task lets others run at every await.             *)
(*                                                                         *)
(* download_header_batch swallows the validation error of each header, so  *)
(* only network errors reach request_block_headers and its reorganisation  *)
(* branch (detect_reorg, handle_reorg_simple) is never taken.              *)
(***************************************************************************)
EXTENDS Integers, Sequences, FiniteSets, FiniteSetsExt, Maps

CONSTANTS
    NsTasks,        \* callers of synchronize_blockchain
    NsPeers,        \* the connected peers
    NsHeights,      \* the height do_query_peer_height estimates for each
    NsAnswers,      \* sequences of blocks (or their headers) a peer may send
    NsBatch,        \* 2000 headers, 100 blocks
    MaxRetries,     \* ErrorRecovery::max_retries
    FailureLimit,   \* 10 failures before a peer is blacklisted
    Permits,        \* max_concurrent_downloads
    HeaderReach,    \* 10000, how far ahead of the tip a header may be
    NsMaxSize,      \* MAX_BLOCK_SIZE
    MaxCalls        \* bound: calls of synchronize_blockchain

ASSUME NsAssumption == IsFiniteSet(NsTasks) /\ MaxRetries \in Nat /\ Permits \in Nat

VARIABLES
    nsPc,       \* where each task is
    nsFrom,     \* the height each task read when it started
    nsTo,       \* max_peer_height of each task
    nsAt,       \* the height its current loop has reached
    nsRetry,    \* retry_counts
    nsFree,     \* free permits of download_semaphore
    nsState,    \* sync_state: is_syncing, current_height, target_height
    nsMetrics,  \* peers: successes and failures of each known peer
    nsBlack,    \* blacklist
    nsHash,     \* the hash kept for each height
    nsTip,      \* the height of the blockchain state
    nsCalls

nsVars == <<nsPc, nsFrom, nsTo, nsAt, nsRetry, nsFree, nsState, nsMetrics,
            nsBlack, nsHash, nsTip, nsCalls>>
nsChain == <<nsHash, nsTip>>

NsInit ==
    /\ nsPc = [t \in NsTasks |-> "idle"]
    /\ nsFrom = [t \in NsTasks |-> 0]
    /\ nsTo = [t \in NsTasks |-> 0]
    /\ nsAt = [t \in NsTasks |-> 0]
    /\ nsRetry = [header |-> 0, block |-> 0]
    /\ nsFree = Permits
    /\ nsState = [syncing |-> FALSE, current |-> 0, target |-> 0]
    /\ nsMetrics = EmptyMap
    /\ nsBlack = {}
    /\ nsHash = [h \in {0} |-> "genesis"]
    /\ nsTip = 0
    /\ nsCalls = 0

-----------------------------------------------------------------------------
(* PeerManager.                                                            *)

\* A blacklisted peer's entry is left alone.
add_or_update_peer(metrics, p) ==
    IF p \in nsBlack \/ p \in DOMAIN metrics
    THEN metrics ELSE Put(metrics, p, [ok |-> 0, bad |-> 0])

record_failure(metrics, p) ==
    IF p \in DOMAIN metrics THEN [metrics EXCEPT ![p].bad = @ + 1] ELSE metrics

\* More than FailureLimit failures and a success rate below one half.
Blacklisted(metrics) ==
    {p \in DOMAIN metrics : metrics[p].bad > FailureLimit /\ metrics[p].ok < metrics[p].bad}

\* A success also forgives one failure.
record_success(metrics, p) ==
    IF p \in DOMAIN metrics
    THEN [metrics EXCEPT ![p] = [ok |-> @.ok + 1, bad |-> Max({0, @.bad - 1})]]
    ELSE metrics

\* The score weighs the height with the measured response time: any peer that
\* is not blacklisted may come first.
select_best_peer == DOMAIN nsMetrics \ nsBlack

remove_peer(p) ==
    /\ p \in DOMAIN nsMetrics \cup nsBlack
    /\ nsMetrics' = Without(nsMetrics, {p})
    /\ nsBlack' = nsBlack \ {p}
    /\ UNCHANGED <<nsPc, nsFrom, nsTo, nsAt, nsRetry, nsFree, nsState, nsChain, nsCalls>>

-----------------------------------------------------------------------------
(* Headers and blocks.                                                     *)

validate_block_header_enhanced(b, tip) ==
    /\ b.version = 1
    /\ ~b.future
    /\ b.height <= tip + HeaderReach
    /\ b.height > 0 => b.prev # "zero"

\* A header whose predecessor is unknown is let through with a warning.
validate_header_chain_continuity(b, hash) ==
    /\ b.height = 0 => b.prev = "zero"
    /\ b.height - 1 \in DOMAIN hash => b.prev = hash[b.height - 1]

\* The memory manager is never told of any memory, so it never asks for a
\* clean-up and the header is always kept.
validate_and_store_header_enhanced(chain, b) ==
    IF /\ validate_block_header_enhanced(b, chain.tip)
       /\ validate_header_chain_continuity(b, chain.hash)
    THEN [hash |-> Put(chain.hash, b.height, b.id), tip |-> Max({chain.tip, b.height})]
    ELSE chain

verify_block_comprehensive(b) ==
    /\ b.version = 1 /\ ~b.future
    /\ (b.height = 0) = (b.prev = "zero")
    /\ b.txs # <<>> /\ b.txs[1] = "coinbase"
    /\ \A i, j \in DOMAIN b.txs : b.txs[i] = b.txs[j] => i = j
    /\ b.root
    /\ Len(b.votes) = 5
    /\ Cardinality({i \in DOMAIN b.votes : b.votes[i] = b.prev}) >= 3
    /\ b.size <= NsMaxSize

\* Blockchain::add_block takes the block that follows the tip.
validate_and_store_block_enhanced(chain, b) ==
    IF /\ verify_block_comprehensive(b)
       /\ b.height = chain.tip + 1
       /\ b.prev = chain.hash[chain.tip]
    THEN [hash |-> Put(chain.hash, b.height, b.id), tip |-> b.height]
    ELSE chain

-----------------------------------------------------------------------------
(* The tasks.                                                              *)

Goto(t, pc) == nsPc' = [nsPc EXCEPT ![t] = pc]
SetAt(t, h) == nsAt' = [nsAt EXCEPT ![t] = h]

\* synchronize_blockchain clears the retry counters of every task, and
\* start_sync reads the height.
NsCall(t) ==
    /\ nsPc[t] = "idle"
    /\ nsCalls < MaxCalls
    /\ nsCalls' = nsCalls + 1
    /\ nsRetry' = [header |-> 0, block |-> 0]
    /\ nsFrom' = [nsFrom EXCEPT ![t] = nsTip]
    /\ Goto(t, "discover")
    /\ UNCHANGED <<nsTo, nsAt, nsFree, nsState, nsMetrics, nsBlack, nsChain>>

\* discover_peer_heights, in which the peers of answered reply in time; the
\* height of a blacklisted peer counts as well.
NsDiscover(t, answered) ==
    /\ nsPc[t] = "discover"
    /\ LET failed == FoldSet(LAMBDA p, m : record_failure(m, p), nsMetrics, NsPeers \ answered)
           max == Max({nsFrom[t]} \cup {NsHeights[p] : p \in answered})
       IN  /\ nsMetrics' = FoldSet(LAMBDA p, m : add_or_update_peer(m, p), failed, answered)
           /\ nsBlack' = nsBlack \cup (Blacklisted(failed) \ answered)
           /\ \/ /\ max <= nsFrom[t]
                 /\ Goto(t, "idle")
                 /\ UNCHANGED <<nsTo, nsAt, nsState>>
              \/ /\ max > nsFrom[t]
                 /\ Goto(t, "headers")
                 /\ nsTo' = [nsTo EXCEPT ![t] = max]
                 /\ SetAt(t, nsFrom[t])
                 /\ nsState' = [syncing |-> TRUE, current |-> nsFrom[t], target |-> max]
    /\ UNCHANGED <<nsFrom, nsRetry, nsFree, nsChain, nsCalls>>

\* A fault: the number of retries is not limited.
RetryAlways(t, op, again) ==
    /\ Goto(t, again)
    /\ nsRetry' = [nsRetry EXCEPT ![op] = Min({@ + 1, MaxRetries})]

\* should_retry and get_retry_delay, or reset_operation and the error, which
\* leaves is_syncing set; one write lock covers the test and the count.
RetryOrFail(t, op, again) ==
    \/ /\ nsRetry[op] < MaxRetries
       /\ nsRetry' = [nsRetry EXCEPT ![op] = @ + 1]
       /\ Goto(t, again)
    \/ /\ nsRetry[op] >= MaxRetries
       /\ nsRetry' = [nsRetry EXCEPT ![op] = 0]
       /\ Goto(t, "idle")

BatchEnd(t) == Min({nsAt[t] + NsBatch, nsTo[t]})

\* download_header_batch got an answer from p.  After the last batch the
\* blocks are downloaded from the height the task started at.
NsHeaders(t, p, answer) ==
    /\ nsPc[t] = "headers"
    /\ p \in select_best_peer
    /\ LET chain == FoldInOrder(validate_and_store_header_enhanced,
                                [hash |-> nsHash, tip |-> nsTip], answer)
       IN  nsHash' = chain.hash /\ nsTip' = chain.tip
    /\ nsMetrics' = record_success(nsMetrics, p)
    /\ IF BatchEnd(t) < nsTo[t]
       THEN SetAt(t, BatchEnd(t)) /\ UNCHANGED nsPc
       ELSE SetAt(t, nsFrom[t]) /\ Goto(t, "blocks")
    /\ UNCHANGED <<nsFrom, nsTo, nsRetry, nsFree, nsState, nsBlack, nsCalls>>

\* No peer to ask, no answer, or a timeout.
NsHeadersFail(t) ==
    /\ nsPc[t] = "headers"
    /\ RetryOrFail(t, "header", "headers")
    /\ UNCHANGED <<nsFrom, nsTo, nsAt, nsFree, nsState, nsMetrics, nsBlack, nsChain, nsCalls>>

\* download_semaphore.acquire()
NsAcquire(t) ==
    /\ nsPc[t] = "blocks"
    /\ nsFree > 0
    /\ nsFree' = nsFree - 1
    /\ Goto(t, "batch")
    /\ UNCHANGED <<nsFrom, nsTo, nsAt, nsRetry, nsState, nsMetrics, nsBlack, nsChain, nsCalls>>

\* download_block_batch_enhanced got an answer from p: blocks that are refused
\* are only logged.  The permit is dropped at the end of the loop body, and
\* after the last batch start_sync reports the target as reached.
NsBlocks(t, p, answer) ==
    /\ nsPc[t] = "batch"
    /\ p \in select_best_peer
    /\ LET chain == FoldInOrder(validate_and_store_block_enhanced,
                                [hash |-> nsHash, tip |-> nsTip], answer)
       IN  nsHash' = chain.hash /\ nsTip' = chain.tip
    /\ nsMetrics' = record_success(nsMetrics, p)
    /\ nsFree' = nsFree + 1
    /\ SetAt(t, BatchEnd(t))
    /\ IF BatchEnd(t) < nsTo[t]
       THEN Goto(t, "blocks") /\ UNCHANGED nsState
       ELSE /\ Goto(t, "idle")
            /\ nsState' = [nsState EXCEPT !.syncing = FALSE, !.current = nsTo[t]]
    /\ UNCHANGED <<nsFrom, nsTo, nsRetry, nsBlack, nsCalls>>

NsBlocksFail(t) ==
    /\ nsPc[t] = "batch"
    /\ RetryOrFail(t, "block", "blocks")
    /\ nsFree' = nsFree + 1
    /\ UNCHANGED <<nsFrom, nsTo, nsAt, nsState, nsMetrics, nsBlack, nsChain, nsCalls>>

NsStep(t) ==
    \/ \E answered \in SUBSET NsPeers : NsDiscover(t, answered)
    \/ \E p \in NsPeers, answer \in NsAnswers : NsHeaders(t, p, answer)
    \/ NsHeadersFail(t)
    \/ NsAcquire(t)
    \/ \E p \in NsPeers, answer \in NsAnswers : NsBlocks(t, p, answer)
    \/ NsBlocksFail(t)

NsNext ==
    \/ \E t \in NsTasks : NsCall(t) \/ NsStep(t)
    \/ \E p \in NsPeers : remove_peer(p)

NsSpec == NsInit /\ [][NsNext]_nsVars

\* Every task keeps running: the runtime polls it again after each await, and
\* the semaphore serves its waiters in turn.
NsFairness ==
    \A t \in NsTasks : WF_nsVars(NsStep(t)) /\ SF_nsVars(NsAcquire(t))

-----------------------------------------------------------------------------
(* Properties.                                                             *)

\* Every call of synchronize_blockchain comes to an end, whatever the peers
\* answer or fail to answer, with several tasks sharing the retry counters
\* and the download permits (request_block_headers, download_blocks_enhanced).
SyncTaskEnds == \A t \in NsTasks : nsPc[t] # "idle" ~> nsPc[t] = "idle"

\* No operation is retried more than max_retries times in a row, even when
\* several tasks count on the same counter, so the shift that computes the
\* delay stays in range (get_retry_delay).
RetriesBounded == \A op \in DOMAIN nsRetry : nsRetry[op] <= MaxRetries

\* Permits of download_semaphore are neither lost on an error path nor given
\* back twice.
PermitsConserved ==
    nsFree + Cardinality({t \in NsTasks : nsPc[t] = "batch"}) = Permits
=============================================================================
