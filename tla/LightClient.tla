---------------------------- MODULE LightClient -----------------------------
(***************************************************************************)
(* rusty-core/src/state/merkle_patricia_trie.rs: the trie whose root hash  *)
(* is the state root.  A node is kept under the hash of its contents; the  *)
(* hash of a node is modelled by the node itself (hashing is taken to be   *)
(* injective), so a tree is a nested value, and the HashMap of nodes is    *)
(* the set of the nodes that are present in it.  Two places of the tree    *)
(* with the same contents share one entry of the map.                      *)
(*                                                                         *)
(* A key is a sequence of nibbles.  An operation yields [ok, node, nodes]; *)
(* ok is false where the code returns an error (a node is missing).        *)
(***************************************************************************)
EXTENDS Integers, Sequences, SequencesExt, FiniteSets, Maps

CONSTANTS
    TrieKeys,       \* sequences of nibbles, all of one length
    TrieValues,
    MaxTrieOps      \* bound: operations on one trie

VARIABLES
    mptRoot,    \* root_hash
    mptNodes,   \* the keys of nodes
    mptData,    \* what has been inserted, for the properties
    mptOps

mptVars == <<mptRoot, mptNodes, mptData, mptOps>>

NoValue == "none"

TrieEmpty == [t |-> "empty"]
Leaf(key, value) == [t |-> "leaf", key |-> key, value |-> value]
Extension(prefix, next) == [t |-> "ext", prefix |-> prefix, next |-> next]
Branch(children, value) == [t |-> "branch", children |-> children, value |-> value]

common_prefix(a, b) ==
    LET same == {n \in 0 .. Len(a) : n <= Len(b) /\ SubSeq(a, 1, n) = SubSeq(b, 1, n)}
    IN  SubSeq(a, 1, CHOOSE n \in same : \A m \in same : m <= n)

From(key, n) == SubSeq(key, n + 1, Len(key))

Result(ok, node, nodes) == [ok |-> ok, node |-> node, nodes |-> nodes]

\* A fault: the two leaves of a split change places.
SwappedLeaves(oldKey, oldValue, newKey, newValue) ==
    LET n == Len(common_prefix(oldKey, newKey))
        old == From(oldKey, n)
        new == From(newKey, n)
        leaves == {Leaf(Tail(old), newValue), Leaf(Tail(new), oldValue)}
        branch == Branch(Put(Put(EmptyMap, Head(old), Leaf(Tail(old), newValue)),
                             Head(new), Leaf(Tail(new), oldValue)), NoValue)
    IN  IF n = 0
        THEN [node |-> branch, added |-> leaves]
        ELSE [node |-> Extension(SubSeq(oldKey, 1, n), branch),
              added |-> leaves \cup {branch}]

\* Two leaves whose keys differ, neither key being a prefix of the other.
split_leaf(oldKey, oldValue, newKey, newValue) ==
    LET n == Len(common_prefix(oldKey, newKey))
        old == From(oldKey, n)
        new == From(newKey, n)
        leaves == {Leaf(Tail(old), oldValue), Leaf(Tail(new), newValue)}
        branch == Branch(Put(Put(EmptyMap, Head(old), Leaf(Tail(old), oldValue)),
                             Head(new), Leaf(Tail(new), newValue)), NoValue)
    IN  IF n = 0
        THEN [node |-> branch, added |-> leaves]
        ELSE [node |-> Extension(SubSeq(oldKey, 1, n), branch),
              added |-> leaves \cup {branch}]

\* The code keeps the extension as it is: the new key is not inserted.
split_extension(prefix, next) == Extension(prefix, next)

\* A replaced node is removed from the map before its successor is added.
Replace(nodes, old, new) == (nodes \ {old}) \cup {new}

RECURSIVE insert_recursive(_, _, _, _)
insert_recursive(nodes, node, key, value) ==
    IF node \notin nodes THEN Result(FALSE, node, nodes)
    ELSE CASE node.t = "empty" ->
                LET leaf == Leaf(key, value)
                IN  Result(TRUE, leaf, nodes \cup {leaf})
           [] node.t = "leaf" ->
                IF node.key = key
                THEN Result(TRUE, Leaf(key, value), Replace(nodes, node, Leaf(key, value)))
                ELSE LET split == split_leaf(node.key, node.value, key, value)
                     IN  Result(TRUE, split.node,
                                Replace(nodes \cup split.added, node, split.node))
           [] node.t = "ext" ->
                IF IsPrefix(node.prefix, key)
                THEN LET sub == insert_recursive(nodes, node.next,
                                                 From(key, Len(node.prefix)), value)
                         new == Extension(node.prefix, sub.node)
                     IN  IF sub.ok THEN Result(TRUE, new, Replace(sub.nodes, node, new)) ELSE sub
                ELSE LET new == split_extension(node.prefix, node.next)
                     IN  Result(TRUE, new, Replace(nodes, node, new))
           [] node.t = "branch" ->
                LET i == Head(key)
                    leaf == Leaf(Tail(key), value)
                    sub == IF i \in DOMAIN node.children
                           THEN insert_recursive(nodes, node.children[i], Tail(key), value)
                           ELSE Result(TRUE, leaf, nodes \cup {leaf})
                    new == Branch(Put(node.children, i, sub.node), node.value)
                IN  IF sub.ok THEN Result(TRUE, new, Replace(sub.nodes, node, new)) ELSE sub

\* The nodes that get and generate_proof pass from the root to a key.
RECURSIVE collect_proof_nodes(_, _, _)
collect_proof_nodes(nodes, node, key) ==
    IF node \notin nodes THEN [ok |-> FALSE, value |-> NoValue, path |-> <<>>]
    ELSE LET here(v) == [ok |-> TRUE, value |-> v, path |-> <<node>>]
             below(next, rest) ==
                LET sub == collect_proof_nodes(nodes, next, rest)
                IN  [sub EXCEPT !.path = <<node>> \o @]
         IN  CASE node.t = "empty" -> here(NoValue)
               [] node.t = "leaf" -> here(IF node.key = key THEN node.value ELSE NoValue)
               [] node.t = "ext" ->
                    IF IsPrefix(node.prefix, key)
                    THEN below(node.next, From(key, Len(node.prefix))) ELSE here(NoValue)
               [] node.t = "branch" ->
                    IF Head(key) \in DOMAIN node.children
                    THEN below(node.children[Head(key)], Tail(key)) ELSE here(NoValue)

LookUp(key) == collect_proof_nodes(mptNodes, mptRoot, key)

\* from_state_data: the entries of the hash maps in the order of iteration.
from_state_data(order, data) ==
    FoldLeft(LAMBDA trie, key : insert_recursive(trie.nodes, trie.node, key, data[key]),
             Result(TRUE, TrieEmpty, {TrieEmpty}), order)

\* The walk from the last node of a proof to the first, which consumes the
\* key from its beginning.
RECURSIVE compute_root_from_proof(_, _, _)
compute_root_from_proof(path, hash, key) ==
    IF path = <<>> THEN [ok |-> TRUE, root |-> hash]
    ELSE LET node == Last(path)
             up(n) == compute_root_from_proof(Front(path), node, From(key, n))
             bad == [ok |-> FALSE, root |-> hash]
         IN  CASE node.t = "ext" ->
                    IF IsPrefix(node.prefix, key) /\ node.next = hash
                    THEN up(Len(node.prefix)) ELSE bad
               [] node.t = "branch" ->
                    IF key = <<>> THEN up(0)
                    ELSE IF Head(key) \in DOMAIN node.children /\ node.children[Head(key)] = hash
                         THEN up(1) ELSE bad
               [] OTHER -> bad

verify_proof(proof, root, key, expected) ==
    LET leaf == Last(proof.path)
        walk == compute_root_from_proof(Front(proof.path), leaf, key)
    IN  /\ leaf.t = "leaf" => leaf.key = key /\ leaf.value = expected
        /\ walk.ok /\ walk.root = root
        /\ proof.value = expected

-----------------------------------------------------------------------------
MptInit ==
    /\ mptRoot = TrieEmpty
    /\ mptNodes = {TrieEmpty}
    /\ mptData = [k \in TrieKeys |-> NoValue]
    /\ mptOps = 0

\* insert; an error leaves the trie as it was.
MptInsert(key, value) ==
    /\ mptOps < MaxTrieOps
    /\ LET done == insert_recursive(mptNodes, mptRoot, key, value)
       IN  /\ done.ok
           /\ mptRoot' = done.node
           /\ mptNodes' = done.nodes
    /\ mptData' = [mptData EXCEPT ![key] = value]
    /\ mptOps' = mptOps + 1

MptNext == \E key \in TrieKeys, value \in TrieValues : MptInsert(key, value)

-----------------------------------------------------------------------------
(* Properties.                                                             *)

\* What a trie built by inserts returns for a key is never a value of another
\* key or an overwritten one: a key is found with its last value, or not
\* found, or a node is missing (insert_recursive, get_recursive).
NeverAWrongValue ==
    \A key \in TrieKeys :
        LET found == LookUp(key)
        IN  found.ok /\ found.value # NoValue => found.value = mptData[key]

\* "Full nodes MUST be able to derive the identical state_root": whatever the
\* order in which the entries of a state come out of their hash maps, the root
\* is the same (from_state_data).
StateRootAgreed ==
    \A order \in SetToSeqs({k \in TrieKeys : mptData[k] # NoValue}) :
        from_state_data(order, mptData).node = mptRoot

-----------------------------------------------------------------------------
(***************************************************************************)
(* rusty-core/src/light_client.rs over the tries of full nodes             *)
(* (merkle_patricia_trie.rs, proof_manager.rs): a client that keeps block  *)
(* headers and asks peers for proofs about the state at a height.  A full  *)
(* node proves from the trie of its own tip, whatever height is asked, and *)
(* the nodes are at different tips.                                        *)
(*                                                                         *)
(* The client holds itself exclusively during a request, so a request is   *)
(* one step.  A request is sent to one peer after another until one        *)
(* answers; one that nobody answers, like every other error, changes       *)
(* nothing.                                                                *)
(***************************************************************************)

CONSTANTS
    LcHeaders,      \* headers: [id, height, prev, data], data the committed state
    LcHeaderLists,  \* what a peer may answer to request_headers
    LcKeys,         \* kind of proof -> the keys asked for
    LcBatch,        \* the keys of the batch requests
    MaxBatchSize,   \* max_batch_size of the proof manager
    MaxRequests     \* bound: answered requests

VARIABLES
    lcHeaders,  \* block_headers
    lcRoots,    \* state_roots: height -> root
    lcBest,     \* best_block_height, best_block_hash
    lcCache,    \* proof_cache: what was asked -> response
    lcCaching,  \* enable_caching
    lcAnswers   \* what the callers were told: [kind, key, height, value], in order

lcVars == <<lcHeaders, lcRoots, lcBest, lcCache, lcCaching, lcAnswers>>

ZeroBest == "zero"

LcInit ==
    /\ lcHeaders = {}
    /\ lcRoots = EmptyMap
    /\ lcBest = [height |-> 0, id |-> ZeroBest]
    /\ lcCache = EmptyMap
    /\ lcCaching \in BOOLEAN
    /\ lcAnswers = <<>>

Present(data) == {k \in TrieKeys : data[k] # NoValue}

\* A trie of a node whose tip commits to data.
TrieOf(data) == from_state_data(SetToSeq(Present(data)), data)
RootOf(data) == TrieOf(data).node

generate_proof(data, key) ==
    LET trie == TrieOf(data)
        found == collect_proof_nodes(trie.nodes, trie.node, key)
    IN  [root |-> trie.node, key |-> key, value |-> found.value, path |-> found.path]

\* What the proof manager of a node answers, by kind.
generate_utxo_proof(data, key) == [type |-> "utxo", proof |-> generate_proof(data, key)]
generate_ticket_proof(data, key) == [type |-> "ticket", proof |-> generate_proof(data, key)]
generate_masternode_proof(data, key) ==
    [type |-> "masternode", proof |-> generate_proof(data, key)]
generate_governance_proof(data, key) ==
    [type |-> "governance", proof |-> generate_proof(data, key)]
generate_utxo_batch_proof(data, keys) ==
    [ok |-> Len(keys) <= MaxBatchSize, root |-> RootOf(data),
     proofs |-> [i \in DOMAIN keys |-> generate_proof(data, keys[i])]]

-----------------------------------------------------------------------------
(* Headers.                                                                *)

\* A header must continue the best one, unless there is none yet.
update_block_header(client, header) ==
    IF header.height > 0 /\ header.prev # client.best.id /\ client.best.id # ZeroBest
    THEN [client EXCEPT !.ok = FALSE]
    ELSE [client EXCEPT
            !.headers = @ \cup {header.id},
            !.roots = Put(@, header.height, RootOf(header.data)),
            !.best = IF header.height > @.height
                     THEN [height |-> header.height, id |-> header.id] ELSE @]

\* The headers up to the first that does not link to the one before it; an
\* error of update_block_header ends the loop with the earlier ones kept.
StoreHeaders(start, headers) ==
    LET step(client, header) ==
            IF ~client.ok \/ (header.prev # client.expected /\ client.expected # ZeroBest)
            THEN [client EXCEPT !.ok = FALSE]
            ELSE [update_block_header(client, header) EXCEPT !.expected = header.id]
    IN  FoldLeft(step, [ok |-> TRUE, expected |-> start, headers |-> lcHeaders,
                        roots |-> lcRoots, best |-> lcBest], headers)

LcRequestHeaders(start, headers) ==
    LET done == StoreHeaders(start, headers)
    IN  /\ headers # <<>>
        /\ lcHeaders' = done.headers
        /\ lcRoots' = done.roots
        /\ lcBest' = done.best
        /\ UNCHANGED <<lcCache, lcCaching, lcAnswers>>

\* update_block_header called with a header that was announced.
LcUpdateHeader(header) ==
    LET done == update_block_header([ok |-> TRUE, headers |-> lcHeaders,
                                     roots |-> lcRoots, best |-> lcBest], header)
    IN  /\ done.ok
        /\ lcHeaders' = done.headers
        /\ lcRoots' = done.roots
        /\ lcBest' = done.best
        /\ UNCHANGED <<lcCache, lcCaching, lcAnswers>>

-----------------------------------------------------------------------------
(* Proofs.                                                                 *)

verify_proof_response(response) ==
    LET proof == response.proof
    IN  verify_proof(proof, proof.root, proof.key, proof.value)

calculate_cache_key(kind, key, height) == <<kind, key, height>>

\* What a caller is told: a masternode is registered or not, for the other
\* kinds the value is handed on.
Told(kind, value) ==
    IF kind # "masternode" THEN value
    ELSE IF value = NoValue THEN "unregistered" ELSE "registered"
Answer(kind, key, height, value) ==
    [kind |-> kind, key |-> key, height |-> height, value |-> Told(kind, value)]

\* A proof from the cache, used without a look at the state root.
FromCache(kind, key, height) ==
    LET slot == calculate_cache_key(kind, key, height)
    IN  /\ lcCaching /\ slot \in DOMAIN lcCache
        /\ verify_proof_response(lcCache[slot])
        /\ lcAnswers' = Append(lcAnswers, Answer(kind, key, height, lcCache[slot].proof.value))
        /\ UNCHANGED lcCache

\* A fault: the state root of the response is not compared.
AcceptAnyRoot(kind, key, height, response) ==
    LET slot == calculate_cache_key(kind, key, height)
    IN  /\ ~(lcCaching /\ slot \in DOMAIN lcCache)
        /\ height \in DOMAIN lcRoots
        /\ verify_proof_response(response)
        /\ lcCache' = IF lcCaching THEN Put(lcCache, slot, response) ELSE lcCache
        /\ lcAnswers' = Append(lcAnswers, Answer(kind, key, height, response.proof.value))

\* A proof from a peer at whatever tip.
FromPeer(kind, key, height, response) ==
    LET slot == calculate_cache_key(kind, key, height)
    IN  /\ ~(lcCaching /\ slot \in DOMAIN lcCache)
        /\ height \in DOMAIN lcRoots
        /\ response.proof.root = lcRoots[height]
        /\ verify_proof_response(response)
        /\ lcCache' = IF lcCaching THEN Put(lcCache, slot, response) ELSE lcCache
        /\ lcAnswers' = Append(lcAnswers, Answer(kind, key, height, response.proof.value))

Verify(kind, key, height, response) ==
    /\ Len(lcAnswers) < MaxRequests
    /\ FromCache(kind, key, height) \/ FromPeer(kind, key, height, response)
    /\ UNCHANGED <<lcHeaders, lcRoots, lcBest, lcCaching>>

\* The response of the peer that answers, whose tip commits to data; the
\* retries before it leave no trace.
request_utxo_proof_from_network(key, data) == generate_utxo_proof(data, key)
request_ticket_proof_from_network(key, data) == generate_ticket_proof(data, key)
request_masternode_proof_from_network(key, data) == generate_masternode_proof(data, key)
request_governance_proof_from_network(key, data) == generate_governance_proof(data, key)
request_utxo_batch_proof_from_network(keys, data) == generate_utxo_batch_proof(data, keys)

verify_utxo_existence(key, height, data) ==
    Verify("utxo", key, height, request_utxo_proof_from_network(key, data))

verify_ticket_existence(key, height, data) ==
    Verify("ticket", key, height, request_ticket_proof_from_network(key, data))

verify_masternode_registration(key, height, data) ==
    Verify("masternode", key, height, request_masternode_proof_from_network(key, data))

verify_governance_proposal(key, height, data) ==
    Verify("governance", key, height, request_governance_proof_from_network(key, data))

\* What is cached is verified; what is asked is compared with the root only.
verify_utxo_batch(keys, height, data) ==
    LET slot(i) == calculate_cache_key("utxo_batch", keys[i], height)
        cached == {i \in DOMAIN keys : lcCaching /\ slot(i) \in DOMAIN lcCache}
        asked == SelectSeq([i \in DOMAIN keys |-> i], LAMBDA i : i \notin cached)
        response == request_utxo_batch_proof_from_network([n \in DOMAIN asked |-> keys[asked[n]]], data)
        answered == [i \in ToSet(asked) |->
                       [type |-> "batch", proof |-> response.proofs[CHOOSE n \in DOMAIN asked : asked[n] = i]]]
        used(i) == IF i \in cached THEN lcCache[slot(i)] ELSE answered[i]
    IN  /\ Len(lcAnswers) + Len(keys) <= MaxRequests
        /\ \A i \in cached : verify_proof_response(lcCache[slot(i)])
        /\ asked # <<>> => response.ok /\ height \in DOMAIN lcRoots /\ response.root = lcRoots[height]
        /\ lcCache' = IF ~lcCaching THEN lcCache
                      ELSE [s \in DOMAIN lcCache \cup {slot(i) : i \in ToSet(asked)} |->
                              IF s \in DOMAIN lcCache THEN lcCache[s]
                              ELSE answered[CHOOSE i \in ToSet(asked) : slot(i) = s]]
        /\ lcAnswers' = lcAnswers \o [i \in DOMAIN keys |->
                                        Answer("utxo", keys[i], height, used(i).proof.value)]
        /\ UNCHANGED <<lcHeaders, lcRoots, lcBest, lcCaching>>

LcClearCache ==
    /\ lcCache # EmptyMap
    /\ lcCache' = EmptyMap
    /\ UNCHANGED <<lcHeaders, lcRoots, lcBest, lcCaching, lcAnswers>>

LcNext ==
    \/ \E start \in {ZeroBest} \cup {h.id : h \in LcHeaders}, list \in LcHeaderLists :
            LcRequestHeaders(start, list)
    \/ \E header \in LcHeaders : LcUpdateHeader(header)
    \/ \E header, tip \in LcHeaders :
            \/ \E key \in LcKeys.utxo : verify_utxo_existence(key, header.height, tip.data)
            \/ \E key \in LcKeys.ticket : verify_ticket_existence(key, header.height, tip.data)
            \/ \E key \in LcKeys.masternode :
                    verify_masternode_registration(key, header.height, tip.data)
            \/ \E key \in LcKeys.governance :
                    verify_governance_proposal(key, header.height, tip.data)
            \/ \E keys \in LcBatch : verify_utxo_batch(keys, header.height, tip.data)
    \/ LcClearCache

-----------------------------------------------------------------------------
(* Properties.                                                             *)

HeaderOf(id) == CHOOSE h \in LcHeaders : h.id = id

\* A header and those it descends from.
RECURSIVE Ancestry(_)
Ancestry(id) ==
    IF \E h \in LcHeaders : h.id = id THEN {id} \cup Ancestry(HeaderOf(id).prev) ELSE {}

\* Before the first header above the genesis there is no best header.
OneBranch == IF lcBest.id = ZeroBest THEN lcHeaders ELSE Ancestry(lcBest.id)

\* What a caller is told about a key at a height, from a peer at whatever tip
\* or from the cache, is what the state of that height says
\* (verify_utxo_existence and its kin, verify_utxo_batch, calculate_cache_key).
AnswersMatchHeight ==
    \A i \in DOMAIN lcAnswers :
        LET told == lcAnswers[i]
        IN  \E id \in OneBranch :
                /\ HeaderOf(id).height = told.height
                /\ Told(told.kind, HeaderOf(id).data[told.key]) = told.value
=============================================================================
