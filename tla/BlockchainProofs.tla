-------------------------- MODULE BlockchainProofs --------------------------
(***************************************************************************)
(* Proofs about the chain: the store and the active chain, the types of    *)
(* the state, the mempool, the tickets, and outputs that are spent once.   *)
(***************************************************************************)
EXTENDS Blockchain, SumTheorems

-----------------------------------------------------------------------------
(***************************************************************************)
(* Theorems about Blockchain, for every set of blocks and every value of   *)
(* the constants.                                                          *)
(***************************************************************************)

-----------------------------------------------------------------------------
(* The block store.                                                        *)

\* Every stored block is filed under its hash and shares header, height and
\* parent with a block that was offered.  IndexSound alone is not inductive:
\* put_block may store a block again, and its height has to be the old one.
StoreInv ==
  /\ \A h \in DOMAIN blocks :
       /\ BlockHash(blocks[h]) = h
       /\ \E b \in Blocks : /\ blocks[h].hdr = b.hdr
                            /\ blocks[h].height = b.height
                            /\ blocks[h].prev = b.prev
  /\ IndexSound

\* What add_block stores has the header, the height and the parent of the
\* block it was given: only the transactions are rewritten.
LEMMA RewrittenHeader ==
  ASSUME NEW b \in Blocks, NEW kept
  PROVE  /\ Rewritten(b, kept).hdr = b.hdr
         /\ Rewritten(b, kept).height = b.height
         /\ Rewritten(b, kept).prev = b.prev
  BY BlocksAssumption, Zenon DEF Rewritten

\* put_block keeps the store in order when it is given a block with the header
\* of an offered one.
LEMMA PutBlockStore ==
  ASSUME StoreInv, NEW b, NEW c \in Blocks,
         b.hdr = c.hdr, b.height = c.height, b.prev = c.prev, PutBlock(b)
  PROVE  StoreInv'
<1>1. \A h \in DOMAIN blocks : h = BlockHash(b) => blocks[h].height = b.height
  BY BlocksAssumption DEF StoreInv, BlockHash
<1>2. /\ DOMAIN blocks' = DOMAIN blocks \cup {BlockHash(b)}
      /\ \A h \in DOMAIN blocks' : blocks'[h] = IF h = BlockHash(b) THEN b ELSE blocks[h]
      /\ DOMAIN index' = DOMAIN index \cup {b.height}
      /\ \A n \in DOMAIN index' : index'[n] = IF n = b.height THEN BlockHash(b) ELSE index[n]
  BY Zenon DEF PutBlock
<1>3. \A h \in DOMAIN blocks' :
        /\ BlockHash(blocks'[h]) = h
        /\ \E d \in Blocks : /\ blocks'[h].hdr = d.hdr
                             /\ blocks'[h].height = d.height
                             /\ blocks'[h].prev = d.prev
  BY <1>2 DEF StoreInv
<1>4. IndexSound'
  BY <1>1, <1>2 DEF StoreInv, IndexSound
<1>. QED
  BY <1>3, <1>4, Zenon DEF StoreInv, BlockHash

\* remove_block_by_hash takes the heights of a block away together with it.
LEMMA RemoveBlocksStore ==
  ASSUME StoreInv, NEW hashes, RemoveBlocks(hashes)
  PROVE  StoreInv'
<1>1. /\ DOMAIN blocks' = DOMAIN blocks \ hashes
      /\ \A h \in DOMAIN blocks' : blocks'[h] = blocks[h]
      /\ DOMAIN index' = {n \in DOMAIN index : index[n] \notin hashes}
      /\ \A n \in DOMAIN index' : index'[n] = index[n]
  BY Zenon DEF RemoveBlocks, Restrict
<1>2. IndexSound'
  BY <1>1 DEF StoreInv, IndexSound, BlockHash
<1>. QED
  BY <1>1, <1>2 DEF StoreInv, BlockHash

\* A step that leaves blocks and height entries alone keeps the store sound.
LEMMA SameStore ==
  ASSUME StoreInv, UNCHANGED <<blocks, index>>
  PROVE  StoreInv'
  BY DEF StoreInv, IndexSound, BlockHash

\* add_block keeps the store sound, also where it fails after put_block.
LEMMA AddBlockStoreInv ==
  ASSUME StoreInv, NEW b \in Blocks, AddBlock(b)
  PROVE  StoreInv'
<1>1. CASE AddBlockRefused(b)
  BY <1>1, SameStore, Zenon DEF AddBlockRefused
<1>2. CASE AddBlockStore(b, Rewritten(b, Kept(Order(b))))
  <2>. DEFINE r == Rewritten(b, Kept(Order(b)))
  <2>1. PutBlock(r) /\ r.hdr = b.hdr /\ r.height = b.height /\ r.prev = b.prev
    BY <1>2, RewrittenHeader, Zenon DEF AddBlockStore
  <2>. HIDE DEF r
  <2>. QED
    BY <2>1, PutBlockStore, Zenon
<1>. QED
  BY <1>1, <1>2, Zenon DEF AddBlock, AddBlockRegisterError, AddBlockRootError, AddBlockOk, AddBlockApply

\* process_block keeps the store sound: only its last step touches the store.
LEMMA ProcessBlockStoreInv ==
  ASSUME StoreInv, NEW b \in Blocks, ProcessBlock(b)
  PROVE  StoreInv'
<1>1. CASE ProcessBlockOk(b)
  BY <1>1, PutBlockStore, Zenon DEF ProcessBlockOk
<1>2. CASE UNCHANGED <<blocks, index>>
  BY <1>2, SameStore, Zenon
<1>. QED
  BY <1>1, <1>2, Zenon DEF ProcessBlock, ProcessBlockRegisterError, ProcessBlockTicketError

\* revert_block keeps the store sound: it removes a block with its height.
LEMMA RevertBlockStoreInv ==
  ASSUME StoreInv, NEW b, RevertBlock(b)
  PROVE  StoreInv'
<1>1. CASE RevertBlockError(b)
  BY <1>1, SameStore, Zenon DEF RevertBlockError
<1>2. CASE RevertBlockOk(b)
  BY <1>2, RemoveBlocksStore, Zenon DEF RevertBlockOk
<1>. QED
  BY <1>1, <1>2, Zenon DEF RevertBlock

\* The mempool, the masternode statuses and save_to_disk leave the store alone.
LEMMA OtherStoreInv ==
  ASSUME StoreInv, Other
  PROVE  StoreInv'
<1>1. UNCHANGED <<blocks, index>>
  BY Zenon DEF Other, SaveToDisk, AddTransaction, ValidateAndAddTransaction, UpdateMasternodeStatus
<1>. QED
  BY <1>1, SameStore, Zenon

\* A new node has an empty store.
LEMMA InitStoreInv == Init => StoreInv
  BY Zenon DEF Init, StoreInv, IndexSound, EmptyMap

\* The store stays sound under every handler, in any order and with any
\* failure.
LEMMA StoreIsInvariant == Spec => []StoreInv
<1>1. StoreInv /\ [Next]_vars => StoreInv'
  <2>. SUFFICES ASSUME StoreInv, [Next]_vars PROVE StoreInv'
    BY Zenon
  <2>1. CASE UNCHANGED vars
    BY <2>1, SameStore, Zenon DEF vars
  <2>2. ASSUME NEW b \in Blocks, ProcessBlock(b) PROVE StoreInv'
    BY <2>2, ProcessBlockStoreInv, Zenon
  <2>3. ASSUME NEW b \in Blocks, AddBlock(b) PROVE StoreInv'
    BY <2>3, AddBlockStoreInv, Zenon
  <2>4. ASSUME NEW h \in DOMAIN blocks, RevertBlock(blocks[h]) PROVE StoreInv'
    BY <2>4, RevertBlockStoreInv, Zenon
  <2>5. CASE Other
    BY <2>5, OtherStoreInv, Zenon
  <2>. QED
    BY <2>1, <2>2, <2>3, <2>4, <2>5, Zenon DEF Next
<1>. QED
  BY <1>1, InitStoreInv, PTL DEF Spec

\* Whatever blocks are offered and reverted, in whatever order, and wherever a
\* handler fails, every height of the database points to a stored block of
\* that height.
THEOREM IndexIsSound == Spec => []IndexSound
<1>1. StoreInv => IndexSound
  BY Zenon DEF StoreInv
<1>. QED
  BY <1>1, StoreIsInvariant, PTL

-----------------------------------------------------------------------------
(* The chain below the tip, for a caller that extends and reverts the tip. *)

\* The database holds the chain below the tip down to a first block without a
\* parent.  The last conjunct is what lets the tip move down in revert_block.
ChainInv ==
  /\ StoreInv
  /\ height \in Nat
  /\ TipIndexed
  /\ ChainLinked
  /\ tip # ZeroHash => 0 \in DOMAIN index /\ blocks[index[0]].prev = ZeroHash

\* A block stored above the tip leaves the chain below as it is: what add_block
\* leaves behind when the state root is wrong.
LEMMA PutBlockAbove ==
  ASSUME ChainInv, NEW b, NEW c \in Blocks, IsChild(c), PutBlock(b),
         b.hdr = c.hdr, b.height = c.height, b.prev = c.prev,
         UNCHANGED <<tip, height>>
  PROVE  ChainInv'
<1>1. StoreInv'
  BY PutBlockStore, Zenon DEF ChainInv
<1>2. CASE tip = ZeroHash
  BY <1>1, <1>2, Zenon DEF ChainInv, TipIndexed, ChainLinked
<1>3. CASE tip # ZeroHash
  <2>1. \A n \in 0 .. height : /\ n \in DOMAIN index'
                               /\ index'[n] = index[n]
                               /\ blocks'[index[n]].prev = blocks[index[n]].prev
    <3>1. \A n \in 0 .. height : n \in DOMAIN index /\ n # b.height
      BY <1>3 DEF ChainInv, ChainLinked, IsChild
    <3>2. \A n \in 0 .. height : n \in DOMAIN index' /\ index'[n] = index[n]
      BY <3>1, Zenon DEF PutBlock
    <3>3. \A n \in 0 .. height : index[n] \in DOMAIN blocks /\ BlockHash(blocks[index[n]]) = index[n]
      BY <3>1, Zenon DEF ChainInv, StoreInv, IndexSound
    <3>4. \A h \in DOMAIN blocks : BlockHash(b) = h => blocks[h].prev = b.prev
      BY BlocksAssumption DEF ChainInv, StoreInv, BlockHash
    <3>5. \A h \in DOMAIN blocks : blocks'[h] = IF h = BlockHash(b) THEN b ELSE blocks[h]
      BY Zenon DEF PutBlock
    <3>. QED
      BY <3>2, <3>3, <3>4, <3>5, Zenon
  <2>2. TipIndexed' /\ ChainLinked'
    BY <1>3, <2>1 DEF ChainInv, TipIndexed, ChainLinked
  <2>3. 0 \in DOMAIN index' /\ blocks'[index'[0]].prev = ZeroHash
    BY <1>3, <2>1 DEF ChainInv
  <2>. QED
    BY <1>1, <2>2, <2>3, Zenon DEF ChainInv
<1>. QED
  BY <1>2, <1>3, Zenon

\* A block that becomes the tip extends the chain by one.
LEMMA PutBlockTip ==
  ASSUME ChainInv, NEW b, NEW c \in Blocks, IsChild(c), PutBlock(b),
         b.hdr = c.hdr, b.height = c.height, b.prev = c.prev,
         UpdateTip(BlockHash(b), b.height)
  PROVE  ChainInv'
<1>1. StoreInv' /\ height' \in Nat
  BY PutBlockStore, BlocksAssumption, UtxoAssumption DEF ChainInv, UpdateTip
<1>2. TipIndexed'
  BY Zenon DEF PutBlock, UpdateTip, TipIndexed
<1>3. /\ b.height \in DOMAIN index'
      /\ blocks'[index'[b.height]].prev = b.prev
  BY Zenon DEF PutBlock
<1>4. CASE tip = ZeroHash
  <2>1. height' = 0 /\ b.prev = ZeroHash
    BY <1>4, Zenon DEF IsChild, UpdateTip
  <2>2. ChainLinked'
    BY <2>1 DEF ChainLinked
  <2>. QED
    BY <1>1, <1>2, <1>3, <2>1, <2>2, Zenon DEF ChainInv, UpdateTip
<1>5. CASE tip # ZeroHash
  <2>1. height' = height + 1 /\ b.height = height + 1 /\ b.prev = index[height]
    BY <1>5, Zenon DEF IsChild, UpdateTip, ChainInv, TipIndexed
  <2>2. \A n \in 0 .. height : n \in DOMAIN index
    BY <1>5 DEF ChainInv, ChainLinked
  <2>3. \A n \in 0 .. height : n \in DOMAIN index' /\ index'[n] = index[n]
    BY <2>1, <2>2 DEF PutBlock, ChainInv
  <2>4. \A n \in 0 .. height : blocks'[index[n]].prev = blocks[index[n]].prev
    <3>1. \A n \in 0 .. height : index[n] \in DOMAIN blocks
      BY <2>2, Zenon DEF ChainInv, StoreInv, IndexSound
    <3>2. \A h \in DOMAIN blocks : BlockHash(b) = h => blocks[h].prev = b.prev
      BY BlocksAssumption DEF ChainInv, StoreInv, BlockHash
    <3>3. \A h \in DOMAIN blocks : blocks'[h] = IF h = BlockHash(b) THEN b ELSE blocks[h]
      BY Zenon DEF PutBlock
    <3>. QED
      BY <3>1, <3>2, <3>3, Zenon
  <2>5. ChainLinked'
    <3>. SUFFICES ASSUME NEW n \in 1 .. height + 1
                  PROVE  /\ n \in DOMAIN index' /\ n - 1 \in DOMAIN index'
                         /\ blocks'[index'[n]].prev = index'[n - 1]
      BY <2>1, Zenon DEF ChainLinked
    <3>1. CASE n = height + 1
      BY <3>1, <1>3, <2>1, <2>3 DEF ChainInv
    <3>2. CASE n \in 1 .. height
      <4>1. n \in 0 .. height /\ n - 1 \in 0 .. height
        BY <3>2 DEF ChainInv
      <4>2. blocks[index[n]].prev = index[n - 1]
        BY <1>5, <3>2, Zenon DEF ChainInv, ChainLinked
      <4>. QED
        BY <4>1, <4>2, <2>3, <2>4, Zenon
    <3>. QED
      BY <3>1, <3>2 DEF ChainInv
  <2>6. 0 \in DOMAIN index' /\ blocks'[index'[0]].prev = ZeroHash
    BY <1>5, <2>3, <2>4 DEF ChainInv
  <2>. QED
    BY <1>1, <1>2, <2>5, <2>6, Zenon DEF ChainInv
<1>. QED
  BY <1>4, <1>5, Zenon

\* revert_block of the tip takes the chain back by one.
LEMMA RevertTip ==
  ASSUME ChainInv, tip # ZeroHash, tip \in DOMAIN blocks, RevertBlockOk(blocks[tip])
  PROVE  ChainInv'
<1>. DEFINE b == blocks[tip]
            gone == {BlockHash(b)} \cup {index[n] : n \in {b.height} \cap DOMAIN index}
<1>1. StoreInv'
  BY RemoveBlocksStore, Zenon DEF RevertBlockOk, ChainInv
<1>2. b.height \in 0 .. W - 1
  BY BlocksAssumption, Zenon DEF ChainInv, StoreInv
<1>3. height' = (b.height - 1) % W /\ tip' = b.prev /\ height' \in Nat
  BY <1>2, UtxoAssumption DEF RevertBlockOk, UpdateTip
<1>4. CASE tip' = ZeroHash
  BY <1>1, <1>3, <1>4, Zenon DEF ChainInv, TipIndexed, ChainLinked
<1>5. CASE tip' # ZeroHash
  <2>1. index[height] = tip /\ height \in DOMAIN index /\ b.height = height /\ BlockHash(b) = tip
    BY Zenon DEF ChainInv, TipIndexed, StoreInv, IndexSound
  <2>2. height # 0
    BY <1>3, <1>5, <2>1, Zenon DEF ChainInv
  <2>3. height \in 1 .. height /\ height' = height - 1 /\ height - 1 \in DOMAIN index
    BY <1>2, <1>3, <2>1, <2>2, UtxoAssumption DEF ChainInv, ChainLinked
  <2>4. b.prev = index[height - 1]
    BY <2>1, <2>3, Zenon DEF ChainInv, ChainLinked
  <2>5. gone = {tip}
    BY <2>1, Zenon
  <2>6. RemoveBlocks({tip})
    BY <2>5, Zenon DEF RevertBlockOk
  <2>7. \A n \in 0 .. height - 1 : /\ n \in DOMAIN index
                                   /\ index[n] \in DOMAIN blocks
                                   /\ index[n] # tip
    <3>1. \A n \in 0 .. height : n \in DOMAIN index
      BY <2>1 DEF ChainInv, ChainLinked
    <3>. QED
      BY <3>1, <2>1 DEF ChainInv, StoreInv, IndexSound
  <2>8. \A n \in 0 .. height - 1 : /\ n \in DOMAIN index'
                                   /\ index'[n] = index[n]
                                   /\ blocks'[index[n]] = blocks[index[n]]
    BY <2>6, <2>7, Zenon DEF RemoveBlocks, Restrict
  <2>9. TipIndexed'
    BY <1>3, <2>3, <2>4, <2>8 DEF TipIndexed, ChainInv
  <2>10. ChainLinked'
    <3>. SUFFICES ASSUME NEW n \in 1 .. height - 1
                  PROVE  /\ n \in DOMAIN index' /\ n - 1 \in DOMAIN index'
                         /\ blocks'[index'[n]].prev = index'[n - 1]
      BY <2>3, Zenon DEF ChainLinked
    <3>1. n \in 0 .. height - 1 /\ n - 1 \in 0 .. height - 1 /\ n \in 1 .. height
      BY <2>3 DEF ChainInv
    <3>2. blocks[index[n]].prev = index[n - 1]
      BY <3>1, Zenon DEF ChainInv, ChainLinked
    <3>. QED
      BY <3>1, <3>2, <2>8, Zenon
  <2>11. 0 \in DOMAIN index' /\ blocks'[index'[0]].prev = ZeroHash
    BY <2>2, <2>3, <2>8 DEF ChainInv
  <2>. QED
    BY <1>1, <1>3, <2>9, <2>10, <2>11, Zenon DEF ChainInv
<1>. QED
  BY <1>4, <1>5, Zenon

\* A step that leaves store, tip and height alone keeps the chain.
LEMMA SameChain ==
  ASSUME ChainInv, UNCHANGED <<blocks, index, tip, height>>
  PROVE  ChainInv'
  BY SameStore, Zenon DEF ChainInv, TipIndexed, ChainLinked

\* process_block of a child of the tip keeps the chain or extends it by one.
LEMMA ProcessBlockChain ==
  ASSUME ChainInv, NEW b \in Blocks, IsChild(b), ProcessBlock(b)
  PROVE  ChainInv'
<1>1. CASE ProcessBlockOk(b)
  BY <1>1, PutBlockTip, Zenon DEF ProcessBlockOk
<1>2. CASE UNCHANGED <<blocks, index, tip, height>>
  BY <1>2, SameChain, Zenon
<1>. QED
  BY <1>1, <1>2, Zenon DEF ProcessBlock, ProcessBlockRegisterError, ProcessBlockTicketError

\* add_block of a child of the tip keeps the chain or extends it by one.
LEMMA AddBlockChain ==
  ASSUME ChainInv, NEW b \in Blocks, IsChild(b), AddBlock(b)
  PROVE  ChainInv'
<1>. DEFINE r == Rewritten(b, Kept(Order(b)))
<1>1. r.hdr = b.hdr /\ r.height = b.height /\ r.prev = b.prev
  BY RewrittenHeader, Zenon
<1>2. CASE AddBlockRefused(b)
  BY <1>2, SameChain, Zenon DEF AddBlockRefused
<1>3. CASE AddBlockRegisterError(b) \/ AddBlockRootError(b)
  <2>1. PutBlock(r) /\ UNCHANGED <<tip, height>>
    BY <1>3, Zenon DEF AddBlockRegisterError, AddBlockRootError, AddBlockApply, AddBlockStore
  <2>. HIDE DEF r
  <2>. QED
    BY <1>1, <2>1, PutBlockAbove, Zenon
<1>4. CASE AddBlockOk(b)
  <2>1. PutBlock(r) /\ UpdateTip(BlockHash(r), r.height)
    BY <1>1, <1>4, Zenon DEF AddBlockOk, AddBlockApply, AddBlockStore
  <2>. HIDE DEF r
  <2>. QED
    BY <1>1, <2>1, PutBlockTip, Zenon
<1>. QED
  BY <1>2, <1>3, <1>4, Zenon DEF AddBlock

\* ChainInv holds of every run in which blocks extend the tip and only the tip
\* is reverted.
LEMMA ChainIsInvariant == ChainSpec => []ChainInv
<1>1. Init => ChainInv
  BY InitStoreInv DEF Init, ChainInv, TipIndexed, ChainLinked
<1>2. ChainInv /\ [ChainNext]_vars => ChainInv'
  <2>. SUFFICES ASSUME ChainInv, [ChainNext]_vars PROVE ChainInv'
    OBVIOUS
  <2>1. CASE UNCHANGED vars
    BY <2>1, SameChain, Zenon DEF vars
  <2>2. ASSUME NEW b \in Blocks, IsChild(b), ProcessBlock(b) PROVE ChainInv'
    BY <2>2, ProcessBlockChain, Zenon
  <2>3. ASSUME NEW b \in Blocks, IsChild(b), AddBlock(b) PROVE ChainInv'
    BY <2>3, AddBlockChain, Zenon
  <2>4. CASE tip # ZeroHash /\ tip \in DOMAIN blocks /\ RevertBlock(blocks[tip])
    <3>1. CASE RevertBlockError(blocks[tip])
      BY <3>1, SameChain, Zenon DEF RevertBlockError
    <3>2. CASE RevertBlockOk(blocks[tip])
      BY <3>2, <2>4, RevertTip, Zenon
    <3>. QED
      BY <2>4, <3>1, <3>2, Zenon DEF RevertBlock
  <2>5. CASE Other
    BY <2>5, SameChain, Zenon DEF Other, SaveToDisk, AddTransaction, ValidateAndAddTransaction,
                           UpdateMasternodeStatus
  <2>. QED
    BY <2>1, <2>2, <2>3, <2>4, <2>5, Zenon DEF ChainNext
<1>. QED
  BY <1>1, <1>2, PTL DEF ChainSpec

\* While blocks extend and leave the tip only, the tip is the block that the
\* database holds at the current height: BlockchainState::tip and
\* current_height agree with the entries of put_block.
THEOREM TipIsIndexed == ChainSpec => []TipIndexed
<1>1. ChainInv => TipIndexed
  BY Zenon DEF ChainInv
<1>. QED
  BY <1>1, ChainIsInvariant, PTL

\* While blocks extend and leave the tip only, the database holds an unbroken
\* chain from the tip down, also after blocks that add_block stored and then
\* refused.
THEOREM ChainIsLinked == ChainSpec => []ChainLinked
<1>1. ChainInv => ChainLinked
  BY Zenon DEF ChainInv
<1>. QED
  BY <1>1, ChainIsInvariant, PTL

-----------------------------------------------------------------------------
(***************************************************************************)
(* Theorems about the state that blocks change: types, tickets, proposals, *)
(* parameters and the mempool.                                             *)
(***************************************************************************)

-----------------------------------------------------------------------------
(* Types.                                                                  *)

TypedUtxos(u) ==
  \A op \in DOMAIN u : u[op].coinbase \in BOOLEAN /\ u[op].height \in 0 .. W - 1

TypedTickets(pool) ==
  \A k \in DOMAIN pool : pool[k].height \in 0 .. W - 1 /\ pool[k].status \in {"Pending", "Live"}

\* update_from_block keeps the unspent outputs well-typed.
LEMMA UpdateFromBlockType ==
  ASSUME NEW u, TypedUtxos(u), NEW b, b.height \in 0 .. W - 1
  PROVE  TypedUtxos(UpdateFromBlock(u, b))
  BY Zenon DEF TypedUtxos, UpdateFromBlock, NewUtxo

\* revert_block keeps the unspent outputs well-typed: a dummy has height 0.
LEMMA RevertFromBlockType ==
  ASSUME NEW u, TypedUtxos(u), NEW b
  PROVE  TypedUtxos(RevertFromBlock(u, b))
<1>1. \A op \in DOMAIN RevertFromBlock(u, b) :
        RevertFromBlock(u, b)[op] \in {DummyUtxo} \cup {u[o] : o \in DOMAIN u}
  BY Zenon DEF RevertFromBlock
<1>2. DummyUtxo.coinbase \in BOOLEAN /\ DummyUtxo.height \in 0 .. W - 1
  BY UtxoAssumption DEF DummyUtxo
<1>. QED
  BY <1>1, <1>2, Zenon DEF TypedUtxos

\* process_ticket_finality changes a status and nothing else.
LEMMA FinalityType ==
  ASSUME NEW pool, TypedTickets(pool), NEW h
  PROVE  TypedTickets(ProcessTicketFinality(pool, h))
<1>. SUFFICES ASSUME NEW k \in DOMAIN pool
              PROVE  LET t == ProcessTicketFinality(pool, h)[k]
                     IN  t.height \in 0 .. W - 1 /\ t.status \in {"Pending", "Live"}
  BY Zenon DEF ProcessTicketFinality, TypedTickets
<1>. QED
  BY Zenon DEF ProcessTicketFinality, TypedTickets, Live

\* update_for_new_block keeps the pool well-typed, also where it fails.
LEMMA UpdateForNewBlockType ==
  ASSUME NEW pool, TypedTickets(pool), NEW b, b.height \in 0 .. W - 1, NEW used
  PROVE  TypedTickets(UpdateForNewBlock(pool, b, used))
<1>. DEFINE keys == {b.txs[i].key : i \in Bought(b)}
            next == [k \in (DOMAIN pool \ used) \cup keys |->
                       IF k \in keys THEN NewTicket(b, k) ELSE pool[k]]
<1>1. TypedTickets(next)
  BY Zenon DEF TypedTickets, NewTicket
<1>2. TypedTickets(ProcessTicketFinality(next, b.height))
  BY <1>1, FinalityType, Zenon
<1>. QED
  BY <1>1, <1>2, Zenon DEF UpdateForNewBlock

\* The registrations and slashes of a block keep the statuses well-typed.
LEMMA MasternodesType ==
  ASSUME TypeOK, NEW b, NEW n
  PROVE  \A m \in DOMAIN MasternodesAfter(b, n) :
           MasternodesAfter(b, n)[m] \in {"Registered"} \cup MnStatuses
<1>. SUFFICES ASSUME NEW m \in DOMAIN MasternodesAfter(b, n)
              PROVE  MasternodesAfter(b, n)[m] \in {"Registered"} \cup MnStatuses
  BY Zenon
<1>1. CASE MnOps(b, m, n) = {}
  BY <1>1, Zenon DEF MasternodesAfter, Listed, TypeOK
<1>2. CASE MnOps(b, m, n) # {}
  BY <1>2, Zenon DEF MasternodesAfter
<1>. QED
  BY <1>1, <1>2, Zenon

\* TypeOK follows when each part is well-typed or unchanged.
LEMMA TypeOKParts ==
  TypeOK <=> /\ TypedUtxos(utxos)
             /\ TypedTickets(tickets)
             /\ \A m \in DOMAIN masternodes : masternodes[m] \in {"Registered"} \cup MnStatuses
             /\ DOMAIN index \subseteq 0 .. W - 1
             /\ height \in 0 .. W - 1
             /\ dbHeight \in 0 .. W - 1
  BY Zenon DEF TypeOK, TypedUtxos, TypedTickets

\* process_block keeps the types, also where it fails halfway.
LEMMA ProcessBlockType ==
  ASSUME TypeOK, NEW b \in Blocks, ProcessBlock(b)
  PROVE  TypeOK'
<1>1. b.height \in 0 .. W - 1
  BY BlocksAssumption, Zenon
<1>2. TypedUtxos(utxos')
  BY <1>1, UpdateFromBlockType, TypeOKParts, Zenon DEF ProcessBlock, ProcessBlockRegisterError,
     ProcessBlockTicketError, ProcessBlockOk
<1>3. TypedTickets(tickets')
  <2>1. TypedTickets(UpdateForNewBlock(tickets, b, UsedTicketIds(utxos')))
    BY <1>1, UpdateForNewBlockType, TypeOKParts, Zenon
  <2>. QED
    BY <2>1, FinalityType, TypeOKParts, Zenon DEF ProcessBlock, ProcessBlockRegisterError,
       ProcessBlockTicketError, ProcessBlockOk
<1>4. \A m \in DOMAIN masternodes' : masternodes'[m] \in {"Registered"} \cup MnStatuses
  BY MasternodesType, Zenon DEF ProcessBlock, ProcessBlockRegisterError, ProcessBlockTicketError,
     ProcessBlockOk
<1>5. /\ DOMAIN index' \subseteq 0 .. W - 1
      /\ height' \in 0 .. W - 1
      /\ dbHeight' \in 0 .. W - 1
  BY <1>1, Zenon DEF TypeOK, ProcessBlock, ProcessBlockRegisterError, ProcessBlockTicketError,
     ProcessBlockOk, PutBlock, UpdateTip
<1>. QED
  BY <1>2, <1>3, <1>4, <1>5, Zenon DEF TypeOK, TypedUtxos, TypedTickets

\* add_block keeps the types, also where it fails halfway.
LEMMA AddBlockType ==
  ASSUME TypeOK, NEW b \in Blocks, AddBlock(b)
  PROVE  TypeOK'
<1>. DEFINE r == Rewritten(b, Kept(Order(b)))
<1>1. r.height = b.height /\ b.height \in 0 .. W - 1
  BY BlocksAssumption, RewrittenHeader, Zenon
<1>2. CASE AddBlockRefused(b)
  BY <1>2, Zenon DEF AddBlockRefused, TypeOK
<1>3. CASE AddBlockRegisterError(b) \/ AddBlockRootError(b) \/ AddBlockOk(b)
  <2>1. AddBlockStore(b, r)
    BY <1>3, Zenon DEF AddBlockRegisterError, AddBlockRootError, AddBlockOk, AddBlockApply
  <2>2. TypedUtxos(utxos')
    <3>1. utxos' = UpdateFromBlock(utxos, r)
      BY <2>1, Zenon DEF AddBlockStore
    <3>. HIDE DEF r
    <3>. QED
      BY <3>1, <1>1, UpdateFromBlockType, TypeOKParts, Zenon
  <2>3. TypedTickets(tickets')
    <3>1. \/ tickets' = tickets
          \/ tickets' = UpdateForNewBlock(tickets, r, UsedTicketIds(utxos'))
      BY <1>3, Zenon DEF AddBlockRegisterError, AddBlockRootError, AddBlockOk, AddBlockApply
    <3>. HIDE DEF r
    <3>. QED
      BY <3>1, <1>1, UpdateForNewBlockType, TypeOKParts, Zenon
  <2>4. \A m \in DOMAIN masternodes' : masternodes'[m] \in {"Registered"} \cup MnStatuses
    <3>1. \E n : masternodes' = MasternodesAfter(r, n)
      BY <1>3, Zenon DEF AddBlockRegisterError, AddBlockRootError, AddBlockOk, AddBlockApply
    <3>. HIDE DEF r
    <3>. QED
      BY <3>1, MasternodesType, Zenon
  <2>5. DOMAIN index' \subseteq 0 .. W - 1 /\ dbHeight' \in 0 .. W - 1
    <3>1. DOMAIN index' = DOMAIN index \cup {r.height} /\ dbHeight' = dbHeight
      BY <2>1, Zenon DEF AddBlockStore, PutBlock
    <3>. QED
      BY <3>1, <1>1, Zenon DEF TypeOK
  <2>6. height' \in 0 .. W - 1
    BY <1>1, <1>3, Zenon DEF AddBlockRegisterError, AddBlockRootError, AddBlockOk, UpdateTip, TypeOK
  <2>. QED
    BY <2>2, <2>3, <2>4, <2>5, <2>6, Zenon DEF TypeOK, TypedUtxos, TypedTickets
<1>. QED
  BY <1>2, <1>3, Zenon DEF AddBlock

\* revert_block keeps the types; the height below the first block wraps within
\* u64.
LEMMA RevertBlockType ==
  ASSUME TypeOK, NEW b, b.height \in 0 .. W - 1, RevertBlock(b)
  PROVE  TypeOK'
<1>1. RevertCommon(b)
  BY Zenon DEF RevertBlock, RevertBlockError, RevertBlockOk
<1>2. TypedUtxos(utxos')
  BY <1>1, RevertFromBlockType, TypeOKParts, Zenon DEF RevertCommon
<1>3. TypedTickets(tickets')
  BY <1>1, Zenon DEF RevertCommon, UpdateForRevertBlock, Restrict, TypedTickets, TypeOK
<1>4. \A m \in DOMAIN masternodes' : masternodes'[m] \in {"Registered"} \cup MnStatuses
  BY <1>1, Zenon DEF RevertCommon, Restrict, TypeOK
<1>5. DOMAIN index' \subseteq 0 .. W - 1 /\ dbHeight' \in 0 .. W - 1
  BY <1>1, Zenon DEF RevertCommon, RevertBlock, RevertBlockError, RevertBlockOk, RemoveBlocks, Restrict, TypeOK
<1>6. height' \in 0 .. W - 1
  BY UtxoAssumption DEF RevertBlock, RevertBlockError, RevertBlockOk, UpdateTip, TypeOK
<1>. QED
  BY <1>2, <1>3, <1>4, <1>5, <1>6, Zenon DEF TypeOK, TypedUtxos, TypedTickets

\* The remaining handlers keep the types.
LEMMA OtherType ==
  ASSUME TypeOK, Other
  PROVE  TypeOK'
<1>1. CASE SaveToDisk
  BY <1>1, Zenon DEF SaveToDisk, TypeOK
<1>2. ASSUME NEW tx, AddTransaction(tx) PROVE TypeOK'
  BY <1>2, Zenon DEF AddTransaction, TypeOK
<1>3. ASSUME NEW m \in DOMAIN masternodes, NEW s \in MnStatuses, UpdateMasternodeStatus(m, s)
      PROVE  TypeOK'
  BY <1>3, Zenon DEF UpdateMasternodeStatus, TypeOK
<1>. QED
  BY <1>1, <1>2, <1>3, Zenon DEF Other, ValidateAndAddTransaction

\* Heights stay below 2^64, tickets and masternodes keep to their statuses,
\* whatever the handlers meet.  A reverted block is a stored one, so its height
\* is that of an offered block: the invariant of the store is used here too.
THEOREM TypesHold == Spec => []TypeOK
<1>1. Init => TypeOK
  BY UtxoAssumption DEF Init, TypeOK, EmptyMap
<1>2. StoreInv /\ TypeOK /\ [Next]_vars => TypeOK'
  <2>. SUFFICES ASSUME StoreInv, TypeOK, [Next]_vars PROVE TypeOK'
    BY Zenon
  <2>1. CASE UNCHANGED vars
    BY <2>1, Zenon DEF vars, TypeOK
  <2>2. ASSUME NEW b \in Blocks, ProcessBlock(b) PROVE TypeOK'
    BY <2>2, ProcessBlockType, Zenon
  <2>3. ASSUME NEW b \in Blocks, AddBlock(b) PROVE TypeOK'
    BY <2>3, AddBlockType, Zenon
  <2>4. ASSUME NEW h \in DOMAIN blocks, RevertBlock(blocks[h]) PROVE TypeOK'
    <3>1. blocks[h].height \in 0 .. W - 1
      BY BlocksAssumption DEF StoreInv
    <3>. QED
      BY <3>1, <2>4, RevertBlockType, Zenon
  <2>5. CASE Other
    BY <2>5, OtherType, Zenon
  <2>. QED
    BY <2>1, <2>2, <2>3, <2>4, <2>5, Zenon DEF Next
<1>. QED
  BY <1>1, <1>2, StoreIsInvariant, PTL DEF Spec

-----------------------------------------------------------------------------
(* The mempool.                                                            *)

\* As long as nothing enters the mempool through the unchecked add_transaction,
\* no two of its transactions spend the same output: blocks and reverts only
\* take transactions out of it.
THEOREM MempoolHasNoConflict ==
  ASSUME RelayedTxs = {}
  PROVE  Spec => []MempoolConflictFree
<1>1. Init => MempoolConflictFree
  BY Zenon DEF Init, MempoolConflictFree
<1>2. MempoolConflictFree /\ [Next]_vars => MempoolConflictFree'
  <2>. SUFFICES ASSUME MempoolConflictFree, [Next]_vars PROVE MempoolConflictFree'
    BY Zenon
  <2>1. ASSUME mempool' \subseteq mempool PROVE MempoolConflictFree'
    BY <2>1, Zenon DEF MempoolConflictFree
  <2>2. ASSUME NEW tx, ValidateAndAddTransaction(tx) PROVE MempoolConflictFree'
    BY <2>2, Zenon DEF ValidateAndAddTransaction, AddTransaction, MempoolConflictFree
  <2>3. ASSUME NEW b, ProcessBlock(b) \/ RevertBlock(b) \/ AddBlock(b)
        PROVE  mempool' \subseteq mempool
    BY <2>3, Zenon DEF ProcessBlock, ProcessBlockRegisterError, ProcessBlockTicketError, ProcessBlockOk,
       RevertBlock, RevertBlockError, RevertBlockOk, RevertCommon, AddBlock, AddBlockRefused,
       AddBlockRegisterError, AddBlockRootError, AddBlockOk, AddBlockApply, AddBlockStore
  <2>4. CASE Other
    BY <2>1, <2>2, <2>4, Zenon DEF Other, SaveToDisk, UpdateMasternodeStatus
  <2>. QED
    BY <2>1, <2>3, <2>4, Zenon DEF Next, vars
<1>. QED
  BY <1>1, <1>2, PTL DEF Spec

-----------------------------------------------------------------------------
(* Tickets, while no block is reverted.                                    *)

\* A ticket pool in which no ticket is live early as of height h.
NotEarly(pool, h) ==
  \A k \in DOMAIN pool : pool[k].status = "Live" => pool[k].height + FinalityDepth <= h

\* A ticket pool in which no ticket is overdue as of height h.
NotLate(pool, h) ==
  \A k \in DOMAIN pool : pool[k].status = "Pending" => h < pool[k].height + FinalityDepth

\* The tip is a stored block of the current height, and no ticket is live
\* before the first block.  TicketFinality needs this to tell the tip from a
\* block that is stored again.
TicketInv ==
  /\ StoreInv
  /\ TypeOK
  /\ tip = ZeroHash => height = 0 /\ NotEarly(tickets, height)
  /\ tip # ZeroHash => tip \in DOMAIN blocks /\ blocks[tip].height = height
  /\ TicketFinality

\* The block that a caller offers in a forward run.
Offered(b) == IsChild(b) \/ IsHeaderChild(b)

\* An offered block is one above the tip, or of height 0 where there is no tip.
LEMMA OfferedHeight ==
  ASSUME TicketInv, NEW b \in Blocks, Offered(b)
  PROVE  /\ b.height \in Nat
         /\ height \in Nat
         /\ tip = ZeroHash => b.height = 0 /\ height = 0
         /\ tip # ZeroHash => b.height = height + 1
<1>1. ZeroHash \notin DOMAIN blocks
  BY Zenon DEF TicketInv, StoreInv, BlockHash, ZeroHash
<1>2. b.height \in 0..W-1
  BY BlocksAssumption, Zenon
<1>3. TypeOK /\ (tip = ZeroHash => height = 0)
  BY Zenon DEF TicketInv
<1>4. height \in 0..W-1
  BY <1>3, Zenon DEF TypeOK
<1>5. b.height \in Nat /\ height \in Nat
  BY <1>2, <1>4, UtxoAssumption
<1>. QED
  BY <1>1, <1>3, <1>5, Zenon DEF Offered, IsChild, IsHeaderChild

\* After process_ticket_finality at a height, the pending tickets are those
\* bought too recently.
LEMMA FinalityPass ==
  ASSUME NEW pool, TypedTickets(pool), NEW h \in Nat, NotEarly(pool, h)
  PROVE  /\ NotEarly(ProcessTicketFinality(pool, h), h)
         /\ NotLate(ProcessTicketFinality(pool, h), h)
<1>. DEFINE q == ProcessTicketFinality(pool, h)
<1>1. DOMAIN q = DOMAIN pool
  BY Zenon DEF ProcessTicketFinality
<1>2. ASSUME NEW k \in DOMAIN pool
      PROVE  /\ q[k].status = "Live" => q[k].height + FinalityDepth <= h
             /\ q[k].status = "Pending" => h < q[k].height + FinalityDepth
  <2>1. pool[k].height \in Nat /\ FinalityDepth \in Nat
    BY TicketsAssumption, UtxoAssumption DEF TypedTickets
  <2>2. CASE pool[k].status = "Pending" /\ h >= pool[k].height + FinalityDepth
    <3>1. q[k] = Live(pool[k])
      BY <2>2, Zenon DEF ProcessTicketFinality
    <3>2. q[k].height = pool[k].height /\ q[k].status = "Live"
      BY <3>1 DEF Live
    <3>. QED
      BY <2>1, <2>2, <3>2, Zenon
  <2>3. CASE ~(pool[k].status = "Pending" /\ h >= pool[k].height + FinalityDepth)
    <3>1. q[k] = pool[k]
      BY <2>3, Zenon DEF ProcessTicketFinality
    <3>. QED
      BY <2>1, <2>3, <3>1 DEF NotEarly
  <2>. QED
    BY <2>2, <2>3, Zenon
<1>. QED
  BY <1>1, <1>2, Zenon DEF NotEarly, NotLate

\* update_for_new_block brings no ticket to life early, and leaves one overdue
\* only when it stops at a bad purchase.
LEMMA NewBlockPool ==
  ASSUME NEW pool, TypedTickets(pool), NEW b, b.height \in 0 .. W - 1,
         NotEarly(pool, b.height), NEW used, NEW q, q = UpdateForNewBlock(pool, b, used)
  PROVE  /\ TypedTickets(q)
         /\ NotEarly(q, b.height)
         /\ BadPurchase(b) = 0 => NotLate(q, b.height)
         /\ BadPurchase(b) # 0 =>
              \A k \in DOMAIN q : q[k].height = b.height \/ (k \in DOMAIN pool /\ q[k] = pool[k])
<1>. DEFINE keys == {b.txs[i].key : i \in Bought(b)}
            next == [k \in (DOMAIN pool \ used) \cup keys |->
                       IF k \in keys THEN NewTicket(b, k) ELSE pool[k]]
<1>1. b.height \in Nat
  BY UtxoAssumption
<1>2. \A k \in DOMAIN next : \/ next[k].height = b.height /\ next[k].status = "Pending"
                             \/ k \in DOMAIN pool /\ next[k] = pool[k]
  BY Zenon DEF NewTicket
<1>3. TypedTickets(next) /\ NotEarly(next, b.height)
  BY <1>2, Zenon DEF TypedTickets, NotEarly
<1>. HIDE DEF next
<1>4. /\ NotEarly(ProcessTicketFinality(next, b.height), b.height)
      /\ NotLate(ProcessTicketFinality(next, b.height), b.height)
  BY <1>1, <1>3, FinalityPass, Zenon
<1>5. q = IF BadPurchase(b) = 0 THEN ProcessTicketFinality(next, b.height) ELSE next
  BY Zenon DEF UpdateForNewBlock, next
<1>6. TypedTickets(q)
  BY UpdateForNewBlockType, Zenon
<1>. QED
  BY <1>2, <1>3, <1>4, <1>5, <1>6, Zenon

\* The pool after a block above the tip has been applied without becoming the
\* tip.
LEMMA PartialTickets ==
  ASSUME TicketInv, NEW b \in Blocks, Offered(b), NEW r, r.height = b.height, NEW used,
         \/ tickets' = tickets
         \/ tickets' = UpdateForNewBlock(tickets, r, used),
         UNCHANGED <<tip, height>>, tip # ZeroHash => blocks'[tip] = blocks[tip]
  PROVE  /\ TicketFinality'
         /\ tip = ZeroHash => NotEarly(tickets', height)
<1>1. CASE tickets' = tickets
  <2>1. CASE tip # ZeroHash
    BY <1>1, <2>1, Zenon DEF TicketInv, TicketFinality
  <2>2. CASE tip = ZeroHash
    <3>1. TypeOK
      BY Zenon DEF TicketInv
    <3>2. \A k \in DOMAIN tickets : tickets[k].height \in 0..W-1
      BY <3>1, Zenon DEF TypeOK
    <3>3. \A k \in DOMAIN tickets : tickets[k].height \in Nat
      BY <3>2, UtxoAssumption
    <3>. QED
      BY <1>1, <2>2, <3>3, TicketsAssumption DEF TicketInv, TicketFinality, NotEarly
  <2>. QED
    BY <2>1, <2>2, Zenon
<1>2. CASE tickets' = UpdateForNewBlock(tickets, r, used)
  <2>1. /\ height \in Nat
        /\ tip = ZeroHash => r.height = 0 /\ height = 0
        /\ tip # ZeroHash => r.height = height + 1
        /\ r.height \in 0 .. W - 1
    BY OfferedHeight, BlocksAssumption, UtxoAssumption, Zenon DEF TicketInv, TypeOK
  <2>2. TypedTickets(tickets) /\ NotEarly(tickets, r.height)
    BY <2>1, Zenon DEF TicketInv, TicketFinality, NotEarly, TypedTickets, TypeOK
  <2>3. /\ TypedTickets(tickets')
        /\ NotEarly(tickets', r.height)
        /\ BadPurchase(r) = 0 => NotLate(tickets', r.height)
        /\ BadPurchase(r) # 0 =>
             \A k \in DOMAIN tickets' : \/ tickets'[k].height = r.height
                                        \/ k \in DOMAIN tickets /\ tickets'[k] = tickets[k]
    <3>. DEFINE q == UpdateForNewBlock(tickets, r, used)
    <3>1. /\ TypedTickets(q)
          /\ NotEarly(q, r.height)
          /\ BadPurchase(r) = 0 => NotLate(q, r.height)
          /\ BadPurchase(r) # 0 =>
               \A k \in DOMAIN q : \/ q[k].height = r.height
                                   \/ k \in DOMAIN tickets /\ q[k] = tickets[k]
      <4>. HIDE DEF q
      <4>1. q = UpdateForNewBlock(tickets, r, used)
        BY Zenon DEF q
      <4>. QED
        BY <2>1, <2>2, <4>1, NewBlockPool
    <3>. QED
      BY <1>2, <3>1, Zenon
  <2>4. ASSUME NEW k \in DOMAIN tickets'
        PROVE  tickets'[k].status = "Live" => tickets'[k].height + FinalityDepth <= height + 1
    BY <2>1, <2>3, TicketsAssumption, UtxoAssumption DEF NotEarly, TypedTickets
  <2>5. ASSUME NEW k \in DOMAIN tickets', tickets'[k].status = "Pending",
               height >= tickets'[k].height + FinalityDepth
        PROVE  tip # ZeroHash /\ BadPurchase(blocks[tip]) # 0
    <3>1. tickets'[k].height \in Nat /\ FinalityDepth \in Nat \ {0} /\ r.height \in Nat
      BY <2>1, <2>3, TicketsAssumption, UtxoAssumption DEF TypedTickets
    <3>2. tip # ZeroHash
      BY <2>1, <2>5, <3>1
    <3>3. BadPurchase(r) # 0
      BY <2>1, <2>3, <2>5, <3>1, <3>2 DEF NotLate
    <3>4. k \in DOMAIN tickets /\ tickets'[k] = tickets[k]
      BY <2>1, <2>3, <2>5, <3>1, <3>2, <3>3
    <3>. QED
      BY <2>5, <3>2, <3>4, Zenon DEF TicketInv, TicketFinality
  <2>6. TicketFinality'
    BY <2>4, <2>5, Zenon DEF TicketFinality
  <2>. QED
    BY <2>1, <2>3, <2>6, Zenon
<1>. QED
  BY <1>1, <1>2, Zenon

\* A block stored above the tip does not replace the tip.
LEMMA TipStays ==
  ASSUME TicketInv, NEW b \in Blocks, Offered(b), NEW r, PutBlock(r),
         r.hdr = b.hdr, r.height = b.height, tip # ZeroHash
  PROVE  tip \in DOMAIN blocks' /\ blocks'[tip] = blocks[tip]
<1>1. tip \in DOMAIN blocks /\ b.height # blocks[tip].height
  BY OfferedHeight DEF TicketInv
<1>2. BlockHash(r) # tip
  BY <1>1, BlocksAssumption DEF TicketInv, StoreInv, BlockHash
<1>. QED
  BY <1>1, <1>2, Zenon DEF PutBlock

\* process_block keeps the ticket invariant, also where it fails halfway.
LEMMA ProcessBlockTickets ==
  ASSUME TicketInv, NEW b \in Blocks, Offered(b), ProcessBlock(b)
  PROVE  TicketInv'
<1>1. StoreInv' /\ TypeOK'
  BY ProcessBlockStoreInv, ProcessBlockType, Zenon DEF TicketInv
<1>2. CASE ProcessBlockRegisterError(b) \/ ProcessBlockTicketError(b)
  <2>1. /\ UNCHANGED <<tip, height, blocks>>
        /\ \/ tickets' = tickets
           \/ tickets' = UpdateForNewBlock(tickets, b, UsedTicketIds(utxos'))
    BY <1>2, Zenon DEF ProcessBlockRegisterError, ProcessBlockTicketError
  <2>2. TicketFinality' /\ (tip = ZeroHash => NotEarly(tickets', height))
    BY <2>1, PartialTickets, Zenon
  <2>. QED
    BY <1>1, <2>1, <2>2, Zenon DEF TicketInv
<1>3. CASE ProcessBlockOk(b)
  <2>. DEFINE q == UpdateForNewBlock(tickets, b, UsedTicketIds(utxos'))
  <2>1. /\ tickets' = ProcessTicketFinality(q, b.height)
        /\ tip' = BlockHash(b) /\ height' = b.height
        /\ tip' \in DOMAIN blocks' /\ blocks'[tip'] = b
    BY <1>3, Zenon DEF ProcessBlockOk, PutBlock, UpdateTip
  <2>2. TypedTickets(tickets) /\ NotEarly(tickets, b.height) /\ b.height \in 0 .. W - 1 /\ b.height \in Nat
    BY OfferedHeight, BlocksAssumption, Zenon
       DEF TicketInv, TicketFinality, NotEarly, TypedTickets, TypeOK
  <2>3. TypedTickets(q) /\ NotEarly(q, b.height)
    BY <2>2, NewBlockPool, Zenon
  <2>. HIDE DEF q
  <2>4. NotEarly(tickets', b.height) /\ NotLate(tickets', b.height) /\ TypedTickets(tickets')
    BY <2>1, <2>2, <2>3, FinalityPass, FinalityType, Zenon
  <2>5. TicketFinality'
    BY <2>1, <2>2, <2>4, TicketsAssumption, UtxoAssumption
       DEF TicketFinality, NotEarly, NotLate, TypedTickets
  <2>6. tip' # ZeroHash
    BY <2>1, Zenon DEF BlockHash, ZeroHash
  <2>. QED
    BY <1>1, <2>1, <2>5, <2>6, Zenon DEF TicketInv
<1>. QED
  BY <1>2, <1>3, Zenon DEF ProcessBlock

\* add_block keeps the ticket invariant, also where it fails halfway.
LEMMA AddBlockTickets ==
  ASSUME TicketInv, NEW b \in Blocks, Offered(b), AddBlock(b)
  PROVE  TicketInv'
<1>. DEFINE r == Rewritten(b, Kept(Order(b)))
<1>1. StoreInv' /\ TypeOK'
  BY AddBlockStoreInv, AddBlockType DEF TicketInv
<1>2. r.hdr = b.hdr /\ r.height = b.height
  BY RewrittenHeader, Zenon
<1>3. CASE AddBlockRefused(b)
  BY <1>1, <1>3, Zenon DEF AddBlockRefused, TicketInv, TicketFinality
<1>4. CASE AddBlockRegisterError(b) \/ AddBlockRootError(b)
  <2>1. /\ PutBlock(r)
        /\ UNCHANGED <<tip, height>>
        /\ \/ tickets' = tickets
           \/ tickets' = UpdateForNewBlock(tickets, r, UsedTicketIds(utxos'))
    BY <1>4, Zenon DEF AddBlockRegisterError, AddBlockRootError, AddBlockApply, AddBlockStore
  <2>. HIDE DEF r
  <2>2. tip # ZeroHash => tip \in DOMAIN blocks' /\ blocks'[tip] = blocks[tip]
    BY <1>2, <2>1, TipStays, Zenon
  <2>3. TicketFinality' /\ (tip = ZeroHash => NotEarly(tickets', height))
    BY <1>2, <2>1, <2>2, PartialTickets, Zenon
  <2>. QED
    BY <1>1, <2>1, <2>2, <2>3, Zenon DEF TicketInv
<1>5. CASE AddBlockOk(b)
  <2>1. /\ tickets' = UpdateForNewBlock(tickets, r, UsedTicketIds(utxos'))
        /\ tip' = BlockHash(r) /\ height' = r.height
        /\ tip' \in DOMAIN blocks' /\ blocks'[tip'] = r
    BY <1>2, <1>5, Zenon DEF AddBlockOk, AddBlockApply, AddBlockStore, PutBlock, UpdateTip
  <2>. HIDE DEF r
  <2>2. TypedTickets(tickets) /\ NotEarly(tickets, r.height) /\ r.height \in 0 .. W - 1 /\ r.height \in Nat
    BY <1>2, OfferedHeight, BlocksAssumption, Zenon
       DEF TicketInv, TicketFinality, NotEarly, TypedTickets, TypeOK
  <2>3. /\ TypedTickets(tickets')
        /\ NotEarly(tickets', r.height)
        /\ BadPurchase(r) = 0 => NotLate(tickets', r.height)
    BY <2>1, <2>2, NewBlockPool, Zenon
  <2>4. TicketFinality'
    <3>1. ASSUME NEW k \in DOMAIN tickets'
          PROVE  /\ tickets'[k].status = "Live" => tickets'[k].height + FinalityDepth <= height' + 1
                 /\ (tickets'[k].status = "Pending" /\ height' >= tickets'[k].height + FinalityDepth)
                      => BadPurchase(r) # 0
      BY <2>1, <2>2, <2>3, TicketsAssumption DEF NotEarly, NotLate, TypedTickets
    <3>. QED
      BY <2>1, <3>1, Zenon DEF TicketFinality
  <2>5. tip' # ZeroHash
    BY <2>1, Zenon DEF BlockHash, ZeroHash
  <2>. QED
    BY <1>1, <2>1, <2>4, <2>5, Zenon DEF TicketInv
<1>. QED
  BY <1>3, <1>4, <1>5 DEF AddBlock

LEMMA TicketInit == Init => TicketInv
  BY InitStoreInv, UtxoAssumption
     DEF Init, TicketInv, TypeOK, EmptyMap, TicketFinality, NotEarly

LEMMA TicketStep == TicketInv /\ [ForwardNext]_vars => TicketInv'
<1>. SUFFICES ASSUME TicketInv, [ForwardNext]_vars PROVE TicketInv'
  OBVIOUS
<1>1. ASSUME NEW b \in Blocks, Offered(b), ProcessBlock(b) PROVE TicketInv'
  BY <1>1, ProcessBlockTickets, Zenon
<1>2. ASSUME NEW b \in Blocks, Offered(b), AddBlock(b) PROVE TicketInv'
  BY <1>2, AddBlockTickets, Zenon
<1>3. ASSUME StoreInv', TypeOK', UNCHANGED <<tickets, tip, height, blocks>> PROVE TicketInv'
  BY <1>3, Zenon DEF TicketInv, TicketFinality
<1>4. CASE Other
  <2>1. StoreInv' /\ TypeOK'
    BY <1>4, OtherStoreInv, OtherType, Zenon DEF TicketInv
  <2>2. UNCHANGED <<tickets, tip, height, blocks>>
    BY <1>4, Zenon DEF Other, SaveToDisk, AddTransaction, ValidateAndAddTransaction, UpdateMasternodeStatus
  <2>. QED
    BY <1>3, <2>1, <2>2, Zenon
<1>5. CASE UNCHANGED vars
  BY <1>5, <1>3, SameStore, Zenon DEF vars, TicketInv, TypeOK
<1>. QED
  BY <1>1, <1>2, <1>4, <1>5, Zenon DEF ForwardNext, Offered

\* While no block is reverted, tickets become live when process_ticket_finality
\* should make them so, whichever blocks were applied in part before.  The one
\* exception is the block whose bad purchase ended the update.
THEOREM TicketsBecomeFinal == ForwardSpec => []TicketFinality
<1>1. TicketInv => TicketFinality
  BY Zenon DEF TicketInv
<1>. QED
  BY <1>1, TicketInit, TicketStep, PTL DEF ForwardSpec

-----------------------------------------------------------------------------
(* Outputs that are spent, while no block is reverted.                     *)

\* An unspent output that a block of the chain spends has been created again
\* since.  SpentOnce needs this for the block that comes next.
Remade ==
  \A b \in OnChain : \A op \in BlockInputs(b) \cap DOMAIN utxos :
    op[1] # NullTxid =>
      \E d \in Blocks : d.height \in b.height .. height + 1 /\ MayCreate(d, op)

\* The block of the chain at a height has that height.
LEMMA ChainHeights ==
  ASSUME TicketInv, NEW c \in OnChain
  PROVE  c.height \in Nat /\ c.height <= height
<1>1. PICK n \in DOMAIN index \cap 0 .. height : c = blocks[index[n]]
  BY Zenon DEF OnChain
<1>2. c.height = n
  BY <1>1, Zenon DEF TicketInv, StoreInv, IndexSound
<1>3. height \in Nat
  <2>1. height \in 0 .. W - 1
    BY Zenon DEF TicketInv, TypeOK
  <2>. QED
    BY <2>1, UtxoAssumption
<1>. QED
  BY <1>1, <1>2, <1>3

\* Storing a block above the tip leaves the chain as it was, save for the block
\* itself.
LEMMA ChainGrows ==
  ASSUME TicketInv, NEW b \in Blocks, Offered(b), NEW r, r.hdr = b.hdr, r.height = b.height,
         \/ PutBlock(r) /\ (height' = height \/ height' = r.height)
         \/ UNCHANGED <<blocks, index, height>>,
         NEW c \in OnChain'
  PROVE  c \in OnChain \/ c = r
<1>1. /\ b.height \in Nat
      /\ height \in Nat
      /\ tip = ZeroHash => b.height = 0 /\ height = 0
      /\ tip # ZeroHash => b.height = height + 1
  BY OfferedHeight, Zenon
<1>2. PICK n \in DOMAIN index' \cap 0 .. height' : c = blocks'[index'[n]]
  BY Zenon DEF OnChain
<1>3. CASE PutBlock(r) /\ n = r.height
  <2>1. index'[n] = BlockHash(r)
    BY <1>2, <1>3 DEF PutBlock
  <2>. QED
    BY <1>2, <1>3, <2>1 DEF PutBlock
<1>4. CASE PutBlock(r) /\ n # r.height
  <2>1. n \in DOMAIN index /\ index'[n] = index[n]
    BY <1>2, <1>4 DEF PutBlock
  <2>2. n \in 0 .. height
    BY <1>1, <1>2, <1>4
  <2>3. index[n] \in DOMAIN blocks /\ blocks[index[n]].height = n
    BY <2>1, Zenon DEF TicketInv, StoreInv, IndexSound
  <2>4. BlockHash(r) # index[n]
    <3>1. BlockHash(blocks[index[n]]) = index[n]
      BY <2>3, Zenon DEF TicketInv, StoreInv
    <3>2. PICK d \in Blocks : blocks[index[n]].hdr = d.hdr /\ blocks[index[n]].height = d.height
      BY <2>3, Zenon DEF TicketInv, StoreInv
    <3>3. r.hdr = d.hdr => r.height = n
      BY <2>3, <3>2, BlocksAssumption, Zenon
    <3>. QED
      BY <1>4, <3>1, <3>2, <3>3 DEF BlockHash
  <2>5. blocks'[index[n]] = blocks[index[n]]
    BY <1>4, <2>3, <2>4 DEF PutBlock
  <2>. QED
    BY <1>2, <2>1, <2>2, <2>5, Zenon DEF OnChain
<1>5. CASE UNCHANGED <<blocks, index, height>>
  BY <1>5, Zenon DEF OnChain
<1>. QED
  BY <1>3, <1>4, <1>5, Zenon

\* A block above the tip whose inputs are all unspent, applied in full or in
\* part, spends no output of the chain that was not created again.
LEMMA SpendStep ==
  ASSUME TicketInv, SpentOnce, Remade, NEW b \in Blocks, Offered(b),
         NEW r, r.hdr = b.hdr, r.height = b.height,
         \/ PutBlock(r) /\ (height' = height \/ height' = r.height)
         \/ UNCHANGED <<blocks, index, height>>,
         utxos' = UpdateFromBlock(utxos, r),
         \A op \in BlockOutputs(r) : MayCreate(b, op),
         \A op \in BlockInputs(r) : op[1] # NullTxid => op \in DOMAIN utxos
  PROVE  SpentOnce' /\ Remade'
<1>1. /\ b.height \in Nat
      /\ height \in Nat
      /\ tip = ZeroHash => b.height = 0 /\ height = 0
      /\ tip # ZeroHash => b.height = height + 1
  BY OfferedHeight, Zenon
<1>2. height' \in Nat /\ height <= height' /\ height' <= height + 1
  BY <1>1
<1>3. \A c \in OnChain' : c \in OnChain \/ c = r
  BY ChainGrows, Zenon
<1>4. \A c \in OnChain : c.height \in Nat /\ c.height <= height
  BY ChainHeights, Zenon
<1>5. DOMAIN utxos' = (DOMAIN utxos \ BlockInputs(r)) \cup BlockOutputs(r)
  BY Zenon DEF UpdateFromBlock
<1>6. Remade'
  <2>. SUFFICES ASSUME NEW c \in OnChain', NEW op \in BlockInputs(c) \cap DOMAIN utxos',
                       op[1] # NullTxid
                PROVE  \E d \in Blocks : d.height \in c.height .. height' + 1 /\ MayCreate(d, op)
    BY Zenon DEF Remade, BlockInputs, MayCreate, Inputs
  <2>1. CASE op \in BlockOutputs(r)
    <3>1. MayCreate(b, op)
      BY <2>1, Zenon
    <3>2. c.height \in Nat /\ c.height <= b.height /\ b.height <= height' + 1
      BY <1>1, <1>2, <1>3, <1>4
    <3>. QED
      BY <1>1, <1>2, <3>1, <3>2
  <2>2. CASE op \notin BlockOutputs(r)
    <3>1. op \in DOMAIN utxos /\ op \notin BlockInputs(r)
      BY <1>5, <2>2, Zenon
    <3>2. c \in OnChain
      BY <1>3, <3>1, Zenon
    <3>3. PICK d \in Blocks : d.height \in c.height .. height + 1 /\ MayCreate(d, op)
      BY <3>1, <3>2, Zenon DEF Remade
    <3>4. d.height \in c.height .. height' + 1
      BY <1>1, <1>2, <1>4, <3>2, <3>3
    <3>. QED
      BY <3>3, <3>4, Zenon
  <2>. QED
    BY <2>1, <2>2, Zenon
<1>7. SpentOnce'
  <2>. SUFFICES ASSUME NEW c \in OnChain', NEW e \in OnChain',
                       NEW op \in BlockInputs(c) \cap BlockInputs(e),
                       c.height < e.height, op[1] # NullTxid
                PROVE  \E d \in Blocks : d.height \in c.height .. e.height /\ MayCreate(d, op)
    BY Zenon DEF SpentOnce, BlockInputs, MayCreate, Inputs
  <2>1. c \in OnChain
    BY <1>1, <1>3, <1>4
  <2>2. CASE e \in OnChain
    BY <2>1, <2>2, Zenon DEF SpentOnce
  <2>3. CASE e = r
    <3>1. tip # ZeroHash /\ e.height = height + 1
      BY <1>1, <1>4, <2>1, <2>3
    <3>2. op \in DOMAIN utxos
      BY <2>3, Zenon
    <3>. QED
      BY <2>1, <3>1, <3>2, Zenon DEF Remade
  <2>. QED
    BY <1>3, <2>2, <2>3, Zenon
<1>. QED
  BY <1>6, <1>7, Zenon

\* A block that process_block accepts has its inputs in the UTXO set: a
\* coinbase has the null input only.
LEMMA ProcessSpends ==
  ASSUME NEW b \in Blocks, ProcessValid(b), NEW op \in BlockInputs(b), op[1] # NullTxid
  PROVE  op \in DOMAIN utxos
<1>1. PICK i \in DOMAIN b.txs : op \in Inputs(b.txs[i])
  BY Zenon DEF BlockInputs, Range
<1>2. PICK k \in DOMAIN b.txs[i].ins : op = b.txs[i].ins[k]
  BY <1>1, Zenon DEF Inputs, Range
<1>3. ASSUME ValidCoinbase(b.txs[i]) PROVE FALSE
  <2>1. b.txs[i].ins \in Seq(Range(b.txs[i].ins)) /\ Len(b.txs[i].ins) = 1
    BY <1>3, TxsAssumption, Zenon DEF ValidCoinbase
  <2>2. k = 1
    BY <1>2, <2>1
  <2>. QED
    BY <1>2, <1>3, <2>2, Zenon DEF ValidCoinbase
<1>. QED
  BY <1>1, <1>3, Zenon DEF ProcessValid, ValidateTransaction

\* Appending an element and taking it off again.
LEMMA DropLast ==
  ASSUME NEW S, NEW s \in Seq(S), NEW x
  PROVE  SubSeq(s \o <<x>>, 1, Len(s \o <<x>>) - 1) = s
<1>. DEFINE t == s \o <<x>>
            u == SubSeq(t, 1, Len(t) - 1)
<1>1. Len(s) \in Nat /\ Len(t) = Len(s) + 1
  OBVIOUS
<1>2. \A i \in 1 .. Len(s) : t[i] = s[i]
  OBVIOUS
<1>3. u = [i \in 1 .. Len(s) |-> t[i]]
  <2>. HIDE DEF t
  <2>. QED
    BY <1>1
<1>4. s = [i \in 1 .. Len(s) |-> s[i]]
  OBVIOUS
<1>. HIDE DEF t, u
<1>5. u = s
  BY <1>2, <1>3, <1>4, Zenon
<1>. QED
  BY <1>5, Zenon DEF t, u

\* The outputs of a block are among those it may create.
LEMMA OwnOutputs ==
  ASSUME NEW b, NEW op \in BlockOutputs(b)
  PROVE  MayCreate(b, op)
<1>1. PICK tx \in Range(b.txs) : op \in Outpoints(tx)
  BY Zenon DEF BlockOutputs
<1>2. PICK k \in DOMAIN tx.outs : op = <<tx.id, k>>
  BY <1>1, Zenon DEF Outpoints
<1>3. op[1] = tx.id /\ op[2] = k
  BY <1>2, Zenon
<1>. QED
  BY <1>3, Zenon DEF MayCreate

\* What is left of a block in which every transaction is accepted spends
\* unspent outputs only: the transactions that are not looked at, the slashes,
\* are dropped.
LEMMA AcceptedElements ==
  ASSUME NEW b \in Blocks, AllAccepted(Order(b))
  PROVE  Kept(Order(b)) \in Seq({t \in Range(b.txs) : Inputs(t) \subseteq DOMAIN utxos})
<1>. DEFINE T == Range(b.txs)
            U == {t \in T : Inputs(t) \subseteq DOMAIN utxos}
            s == Order(b)
            I == {i \in DOMAIN s : s[i].kind # "slash"}
<1>1. s \in Seq(T)
  <2>1. b.txs \in Seq(Range(b.txs)) /\ b.txs # <<>>
    BY BlocksAssumption, Zenon
  <2>2. \A i \in DOMAIN b.txs : b.txs[i].fee \in Nat
    BY TxsAssumption, Zenon
  <2>3. s = <<Head(b.txs)>> \o SortByFee(b.txs, 2 .. Len(b.txs))
    BY Zenon DEF Order
  <2>. HIDE DEF s
  <2>. QED
    BY <2>1, <2>2, <2>3, SortedRest, Zenon
<1>2. \A t \in T : t.fee \in Nat
  <2>1. \A t \in Range(b.txs) : \E i \in DOMAIN b.txs : t = b.txs[i]
    BY Zenon DEF Range
  <2>. QED
    BY <2>1, TxsAssumption, Zenon
<1>3. Kept(s) = SortByFee(s, I)
  BY Zenon DEF Kept
<1>4. \A i \in I : Inputs(s[i]) \subseteq DOMAIN utxos
  <2>. SUFFICES ASSUME NEW i \in I PROVE Inputs(s[i]) \subseteq DOMAIN utxos
    BY Zenon
  <2>1. i \in DOMAIN s /\ s[i].kind # "slash"
    BY Zenon
  <2>2. AcceptsInputs(s[i])
    BY <2>1, Zenon DEF AllAccepted, AcceptsTx
  <2>. QED
    BY <2>2, Zenon DEF AcceptsInputs, ValidateComprehensive
<1>. HIDE DEF T, s
<1>5. IsFiniteSet(DOMAIN s) /\ DOMAIN s \subseteq Int
  BY <1>1, PlacesFinite
<1>6. IsFiniteSet(I) /\ I \subseteq Int
  BY <1>5, FS_Subset, Zenon
<1>7. \A i \in I : s[i] \in U /\ s[i].fee \in Nat
  BY <1>1, <1>2, <1>4
<1>. HIDE DEF I, U
<1>8. SortByFee(s, I) \in Seq(U)
  BY <1>6, <1>7, SortByFeeElements, Zenon
<1>. QED
  BY <1>3, <1>8, Zenon DEF T, s, U

\* So are those of the block that add_block stores, whose coinbase may have
\* another txid, and its inputs are in the UTXO set.
LEMMA RewrittenSpends ==
  ASSUME NEW b \in Blocks, NEW kept, kept = Kept(Order(b)), kept # <<>>,
         AllAccepted(Order(b)), AcceptsReward(b, kept), NEW r, r = Rewritten(b, kept)
  PROVE  /\ \A op \in BlockOutputs(r) : MayCreate(b, op)
         /\ \A op \in BlockInputs(r) : op \in DOMAIN utxos
<1>. DEFINE T == {t \in Range(b.txs) : Inputs(t) \subseteq DOMAIN utxos}
            h == Head(kept)
            pow == PowReward(b, kept)
            p == PayReward(h, pow)
<1>1. kept \in Seq(T)
  BY AcceptedElements, Zenon
<1>2. h \in T /\ Tail(kept) \in Seq(T)
  BY <1>1
<1>3. \A t \in Range(b.txs) : {"id", "ins", "outs"} \subseteq DOMAIN t /\ t.id \in Seq(Range(t.id))
  <2>1. \A t \in Range(b.txs) : \E i \in DOMAIN b.txs : t = b.txs[i]
    BY Zenon DEF Range
  <2>. QED
    BY <2>1, TxsAssumption, Zenon
<1>4. r.txs = <<p>> \o Tail(kept)
  BY BlocksAssumption, Zenon DEF Rewritten
<1>. HIDE DEF p, h, T
<1>5. \A t \in Range(r.txs) : t \in T \/ t = p
  <2>1. \A i \in DOMAIN r.txs : r.txs[i] \in T \cup {p}
    BY <1>2, <1>4
  <2>. QED
    BY <2>1, Zenon DEF Range
<1>6. h \in Range(b.txs) /\ {"id", "ins", "outs"} \subseteq DOMAIN h /\ h.id \in Seq(Range(h.id))
  BY <1>2, <1>3, Zenon DEF T
<1>7. /\ p.ins = h.ins
      /\ DOMAIN p.outs = DOMAIN h.outs
      /\ p.id = h.id \/ p.id = h.id \o <<pow>>
  BY <1>6, Zenon DEF PayReward, p
<1>. HIDE DEF pow
<1>8. ASSUME NEW op \in BlockOutputs(r) PROVE MayCreate(b, op)
  <2>1. PICK t \in Range(r.txs) : op \in Outpoints(t)
    BY Zenon DEF BlockOutputs
  <2>2. CASE t \in T
    BY <2>1, <2>2, OwnOutputs DEF T, BlockOutputs
  <2>3. CASE t = p
    <3>1. PICK k \in DOMAIN p.outs : op = <<p.id, k>>
      BY <2>1, <2>3, Zenon DEF Outpoints
    <3>2. op[1] = p.id /\ op[2] = k
      BY <3>1, Zenon
    <3>3. p.id = h.id \o <<pow>> => SubSeq(p.id, 1, Len(p.id) - 1) = h.id
      BY <1>6, DropLast, Zenon
    <3>. QED
      BY <1>6, <1>7, <3>1, <3>2, <3>3, Zenon DEF MayCreate
  <2>. QED
    BY <1>5, <2>2, <2>3, Zenon
<1>9. ASSUME NEW op \in BlockInputs(r) PROVE op \in DOMAIN utxos
  <2>1. PICK t \in Range(r.txs) : op \in Inputs(t)
    BY DEF BlockInputs
  <2>2. CASE t \in T
    BY <2>1, <2>2, Zenon DEF T
  <2>3. CASE t = p
    BY <1>2, <1>7, <2>1, <2>3, Zenon DEF T, Inputs
  <2>. QED
    BY <1>5, <2>2, <2>3, Zenon
<1>. QED
  BY <1>8, <1>9, Zenon

LEMMA SpendInit == Init => SpentOnce /\ Remade
<1>. SUFFICES ASSUME Init PROVE OnChain = {}
  BY Zenon DEF SpentOnce, Remade
<1>. QED
  BY Zenon DEF Init, OnChain, EmptyMap

LEMMA SpendNext ==
  ASSUME TicketInv, SpentOnce, Remade, [ForwardNext]_vars
  PROVE  SpentOnce' /\ Remade'
<1>1. ASSUME NEW b \in Blocks, Offered(b), ProcessBlock(b) PROVE SpentOnce' /\ Remade'
  <2>1. utxos' = UpdateFromBlock(utxos, b) /\ ProcessValid(b)
    BY <1>1, Zenon DEF ProcessBlock, ProcessBlockRegisterError, ProcessBlockTicketError, ProcessBlockOk
  <2>2. \/ PutBlock(b) /\ (height' = height \/ height' = b.height)
        \/ UNCHANGED <<blocks, index, height>>
    BY <1>1, Zenon DEF ProcessBlock, ProcessBlockRegisterError, ProcessBlockTicketError, ProcessBlockOk, UpdateTip
  <2>3. \A op \in BlockOutputs(b) : MayCreate(b, op)
    BY OwnOutputs, Zenon
  <2>4. \A op \in BlockInputs(b) : op[1] # NullTxid => op \in DOMAIN utxos
    BY <2>1, ProcessSpends, Zenon
  <2>. QED
    BY <1>1, <2>1, <2>2, <2>3, <2>4, SpendStep, Zenon
<1>2. ASSUME UNCHANGED <<utxos, blocks, index, height>> PROVE SpentOnce' /\ Remade'
  BY <1>2 DEF SpentOnce, Remade, OnChain
<1>3. ASSUME NEW b \in Blocks, Offered(b), AddBlock(b) PROVE SpentOnce' /\ Remade'
  <2>1. CASE AddBlockRefused(b)
    BY <1>2, <2>1, Zenon DEF AddBlockRefused
  <2>2. CASE ~AddBlockRefused(b)
    <3>. DEFINE kept == Kept(Order(b))
                r == Rewritten(b, kept)
    <3>1. AddBlockStore(b, r) /\ (height' = height \/ height' = b.height)
      BY <1>3, <2>2, Zenon DEF AddBlock, AddBlockRegisterError, AddBlockRootError, AddBlockOk, AddBlockApply,
         UpdateTip
    <3>2. r.hdr = b.hdr /\ r.height = b.height
      BY RewrittenHeader, Zenon
    <3>3. /\ kept # <<>> /\ AllAccepted(Order(b)) /\ AcceptsReward(b, kept)
          /\ utxos' = UpdateFromBlock(utxos, r) /\ PutBlock(r)
      BY <3>1, Zenon DEF AddBlockStore
    <3>4. /\ \A op \in BlockOutputs(r) : MayCreate(b, op)
          /\ \A op \in BlockInputs(r) : op \in DOMAIN utxos
      BY <3>3, RewrittenSpends, Zenon
    <3>. HIDE DEF r
    <3>. QED
      BY <1>3, <3>1, <3>2, <3>3, <3>4, SpendStep, Zenon
  <2>. QED
    BY <2>1, <2>2, Zenon
<1>4. CASE Other \/ UNCHANGED vars
  BY <1>2, <1>4, Zenon DEF Other, SaveToDisk, AddTransaction, ValidateAndAddTransaction,
     UpdateMasternodeStatus, vars
<1>. QED
  BY <1>1, <1>3, <1>4, Zenon DEF ForwardNext, Offered

\* While no block is reverted, no output is spent twice on the chain unless a
\* block creates it again: what process_block and add_block let through has
\* its inputs in the UTXO set, and what they apply, even in part, takes them
\* out.
THEOREM OutputsAreSpentOnce == ForwardSpec => []SpentOnce
<1>1. Init => TicketInv /\ SpentOnce /\ Remade
  BY TicketInit, SpendInit, Zenon
<1>2. TicketInv /\ SpentOnce /\ Remade /\ [ForwardNext]_vars => (TicketInv /\ SpentOnce /\ Remade)'
  BY TicketStep, SpendNext, Zenon
<1>. QED
  BY <1>1, <1>2, PTL DEF ForwardSpec
=============================================================================
