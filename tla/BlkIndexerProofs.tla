--------------------------- MODULE BlkIndexerProofs ---------------------------
(***************************************************************************)
(* What holds of the transaction pool and of the block indexer for every   *)
(* universe of blocks and transactions, every file size and bound, and     *)
(* every interleaving of links, pops, failed writes and restarts.  The     *)
(* entries of the database stay those of one chain, and every block of it  *)
(* can be undone.                                                          *)
(***************************************************************************)
EXTENDS BlkIndexer, StoreProofs

-----------------------------------------------------------------------------
(***************************************************************************)
(* The pool, by id; its lists by fee are not as the code means them        *)
(* (ByFeeMatchesById).                                                     *)
(***************************************************************************)
(* A transaction enters only when the pool refers to none of its outputs    *)
(* (check_value), so the outputs it spends are spent by no other.           *)
LEMMA PushKeepsApart ==
    ASSUME PoolNoDoubleSpend, NEW t, NEW fee, PoolPush(t, fee)
    PROVE  PoolNoDoubleSpend'
<1>1. PoolCheckValue(t) /\ byid' = byid \cup {t}
  BY DEF PoolPush
<1>2. ~IsCoinbase(t)
  BY <1>1 DEF PoolCheckValue
<1>3. ASSUME NEW u \in byid, NEW k \in Spends(t), k \in Spends(u)
      PROVE  FALSE
  <2>1. PICK i \in CostIns(t) : k = OutKey(Ins(t)[i])
    BY DEF Spends
  <2>2. PICK j \in CostIns(u) : k = OutKey(Ins(u)[j])
    BY <1>3 DEF Spends
  <2>3. i \in DOMAIN Ins(t) /\ j \in DOMAIN Ins(u)
    BY DEF CostIns
  <2>4. IsCostCoin(OutKey(Ins(t)[i]))
    BY <2>1, <2>2, <2>3 DEF IsCostCoin
  <2>5. QED BY <1>1, <2>3, <2>4 DEF PoolCheckValue
<1>4. \A u \in byid : Spends(t) \cap Spends(u) = {} /\ Spends(u) \cap Spends(t) = {}
  BY <1>3
<1>5. QED BY <1>1, <1>2, <1>4 DEF PoolNoDoubleSpend

LEMMA RemoveKeepsApart ==
    ASSUME PoolNoDoubleSpend, NEW ts, PoolRemove(ts)
    PROVE  PoolNoDoubleSpend'
<1>1. byid' \subseteq byid
  BY DEF PoolRemove
<1>2. QED BY <1>1 DEF PoolNoDoubleSpend

(* Whatever is pushed and removed in whatever order, no two transactions of *)
(* the pool spend the same output.                                          *)
THEOREM PoolConflictFree == PoolSpec => []PoolNoDoubleSpend
<1>1. PoolInit => PoolNoDoubleSpend
  BY DEF PoolInit, PoolNoDoubleSpend
<1>2. PoolNoDoubleSpend /\ [PoolNext]_poolVars => PoolNoDoubleSpend'
  <2>1. ASSUME PoolNoDoubleSpend, NEW t, NEW fee, AddToPool(t, fee)
        PROVE  PoolNoDoubleSpend'
    BY <2>1, PushKeepsApart DEF AddToPool
  <2>2. ASSUME PoolNoDoubleSpend, NEW t, DropFromPool(t)
        PROVE  PoolNoDoubleSpend'
    BY <2>2, RemoveKeepsApart DEF DropFromPool
  <2>3. PoolNoDoubleSpend /\ UNCHANGED poolVars => PoolNoDoubleSpend'
    BY DEF poolVars, PoolNoDoubleSpend
  <2>4. QED BY <2>1, <2>2, <2>3 DEF PoolNext
<1>3. QED BY <1>1, <1>2, PTL DEF PoolSpec

-----------------------------------------------------------------------------
(* Types of the contents. *)
LEMMA BlockFacts ==
    ASSUME NEW b \in Block
    PROVE  /\ Prev(b) \in Block \cup {NoBlock} /\ Txs(b) \in Seq(Tx)
           /\ BlockData[b].len \in Nat /\ BlockData[b].revlen \in Nat
           /\ BlockTxs(b) \subseteq Tx
<1>1. Txs(b) \in Seq(Tx) /\ Prev(b) \in Block \cup {NoBlock}
      /\ BlockData[b].len \in Nat /\ BlockData[b].revlen \in Nat
  BY BlocksAssumption DEF Prev, Txs
<1>2. BlockTxs(b) \subseteq Tx
  BY <1>1 DEF BlockTxs
<1>3. QED BY <1>1, <1>2

LEMMA CoinFacts ==
    /\ \A k \in CoinKey : k[1] \in Tx /\ k \in Makes(k[1]) /\ OutOf(k).value \in Int
    /\ \A t \in Tx : Makes(t) \subseteq CoinKey
    /\ \A t \in Tx : \A k \in Makes(t) : k[1] = t
<1>1. \A t \in Tx : Makes(t) \subseteq CoinKey
  BY DEF CoinKey
<1>2. \A t, k : k \in Makes(t) => k[1] = t /\ k[2] \in DOMAIN Outs(t)
  BY DEF Makes
<1>3. ASSUME NEW k \in CoinKey
      PROVE  k[1] \in Tx /\ k \in Makes(k[1]) /\ OutOf(k).value \in Int
  <2>1. PICK t \in Tx : k \in Makes(t)
    BY DEF CoinKey
  <2>2. k[1] = t /\ k[2] \in DOMAIN Outs(t)
    BY <2>1, <1>2
  <2>3. Outs(t) \in Seq(TxOut)
    BY BlocksAssumption DEF Outs
  <2>4. Outs(t)[k[2]] \in TxOut
    BY <2>2, <2>3
  <2>5. OutOf(k).value \in Int
    BY <2>2, <2>4 DEF OutOf, TxOut
  <2>6. QED BY <2>1, <2>2, <2>5
<1>4. QED BY <1>1, <1>2, <1>3

LEMMA MadeCoinType ==
    ASSUME NEW k \in CoinKey, NEW h \in Height
    PROVE  MadeCoin(k, h) \in CoinAttr
<1>1. OutOf(k).value \in Int
  BY CoinFacts
<1>2. IsCoinbase(k[1]) \in BOOLEAN
  BY DEF IsCoinbase
<1>3. QED BY <1>1, <1>2 DEF MadeCoin, CoinAttr

LEMMA BlockKeyFacts ==
    ASSUME NEW b \in Block
    PROVE  /\ BlockMakes(b) \subseteq CoinKey
           /\ \A k : k \in BlockMakes(b) <=> k \in CoinKey /\ k[1] \in BlockTxs(b)
<1>1. BlockTxs(b) \subseteq Tx
  BY BlockFacts
<1>2. BlockMakes(b) \subseteq CoinKey
  BY <1>1, CoinFacts DEF BlockMakes
<1>3. ASSUME NEW k \in BlockMakes(b) PROVE k[1] \in BlockTxs(b)
  BY <1>1, CoinFacts DEF BlockMakes
<1>4. ASSUME NEW k \in CoinKey, k[1] \in BlockTxs(b) PROVE k \in BlockMakes(b)
  BY <1>4, CoinFacts DEF BlockMakes
<1>5. QED BY <1>2, <1>3, <1>4

(* PosOf finds a place of the transaction in its block. *)
LEMMA PosOfFacts ==
    ASSUME NEW b \in Block, NEW t \in BlockTxs(b)
    PROVE  PosOf(b, t) \in DOMAIN Txs(b) /\ Txs(b)[PosOf(b, t)] = t /\ PosOf(b, t) \in Nat
<1>1. \E i \in DOMAIN Txs(b) : Txs(b)[i] = t
  BY DEF BlockTxs
<1>2. PosOf(b, t) \in DOMAIN Txs(b) /\ Txs(b)[PosOf(b, t)] = t
  BY <1>1 DEF PosOf
<1>3. DOMAIN Txs(b) \subseteq Nat
  BY BlockFacts
<1>4. QED BY <1>2, <1>3

(* The undo batch of a block that link accepts. *)
LEMMA UndoOfType ==
    ASSUME TypeOK, NEW b \in Block, NextHeight \in Height
    PROVE  UndoOf(b) \in Undo
<1>1. BlockTxs(b) \in SUBSET Tx /\ BlockMakes(b) \in SUBSET CoinKey
  BY BlockFacts, BlockKeyFacts
<1>2. [k \in CoinKey |-> IF k \in BlockSpends(b) THEN coin[k] ELSE NoCoin]
        \in [CoinKey -> CoinAttr \cup {NoCoin}]
  BY DEF TypeOK
<1>3. best \in Best \cup {NoBest}
  BY DEF TypeOK
<1>4. QED BY <1>1, <1>2, <1>3 DEF UndoOf, Undo

(* What the next block would be linked to. *)
LEMMA SpendsIndexed ==
    ASSUME NEW b \in Block, LinkOk(b), NEW k \in BlockSpends(b)
    PROVE  k[1] \in Tx /\ tattr[k[1]] # NoTxAttr /\ HasCoin(k)
<1>1. PICK t \in BlockTxs(b) : k \in Spends(t)
  BY DEF BlockSpends
<1>2. PICK i \in CostIns(t) : k = OutKey(Ins(t)[i])
  BY <1>1 DEF Spends
<1>3. SpendOk(Ins(t)[i], NextHeight)
  BY <1>1 DEF LinkOk, CheckBlockAmount, CheckTxAmount
<1>4. QED BY <1>2, <1>3 DEF SpendOk, HasRefOut, CanRef

-----------------------------------------------------------------------------
(* The cache holds ids of blocks only: what is read is in an index. *)
LEMMA CachedType ==
    ASSUME NEW bs, bs \subseteq Block, cache \subseteq Block, NEW c \in Cached(bs)
    PROVE  c \subseteq Block
BY DEF Cached

LEMMA IndexedBlock ==
    ASSUME TypeOK, NEW t \in Tx, tattr[t] # NoTxAttr
    PROVE  tattr[t].blk \in Block
BY DEF TypeOK, TxAttr

LEMMA LinkReadsType ==
    ASSUME TypeOK, NEW b \in Block, LinkOk(b)
    PROVE  LinkReads(b) \subseteq Block
<1>1. \A k \in BlockSpends(b) : tattr[k[1]].blk \in Block
  BY SpendsIndexed, IndexedBlock
<1>2. best # NoBest => best.id \in Block
  BY DEF TypeOK, Best
<1>3. QED BY <1>1, <1>2 DEF LinkReads

LEMMA TxReadsType ==
    ASSUME TypeOK, NEW t, CheckTxAmount(t, NextHeight)
    PROVE  {tattr[k[1]].blk : k \in Spends(t)} \subseteq Block
<1>1. SUFFICES ASSUME NEW k \in Spends(t) PROVE tattr[k[1]].blk \in Block
  OBVIOUS
<1>2. PICK i \in CostIns(t) : k = OutKey(Ins(t)[i])
  BY DEF Spends
<1>3. SpendOk(Ins(t)[i], NextHeight)
  BY DEF CheckTxAmount
<1>4. k[1] \in Tx /\ tattr[k[1]] # NoTxAttr
  BY <1>2, <1>3 DEF SpendOk, HasRefOut, CanRef
<1>5. QED BY <1>4, IndexedBlock

LEMMA InitType == Init => TypeOK
<1> SUFFICES ASSUME Init PROVE TypeOK
  OBVIOUS
<1>1. ASSUME NEW B PROVE IsStore(EmptyStore, B)
  <2> DEFINE S == Byte(B)
  <2> HIDE DEF S
  <2>1. <<>> \in Seq(S)
    OBVIOUS
  <2>2. [i \in {0} |-> <<>>] \in [0..0 -> Seq(S)]
    BY <2>1
  <2>3. <<0>> \in Seq(0..0)
    OBVIOUS
  <2>4. QED BY <2>2, <2>3 DEF EmptyStore, IsStore, S
<1>2. QED BY <1>1, IndexerAssumption DEF Init, PoolInit, TypeOK

(* The entries link adds are attributes of the right kinds. *)
LEMMA WriteIndexType ==
    ASSUME TypeOK, NEW b \in Block, NextHeight \in Height, WriteIndex(b)
    PROVE  /\ best' \in Best
           /\ hidx' \in [Height -> Block \cup {NoBlock}]
           /\ battr' \in [Block -> BlkAttr \cup {NoAttr}]
           /\ tattr' \in [Tx -> TxAttr \cup {NoTxAttr}]
           /\ coin' \in [CoinKey -> CoinAttr \cup {NoCoin}]
<1>1. best' \in Best
  BY DEF WriteIndex, Best
<1>2. hidx' \in [Height -> Block \cup {NoBlock}]
  BY DEF WriteIndex, TypeOK
<1>3. battr' \in [Block -> BlkAttr \cup {NoAttr}]
  <2>1. BlockData[b].len \in Nat /\ BlockData[b].revlen \in Nat
    BY BlockFacts
  <2>2. PushAttr(blk, BlockData[b].len) \in Attr
    BY <2>1, PushFacts DEF TypeOK
  <2>3. PushAttr(rev, BlockData[b].revlen) \in Attr
    BY <2>1, PushFacts, UndoOfType DEF TypeOK
  <2>4. [height |-> NextHeight, blk |-> PushAttr(blk, BlockData[b].len),
         rev |-> PushAttr(rev, BlockData[b].revlen)] \in BlkAttr
    BY <2>2, <2>3 DEF BlkAttr
  <2>5. QED BY <2>4 DEF WriteIndex, TypeOK
<1>4. tattr' \in [Tx -> TxAttr \cup {NoTxAttr}]
  <2>1. \A t \in BlockTxs(b) : [blk |-> b, idx |-> PosOf(b, t)] \in TxAttr
    BY PosOfFacts DEF TxAttr
  <2>2. QED BY <2>1 DEF WriteIndex, TypeOK
<1>5. coin' \in [CoinKey -> CoinAttr \cup {NoCoin}]
  BY MadeCoinType DEF WriteIndex, TypeOK
<1>6. QED BY <1>1, <1>2, <1>3, <1>4, <1>5

LEMMA LinkType ==
    ASSUME TypeOK, NEW b \in Block, Link(b)
    PROVE  TypeOK'
<1>1. NextHeight \in Height /\ LinkOk(b)
  BY DEF Link, Room
<1>2. BlockData[b].len \in Nat /\ BlockData[b].revlen \in Nat
  BY BlockFacts
<1>3. IsStore(blk', Block)
  BY <1>2, PushFacts DEF Link, TypeOK
<1>4. IsStore(rev', Undo)
  BY <1>1, <1>2, PushFacts, UndoOfType DEF Link, TypeOK
<1>5. cache' \subseteq Block
  BY <1>1, LinkReadsType, CachedType DEF Link, TypeOK
<1>6. byid' \subseteq Submitted /\ genesis' = genesis
  BY DEF Link, PoolRemove, TypeOK
<1>7. QED BY <1>1, <1>3, <1>4, <1>5, <1>6, WriteIndexType DEF Link, TypeOK

LEMMA LinkAbortsType ==
    ASSUME TypeOK, NEW b \in Block, LinkAborts(b)
    PROVE  TypeOK'
<1>1. NextHeight \in Height /\ LinkOk(b)
  BY DEF LinkAborts, Room
<1>2. BlockData[b].len \in Nat /\ BlockData[b].revlen \in Nat
  BY BlockFacts
<1>3. IsStore(blk, Block) /\ IsStore(rev, Undo) /\ UndoOf(b) \in Undo
  BY <1>1, UndoOfType DEF TypeOK
<1>4. IsStore(blk', Block) /\ IsStore(rev', Undo)
  <2>1. CASE /\ \E k \in 0..(BlockData[b].len - 1) : blk' = Torn(blk, b, BlockData[b].len, k)
             /\ UNCHANGED rev
    <3>1. PICK k \in 0..(BlockData[b].len - 1) : blk' = Torn(blk, b, BlockData[b].len, k)
      BY <2>1
    <3>2. k \in Nat
      BY <1>2
    <3>3. QED BY <1>2, <1>3, <2>1, <3>1, <3>2, TornFacts
  <2>2. CASE /\ blk' = Pushed(blk, b, BlockData[b].len)
             /\ \E k \in 0..BlockData[b].revlen :
                   rev' = Torn(rev, UndoOf(b), BlockData[b].revlen, k)
    <3>1. PICK k \in 0..BlockData[b].revlen :
             rev' = Torn(rev, UndoOf(b), BlockData[b].revlen, k)
      BY <2>2
    <3>2. k \in Nat
      BY <1>2
    <3>3. IsStore(rev', Undo)
      BY <1>2, <1>3, <3>1, <3>2, TornFacts
    <3>4. QED BY <1>2, <1>3, <2>2, <3>3, PushFacts
  <2>3. QED BY <2>1, <2>2 DEF LinkAborts
<1>5. cache' \subseteq Block
  BY <1>1, LinkReadsType, CachedType DEF LinkAborts, TypeOK
<1>6. UNCHANGED <<genesis, dbVars, byid, byfee>>
  BY DEF LinkAborts
<1>7. QED BY <1>4, <1>5, <1>6 DEF TypeOK, dbVars

(* What pop reads back of the undo data is some undo batch. *)
LEMMA PopReadsUndo ==
    ASSUME TypeOK, best # NoBest, battr[best.id] # NoAttr, Readable(rev, battr[best.id].rev)
    PROVE  Unpacked(rev, battr[best.id].rev) \in Undo
<1>1. best.id \in Block
  BY DEF TypeOK, Best
<1>2. battr[best.id].rev \in Attr
  BY <1>1 DEF TypeOK, BlkAttr
<1>3. QED BY <1>2, PullFacts, IndexerAssumption DEF TypeOK, Readable, Unpacked

LEMMA PopType == TypeOK /\ Pop => TypeOK'
<1> SUFFICES ASSUME TypeOK, Pop PROVE TypeOK'
  OBVIOUS
<1> DEFINE u == Unpacked(rev, battr[best.id].rev)
<1>1. best # NoBest /\ battr[best.id] # NoAttr /\ Readable(rev, battr[best.id].rev)
      /\ WriteUndo(u)
  BY DEF Pop
<1>2. u \in Undo
  BY <1>1, PopReadsUndo
<1> HIDE DEF u
<1>3. u.best \in Best \cup {NoBest} /\ u.height \in Height
      /\ u.spent \in [CoinKey -> CoinAttr \cup {NoCoin}]
  BY <1>2 DEF Undo
<1>4. best' \in Best \cup {NoBest}
  BY <1>1, <1>3 DEF WriteUndo
<1>5. hidx' \in [Height -> Block \cup {NoBlock}]
  BY <1>1, <1>3 DEF WriteUndo, TypeOK
<1>6. tattr' \in [Tx -> TxAttr \cup {NoTxAttr}]
  BY <1>1 DEF WriteUndo, TypeOK
<1>7. coin' \in [CoinKey -> CoinAttr \cup {NoCoin}]
  BY <1>1, <1>3 DEF WriteUndo, TypeOK
<1>8. battr' \in [Block -> BlkAttr \cup {NoAttr}]
  BY DEF Pop, TypeOK
<1>9. QED BY <1>4, <1>5, <1>6, <1>7, <1>8 DEF Pop, TypeOK

LEMMA OtherTypes ==
    ASSUME TypeOK
    PROVE  /\ \A b \in Block : SetGenesis(b) => TypeOK'
           /\ \A t \in Submitted : AppendTx(t) => TypeOK'
           /\ \A t \in Submitted : RemoveTx(t) => TypeOK'
           /\ \A b \in Block : Get(b) => TypeOK'
           /\ \A b \in Block : \A a : Load(b, a) => TypeOK'
           /\ Restart => TypeOK'
           /\ PopAborts => TypeOK'
           /\ UNCHANGED vars => TypeOK'
<1>1. ASSUME NEW b \in Block, SetGenesis(b) PROVE TypeOK'
  BY <1>1 DEF SetGenesis, dbVars, TypeOK
<1>2. ASSUME NEW t \in Submitted, AppendTx(t) PROVE TypeOK'
  <2>1. cache' \subseteq Block
    BY <1>2, TxReadsType, CachedType DEF AppendTx, TypeOK
  <2>2. byid' \subseteq Submitted
    BY <1>2 DEF AppendTx, AddToPool, PoolPush, TypeOK
  <2>3. QED BY <1>2, <2>1, <2>2 DEF AppendTx, dbVars, TypeOK
<1>3. ASSUME NEW t \in Submitted, RemoveTx(t) PROVE TypeOK'
  BY <1>3 DEF RemoveTx, DropFromPool, PoolRemove, dbVars, TypeOK
<1>4. ASSUME NEW b \in Block, Get(b) PROVE TypeOK'
  <2>1. cache' \subseteq Block
    BY <1>4, CachedType DEF Get, TypeOK
  <2>2. QED BY <1>4, <2>1 DEF Get, dbVars, TypeOK
<1>5. ASSUME NEW b \in Block, NEW a, Load(b, a) PROVE TypeOK'
  <2>1. cache' \subseteq Block
    BY <1>5, CachedType DEF Load, TypeOK
  <2>2. QED BY <1>5, <2>1 DEF Load, dbVars, TypeOK
<1>6. ASSUME Restart PROVE TypeOK'
  BY <1>6, ReopenFacts, IndexerAssumption DEF Restart, dbVars, TypeOK
<1>7. ASSUME PopAborts PROVE TypeOK'
  BY <1>7 DEF PopAborts, dbVars, TypeOK
<1>8. ASSUME UNCHANGED vars PROVE TypeOK'
  BY <1>8 DEF vars, TypeOK
<1>9. QED BY <1>1, <1>2, <1>3, <1>4, <1>5, <1>6, <1>7, <1>8

LEMMA NextType == TypeOK /\ [Next]_vars => TypeOK'
<1>1. Aborting \subseteq Block /\ Chosen \subseteq Block
  BY IndexerAssumption
<1>2. QED BY <1>1, LinkType, LinkAbortsType, PopType, OtherTypes DEF Next

(* The database, the files, the cache and the pool keep their types: what   *)
(* pop writes back is always an undo batch, whatever was torn before.       *)
THEOREM TypeCorrect == Spec => []TypeOK
<1>1. Init => TypeOK
  BY InitType
<1>2. TypeOK /\ [Next]_vars => TypeOK'
  BY NextType
<1>3. QED BY <1>1, <1>2, PTL DEF Spec

-----------------------------------------------------------------------------
(***************************************************************************)
(* The chain in the database, and how to undo it.                          *)
(***************************************************************************)
(* The properties are inductive together.  To link a block exactly, the     *)
(* coins it spends must be those of the chain below (CoinsExact); to pop    *)
(* one, its undo batch must lead there (UndoOnDisk); and that the batch     *)
(* written when a block was linked still does needs every coin a block      *)
(* spends to have been made below it (SpentOnceAndMature).                  *)
IndexInv ==
    /\ TypeOK /\ ChainShape /\ TxIndexExact /\ CoinsExact /\ SpentOnceAndMature
    /\ UndoOnDisk /\ PoolNotLinked

-----------------------------------------------------------------------------
(* What the invariant says of one block and of one transaction. *)
LEMMA TopFacts ==
    ASSUME TypeOK, ChainShape, best # NoBest
    PROVE  /\ best.id \in Block /\ best.height \in Height
           /\ best = [id |-> best.id, height |-> best.height]
           /\ OnChain(best.id) /\ battr[best.id].height = best.height
           /\ hidx[best.height] = best.id
<1>1. best \in Best
  BY DEF TypeOK
<1>2. best.id \in Block /\ best.height \in Height
      /\ best = [id |-> best.id, height |-> best.height]
  BY <1>1 DEF Best
<1>3. hidx[best.height] = best.id
  BY DEF ChainShape
<1>4. QED BY <1>2, <1>3 DEF ChainShape

LEMMA BlockHeight ==
    ASSUME TypeOK, ChainShape, NEW b \in Block, OnChain(b)
    PROVE  /\ battr[b] \in BlkAttr /\ battr[b].height \in Height
           /\ battr[b].blk \in Attr /\ battr[b].rev \in Attr
           /\ hidx[battr[b].height] = b
           /\ best # NoBest /\ battr[b].height <= best.height
           /\ battr[b].height = best.height => b = best.id
<1>1. battr[b] \in BlkAttr
  BY DEF TypeOK, OnChain
<1>2. battr[b].height \in Height /\ battr[b].blk \in Attr /\ battr[b].rev \in Attr
  BY <1>1 DEF BlkAttr
<1>3. hidx[battr[b].height] = b
  BY <1>2 DEF ChainShape
<1>4. b # NoBlock
  BY BlocksAssumption
<1>5. best # NoBest /\ battr[b].height <= best.height
  BY <1>2, <1>3, <1>4 DEF ChainShape
<1>6. battr[b].height = best.height => b = best.id
  BY <1>3, <1>5 DEF ChainShape
<1>7. QED BY <1>1, <1>2, <1>3, <1>5, <1>6

LEMMA LinkedTx ==
    ASSUME TypeOK, ChainShape, TxIndexExact, NEW t \in Linked
    PROVE  /\ t \in Tx /\ tattr[t].blk \in Block /\ OnChain(tattr[t].blk)
           /\ t \in BlockTxs(tattr[t].blk)
           /\ HeightOf(t) \in Height /\ best # NoBest /\ HeightOf(t) <= best.height
<1>1. t \in Tx /\ tattr[t] # NoTxAttr
  BY DEF Linked
<1>2. tattr[t].blk \in Block
  BY <1>1, IndexedBlock
<1>3. OnChain(tattr[t].blk) /\ t \in BlockTxs(tattr[t].blk)
  BY DEF TxIndexExact
<1>4. QED BY <1>1, <1>2, <1>3, BlockHeight DEF HeightOf

LEMMA TxOfBlock ==
    ASSUME TypeOK, TxIndexExact, NEW b \in Block, OnChain(b), NEW t \in BlockTxs(b)
    PROVE  t \in Linked /\ tattr[t].blk = b /\ HeightOf(t) = battr[b].height
<1>1. PICK i \in DOMAIN Txs(b) : Txs(b)[i] = t
  BY DEF BlockTxs
<1>2. tattr[t] = [blk |-> b, idx |-> i]
  BY <1>1 DEF TxIndexExact
<1>3. t \in Tx /\ i \in Nat
  BY <1>1, BlockFacts
<1>4. [blk |-> b, idx |-> i] \in TxAttr
  BY <1>3 DEF TxAttr
<1>5. tattr[t] # NoTxAttr
  BY <1>2, <1>4, IndexerAssumption
<1>6. QED BY <1>2, <1>3, <1>5 DEF Linked, HeightOf

LEMMA NextHeightFacts ==
    ASSUME TypeOK, ChainShape
    PROVE  /\ NextHeight \in Nat
           /\ best # NoBest => NextHeight = best.height + 1 /\ best.height \in Height
           /\ best = NoBest => NextHeight = 0
BY TopFacts DEF NextHeight, Height

(* A coin in the database: made by the chain and not spent by it. *)
LEMMA CoinOfChain ==
    ASSUME CoinsExact, NEW k \in CoinKey, coin[k] # NoCoin
    PROVE  /\ k[1] \in Linked /\ \A t \in Linked : k \notin Spends(t)
           /\ coin[k] = MadeCoin(k, HeightOf(k[1]))
BY DEF CoinsExact

(* What get returns for a block of the chain is that block. *)
LEMMA GetsBlock ==
    ASSUME TypeOK, ChainShape, UndoOnDisk, NEW b \in Block, OnChain(b), CanGet(b)
    PROVE  GetBlock(b) = b
<1>1. CASE b \in cache
  BY <1>1 DEF GetBlock
<1>2. CASE b \notin cache
  <2>1. Readable(blk, battr[b].blk) /\ battr[b].blk \in Attr
    BY <1>2, BlockHeight DEF CanGet
  <2>2. OnDisk(blk, battr[b].blk, b)
    BY DEF UndoOnDisk
  <2>3. IsStore(blk, Block)
    BY DEF TypeOK
  <2>4. QED BY <1>2, <2>1, <2>2, <2>3, PullFacts, IndexerAssumption DEF GetBlock, Unpacked, Readable
<1>3. QED BY <1>1, <1>2

-----------------------------------------------------------------------------
(* What the contents of a block that passes check_value are like. *)
LEMMA FirstInput ==
    ASSUME NEW t \in Tx, TxCheckValue(t)
    PROVE  1 \in DOMAIN Ins(t)
<1>1. Ins(t) \in Seq(TxIn) /\ Ins(t) # <<>>
  BY BlocksAssumption DEF Ins, TxCheckValue
<1>2. QED BY <1>1

LEMMA DistinctTxs ==
    ASSUME NEW b \in Block, BlockCheckValue(b),
           NEW m \in DOMAIN Txs(b), NEW n \in DOMAIN Txs(b), Txs(b)[m] = Txs(b)[n]
    PROVE  m = n
<1>1. Txs(b)[m] \in BlockTxs(b) /\ Txs(b)[m] \in Tx
  BY BlockFacts DEF BlockTxs
<1>2. 1 \in DOMAIN Ins(Txs(b)[m])
  BY <1>1, FirstInput DEF BlockCheckValue
<1>3. CheckRepCostCoin(b)
  BY DEF BlockCheckValue
<1>4. SUFFICES ASSUME m # n PROVE FALSE
  OBVIOUS
<1>5. <<m, 1>> # <<n, 1>>
  BY <1>4
<1>6. QED BY <1>2, <1>3, <1>5 DEF CheckRepCostCoin

LEMMA SpendsApart ==
    ASSUME NEW b \in Block, BlockCheckValue(b),
           NEW t \in BlockTxs(b), NEW u \in BlockTxs(b), t # u, NEW k \in Spends(t)
    PROVE  k \notin Spends(u)
<1>1. SUFFICES ASSUME k \in Spends(u) PROVE FALSE
  OBVIOUS
<1>2. PICK m \in DOMAIN Txs(b) : Txs(b)[m] = t
  BY DEF BlockTxs
<1>3. PICK n \in DOMAIN Txs(b) : Txs(b)[n] = u
  BY DEF BlockTxs
<1>4. PICK i \in CostIns(t) : k = OutKey(Ins(t)[i])
  BY DEF Spends
<1>5. PICK j \in CostIns(u) : k = OutKey(Ins(u)[j])
  BY <1>1 DEF Spends
<1>6. i \in DOMAIN Ins(t) /\ j \in DOMAIN Ins(u) /\ m # n
  BY <1>2, <1>3 DEF CostIns
<1>7. <<m, i>> # <<n, j>>
  BY <1>6
<1>8. CheckRepCostCoin(b)
  BY DEF BlockCheckValue
<1>9. QED BY <1>2, <1>3, <1>4, <1>5, <1>6, <1>7, <1>8 DEF CheckRepCostCoin

-----------------------------------------------------------------------------
(* link: what it writes, in the terms of the invariant. *)
LEMMA LinkEffect ==
    ASSUME IndexInv, NEW b \in Block, Link(b)
    PROVE  /\ LinkOk(b) /\ BlockCheckValue(b) /\ NextHeight \in Height
           /\ ~OnChain(b) /\ OnChain(b)'
           /\ battr'[b] = [height |-> NextHeight, blk |-> PushAttr(blk, BlockData[b].len),
                           rev |-> PushAttr(rev, BlockData[b].revlen)]
           /\ \A c \in Block : c # b => battr'[c] = battr[c]
           /\ best' = [id |-> b, height |-> NextHeight]
           /\ hidx' = [hidx EXCEPT ![NextHeight] = b]
           /\ \A t \in BlockTxs(b) :
                 t \in Tx /\ t \notin Linked /\ tattr'[t] = [blk |-> b, idx |-> PosOf(b, t)]
           /\ \A t \in Tx \ BlockTxs(b) : tattr'[t] = tattr[t]
           /\ Linked' = Linked \cup BlockTxs(b)
           /\ \A t \in Linked : HeightOf(t)' = HeightOf(t)
           /\ \A t \in BlockTxs(b) : HeightOf(t)' = NextHeight
<1>1. LinkOk(b) /\ NextHeight \in Height /\ WriteIndex(b) /\ TypeOK
  BY DEF Link, Room, IndexInv
<1>2. BlockCheckValue(b) /\ battr[b] = NoAttr /\ \A t \in BlockTxs(b) : tattr[t] = NoTxAttr
  BY <1>1 DEF LinkOk
<1>3. BlockTxs(b) \subseteq Tx
  BY BlockFacts
<1> DEFINE a == [height |-> NextHeight, blk |-> PushAttr(blk, BlockData[b].len),
                 rev |-> PushAttr(rev, BlockData[b].revlen)]
<1>4. battr' = [battr EXCEPT ![b] = a]
  BY <1>1 DEF WriteIndex
<1>5. battr' \in [Block -> BlkAttr \cup {NoAttr}] /\ battr \in [Block -> BlkAttr \cup {NoAttr}]
  BY <1>1, WriteIndexType DEF TypeOK
<1>6. battr'[b] = a /\ a # NoAttr
  <2>1. BlockData[b].len \in Nat /\ BlockData[b].revlen \in Nat
    BY BlockFacts
  <2>2. PushAttr(blk, BlockData[b].len) \in Attr
    BY <1>1, <2>1, PushFacts DEF TypeOK
  <2>3. PushAttr(rev, BlockData[b].revlen) \in Attr
    BY <1>1, <2>1, PushFacts, UndoOfType DEF TypeOK
  <2>4. a \in BlkAttr
    BY <1>1, <2>2, <2>3 DEF BlkAttr
  <2>5. QED BY <1>4, <1>5, <2>4, IndexerAssumption
<1>7. \A c \in Block : c # b => battr'[c] = battr[c]
  BY <1>4, <1>5
<1>8. ~OnChain(b) /\ OnChain(b)'
  BY <1>2, <1>6 DEF OnChain
<1>9. \A t \in BlockTxs(b) : tattr'[t] = [blk |-> b, idx |-> PosOf(b, t)]
  BY <1>1, <1>3 DEF WriteIndex
<1>10. \A t \in Tx \ BlockTxs(b) : tattr'[t] = tattr[t]
  BY <1>1 DEF WriteIndex
<1>11. \A t \in BlockTxs(b) : t \in Tx /\ t \notin Linked /\ tattr'[t] # NoTxAttr
  <2>1. ASSUME NEW t \in BlockTxs(b) PROVE [blk |-> b, idx |-> PosOf(b, t)] \in TxAttr
    BY PosOfFacts DEF TxAttr
  <2>2. QED BY <1>2, <1>3, <1>9, <2>1, IndexerAssumption DEF Linked
<1>12. Linked' = Linked \cup BlockTxs(b)
  BY <1>3, <1>10, <1>11 DEF Linked
<1>13. ASSUME NEW t \in BlockTxs(b) PROVE HeightOf(t)' = NextHeight
  <2> DEFINE x == [blk |-> b, idx |-> PosOf(b, t)]
  <2>1. tattr'[t] = x /\ x.blk = b
    BY <1>9
  <2>2. tattr'[t].blk = b
    BY <2>1
  <2>3. battr'[b].height = NextHeight
    BY <1>6
  <2>4. QED BY <2>2, <2>3 DEF HeightOf
<1>14. ASSUME NEW t \in Linked PROVE HeightOf(t)' = HeightOf(t)
  <2>1. t \in Tx /\ tattr[t].blk \in Block /\ OnChain(tattr[t].blk)
    BY LinkedTx DEF IndexInv
  <2>2. t \notin BlockTxs(b)
    BY <1>11
  <2>3. tattr'[t] = tattr[t] /\ tattr[t].blk # b
    BY <1>8, <1>10, <2>1, <2>2
  <2>4. QED BY <1>7, <2>1, <2>3 DEF HeightOf
<1>15. best' = [id |-> b, height |-> NextHeight] /\ hidx' = [hidx EXCEPT ![NextHeight] = b]
  BY <1>1 DEF WriteIndex
<1>16. QED
  BY <1>1, <1>2, <1>6, <1>7, <1>8, <1>9, <1>10, <1>11, <1>12, <1>13, <1>14, <1>15

LEMMA LinkChain ==
    ASSUME IndexInv, NEW b \in Block, Link(b)
    PROVE  ChainShape'
<1>1. /\ LinkOk(b) /\ NextHeight \in Height /\ ~OnChain(b) /\ OnChain(b)'
      /\ battr'[b].height = NextHeight
      /\ \A c \in Block : c # b => battr'[c] = battr[c]
      /\ best' = [id |-> b, height |-> NextHeight]
      /\ hidx' = [hidx EXCEPT ![NextHeight] = b]
  <2>1. battr'[b] = [height |-> NextHeight, blk |-> PushAttr(blk, BlockData[b].len),
                    rev |-> PushAttr(rev, BlockData[b].revlen)]
    BY LinkEffect
  <2>2. battr'[b].height = NextHeight
    BY <2>1
  <2>3. QED BY <2>2, LinkEffect
<1>2. TypeOK /\ ChainShape /\ UndoOnDisk
  BY DEF IndexInv
<1>3. hidx \in [Height -> Block \cup {NoBlock}] /\ NoBlock \notin Block
  BY <1>2, BlocksAssumption DEF TypeOK
<1>4. best' # NoBest /\ best'.height = NextHeight /\ best'.id = b
  <2>1. [id |-> b, height |-> NextHeight] \in Best
    BY <1>1 DEF Best
  <2>2. QED BY <1>1, <2>1, IndexerAssumption
<1>5. hidx'[NextHeight] = b /\ \A h \in Height : h # NextHeight => hidx'[h] = hidx[h]
  BY <1>1, <1>3
<1>6. \A h \in Height : hidx[h] # NoBlock <=> h < NextHeight
  BY <1>2, NextHeightFacts DEF ChainShape, Height
<1>7. \A h \in Height : hidx'[h] # NoBlock <=> (best' # NoBest /\ h <= best'.height)
  BY <1>1, <1>3, <1>4, <1>5, <1>6 DEF Height
<1>8. ASSUME NEW h \in Height, h > 0, hidx'[h] # NoBlock
      PROVE  Prev(hidx'[h]) = hidx'[h - 1]
  <2>1. h - 1 \in Height /\ h \in Nat
    BY <1>8, IndexerAssumption DEF Height
  <2>2. h <= NextHeight /\ NextHeight \in Nat
    BY <1>4, <1>7, <1>8, <1>1 DEF Height
  <2>3. CASE h = NextHeight
    <3>1. best # NoBest /\ best.height = h - 1
      BY <1>2, <1>8, <2>1, <2>3, NextHeightFacts DEF Height
    <3>2. Prev(b) = GetBlock(best.id) /\ CanGet(best.id)
      BY <1>1, <3>1 DEF LinkOk
    <3>3. GetBlock(best.id) = best.id /\ hidx[best.height] = best.id
      BY <1>2, <3>1, <3>2, TopFacts, GetsBlock
    <3>4. QED BY <1>5, <2>1, <2>2, <2>3, <3>1, <3>2, <3>3
  <2>4. CASE h # NextHeight
    <3>1. hidx'[h] = hidx[h] /\ hidx'[h - 1] = hidx[h - 1]
      BY <1>5, <2>1, <2>2, <2>4
    <3>2. QED BY <1>2, <1>8, <3>1 DEF ChainShape
  <2>5. QED BY <2>3, <2>4
<1>9. ASSUME NEW c \in Block, NEW h \in Height
      PROVE  hidx'[h] = c <=> (OnChain(c)' /\ battr'[c].height = h)
  <2>1. hidx[h] = c <=> (OnChain(c) /\ battr[c].height = h)
    BY <1>2 DEF ChainShape
  <2>2. CASE c = b
    <3>1. hidx[h] # b
      BY <1>1, <2>1, <2>2
    <3>2. QED BY <1>1, <1>5, <2>2, <3>1
  <2>3. CASE c # b
    <3>1. OnChain(c)' <=> OnChain(c)
      BY <1>1, <2>3 DEF OnChain
    <3>2. CASE h = NextHeight
      <4>1. hidx[h] = NoBlock
        BY <1>6, <3>2 DEF Height
      <4>2. hidx[h] # c
        BY <4>1, <1>3
      <4>3. QED BY <1>1, <1>5, <2>1, <2>3, <3>1, <3>2, <4>2
    <3>3. CASE h # NextHeight
      BY <1>1, <1>5, <2>1, <2>3, <3>1, <3>3
    <3>4. QED BY <3>2, <3>3
  <2>4. QED BY <2>2, <2>3
<1>10. hidx'[best'.height] = best'.id
  BY <1>4, <1>5
<1>11. QED BY <1>7, <1>8, <1>9, <1>10 DEF ChainShape

LEMMA LinkTxIndex ==
    ASSUME IndexInv, NEW b \in Block, Link(b)
    PROVE  TxIndexExact'
<1>1. /\ BlockCheckValue(b) /\ ~OnChain(b) /\ OnChain(b)'
      /\ \A c \in Block : c # b => battr'[c] = battr[c]
      /\ \A t \in BlockTxs(b) : t \notin Linked /\ tattr'[t] = [blk |-> b, idx |-> PosOf(b, t)]
      /\ \A t \in Tx \ BlockTxs(b) : tattr'[t] = tattr[t]
      /\ Linked' = Linked \cup BlockTxs(b)
  BY LinkEffect
<1>2. TypeOK /\ ChainShape /\ TxIndexExact
  BY DEF IndexInv
<1>3. ASSUME NEW c \in Block, OnChain(c)', NEW i \in DOMAIN Txs(c)
      PROVE  tattr'[Txs(c)[i]] = [blk |-> c, idx |-> i]
  <2>1. Txs(c)[i] \in BlockTxs(c)
    BY DEF BlockTxs
  <2>2. CASE c = b
    <3>1. PosOf(b, Txs(b)[i]) = i
      BY <1>1, <2>1, <2>2, PosOfFacts, DistinctTxs
    <3>2. QED BY <1>1, <2>1, <2>2, <3>1
  <2>3. CASE c # b
    <3>1. OnChain(c)
      BY <1>1, <1>3, <2>3 DEF OnChain
    <3>2. Txs(c)[i] \in Linked /\ tattr[Txs(c)[i]] = [blk |-> c, idx |-> i]
      BY <1>2, <2>1, <3>1, TxOfBlock DEF TxIndexExact
    <3>3. Txs(c)[i] \in Tx \ BlockTxs(b)
      BY <1>1, <3>2 DEF Linked
    <3>4. QED BY <1>1, <3>2, <3>3
  <2>4. QED BY <2>2, <2>3
<1>4. ASSUME NEW t \in Linked'
      PROVE  (OnChain(tattr[t].blk) /\ t \in BlockTxs(tattr[t].blk))'
  <2>1. CASE t \in BlockTxs(b)
    <3> DEFINE x == [blk |-> b, idx |-> PosOf(b, t)]
    <3>1. tattr'[t] = x /\ x.blk = b
      BY <1>1, <2>1
    <3>2. tattr'[t].blk = b
      BY <3>1
    <3>3. QED BY <1>1, <2>1, <3>2 DEF OnChain
  <2>2. CASE t \notin BlockTxs(b)
    <3>1. t \in Linked
      BY <1>1, <2>2
    <3>2. t \in Tx /\ tattr[t].blk \in Block /\ OnChain(tattr[t].blk)
          /\ t \in BlockTxs(tattr[t].blk)
      BY <1>2, <3>1, LinkedTx
    <3>3. tattr'[t] = tattr[t] /\ tattr[t].blk # b
      BY <1>1, <2>2, <3>2
    <3>4. QED BY <1>1, <3>2, <3>3 DEF OnChain
  <2>3. QED BY <2>1, <2>2
<1>5. QED BY <1>3, <1>4 DEF TxIndexExact

(* Every coin the block spends is unspent below it and mature. *)
LEMMA LinkSpends ==
    ASSUME IndexInv, NEW b \in Block, LinkOk(b),
           NEW t \in BlockTxs(b), NEW k \in Spends(t)
    PROVE  /\ k \in CoinKey /\ k[1] \in Linked
           /\ \A u \in Linked : k \notin Spends(u)
           /\ coin[k] = MadeCoin(k, HeightOf(k[1]))
           /\ HeightOf(k[1]) < NextHeight
           /\ IsCoinbase(k[1]) => NextHeight - HeightOf(k[1]) >= Maturity
<1>1. PICK i \in CostIns(t) : k = OutKey(Ins(t)[i])
  BY DEF Spends
<1>2. SpendOk(Ins(t)[i], NextHeight)
  BY DEF LinkOk, CheckBlockAmount, CheckTxAmount
<1>3. k \in CoinKey /\ coin[k] # NoCoin /\ IsValidCoin(coin[k], NextHeight)
  BY <1>1, <1>2 DEF SpendOk, HasCoin
<1>4. k[1] \in Linked /\ (\A u \in Linked : k \notin Spends(u))
      /\ coin[k] = MadeCoin(k, HeightOf(k[1]))
  BY <1>3, CoinOfChain DEF IndexInv
<1>5. HeightOf(k[1]) \in Nat /\ HeightOf(k[1]) < NextHeight /\ NextHeight \in Nat
  BY <1>4, LinkedTx, NextHeightFacts DEF IndexInv, Height
<1>6. ASSUME IsCoinbase(k[1]) PROVE NextHeight - HeightOf(k[1]) >= Maturity
  <2>1. coin[k].cb /\ coin[k].height = HeightOf(k[1])
    BY <1>4, <1>6 DEF MadeCoin
  <2>2. QED BY <1>3, <1>5, <2>1 DEF IsValidCoin
<1>7. QED BY <1>3, <1>4, <1>5, <1>6

LEMMA LinkCoins ==
    ASSUME IndexInv, NEW b \in Block, Link(b)
    PROVE  CoinsExact'
<1>1. /\ LinkOk(b)
      /\ \A t \in BlockTxs(b) : t \in Tx /\ t \notin Linked
      /\ Linked' = Linked \cup BlockTxs(b)
      /\ \A t \in Linked : HeightOf(t)' = HeightOf(t)
      /\ \A t \in BlockTxs(b) : HeightOf(t)' = NextHeight
  BY LinkEffect
<1>2. coin' = [k \in CoinKey |-> IF k \in BlockMakes(b) THEN MadeCoin(k, NextHeight)
                                ELSE IF k \in BlockSpends(b) THEN NoCoin ELSE coin[k]]
  BY DEF Link, WriteIndex
<1>3. CoinsExact /\ SpentOnceAndMature
  BY DEF IndexInv
<1>4. SUFFICES ASSUME NEW k \in CoinKey
               PROVE  coin'[k] = IF k[1] \in Linked' /\ \A t \in Linked' : k \notin Spends(t)
                                 THEN MadeCoin(k, HeightOf(k[1])') ELSE NoCoin
  BY DEF CoinsExact, MadeCoin
<1>5. CASE k \in BlockMakes(b)
  <2>1. k[1] \in BlockTxs(b)
    BY <1>5, BlockKeyFacts
  <2>2. ASSUME NEW t \in Linked', k \in Spends(t) PROVE FALSE
    <3>1. k[1] \in Linked
      BY <1>1, <1>3, <2>2, LinkSpends DEF SpentOnceAndMature
    <3>2. QED BY <1>1, <2>1, <3>1
  <2>3. QED BY <1>1, <1>2, <1>5, <2>1, <2>2
<1>6. CASE k \notin BlockMakes(b) /\ k \in BlockSpends(b)
  <2>1. \E t \in Linked' : k \in Spends(t)
    BY <1>1, <1>6 DEF BlockSpends
  <2>2. QED BY <1>2, <1>6, <2>1
<1>7. CASE k \notin BlockMakes(b) /\ k \notin BlockSpends(b)
  <2>1. k[1] \notin BlockTxs(b)
    BY <1>7, BlockKeyFacts
  <2>2. \A t \in BlockTxs(b) : k \notin Spends(t)
    BY <1>7 DEF BlockSpends
  <2>3. k[1] \in Linked' <=> k[1] \in Linked
    BY <1>1, <2>1
  <2>4. (\A t \in Linked' : k \notin Spends(t)) <=> (\A t \in Linked : k \notin Spends(t))
    BY <1>1, <2>2
  <2>5. k[1] \in Linked => HeightOf(k[1])' = HeightOf(k[1])
    BY <1>1
  <2>6. coin'[k] = coin[k]
    BY <1>2, <1>7
  <2>7. coin[k] = IF k[1] \in Linked /\ \A t \in Linked : k \notin Spends(t)
                  THEN MadeCoin(k, HeightOf(k[1])) ELSE NoCoin
    BY <1>3 DEF CoinsExact
  <2>8. QED BY <2>3, <2>4, <2>5, <2>6, <2>7
<1>8. QED BY <1>5, <1>6, <1>7

LEMMA LinkSpent ==
    ASSUME IndexInv, NEW b \in Block, Link(b)
    PROVE  SpentOnceAndMature'
<1>1. /\ LinkOk(b) /\ BlockCheckValue(b)
      /\ \A t \in BlockTxs(b) : t \in Tx /\ t \notin Linked
      /\ Linked' = Linked \cup BlockTxs(b)
      /\ \A t \in Linked : HeightOf(t)' = HeightOf(t)
      /\ \A t \in BlockTxs(b) : HeightOf(t)' = NextHeight
  BY LinkEffect
<1>2. SpentOnceAndMature
  BY DEF IndexInv
<1>3. SUFFICES ASSUME NEW t \in Linked', NEW k \in Spends(t)
               PROVE  /\ k[1] \in Linked' /\ HeightOf(k[1])' < HeightOf(t)'
                      /\ IsCoinbase(k[1]) => HeightOf(t)' - HeightOf(k[1])' >= Maturity
                      /\ \A u \in Linked' \ {t} : k \notin Spends(u)
  BY DEF SpentOnceAndMature
<1>4. CASE t \in Linked
  <2>1. /\ k[1] \in Linked /\ HeightOf(k[1]) < HeightOf(t)
        /\ IsCoinbase(k[1]) => HeightOf(t) - HeightOf(k[1]) >= Maturity
        /\ \A u \in Linked \ {t} : k \notin Spends(u)
    BY <1>2, <1>4 DEF SpentOnceAndMature
  <2>2. \A u \in BlockTxs(b) : k \notin Spends(u)
    BY <1>1, <1>4, LinkSpends
  <2>3. QED BY <1>1, <1>4, <2>1, <2>2
<1>5. CASE t \in BlockTxs(b)
  <2>1. /\ k[1] \in Linked /\ HeightOf(k[1]) < NextHeight
        /\ IsCoinbase(k[1]) => NextHeight - HeightOf(k[1]) >= Maturity
        /\ \A u \in Linked : k \notin Spends(u)
    BY <1>1, <1>5, LinkSpends
  <2>2. \A u \in BlockTxs(b) \ {t} : k \notin Spends(u)
    BY <1>1, <1>5, SpendsApart
  <2>3. QED BY <1>1, <1>5, <2>1, <2>2
<1>6. QED BY <1>1, <1>4, <1>5

(* The undo batch of a block is the same as long as the chain below it is.  *)
LEMMA UndoForStays ==
    ASSUME IndexInv, NEW c \in Block, OnChain(c), battr'[c] = battr[c],
           \A h \in Height : h < battr[c].height => hidx'[h] = hidx[h],
           \A t \in Linked : HeightOf(t) < battr[c].height => HeightOf(t)' = HeightOf(t)
    PROVE  UndoFor(c)' = UndoFor(c)
<1> DEFINE h == battr[c].height
           below == IF h = 0 THEN NoBest ELSE [id |-> hidx[h - 1], height |-> h - 1]
           S == [k \in CoinKey |-> IF k \in BlockSpends(c)
                                   THEN MadeCoin(k, HeightOf(k[1])) ELSE NoCoin]
<1>1. TypeOK /\ ChainShape /\ TxIndexExact /\ SpentOnceAndMature
  BY DEF IndexInv
<1>2. h \in Height /\ h \in Nat
  BY <1>1, BlockHeight DEF Height
<1>3. below' = below
  <2>1. CASE h = 0
    BY <2>1
  <2>2. CASE h # 0
    <3>1. h - 1 \in Height /\ h - 1 < h
      BY <1>2, <2>2, IndexerAssumption DEF Height
    <3>2. hidx'[h - 1] = hidx[h - 1]
      BY <3>1
    <3>3. QED BY <3>2
  <2>3. QED BY <2>1, <2>2
<1>4. \A k \in BlockSpends(c) : HeightOf(k[1])' = HeightOf(k[1])
  <2>1. SUFFICES ASSUME NEW k \in BlockSpends(c)
                 PROVE  HeightOf(k[1])' = HeightOf(k[1])
    OBVIOUS
  <2>2. PICK t \in BlockTxs(c) : k \in Spends(t)
    BY DEF BlockSpends
  <2>3. t \in Linked /\ HeightOf(t) = h
    BY <1>1, TxOfBlock
  <2>4. k[1] \in Linked /\ HeightOf(k[1]) < HeightOf(t)
    BY <1>1, <2>2, <2>3 DEF SpentOnceAndMature
  <2>5. QED BY <2>3, <2>4
<1>5. S' = S
  BY <1>4 DEF MadeCoin
<1>6. UndoFor(c) = [best |-> below, height |-> h, txs |-> BlockTxs(c),
                    made |-> BlockMakes(c), spent |-> S]
  BY DEF UndoFor
<1>7. UndoFor(c)' = [best |-> below', height |-> h, txs |-> BlockTxs(c),
                     made |-> BlockMakes(c), spent |-> S']
  BY DEF UndoFor
<1>8. QED BY <1>3, <1>5, <1>6, <1>7

(* The batch link writes to the undo data is the one of the block linked.   *)
LEMMA LinkUndoFor ==
    ASSUME IndexInv, NEW b \in Block, Link(b)
    PROVE  UndoFor(b)' = UndoOf(b)
<1>1. /\ LinkOk(b) /\ NextHeight \in Height
      /\ hidx' = [hidx EXCEPT ![NextHeight] = b]
      /\ \A t \in Linked : HeightOf(t)' = HeightOf(t)
      /\ battr'[b] = [height |-> NextHeight, blk |-> PushAttr(blk, BlockData[b].len),
                      rev |-> PushAttr(rev, BlockData[b].revlen)]
  BY LinkEffect
<1>2. battr'[b].height = NextHeight
  BY <1>1
<1>3. TypeOK /\ ChainShape
  BY DEF IndexInv
<1> DEFINE h == NextHeight
           below == IF h = 0 THEN NoBest ELSE [id |-> hidx'[h - 1], height |-> h - 1]
           S == [k \in CoinKey |-> IF k \in BlockSpends(b) THEN coin[k] ELSE NoCoin]
           T == [k \in CoinKey |-> IF k \in BlockSpends(b)
                                   THEN MadeCoin(k, HeightOf(k[1])') ELSE NoCoin]
<1>4. below = best
  <2>1. CASE best = NoBest
    BY <1>3, <2>1, NextHeightFacts
  <2>2. CASE best # NoBest
    <3>1. h = best.height + 1 /\ best.height \in Height /\ best.height \in Nat
      BY <1>3, <2>2, NextHeightFacts DEF Height
    <3>2. hidx[best.height] = best.id /\ best = [id |-> best.id, height |-> best.height]
      BY <1>3, <2>2, TopFacts
    <3>3. hidx \in [Height -> Block \cup {NoBlock}]
      BY <1>3 DEF TypeOK
    <3>4. h - 1 = best.height /\ h # 0 /\ hidx'[best.height] = hidx[best.height]
      BY <1>1, <3>1, <3>3
    <3>5. QED BY <3>2, <3>4
  <2>3. QED BY <2>1, <2>2
<1>5. T = S
  <2>1. ASSUME NEW k \in BlockSpends(b) PROVE coin[k] = MadeCoin(k, HeightOf(k[1])')
    <3>1. PICK t \in BlockTxs(b) : k \in Spends(t)
      BY DEF BlockSpends
    <3>2. k[1] \in Linked /\ coin[k] = MadeCoin(k, HeightOf(k[1]))
      BY <1>1, <3>1, LinkSpends
    <3>3. QED BY <1>1, <3>2
  <2>2. QED BY <2>1
<1>6. UndoFor(b)' = [best |-> below, height |-> h, txs |-> BlockTxs(b),
                     made |-> BlockMakes(b), spent |-> T]
  BY <1>2 DEF UndoFor, MadeCoin
<1>7. UndoOf(b) = [best |-> best, height |-> h, txs |-> BlockTxs(b),
                   made |-> BlockMakes(b), spent |-> S]
  BY DEF UndoOf
<1>8. QED BY <1>4, <1>5, <1>6, <1>7

LEMMA LinkUndo ==
    ASSUME IndexInv, NEW b \in Block, Link(b)
    PROVE  UndoOnDisk'
<1>1. /\ NextHeight \in Height
      /\ battr'[b] = [height |-> NextHeight, blk |-> PushAttr(blk, BlockData[b].len),
                      rev |-> PushAttr(rev, BlockData[b].revlen)]
      /\ \A c \in Block : c # b => battr'[c] = battr[c]
      /\ hidx' = [hidx EXCEPT ![NextHeight] = b]
      /\ \A t \in Linked : HeightOf(t)' = HeightOf(t)
  BY LinkEffect
<1>2. TypeOK /\ ChainShape /\ UndoOnDisk /\ IsStore(blk, Block) /\ IsStore(rev, Undo)
  BY DEF IndexInv, TypeOK
<1>3. BlockData[b].len \in Nat /\ BlockData[b].revlen \in Nat /\ UndoOf(b) \in Undo
  BY <1>1, <1>2, BlockFacts, UndoOfType
<1>4. blk' = Pushed(blk, b, BlockData[b].len) /\ rev' = Pushed(rev, UndoOf(b), BlockData[b].revlen)
  BY DEF Link
<1>5. /\ OnDisk(blk', PushAttr(blk, BlockData[b].len), b)
      /\ \A x \in Attr : \A y : OnDisk(blk, x, y) => OnDisk(blk', x, y)
  BY <1>2, <1>3, <1>4, PushFacts
<1>6. /\ OnDisk(rev', PushAttr(rev, BlockData[b].revlen), UndoOf(b))
      /\ \A x \in Attr : \A y : OnDisk(rev, x, y) => OnDisk(rev', x, y)
  BY <1>2, <1>3, <1>4, PushFacts
<1>7. SUFFICES ASSUME NEW c \in Block, OnChain(c)'
               PROVE  /\ OnDisk(blk', battr'[c].blk, c)
                      /\ OnDisk(rev', battr'[c].rev, UndoFor(c)')
  BY DEF UndoOnDisk, OnDisk
<1>8. CASE c = b
  <2>1. battr'[b].blk = PushAttr(blk, BlockData[b].len)
        /\ battr'[b].rev = PushAttr(rev, BlockData[b].revlen)
    BY <1>1
  <2>2. QED BY <1>5, <1>6, <1>8, <2>1, LinkUndoFor
<1>9. CASE c # b
  <2>1. OnChain(c) /\ battr'[c] = battr[c]
    BY <1>1, <1>7, <1>9 DEF OnChain
  <2>2. /\ battr[c].blk \in Attr /\ battr[c].rev \in Attr /\ battr[c].height \in Nat
        /\ best # NoBest /\ battr[c].height <= best.height /\ best.height \in Nat
    BY <1>2, <2>1, BlockHeight, TopFacts DEF Height
  <2>3. \A h \in Height : h < battr[c].height => hidx'[h] = hidx[h]
    <3>1. hidx \in [Height -> Block \cup {NoBlock}] /\ NextHeight = best.height + 1
      BY <1>2, <2>2, NextHeightFacts DEF TypeOK
    <3>2. \A h \in Height : h \in Nat
      BY DEF Height
    <3>3. \A h \in Height : h < battr[c].height => h # NextHeight
      BY <2>2, <3>1, <3>2
    <3>4. QED BY <1>1, <3>1, <3>3
  <2>4. UndoFor(c)' = UndoFor(c)
    BY <1>1, <2>1, <2>3, UndoForStays
  <2>5. OnDisk(blk, battr[c].blk, c) /\ OnDisk(rev, battr[c].rev, UndoFor(c))
    BY <1>2, <2>1 DEF UndoOnDisk
  <2>6. QED BY <1>5, <1>6, <2>1, <2>2, <2>4, <2>5
<1>10. QED BY <1>8, <1>9

LEMMA LinkInv ==
    ASSUME IndexInv, NEW b \in Block, Link(b)
    PROVE  IndexInv'
<1>1. TypeOK'
  BY LinkType DEF IndexInv
<1>2. PoolNotLinked'
  <2>1. byid' = byid \ (BlockTxs(b) \cap byid)
    BY DEF Link, PoolRemove
  <2>2. Linked' = Linked \cup BlockTxs(b) /\ byid \cap Linked = {}
    BY LinkEffect DEF IndexInv, PoolNotLinked
  <2>3. QED BY <2>1, <2>2 DEF PoolNotLinked
<1>3. QED
  BY <1>1, <1>2, LinkChain, LinkTxIndex, LinkCoins, LinkSpent, LinkUndo DEF IndexInv

-----------------------------------------------------------------------------
(* pop: the batch read back is the one that leads to the chain below.       *)
LEMMA PopUndo ==
    ASSUME IndexInv, best # NoBest, Readable(rev, battr[best.id].rev)
    PROVE  Unpacked(rev, battr[best.id].rev) = UndoFor(best.id)
<1>1. TypeOK /\ ChainShape /\ UndoOnDisk /\ IsStore(rev, Undo)
  BY DEF IndexInv, TypeOK
<1>2. best.id \in Block /\ OnChain(best.id)
  BY <1>1, TopFacts
<1>3. battr[best.id].rev \in Attr
  BY <1>1, <1>2, BlockHeight
<1>4. OnDisk(rev, battr[best.id].rev, UndoFor(best.id))
  BY <1>1, <1>2 DEF UndoOnDisk
<1>5. QED BY <1>1, <1>3, <1>4, PullFacts, IndexerAssumption DEF Unpacked, Readable

LEMMA PopEffect ==
    ASSUME IndexInv, Pop
    PROVE  /\ best # NoBest /\ best.id \in Block /\ OnChain(best.id)
           /\ best.height \in Height /\ battr[best.id].height = best.height
           /\ battr' = [battr EXCEPT ![best.id] = NoAttr]
           /\ best' = IF best.height = 0 THEN NoBest
                      ELSE [id |-> hidx[best.height - 1], height |-> best.height - 1]
           /\ hidx' = [hidx EXCEPT ![best.height] = NoBlock]
           /\ tattr' = [t \in Tx |-> IF t \in BlockTxs(best.id) THEN NoTxAttr ELSE tattr[t]]
           /\ coin' = [k \in CoinKey |->
                          IF k \in BlockMakes(best.id) THEN NoCoin
                          ELSE IF k \in BlockSpends(best.id) THEN MadeCoin(k, HeightOf(k[1]))
                          ELSE coin[k]]
           /\ Linked' = Linked \ BlockTxs(best.id)
           /\ \A t \in Linked : HeightOf(t) # best.height => HeightOf(t)' = HeightOf(t)
           /\ \A t \in Linked : t \notin BlockTxs(best.id) => HeightOf(t) # best.height
           /\ \A t \in BlockTxs(best.id) : t \in Linked /\ HeightOf(t) = best.height
<1> DEFINE B == best.id
           u == UndoFor(B)
<1>1. TypeOK /\ ChainShape /\ TxIndexExact /\ SpentOnceAndMature /\ best # NoBest
  BY DEF IndexInv, Pop
<1>2. B \in Block /\ best.height \in Height /\ OnChain(B) /\ battr[B].height = best.height
  BY <1>1, TopFacts
<1>3. WriteUndo(u) /\ battr' = [battr EXCEPT ![B] = NoAttr]
  BY <1>1, PopUndo DEF Pop
<1>4. /\ u.best = IF best.height = 0 THEN NoBest
                  ELSE [id |-> hidx[best.height - 1], height |-> best.height - 1]
      /\ u.height = best.height /\ u.txs = BlockTxs(B) /\ u.made = BlockMakes(B)
      /\ u.spent = [k \in CoinKey |-> IF k \in BlockSpends(B)
                                      THEN MadeCoin(k, HeightOf(k[1])) ELSE NoCoin]
  BY <1>2 DEF UndoFor
<1>5. \A t \in BlockTxs(B) : t \in Linked /\ tattr[t].blk = B /\ HeightOf(t) = best.height
  BY <1>1, <1>2, TxOfBlock
<1>6. ASSUME NEW k \in CoinKey, k \in BlockSpends(B)
      PROVE  MadeCoin(k, HeightOf(k[1])) # NoCoin
  <2>1. PICK t \in BlockTxs(B) : k \in Spends(t)
    BY <1>6 DEF BlockSpends
  <2>2. k[1] \in Linked
    BY <1>1, <1>5, <2>1 DEF SpentOnceAndMature
  <2>3. MadeCoin(k, HeightOf(k[1])) \in CoinAttr
    BY <1>1, <2>2, LinkedTx, MadeCoinType
  <2>4. QED BY <2>3, IndexerAssumption
<1>7. coin' = [k \in CoinKey |-> IF k \in u.made THEN NoCoin
                                ELSE IF u.spent[k] # NoCoin THEN u.spent[k] ELSE coin[k]]
  BY <1>3 DEF WriteUndo
<1>8. \A k \in CoinKey : (u.spent[k] # NoCoin <=> k \in BlockSpends(B))
                        /\ (k \in BlockSpends(B) => u.spent[k] = MadeCoin(k, HeightOf(k[1])))
  BY <1>4, <1>6
<1>9. coin' = [k \in CoinKey |->
                 IF k \in BlockMakes(B) THEN NoCoin
                 ELSE IF k \in BlockSpends(B) THEN MadeCoin(k, HeightOf(k[1]))
                 ELSE coin[k]]
  BY <1>4, <1>7, <1>8
<1>10. /\ best' = u.best /\ hidx' = [hidx EXCEPT ![u.height] = NoBlock]
       /\ tattr' = [t \in Tx |-> IF t \in u.txs THEN NoTxAttr ELSE tattr[t]]
  BY <1>3 DEF WriteUndo
<1>11. tattr' = [t \in Tx |-> IF t \in BlockTxs(B) THEN NoTxAttr ELSE tattr[t]]
  BY <1>4, <1>10
<1>12. Linked' = Linked \ BlockTxs(B)
  BY <1>11 DEF Linked
<1>13. ASSUME NEW t \in Linked, t \notin BlockTxs(B)
       PROVE  HeightOf(t) # best.height /\ HeightOf(t)' = HeightOf(t)
  <2>1. t \in Tx /\ tattr[t].blk \in Block /\ OnChain(tattr[t].blk)
        /\ t \in BlockTxs(tattr[t].blk)
    BY <1>1, LinkedTx
  <2>2. tattr[t].blk # B
    BY <1>13, <2>1
  <2>3. HeightOf(t) # best.height
    BY <1>1, <2>1, <2>2, BlockHeight DEF HeightOf
  <2>4. tattr'[t] = tattr[t]
    BY <1>11, <1>13, <2>1
  <2>5. battr'[tattr[t].blk] = battr[tattr[t].blk]
    BY <1>1, <1>3, <2>1, <2>2 DEF TypeOK
  <2>6. QED BY <2>3, <2>4, <2>5 DEF HeightOf
<1>14. QED
  BY <1>1, <1>2, <1>3, <1>4, <1>5, <1>9, <1>10, <1>11, <1>12, <1>13

LEMMA PopChain == IndexInv /\ Pop => ChainShape'
<1> SUFFICES ASSUME IndexInv, Pop PROVE ChainShape'
  OBVIOUS
<1> DEFINE B == best.id
           top == best.height
<1>1. /\ best # NoBest /\ B \in Block /\ OnChain(B) /\ top \in Height /\ battr[B].height = top
      /\ battr' = [battr EXCEPT ![B] = NoAttr]
      /\ best' = IF top = 0 THEN NoBest ELSE [id |-> hidx[top - 1], height |-> top - 1]
      /\ hidx' = [hidx EXCEPT ![top] = NoBlock]
  BY PopEffect
<1>2. TypeOK /\ ChainShape
  BY DEF IndexInv
<1>3. hidx \in [Height -> Block \cup {NoBlock}] /\ NoBlock \notin Block /\ top \in Nat
      /\ battr \in [Block -> BlkAttr \cup {NoAttr}]
  BY <1>1, <1>2, BlocksAssumption DEF TypeOK, Height
<1> HIDE DEF B, top
<1>4. hidx'[top] = NoBlock /\ \A h \in Height : h # top => hidx'[h] = hidx[h]
  BY <1>1, <1>3
<1>5. \A h \in Height : h \in Nat /\ (hidx[h] # NoBlock <=> h <= top)
  BY <1>1, <1>2 DEF ChainShape, Height, top
<1>6. CASE top = 0
  <2>1. best' = NoBest /\ \A h \in Height : hidx'[h] = NoBlock
    BY <1>1, <1>3, <1>4, <1>5, <1>6
  <2>2. ASSUME NEW c \in Block, NEW h \in Height
        PROVE  ~(OnChain(c)' /\ battr'[c].height = h)
    <3>1. SUFFICES ASSUME OnChain(c)' PROVE FALSE
      OBVIOUS
    <3>2. c # B /\ OnChain(c)
      BY <1>1, <1>3, <3>1 DEF OnChain
    <3>3. battr[c].height \in Height /\ hidx[battr[c].height] = c
          /\ battr[c].height <= top /\ (battr[c].height = top => c = B)
      BY <1>2, <3>2, BlockHeight DEF B, top
    <3>4. QED BY <1>5, <1>6, <3>2, <3>3
  <2>3. QED BY <1>3, <2>1, <2>2 DEF ChainShape
<1>7. CASE top # 0
  <2>1. top - 1 \in Height /\ top - 1 \in Nat
    BY <1>1, <1>3, <1>7, IndexerAssumption DEF Height
  <2>2. hidx[top - 1] \in Block
    BY <1>3, <1>5, <2>1
  <2>3. best' # NoBest /\ best'.height = top - 1 /\ best'.id = hidx[top - 1]
    <3>1. [id |-> hidx[top - 1], height |-> top - 1] \in Best
      BY <2>1, <2>2 DEF Best
    <3>2. QED BY <1>1, <1>7, <3>1, IndexerAssumption
  <2>4. \A h \in Height : hidx'[h] # NoBlock <=> (best' # NoBest /\ h <= best'.height)
    BY <1>3, <1>4, <1>5, <2>3
  <2>5. hidx'[best'.height] = best'.id
    BY <1>3, <1>4, <2>1, <2>3
  <2>6. ASSUME NEW h \in Height, h > 0, hidx'[h] # NoBlock
        PROVE  Prev(hidx'[h]) = hidx'[h - 1]
    <3>1. h # top /\ h <= top /\ h - 1 \in Height /\ h - 1 # top
      BY <1>3, <1>4, <1>5, <2>6, IndexerAssumption DEF Height
    <3>2. hidx'[h] = hidx[h] /\ hidx'[h - 1] = hidx[h - 1]
      BY <1>4, <3>1
    <3>3. QED BY <1>2, <2>6, <3>2 DEF ChainShape
  <2>7. ASSUME NEW c \in Block, NEW h \in Height
        PROVE  hidx'[h] = c <=> (OnChain(c)' /\ battr'[c].height = h)
    <3>1. hidx[h] = c <=> (OnChain(c) /\ battr[c].height = h)
      BY <1>2 DEF ChainShape
    <3>2. CASE c = B
      <4>1. ~OnChain(c)'
        BY <1>1, <1>3, <3>2 DEF OnChain
      <4>2. hidx'[h] # c
        BY <1>1, <1>3, <1>4, <3>1, <3>2
      <4>3. QED BY <4>1, <4>2
    <3>3. CASE c # B
      <4>1. (OnChain(c)' <=> OnChain(c)) /\ battr'[c] = battr[c]
        BY <1>1, <1>3, <3>3 DEF OnChain
      <4>2. OnChain(c) => battr[c].height # top
        BY <1>2, <3>3, BlockHeight DEF B, top
      <4>3. QED BY <1>3, <1>4, <3>1, <4>1, <4>2
    <3>4. QED BY <3>2, <3>3
  <2>8. QED BY <2>4, <2>5, <2>6, <2>7 DEF ChainShape
<1>8. QED BY <1>6, <1>7

LEMMA PopTxIndex == IndexInv /\ Pop => TxIndexExact'
<1> SUFFICES ASSUME IndexInv, Pop PROVE TxIndexExact'
  OBVIOUS
<1> DEFINE B == best.id
<1>1. /\ B \in Block /\ OnChain(B) /\ battr' = [battr EXCEPT ![B] = NoAttr]
      /\ tattr' = [t \in Tx |-> IF t \in BlockTxs(B) THEN NoTxAttr ELSE tattr[t]]
      /\ Linked' = Linked \ BlockTxs(B)
  BY PopEffect
<1>2. TypeOK /\ ChainShape /\ TxIndexExact /\ battr \in [Block -> BlkAttr \cup {NoAttr}]
  BY DEF IndexInv, TypeOK
<1>3. \A c \in Block : OnChain(c)' <=> c # B /\ OnChain(c)
  BY <1>1, <1>2 DEF OnChain
<1>4. \A t \in BlockTxs(B) : tattr[t].blk = B
  BY <1>1, <1>2, TxOfBlock
<1>5. ASSUME NEW c \in Block, OnChain(c)', NEW i \in DOMAIN Txs(c)
      PROVE  tattr'[Txs(c)[i]] = [blk |-> c, idx |-> i]
  <2>1. c # B /\ OnChain(c) /\ Txs(c)[i] \in BlockTxs(c)
    BY <1>3, <1>5 DEF BlockTxs
  <2>2. Txs(c)[i] \in Linked /\ tattr[Txs(c)[i]].blk = c
        /\ tattr[Txs(c)[i]] = [blk |-> c, idx |-> i]
    BY <1>2, <2>1, TxOfBlock DEF TxIndexExact
  <2>3. Txs(c)[i] \notin BlockTxs(B) /\ Txs(c)[i] \in Tx
    BY <1>4, <2>1, <2>2 DEF Linked
  <2>4. QED BY <1>1, <2>2, <2>3
<1>6. ASSUME NEW t \in Linked'
      PROVE  (OnChain(tattr[t].blk) /\ t \in BlockTxs(tattr[t].blk))'
  <2>1. t \in Linked /\ t \notin BlockTxs(B)
    BY <1>1
  <2>2. t \in Tx /\ tattr[t].blk \in Block /\ OnChain(tattr[t].blk)
        /\ t \in BlockTxs(tattr[t].blk)
    BY <1>2, <2>1, LinkedTx
  <2>3. tattr'[t] = tattr[t] /\ tattr[t].blk # B
    BY <1>1, <2>1, <2>2
  <2>4. battr'[tattr[t].blk] = battr[tattr[t].blk]
    BY <1>1, <1>2, <2>2, <2>3
  <2>5. QED BY <2>2, <2>3, <2>4 DEF OnChain
<1>7. QED BY <1>5, <1>6 DEF TxIndexExact

LEMMA PopSpent == IndexInv /\ Pop => SpentOnceAndMature'
<1> SUFFICES ASSUME IndexInv, Pop PROVE SpentOnceAndMature'
  OBVIOUS
<1>1. /\ best # NoBest /\ best.height \in Height
      /\ Linked' = Linked \ BlockTxs(best.id)
      /\ \A t \in Linked : HeightOf(t) # best.height => HeightOf(t)' = HeightOf(t)
      /\ \A t \in Linked : t \notin BlockTxs(best.id) => HeightOf(t) # best.height
      /\ \A t \in BlockTxs(best.id) : t \in Linked /\ HeightOf(t) = best.height
  BY PopEffect
<1>2. TypeOK /\ ChainShape /\ TxIndexExact /\ SpentOnceAndMature
  BY DEF IndexInv
<1>3. SUFFICES ASSUME NEW t \in Linked', NEW k \in Spends(t)
               PROVE  /\ k[1] \in Linked' /\ HeightOf(k[1])' < HeightOf(t)'
                      /\ IsCoinbase(k[1]) => HeightOf(t)' - HeightOf(k[1])' >= Maturity
                      /\ \A u \in Linked' \ {t} : k \notin Spends(u)
  BY DEF SpentOnceAndMature
<1>4. t \in Linked /\ HeightOf(t)' = HeightOf(t)
  BY <1>1
<1>5. /\ k[1] \in Linked /\ HeightOf(k[1]) < HeightOf(t)
      /\ IsCoinbase(k[1]) => HeightOf(t) - HeightOf(k[1]) >= Maturity
      /\ \A u \in Linked \ {t} : k \notin Spends(u)
  BY <1>2, <1>4 DEF SpentOnceAndMature
<1>6. HeightOf(t) <= best.height /\ HeightOf(t) \in Nat /\ HeightOf(k[1]) \in Nat
      /\ best.height \in Nat
  BY <1>1, <1>2, <1>4, <1>5, LinkedTx DEF Height
<1>7. HeightOf(k[1]) # best.height
  BY <1>5, <1>6
<1>8. k[1] \in Linked' /\ HeightOf(k[1])' = HeightOf(k[1])
  BY <1>1, <1>5, <1>7
<1>9. QED BY <1>1, <1>4, <1>5, <1>8

LEMMA PopCoins == IndexInv /\ Pop => CoinsExact'
<1> SUFFICES ASSUME IndexInv, Pop PROVE CoinsExact'
  OBVIOUS
<1> DEFINE B == best.id
<1>1. /\ B \in Block
      /\ coin' = [k \in CoinKey |->
                     IF k \in BlockMakes(B) THEN NoCoin
                     ELSE IF k \in BlockSpends(B) THEN MadeCoin(k, HeightOf(k[1]))
                     ELSE coin[k]]
      /\ Linked' = Linked \ BlockTxs(B)
      /\ \A t \in Linked : HeightOf(t) # best.height => HeightOf(t)' = HeightOf(t)
      /\ \A t \in Linked : t \notin BlockTxs(B) => HeightOf(t) # best.height
      /\ \A t \in BlockTxs(B) : t \in Linked
  BY PopEffect
<1> HIDE DEF B
<1>2. CoinsExact /\ SpentOnceAndMature
  BY DEF IndexInv
<1>3. SUFFICES ASSUME NEW k \in CoinKey
               PROVE  coin'[k] = IF k[1] \in Linked' /\ \A t \in Linked' : k \notin Spends(t)
                                 THEN MadeCoin(k, HeightOf(k[1])') ELSE NoCoin
  BY DEF CoinsExact, MadeCoin
<1>4. k \in BlockMakes(B) <=> k[1] \in BlockTxs(B)
  BY <1>1, BlockKeyFacts
<1>5. CASE k \in BlockMakes(B)
  BY <1>1, <1>4, <1>5
<1>6. CASE k \notin BlockMakes(B) /\ k \in BlockSpends(B)
  <2>1. PICK t \in BlockTxs(B) : k \in Spends(t)
    BY <1>6 DEF BlockSpends
  <2>2. t \in Linked /\ k[1] \in Linked /\ \A u \in Linked \ {t} : k \notin Spends(u)
    BY <1>1, <1>2, <2>1 DEF SpentOnceAndMature
  <2>3. k[1] \in Linked' /\ HeightOf(k[1])' = HeightOf(k[1])
    BY <1>1, <1>4, <1>6, <2>2
  <2>4. \A u \in Linked' : k \notin Spends(u)
    BY <1>1, <2>1, <2>2
  <2>5. coin'[k] = MadeCoin(k, HeightOf(k[1]))
    BY <1>1, <1>6
  <2>6. QED BY <2>3, <2>4, <2>5
<1>7. CASE k \notin BlockMakes(B) /\ k \notin BlockSpends(B)
  <2>1. k[1] \in Linked' <=> k[1] \in Linked
    BY <1>1, <1>4, <1>7
  <2>2. k[1] \in Linked => HeightOf(k[1])' = HeightOf(k[1])
    BY <1>1, <1>4, <1>7
  <2>3. \A t \in BlockTxs(B) : k \notin Spends(t)
    BY <1>7 DEF BlockSpends
  <2>4. (\A t \in Linked' : k \notin Spends(t)) <=> (\A t \in Linked : k \notin Spends(t))
    BY <1>1, <2>3
  <2>5. coin'[k] = coin[k]
    BY <1>1, <1>7
  <2>6. coin[k] = IF k[1] \in Linked /\ \A t \in Linked : k \notin Spends(t)
                  THEN MadeCoin(k, HeightOf(k[1])) ELSE NoCoin
    BY <1>2 DEF CoinsExact
  <2>7. QED BY <2>1, <2>2, <2>4, <2>5, <2>6
<1>8. QED BY <1>5, <1>6, <1>7

LEMMA PopUndoOnDisk == IndexInv /\ Pop => UndoOnDisk'
<1> SUFFICES ASSUME IndexInv, Pop PROVE UndoOnDisk'
  OBVIOUS
<1>1. /\ best # NoBest /\ best.id \in Block /\ best.height \in Height
      /\ battr' = [battr EXCEPT ![best.id] = NoAttr]
      /\ hidx' = [hidx EXCEPT ![best.height] = NoBlock]
      /\ \A t \in Linked : HeightOf(t) # best.height => HeightOf(t)' = HeightOf(t)
  BY PopEffect
<1>2. TypeOK /\ ChainShape /\ UndoOnDisk /\ battr \in [Block -> BlkAttr \cup {NoAttr}]
      /\ hidx \in [Height -> Block \cup {NoBlock}]
  BY DEF IndexInv, TypeOK
<1>3. blk' = blk /\ rev' = rev
  BY DEF Pop
<1>4. SUFFICES ASSUME NEW c \in Block, OnChain(c)'
               PROVE  /\ OnDisk(blk, battr'[c].blk, c)
                      /\ OnDisk(rev, battr'[c].rev, UndoFor(c)')
  BY <1>3 DEF UndoOnDisk, OnDisk
<1>5. c # best.id /\ OnChain(c) /\ battr'[c] = battr[c]
  BY <1>1, <1>2, <1>4 DEF OnChain
<1>6. battr[c].height <= best.height /\ battr[c].height \in Nat /\ best.height \in Nat
  BY <1>1, <1>2, <1>5, BlockHeight DEF Height
<1>7. \A h \in Height : h < battr[c].height => hidx'[h] = hidx[h]
  <2>1. \A h \in Height : h < battr[c].height => h # best.height
    BY <1>6 DEF Height
  <2>2. QED BY <1>1, <1>2, <2>1
<1>8. \A t \in Linked : HeightOf(t) < battr[c].height => HeightOf(t)' = HeightOf(t)
  <2>1. \A t \in Linked : HeightOf(t) < battr[c].height => HeightOf(t) # best.height
    BY <1>6
  <2>2. QED BY <1>1, <2>1
<1>9. UndoFor(c)' = UndoFor(c)
  BY <1>5, <1>7, <1>8, UndoForStays
<1>10. QED BY <1>2, <1>5, <1>9 DEF UndoOnDisk

LEMMA PopInv == IndexInv /\ Pop => IndexInv'
<1> SUFFICES ASSUME IndexInv, Pop PROVE IndexInv'
  OBVIOUS
<1>1. TypeOK'
  BY PopType DEF IndexInv
<1>2. PoolNotLinked'
  <2>1. Linked' \subseteq Linked /\ byid' = byid
    BY PopEffect DEF Pop
  <2>2. QED BY <2>1 DEF IndexInv, PoolNotLinked
<1>3. QED
  BY <1>1, <1>2, PopChain, PopTxIndex, PopCoins, PopSpent, PopUndoOnDisk DEF IndexInv

-----------------------------------------------------------------------------
(* The operations that leave the database alone: what positions refer to    *)
(* must stay, and the pool must agree with the database.                    *)
LEMMA DatabaseStays ==
    ASSUME IndexInv, TypeOK', UNCHANGED dbVars,
           \A x \in Attr : \A y : OnDisk(blk, x, y) => OnDisk(blk', x, y),
           \A x \in Attr : \A y : OnDisk(rev, x, y) => OnDisk(rev', x, y),
           byid' \cap Linked = {}
    PROVE  IndexInv'
<1>1. best' = best /\ hidx' = hidx /\ battr' = battr /\ tattr' = tattr /\ coin' = coin
  BY DEF dbVars
<1>2. Linked' = Linked
  BY <1>1 DEF Linked
<1>3. \A t : HeightOf(t)' = HeightOf(t)
  BY <1>1 DEF HeightOf
<1>4. ChainShape'
  BY <1>1 DEF IndexInv, ChainShape, OnChain
<1>5. TxIndexExact'
  BY <1>1, <1>2 DEF IndexInv, TxIndexExact, OnChain
<1>6. CoinsExact' /\ SpentOnceAndMature'
  <2>1. CoinsExact'
    BY <1>1, <1>2, <1>3 DEF IndexInv, CoinsExact, MadeCoin
  <2>2. SpentOnceAndMature'
    BY <1>2, <1>3 DEF IndexInv, SpentOnceAndMature
  <2>3. QED BY <2>1, <2>2
<1>7. UndoOnDisk'
  <2>1. SUFFICES ASSUME NEW b \in Block, OnChain(b)
                 PROVE  /\ OnDisk(blk', battr[b].blk, b)
                        /\ OnDisk(rev', battr[b].rev, UndoFor(b)')
    BY <1>1 DEF UndoOnDisk, OnChain, OnDisk
  <2>2. OnDisk(blk, battr[b].blk, b) /\ OnDisk(rev, battr[b].rev, UndoFor(b))
    BY <2>1 DEF IndexInv, UndoOnDisk
  <2>3. battr[b].blk \in Attr /\ battr[b].rev \in Attr
    BY <2>1, BlockHeight DEF IndexInv
  <2>4. UndoFor(b)' = UndoFor(b)
    BY <1>1, <1>3, <2>1, UndoForStays
  <2>5. QED BY <2>2, <2>3, <2>4
<1>8. PoolNotLinked'
  BY <1>2 DEF PoolNotLinked
<1>9. QED BY <1>4, <1>5, <1>6, <1>7, <1>8 DEF IndexInv

LEMMA LinkAbortsInv ==
    ASSUME IndexInv, NEW b \in Block, LinkAborts(b)
    PROVE  IndexInv'
<1>1. LinkOk(b) /\ NextHeight \in Height /\ UNCHANGED <<genesis, dbVars, byid, byfee>>
      /\ cache' \in Cached(LinkReads(b))
  BY DEF LinkAborts, Room
<1>2. TypeOK /\ TypeOK' /\ IsStore(blk, Block) /\ IsStore(rev, Undo) /\ UndoOf(b) \in Undo
  BY <1>1, LinkAbortsType, UndoOfType DEF IndexInv, TypeOK
<1>3. BlockData[b].len \in Nat /\ BlockData[b].revlen \in Nat
  BY BlockFacts
<1>4. /\ \A x \in Attr : \A y : OnDisk(blk, x, y) => OnDisk(blk', x, y)
      /\ \A x \in Attr : \A y : OnDisk(rev, x, y) => OnDisk(rev', x, y)
  <2>1. CASE /\ \E k \in 0..(BlockData[b].len - 1) : blk' = Torn(blk, b, BlockData[b].len, k)
             /\ UNCHANGED rev
    <3>1. PICK k \in 0..(BlockData[b].len - 1) : blk' = Torn(blk, b, BlockData[b].len, k)
      BY <2>1
    <3>2. k \in Nat
      BY <1>3
    <3>3. QED BY <1>2, <1>3, <2>1, <3>1, <3>2, TornFacts
  <2>2. CASE /\ blk' = Pushed(blk, b, BlockData[b].len)
             /\ \E k \in 0..BlockData[b].revlen :
                   rev' = Torn(rev, UndoOf(b), BlockData[b].revlen, k)
    <3>1. PICK k \in 0..BlockData[b].revlen :
             rev' = Torn(rev, UndoOf(b), BlockData[b].revlen, k)
      BY <2>2
    <3>2. k \in Nat
      BY <1>3
    <3>3. \A x \in Attr : \A y : OnDisk(rev, x, y) => OnDisk(rev', x, y)
      BY <1>2, <1>3, <3>1, <3>2, TornFacts
    <3>4. QED BY <1>2, <1>3, <2>2, <3>3, PushFacts
  <2>3. QED BY <2>1, <2>2 DEF LinkAborts
<1>5. byid' \cap Linked = {}
  BY <1>1 DEF IndexInv, PoolNotLinked
<1>6. QED BY <1>1, <1>2, <1>4, <1>5, DatabaseStays

LEMMA OtherInvs ==
    ASSUME IndexInv
    PROVE  /\ \A b \in Block : SetGenesis(b) => IndexInv'
           /\ \A t \in Submitted : AppendTx(t) => IndexInv'
           /\ \A t \in Submitted : RemoveTx(t) => IndexInv'
           /\ \A b \in Block : Get(b) => IndexInv'
           /\ \A b \in Block : \A a : Load(b, a) => IndexInv'
           /\ Restart => IndexInv'
           /\ PopAborts => IndexInv'
           /\ UNCHANGED vars => IndexInv'
<1>1. TypeOK /\ IsStore(blk, Block) /\ IsStore(rev, Undo)
  BY DEF IndexInv, TypeOK
<1>2. byid \cap Linked = {}
  BY DEF IndexInv, PoolNotLinked
<1>3. ASSUME NEW b \in Block, SetGenesis(b) PROVE IndexInv'
  <2>1. TypeOK' /\ UNCHANGED <<dbVars, blk, rev, byid, byfee>>
    BY <1>1, <1>3, OtherTypes DEF SetGenesis
  <2>2. QED BY <1>2, <2>1, DatabaseStays
<1>4. ASSUME NEW t \in Submitted, AppendTx(t) PROVE IndexInv'
  <2>1. TypeOK' /\ UNCHANGED <<genesis, dbVars, blk, rev>> /\ tattr[t] = NoTxAttr
        /\ byid' = byid \cup {t}
    BY <1>1, <1>4, OtherTypes DEF AppendTx, AddToPool, PoolPush
  <2>2. byid' \cap Linked = {}
    BY <1>2, <2>1 DEF Linked
  <2>3. QED BY <2>1, <2>2, DatabaseStays
<1>5. ASSUME NEW t \in Submitted, RemoveTx(t) PROVE IndexInv'
  <2>1. TypeOK' /\ UNCHANGED <<genesis, dbVars, blk, rev, cache>> /\ byid' \subseteq byid
    BY <1>1, <1>5, OtherTypes DEF RemoveTx, DropFromPool, PoolRemove
  <2>2. QED BY <1>2, <2>1, DatabaseStays
<1>6. ASSUME NEW b \in Block, Get(b) PROVE IndexInv'
  <2>1. TypeOK' /\ UNCHANGED <<genesis, dbVars, blk, rev, byid, byfee>>
    BY <1>1, <1>6, OtherTypes DEF Get
  <2>2. QED BY <1>2, <2>1, DatabaseStays
<1>7. ASSUME NEW b \in Block, NEW a, Load(b, a) PROVE IndexInv'
  <2>1. TypeOK' /\ UNCHANGED <<genesis, dbVars, blk, rev, byid, byfee>>
    BY <1>1, <1>7, OtherTypes DEF Load
  <2>2. QED BY <1>2, <2>1, DatabaseStays
<1>8. ASSUME Restart PROVE IndexInv'
  <2>1. TypeOK' /\ UNCHANGED dbVars /\ byid' = {}
        /\ blk' = Reopened(blk) /\ rev' = Reopened(rev)
    BY <1>1, <1>8, OtherTypes DEF Restart
  <2>2. /\ \A x \in Attr : \A y : OnDisk(blk, x, y) => OnDisk(blk', x, y)
        /\ \A x \in Attr : \A y : OnDisk(rev, x, y) => OnDisk(rev', x, y)
    BY <1>1, <2>1, ReopenFacts
  <2>3. QED BY <2>1, <2>2, DatabaseStays
<1>9. ASSUME PopAborts PROVE IndexInv'
  <2>1. TypeOK' /\ UNCHANGED <<genesis, dbVars, blk, rev, byid, byfee>>
    BY <1>1, <1>9, OtherTypes DEF PopAborts
  <2>2. QED BY <1>2, <2>1, DatabaseStays
<1>10. ASSUME UNCHANGED vars PROVE IndexInv'
  <2>1. TypeOK' /\ UNCHANGED <<dbVars, blk, rev, byid>>
    BY <1>1, <1>10, OtherTypes DEF vars, dbVars
  <2>2. QED BY <1>2, <2>1, DatabaseStays
<1>11. QED BY <1>3, <1>4, <1>5, <1>6, <1>7, <1>8, <1>9, <1>10

LEMMA InitInv == Init => IndexInv
<1> SUFFICES ASSUME Init PROVE IndexInv
  OBVIOUS
<1>1. TypeOK
  BY InitType
<1>2. Linked = {} /\ \A b \in Block : ~OnChain(b)
  BY DEF Init, Linked, OnChain
<1>3. ChainShape
  BY <1>2, BlocksAssumption DEF Init, ChainShape
<1>4. TxIndexExact /\ SpentOnceAndMature /\ UndoOnDisk
  BY <1>2 DEF TxIndexExact, SpentOnceAndMature, UndoOnDisk
<1>5. CoinsExact
  BY <1>2 DEF Init, CoinsExact
<1>6. PoolNotLinked
  BY <1>2 DEF PoolNotLinked
<1>7. QED BY <1>1, <1>3, <1>4, <1>5, <1>6 DEF IndexInv

LEMMA StepInv == IndexInv /\ [Next]_vars => IndexInv'
<1>1. Aborting \subseteq Block /\ Chosen \subseteq Block
  BY IndexerAssumption
<1>2. QED BY <1>1, LinkInv, LinkAbortsInv, PopInv, OtherInvs DEF Next

(* The invariant holds of every reachable state. *)
THEOREM IndexInvariant == Spec => []IndexInv
<1>1. Init => IndexInv
  BY InitInv
<1>2. IndexInv /\ [Next]_vars => IndexInv'
  BY StepInv
<1>3. QED BY <1>1, <1>2, PTL DEF Spec

-----------------------------------------------------------------------------
(* The heights, the best key and the block attributes always describe one   *)
(* chain (link, pop).                                                       *)
THEOREM OneChain == Spec => []ChainShape
<1>1. IndexInv => ChainShape
  BY DEF IndexInv
<1>2. QED BY <1>1, IndexInvariant, PTL

(* Every transaction of the chain is indexed at its place, and no other is  *)
(* (link, pop).                                                             *)
THEOREM IndexExact == Spec => []TxIndexExact
<1>1. IndexInv => TxIndexExact
  BY DEF IndexInv
<1>2. QED BY <1>1, IndexInvariant, PTL

(* The coins of the database are the unspent outputs of the chain, through  *)
(* any links, pops, failed writes and restarts (write_tx_index, pop).       *)
THEOREM CoinSetExact == Spec => []CoinsExact
<1>1. IndexInv => CoinsExact
  BY DEF IndexInv
<1>2. QED BY <1>1, IndexInvariant, PTL

(* No output of the chain is spent twice, nor before it is there and mature *)
(* (check_tx_amount, is_valid).                                             *)
THEOREM NoDoubleSpend == Spec => []SpentOnceAndMature
<1>1. IndexInv => SpentOnceAndMature
  BY DEF IndexInv
<1>2. QED BY <1>1, IndexInvariant, PTL

(* Whatever was torn or popped before, every block of the chain is on disk  *)
(* with the batch that undoes it (link's two pushes, pop).                  *)
THEOREM AlwaysUndoable == Spec => []UndoOnDisk
<1>1. IndexInv => UndoOnDisk
  BY DEF IndexInv
<1>2. QED BY <1>1, IndexInvariant, PTL

(* No transaction is in the pool and in the chain (append, link).           *)
THEOREM PoolApart == Spec => []PoolNotLinked
<1>1. IndexInv => PoolNotLinked
  BY DEF IndexInv
<1>2. QED BY <1>1, IndexInvariant, PTL

-----------------------------------------------------------------------------
(* What inputs resolve to, whatever blocks the cache holds. *)
(* An indexed transaction is found where the index says, once the block    *)
(* there can be read.                                                       *)
LEMMA Resolves ==
    ASSUME IndexInv, NEW t \in Linked, CanGet(tattr[t].blk)
    PROVE  /\ GetBlock(tattr[t].blk) = tattr[t].blk
           /\ tattr[t].idx \in DOMAIN Txs(tattr[t].blk)
           /\ Txs(tattr[t].blk)[tattr[t].idx] = t
<1> USE DEF IndexInv
<1> DEFINE b == tattr[t].blk
<1>1. b \in Block /\ OnChain(b) /\ t \in BlockTxs(b)
  BY LinkedTx
<1>2. PICK i \in DOMAIN Txs(b) : Txs(b)[i] = t
  BY <1>1 DEF BlockTxs
<1>3. tattr[t] = [blk |-> b, idx |-> i]
  BY <1>1, <1>2 DEF TxIndexExact
<1>4. tattr[t].idx = i
  BY <1>3
<1>5. GetBlock(b) = b
  BY <1>1, GetsBlock
<1>6. QED BY <1>2, <1>4, <1>5

(* Blocks that were popped may be in the cache, put back there by load: an  *)
(* input resolves to the transaction it names all the same, in a block of   *)
(* the chain, whatever came before (load, pop, get_txin_ref_txout).         *)
THEOREM InputsAlwaysResolve == Spec => []InputsResolve
<1>1. IndexInv => InputsResolve
  <2> SUFFICES ASSUME IndexInv, NEW k \in CoinKey, CanRef(k)
               PROVE  RefTx(k) = k[1] /\ OnChain(tattr[k[1]].blk)
    BY DEF InputsResolve
  <2>1. k[1] \in Linked /\ CanGet(tattr[k[1]].blk)
    BY DEF CanRef, Linked
  <2>2. OnChain(tattr[k[1]].blk)
    BY <2>1, LinkedTx DEF IndexInv
  <2>3. QED BY <2>1, <2>2, Resolves DEF RefTx
<1>2. QED BY <1>1, IndexInvariant, PTL

-----------------------------------------------------------------------------
(* A coin of the list spends: the chain made it, so that the index finds    *)
(* its transaction where the block has it.                                  *)
LEMMA ListedSpends ==
    ASSUME IndexInv, NEW k \in CoinKey, coin[k] # NoCoin,
           IsValidCoin(coin[k], NextHeight), CanGet(tattr[k[1]].blk)
    PROVE  SpendOk(CoinIn(k), NextHeight)
<1> USE DEF IndexInv
<1> DEFINE t == k[1]
           b == tattr[t].blk
<1>1. t \in Linked /\ coin[k] = MadeCoin(k, HeightOf(t))
  BY CoinOfChain
<1>2. t \in Tx /\ tattr[t] # NoTxAttr
  BY <1>1 DEF Linked
<1>3. GetBlock(b) = b /\ tattr[t].idx \in DOMAIN Txs(b) /\ Txs(b)[tattr[t].idx] = t
  BY <1>1, Resolves
<1>4. CanRef(k) /\ RefTx(k) = t
  BY <1>2, <1>3 DEF CanRef, RefTx
<1>5. k \in Makes(t)
  BY CoinFacts
<1>6. k[2] \in DOMAIN Outs(t) /\ k = <<t, k[2]>>
  BY <1>5 DEF Makes
<1>7. HasRefOut(k) /\ RefOut(k) = OutOf(k)
  BY <1>4, <1>6 DEF HasRefOut, RefOut, OutOf
<1>8. OutKey(CoinIn(k)) = k /\ CoinIn(k).addr = OutOf(k).addr
  BY <1>6 DEF OutKey, CoinIn
<1>9. coin[k].value = OutOf(k).value
  BY <1>1 DEF MadeCoin
<1>10. QED BY <1>7, <1>8, <1>9 DEF SpendOk, HasCoin

(* Whatever links, pops and failures came before, a coin listed as valid    *)
(* can be spent next, and none is listed twice (coins, check_tx_amount).    *)
THEOREM ListedSpendable == Spec => []ListedCoinsSpend
<1>1. IndexInv => ListedCoinsSpend
  <2> SUFFICES ASSUME IndexInv, NEW a \in Address
               PROVE  /\ Coins(a) \cap PoolCoins(a) = {}
                      /\ \A k \in Coins(a) : IsValidCoin(coin[k], NextHeight) =>
                            /\ tattr[k[1]] # NoTxAttr
                            /\ CanGet(tattr[k[1]].blk) => SpendOk(CoinIn(k), NextHeight)
    BY DEF ListedCoinsSpend
  <2>1. ASSUME NEW k \in Coins(a) PROVE k \in CoinKey /\ coin[k] # NoCoin /\ k[1] \in Linked
    BY <2>1, CoinOfChain DEF Coins, IndexInv
  <2>2. ASSUME NEW k \in Coins(a), k \in PoolCoins(a) PROVE FALSE
    <3>1. PICK t \in byid : k \in Makes(t)
      BY <2>2 DEF PoolCoins
    <3>2. k[1] = t
      BY <3>1 DEF Makes
    <3>3. QED BY <2>1, <2>2, <3>2 DEF IndexInv, PoolNotLinked
  <2>3. ASSUME NEW k \in Coins(a), IsValidCoin(coin[k], NextHeight)
        PROVE  /\ tattr[k[1]] # NoTxAttr
               /\ CanGet(tattr[k[1]].blk) => SpendOk(CoinIn(k), NextHeight)
    BY <2>1, <2>3, ListedSpends DEF Linked
  <2>4. QED BY <2>2, <2>3
<1>2. QED BY <1>1, IndexInvariant, PTL

(* The pool the indexer drives never holds two transactions that spend the  *)
(* same output (TxPool::check_value).                                       *)
THEOREM IndexerPoolConflictFree == Spec => []PoolNoDoubleSpend
<1>1. Init => PoolNoDoubleSpend
  BY DEF Init, PoolInit, PoolNoDoubleSpend
<1>2. PoolNoDoubleSpend /\ [Next]_vars => PoolNoDoubleSpend'
  <2> SUFFICES ASSUME PoolNoDoubleSpend, [Next]_vars PROVE PoolNoDoubleSpend'
    OBVIOUS
  <2>1. UNCHANGED byid => PoolNoDoubleSpend'
    BY DEF PoolNoDoubleSpend
  <2>2. ASSUME NEW b \in Block, Link(b) PROVE PoolNoDoubleSpend'
    BY <2>2, RemoveKeepsApart DEF Link
  <2>3. ASSUME NEW t \in Submitted, AppendTx(t) PROVE PoolNoDoubleSpend'
    BY <2>3, PushKeepsApart DEF AppendTx, AddToPool
  <2>4. ASSUME NEW t \in Submitted, RemoveTx(t) PROVE PoolNoDoubleSpend'
    BY <2>4, RemoveKeepsApart DEF RemoveTx, DropFromPool
  <2>5. Restart => PoolNoDoubleSpend'
    BY DEF Restart, PoolNoDoubleSpend
  <2>6. QED
    BY <2>1, <2>2, <2>3, <2>4, <2>5 DEF Next, LinkAborts, Pop, PopAborts, SetGenesis, Get, Load, vars
<1>3. QED BY <1>1, <1>2, PTL DEF Spec
=============================================================================
