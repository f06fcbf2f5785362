------------------------------ MODULE BlkIndexer ------------------------------
(***************************************************************************)
(* The block indexer (BlkIndexer in index.rs): the database of the chain,  *)
(* the two data stores, the block cache and the transaction pool, and the  *)
(* operations that run one at a time under the lock of Chain.              *)
(*                                                                         *)
(* LevelDB is shown by kind of key, absent keys by a "No" value; a batch   *)
(* is written whole or not at all.  LinkAborts followed by Restart is a    *)
(* crash in the middle of link, LinkAborts alone an I/O error.             *)
(***************************************************************************)
EXTENDS TxPool, Store

CONSTANTS
    NoBest, NoAttr, NoTxAttr, NoCoin,   \* absent values of the database
    ConfGenesis,    \* Config.genesis the process starts with
    Limit,          \* Config.pow_limit, compact
    PowSpan,        \* Config.pow_span: blocks between retargets
    CacheCap,       \* capacity of the block cache
    MaxHeight,      \* bound: heights (a u32 in the code)
    MaxFile,        \* bound: data files beyond the first
    Chosen,         \* the ids given to set_genesis_id
    Aborting        \* the blocks whose link may fail while it writes

Height == 0..MaxHeight

Best     == [id : Block, height : Height]
BlkAttr  == [height : Height, blk : Attr, rev : Attr]
TxAttr   == [blk : Block, idx : Nat]
CoinAttr == [value : Int, cb : BOOLEAN, height : Height]

ASSUME IndexerAssumption ==
    /\ NoBest \notin Best /\ NoAttr \notin BlkAttr
    /\ NoTxAttr \notin TxAttr /\ NoCoin \notin CoinAttr
    /\ ConfGenesis \in Block \cup {NoBlock} /\ Chosen \subseteq Block /\ Aborting \subseteq Block
    /\ PowSpan \in Nat \ {0}
    /\ Dir # Ext    \* "<dir>/block" is no extension, "blk" or "rev"
    /\ MaxHeight \in Nat /\ MaxFile \in Nat /\ CacheCap \in Nat \ {0}

VARIABLES
    genesis,    \* Config.genesis in memory
    best,       \* "__best__key__" -> Best
    hidx,       \* height -> block id
    battr,      \* block id -> BlkAttr
    tattr,      \* transaction id -> TxAttr
    coin,       \* coin key -> CoinAttr, the unspent outputs
    blk, rev,   \* stores of the block data and of the undo data
    cache       \* ids in the LRU cache of blocks

dbVars == <<best, hidx, battr, tattr, coin>>
vars == <<genesis, best, hidx, battr, tattr, coin, blk, rev, cache, byid, byfee>>

Init ==
    /\ genesis = ConfGenesis
    /\ best = NoBest
    /\ hidx = [h \in Height |-> NoBlock]
    /\ battr = [b \in Block |-> NoAttr]
    /\ tattr = [t \in Tx |-> NoTxAttr]
    /\ coin = [k \in CoinKey |-> NoCoin]
    /\ blk = EmptyStore /\ rev = EmptyStore
    /\ cache = {}
    /\ PoolInit

-----------------------------------------------------------------------------
(***************************************************************************)
(* Reading blocks.  The bytes of a readable position are those of one      *)
(* body.  Reads leave the stores as they are: open_file never succeeds     *)
(* (IndexerAssumption).                                                    *)
(***************************************************************************)
Unpacked(s, a) == Pull(s, a)[1].of
Readable(s, a) ==
    CanPull(s, a) /\ a.len > 0 /\ Pull(s, a) = Bytes(Unpacked(s, a), a.len)

(* BlkIndexer::get by id: the cache, else the data at the indexed position. *)
CanGet(b) == b \in cache \/ (battr[b] # NoAttr /\ Readable(blk, battr[b].blk))
GetBlock(b) == IF b \in cache THEN b ELSE Unpacked(blk, battr[b].blk)

(* The cache once the blocks bs were read; which is evicted is left open. *)
Cached(bs) ==
    {c \in SUBSET (cache \cup bs) :
        Cardinality(c) = IF Cardinality(cache \cup bs) <= CacheCap
                         THEN Cardinality(cache \cup bs) ELSE CacheCap}

-----------------------------------------------------------------------------
(***************************************************************************)
(* Amounts.                                                                *)
(***************************************************************************)
(* The output an input refers to, found through the transaction index in   *)
(* the block it names (get_txin_ref_txout).                                *)
CanRef(k) ==
    /\ k[1] \in Tx /\ tattr[k[1]] # NoTxAttr
    /\ CanGet(tattr[k[1]].blk)
    /\ tattr[k[1]].idx \in DOMAIN Txs(GetBlock(tattr[k[1]].blk))
RefTx(k) == Txs(GetBlock(tattr[k[1]].blk))[tattr[k[1]].idx]
HasRefOut(k) == CanRef(k) /\ k[2] \in DOMAIN Outs(RefTx(k))
RefOut(k) == Outs(RefTx(k))[k[2]]

\* mutant of IsValidCoin: one confirmation too early
IsValidCoinEarly(c, h) == ~c.cb \/ h < c.height \/ h - c.height >= Maturity - 1

(* CoinAttr::is_valid; the u32 difference wraps when h < c.height. *)
IsValidCoin(c, h) == ~c.cb \/ h < c.height \/ h - c.height >= Maturity

HasCoin(k) == k \in CoinKey /\ coin[k] # NoCoin

(* One input of check_tx_amount, and of write_tx_index again: the output it *)
(* refers to, its address, and the coin, in the database and mature at h.   *)
SpendOk(inv, h) ==
    LET k == OutKey(inv)
    IN  /\ HasRefOut(k)
        /\ inv.addr = RefOut(k).addr
        /\ HasCoin(k)
        /\ coin[k].value = RefOut(k).value
        /\ IsValidCoin(coin[k], h)

InSum(t) == SumFunction([i \in CostIns(t) |-> RefOut(OutKey(Ins(t)[i])).value])

(* The fee of t and its coinbase output (what check_tx_amount returns). *)
TxFee(t) == IF IsCoinbase(t) THEN InSum(t) ELSE InSum(t) - OutSum(t)
CoinbaseFee(t) == IF IsCoinbase(t) THEN OutSum(t) ELSE 0

(* check_tx_sign and check_tx_amount: the signatures hold, every input can *)
(* be spent at h, and the amounts are in range.                            *)
CheckTxAmount(t, h) ==
    /\ TxData[t].sigs
    /\ \A i \in CostIns(t) : SpendOk(Ins(t)[i], h)
    /\ \A i \in DOMAIN Outs(t) :
          IsValidAmount(Outs(t)[i].value) /\ Outs(t)[i].value # 0
    /\ IsValidAmount(InSum(t)) /\ IsValidAmount(OutSum(t))
    /\ IsValidAmount(TxFee(t))

BlockFee(b) == SumFunction([i \in DOMAIN Txs(b) |-> TxFee(Txs(b)[i])])
BlockCoinbaseFee(b) == SumFunction([i \in DOMAIN Txs(b) |-> CoinbaseFee(Txs(b)[i])])

\* mutant of CheckBlockAmount: the coinbase may take what it likes
CheckBlockAmountGreedy(b, h) ==
    /\ IsValidAmount(Reward(h))
    /\ \A t \in BlockTxs(b) : CheckTxAmount(t, h)
    /\ IsValidAmount(BlockFee(b)) /\ IsValidAmount(BlockCoinbaseFee(b))

(* check_block_amount. *)
CheckBlockAmount(b, h) ==
    /\ IsValidAmount(Reward(h))
    /\ \A t \in BlockTxs(b) : CheckTxAmount(t, h)
    /\ IsValidAmount(BlockFee(b)) /\ IsValidAmount(BlockCoinbaseFee(b))
    /\ BlockCoinbaseFee(b) <= Reward(h) + BlockFee(b)

-----------------------------------------------------------------------------
(***************************************************************************)
(* next(): the height and the difficulty of the next block.  At a retarget *)
(* it looks the attributes of the block one span back up under the HEIGHT  *)
(* key, which holds a block id and does not decode as attributes: an error.*)
(***************************************************************************)
NextHeight == IF best = NoBest THEN 0 ELSE best.height + 1

Retargets == best # NoBest /\ best.height # 0 /\ NextHeight % PowSpan = 0

CanNext ==
    (best # NoBest /\ best.height # 0) => battr[best.id] # NoAttr /\ ~Retargets

NextBits ==
    IF best = NoBest \/ best.height = 0 THEN Limit ELSE BlockData[best.id].bits

-----------------------------------------------------------------------------
(***************************************************************************)
(* link.                                                                   *)
(***************************************************************************)
\* mutant of LinkOk: the block may point to any other
LinkOkAnyParent(b) ==
    /\ BlockCheckValue(b)
    /\ battr[b] = NoAttr
    /\ CanNext /\ BlockData[b].bits = NextBits
    /\ best = NoBest => b = genesis
    /\ CheckBlockAmount(b, NextHeight)
    /\ \A t \in BlockTxs(b) : tattr[t] = NoTxAttr

\* mutant of LinkOk: a transaction may be in the index already
LinkOkSameTx(b) ==
    /\ BlockCheckValue(b)
    /\ battr[b] = NoAttr
    /\ CanNext /\ BlockData[b].bits = NextBits
    /\ IF best = NoBest THEN b = genesis
       ELSE CanGet(best.id) /\ Prev(b) = GetBlock(best.id)
    /\ CheckBlockAmount(b, NextHeight)

(* Everything link checks before it writes. *)
LinkOk(b) ==
    /\ BlockCheckValue(b)
    /\ battr[b] = NoAttr
    /\ CanNext /\ BlockData[b].bits = NextBits
    /\ IF best = NoBest THEN b = genesis
       ELSE CanGet(best.id) /\ Prev(b) = GetBlock(best.id)
    /\ CheckBlockAmount(b, NextHeight)
    /\ \A t \in BlockTxs(b) : tattr[t] = NoTxAttr

(* The blocks link reads: the top and those of the outputs referred to. *)
LinkReads(b) ==
    IF best = NoBest THEN {}
    ELSE {best.id} \cup {tattr[k[1]].blk : k \in BlockSpends(b)}

PosOf(b, t) == CHOOSE i \in DOMAIN Txs(b) : Txs(b)[i] = t

(* The coin write_tx_index writes for the output k of a block at height h. *)
MadeCoin(k, h) == [value |-> OutOf(k).value, cb |-> IsCoinbase(k[1]), height |-> h]

(* The undo batch of linking b: what was put is deleted, what was deleted  *)
(* or replaced is put back (IBatch::reverse).                              *)
UndoOf(b) ==
    [best |-> best, height |-> NextHeight, txs |-> BlockTxs(b),
     made |-> BlockMakes(b),
     spent |-> [k \in CoinKey |-> IF k \in BlockSpends(b) THEN coin[k] ELSE NoCoin]]

(* The batch link writes.  Its coin keys are distinct: a block cannot spend *)
(* what it makes, since its transactions are not in the index yet.          *)
WriteIndex(b) ==
    /\ best' = [id |-> b, height |-> NextHeight]
    /\ hidx' = [hidx EXCEPT ![NextHeight] = b]
    /\ battr' = [battr EXCEPT ![b] =
                    [height |-> NextHeight,
                     blk |-> PushAttr(blk, BlockData[b].len),
                     rev |-> PushAttr(rev, BlockData[b].revlen)]]
    /\ tattr' = [t \in Tx |-> IF t \in BlockTxs(b) THEN [blk |-> b, idx |-> PosOf(b, t)]
                              ELSE tattr[t]]
    /\ coin' = [k \in CoinKey |-> IF k \in BlockMakes(b) THEN MadeCoin(k, NextHeight)
                                  ELSE IF k \in BlockSpends(b) THEN NoCoin
                                  ELSE coin[k]]

(* The bounds of the model. *)
Room(b) ==
    /\ NextHeight \in Height
    /\ CheckNext(blk, BlockData[b].len).idx <= MaxFile
    /\ CheckNext(rev, BlockData[b].revlen).idx <= MaxFile

Link(b) ==
    /\ LinkOk(b)
    /\ CanPush(blk, BlockData[b].len) /\ CanPush(rev, BlockData[b].revlen)
    /\ Room(b)
    /\ cache' \in Cached(LinkReads(b))
    /\ blk' = Pushed(blk, b, BlockData[b].len)
    /\ rev' = Pushed(rev, UndoOf(b), BlockData[b].revlen)
    /\ WriteIndex(b)
    /\ PoolRemove(BlockTxs(b))
    /\ UNCHANGED genesis

(* link fails while it writes: in the block data, after k of its bytes, or  *)
(* after the block data in the undo data; when all k are written it is the  *)
(* batch that fails.  The database and the pool are untouched.              *)
LinkAborts(b) ==
    /\ LinkOk(b)
    /\ CanPush(blk, BlockData[b].len) /\ Room(b)
    /\ \/ /\ \E k \in 0..(BlockData[b].len - 1) : blk' = Torn(blk, b, BlockData[b].len, k)
          /\ UNCHANGED rev
       \/ /\ CanPush(rev, BlockData[b].revlen)
          /\ blk' = Pushed(blk, b, BlockData[b].len)
          /\ \E k \in 0..BlockData[b].revlen :
                rev' = Torn(rev, UndoOf(b), BlockData[b].revlen, k)
    /\ cache' \in Cached(LinkReads(b))
    /\ UNCHANGED <<genesis, dbVars, byid, byfee>>

-----------------------------------------------------------------------------
(***************************************************************************)
(* pop.                                                                    *)
(***************************************************************************)
\* mutant of WriteUndo: the coins the block made stay
WriteUndoKeepsMade(u) ==
    /\ best' = u.best
    /\ hidx' = [hidx EXCEPT ![u.height] = NoBlock]
    /\ tattr' = [t \in Tx |-> IF t \in u.txs THEN NoTxAttr ELSE tattr[t]]
    /\ coin' = [k \in CoinKey |-> IF u.spent[k] # NoCoin THEN u.spent[k] ELSE coin[k]]

\* mutant of WriteUndo: the block's transactions stay in the index
WriteUndoKeepsTxs(u) ==
    /\ best' = u.best
    /\ hidx' = [hidx EXCEPT ![u.height] = NoBlock]
    /\ tattr' = tattr
    /\ coin' = [k \in CoinKey |-> IF k \in u.made THEN NoCoin
                                  ELSE IF u.spent[k] # NoCoin THEN u.spent[k]
                                  ELSE coin[k]]

(* The undo batch read back from the store. *)
WriteUndo(u) ==
    /\ best' = u.best
    /\ hidx' = [hidx EXCEPT ![u.height] = NoBlock]
    /\ tattr' = [t \in Tx |-> IF t \in u.txs THEN NoTxAttr ELSE tattr[t]]
    /\ coin' = [k \in CoinKey |-> IF k \in u.made THEN NoCoin
                                  ELSE IF u.spent[k] # NoCoin THEN u.spent[k]
                                  ELSE coin[k]]

Pop ==
    /\ best # NoBest
    /\ best.id # genesis
    /\ LET a == battr[best.id]
       IN  /\ a # NoAttr
           /\ Readable(blk, a.blk) /\ Readable(rev, a.rev)
           /\ WriteUndo(Unpacked(rev, a.rev))
    /\ battr' = [battr EXCEPT ![best.id] = NoAttr]
    /\ cache' = cache \ {best.id}
    /\ UNCHANGED <<genesis, blk, rev, byid, byfee>>

(* pop fails when the batch is written: only the cache has changed.  Before *)
(* it, everything pop does leaves the state alone.                          *)
PopAborts ==
    /\ best # NoBest
    /\ best.id # genesis
    /\ LET a == battr[best.id]
       IN  a # NoAttr /\ Readable(blk, a.blk) /\ Readable(rev, a.rev)
    /\ cache' = cache \ {best.id}
    /\ UNCHANGED <<genesis, dbVars, blk, rev, byid, byfee>>

-----------------------------------------------------------------------------
(***************************************************************************)
(* The other operations.                                                   *)
(***************************************************************************)
SetGenesis(b) ==
    /\ best = NoBest
    /\ genesis' = b
    /\ UNCHANGED <<dbVars, blk, rev, cache, byid, byfee>>

(* append; the pool itself refuses a coinbase transaction. *)
AppendTx(t) ==
    /\ tattr[t] = NoTxAttr
    /\ TxCheckValue(t)
    /\ best # NoBest
    /\ CheckTxAmount(t, NextHeight)
    /\ AddToPool(t, TxFee(t))
    /\ cache' \in Cached({tattr[k[1]].blk : k \in Spends(t)})
    /\ UNCHANGED <<genesis, dbVars, blk, rev>>

RemoveTx(t) ==
    /\ DropFromPool(t)
    /\ UNCHANGED <<genesis, dbVars, blk, rev, cache>>

(* get, by id or through the height key. *)
Get(b) ==
    /\ CanGet(b)
    /\ cache' \in Cached({b})
    /\ UNCHANGED <<genesis, dbVars, blk, rev, byid, byfee>>

(* The positions a caller of load may have kept from attributes of b: b's    *)
(* data is there for good, though b may be popped since.  They include the  *)
(* position of a link whose batch failed, which no attributes name: the     *)
(* model allows more.                                                       *)
Kept(b) ==
    {a \in [idx : 0..blk.idx, off : 0..MaxFileSize, len : {BlockData[b].len}] :
        OnDisk(blk, a, b)}

(* load, with attributes of b that name the position a: b from the cache or *)
(* the files, whether it is on the chain or not.                            *)
Load(b, a) ==
    /\ b \in cache \/ Readable(blk, a)
    /\ cache' \in Cached({b})
    /\ UNCHANGED <<genesis, dbVars, blk, rev, byid, byfee>>

(* A new process: the database and the files stay, the rest is made anew. *)
Restart ==
    /\ genesis' = ConfGenesis
    /\ blk' = Reopened(blk) /\ rev' = Reopened(rev)
    /\ cache' = {}
    /\ byid' = {} /\ byfee' = <<>>
    /\ UNCHANGED dbVars

(* coins lists an account's coins: those under its keys, sorted by height, *)
(* then the outputs the pool's transactions pay to it, which are marked as  *)
(* not to be spent yet (BlkIndexer::coins, TxPool::coins).                  *)
Coins(a)     == {k \in CoinKey : coin[k] # NoCoin /\ OutOf(k).addr = a}
PoolCoins(a) == {k \in UNION {Makes(t) : t \in byid} : OutOf(k).addr = a}

(* The input TxHelper makes of a listed coin. *)
CoinIn(k) == [out |-> k[1], idx |-> k[2], addr |-> OutOf(k).addr]

Next ==
    \/ \E b \in Block : Link(b)
    \/ \E b \in Aborting : LinkAborts(b)
    \/ Pop \/ PopAborts
    \/ \E b \in Chosen : SetGenesis(b)
    \/ \E t \in Submitted : AppendTx(t)
    \/ \E t \in Submitted : RemoveTx(t)
    \/ \E b \in Block : Get(b)
    \/ \E b \in Block : \E a \in Kept(b) : Load(b, a)
    \/ Restart

Spec == Init /\ [][Next]_vars

-----------------------------------------------------------------------------
(***************************************************************************)
(* Properties.                                                             *)
(***************************************************************************)
OnChain(b) == battr[b] # NoAttr
Linked == {t \in Tx : tattr[t] # NoTxAttr}
HeightOf(t) == battr[tattr[t].blk].height

(* Undo batches. *)
Undo ==
    [best : Best \cup {NoBest}, height : Height, txs : SUBSET Tx, made : SUBSET CoinKey,
     spent : [CoinKey -> CoinAttr \cup {NoCoin}]]

TypeOK ==
    /\ genesis \in Block \cup {NoBlock}
    /\ best \in Best \cup {NoBest}
    /\ hidx \in [Height -> Block \cup {NoBlock}]
    /\ battr \in [Block -> BlkAttr \cup {NoAttr}]
    /\ tattr \in [Tx -> TxAttr \cup {NoTxAttr}]
    /\ coin \in [CoinKey -> CoinAttr \cup {NoCoin}]
    /\ IsStore(blk, Block) /\ IsStore(rev, Undo)
    /\ cache \subseteq Block
    /\ byid \subseteq Submitted

(* The entries link writes and pop removes under three kinds of key stay    *)
(* one chain: the heights up to the best one, and no other, hold blocks     *)
(* that point to one another, the last of them the best; and the blocks     *)
(* with attributes are these, each at its height (link, pop).               *)
ChainShape ==
    /\ \A h \in Height : hidx[h] # NoBlock <=> (best # NoBest /\ h <= best.height)
    /\ best # NoBest => hidx[best.height] = best.id
    /\ \A h \in Height : h > 0 /\ hidx[h] # NoBlock => Prev(hidx[h]) = hidx[h - 1]
    /\ \A b \in Block, h \in Height : hidx[h] = b <=> (OnChain(b) /\ battr[b].height = h)

(* Every transaction of a block of the chain is indexed at its own place in *)
(* it, and none is that belongs to no such block, also after siblings that  *)
(* share a coinbase were linked and popped (link's txid entries, pop).      *)
TxIndexExact ==
    /\ \A b \in Block : OnChain(b) =>
          \A i \in DOMAIN Txs(b) : tattr[Txs(b)[i]] = [blk |-> b, idx |-> i]
    /\ \A t \in Linked : OnChain(tattr[t].blk) /\ t \in BlockTxs(tattr[t].blk)

(* The coins of the database are exactly the outputs of the chain that no   *)
(* transaction of the chain spends, each with the value, the kind and the   *)
(* height it was made with: undoing a block gives back the coins it spent   *)
(* as they were and takes away those it made (write_tx_index, pop).         *)
CoinsExact ==
    \A k \in CoinKey :
        coin[k] = IF k[1] \in Linked /\ \A t \in Linked : k \notin Spends(t)
                  THEN MadeCoin(k, HeightOf(k[1])) ELSE NoCoin

(* What an input of the chain spends was made below it, a coinbase output   *)
(* at least Maturity blocks below, and nothing is spent twice.              *)
SpentOnceAndMature ==
    \A t \in Linked : \A k \in Spends(t) :
        /\ k[1] \in Linked /\ HeightOf(k[1]) < HeightOf(t)
        /\ IsCoinbase(k[1]) => HeightOf(t) - HeightOf(k[1]) >= Maturity
        /\ \A u \in Linked \ {t} : k \notin Spends(u)

(* What pop would write: the entries of b taken away, the ones it replaced  *)
(* or deleted put back.                                                     *)
UndoFor(b) ==
    LET h == battr[b].height
    IN  [best |-> IF h = 0 THEN NoBest ELSE [id |-> hidx[h - 1], height |-> h - 1],
         height |-> h, txs |-> BlockTxs(b), made |-> BlockMakes(b),
         spent |-> [k \in CoinKey |-> IF k \in BlockSpends(b)
                                       THEN MadeCoin(k, HeightOf(k[1])) ELSE NoCoin]]

(* Every block of the chain can be read back and undone: its positions      *)
(* refer, on disk, to its own data and to the undo batch that leads to the  *)
(* chain below it, whatever failed writes, pops and restarts came between   *)
(* (link's two pushes, pop).                                                *)
UndoOnDisk ==
    \A b \in Block : OnChain(b) =>
        /\ OnDisk(blk, battr[b].blk, b)
        /\ OnDisk(rev, battr[b].rev, UndoFor(b))

(* The coins never add up to more than the rewards of the chain's blocks:   *)
(* fees are not money, and no reorganisation makes any (check_block_amount, *)
(* compute_reward).                                                         *)
SupplyBounded ==
    SumFunction([k \in CoinKey |-> IF coin[k] = NoCoin THEN 0 ELSE coin[k].value])
        <= SumFunction([h \in Height |-> IF hidx[h] = NoBlock THEN 0 ELSE Reward(h)])

(* No coin is listed twice, and one listed as valid at the next height is   *)
(* good there: an input made of it passes all that link asks of inputs, as  *)
(* long as the coin's block can be read (coins, is_valid, check_tx_amount). *)
ListedCoinsSpend ==
    \A a \in Address :
        /\ Coins(a) \cap PoolCoins(a) = {}
        /\ \A k \in Coins(a) : IsValidCoin(coin[k], NextHeight) =>
              /\ tattr[k[1]] # NoTxAttr
              /\ CanGet(tattr[k[1]].blk) => SpendOk(CoinIn(k), NextHeight)

(* A transaction of the pool is not in the chain: append refuses those that *)
(* are, link takes out those that get there (append, link).                 *)
PoolNotLinked == byid \cap Linked = {}

(* Popped blocks come back into the cache through load.  Still an input     *)
(* resolves only to the transaction it names, at its place in a block of    *)
(* the chain, through index, cache and files, whatever was popped, linked   *)
(* again or loaded before (pop, load, get_txin_ref_txout).                  *)
InputsResolve ==
    \A k \in CoinKey : CanRef(k) => RefTx(k) = k[1] /\ OnChain(tattr[k[1]].blk)

(* Every behaviour of the indexer is one of the ledger, which has no index: *)
(* the chain is what the height keys list (link, pop, Restart).             *)
Ledger == INSTANCE Ledger WITH chain <- [i \in 1..NextHeight |-> hidx[i - 1]]
ImplementsLedger == Ledger!LedgerSpec

-----------------------------------------------------------------------------
(* The pool "stores the VALID transactions that are about to enter a block" *)
(* (index.rs:300): every coin its transactions spend can be spent next.     *)
PoolStaysValid ==
    \A t \in byid : \A k \in Spends(t) : HasCoin(k) /\ IsValidCoin(coin[k], NextHeight)

(* next() "gets the difficulty, the height and the current id of the next   *)
(* block" (index.rs:1046): it answers whatever the height.                  *)
NextAnswers == CanNext
=============================================================================
