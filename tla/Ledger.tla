-------------------------------- MODULE Ledger --------------------------------
(***************************************************************************)
(* What the block indexer promises, without a database: a chain of blocks  *)
(* that grows by a block the chain accepts and shrinks by its last one.    *)
(* Whether a coin can be spent is read off the blocks themselves.          *)
(***************************************************************************)
EXTENDS Blocks, SequencesExt

VARIABLE chain      \* the blocks, from the genesis block up

ChainTxs(c) == UNION {BlockTxs(c[i]) : i \in DOMAIN c}
HeightIn(c, t) == (CHOOSE i \in DOMAIN c : t \in BlockTxs(c[i])) - 1

Unspent(c, k) ==
    /\ k[1] \in ChainTxs(c) /\ k \in Makes(k[1])
    /\ \A t \in ChainTxs(c) : k \notin Spends(t)

Spendable(c, k, h) ==
    Unspent(c, k) /\ (IsCoinbase(k[1]) => h - HeightIn(c, k[1]) >= Maturity)

Paid(t) == SumFunction([k \in Spends(t) |-> OutOf(k).value])

(* The coins spent exist, once each, and belong to who spends them; the     *)
(* block makes no more money than its reward.                               *)
Accepts(c, b) ==
    LET h == Len(c)
        ordinary == {t \in BlockTxs(b) : ~IsCoinbase(t)}
        minted == BlockTxs(b) \ ordinary
    IN  /\ c # <<>> => Prev(b) = Last(c)
        /\ BlockTxs(b) \cap ChainTxs(c) = {}
        /\ Cardinality(BlockTxs(b)) = Len(Txs(b)) /\ Cardinality(minted) = 1
        /\ \A t \in BlockTxs(b) : \A k \in Spends(t) :
              /\ Spendable(c, k, h)
              /\ \A u \in BlockTxs(b) \ {t} : k \notin Spends(u)
        /\ \A t \in BlockTxs(b) : \A i \in CostIns(t) :
              Ins(t)[i].addr = OutOf(OutKey(Ins(t)[i])).addr
        /\ \A t \in ordinary : OutSum(t) <= Paid(t)
        /\ SumFunction([t \in minted |-> OutSum(t)])
             <= Reward(h) + SumFunction([t \in ordinary |-> Paid(t) - OutSum(t)])

Extend(b) == Accepts(chain, b) /\ chain' = Append(chain, b)

Retract == chain # <<>> /\ chain' = Front(chain)

LedgerSpec ==
    /\ chain = <<>>
    /\ [][(\E b \in Block : Extend(b)) \/ Retract]_chain
=============================================================================
