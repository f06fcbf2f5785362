-------------------------------- MODULE Blocks --------------------------------
(***************************************************************************)
(* Blocks and transactions (block.rs) and the checks that need nothing but *)
(* their contents.  The id of a block or a transaction is a hash of its    *)
(* contents, so contents are constant functions of ids: BlockData[b],      *)
(* TxData[t].  What the checks only read as "well formed or not" (scripts, *)
(* merkle root, time stamp, encoded size, proof of work, signatures) is a  *)
(* Boolean of those records.  Positions in sequences count from 1, where   *)
(* the code's indexes count from 0.                                        *)
(***************************************************************************)
EXTENDS Integers, Sequences, FiniteSets, Functions

CONSTANTS
    Block, Tx, Address,     \* ids of blocks and transactions, account addresses
    NoBlock, NoTx,          \* the zero hash, as a block id and as a transaction id
    BlockData, TxData,      \* contents of each id
    MaxMoney,               \* MAX_MONEY
    InitReward,             \* the reward of block 0 (50 coins)
    Halving,                \* Config.halving: blocks between halvings
    Maturity                \* COINBASE_MATURITY

TxIn  == [out : Tx \cup {NoTx}, idx : Nat, addr : Address]
TxOut == [addr : Address, value : Int]

ASSUME BlocksAssumption ==
    /\ NoBlock \notin Block
    /\ NoTx \notin Tx
    /\ IsFiniteSet(Tx)     \* an id is a hash of 32 bytes
    /\ MaxMoney \in Nat /\ InitReward \in Nat /\ Maturity \in Nat
    /\ Halving \in Nat \ {0}
    /\ \A b \in Block :
          BlockData[b] \in [prev : Block \cup {NoBlock}, txs : Seq(Tx), bits : Nat,
                            ok : BOOLEAN, len : Nat, revlen : Nat]
    /\ \A t \in Tx :
          TxData[t] \in [ins : Seq(TxIn), outs : Seq(TxOut), ok : BOOLEAN, sigs : BOOLEAN]

Prev(b) == BlockData[b].prev
Txs(b)  == BlockData[b].txs
Ins(t)  == TxData[t].ins
Outs(t) == TxData[t].outs

BlockTxs(b) == {Txs(b)[i] : i \in DOMAIN Txs(b)}

-----------------------------------------------------------------------------
(* The key of the output an input refers to (TxIn::out_key). *)
OutKey(inv) == <<inv.out, inv.idx>>

IsCoinbaseIn(inv) == inv.out = NoTx

IsCoinbase(t) == Ins(t) # <<>> /\ IsCoinbaseIn(Ins(t)[1])

(* The inputs that spend a coin, the coins they spend, the coins made. *)
CostIns(t) == {i \in DOMAIN Ins(t) : ~IsCoinbaseIn(Ins(t)[i])}
Spends(t)  == {OutKey(Ins(t)[i]) : i \in CostIns(t)}
Makes(t)   == {<<t, i>> : i \in DOMAIN Outs(t)}

BlockSpends(b) == UNION {Spends(t) : t \in BlockTxs(b)}
BlockMakes(b)  == UNION {Makes(t) : t \in BlockTxs(b)}

(* Every coin there can be; a key holds its output's address as well, which *)
(* the key's transaction determines.                                        *)
CoinKey == UNION {Makes(t) : t \in Tx}
OutOf(k) == Outs(k[1])[k[2]]

-----------------------------------------------------------------------------
IsValidAmount(v) == 0 <= v /\ v <= MaxMoney

OutSum(t) == SumFunction([i \in DOMAIN Outs(t) |-> Outs(t)[i].value])

(* Tx::check_value. *)
TxCheckValue(t) ==
    /\ TxData[t].ok
    /\ Ins(t) # <<>> /\ Outs(t) # <<>>
    /\ IsCoinbase(t) => Len(Ins(t)) = 1
    /\ \A i, j \in DOMAIN Ins(t) : i # j => OutKey(Ins(t)[i]) # OutKey(Ins(t)[j])
    /\ \A i \in DOMAIN Outs(t) : IsValidAmount(Outs(t)[i].value)
    /\ IsValidAmount(OutSum(t))

(* Block::check_coinbase: the first transaction has the coinbase input alone. *)
CheckCoinbase(b) ==
    /\ Txs(b) # <<>>
    /\ Len(Ins(Txs(b)[1])) = 1
    /\ IsCoinbase(Txs(b)[1])

(* BlkIndexer::compute_reward; Halved[n] is the first reward shifted right  *)
(* by n bits.                                                              *)
Halved[n \in 0..63] == IF n = 0 THEN InitReward ELSE Halved[n - 1] \div 2

Reward(h) ==
    LET hlv == h \div Halving
    IN  IF hlv >= 64 THEN 0 ELSE Halved[hlv]

-----------------------------------------------------------------------------
\* mutant of CheckRepCostCoin: only the inputs of one transaction are compared
CheckRepCostCoinWithin(b) ==
    \A m \in DOMAIN Txs(b) : \A i, j \in DOMAIN Ins(Txs(b)[m]) :
        i # j => OutKey(Ins(Txs(b)[m])[i]) # OutKey(Ins(Txs(b)[m])[j])

(* Block::check_rep_cost_coin: no output is referred to by two inputs. *)
CheckRepCostCoin(b) ==
    \A m, n \in DOMAIN Txs(b) :
        \A i \in DOMAIN Ins(Txs(b)[m]), j \in DOMAIN Ins(Txs(b)[n]) :
            <<m, i>> # <<n, j>> => OutKey(Ins(Txs(b)[m])[i]) # OutKey(Ins(Txs(b)[n])[j])

(* Block::check_value; header, merkle root and size are BlockData[b].ok. *)
BlockCheckValue(b) ==
    /\ BlockData[b].ok
    /\ CheckCoinbase(b)
    /\ CheckRepCostCoin(b)
    /\ \A t \in BlockTxs(b) : TxCheckValue(t)
    /\ Cardinality({i \in DOMAIN Txs(b) : IsCoinbase(Txs(b)[i])}) = 1
=============================================================================
