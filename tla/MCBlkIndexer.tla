----------------------------- MODULE MCBlkIndexer -----------------------------
(***************************************************************************)
(* A universe of blocks around two branches on the genesis block g:        *)
(*   g - a1 - a2 - a3     a2 spends the genesis coin (t1), a3 spends an    *)
(*                        output of t1 (t3) and the coinbase of a1 (t4)    *)
(*   g - b1 - b2          b1 has the coinbase of a1, b2 spends the genesis *)
(*                        coin otherwise (t2)                              *)
(* and blocks that link must refuse, each for one reason.  The reward      *)
(* halves at height 2, coinbases mature in two blocks.                     *)
(***************************************************************************)
EXTENDS BlkIndexer

CONSTANTS g, a1, a2, a3, b1, b2,
    twice,      \* on a1: t1 and t2 spend the same coin
    greedy,     \* on a1: the coinbase takes more than the reward
    young,      \* on a1: spends the coinbase of a1
    again,      \* on a2: t2 spends what t1 spent
    thief,      \* on a1: t5 pays out more than it spends
    inner,      \* on a1: t3 spends an output of t1, in the same block
    same,       \* on b2: repeats the coinbase of b2
    lone        \* on nothing: a second first block
CONSTANTS cg, c1, c2, c2f, c3, t1, t2, t3, t4, t5, alice, bob

MCBlock == {g, a1, a2, a3, b1, b2, twice, greedy, young, again, thief, inner, same, lone}
MCTx == {cg, c1, c2, c2f, c3, t1, t2, t3, t4, t5}

In(t, i, a) == [out |-> t, idx |-> i, addr |-> a]
Out(a, v)   == [addr |-> a, value |-> v]
TxOf(ins, outs) == [ins |-> ins, outs |-> outs, ok |-> TRUE, sigs |-> TRUE]
Coinbase(v) == TxOf(<<In(NoTx, 1, alice)>>, <<Out(alice, v)>>)

MCTxData ==
    [t \in MCTx |->
        CASE t \in {cg, c1} -> Coinbase(4)
          [] t \in {c2, c3} -> Coinbase(2)
          [] t = c2f -> Coinbase(3)
          [] t = t1 -> TxOf(<<In(cg, 1, alice)>>, <<Out(bob, 2), Out(alice, 1)>>)
          [] t = t2 -> TxOf(<<In(cg, 1, alice)>>, <<Out(bob, 4)>>)
          [] t = t3 -> TxOf(<<In(t1, 1, bob)>>, <<Out(alice, 2)>>)
          [] t = t4 -> TxOf(<<In(c1, 1, alice)>>, <<Out(bob, 4)>>)
          [] t = t5 -> TxOf(<<In(cg, 1, alice)>>, <<Out(bob, 6)>>)]

BlockOf(p, ts) ==
    [prev |-> p, txs |-> ts, bits |-> 1, ok |-> TRUE, len |-> 1, revlen |-> 1]

MCBlockData ==
    [b \in MCBlock |->
        CASE b = g      -> BlockOf(NoBlock, <<cg>>)
          [] b = a1     -> BlockOf(g, <<c1>>)
          [] b = b1     -> BlockOf(g, <<c1>>)
          [] b = a2     -> BlockOf(a1, <<c2f, t1>>)
          [] b = b2     -> BlockOf(b1, <<c2, t2>>)
          [] b = a3     -> BlockOf(a2, <<c3, t3, t4>>)
          [] b = twice  -> BlockOf(a1, <<c2, t1, t2>>)
          [] b = greedy -> BlockOf(a1, <<c2f>>)
          [] b = young  -> BlockOf(a1, <<c2, t4>>)
          [] b = again  -> BlockOf(a2, <<c3, t2>>)
          [] b = thief  -> BlockOf(a1, <<c2, t5>>)
          [] b = inner  -> BlockOf(a1, <<c2, t1, t3>>)
          [] b = same   -> BlockOf(b2, <<c2>>)
          [] b = lone   -> BlockOf(NoBlock, <<cg>>)]

(* The same blocks, of two bytes each, so that they can be torn. *)
MCLongBlockData ==
    [b \in Block |-> [MCBlockData[b] EXCEPT !.len = 2, !.revlen = 2]]
=============================================================================
