------------------------------- MODULE MCChain -------------------------------
(* Two branches on the genesis block g: a1 - a2, and b1; a2 spends the      *)
(* genesis coin (t1), b1 has the coinbase of a2, and of m1, which           *)
(* new_link_block makes on g.  Coinbases mature in one block.               *)
EXTENDS Chain

CONSTANTS g, a1, a2, b1, m1, cg, c1, c2, t1, alice, p1, p2

MCBlock == {g, a1, a2, b1, m1}
MCTx == {cg, c1, c2, t1}

In(t, i) == [out |-> t, idx |-> i, addr |-> alice]
TxOf(in, v) ==
    [ins |-> <<in>>, outs |-> <<[addr |-> alice, value |-> v]>>, ok |-> TRUE, sigs |-> TRUE]

MCTxData ==
    [t \in MCTx |-> IF t = t1 THEN TxOf(In(cg, 1), 3) ELSE TxOf(In(NoTx, 1), 4)]

BlockOf(p, ts) ==
    [prev |-> p, txs |-> ts, bits |-> 1, ok |-> TRUE, len |-> 1, revlen |-> 1]

MCBlockData ==
    [b \in MCBlock |->
        CASE b = g  -> BlockOf(NoBlock, <<cg>>)
          [] b = a1 -> BlockOf(g, <<c1>>)
          [] b = a2 -> BlockOf(a1, <<c2, t1>>)
          [] b = b1 -> BlockOf(g, <<c2, t1>>)
          [] b = m1 -> BlockOf(g, <<c2>>)]
=============================================================================
